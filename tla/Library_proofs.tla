---------------------------- MODULE Library_proofs ----------------------------
(***************************************************************************)
(* Proofs about PlaybackQueue and Catalogue.                               *)
(*                                                                         *)
(* The queue: no medium is queued twice whatever requests interleave, and  *)
(* a rewrite that nobody disturbed does what was asked for.  A queue is a  *)
(* sequence without repetition (Queues), each edit of a route makes one of *)
(* another, and a lemma for each says what becomes of its members, their   *)
(* order and the current medium.  What a request is about to write is the  *)
(* edit of what it has read (Computed), so nothing is lost by the awaits   *)
(* in between as long as nobody else has written.                          *)
(*                                                                         *)
(* The tree: under one administrator at a time the tree stays without a    *)
(* cycle, every subtree on the tier of its root and the orders of siblings *)
(* distinct; under any number, the cover of every row stays on the disk.   *)
(* The invariant says of a request what it has made sure of before it      *)
(* writes.  What is below a category is the least set closed under         *)
(* children, so a change of one row changes it in a way that follows from  *)
(* that definition, without induction over the depth.                      *)
(***************************************************************************)
EXTENDS PlaybackQueue, Catalogue, FiniteSetTheorems, SequenceTheorems, TLAPS

-----------------------------------------------------------------------------
(* Queues *)

\* A queue is a sequence of media without repetition; that bounds its length.
LEMMA QueuesAre ==
    ASSUME NEW q
    PROVE  q \in Queues <=> q \in Seq(Media) /\ IsInjective(q)
  <1>1. Cardinality(Media) \in Nat
    BY MediaAssumption, FS_CardinalityType
  <1>2. ASSUME q \in Queues
        PROVE  q \in Seq(Media) /\ IsInjective(q)
    <2>1. PICK n \in 0..Cardinality(Media) : q \in [1..n -> Media]
      BY <1>2 DEF Queues, SeqOf
    <2>2. n \in Nat
      BY <1>1
    <2> QED
      BY <1>2, <2>1, <2>2 DEF Queues
  <1>3. ASSUME q \in Seq(Media), IsInjective(q)
        PROVE  q \in Queues
    <2>1. Len(q) \in Nat /\ q \in [1..Len(q) -> Media]
      BY <1>3
    <2>2. q \in Injection(1..Len(q), Media)
      BY <1>3, <2>1 DEF Injection, IsInjective
    <2>3. Cardinality(1..Len(q)) <= Cardinality(Media)
      BY <2>2, MediaAssumption, FS_Injection
    <2>4. Cardinality(1..Len(q)) = Len(q)
      BY <2>1, FS_Interval
    <2>5. Len(q) \in 0..Cardinality(Media)
      BY <1>1, <2>1, <2>3, <2>4
    <2> QED
      BY <1>3, <2>1, <2>5 DEF Queues, SeqOf
  <1> QED
    BY <1>2, <1>3

LEMMA QueueFacts ==
    ASSUME NEW q \in Queues
    PROVE  /\ q \in Seq(Media) /\ Len(q) \in Nat /\ DOMAIN q = 1..Len(q)
           /\ \A k \in 1..Len(q) : q[k] \in Media /\ q[k] \in Range(q)
           /\ \A j, k \in 1..Len(q) : q[j] = q[k] => j = k
           /\ \A m : m \in Range(q) => m \in Media /\ \E k \in 1..Len(q) : q[k] = m
           /\ q = <<>> <=> Len(q) = 0
  <1>1. q \in Seq(Media) /\ IsInjective(q)
    BY QueuesAre
  <1>2. Len(q) \in Nat /\ DOMAIN q = 1..Len(q) /\ \A k \in 1..Len(q) : q[k] \in Media
    BY <1>1
  <1>3. q = <<>> <=> Len(q) = 0
    BY <1>1
  <1> QED
    BY <1>1, <1>2, <1>3 DEF IsInjective, Range

LEMMA EmptyQueue == <<>> \in Queues /\ Range(<<>>) = {} /\ Len(<<>>) = 0
  <1>1. <<>> \in Seq(Media) /\ IsInjective(<<>>) /\ DOMAIN <<>> = {}
    BY DEF IsInjective
  <1> QED
    BY <1>1, QueuesAre DEF Range

\* In a sequence without repetition an id stands at one place.
LEMMA QueueOf ==
    ASSUME NEW n \in Nat, NEW q \in [1..n -> Media],
           \A j, k \in 1..n : q[j] = q[k] => j = k
    PROVE  q \in Queues /\ Len(q) = n
  <1>1. q \in Seq(Media) /\ Len(q) = n /\ DOMAIN q = 1..n
    OBVIOUS
  <1>2. IsInjective(q)
    BY <1>1 DEF IsInjective
  <1> QED
    BY <1>1, <1>2, QueuesAre

LEMMA IndexOfAt ==
    ASSUME NEW q \in Queues, NEW k \in 1..Len(q)
    PROVE  IndexOf(q, q[k]) = k - 1
  <1>1. DOMAIN q = 1..Len(q) /\ \A j \in 1..Len(q) : q[j] = q[k] => j = k
    BY QueueFacts
  <1>2. (CHOOSE j \in DOMAIN q : q[j] = q[k]) = k
    BY <1>1
  <1> QED
    BY <1>2 DEF IndexOf

LEMMA IndexOfIs ==
    ASSUME NEW q \in Queues, NEW m \in Range(q)
    PROVE  /\ IndexOf(q, m) \in 0..(Len(q) - 1) /\ q[IndexOf(q, m) + 1] = m
           /\ IndexOf(q, m) \in Nat /\ IndexOf(q, m) + 1 \in 1..Len(q)
  <1>1. PICK k \in 1..Len(q) : q[k] = m
    BY QueueFacts
  <1>2. IndexOf(q, m) = k - 1
    BY <1>1, IndexOfAt
  <1>3. Len(q) \in Nat
    BY QueueFacts
  <1> QED
    BY <1>1, <1>2, <1>3

\* As many distinct ids of a queue as the queue has are all of them.
LEMMA Pigeonhole ==
    ASSUME NEW p \in Queues, NEW q \in Queues, SameMembers(p, q)
    PROVE  Range(p) = Range(q)
  <1>1. Len(p) = Len(q) /\ Range(p) \subseteq Range(q)
    BY DEF SameMembers
  <1>2. ASSUME NEW s \in Queues
        PROVE  IsFiniteSet(Range(s)) /\ Cardinality(Range(s)) = Len(s)
    <2>1. Len(s) \in Nat /\ s \in [1..Len(s) -> Range(s)]
      BY QueueFacts DEF Range
    <2>2. s \in Surjection(1..Len(s), Range(s))
      BY <2>1, QueueFacts DEF Surjection
    <2>3. s \in Injection(1..Len(s), Range(s))
      BY <2>1, QueueFacts DEF Injection, IsInjective
    <2>4. IsFiniteSet(1..Len(s)) /\ Cardinality(1..Len(s)) = Len(s)
      BY <2>1, FS_Interval
    <2> QED
      BY <2>2, <2>3, <2>4, FS_Surjection
  <1> QED
    BY <1>1, <1>2, FS_Subset

-----------------------------------------------------------------------------
(* Indices *)

LEMMA MinOfTwo ==
    ASSUME NEW a \in Int, NEW b \in Int
    PROVE  Min({a, b}) = IF a <= b THEN a ELSE b
  <1> DEFINE m == IF a <= b THEN a ELSE b
  <1>1. m \in {a, b} /\ \A y \in {a, b} : m =< y
    OBVIOUS
  <1>2. \A x \in {a, b} : (\A y \in {a, b} : x =< y) => x = m
    OBVIOUS
  <1> QED
    BY <1>1, <1>2 DEF Min

LEMMA MaxOfTwo ==
    ASSUME NEW a \in Int, NEW b \in Int
    PROVE  Max({a, b}) = IF a >= b THEN a ELSE b
  <1> DEFINE m == IF a >= b THEN a ELSE b
  <1>1. m \in {a, b} /\ \A y \in {a, b} : m >= y
    OBVIOUS
  <1>2. \A x \in {a, b} : (\A y \in {a, b} : x >= y) => x = m
    OBVIOUS
  <1> QED
    BY <1>1, <1>2 DEF Max

LEMMA ClampIs ==
    ASSUME NEW q \in Queues, NEW i \in Int
    PROVE  /\ q = <<>> => Clamp(q, i) = 0
           /\ q # <<>> => Clamp(q, i) = IF i < 0 THEN 0 ELSE IF i <= Len(q) - 1 THEN i ELSE Len(q) - 1
           /\ q # <<>> => Clamp(q, i) \in 0..(Len(q) - 1)
           /\ Clamp(q, i) \in Nat
  <1>1. Len(q) \in Nat /\ (q = <<>> <=> Len(q) = 0)
    BY QueueFacts
  <1>2. Max({i, 0}) = IF i >= 0 THEN i ELSE 0
    BY MaxOfTwo
  <1>3. Max({i, 0}) \in Int /\ Len(q) - 1 \in Int
    BY <1>1, <1>2
  <1>4. Min({Max({i, 0}), Len(q) - 1}) = IF Max({i, 0}) <= Len(q) - 1 THEN Max({i, 0}) ELSE Len(q) - 1
    BY <1>3, MinOfTwo
  <1> QED
    BY <1>1, <1>2, <1>4 DEF Clamp

LEMMA StoredType ==
    ASSUME NEW i \in Nat \union {NoMedium}
    PROVE  Stored(i) \in Nat
  BY DEF Stored

LEMMA MediumAtIs ==
    ASSUME NEW q \in Queues, NEW i \in Nat \union {NoMedium}
    PROVE  /\ q = <<>> => MediumAt(q, i) = NoMedium
           /\ q # <<>> => /\ Clamp(q, Stored(i)) + 1 \in 1..Len(q)
                          /\ MediumAt(q, i) = q[Clamp(q, Stored(i)) + 1]
                          /\ MediumAt(q, i) \in Range(q) /\ MediumAt(q, i) \in Media
                          /\ MediumAt(q, i) # NoMedium
                          /\ IndexOf(q, MediumAt(q, i)) = Clamp(q, Stored(i))
           /\ MediumAt(q, i) # NoMedium => q # <<>>
           /\ MediumAt(q, i) \in Media \union {NoMedium}
  <1>1. CASE q = <<>>
    BY <1>1 DEF MediumAt
  <1>2. CASE q # <<>>
    <2> DEFINE c == Clamp(q, Stored(i))
    <2>0. Stored(i) \in Int
      BY StoredType
    <2>1. c \in 0..(Len(q) - 1) /\ Len(q) \in Nat
      BY <1>2, <2>0, ClampIs, QueueFacts
    <2>2. c + 1 \in 1..Len(q) /\ (c + 1) - 1 = c
      BY <2>1
    <2>3. MediumAt(q, i) = q[c + 1]
      BY <1>2 DEF MediumAt, At0
    <2>4. IndexOf(q, q[c + 1]) = c
      BY <2>2, IndexOfAt
    <2> HIDE DEF c
    <2>5. q[c + 1] \in Media /\ q[c + 1] \in Range(q)
      BY <2>2, QueueFacts
    <2> QED
      BY <1>2, <2>2, <2>3, <2>4, <2>5, MediaAssumption DEF c
  <1> QED
    BY <1>1, <1>2

\* The player stands where the index was set to.
LEMMA StartIndexIs ==
    ASSUME NEW q \in Queues, NEW m
    PROVE  /\ StartIndex(q, m) \in Nat
           /\ m \in Range(q) => MediumAt(q, StartIndex(q, m)) = m
  <1>1. CASE m \in Range(q)
    <2>1. /\ StartIndex(q, m) = IndexOf(q, m) /\ IndexOf(q, m) \in 0..(Len(q) - 1)
          /\ q[IndexOf(q, m) + 1] = m /\ IndexOf(q, m) \in Nat
      BY <1>1, IndexOfIs DEF StartIndex, Has
    <2>2. Stored(IndexOf(q, m)) = IndexOf(q, m)
      BY <2>1, MediaAssumption DEF Stored
    <2>3. q # <<>> /\ Len(q) \in Nat
      BY <1>1, QueueFacts, EmptyQueue
    <2>4. Clamp(q, IndexOf(q, m)) = IndexOf(q, m)
      BY <2>1, <2>3, ClampIs
    <2> QED
      BY <2>1, <2>2, <2>3, <2>4 DEF MediumAt, At0
  <1>2. CASE m \notin Range(q)
    BY <1>2 DEF StartIndex, Has
  <1> QED
    BY <1>1, <1>2
-----------------------------------------------------------------------------
(* Removing, inserting, appending and reordering *)

LEMMA RemoveAtIs ==
    ASSUME NEW q \in Queues, NEW j \in 1..Len(q)
    PROVE  /\ RemoveAt(q, j) \in Queues /\ Len(RemoveAt(q, j)) = Len(q) - 1
           /\ \A k \in 1..(Len(q) - 1) : RemoveAt(q, j)[k] = IF k < j THEN q[k] ELSE q[k + 1]
           /\ Range(RemoveAt(q, j)) = Range(q) \ {q[j]}
  <1> DEFINE s == RemoveAt(q, j)
             n == Len(q)
             left == SubSeq(q, 1, j - 1)
             right == SubSeq(q, j + 1, n)
  <1>1. q \in Seq(Media) /\ n \in Nat /\ \A k \in 1..n : q[k] \in Media
    BY QueueFacts
  <1>2. left \in Seq(Media) /\ Len(left) = j - 1 /\ \A k \in 1..(j - 1) : left[k] = q[k]
    BY <1>1, SubSeqProperties
  <1>3. right \in Seq(Media) /\ Len(right) = n - j /\ \A k \in 1..(n - j) : right[k] = q[k + j]
    BY <1>1, SubSeqProperties
  <1>a. s = left \o right
    BY DEF RemoveAt
  <1> HIDE DEF s, left, right
  <1>b. /\ s \in Seq(Media) /\ Len(s) = Len(left) + Len(right)
        /\ \A k \in 1..(Len(left) + Len(right)) :
              s[k] = IF k <= Len(left) THEN left[k] ELSE right[k - Len(left)]
    BY <1>2, <1>3, <1>a, ConcatProperties
  <1>c. Len(left) + Len(right) = n - 1
    BY <1>1, <1>2, <1>3
  <1>4. /\ s \in Seq(Media) /\ Len(s) = n - 1
        /\ \A k \in 1..(n - 1) : s[k] = IF k <= j - 1 THEN left[k] ELSE right[k - (j - 1)]
    BY <1>2, <1>b, <1>c
  <1>5. \A k \in 1..(n - 1) : s[k] = IF k < j THEN q[k] ELSE q[k + 1]
    <2> SUFFICES ASSUME NEW k \in 1..(n - 1)
                 PROVE  s[k] = IF k < j THEN q[k] ELSE q[k + 1]
      OBVIOUS
    <2>1. CASE k < j
      BY <1>1, <1>2, <1>4, <2>1
    <2>2. CASE ~(k < j)
      <3>1. k - (j - 1) \in 1..(n - j) /\ (k - (j - 1)) + j = k + 1 /\ ~(k <= j - 1)
        BY <1>1, <2>2
      <3> QED
        BY <1>3, <1>4, <2>2, <3>1
    <2> QED
      BY <2>1, <2>2
  <1>6. \A a, b \in 1..n : q[a] = q[b] => a = b
    BY QueueFacts
  <1> HIDE DEF n
  <1>7. \A a, b \in 1..(n - 1) : s[a] = s[b] => a = b
    <2> SUFFICES ASSUME NEW a \in 1..(n - 1), NEW b \in 1..(n - 1), s[a] = s[b]
                 PROVE  a = b
      OBVIOUS
    <2>1. /\ a \in 1..n /\ a + 1 \in 1..n /\ b \in 1..n /\ b + 1 \in 1..n
      BY <1>1
    <2> QED
      BY <1>1, <1>5, <1>6, <2>1
  <1>8. IsInjective(s) /\ DOMAIN s = 1..(n - 1)
    BY <1>4, <1>7 DEF IsInjective
  <1>9. \A m : m \in Range(s) => m \in Range(q) \ {q[j]}
    <2> SUFFICES ASSUME NEW k \in 1..(n - 1)
                 PROVE  s[k] \in Range(q) /\ s[k] # q[j]
      BY <1>8 DEF Range
    <2>1. k \in 1..n /\ k + 1 \in 1..n /\ j \in 1..n
      BY <1>1 DEF n
    <2>2. q[k] \in Range(q) /\ q[k + 1] \in Range(q)
      BY <2>1, QueueFacts DEF n
    <2> QED
      BY <1>1, <1>5, <1>6, <2>1, <2>2
  <1>10. \A m : m \in Range(q) \ {q[j]} => m \in Range(s)
    <2> SUFFICES ASSUME NEW k \in 1..n, k # j
                 PROVE  q[k] \in Range(s)
      BY QueueFacts DEF n
    <2>1. CASE k < j
      <3>1. k \in 1..(n - 1) /\ s[k] = q[k]
        BY <1>1, <1>5, <2>1 DEF n
      <3> QED
        BY <1>8, <3>1 DEF Range
    <2>2. CASE k > j
      <3>1. k - 1 \in 1..(n - 1) /\ ~(k - 1 < j) /\ (k - 1) + 1 = k
        BY <1>1, <2>2 DEF n
      <3>2. s[k - 1] = q[k]
        BY <1>5, <3>1
      <3> QED
        BY <1>8, <3>1, <3>2 DEF Range
    <2> QED
      BY <1>1, <2>1, <2>2 DEF n
  <1> QED
    BY <1>4, <1>5, <1>8, <1>9, <1>10, QueuesAre DEF s, n

LEMMA InsertAtIs ==
    ASSUME NEW q \in Queues, NEW m \in Media, m \notin Range(q), NEW j \in 1..(Len(q) + 1)
    PROVE  /\ InsertAt(q, j, m) \in Queues /\ Len(InsertAt(q, j, m)) = Len(q) + 1
           /\ \A k \in 1..(Len(q) + 1) :
                 InsertAt(q, j, m)[k] = IF k < j THEN q[k] ELSE IF k = j THEN m ELSE q[k - 1]
           /\ Range(InsertAt(q, j, m)) = Range(q) \union {m}
  <1> DEFINE s == InsertAt(q, j, m)
             n == Len(q)
             left == SubSeq(q, 1, j - 1)
             right == SubSeq(q, j, n)
  <1>1. q \in Seq(Media) /\ n \in Nat /\ \A k \in 1..n : q[k] \in Media
    BY QueueFacts
  <1>2. left \in Seq(Media) /\ Len(left) = j - 1 /\ \A k \in 1..(j - 1) : left[k] = q[k]
    BY <1>1, SubSeqProperties
  <1>3. /\ right \in Seq(Media) /\ Len(right) = n - j + 1
        /\ \A k \in 1..(n - j + 1) : right[k] = q[k + j - 1]
    BY <1>1, SubSeqProperties
  <1>4. <<m>> \in Seq(Media) /\ Len(<<m>>) = 1 /\ <<m>>[1] = m
    OBVIOUS
  <1>5. s = left \o <<m>> \o right
    BY DEF InsertAt
  <1> HIDE DEF s, left, right
  <1>6. /\ left \o <<m>> \in Seq(Media) /\ Len(left \o <<m>>) = j
        /\ \A k \in 1..j : (left \o <<m>>)[k] = IF k <= j - 1 THEN left[k] ELSE <<m>>[k - (j - 1)]
    BY <1>1, <1>2, <1>4, ConcatProperties
  <1>7. /\ s \in Seq(Media) /\ Len(s) = n + 1
        /\ \A k \in 1..(n + 1) : s[k] = IF k <= j THEN (left \o <<m>>)[k] ELSE right[k - j]
    <2> DEFINE head == left \o <<m>>
    <2> HIDE DEF head
    <2>0. head \in Seq(Media) /\ right \in Seq(Media) /\ s = head \o right
      BY <1>3, <1>5, <1>6 DEF head
    <2>1. /\ s \in Seq(Media) /\ Len(s) = Len(head) + Len(right)
          /\ \A k \in 1..(Len(head) + Len(right)) :
                s[k] = IF k <= Len(head) THEN head[k] ELSE right[k - Len(head)]
      BY <2>0, ConcatProperties
    <2>a. Len(head) = j
      BY <1>6 DEF head
    <2>b. j + (n - j + 1) = n + 1
      BY <1>1
    <2>2. Len(head) = j /\ Len(head) + Len(right) = n + 1
      BY <1>3, <2>a, <2>b
    <2> QED
      BY <2>1, <2>2 DEF head
  <1>8. \A k \in 1..(n + 1) : s[k] = IF k < j THEN q[k] ELSE IF k = j THEN m ELSE q[k - 1]
    <2> SUFFICES ASSUME NEW k \in 1..(n + 1)
                 PROVE  s[k] = IF k < j THEN q[k] ELSE IF k = j THEN m ELSE q[k - 1]
      OBVIOUS
    <2>1. CASE k < j
      BY <1>1, <1>2, <1>6, <1>7, <2>1
    <2>2. CASE k = j
      <3>1. k \in 1..j /\ k <= j /\ ~(k <= j - 1) /\ k - (j - 1) = 1
        BY <1>1, <2>2
      <3> QED
        BY <1>4, <1>6, <1>7, <2>2, <3>1
    <2>3. CASE k > j
      <3>1. k - j \in 1..(n - j + 1) /\ ~(k <= j) /\ (k - j) + j - 1 = k - 1
        BY <1>1, <2>3
      <3> QED
        BY <1>3, <1>7, <2>3, <3>1
    <2> QED
      BY <1>1, <2>1, <2>2, <2>3
  <1>9. (\A a, b \in 1..n : q[a] = q[b] => a = b) /\ \A a \in 1..n : q[a] # m /\ q[a] \in Range(q)
    BY QueueFacts
  <1> HIDE DEF n
  <1>10. \A a, b \in 1..(n + 1) : s[a] = s[b] => a = b
    <2> SUFFICES ASSUME NEW a \in 1..(n + 1), NEW b \in 1..(n + 1), s[a] = s[b]
                 PROVE  a = b
      OBVIOUS
    <2>1. /\ j \in 1..(n + 1) /\ (a < j => a \in 1..n) /\ (a > j => a - 1 \in 1..n)
          /\ (b < j => b \in 1..n) /\ (b > j => b - 1 \in 1..n)
      BY <1>1 DEF n
    <2>2. CASE a = j
      BY <1>1, <1>8, <1>9, <2>1, <2>2
    <2>3. CASE b = j
      BY <1>1, <1>8, <1>9, <2>1, <2>3
    <2>4. CASE a # j /\ b # j
      BY <1>1, <1>8, <1>9, <2>1, <2>4
    <2> QED
      BY <2>2, <2>3, <2>4
  <1>11. IsInjective(s) /\ DOMAIN s = 1..(n + 1)
    BY <1>7, <1>10 DEF IsInjective
  <1>12. j \in 1..(n + 1) /\ s[j] = m
    BY <1>1, <1>8 DEF n
  <1>13. \A x : x \in Range(s) => x \in Range(q) \union {m}
    <2> SUFFICES ASSUME NEW k \in 1..(n + 1)
                 PROVE  s[k] \in Range(q) \union {m}
      BY <1>11 DEF Range
    <2>1. (k < j => k \in 1..n) /\ (k > j => k - 1 \in 1..n) /\ (k < j \/ k = j \/ k > j)
      BY <1>1, <1>12
    <2> QED
      BY <1>1, <1>8, <1>9, <1>12, <2>1
  <1>14. \A x : x \in Range(q) => x \in Range(s)
    <2> SUFFICES ASSUME NEW k \in 1..n
                 PROVE  q[k] \in Range(s)
      BY QueueFacts DEF n
    <2>1. CASE k < j
      <3>1. k \in 1..(n + 1) /\ s[k] = q[k]
        BY <1>1, <1>8, <2>1
      <3> QED
        BY <1>11, <3>1 DEF Range
    <2>2. CASE ~(k < j)
      <3>1. k + 1 \in 1..(n + 1) /\ ~(k + 1 < j) /\ k + 1 # j /\ (k + 1) - 1 = k
        BY <1>1, <1>12, <2>2
      <3>2. s[k + 1] = q[k]
        BY <1>8, <3>1
      <3> QED
        BY <1>11, <3>1, <3>2 DEF Range
    <2> QED
      BY <2>1, <2>2
  <1>15. m \in Range(s)
    BY <1>11, <1>12 DEF Range
  <1> QED
    BY <1>7, <1>8, <1>11, <1>13, <1>14, <1>15, QueuesAre DEF s, n

LEMMA ConcatIs ==
    ASSUME NEW p \in Queues, NEW q \in Queues, Range(p) \cap Range(q) = {}
    PROVE  /\ p \o q \in Queues /\ Len(p \o q) = Len(p) + Len(q)
           /\ \A k \in 1..(Len(p) + Len(q)) : (p \o q)[k] = IF k <= Len(p) THEN p[k] ELSE q[k - Len(p)]
           /\ Range(p \o q) = Range(p) \union Range(q)
  <1> DEFINE s == p \o q
             a == Len(p)
             b == Len(q)
  <1>1. p \in Seq(Media) /\ q \in Seq(Media) /\ a \in Nat /\ b \in Nat
    BY QueueFacts
  <1>2. /\ s \in Seq(Media) /\ Len(s) = a + b
        /\ \A k \in 1..(a + b) : s[k] = IF k <= a THEN p[k] ELSE q[k - a]
    BY <1>1, ConcatProperties
  <1>3. /\ \A j, k \in 1..a : p[j] = p[k] => j = k
        /\ \A k \in 1..a : p[k] \in Range(p)
    BY QueueFacts
  <1>4. /\ \A j, k \in 1..b : q[j] = q[k] => j = k
        /\ \A k \in 1..b : q[k] \in Range(q)
    BY QueueFacts
  <1>5. \A m : m \in Range(p) => \E k \in 1..a : p[k] = m
    BY QueueFacts
  <1>6. \A m : m \in Range(q) => \E k \in 1..b : q[k] = m
    BY QueueFacts
  <1> HIDE DEF s, a, b
  <1>7. /\ \A k \in 1..(a + b) : k <= a => k \in 1..a /\ s[k] = p[k] /\ s[k] \in Range(p)
        /\ \A k \in 1..(a + b) : k > a => k - a \in 1..b /\ s[k] = q[k - a] /\ s[k] \in Range(q)
    <2> SUFFICES ASSUME NEW k \in 1..(a + b)
                 PROVE  /\ k <= a => k \in 1..a /\ s[k] = p[k] /\ s[k] \in Range(p)
                        /\ k > a => k - a \in 1..b /\ s[k] = q[k - a] /\ s[k] \in Range(q)
      OBVIOUS
    <2>1. (k <= a => k \in 1..a) /\ (k > a => k - a \in 1..b) /\ (k > a => ~(k <= a))
      BY <1>1
    <2> QED
      BY <1>2, <1>3, <1>4, <2>1
  <1>8. \A j, k \in 1..(a + b) : s[j] = s[k] => j = k
    <2> SUFFICES ASSUME NEW j \in 1..(a + b), NEW k \in 1..(a + b), s[j] = s[k]
                 PROVE  j = k
      OBVIOUS
    <2>1. CASE j <= a /\ k <= a
      <3>1. s[j] = p[j] /\ s[k] = p[k] /\ j \in 1..a /\ k \in 1..a
        BY <1>7, <2>1
      <3> QED
        BY <1>3, <3>1
    <2>2. CASE j > a /\ k > a
      <3>1. j - a = k - a
        <4>1. s[j] = q[j - a] /\ s[k] = q[k - a] /\ j - a \in 1..b /\ k - a \in 1..b
          BY <1>7, <2>2
        <4> QED
          BY <1>4, <4>1
      <3> QED
        BY <1>1, <3>1
    <2>3. CASE (j <= a /\ k > a) \/ (j > a /\ k <= a)
      <3>1. (s[j] \in Range(p) /\ s[k] \in Range(q)) \/ (s[j] \in Range(q) /\ s[k] \in Range(p))
        BY <1>7, <2>3
      <3> QED
        BY <3>1
    <2> QED
      BY <1>1, <2>1, <2>2, <2>3
  <1>9. IsInjective(s) /\ DOMAIN s = 1..(a + b)
    BY <1>2, <1>8 DEF IsInjective
  <1>10. \A m : m \in Range(s) => m \in Range(p) \union Range(q)
    <2> SUFFICES ASSUME NEW k \in 1..(a + b)
                 PROVE  s[k] \in Range(p) \union Range(q)
      BY <1>9 DEF Range
    <2>1. k <= a \/ k > a
      BY <1>1
    <2> QED
      BY <1>7, <2>1
  <1>11. \A m : m \in Range(p) => m \in Range(s)
    <2> SUFFICES ASSUME NEW k \in 1..a
                 PROVE  p[k] \in Range(s)
      BY <1>5
    <2>1. k \in 1..(a + b) /\ k <= a
      BY <1>1
    <2> QED
      BY <1>2, <1>9, <2>1 DEF Range
  <1>12. \A m : m \in Range(q) => m \in Range(s)
    <2> SUFFICES ASSUME NEW k \in 1..b
                 PROVE  q[k] \in Range(s)
      BY <1>6
    <2>1. k + a \in 1..(a + b) /\ ~(k + a <= a) /\ (k + a) - a = k
      BY <1>1
    <2>2. s[k + a] = q[k]
      BY <1>2, <2>1
    <2> QED
      BY <1>9, <2>1, <2>2 DEF Range
  <1> QED
    BY <1>2, <1>9, <1>10, <1>11, <1>12, QueuesAre DEF s, a, b

\* Who was in front of the place where an id goes in or out keeps its place,
\* who was behind moves by one.
LEMMA RemovedIndex ==
    ASSUME NEW q \in Queues, NEW j \in 1..Len(q), NEW m \in Range(q) \ {q[j]}
    PROVE  /\ IndexOf(RemoveAt(q, j), m) = IF IndexOf(q, m) < j - 1 THEN IndexOf(q, m) ELSE IndexOf(q, m) - 1
           /\ IndexOf(q, m) # j - 1
  <1> DEFINE s == RemoveAt(q, j)
             k == IndexOf(q, m) + 1
  <1>1. s \in Queues /\ Len(s) = Len(q) - 1 /\ Len(q) \in Nat
    BY RemoveAtIs, QueueFacts
  <1>2. \A n \in 1..(Len(q) - 1) : s[n] = IF n < j THEN q[n] ELSE q[n + 1]
    BY RemoveAtIs
  <1>3. k \in 1..Len(q) /\ q[k] = m /\ k # j /\ IndexOf(q, m) = k - 1
    BY IndexOfIs
  <1> HIDE DEF s, k
  <1>4. CASE k < j
    <2>1. k \in 1..(Len(q) - 1)
      BY <1>1, <1>3, <1>4
    <2>2. s[k] = m
      BY <1>2, <1>3, <1>4, <2>1
    <2>3. IndexOf(s, m) = k - 1
      BY <1>1, <2>1, <2>2, IndexOfAt
    <2> QED
      BY <1>3, <1>4, <2>1, <2>3 DEF s
  <1>5. CASE k > j
    <2>1. k - 1 \in 1..(Len(q) - 1) /\ ~(k - 1 < j) /\ (k - 1) + 1 = k
      BY <1>1, <1>3, <1>5
    <2>2. s[k - 1] = m
      BY <1>2, <1>3, <2>1
    <2>3. IndexOf(s, m) = (k - 1) - 1
      BY <1>1, <2>1, <2>2, IndexOfAt
    <2> QED
      BY <1>1, <1>3, <1>5, <2>1, <2>3 DEF s
  <1> QED
    BY <1>1, <1>3, <1>4, <1>5

LEMMA InsertedIndex ==
    ASSUME NEW q \in Queues, NEW e \in Media, e \notin Range(q), NEW j \in 1..(Len(q) + 1),
           NEW m \in Range(q)
    PROVE  IndexOf(InsertAt(q, j, e), m) = IF IndexOf(q, m) < j - 1 THEN IndexOf(q, m) ELSE IndexOf(q, m) + 1
  <1> DEFINE s == InsertAt(q, j, e)
             k == IndexOf(q, m) + 1
  <1>1. s \in Queues /\ Len(s) = Len(q) + 1 /\ Len(q) \in Nat
    BY InsertAtIs, QueueFacts
  <1>2. \A n \in 1..(Len(q) + 1) : s[n] = IF n < j THEN q[n] ELSE IF n = j THEN e ELSE q[n - 1]
    BY InsertAtIs
  <1>3. k \in 1..Len(q) /\ q[k] = m /\ IndexOf(q, m) = k - 1
    BY IndexOfIs
  <1> HIDE DEF s, k
  <1>4. CASE k < j
    <2>1. k \in 1..(Len(q) + 1)
      BY <1>1, <1>3
    <2>2. s[k] = m
      BY <1>2, <1>3, <1>4, <2>1
    <2>3. IndexOf(s, m) = k - 1
      BY <1>1, <2>1, <2>2, IndexOfAt
    <2> QED
      BY <1>1, <1>3, <1>4, <2>3 DEF s
  <1>5. CASE ~(k < j)
    <2>1. k + 1 \in 1..(Len(q) + 1) /\ ~(k + 1 < j) /\ k + 1 # j /\ (k + 1) - 1 = k
      BY <1>1, <1>3, <1>5
    <2>2. s[k + 1] = m
      BY <1>2, <1>3, <2>1
    <2>3. IndexOf(s, m) = (k + 1) - 1
      BY <1>1, <2>1, <2>2, IndexOfAt
    <2> QED
      BY <1>1, <1>3, <1>5, <2>1, <2>3 DEF s
  <1> QED
    BY <1>4, <1>5

-----------------------------------------------------------------------------
(* What the routes make of the queue *)

LEMMA WithoutIs ==
    ASSUME NEW q \in Queues, NEW m
    PROVE  /\ Without(q, m) \in Queues /\ Range(Without(q, m)) = Range(q) \ {m}
           /\ SameOrder(Without(q, m), q, Range(q) \ {m})
           /\ m \in Range(q) => Len(Without(q, m)) = Len(q) - 1
  <1>1. CASE m \in Range(q)
    <2> DEFINE j == IndexOf(q, m) + 1
    <2>1. j \in 1..Len(q) /\ q[j] = m /\ Len(q) \in Nat
      BY <1>1, IndexOfIs, QueueFacts
    <2>2. Without(q, m) = RemoveAt(q, j)
      BY <1>1 DEF Without, Has
    <2> HIDE DEF j
    <2>3. \A a \in Range(q) \ {m} : IndexOf(q, a) \in Nat
      BY IndexOfIs
    <2>4. \A a \in Range(q) \ {m} :
            /\ IndexOf(RemoveAt(q, j), a) = IF IndexOf(q, a) < j - 1 THEN IndexOf(q, a) ELSE IndexOf(q, a) - 1
            /\ IndexOf(q, a) # j - 1
      BY <2>1, RemovedIndex
    <2>5. SameOrder(RemoveAt(q, j), q, Range(q) \ {m})
      <3> SUFFICES ASSUME NEW a \in Range(q) \ {m}, NEW b \in Range(q) \ {m}
                   PROVE  IndexOf(RemoveAt(q, j), a) < IndexOf(RemoveAt(q, j), b) <=> IndexOf(q, a) < IndexOf(q, b)
        BY DEF SameOrder
      <3> DEFINE x == IndexOf(q, a)
                 y == IndexOf(q, b)
      <3>1. x \in Nat /\ y \in Nat /\ x # j - 1 /\ y # j - 1 /\ j \in Int
        BY <2>1, <2>3, <2>4
      <3>2. /\ IndexOf(RemoveAt(q, j), a) = IF x < j - 1 THEN x ELSE x - 1
            /\ IndexOf(RemoveAt(q, j), b) = IF y < j - 1 THEN y ELSE y - 1
        BY <2>4
      <3> HIDE DEF x, y
      <3>3. (IF x < j - 1 THEN x ELSE x - 1) < (IF y < j - 1 THEN y ELSE y - 1) <=> x < y
        BY <3>1
      <3> QED
        BY <3>2, <3>3 DEF x, y
    <2> QED
      BY <2>1, <2>2, <2>5, RemoveAtIs
  <1>2. CASE m \notin Range(q)
    BY <1>2 DEF Without, Has, SameOrder
  <1> QED
    BY <1>1, <1>2

LEMMA PlayedNextIs ==
    ASSUME NEW q \in Queues, NEW current \in Media \union {NoMedium}, NEW m \in Media \ {current},
           current = NoMedium => q = <<>>, current # NoMedium => current \in Range(q)
    PROVE  /\ PlayedNext(q, current, m) \in Queues
           /\ Range(PlayedNext(q, current, m)) = Range(q) \union {m}
           /\ SameOrder(PlayedNext(q, current, m), q, Range(q) \ {m})
           /\ current # NoMedium =>
                IndexOf(PlayedNext(q, current, m), m) = IndexOf(PlayedNext(q, current, m), current) + 1
  <1> DEFINE rest == Without(q, m)
             j == IF current = NoMedium THEN 1 ELSE IndexOf(rest, current) + 2
             s == InsertAt(rest, j, m)
             others == Range(q) \ {m}
  <1>1. rest \in Queues /\ Range(rest) = others /\ SameOrder(rest, q, others) /\ Len(rest) \in Nat
    BY WithoutIs, QueueFacts
  <1>2. PlayedNext(q, current, m) = s
    BY DEF PlayedNext
  <1> HIDE DEF rest
  <1>3. j \in 1..(Len(rest) + 1)
    <2>1. CASE current = NoMedium
      BY <1>1, <2>1
    <2>2. CASE current # NoMedium
      <3>1. current \in Range(rest)
        BY <1>1, <2>2
      <3>2. IndexOf(rest, current) \in 0..(Len(rest) - 1)
        BY <1>1, <3>1, IndexOfIs
      <3> QED
        BY <1>1, <2>2, <3>2
    <2> QED
      BY <2>1, <2>2
  <1> HIDE DEF j
  <1>4. s \in Queues /\ Range(s) = Range(rest) \union {m}
    BY <1>1, <1>3, InsertAtIs
  <1>5. SameOrder(s, q, others)
    <2> SUFFICES ASSUME NEW a \in others, NEW b \in others
                 PROVE  IndexOf(s, a) < IndexOf(s, b) <=> IndexOf(q, a) < IndexOf(q, b)
      BY DEF SameOrder
    <2> DEFINE x == IndexOf(rest, a)
               y == IndexOf(rest, b)
    <2>1. x \in Nat /\ y \in Nat /\ j \in Int
      BY <1>1, <1>3, IndexOfIs
    <2>2. IndexOf(s, a) = IF x < j - 1 THEN x ELSE x + 1
      BY <1>1, <1>3, InsertedIndex
    <2>3. IndexOf(s, b) = IF y < j - 1 THEN y ELSE y + 1
      BY <1>1, <1>3, InsertedIndex
    <2>4. x < y <=> IndexOf(q, a) < IndexOf(q, b)
      BY <1>1 DEF SameOrder
    <2> HIDE DEF x, y
    <2>5. (IF x < j - 1 THEN x ELSE x + 1) < (IF y < j - 1 THEN y ELSE y + 1) <=> x < y
      BY <2>1
    <2> QED
      BY <2>2, <2>3, <2>4, <2>5
  <1>6. ASSUME current # NoMedium
        PROVE  IndexOf(s, m) = IndexOf(s, current) + 1
    <2>1. j \in 1..Len(s) /\ s[j] = m
      <3>1. Len(s) = Len(rest) + 1 /\ s[j] = IF j < j THEN rest[j] ELSE IF j = j THEN m ELSE rest[j - 1]
        BY <1>1, <1>3, InsertAtIs
      <3> QED
        BY <1>1, <1>3, <3>1
    <2>2. IndexOf(s, m) = j - 1
      BY <1>4, <2>1, IndexOfAt
    <2>3. current \in Range(rest) /\ IndexOf(rest, current) \in Nat
      BY <1>1, <1>6, IndexOfIs
    <2>4. j = IndexOf(rest, current) + 2
      BY <1>6 DEF j
    <2>5. IndexOf(s, current) = IF IndexOf(rest, current) < j - 1 THEN IndexOf(rest, current)
                                ELSE IndexOf(rest, current) + 1
      BY <1>1, <1>3, <2>3, InsertedIndex
    <2> HIDE DEF s
    <2> QED
      BY <2>2, <2>3, <2>4, <2>5
  <1> QED
    BY <1>1, <1>2, <1>4, <1>5, <1>6

LEMMA AppendedIs ==
    ASSUME NEW q \in Queues, NEW ids \in Queues, NEW p \in AppendedTo(q, ids)
    PROVE  p \in Queues /\ Range(p) = Range(q) \union Range(ids) /\ IsPrefix(q, p)
  <1>1. PICK added \in Queues : p = q \o added /\ Range(added) = Range(ids) \ Range(q)
    BY DEF AppendedTo, Filtered
  <1>2. /\ p \in Queues /\ Len(p) = Len(q) + Len(added) /\ Range(p) = Range(q) \union Range(added)
        /\ \A k \in 1..(Len(q) + Len(added)) : p[k] = IF k <= Len(q) THEN q[k] ELSE added[k - Len(q)]
    BY <1>1, ConcatIs
  <1>3. q \in Seq(Media) /\ p \in Seq(Media) /\ Len(q) \in Nat /\ Len(added) \in Nat
    BY <1>2, QueueFacts
  <1>4. \A k \in 1..Len(q) : p[k] = q[k]
    BY <1>2, <1>3
  <1>5. SubSeq(p, 1, Len(q)) = q
    <2>1. \A k \in 1..Len(q) : p[k] \in Media
      BY <1>4, QueueFacts
    <2>2. /\ SubSeq(p, 1, Len(q)) \in Seq(Media) /\ Len(SubSeq(p, 1, Len(q))) = Len(q)
          /\ \A k \in 1..Len(q) : SubSeq(p, 1, Len(q))[k] = p[k]
      BY <1>3, <2>1, SubSeqProperties
    <2> QED
      BY <1>3, <1>4, <2>2, SeqEqual
  <1>6. SubSeq(q, 1, Len(q)) = q
    BY <1>3, SubSeqFull
  <1>7. IsPrefix(q, p)
    BY <1>2, <1>3, <1>5, <1>6 DEF IsPrefix
  <1> QED
    BY <1>1, <1>2, <1>7

LEMMA ShuffledIs ==
    ASSUME NEW q \in Queues, NEW m \in Range(q), NEW p \in ShufflesOf(q, m)
    PROVE  p \in Queues /\ SameMembers(p, q)
  <1>1. PICK rest \in Queues : p = <<m>> \o rest /\ SameMembers(rest, Without(q, m))
    BY DEF ShufflesOf
  <1>2. /\ Range(Without(q, m)) = Range(q) \ {m} /\ Len(Without(q, m)) = Len(q) - 1
        /\ Len(q) \in Nat /\ m \in Media
    BY WithoutIs, QueueFacts
  <1>3. <<m>> \in Queues /\ Len(<<m>>) = 1 /\ Range(<<m>>) = {m}
    <2>1. <<m>> \in Seq(Media) /\ IsInjective(<<m>>) /\ DOMAIN <<m>> = {1} /\ <<m>>[1] = m
      BY <1>2 DEF IsInjective
    <2> QED
      BY <2>1, QueuesAre DEF Range
  <1>4. Range(rest) \subseteq Range(q) \ {m} /\ Len(rest) = Len(q) - 1
    BY <1>1, <1>2 DEF SameMembers
  <1>5. p \in Queues /\ Len(p) = 1 + Len(rest) /\ Range(p) = {m} \union Range(rest)
    BY <1>1, <1>3, <1>4, ConcatIs
  <1> QED
    BY <1>2, <1>4, <1>5 DEF SameMembers

LEMMA PartIs ==
    ASSUME NEW q \in Queues, NEW i \in Int, NEW j \in Int, 1 <= i, j <= Len(q), i <= j + 1
    PROVE  /\ SubSeq(q, i, j) \in Queues /\ Len(SubSeq(q, i, j)) = j - i + 1
           /\ \A k \in 1..(j - i + 1) : SubSeq(q, i, j)[k] = q[k + i - 1]
           /\ \A m : m \in Range(SubSeq(q, i, j)) => \E k \in i..j : q[k] = m
  <1> DEFINE s == SubSeq(q, i, j)
             n == j - i + 1
  <1>1. Len(q) \in Nat /\ \A k \in 1..Len(q) : q[k] \in Media
    BY QueueFacts
  <1>2. \A k \in i..j : k \in 1..Len(q)
    BY <1>1
  <1>3. n \in Nat /\ (IF i <= j THEN n ELSE 0) = n
    OBVIOUS
  <1>4. /\ s \in Seq(Media) /\ Len(s) = IF i <= j THEN n ELSE 0
        /\ \A k \in 1..n : s[k] = q[i + k - 1]
    BY <1>1, <1>2, SubSeqProperties
  <1> HIDE DEF s
  <1>5. \A k \in 1..n : k + i - 1 \in i..j /\ k + i - 1 = i + k - 1
    OBVIOUS
  <1> HIDE DEF n
  <1>6. Len(s) = n /\ DOMAIN s = 1..n /\ \A k \in 1..n : s[k] = q[k + i - 1]
    BY <1>3, <1>4, <1>5
  <1>7. \A k, l \in 1..n : s[k] = s[l] => k = l
    <2> SUFFICES ASSUME NEW k \in 1..n, NEW l \in 1..n, s[k] = s[l]
                 PROVE  k = l
      OBVIOUS
    <2>1. k + i - 1 \in 1..Len(q) /\ l + i - 1 \in 1..Len(q)
      BY <1>2, <1>5
    <2>2. q[k + i - 1] = q[l + i - 1]
      BY <1>6
    <2>3. k + i - 1 = l + i - 1
      BY <2>1, <2>2, QueueFacts
    <2> QED
      BY <1>3, <2>3
  <1>8. s \in Queues
    BY <1>4, <1>6, <1>7, QueuesAre DEF IsInjective
  <1>9. ASSUME NEW m \in Range(s)
        PROVE  \E k \in i..j : q[k] = m
    <2>1. PICK k \in 1..n : s[k] = m
      BY <1>6 DEF Range
    <2> QED
      BY <1>5, <1>6, <2>1
  <1> QED
    BY <1>6, <1>8, <1>9 DEF s, n

\* The ids of a window that pass the check fit between its borders.
LEMMA SplicedIs ==
    ASSUME NEW q \in Queues, NEW ids \in Queues, NEW offset \in 0..Len(q),
           SameMembers(ids, Window(q, offset, ids))
    PROVE  /\ Spliced(q, offset, ids) \in Queues
           /\ SameMembers(Spliced(q, offset, ids), q)
           /\ \A k \in 1..Len(q) :
                 k <= offset \/ k > offset + Len(ids) => Spliced(q, offset, ids)[k] = q[k]
  <1> DEFINE n == Len(q)
             b == Len(ids)
             left == SubSeq(q, 1, offset)
             right == SubSeq(q, offset + b + 1, n)
             window == Window(q, offset, ids)
             s == Spliced(q, offset, ids)
  <1>1. n \in Nat /\ b \in Nat /\ offset \in Nat /\ offset <= n
    BY QueueFacts
  <1>2. Len(ids) = Len(window) /\ Range(ids) \subseteq Range(window)
    BY DEF SameMembers
  <1>3. Min({offset + b, n}) = IF offset + b <= n THEN offset + b ELSE n
    BY <1>1, MinOfTwo
  <1>4. offset + b <= n /\ window = SubSeq(q, offset + 1, offset + b)
    <2>1. CASE offset + b <= n
      BY <1>3, <2>1 DEF Window
    <2>2. CASE ~(offset + b <= n)
      <3>1. window = SubSeq(q, offset + 1, n)
        BY <1>3, <2>2 DEF Window
      <3>2. Len(SubSeq(q, offset + 1, n)) = n - (offset + 1) + 1
        BY <1>1, PartIs
      <3>3. b = n - (offset + 1) + 1
        BY <1>2, <3>1, <3>2
      <3> QED
        BY <1>1, <2>2, <3>3
    <2> QED
      BY <2>1, <2>2
  <1>5. /\ left \in Queues /\ Len(left) = offset
        /\ \A k \in 1..offset : left[k] = q[k]
        /\ \A m : m \in Range(left) => \E k \in 1..offset : q[k] = m
    <2>1. /\ SubSeq(q, 1, offset) \in Queues /\ Len(SubSeq(q, 1, offset)) = offset - 1 + 1
          /\ \A k \in 1..(offset - 1 + 1) : SubSeq(q, 1, offset)[k] = q[k + 1 - 1]
          /\ \A m : m \in Range(SubSeq(q, 1, offset)) => \E k \in 1..offset : q[k] = m
      BY <1>1, PartIs
    <2>2. offset - 1 + 1 = offset /\ \A k \in 1..offset : k + 1 - 1 = k
      BY <1>1
    <2> HIDE DEF n, b
    <2> QED
      BY <2>1, <2>2
  <1>6. /\ right \in Queues /\ Len(right) = n - offset - b
        /\ \A k \in 1..(n - offset - b) : right[k] = q[k + offset + b]
        /\ \A m : m \in Range(right) => \E k \in (offset + b + 1)..n : q[k] = m
    <2> DEFINE i == offset + b + 1
    <2>1. i \in Int /\ 1 <= i /\ n <= Len(q) /\ i <= n + 1 /\ n \in Int
      BY <1>1, <1>4
    <2>2. /\ SubSeq(q, i, n) \in Queues /\ Len(SubSeq(q, i, n)) = n - i + 1
          /\ \A k \in 1..(n - i + 1) : SubSeq(q, i, n)[k] = q[k + i - 1]
          /\ \A m : m \in Range(SubSeq(q, i, n)) => \E k \in i..n : q[k] = m
      <3> HIDE DEF i, n
      <3> QED
        BY <2>1, PartIs
    <2>3. n - i + 1 = n - offset - b /\ \A k \in 1..(n - offset - b) : k + i - 1 = k + offset + b
      BY <1>1
    <2>4. right = SubSeq(q, i, n)
      OBVIOUS
    <2> HIDE DEF n, b, right
    <2> QED
      BY <2>2, <2>3, <2>4
  <1>7. \A m : m \in Range(window) => \E k \in (offset + 1)..(offset + b) : q[k] = m
    <2>1. offset + 1 \in Int /\ offset + b \in Int /\ 1 <= offset + 1 /\ offset + 1 <= offset + b + 1
      BY <1>1
    <2> QED
      BY <1>4, <2>1, PartIs
  <1>8. s = left \o ids \o right
    BY DEF Spliced
  <1>9. \A j, k \in 1..n : q[j] = q[k] => j = k
    BY QueueFacts
  <1>10. \A m : m \in Range(ids) => \E k \in 1..Len(ids) : ids[k] = m
    BY QueueFacts
  <1> HIDE DEF n, b, left, right, window, s
  <1>11. Range(left) \cap Range(ids) = {}
    <2> SUFFICES ASSUME NEW m \in Range(left), m \in Range(window)
                 PROVE  FALSE
      BY <1>2
    <2>1. PICK j \in 1..offset : q[j] = m
      BY <1>5
    <2>2. PICK k \in (offset + 1)..(offset + b) : q[k] = m
      BY <1>7
    <2>3. j \in 1..n /\ k \in 1..n /\ j # k
      BY <1>1, <1>4
    <2> QED
      BY <1>9, <2>1, <2>2, <2>3
  <1> DEFINE front == left \o ids
  <1>12. /\ front \in Queues /\ Len(front) = offset + b /\ Range(front) = Range(left) \union Range(ids)
         /\ \A k \in 1..(offset + b) : front[k] = IF k <= offset THEN left[k] ELSE ids[k - offset]
    BY <1>5, <1>11, ConcatIs DEF b
  <1>13. Range(front) \cap Range(right) = {}
    <2> SUFFICES ASSUME NEW m \in Range(right), m \in Range(left) \/ m \in Range(window)
                 PROVE  FALSE
      BY <1>2, <1>12
    <2>1. PICK j \in (offset + b + 1)..n : q[j] = m
      BY <1>6
    <2>2. PICK k \in 1..(offset + b) : q[k] = m
      <3>1. CASE m \in Range(left)
        <4>1. PICK k \in 1..offset : q[k] = m
          BY <1>5, <3>1
        <4>2. k \in 1..(offset + b)
          BY <1>1
        <4> QED
          BY <4>1, <4>2
      <3>2. CASE m \in Range(window)
        <4>1. PICK k \in (offset + 1)..(offset + b) : q[k] = m
          BY <1>7, <3>2
        <4>2. k \in 1..(offset + b)
          BY <1>1
        <4> QED
          BY <4>1, <4>2
      <3> QED
        BY <3>1, <3>2
    <2>3. j \in 1..n /\ k \in 1..n /\ j # k
      BY <1>1, <1>4
    <2> QED
      BY <1>9, <2>1, <2>2, <2>3
  <1> HIDE DEF front
  <1>14. /\ s \in Queues /\ Len(s) = Len(front) + Len(right) /\ Range(s) = Range(front) \union Range(right)
         /\ \A k \in 1..(Len(front) + Len(right)) :
               s[k] = IF k <= Len(front) THEN front[k] ELSE right[k - Len(front)]
    BY <1>6, <1>8, <1>12, <1>13, ConcatIs DEF front
  <1>15. Len(front) + Len(right) = n
    BY <1>1, <1>6, <1>12
  <1>16. Range(s) \subseteq Range(q)
    <2>1. \A k \in 1..n : q[k] \in Range(q)
      BY QueueFacts DEF n
    <2>2. \A m : m \in Range(left) => m \in Range(q)
      <3> SUFFICES ASSUME NEW k \in 1..offset
                   PROVE  q[k] \in Range(q)
        BY <1>5
      <3>1. k \in 1..n
        BY <1>1
      <3> QED
        BY <2>1, <3>1
    <2>3. \A m : m \in Range(ids) => m \in Range(q)
      <3> SUFFICES ASSUME NEW k \in (offset + 1)..(offset + b)
                   PROVE  q[k] \in Range(q)
        BY <1>2, <1>7
      <3>1. k \in 1..n
        BY <1>1, <1>4
      <3> QED
        BY <2>1, <3>1
    <2>4. \A m : m \in Range(right) => m \in Range(q)
      <3> SUFFICES ASSUME NEW k \in (offset + b + 1)..n
                   PROVE  q[k] \in Range(q)
        BY <1>6
      <3>1. k \in 1..n
        BY <1>1
      <3> QED
        BY <2>1, <3>1
    <2> QED
      BY <1>12, <1>14, <2>2, <2>3, <2>4
  <1>17. ASSUME NEW k \in 1..n, k <= offset \/ k > offset + b
         PROVE  s[k] = q[k]
    <2>1. CASE k <= offset
      <3>1. k \in 1..offset /\ k \in 1..(offset + b) /\ k <= offset + b
        BY <1>1, <2>1
      <3>2. s[k] = front[k]
        BY <1>12, <1>14, <1>15, <3>1
      <3> QED
        BY <1>5, <1>12, <2>1, <3>1, <3>2
    <2>2. CASE k > offset + b
      <3>1. k - (offset + b) \in 1..(n - offset - b) /\ ~(k <= offset + b) /\ (k - (offset + b)) + offset + b = k
        BY <1>1, <2>2
      <3>2. s[k] = right[k - (offset + b)]
        BY <1>12, <1>14, <1>15, <3>1
      <3> QED
        BY <1>6, <3>1, <3>2
    <2> QED
      BY <1>17, <2>1, <2>2
  <1>18. SameMembers(s, q)
    BY <1>14, <1>15, <1>16 DEF SameMembers, n
  <1> QED
    BY <1>14, <1>17, <1>18 DEF s, n, b

\* Where the player is after an item was removed.
LEMMA AfterRemoval ==
    ASSUME NEW q \in Queues, NEW i \in Nat \union {NoMedium}, NEW m \in Range(q),
           NEW o, o.op = "remove", o.medium = m,
           NEW p, p = Without(q, m),
           NEW x, x = IndexAfterRemoval(q, Clamp(q, Stored(i)), m)
    PROVE  /\ x \in Nat
           /\ MediumAt(p, IF p = <<>> THEN NoMedium ELSE x) = CurrentAfter(o, q, i)
  <1> DEFINE c == Clamp(q, Stored(i))
             k == IndexOf(q, m)
             n == Len(q)
             y == IF k < c THEN c - 1 ELSE c
  <1>1. p \in Queues /\ Len(p) = n - 1 /\ n \in Nat /\ (p = <<>> <=> Len(p) = 0)
    BY WithoutIs, QueueFacts
  <1>2. q # <<>> /\ n >= 1
    <2>1. \E j \in 1..n : q[j] = m
      BY QueueFacts
    <2> QED
      BY <1>1, <2>1, QueueFacts
  <1>3. c \in 0..(n - 1) /\ MediumAt(q, i) = q[c + 1] /\ MediumAt(q, i) # NoMedium
    <2>1. Stored(i) \in Int
      BY StoredType
    <2> QED
      BY <1>2, <2>1, ClampIs, MediumAtIs
  <1>4. k \in 0..(n - 1) /\ q[k + 1] = m /\ k + 1 \in 1..n
    BY IndexOfIs
  <1>5. p = RemoveAt(q, k + 1)
    BY DEF Without, Has
  <1>6. \A j \in 1..(n - 1) : p[j] = IF j < k + 1 THEN q[j] ELSE q[j + 1]
    BY <1>4, <1>5, RemoveAtIs
  <1>7. x = Clamp(p, y)
    BY DEF IndexAfterRemoval
  <1>8. q[c + 1] = m <=> k = c
    <2>1. c + 1 \in 1..n /\ k + 1 \in 1..n
      BY <1>1, <1>3, <1>4
    <2>2. q[c + 1] = q[k + 1] => c + 1 = k + 1
      BY <2>1, QueueFacts
    <2> QED
      BY <1>3, <1>4, <2>2
  <1> HIDE DEF c, k, n
  <1>9. y \in Int
    BY <1>3
  <1> HIDE DEF y
  <1>10. x \in Nat
    BY <1>1, <1>7, <1>9, ClampIs
  <1>11. CASE p = <<>>
    <2>1. n = 1 /\ c = 0 /\ k = 0
      BY <1>1, <1>3, <1>4, <1>11
    <2>2. q[c + 1] = m
      BY <1>8, <2>1
    <2>3. CurrentAfter(o, q, i) = NoMedium
      BY <1>3, <2>1, <2>2 DEF CurrentAfter, n
    <2>4. MediumAt(p, NoMedium) = NoMedium
      BY <1>11 DEF MediumAt
    <2> QED
      BY <1>10, <1>11, <2>3, <2>4
  <1>12. CASE p # <<>>
    <2>1. n >= 2
      BY <1>1, <1>12
    <2>2. x = IF y < 0 THEN 0 ELSE IF y <= Len(p) - 1 THEN y ELSE Len(p) - 1
      BY <1>1, <1>7, <1>9, <1>12, ClampIs
    <2>3. x \in 0..(Len(p) - 1)
      BY <1>1, <2>1, <2>2, <1>9
    <2>4. MediumAt(p, x) = p[x + 1]
      <3>1. Stored(x) = x
        BY <1>10, MediaAssumption DEF Stored
      <3>2. x \in Int /\ ~(x < 0)
        BY <1>10
      <3>3. Clamp(p, x) = x
        BY <1>1, <1>12, <2>3, <3>2, ClampIs
      <3> QED
        BY <1>12, <3>1, <3>3 DEF MediumAt, At0
    <2>5. x + 1 \in 1..(n - 1)
      BY <1>1, <2>3
    <2>6. p[x + 1] = IF x + 1 < k + 1 THEN q[x + 1] ELSE q[x + 2]
      <3>1. (x + 1) + 1 = x + 2
        BY <1>10
      <3> QED
        BY <1>6, <2>5, <3>1
    <2>7. CASE k = c
      <3>1. y = c
        BY <1>3, <2>7 DEF y
      <3>2. x = IF c + 1 < n THEN c ELSE c - 1
        BY <1>1, <1>3, <2>1, <2>2, <3>1
      <3>3. p[x + 1] = IF c + 1 < n THEN q[c + 2] ELSE q[c]
        <4>1. CASE c + 1 < n
          BY <1>3, <2>6, <2>7, <3>2, <4>1
        <4>2. CASE ~(c + 1 < n)
          <5>1. x = c - 1 /\ x + 1 < k + 1 /\ x + 1 = c
            BY <1>3, <2>7, <3>2, <4>2
          <5> QED
            BY <2>6, <4>2, <5>1
        <4> QED
          BY <4>1, <4>2
      <3>4. CurrentAfter(o, q, i) = IF c + 1 < n THEN At0(q, c + 1) ELSE At0(q, c - 1)
        <4>1. o.medium = MediumAt(q, i)
          BY <1>3, <1>8, <2>7
        <4>2. Len(q) # 1
          BY <1>1, <2>1 DEF n
        <4> QED
          BY <4>1, <4>2 DEF CurrentAfter, c, n
      <3>5. At0(q, c + 1) = q[c + 2] /\ At0(q, c - 1) = q[c]
        <4>1. (c + 1) + 1 = c + 2 /\ (c - 1) + 1 = c
          BY <1>3
        <4> QED
          BY <4>1 DEF At0
      <3> QED
        BY <1>10, <1>12, <2>4, <3>3, <3>4, <3>5
    <2>8. CASE k # c
      <3>1. CurrentAfter(o, q, i) = q[c + 1]
        <4>1. o.medium # MediumAt(q, i)
          BY <1>3, <1>8, <2>8
        <4> QED
          BY <1>3, <4>1 DEF CurrentAfter
      <3>2. p[x + 1] = q[c + 1]
        <4>1. CASE k < c
          <5>1. y = c - 1
            BY <4>1 DEF y
          <5>2. x = c - 1 /\ ~(x + 1 < k + 1) /\ x + 2 = c + 1
            BY <1>1, <1>3, <1>4, <2>2, <4>1, <5>1
          <5> QED
            BY <2>6, <5>2
        <4>2. CASE k > c
          <5>1. y = c
            BY <1>3, <1>4, <4>2 DEF y
          <5>2. x = c /\ x + 1 < k + 1
            BY <1>1, <1>3, <1>4, <2>2, <4>2, <5>1
          <5> QED
            BY <2>6, <5>2
        <4> QED
          BY <1>3, <1>4, <2>8, <4>1, <4>2
      <3> QED
        BY <1>10, <1>12, <2>4, <3>1, <3>2
    <2> QED
      BY <2>7, <2>8
  <1> QED
    BY <1>11, <1>12

-----------------------------------------------------------------------------
(* The invariant *)

\* What a request that is about to write has computed from what it read.
Computed(o) ==
    /\ AsAsked(o, o.seenQueue, o.seenIndex, o.newQueue)
    /\ MediumAt(o.seenQueue, o.seenIndex) # NoMedium =>
         MediumAt(o.newQueue, IF o.newQueue = <<>> THEN NoMedium ELSE o.newIndex)
           = CurrentAfter(o, o.seenQueue, o.seenIndex)

RequestOk(o) ==
    /\ o.at = "read" => o.op = "window"
    /\ o.at = "index" => o.seenLength >= 1
    /\ o.at = "replace" => Computed(o)

Busy == {p \in Req : req[p] # NoMedium}

QueueIInv ==
    /\ QueueTypeOK /\ UniqueItems
    /\ revision + Cardinality(Busy) <= MaxRevision
    /\ \A r \in Req : req[r] # NoMedium => RequestOk(req[r])

LEMMA InvFacts ==
    ASSUME QueueIInv
    PROVE  /\ queue \in Queues /\ index \in Nat \union {NoMedium} /\ revision \in Nat
           /\ CurrentMedium \in Media \union {NoMedium}
           /\ CurrentMedium = NoMedium => queue = <<>>
           /\ CurrentMedium # NoMedium => CurrentMedium \in Range(queue) /\ queue # <<>>
           /\ \A r \in Req : req[r] # NoMedium => req[r] \in Request /\ RequestOk(req[r])
  <1>1. queue \in Queues /\ index \in Nat \union {NoMedium} /\ revision \in Nat
    BY QueuesAre, MaxRevisionAssumption DEF QueueIInv, QueueTypeOK, UniqueItems
  <1>2. \A r \in Req : req[r] # NoMedium => req[r] \in Request /\ RequestOk(req[r])
    BY DEF QueueIInv, QueueTypeOK
  <1> QED
    BY <1>1, <1>2, MediumAtIs DEF CurrentMedium

LEMMA BlankOk == Blank \in Request /\ RequestOk(Blank)
  BY EmptyQueue DEF Blank, Request, Op, RequestOk

\* A step of one request.
LEMMA StepKeeps ==
    ASSUME QueueIInv, NEW r \in Req, NEW o, req' = [req EXCEPT ![r] = o],
           o = NoMedium \/ (o \in Request /\ RequestOk(o)),
           queue' \in Queues, index' \in Nat \union {NoMedium},
           \/ revision' = revision /\ Free(r)
           \/ revision' = revision /\ req[r] # NoMedium
           \/ revision' = revision + 1 /\ req[r] # NoMedium /\ o = NoMedium
    PROVE  QueueIInv'
  <1>1. req \in [Req -> Request \union {NoMedium}] /\ revision \in Nat /\ MaxRevision \in Nat
    BY InvFacts, MaxRevisionAssumption DEF QueueIInv, QueueTypeOK
  <1>2. req'[r] = o /\ (\A s \in Req \ {r} : req'[s] = req[s]) /\ req' \in [Req -> Request \union {NoMedium}]
    BY <1>1
  <1>3. IsFiniteSet(Busy) /\ Cardinality(Busy) \in Nat /\ IsFiniteSet(Busy \union {r})
    BY ReqAssumption, FS_Subset, FS_CardinalityType, FS_AddElement DEF Busy
  <1>4. Busy' \subseteq Busy \union {r} /\ IsFiniteSet(Busy') /\ Cardinality(Busy') \in Nat
    <2>1. Busy' \subseteq Busy \union {r}
      BY <1>2 DEF Busy
    <2> QED
      BY <1>3, <2>1, FS_Subset, FS_CardinalityType
  <1>5. revision' \in Nat /\ revision' + Cardinality(Busy') <= MaxRevision
    <2>1. revision + Cardinality(Busy) <= MaxRevision
      BY DEF QueueIInv
    <2>2. CASE revision' = revision /\ Free(r)
      <3>1. revision + Cardinality(Busy) < MaxRevision
        BY <2>2 DEF Free, Busy
      <3>2. Cardinality(Busy') <= Cardinality(Busy) + 1
        <4>1. Cardinality(Busy') <= Cardinality(Busy \union {r})
          BY <1>3, <1>4, FS_Subset
        <4>2. Cardinality(Busy \union {r}) <= Cardinality(Busy) + 1
          BY <1>3, FS_AddElement
        <4>3. Cardinality(Busy \union {r}) \in Nat
          BY <1>3, FS_CardinalityType
        <4> QED
          BY <1>3, <1>4, <4>1, <4>2, <4>3
      <3> QED
        BY <1>1, <1>3, <1>4, <2>2, <3>1, <3>2
    <2>3. CASE revision' = revision /\ req[r] # NoMedium
      <3>1. Busy' \subseteq Busy
        BY <1>4, <2>3 DEF Busy
      <3>2. Cardinality(Busy') <= Cardinality(Busy)
        BY <1>3, <3>1, FS_Subset
      <3> QED
        BY <1>1, <1>3, <1>4, <2>1, <2>3, <3>2
    <2>4. CASE revision' = revision + 1 /\ req[r] # NoMedium /\ o = NoMedium
      <3>1. r \in Busy /\ Busy' \subseteq Busy \ {r}
        BY <1>2, <1>4, <2>4 DEF Busy
      <3>2. Cardinality(Busy \ {r}) = Cardinality(Busy) - 1 /\ IsFiniteSet(Busy \ {r})
        BY <1>3, <3>1, FS_RemoveElement
      <3>3. Cardinality(Busy') <= Cardinality(Busy) - 1
        BY <3>1, <3>2, FS_Subset
      <3> QED
        BY <1>1, <1>3, <1>4, <2>1, <2>4, <3>3
    <2> QED
      BY <2>2, <2>3, <2>4
  <1>6. revision' \in 0..MaxRevision
    BY <1>1, <1>4, <1>5
  <1>7. queue' \in Seq(Media) /\ IsInjective(queue')
    BY QueuesAre
  <1>8. \A s \in Req : req'[s] # NoMedium => RequestOk(req'[s])
    BY <1>2 DEF QueueIInv
  <1> QED
    BY <1>2, <1>5, <1>6, <1>7, <1>8 DEF QueueIInv, QueueTypeOK, UniqueItems

LEMMA AnswerKeeps ==
    ASSUME QueueIInv, NEW r \in Req, req[r] # NoMedium, Answer(r), revision' \in {revision, revision + 1},
           queue' \in Queues, index' \in Nat \union {NoMedium}
    PROVE  QueueIInv'
  BY StepKeeps DEF Answer

LEMMA GoKeeps ==
    ASSUME QueueIInv, NEW r \in Req, Free(r) \/ req[r] # NoMedium, NEW o \in Request, RequestOk(o),
           Go(r, o), revision' = revision,
           queue' \in Queues, index' \in Nat \union {NoMedium}
    PROVE  QueueIInv'
  BY StepKeeps DEF Go

LEMMA PlanKeeps ==
    ASSUME QueueIInv, NEW r \in Req, Free(r) \/ req[r] # NoMedium, NEW o \in Request,
           NEW q \in Queues, NEW i \in Nat, Plan(r, o, q, i), UNCHANGED <<queue, index, revision>>,
           AsAsked(o, queue, index, q),
           CurrentMedium # NoMedium =>
             MediumAt(q, IF q = <<>> THEN NoMedium ELSE i) = CurrentAfter(o, queue, index)
    PROVE  QueueIInv'
  <1> DEFINE p == [o EXCEPT !.at = "replace", !.seenQueue = queue, !.seenIndex = index,
                            !.newQueue = q, !.newIndex = i]
  <1>1. queue \in Queues /\ index \in Nat \union {NoMedium}
    BY InvFacts
  <1>2. p \in Request
    BY <1>1 DEF Request
  <1>3. /\ p.op = o.op /\ p.medium = o.medium /\ p.ids = o.ids /\ p.offset = o.offset /\ p.at = "replace"
        /\ p.seenQueue = queue /\ p.seenIndex = index /\ p.newQueue = q /\ p.newIndex = i
    BY DEF Request
  <1>4. Go(r, p)
    BY DEF Plan
  <1> HIDE DEF p
  <1>5. AsAsked(p, queue, index, q)
    BY <1>3 DEF AsAsked
  <1>6. CurrentAfter(p, queue, index) = CurrentAfter(o, queue, index)
    BY <1>3 DEF CurrentAfter
  <1>7. RequestOk(p)
    BY <1>3, <1>5, <1>6 DEF RequestOk, Computed, CurrentMedium
  <1> QED
    BY <1>1, <1>2, <1>4, <1>7, GoKeeps

\* Whoever keeps the current medium in the queue can find it again.
LEMMA RewriteKeeps ==
    ASSUME QueueIInv, NEW r \in Req, Free(r) \/ req[r] # NoMedium, NEW o \in Request, o.op # "remove",
           NEW q \in Queues, Rewrite(r, o, q), UNCHANGED <<queue, index, revision>>,
           AsAsked(o, queue, index, q), Range(queue) \subseteq Range(q)
    PROVE  QueueIInv'
  <1> DEFINE i == StartIndex(q, CurrentMedium)
  <1>1. i \in Nat
    BY StartIndexIs
  <1>2. ASSUME CurrentMedium # NoMedium
        PROVE  MediumAt(q, IF q = <<>> THEN NoMedium ELSE i) = CurrentAfter(o, queue, index)
    <2>1. CurrentMedium \in Range(q)
      BY <1>2, InvFacts
    <2>2. q # <<>>
      BY <2>1, EmptyQueue
    <2>3. MediumAt(q, i) = CurrentMedium
      BY <2>1, StartIndexIs
    <2> QED
      BY <2>2, <2>3 DEF CurrentAfter, CurrentMedium
  <1>3. Plan(r, o, q, i)
    BY DEF Rewrite
  <1> HIDE DEF i
  <1> QED
    BY <1>1, <1>2, <1>3, PlanKeeps

LEMMA AutoQueueKeeps == ASSUME QueueIInv, NEW r \in Req, AutoQueue(r) PROVE QueueIInv'
  <1>1. PICK ids \in Queues, start \in Media \union {NoMedium} :
          queue' = ids /\ index' = StartIndex(ids, start)
    BY DEF AutoQueue
  <1>2. queue' \in Queues /\ index' \in Nat
    BY <1>1, StartIndexIs
  <1> QED
    BY <1>2, BlankOk, GoKeeps DEF AutoQueue, GoBump

LEMMA AppendAllKeeps == ASSUME QueueIInv, NEW r \in Req, AppendAll(r) PROVE QueueIInv'
  <1>0. PICK ids \in Queues : \E q \in AppendedTo(queue, ids) :
          Rewrite(r, [Blank EXCEPT !.op = "append", !.ids = ids], q)
    BY DEF AppendAll
  <1>1. PICK q \in AppendedTo(queue, ids) : Rewrite(r, [Blank EXCEPT !.op = "append", !.ids = ids], q)
    BY <1>0
  <1> DEFINE o == [Blank EXCEPT !.op = "append", !.ids = ids]
  <1>2. o \in Request /\ o.op = "append" /\ o.ids = ids
    BY BlankOk DEF Request, Op
  <1>3. q \in Queues /\ Range(q) = Range(queue) \union Range(ids) /\ IsPrefix(queue, q)
    BY InvFacts, AppendedIs
  <1>4. Rewrite(r, o, q)
    BY <1>1
  <1> HIDE DEF o
  <1>5. AsAsked(o, queue, index, q)
    BY <1>2, <1>3 DEF AsAsked
  <1>6. Free(r) /\ UNCHANGED <<queue, index, revision>>
    BY DEF AppendAll
  <1> QED
    BY <1>2, <1>3, <1>4, <1>5, <1>6, RewriteKeeps

LEMMA PlayNextKeeps == ASSUME QueueIInv, NEW r \in Req, PlayNext(r) PROVE QueueIInv'
  <1>1. PICK m \in Media \ {CurrentMedium} :
          Rewrite(r, [Blank EXCEPT !.op = "playNext", !.medium = m], PlayedNext(queue, CurrentMedium, m))
    BY DEF PlayNext
  <1> DEFINE o == [Blank EXCEPT !.op = "playNext", !.medium = m]
             q == PlayedNext(queue, CurrentMedium, m)
  <1>2. o \in Request /\ o.op = "playNext" /\ o.medium = m
    BY BlankOk DEF Request, Op
  <1>3. /\ q \in Queues /\ Range(q) = Range(queue) \union {m} /\ SameOrder(q, queue, Range(queue) \ {m})
        /\ queue # <<>> => IndexOf(q, m) = IndexOf(q, MediumAt(queue, index)) + 1
    <2>1. /\ queue \in Queues /\ CurrentMedium \in Media \union {NoMedium}
          /\ CurrentMedium = NoMedium => queue = <<>>
          /\ CurrentMedium # NoMedium => CurrentMedium \in Range(queue)
      BY InvFacts
    <2>2. CurrentMedium = MediumAt(queue, index)
      BY DEF CurrentMedium
    <2> QED
      BY <2>1, <2>2, PlayedNextIs
  <1>4. Rewrite(r, o, q)
    BY <1>1
  <1> HIDE DEF o, q
  <1>5. AsAsked(o, queue, index, q)
    BY <1>2, <1>3 DEF AsAsked
  <1>6. Free(r) /\ UNCHANGED <<queue, index, revision>>
    BY DEF PlayNext
  <1> QED
    BY <1>2, <1>3, <1>4, <1>5, <1>6, RewriteKeeps

LEMMA OrderKeeps == ASSUME QueueIInv, NEW r \in Req, Order(r) PROVE QueueIInv'
  <1>1. PICK q \in Queues : SameMembers(q, queue) /\ Rewrite(r, [Blank EXCEPT !.op = "order"], q)
    BY DEF Order
  <1> DEFINE o == [Blank EXCEPT !.op = "order"]
  <1>2. o \in Request /\ o.op = "order"
    BY BlankOk DEF Request, Op
  <1>3. Range(q) = Range(queue)
    BY <1>1, InvFacts, Pigeonhole
  <1>4. Rewrite(r, o, q)
    BY <1>1
  <1> HIDE DEF o
  <1>5. AsAsked(o, queue, index, q)
    BY <1>1, <1>2 DEF AsAsked
  <1>6. Free(r) /\ UNCHANGED <<queue, index, revision>>
    BY DEF Order
  <1> QED
    BY <1>2, <1>3, <1>4, <1>5, <1>6, RewriteKeeps

LEMMA OrderWindowKeeps == ASSUME QueueIInv, NEW r \in Req, OrderWindow(r) PROVE QueueIInv'
  <1> DEFINE o == [Blank EXCEPT !.op = "window", !.at = "read"]
  <1>1. o \in Request /\ o.at = "read" /\ o.op = "window"
    BY BlankOk DEF Request, Op
  <1>2. Free(r) /\ Go(r, o) /\ UNCHANGED <<queue, index, revision>>
    BY DEF OrderWindow
  <1> HIDE DEF o
  <1>3. RequestOk(o)
    BY <1>1 DEF RequestOk
  <1> QED
    BY <1>1, <1>2, <1>3, InvFacts, GoKeeps

LEMMA ShuffleKeeps == ASSUME QueueIInv, NEW r \in Req, Shuffle(r) PROVE QueueIInv'
  <1>1. PICK q \in ShufflesOf(queue, CurrentMedium) : Rewrite(r, [Blank EXCEPT !.op = "shuffle"], q)
    BY DEF Shuffle
  <1> DEFINE o == [Blank EXCEPT !.op = "shuffle"]
  <1>2. o \in Request /\ o.op = "shuffle"
    BY BlankOk DEF Request, Op
  <1>3. CurrentMedium \in Range(queue)
    <2>1. Len(queue) > 1
      BY DEF Shuffle
    <2>2. queue # <<>>
      BY <2>1, EmptyQueue
    <2> QED
      BY <2>2, InvFacts
  <1>4. q \in Queues /\ SameMembers(q, queue)
    BY <1>3, InvFacts, ShuffledIs
  <1>5. Range(q) = Range(queue)
    BY <1>4, InvFacts, Pigeonhole
  <1>6. Rewrite(r, o, q)
    BY <1>1
  <1> HIDE DEF o
  <1>7. AsAsked(o, queue, index, q)
    BY <1>2, <1>4 DEF AsAsked
  <1>8. Free(r) /\ UNCHANGED <<queue, index, revision>>
    BY DEF Shuffle
  <1> QED
    BY <1>2, <1>4, <1>5, <1>6, <1>7, <1>8, RewriteKeeps

LEMMA RemoveItemKeeps == ASSUME QueueIInv, NEW r \in Req, RemoveItem(r) PROVE QueueIInv'
  <1>1. PICK m \in Range(queue) :
          Plan(r, [Blank EXCEPT !.op = "remove", !.medium = m], Without(queue, m),
               IndexAfterRemoval(queue, Clamp(queue, Stored(index)), m))
    BY DEF RemoveItem
  <1> DEFINE o == [Blank EXCEPT !.op = "remove", !.medium = m]
             q == Without(queue, m)
             i == IndexAfterRemoval(queue, Clamp(queue, Stored(index)), m)
  <1>2. queue \in Queues /\ m \in Media /\ index \in Nat \union {NoMedium}
    BY InvFacts, QueueFacts
  <1>3. o \in Request /\ o.op = "remove" /\ o.medium = m
    BY <1>2, BlankOk DEF Request, Op
  <1>4. q \in Queues /\ Range(q) = Range(queue) \ {m} /\ SameOrder(q, queue, Range(queue) \ {m})
    BY <1>2, WithoutIs
  <1>5. i \in Nat /\ MediumAt(q, IF q = <<>> THEN NoMedium ELSE i) = CurrentAfter(o, queue, index)
    <2>1. q = Without(queue, m) /\ i = IndexAfterRemoval(queue, Clamp(queue, Stored(index)), m)
      OBVIOUS
    <2> HIDE DEF o, q, i
    <2> QED
      BY <1>2, <1>3, <2>1, AfterRemoval
  <1>6. Plan(r, o, q, i)
    BY <1>1
  <1> HIDE DEF o, q, i
  <1>7. AsAsked(o, queue, index, q)
    BY <1>3, <1>4 DEF AsAsked
  <1>8. Free(r) /\ UNCHANGED <<queue, index, revision>>
    BY DEF RemoveItem
  <1> QED
    BY <1>3, <1>4, <1>5, <1>6, <1>7, <1>8, PlanKeeps

LEMMA ClearKeeps == ASSUME QueueIInv, NEW r \in Req, Clear(r) PROVE QueueIInv'
  <1> DEFINE o == [Blank EXCEPT !.at = "delete", !.seenQueue = queue]
  <1>1. o \in Request /\ o.at = "delete"
    BY InvFacts, BlankOk DEF Request
  <1>2. Free(r) /\ Go(r, o) /\ UNCHANGED <<queue, index, revision>>
    BY DEF Clear
  <1> HIDE DEF o
  <1>3. RequestOk(o)
    BY <1>1 DEF RequestOk
  <1> QED
    BY <1>1, <1>2, <1>3, InvFacts, GoKeeps

LEMMA AddItemKeeps == ASSUME QueueIInv, NEW r \in Req, AddItem(r) PROVE QueueIInv'
  <1>1. PICK m \in Media : queue' = IF Has(queue, m) THEN queue ELSE Append(queue, m)
    BY DEF AddItem
  <1>2. queue \in Queues /\ index \in Nat \union {NoMedium}
    BY InvFacts
  <1>3. queue' \in Queues
    <2>1. CASE m \in Range(queue)
      BY <1>1, <1>2, <2>1 DEF Has
    <2>2. CASE m \notin Range(queue)
      <3>1. queue \in Seq(Media) /\ Len(queue) \in Nat
        BY <1>2, QueueFacts
      <3>2. /\ queue' \in Seq(Media) /\ Len(queue') = Len(queue) + 1 /\ queue'[Len(queue) + 1] = m
            /\ \A k \in 1..Len(queue) : queue'[k] = queue[k]
        BY <1>1, <2>2, <3>1, AppendProperties DEF Has
      <3>3. /\ \A j, k \in 1..Len(queue) : queue[j] = queue[k] => j = k
            /\ \A k \in 1..Len(queue) : queue[k] # m
        BY <1>2, <2>2, QueueFacts
      <3>4. DOMAIN queue' = 1..(Len(queue) + 1)
        BY <3>2
      <3>5. \A j, k \in 1..(Len(queue) + 1) : queue'[j] = queue'[k] => j = k
        <4> SUFFICES ASSUME NEW j \in 1..(Len(queue) + 1), NEW k \in 1..(Len(queue) + 1), queue'[j] = queue'[k]
                     PROVE  j = k
          OBVIOUS
        <4>1. (j \in 1..Len(queue) \/ j = Len(queue) + 1) /\ (k \in 1..Len(queue) \/ k = Len(queue) + 1)
          BY <3>1
        <4> QED
          BY <3>2, <3>3, <4>1
      <3> QED
        BY <3>2, <3>4, <3>5, QueuesAre DEF IsInjective
    <2> QED
      BY <2>1, <2>2
  <1>4. index' \in Nat \union {NoMedium}
    BY <1>2 DEF AddItem
  <1> QED
    BY <1>3, <1>4, BlankOk, GoKeeps DEF AddItem, GoBump

LEMMA GoNextKeeps == ASSUME QueueIInv, NEW r \in Req, GoNext(r) PROVE QueueIInv'
  <1> DEFINE o == [Blank EXCEPT !.op = "next", !.at = "index", !.seenLength = Len(queue)]
  <1>1. queue \in Queues /\ queue # <<>>
    BY InvFacts DEF GoNext
  <1>2. Len(queue) \in Nat /\ Len(queue) >= 1
    BY <1>1, QueueFacts
  <1>3. o \in Request /\ o.at = "index" /\ o.seenLength = Len(queue)
    BY <1>2, BlankOk DEF Request, Op
  <1>4. Free(r) /\ Go(r, o) /\ UNCHANGED <<queue, index, revision>>
    BY DEF GoNext
  <1> HIDE DEF o
  <1>5. RequestOk(o)
    BY <1>2, <1>3 DEF RequestOk
  <1> QED
    BY <1>3, <1>4, <1>5, InvFacts, GoKeeps

\* A request that is about to set the index.
LEMMA SetKeeps ==
    ASSUME QueueIInv, NEW r \in Req, Free(r) \/ req[r] # NoMedium, NEW o \in Request, o.at = "set",
           Go(r, o), UNCHANGED <<queue, index, revision>>
    PROVE  QueueIInv'
  <1>1. RequestOk(o)
    BY DEF RequestOk
  <1> QED
    BY <1>1, InvFacts, GoKeeps

LEMMA GoPrevKeeps == ASSUME QueueIInv, NEW r \in Req, GoPrev(r) PROVE QueueIInv'
  <1> DEFINE o == [Blank EXCEPT !.op = "prev", !.at = "set", !.newIndex = Stored(index) - 1]
  <1>1. Stored(index) \in Nat
    BY InvFacts, StoredType
  <1>2. Stored(index) - 1 \in Nat
    BY <1>1 DEF GoPrev
  <1>3. o \in Request /\ o.at = "set"
    BY <1>2, BlankOk DEF Request, Op
  <1>4. Free(r) /\ Go(r, o) /\ UNCHANGED <<queue, index, revision>>
    BY DEF GoPrev
  <1> HIDE DEF o
  <1> QED
    BY <1>3, <1>4, SetKeeps

LEMMA SelectKeeps == ASSUME QueueIInv, NEW r \in Req, Select(r) PROVE QueueIInv'
  <1>1. PICK m \in Range(queue) :
          Go(r, [Blank EXCEPT !.op = "select", !.at = "set", !.newIndex = IndexOf(queue, m)])
    BY DEF Select
  <1> DEFINE o == [Blank EXCEPT !.op = "select", !.at = "set", !.newIndex = IndexOf(queue, m)]
  <1>2. IndexOf(queue, m) \in Nat
    BY InvFacts, IndexOfIs
  <1>3. o \in Request /\ o.at = "set"
    BY <1>2, BlankOk DEF Request, Op
  <1>4. Free(r) /\ Go(r, o) /\ UNCHANGED <<queue, index, revision>>
    BY <1>1 DEF Select
  <1> HIDE DEF o
  <1> QED
    BY <1>3, <1>4, SetKeeps

LEMMA ReadWindowKeeps == ASSUME QueueIInv, NEW r \in Req, ReadWindow(r) PROVE QueueIInv'
  <1>1. req[r] # NoMedium /\ UNCHANGED <<queue, index, revision>>
    BY DEF ReadWindow, At
  <1>2. req[r] \in Request /\ queue \in Queues /\ index \in Nat \union {NoMedium}
    BY <1>1, InvFacts
  <1>3. ASSUME NEW ids \in Queues, NEW offset \in 0..Len(queue), SameMembers(ids, Window(queue, offset, ids)),
               req[r].op = "window",
               Rewrite(r, [req[r] EXCEPT !.ids = ids, !.offset = offset], Spliced(queue, offset, ids))
        PROVE  QueueIInv'
    <2> DEFINE o == [req[r] EXCEPT !.ids = ids, !.offset = offset]
               q == Spliced(queue, offset, ids)
    <2>1. offset \in Nat
      BY <1>2, QueueFacts
    <2>2. o \in Request /\ o.op = "window" /\ o.ids = ids /\ o.offset = offset
      BY <1>2, <1>3, <2>1 DEF Request
    <2>3. /\ q \in Queues /\ SameMembers(q, queue)
          /\ \A k \in 1..Len(queue) : k <= offset \/ k > offset + Len(ids) => q[k] = queue[k]
      BY <1>2, <1>3, SplicedIs
    <2>4. Range(q) = Range(queue)
      BY <1>2, <2>3, Pigeonhole
    <2>5. DOMAIN queue = 1..Len(queue)
      BY <1>2, QueueFacts
    <2>6. Rewrite(r, o, q)
      BY <1>3
    <2> HIDE DEF o, q
    <2>7. AsAsked(o, queue, index, q)
      BY <2>2, <2>3, <2>5 DEF AsAsked
    <2> QED
      BY <1>1, <2>2, <2>3, <2>4, <2>6, <2>7, RewriteKeeps
  <1>4. CASE Answer(r)
    <2>1. revision' \in {revision, revision + 1}
      BY <1>1
    <2> QED
      BY <1>1, <1>2, <1>4, <2>1, AnswerKeeps
  <1>5. req[r].op = "window"
    BY <1>1, InvFacts DEF ReadWindow, At, RequestOk
  <1> QED
    BY <1>3, <1>4, <1>5 DEF ReadWindow

LEMMA ReplaceKeeps == ASSUME QueueIInv, NEW r \in Req, Replace(r) PROVE QueueIInv'
  <1>1. req[r] # NoMedium /\ revision' = revision
    BY DEF Replace, At
  <1>2. req[r] \in Request
    BY <1>1, InvFacts
  <1>3. queue' \in Queues /\ index' \in Nat \union {NoMedium}
    BY <1>2 DEF Replace, Request
  <1>4. revision' \in {revision, revision + 1}
    BY <1>1
  <1>5. Answer(r) \/ Go(r, Blank)
    BY DEF Replace, GoBump
  <1> QED
    BY <1>1, <1>3, <1>4, <1>5, BlankOk, AnswerKeeps, GoKeeps

LEMMA DeleteKeeps == ASSUME QueueIInv, NEW r \in Req, Delete(r) PROVE QueueIInv'
  <1>1. req[r] # NoMedium /\ revision' \in {revision, revision + 1} /\ revision' = revision
    BY DEF Delete, At
  <1>2. queue' \in Queues /\ index' \in Nat \union {NoMedium}
    BY EmptyQueue DEF Delete
  <1>3. Answer(r) \/ Go(r, Blank)
    BY DEF Delete, GoBump
  <1> QED
    BY <1>1, <1>2, <1>3, BlankOk, AnswerKeeps, GoKeeps

LEMMA AdvanceKeeps == ASSUME QueueIInv, NEW r \in Req, Advance(r) PROVE QueueIInv'
  <1> DEFINE i == Stored(index)
             next == Min({i + 1, req[r].seenLength - 1})
             o == [req[r] EXCEPT !.at = "set", !.seenIndex = i, !.newIndex = next]
  <1>1. req[r] # NoMedium /\ req[r].at = "index" /\ UNCHANGED <<queue, index, revision>> /\ Go(r, o)
    BY DEF Advance, At
  <1>2. req[r] \in Request /\ req[r].seenLength >= 1
    BY <1>1, InvFacts DEF RequestOk
  <1>3. i \in Nat
    BY InvFacts, StoredType
  <1>4. req[r].seenLength \in Nat
    BY <1>2 DEF Request
  <1> HIDE DEF i
  <1>5. next \in Nat
    <2>1. i + 1 \in Int /\ req[r].seenLength - 1 \in Int
      BY <1>3, <1>4
    <2>2. next = IF i + 1 <= req[r].seenLength - 1 THEN i + 1 ELSE req[r].seenLength - 1
      BY <2>1, MinOfTwo
    <2> QED
      BY <1>2, <1>3, <1>4, <2>2
  <1> HIDE DEF next
  <1>6. o \in Request /\ o.at = "set"
    BY <1>2, <1>3, <1>5 DEF Request
  <1> HIDE DEF o
  <1> QED
    BY <1>1, <1>6, SetKeeps

LEMMA SetIndexKeeps == ASSUME QueueIInv, NEW r \in Req, SetIndex(r) PROVE QueueIInv'
  <1>1. /\ req[r] # NoMedium /\ revision' \in {revision, revision + 1} /\ revision' = revision
        /\ queue' = queue /\ index' = req[r].newIndex
    BY DEF SetIndex, At
  <1>2. req[r] \in Request
    BY <1>1, InvFacts
  <1>3. queue' \in Queues /\ index' \in Nat \union {NoMedium}
    BY <1>1, <1>2, InvFacts DEF Request
  <1>4. Answer(r) \/ Go(r, Blank)
    BY DEF SetIndex, GoBump
  <1> QED
    BY <1>1, <1>3, <1>4, BlankOk, AnswerKeeps, GoKeeps

LEMMA EndKeeps == ASSUME QueueIInv, NEW r \in Req, Bump(r) \/ Abort(r) PROVE QueueIInv'
  <1>1. /\ req[r] # NoMedium /\ revision' \in {revision, revision + 1}
        /\ queue' = queue /\ index' = index /\ Answer(r)
    BY DEF Bump, Abort, At
  <1>2. queue' \in Queues /\ index' \in Nat \union {NoMedium}
    BY <1>1, InvFacts
  <1> QED
    BY <1>1, <1>2, AnswerKeeps

LEMMA ExpireKeeps == ASSUME QueueIInv, Expire PROVE QueueIInv'
  <1>1. queue' = <<>> /\ index' = NoMedium /\ req' = req /\ revision' \in {revision, 0}
    BY DEF Expire
  <1>2. revision' <= revision /\ revision' \in 0..MaxRevision /\ revision \in Nat
    BY <1>1, InvFacts, MaxRevisionAssumption DEF QueueIInv, QueueTypeOK
  <1>3. Busy' = Busy
    BY <1>1 DEF Busy
  <1>4. Cardinality(Busy) \in Nat
    BY ReqAssumption, FS_Subset, FS_CardinalityType DEF Busy
  <1>5. revision' + Cardinality(Busy') <= MaxRevision
    <2>1. revision + Cardinality(Busy) <= MaxRevision
      BY DEF QueueIInv
    <2> QED
      BY <1>2, <1>3, <1>4, <2>1, MaxRevisionAssumption
  <1>6. queue' \in Seq(Media) /\ IsInjective(queue')
    BY <1>1, EmptyQueue, QueuesAre
  <1> QED
    BY <1>1, <1>2, <1>5, <1>6 DEF QueueIInv, QueueTypeOK, UniqueItems

LEMMA QueueStep == ASSUME QueueIInv, QueueNext PROVE QueueIInv'
  <1>1. ASSUME NEW r \in Req, Arrive(r)
        PROVE  QueueIInv'
    BY <1>1, AutoQueueKeeps, AppendAllKeeps, PlayNextKeeps, OrderKeeps, OrderWindowKeeps, RemoveItemKeeps,
       ShuffleKeeps, ClearKeeps, AddItemKeeps, GoNextKeeps, GoPrevKeeps, SelectKeeps DEF Arrive
  <1>2. ASSUME NEW r \in Req, Continue(r)
        PROVE  QueueIInv'
    BY <1>2, ReadWindowKeeps, ReplaceKeeps, DeleteKeeps, AdvanceKeeps, SetIndexKeeps, EndKeeps DEF Continue
  <1> QED
    BY <1>1, <1>2, EndKeeps, ExpireKeeps DEF QueueNext

LEMMA QueueStart == ASSUME QueueInit PROVE QueueIInv
  <1>1. /\ queue = <<>> /\ index = NoMedium /\ revision = 0 /\ req \in [Req -> Request \union {NoMedium}]
        /\ \A r \in Req : req[r] = NoMedium
    BY DEF QueueInit
  <1>2. queue \in Seq(Media) /\ IsInjective(queue)
    BY <1>1, EmptyQueue, QueuesAre
  <1>3. Busy = {} /\ Cardinality({}) = 0
    BY <1>1, FS_EmptySet DEF Busy
  <1>4. revision \in 0..MaxRevision /\ revision + Cardinality(Busy) <= MaxRevision
    BY <1>1, <1>3, MaxRevisionAssumption
  <1> QED
    BY <1>1, <1>2, <1>4 DEF QueueIInv, QueueTypeOK, UniqueItems

LEMMA QueueStutter == ASSUME QueueIInv, UNCHANGED queueVars PROVE QueueIInv'
  BY DEF queueVars, QueueIInv, QueueTypeOK, UniqueItems, Busy

LEMMA QueueInvariant == QueueSpec => []QueueIInv
  <1>1. QueueInit => QueueIInv
    BY QueueStart
  <1>2. QueueIInv /\ [QueueNext]_queueVars => QueueIInv'
    BY QueueStep, QueueStutter
  <1> QED
    BY <1>1, <1>2, PTL DEF QueueSpec

-----------------------------------------------------------------------------
(* Theorems *)

\* However the requests of any number of tabs interleave, the stored queue has
\* its type and holds no medium twice (queue.js:439), as every request writes
\* one that it made from a queue without repetition.
THEOREM NothingIsQueuedTwice == QueueSpec => []QueueInv
  <1>1. QueueIInv => QueueInv
    BY DEF QueueIInv, QueueInv
  <1> QED
    BY <1>1, QueueInvariant, PTL

\* A rewrite that nobody disturbed (queue.js:566) does what was asked for and
\* leaves the player at the medium it was at, whatever the length of the queue
\* and wherever the stored index points.
THEOREM RewritesDoAsAsked == QueueSpec => RewritesAsAsked
  <1>1. ASSUME QueueIInv, NEW r \in Req, Undisturbed(r), Replace(r)
        PROVE  /\ AsAsked(req[r], queue, index, queue')
               /\ CurrentMedium # NoMedium => CurrentMedium' = CurrentAfter(req[r], queue, index)
    <2>1. /\ req[r] # NoMedium /\ req[r].at = "replace" /\ queue = req[r].seenQueue /\ index = req[r].seenIndex
          /\ queue' = req[r].newQueue
          /\ index' = IF req[r].newQueue = <<>> THEN NoMedium ELSE req[r].newIndex
      BY <1>1 DEF Undisturbed, Replace, At
    <2>2. Computed(req[r])
      BY <1>1, <2>1, InvFacts DEF RequestOk
    <2>3. CurrentMedium' = MediumAt(queue', index')
      BY DEF CurrentMedium
    <2> QED
      BY <2>1, <2>2, <2>3 DEF Computed, CurrentMedium
  <1>2. QueueIInv /\ [QueueNext]_queueVars =>
          [ \A r \in Req :
              Undisturbed(r) /\ Replace(r) =>
                /\ AsAsked(req[r], queue, index, queue')
                /\ CurrentMedium # NoMedium => CurrentMedium' = CurrentAfter(req[r], queue, index) ]_queueVars
    BY <1>1
  <1> QED
    BY <1>2, QueueInvariant, PTL DEF QueueSpec, RewritesAsAsked

-----------------------------------------------------------------------------
(* The category tree: the invariant of rows, covers and requests *)

MoveSteps == {"moveParent", "moveDescend", "moveSiblings", "moveCommit"}

\* What the request a has made sure of.
OpOk(a) ==
    LET o == op[a] IN
    /\ o.at \notin {"idle", "insert"} => o.cat <= made
    /\ o.at \in MoveSteps => Stands(o.cat) /\ o.cat \in locked[a]
    /\ o.at \notin MoveSteps => locked[a] = {}
    /\ o.at = "files" => ~Stands(o.cat)
    /\ o.at = "setCover" => o.new \in 1..drawn /\ (Stands(o.cat) => <<o.cat, o.new>> \in covers)
    /\ o.at = "setNull" => o.new = 0
    /\ o.at = "unlink" => o.old # 0 /\ (Stands(o.cat) => category[o.cat].cover # o.old)
    /\ o.at \in {"draw", "adopt", "setCover", "setNull"} /\ o.moved => o.old = 0
    /\ o.old <= drawn

\* The cover that a request has drawn is nobody else's.
FreshOk(a) ==
    op[a].at = "setCover" =>
        /\ \A c \in Category : Stands(c) => category[c].cover # op[a].new
        /\ \A b \in Admin : op[b].old # op[a].new
        /\ \A b \in Admin \ {a} : op[b].at = "setCover" => op[b].new # op[a].new

CoversOk == CoverIsStored /\ \A c \in Category : Stands(c) => category[c].cover <= drawn

CatalogueIInv == CatalogueTypeOK /\ CoversOk /\ \A a \in Admin : OpOk(a) /\ FreshOk(a)

-----------------------------------------------------------------------------
(* What is below a category *)

LEMMA BelowLeast ==
    ASSUME NEW c, NEW S \in SUBSET Category, Holds(S, c)
    PROVE  Below(c) \subseteq S
  BY DEF Below

LEMMA ChildrenBelow ==
    ASSUME NEW c
    PROVE  /\ Below(c) \subseteq Category /\ Children(c) \subseteq Below(c)
           /\ \A d \in Below(c) : Children(d) \subseteq Below(c)
  <1>1. Below(c) \subseteq Category /\ Children(c) \subseteq Below(c)
    BY DEF Below, Children, Holds
  <1>2. ASSUME NEW d \in Below(c), NEW e \in Children(d)
        PROVE  e \in Below(c)
    <2>1. e \in Category
      BY DEF Children
    <2>2. ASSUME NEW S \in SUBSET Category, Holds(S, c)
          PROVE  e \in S
      <3>1. d \in S
        BY <2>2 DEF Below
      <3> QED
        BY <2>2, <3>1 DEF Holds
    <2> QED
      BY <2>1, <2>2 DEF Below
  <1> QED
    BY <1>1, <1>2

LEMMA ParentBelow ==
    ASSUME NEW c, NEW d \in Below(c)
    PROVE  Stands(d) /\ (category[d].parent = c \/ category[d].parent \in Below(c))
  <1> DEFINE S == {e \in Below(c) : Stands(e) /\ (category[e].parent = c \/ category[e].parent \in Below(c))}
  <1>1. S \in SUBSET Category
    BY ChildrenBelow
  <1>2. Children(c) \subseteq S
    BY ChildrenBelow DEF Children
  <1>3. ASSUME NEW e \in S
        PROVE  Children(e) \subseteq S
    BY ChildrenBelow DEF Children
  <1>4. Below(c) \subseteq S
    <2>1. Holds(S, c)
      BY <1>2, <1>3 DEF Holds
    <2> HIDE DEF S
    <2> QED
      BY <1>1, <2>1, BelowLeast
  <1> QED
    BY <1>4

-----------------------------------------------------------------------------
(* Types *)

LEMMA CatalogueTypes ==
    ASSUME CatalogueTypeOK
    PROVE  /\ category \in [Category -> CategoryRow \union {NoCategory}]
           /\ op \in [Admin -> TreeOp] /\ locked \in [Admin -> SUBSET Category]
           /\ made \in Nat /\ drawn \in Nat /\ drawn \in 0..MaxCover
           /\ covers \subseteq Category \X (1..drawn)
           /\ \A c \in Category : c \in Nat /\ c # NoCategory /\ (Stands(c) => category[c] \in CategoryRow /\ c <= made)
           /\ \A a \in Admin : op[a] \in TreeOp
  <1>1. Cardinality(Category) \in Nat
    BY CategoryAssumption, FS_CardinalityType
  <1>2. \A c \in Category : c \in Nat /\ c # NoCategory
    BY <1>1, CategoryAssumption
  <1>3. \A c \in Category : Stands(c) => category[c] \in CategoryRow /\ c <= made
    BY <1>2 DEF CatalogueTypeOK, Stands
  <1> QED
    BY <1>1, <1>2, <1>3, CatalogueBounds DEF CatalogueTypeOK

LEMMA DrawnIsNat == ASSUME CatalogueTypeOK PROVE 0 <= drawn
  <1>1. drawn \in 0..MaxCover
    BY DEF CatalogueTypeOK
  <1> QED
    BY <1>1

LEMMA IdleType == Idle \in TreeOp /\ Idle.at = "idle" /\ Idle.old = 0
  <1>1. Cardinality(Category) \in Nat /\ 1 \in Category
    BY CategoryAssumption, FS_CardinalityType
  <1>2. (CHOOSE t \in Tier : TRUE) \in Tier
    BY TierAssumption
  <1>3. 0 \in 0..MaxOrder /\ 0 \in 0..MaxCover /\ NoCategory \in Parent
    BY CatalogueBounds DEF Parent
  <1> QED
    BY <1>1, <1>2, <1>3 DEF Idle, TreeOp, OpStep

\* A step that only sets what the request a does.
NextOpOk(a, o) ==
    /\ o \in TreeOp /\ o.at \notin MoveSteps \union {"files", "setCover", "unlink"}
    /\ o.at \notin {"idle", "insert"} => o.cat <= made
    /\ o.at = "setNull" => o.new = 0
    /\ o.at \in {"draw", "adopt", "setNull"} /\ o.moved => o.old = 0
    /\ o.old <= drawn /\ \A b \in Admin \ {a} : op[b].at = "setCover" => o.old # op[b].new

LEMMA OnlyOpKeeps ==
    ASSUME CatalogueIInv, NEW a \in Admin, NEW o, OnlyOp, op' = [op EXCEPT ![a] = o],
           NextOpOk(a, o), op[a].at \notin MoveSteps
    PROVE  CatalogueIInv'
  <1>1. /\ category' = category /\ made' = made /\ covers' = covers /\ drawn' = drawn /\ locked' = locked
        /\ untold' = untold
    BY DEF OnlyOp
  <1>2. op \in [Admin -> TreeOp] /\ op'[a] = o /\ \A b \in Admin \ {a} : op'[b] = op[b]
    BY DEF CatalogueIInv, CatalogueTypeOK
  <1>3. op' \in [Admin -> TreeOp]
    BY <1>2 DEF NextOpOk
  <1>4. CatalogueTypeOK'
    BY <1>1, <1>3 DEF CatalogueIInv, CatalogueTypeOK
  <1>5. CoversOk'
    BY <1>1 DEF CatalogueIInv, CoversOk, CoverIsStored, Stands
  <1>6. OpOk(a)'
    BY <1>1, <1>2 DEF CatalogueIInv, OpOk, NextOpOk
  <1>7. ASSUME NEW b \in Admin \ {a}
        PROVE  OpOk(b)'
    BY <1>1, <1>2 DEF CatalogueIInv, OpOk, Stands
  <1>8. ASSUME NEW b \in Admin
        PROVE  FreshOk(b)'
    <2>1. CASE b = a
      BY <1>2, <2>1 DEF FreshOk, NextOpOk
    <2>2. CASE b # a
      <3>1. FreshOk(b)
        BY DEF CatalogueIInv
      <3>2. op'[b] = op[b]
        BY <1>2, <2>2
      <3>3. op[b].at = "setCover" => o.old # op[b].new /\ o.at # "setCover"
        BY <2>2 DEF NextOpOk
      <3> QED
        BY <1>1, <1>2, <3>1, <3>2, <3>3 DEF FreshOk, Stands
    <2> QED
      BY <2>1, <2>2
  <1> QED
    BY <1>4, <1>5, <1>6, <1>7, <1>8 DEF CatalogueIInv

LEMMA NewIsNew ==
    ASSUME CatalogueIInv, NEW b \in Admin, op[b].at = "setCover"
    PROVE  op[b].new # 0 /\ \A a \in Admin : op[a].old # op[b].new
  <1>1. OpOk(b) /\ FreshOk(b) /\ drawn \in Nat
    BY CatalogueTypes DEF CatalogueIInv
  <1>2. op[b].new \in 1..drawn
    BY <1>1 DEF OpOk
  <1> QED
    BY <1>1, <1>2 DEF FreshOk

-----------------------------------------------------------------------------
(* Requests that begin or look *)

LEMMA BeginKeeps ==
    ASSUME CatalogueIInv, NEW a \in Admin, NEW c \in Category, NEW p \in Parent, NEW t \in Tier,
           \/ AddBegin(a, p, t) \/ EditBegin(a, c, TRUE, p, t) \/ EditBegin(a, c, FALSE, NoCategory, t)
           \/ RemoveBegin(a, c)
    PROVE  CatalogueIInv'
  <1>1. /\ Idle \in TreeOp /\ Idle.old = 0 /\ drawn \in Nat /\ NoCategory \in Parent
        /\ \A d \in Category : Stands(d) => category[d] \in CategoryRow /\ d <= made
    BY IdleType, CatalogueTypes DEF CatalogueIInv, Parent
  <1>2. \A b \in Admin : op[b].at = "setCover" => op[b].new # 0
    BY NewIsNew
  <1>3. op[a].at = "idle" /\ OnlyOp
    BY DEF AddBegin, EditBegin, RemoveBegin, Starts, Does
  <1>4. CASE AddBegin(a, p, t)
    <2> DEFINE o == [Idle EXCEPT !.at = "insert", !.parent = p,
                                 !.tier = IF p = NoCategory THEN t ELSE category[p].tier]
    <2>1. op' = [op EXCEPT ![a] = o] /\ (p = NoCategory \/ Stands(p))
      BY <1>4 DEF AddBegin
    <2>2. (IF p = NoCategory THEN t ELSE category[p].tier) \in Tier
      BY <1>1, <2>1 DEF CategoryRow, Parent
    <2>3. o \in TreeOp /\ o.at = "insert" /\ o.old = 0
      BY <1>1, <2>2 DEF TreeOp, OpStep
    <2>4. NextOpOk(a, o)
      BY <1>1, <1>2, <2>3 DEF NextOpOk, MoveSteps
    <2> HIDE DEF o
    <2> QED
      BY <1>3, <2>1, <2>4, OnlyOpKeeps DEF MoveSteps
  <1>5. ASSUME NEW given \in BOOLEAN, NEW q \in Parent, EditBegin(a, c, given, q, t)
        PROVE  CatalogueIInv'
    <2> DEFINE parent == IF given THEN q ELSE category[c].parent
    <2> DEFINE step == IF given /\ q # NoCategory THEN "descend"
                       ELSE IF parent # NoCategory THEN "tier"
                       ELSE IF given /\ q # category[c].parent THEN "order" ELSE "update"
    <2> DEFINE o == [Idle EXCEPT !.cat = c, !.parent = parent, !.tier = t, !.order = category[c].order,
                                 !.moved = given /\ q # category[c].parent, !.at = step]
    <2>1. op' = [op EXCEPT ![a] = o] /\ Stands(c)
      BY <1>5 DEF EditBegin
    <2>2. category[c].parent \in Parent /\ category[c].order \in 0..MaxOrder /\ c <= made
      BY <1>1, <2>1 DEF CategoryRow
    <2>3. parent \in Parent
      BY <2>2
    <2>4. step \in {"descend", "tier", "order", "update"}
      OBVIOUS
    <2>5. (given /\ q # category[c].parent) \in BOOLEAN
      OBVIOUS
    <2> HIDE DEF parent, step
    <2>6. o \in TreeOp /\ o.at = step /\ o.old = 0 /\ o.cat = c
      BY <1>1, <2>2, <2>3, <2>4, <2>5 DEF TreeOp, OpStep
    <2>7. NextOpOk(a, o)
      BY <1>1, <1>2, <2>2, <2>4, <2>6 DEF NextOpOk, MoveSteps
    <2> HIDE DEF o
    <2> QED
      BY <1>3, <2>1, <2>7, OnlyOpKeeps DEF MoveSteps
  <1>6. CASE RemoveBegin(a, c)
    <2> DEFINE o == [Idle EXCEPT !.at = "children", !.cat = c]
    <2>1. op' = [op EXCEPT ![a] = o] /\ Stands(c)
      BY <1>6 DEF RemoveBegin, Starts
    <2>2. o \in TreeOp /\ o.at = "children" /\ o.old = 0 /\ o.cat = c /\ c <= made
      BY <1>1, <2>1 DEF TreeOp, OpStep
    <2>3. NextOpOk(a, o)
      BY <1>1, <1>2, <2>2 DEF NextOpOk, MoveSteps
    <2> HIDE DEF o
    <2> QED
      BY <1>3, <2>1, <2>3, OnlyOpKeeps DEF MoveSteps
  <1>7. NoCategory \in Parent
    BY <1>1
  <1> QED
    BY <1>4, <1>5, <1>6, <1>7

\* A request that goes on at a step where it holds nothing, or ends.
LEMMA GoesOnKeeps ==
    ASSUME CatalogueIInv, NEW a \in Admin, OnlyOp,
           op[a].at \in {"descend", "tier", "order", "children", "cover"},
           \/ op' = [op EXCEPT ![a] = Idle]
           \/ \E t \in Tier, n \in 0..MaxOrder, step \in {"tier", "order", "update", "cover", "delete"} :
                 op' = [op EXCEPT ![a].tier = t, ![a].order = n, ![a].at = step]
    PROVE  CatalogueIInv'
  <1>1. /\ Idle \in TreeOp /\ Idle.at = "idle" /\ Idle.old = 0 /\ op \in [Admin -> TreeOp] /\ op[a] \in TreeOp
    BY IdleType, CatalogueTypes DEF CatalogueIInv
  <1>6. 0 <= drawn
    BY DrawnIsNat DEF CatalogueIInv
  <1>2. op[a].at \notin MoveSteps /\ op[a].cat <= made /\ op[a].old <= drawn
    BY DEF CatalogueIInv, OpOk, MoveSteps
  <1>3. \A b \in Admin : op[b].at = "setCover" => op[b].new # 0 /\ op[a].old # op[b].new
    BY NewIsNew
  <1>4. CASE op' = [op EXCEPT ![a] = Idle]
    <2>0. "idle" \notin MoveSteps \union {"files", "setCover", "unlink"}
      BY DEF MoveSteps
    <2>1. NextOpOk(a, Idle)
      <3>1. \A b \in Admin \ {a} : op[b].at = "setCover" => Idle.old # op[b].new
        BY <1>1, <1>3
      <3>2. Idle.at \notin MoveSteps \union {"files", "setCover", "unlink"}
        BY <1>1, <2>0
      <3>3. Idle.at \in {"idle", "insert"} /\ Idle.at \notin {"setNull", "draw", "adopt"}
        BY <1>1
      <3>4. Idle.old <= drawn
        BY <1>1, <1>6
      <3> QED
        BY <1>1, <3>1, <3>2, <3>3, <3>4 DEF NextOpOk
    <2> QED
      BY <1>2, <1>4, <2>1, OnlyOpKeeps
  <1>5. ASSUME NEW t \in Tier, NEW n \in 0..MaxOrder, NEW step \in {"tier", "order", "update", "cover", "delete"},
               op' = [op EXCEPT ![a].tier = t, ![a].order = n, ![a].at = step]
        PROVE  CatalogueIInv'
    <2> DEFINE o == [op[a] EXCEPT !.tier = t, !.order = n, !.at = step]
    <2>1. op' = [op EXCEPT ![a] = o]
      BY <1>1, <1>5
    <2>2. o \in TreeOp /\ o.at = step /\ o.old = op[a].old /\ o.cat = op[a].cat
      BY <1>1 DEF TreeOp, OpStep
    <2>3. NextOpOk(a, o)
      BY <1>2, <1>3, <2>2 DEF NextOpOk, MoveSteps
    <2> HIDE DEF o
    <2> QED
      BY <1>2, <2>1, <2>3, OnlyOpKeeps
  <1> QED
    BY <1>4, <1>5

LEMMA LooksKeep ==
    ASSUME CatalogueIInv, NEW a \in Admin,
           \/ EditDescends(a) \/ EditTier(a) \/ EditOrder(a) \/ RemoveChildren(a) \/ RemoveCover(a)
    PROVE  CatalogueIInv'
  <1>1. /\ op \in [Admin -> TreeOp] /\ op[a] \in TreeOp
        /\ \A d \in Category : Stands(d) => category[d] \in CategoryRow
    BY CatalogueTypes DEF CatalogueIInv
  <1>2. op[a].tier \in Tier /\ op[a].order \in 0..MaxOrder /\ op[a].parent \in Parent
    BY <1>1 DEF TreeOp
  <1>3. OnlyOp /\ op[a].at \in {"descend", "tier", "order", "children", "cover"}
    BY DEF EditDescends, EditTier, EditOrder, RemoveChildren, RemoveCover, Does
  <1>4. ASSUME NEW step, Then(a, step)
        PROVE  op' = [op EXCEPT ![a].tier = op[a].tier, ![a].order = op[a].order, ![a].at = step]
    <2>1. [op[a] EXCEPT !.tier = op[a].tier, !.order = op[a].order, !.at = step] = [op[a] EXCEPT !.at = step]
      BY <1>1 DEF TreeOp
    <2> QED
      BY <1>1, <1>4, <2>1 DEF Then
  <1>5. \/ op' = [op EXCEPT ![a] = Idle]
        \/ \E t \in Tier, n \in 0..MaxOrder, step \in {"tier", "order", "update", "cover", "delete"} :
              op' = [op EXCEPT ![a].tier = t, ![a].order = n, ![a].at = step]
    <2>1. CASE EditDescends(a)
      <3>1. EndsOp(a) \/ Then(a, "tier")
        BY <2>1 DEF EditDescends
      <3> QED
        BY <1>2, <1>4, <3>1 DEF EndsOp
    <2>2. CASE EditTier(a)
      <3>1. CASE Stands(op[a].parent)
        <4> DEFINE t == category[op[a].parent].tier
        <4> DEFINE step == IF op[a].moved THEN "order" ELSE "update"
        <4>1. op' = [op EXCEPT ![a].tier = t, ![a].at = step]
          BY <2>2, <3>1 DEF EditTier
        <4>2. t \in Tier
          BY <1>1, <1>2, <3>1 DEF CategoryRow, Parent, Stands
        <4>3. step \in {"tier", "order", "update", "cover", "delete"}
          OBVIOUS
        <4> HIDE DEF t, step
        <4>4. [op[a] EXCEPT !.tier = t, !.order = op[a].order, !.at = step] = [op[a] EXCEPT !.tier = t, !.at = step]
          BY <1>1 DEF TreeOp
        <4>5. op' = [op EXCEPT ![a].tier = t, ![a].order = op[a].order, ![a].at = step]
          BY <1>1, <4>1, <4>4
        <4> QED
          BY <1>2, <4>2, <4>3, <4>5
      <3>2. CASE ~Stands(op[a].parent)
        BY <2>2, <3>2 DEF EditTier, EndsOp
      <3> QED
        BY <3>1, <3>2
    <2>3. CASE EditOrder(a)
      <3>1. PICK next \in 0..MaxOrder : op' = [op EXCEPT ![a].order = next, ![a].at = "update"]
        BY <2>3 DEF EditOrder
      <3>2. [op[a] EXCEPT !.tier = op[a].tier, !.order = next, !.at = "update"]
              = [op[a] EXCEPT !.order = next, !.at = "update"]
        BY <1>1 DEF TreeOp
      <3>3. op' = [op EXCEPT ![a].tier = op[a].tier, ![a].order = next, ![a].at = "update"]
        BY <1>1, <3>1, <3>2
      <3> QED
        BY <1>2, <3>3
    <2>4. CASE RemoveChildren(a)
      <3>1. EndsOp(a) \/ Then(a, "cover")
        BY <2>4 DEF RemoveChildren
      <3> QED
        BY <1>2, <1>4, <3>1 DEF EndsOp
    <2>5. CASE RemoveCover(a)
      BY <1>2, <1>4, <2>5 DEF RemoveCover
    <2> QED
      BY <2>1, <2>2, <2>3, <2>4, <2>5
  <1> QED
    BY <1>3, <1>5, GoesOnKeeps

-----------------------------------------------------------------------------
(* Requests that change rows *)

\* The rows, as far as the covers and the locks of others see them: one new
\* row at the most, every other row as it was or gone, and none gone that
\* another transaction has locked.
RowsGoOn(a) ==
    /\ category' \in [Category -> CategoryRow \union {NoCategory}]
    /\ made' \in 0..Cardinality(Category) /\ made <= made'
    /\ \A c \in Category : Stands(c)' =>
          /\ c <= made'
          /\ \/ Stands(c) /\ category'[c].cover = category[c].cover
             \/ c > made /\ category'[c].cover = 0
    /\ \A b \in Admin \ {a} : \A c \in locked[b] : Stands(c) => Stands(c)'

LocksGoOn(a) ==
    /\ locked' \in [Admin -> SUBSET Category] /\ untold' \subseteq Category
    /\ \A b \in Admin \ {a} : locked'[b] = locked[b] /\ locked'[a] \intersect locked[b] = {}

\* The untold categories stay what they are, or some of them are told.
LEMMA UntoldType ==
    ASSUME CatalogueIInv, NEW c, untold' = untold \/ Told(c)
    PROVE  untold' \subseteq Category
  BY DEF CatalogueIInv, CatalogueTypeOK, Told

NextOldOk(a, o) ==
    /\ o \in TreeOp /\ o.at # "setCover" /\ o.old <= drawn
    /\ \A b \in Admin \ {a} : op[b].at = "setCover" => o.old # op[b].new

LEMMA RowsKeep ==
    ASSUME CatalogueIInv, NEW a \in Admin, NEW o, op' = [op EXCEPT ![a] = o],
           RowsGoOn(a), LocksGoOn(a), NextOldOk(a, o), covers' = covers, drawn' = drawn, OpOk(a)'
    PROVE  CatalogueIInv'
  <1>1. op \in [Admin -> TreeOp] /\ op'[a] = o /\ \A b \in Admin \ {a} : op'[b] = op[b]
    BY DEF CatalogueIInv, CatalogueTypeOK
  <1>2. op' \in [Admin -> TreeOp]
    BY <1>1 DEF NextOldOk
  <1>3. CatalogueTypeOK'
    <2>1. \A c \in Category : category'[c] # NoCategory => c <= made'
      <3>1. \A c \in Category : c # NoCategory
        BY CategoryAssumption
      <3> QED
        BY <3>1 DEF RowsGoOn, Stands
    <2>2. \A b, d \in Admin : b # d => locked'[b] \intersect locked'[d] = {}
      <3>1. \A b, d \in Admin : b # d => locked[b] \intersect locked[d] = {}
        BY DEF CatalogueIInv, CatalogueTypeOK
      <3> QED
        BY <3>1 DEF LocksGoOn
    <2>3. covers \subseteq Category \X (1..drawn) /\ drawn \in 0..MaxCover
      BY DEF CatalogueIInv, CatalogueTypeOK
    <2>4. /\ category' \in [Category -> CategoryRow \union {NoCategory}] /\ made' \in 0..Cardinality(Category)
          /\ locked' \in [Admin -> SUBSET Category] /\ untold' \subseteq Category
      BY DEF RowsGoOn, LocksGoOn
    <2> QED
      BY <1>2, <2>1, <2>2, <2>3, <2>4 DEF CatalogueTypeOK
  <1>4. CoversOk'
    <2>1. 0 <= drawn
      BY DrawnIsNat DEF CatalogueIInv
    <2>2. \A c \in Category :
          Stands(c)' => (Stands(c) /\ category'[c].cover = category[c].cover) \/ category'[c].cover = 0
      BY DEF RowsGoOn
    <2>3. CoversOk
      BY DEF CatalogueIInv
    <2> QED
      BY <2>1, <2>2, <2>3 DEF CoversOk, CoverIsStored
  <1>5. ASSUME NEW b \in Admin \ {a}
        PROVE  OpOk(b)'
    <2>1. OpOk(b) /\ op'[b] = op[b] /\ locked'[b] = locked[b] /\ op[b] \in TreeOp /\ made \in Nat /\ made' \in Nat
      <3>1. Cardinality(Category) \in Nat
        BY CategoryAssumption, FS_CardinalityType
      <3> QED
        BY <1>1, <3>1 DEF CatalogueIInv, CatalogueTypeOK, LocksGoOn, RowsGoOn
    <2>2. op[b].cat \in Category /\ op[b].cat \in Nat
      <3>1. op[b].cat \in Category
        BY <2>1 DEF TreeOp
      <3> QED
        BY <3>1, CatalogueTypes DEF CatalogueIInv
    <2>3. op[b].cat <= made /\ Stands(op[b].cat)'
              => Stands(op[b].cat) /\ category'[op[b].cat].cover = category[op[b].cat].cover
      BY <2>1, <2>2 DEF RowsGoOn
    <2>4. op[b].cat <= made => op[b].cat <= made'
      BY <2>1, <2>2 DEF RowsGoOn
    <2>5. op[b].at \in MoveSteps => Stands(op[b].cat)'
      BY <2>1 DEF OpOk, RowsGoOn
    <2>6. /\ op[b].at \in {"files", "setCover", "unlink"} => op[b].at \notin {"idle", "insert"}
          /\ op[b].at \in MoveSteps => op[b].at \notin {"idle", "insert"}
      BY DEF MoveSteps
    <2> QED
      BY <2>1, <2>3, <2>4, <2>5, <2>6 DEF OpOk
  <1>6. ASSUME NEW b \in Admin
        PROVE  FreshOk(b)'
    <2>1. CASE b = a
      BY <1>1, <2>1 DEF FreshOk, NextOldOk
    <2>2. CASE b # a
      <3>1. FreshOk(b) /\ op'[b] = op[b]
        BY <1>1, <2>2 DEF CatalogueIInv
      <3>2. op[b].at = "setCover" => o.old # op[b].new /\ o.at # "setCover" /\ op[b].new # 0
        BY <2>2, NewIsNew DEF NextOldOk
      <3>3. \A c \in Category :
          Stands(c)' => (Stands(c) /\ category'[c].cover = category[c].cover) \/ category'[c].cover = 0
        BY DEF RowsGoOn
      <3> QED
        BY <1>1, <3>1, <3>2, <3>3 DEF FreshOk
    <2> QED
      BY <2>1, <2>2
  <1> QED
    BY <1>3, <1>4, <1>5, <1>6, <1>1 DEF CatalogueIInv

\* The request a ends, and holds no locks.
LEMMA EndsOk ==
    ASSUME CatalogueTypeOK, NEW a \in Admin, op' = [op EXCEPT ![a] = Idle], locked'[a] = {}, drawn' = drawn
    PROVE  OpOk(a)'
  <1>1. op'[a] = Idle
    BY DEF CatalogueTypeOK
  <1>2. Idle.at = "idle" /\ Idle.old = 0
    BY IdleType
  <1>3. 0 <= drawn
    BY DrawnIsNat
  <1> QED
    BY <1>1, <1>2, <1>3 DEF OpOk, MoveSteps

LEMMA IdleOldOk ==
    ASSUME CatalogueIInv, NEW a \in Admin
    PROVE  NextOldOk(a, Idle)
  <1>1. 0 <= drawn
    BY DrawnIsNat DEF CatalogueIInv
  <1>2. \A b \in Admin : op[b].at = "setCover" => op[b].new # 0
    BY NewIsNew
  <1>3. Idle \in TreeOp /\ Idle.at = "idle" /\ Idle.old = 0
    BY IdleType
  <1> QED
    BY <1>1, <1>2, <1>3 DEF NextOldOk

LEMMA SameLocksGoOn ==
    ASSUME CatalogueIInv, NEW a \in Admin, locked' = locked, untold' \subseteq Category
    PROVE  LocksGoOn(a)
  BY DEF LocksGoOn, CatalogueIInv, CatalogueTypeOK

LEMMA SameRowsGoOn ==
    ASSUME CatalogueIInv, NEW a \in Admin, category' = category, made' = made
    PROVE  RowsGoOn(a)
  <1>1. /\ category \in [Category -> CategoryRow \union {NoCategory}] /\ made \in Nat
        /\ \A c \in Category : Stands(c) => c <= made
    BY CatalogueTypes DEF CatalogueIInv
  <1>2. made \in 0..Cardinality(Category)
    BY DEF CatalogueIInv, CatalogueTypeOK
  <1>3. made <= made
    BY <1>1
  <1> QED
    BY <1>1, <1>2, <1>3 DEF RowsGoOn, Stands

LEMMA NextOrderType ==
    ASSUME CatalogueTypeOK, NEW p \in Parent, NEW t \in Tier, NEW n \in 0..MaxOrder
    PROVE  [parent |-> p, tier |-> t, order |-> n, cover |-> 0] \in CategoryRow
  <1>1. 0 \in 0..MaxCover
    BY CatalogueBounds
  <1> QED
    BY <1>1 DEF CategoryRow

LEMMA AddInsertKeeps ==
    ASSUME CatalogueIInv, NEW a \in Admin, AddInsert(a)
    PROVE  CatalogueIInv'
  <1> DEFINE p == op[a].parent
  <1> DEFINE id == made + 1
  <1>1. /\ op' = [op EXCEPT ![a] = Idle] /\ covers' = covers /\ drawn' = drawn /\ locked' = locked
        /\ op[a].at = "insert" /\ untold' = untold
    BY DEF AddInsert, EndsOp, Does
  <1>2. locked'[a] = {}
    BY <1>1 DEF CatalogueIInv, OpOk, MoveSteps
  <1>3. OpOk(a)' /\ NextOldOk(a, Idle) /\ LocksGoOn(a)
    BY <1>1, <1>2, EndsOk, IdleOldOk, SameLocksGoOn, UntoldType DEF CatalogueIInv
  <1>4. RowsGoOn(a)
    <2>1. CASE p = NoCategory \/ Stands(p)
      <3>1. PICK next \in 0..MaxOrder :
              /\ id \in Category /\ made' = id
              /\ category' = [category EXCEPT ![id] =
                     [parent |-> p, tier |-> op[a].tier, order |-> next, cover |-> 0]]
        BY <2>1 DEF AddInsert
      <3> DEFINE row == [parent |-> p, tier |-> op[a].tier, order |-> next, cover |-> 0]
      <3>2. /\ category \in [Category -> CategoryRow \union {NoCategory}] /\ made \in Nat /\ op[a] \in TreeOp
            /\ \A c \in Category : c \in Nat /\ (Stands(c) => c <= made)
        BY CatalogueTypes DEF CatalogueIInv
      <3>3. row \in CategoryRow /\ row.cover = 0
        <4>1. p \in Parent /\ op[a].tier \in Tier
          BY <3>2 DEF TreeOp
        <4> QED
          BY <4>1, NextOrderType DEF CatalogueIInv
      <3>4. category' = [category EXCEPT ![id] = row]
        BY <3>1
      <3> HIDE DEF row
      <3>5. category' \in [Category -> CategoryRow \union {NoCategory}]
        BY <3>2, <3>3, <3>4
      <3>6. category'[id] = row /\ \A c \in Category \ {id} : category'[c] = category[c]
        BY <3>1, <3>2, <3>4
      <3>7. id \in 0..Cardinality(Category) /\ made <= id /\ id > made
        BY <3>1, <3>2, CategoryAssumption, FS_CardinalityType
      <3>8. ASSUME NEW c \in Category, Stands(c)'
            PROVE  c <= made' /\ (\/ Stands(c) /\ category'[c].cover = category[c].cover
                                  \/ c > made /\ category'[c].cover = 0)
        <4>1. CASE c = id
          BY <3>1, <3>2, <3>3, <3>6, <3>7, <4>1
        <4>2. CASE c # id
          <5>1. Stands(c) /\ category'[c] = category[c]
            BY <3>6, <3>8, <4>2 DEF Stands
          <5> QED
            BY <3>1, <3>2, <5>1
        <4> QED
          BY <4>1, <4>2
      <3>9. \A c \in Category : Stands(c) => Stands(c)'
        <4>1. ~Stands(id)
          BY <3>1, <3>2, <3>7
        <4> QED
          BY <3>6, <4>1 DEF Stands
      <3>10. \A b \in Admin : locked[b] \subseteq Category
        BY DEF CatalogueIInv, CatalogueTypeOK
      <3>11. made' \in 0..Cardinality(Category) /\ made <= made'
        BY <3>1, <3>7
      <3> HIDE DEF id
      <3> QED
        BY <3>5, <3>8, <3>9, <3>10, <3>11 DEF RowsGoOn
    <2>2. CASE ~(p = NoCategory \/ Stands(p))
      <3>1. category' = category /\ made' = made
        BY <2>2 DEF AddInsert
      <3> QED
        BY <3>1, SameRowsGoOn
    <2> QED
      BY <2>1, <2>2
  <1> QED
    BY <1>1, <1>3, <1>4, RowsKeep

\* A step that leaves every row where it is, or takes it away, and its cover as it was.
LEMMA StayingRowsGoOn ==
    ASSUME CatalogueIInv, NEW a \in Admin, made' = made,
           category' \in [Category -> CategoryRow \union {NoCategory}],
           \A c \in Category : Stands(c)' => Stands(c) /\ category'[c].cover = category[c].cover,
           \A c \in Category, b \in Admin \ {a} : c \in locked[b] /\ Stands(c) => Stands(c)'
    PROVE  RowsGoOn(a)
  <1>1. made \in Nat /\ \A c \in Category : Stands(c) => c <= made
    BY CatalogueTypes DEF CatalogueIInv
  <1>2. made \in 0..Cardinality(Category) /\ \A b \in Admin : locked[b] \subseteq Category
    BY DEF CatalogueIInv, CatalogueTypeOK
  <1>3. made <= made
    BY <1>1
  <1> QED
    BY <1>1, <1>2, <1>3 DEF RowsGoOn

\* The request a goes on from a step where it holds no locks.
LEMMA ThenOk ==
    ASSUME CatalogueIInv, NEW a \in Admin, op[a].at \notin MoveSteps \union {"idle", "insert"},
           NEW step \in {"propagate", "files"}, op' = [op EXCEPT ![a].at = step],
           locked' = locked, made' = made, drawn' = drawn,
           step = "files" => ~Stands(op[a].cat)'
    PROVE  OpOk(a)' /\ NextOldOk(a, [op[a] EXCEPT !.at = step])
           /\ op' = [op EXCEPT ![a] = [op[a] EXCEPT !.at = step]]
  <1> DEFINE o == [op[a] EXCEPT !.at = step]
  <1>1. op \in [Admin -> TreeOp] /\ op[a] \in TreeOp
    BY CatalogueTypes DEF CatalogueIInv
  <1>2. o \in TreeOp /\ o.at = step /\ o.cat = op[a].cat /\ o.old = op[a].old
    BY <1>1 DEF TreeOp, OpStep
  <1>3. op' = [op EXCEPT ![a] = o] /\ op'[a] = o
    BY <1>1
  <1>4. OpOk(a) /\ \A b \in Admin : op[b].at = "setCover" => op[a].old # op[b].new
    BY NewIsNew DEF CatalogueIInv
  <1>5. op[a].cat <= made /\ locked[a] = {} /\ op[a].old <= drawn
    BY <1>4 DEF OpOk
  <1> HIDE DEF o
  <1>6. OpOk(a)'
    BY <1>2, <1>3, <1>5 DEF OpOk, MoveSteps
  <1>7. NextOldOk(a, o)
    BY <1>2, <1>4, <1>5 DEF NextOldOk
  <1> QED
    BY <1>3, <1>6, <1>7 DEF o

LEMMA EditUpdateKeeps ==
    ASSUME CatalogueIInv, NEW a \in Admin, EditUpdate(a)
    PROVE  CatalogueIInv'
  <1> DEFINE c == op[a].cat
  <1> DEFINE row == [category[c] EXCEPT !.parent = op[a].parent, !.tier = op[a].tier, !.order = op[a].order]
  <1>u. untold' \subseteq Category
    BY UntoldType DEF EditUpdate
  <1>1. made' = made /\ covers' = covers /\ drawn' = drawn /\ locked' = locked /\ op[a].at = "update"
    BY DEF EditUpdate, OnlyTree, Does
  <1>2. /\ category \in [Category -> CategoryRow \union {NoCategory}] /\ op[a] \in TreeOp
        /\ \A d \in Category : Stands(d) => category[d] \in CategoryRow
    BY CatalogueTypes DEF CatalogueIInv
  <1>3. c \in Category
    BY <1>2 DEF TreeOp
  <1>4. Stands(c) => row \in CategoryRow /\ row.cover = category[c].cover /\ row # NoCategory
    BY <1>2, <1>3, NoCategoryAssumption DEF CategoryRow, TreeOp
  <1>5. category' = category \/ (Stands(c) /\ category' = [category EXCEPT ![c] = row])
    BY <1>2, <1>3 DEF EditUpdate
  <1> HIDE DEF row
  <1>6. category' \in [Category -> CategoryRow \union {NoCategory}]
    BY <1>2, <1>4, <1>5
  <1>7. \A d \in Category : (Stands(d)' <=> Stands(d)) /\ (Stands(d) => category'[d].cover = category[d].cover)
    BY <1>2, <1>3, <1>4, <1>5 DEF Stands
  <1>8. RowsGoOn(a)
    BY <1>1, <1>6, <1>7, StayingRowsGoOn
  <1>9. locked[a] = {}
    BY <1>1 DEF CatalogueIInv, OpOk, MoveSteps
  <1>10. CASE EndsOp(a)
    BY <1>1, <1>u, <1>8, <1>9, <1>10, EndsOk, IdleOldOk, SameLocksGoOn, RowsKeep DEF EndsOp, CatalogueIInv
  <1>11. CASE Then(a, "propagate")
    <2>1. op[a].at \notin MoveSteps \union {"idle", "insert"}
      BY <1>1 DEF MoveSteps
    <2>2. op' = [op EXCEPT ![a].at = "propagate"]
      BY <1>11 DEF Then
    <2>3. OpOk(a)' /\ NextOldOk(a, [op[a] EXCEPT !.at = "propagate"])
          /\ op' = [op EXCEPT ![a] = [op[a] EXCEPT !.at = "propagate"]]
      BY <1>1, <2>1, <2>2, ThenOk
    <2> QED
      BY <1>1, <1>u, <1>8, <2>3, SameLocksGoOn, RowsKeep
  <1> QED
    BY <1>10, <1>11 DEF EditUpdate

LEMMA WithTierType ==
    ASSUME NEW rows \in [Category -> CategoryRow \union {NoCategory}], NEW cs, NEW tier \in Tier,
           \A d \in cs \intersect Category : rows[d] # NoCategory
    PROVE  /\ WithTier(rows, cs, tier) \in [Category -> CategoryRow \union {NoCategory}]
           /\ \A d \in Category :
                 /\ d \notin cs => WithTier(rows, cs, tier)[d] = rows[d]
                 /\ d \in cs => /\ WithTier(rows, cs, tier)[d] # NoCategory
                                /\ WithTier(rows, cs, tier)[d].tier = tier
                                /\ WithTier(rows, cs, tier)[d].parent = rows[d].parent
                                /\ WithTier(rows, cs, tier)[d].order = rows[d].order
                                /\ WithTier(rows, cs, tier)[d].cover = rows[d].cover
  <1>1. \A d \in cs \intersect Category : rows[d] \in CategoryRow
    OBVIOUS
  <1>2. ASSUME NEW r \in CategoryRow
        PROVE  /\ [r EXCEPT !.tier = tier] \in CategoryRow
               /\ [r EXCEPT !.tier = tier].tier = tier /\ [r EXCEPT !.tier = tier].parent = r.parent
               /\ [r EXCEPT !.tier = tier].order = r.order /\ [r EXCEPT !.tier = tier].cover = r.cover
    BY DEF CategoryRow
  <1>3. ASSUME NEW d \in Category
        PROVE  /\ WithTier(rows, cs, tier)[d] \in CategoryRow \union {NoCategory}
               /\ d \notin cs => WithTier(rows, cs, tier)[d] = rows[d]
               /\ d \in cs => /\ WithTier(rows, cs, tier)[d] # NoCategory
                              /\ WithTier(rows, cs, tier)[d].tier = tier
                              /\ WithTier(rows, cs, tier)[d].parent = rows[d].parent
                              /\ WithTier(rows, cs, tier)[d].order = rows[d].order
                              /\ WithTier(rows, cs, tier)[d].cover = rows[d].cover
    <2>1. WithTier(rows, cs, tier)[d] = IF d \in cs THEN [rows[d] EXCEPT !.tier = tier] ELSE rows[d]
      BY DEF WithTier
    <2>2. CASE d \in cs
      <3>1. rows[d] \in CategoryRow
        BY <1>1, <2>2
      <3>2. WithTier(rows, cs, tier)[d] = [rows[d] EXCEPT !.tier = tier]
        BY <2>1, <2>2
      <3> QED
        BY <1>2, <2>2, <3>1, <3>2, NoCategoryAssumption
    <2>3. CASE d \notin cs
      BY <2>1, <2>3
    <2> QED
      BY <2>2, <2>3
  <1>4. WithTier(rows, cs, tier) \in [Category -> CategoryRow \union {NoCategory}]
    BY <1>3 DEF WithTier
  <1> QED
    BY <1>3, <1>4

LEMMA BelowStands ==
    ASSUME NEW c
    PROVE  Below(c) \subseteq Category /\ \A d \in Below(c) : Stands(d) /\ category[d] # NoCategory
  BY ParentBelow, ChildrenBelow DEF Stands

LEMMA EditPropagateKeeps ==
    ASSUME CatalogueIInv, NEW a \in Admin, EditPropagate(a)
    PROVE  CatalogueIInv'
  <1> DEFINE c == op[a].cat
  <1>u. untold' \subseteq Category
    BY UntoldType DEF EditPropagate
  <1>1. /\ made' = made /\ covers' = covers /\ drawn' = drawn /\ locked' = locked /\ op[a].at = "propagate"
        /\ op' = [op EXCEPT ![a] = Idle] /\ category' = WithTier(category, Below(c), op[a].tier)
    BY DEF EditPropagate, OnlyTree, Does, EndsOp
  <1>2. category \in [Category -> CategoryRow \union {NoCategory}] /\ op[a] \in TreeOp
    BY CatalogueTypes DEF CatalogueIInv
  <1>3. op[a].tier \in Tier /\ \A d \in Below(c) : category[d] # NoCategory
    BY <1>2, BelowStands DEF TreeOp
  <1>4. /\ category' \in [Category -> CategoryRow \union {NoCategory}]
        /\ \A d \in Category : (Stands(d)' <=> Stands(d)) /\ (Stands(d) => category'[d].cover = category[d].cover)
    BY <1>1, <1>2, <1>3, WithTierType DEF Stands
  <1>5. RowsGoOn(a)
    BY <1>1, <1>4, StayingRowsGoOn
  <1>6. locked'[a] = {}
    BY <1>1 DEF CatalogueIInv, OpOk, MoveSteps
  <1> QED
    BY <1>1, <1>u, <1>5, <1>6, EndsOk, IdleOldOk, SameLocksGoOn, RowsKeep DEF CatalogueIInv

LEMMA EditCutKeeps ==
    ASSUME CatalogueIInv, NEW a \in Admin, EditCut(a)
    PROVE  CatalogueIInv'
  <1>1. /\ made' = made /\ covers' = covers /\ drawn' = drawn /\ locked' = locked /\ op[a].at = "propagate"
        /\ op' = [op EXCEPT ![a] = Idle] /\ category' = category /\ untold' = untold \union {op[a].cat}
    BY DEF EditCut, Does, EndsOp
  <1>2. untold' \subseteq Category
    <2>1. op[a].cat \in Category
      BY CatalogueTypes DEF CatalogueIInv, TreeOp
    <2> QED
      BY <1>1, <2>1 DEF CatalogueIInv, CatalogueTypeOK
  <1>3. locked'[a] = {}
    BY <1>1 DEF CatalogueIInv, OpOk, MoveSteps
  <1> QED
    BY <1>1, <1>2, <1>3, SameRowsGoOn, EndsOk, IdleOldOk, SameLocksGoOn, RowsKeep DEF CatalogueIInv

LEMMA RemoveRowKeeps ==
    ASSUME CatalogueIInv, NEW a \in Admin, RemoveRow(a)
    PROVE  CatalogueIInv'
  <1> DEFINE c == op[a].cat
  <1> DEFINE gone == {c} \union Below(c)
  <1>u. untold' \subseteq Category
    BY UntoldType DEF RemoveRow
  <1>1. /\ made' = made /\ covers' = covers /\ drawn' = drawn /\ locked' = locked /\ op[a].at = "delete"
        /\ category' = [d \in Category |-> IF d \in gone THEN NoCategory ELSE category[d]]
        /\ Unlocked(a, gone)
    BY DEF RemoveRow, OnlyTree, Does
  <1>2. category \in [Category -> CategoryRow \union {NoCategory}] /\ op[a] \in TreeOp
    BY CatalogueTypes DEF CatalogueIInv
  <1>3. c \in Category
    BY <1>2 DEF TreeOp
  <1> HIDE DEF gone
  <1>4. /\ category' \in [Category -> CategoryRow \union {NoCategory}]
        /\ \A d \in Category : Stands(d)' => Stands(d) /\ category'[d] = category[d]
        /\ \A d \in Category : Stands(d) /\ d \notin gone => Stands(d)'
        /\ \A d \in gone \intersect Category : ~Stands(d)'
    BY <1>1, <1>2 DEF Stands
  <1>5. \A d \in Category, b \in Admin \ {a} : d \in locked[b] => d \notin gone
    BY <1>1 DEF Unlocked
  <1>6. RowsGoOn(a)
    BY <1>1, <1>4, <1>5, StayingRowsGoOn
  <1>7. locked[a] = {}
    BY <1>1 DEF CatalogueIInv, OpOk, MoveSteps
  <1>8. CASE EndsOp(a)
    BY <1>1, <1>u, <1>6, <1>7, <1>8, EndsOk, IdleOldOk, SameLocksGoOn, RowsKeep DEF EndsOp, CatalogueIInv
  <1>9. CASE Then(a, "files")
    <2>1. op[a].at \notin MoveSteps \union {"idle", "insert"}
      BY <1>1 DEF MoveSteps
    <2>2. op' = [op EXCEPT ![a].at = "files"]
      BY <1>9 DEF Then
    <2>3. c \in gone
      BY DEF gone
    <2>4. ~Stands(op[a].cat)'
      <3>1. op'[a].cat = c
        <4>1. op \in [Admin -> TreeOp]
          BY DEF CatalogueIInv, CatalogueTypeOK
        <4> QED
          BY <2>2, <4>1, <1>2 DEF TreeOp
      <3> QED
        BY <1>3, <1>4, <2>3, <3>1
    <2>5. OpOk(a)' /\ NextOldOk(a, [op[a] EXCEPT !.at = "files"])
          /\ op' = [op EXCEPT ![a] = [op[a] EXCEPT !.at = "files"]]
      BY <1>1, <2>1, <2>2, <2>4, ThenOk
    <2> QED
      BY <1>1, <1>u, <1>6, <2>5, SameLocksGoOn, RowsKeep
  <1> QED
    BY <1>8, <1>9 DEF RemoveRow

LEMMA RemoveCoverFilesKeeps ==
    ASSUME CatalogueIInv, NEW a \in Admin, RemoveCoverFiles(a)
    PROVE  CatalogueIInv'
  <1>1. /\ category' = category /\ made' = made /\ drawn' = drawn /\ locked' = locked /\ op[a].at = "files" /\ untold' = untold
        /\ op' = [op EXCEPT ![a] = Idle] /\ covers' = {f \in covers : f[1] # op[a].cat}
    BY DEF RemoveCoverFiles, Does, EndsOp
  <1>2. op \in [Admin -> TreeOp] /\ op'[a] = Idle /\ \A b \in Admin \ {a} : op'[b] = op[b]
    BY <1>1 DEF CatalogueIInv, CatalogueTypeOK
  <1>3. ~Stands(op[a].cat) /\ locked'[a] = {}
    BY <1>1 DEF CatalogueIInv, OpOk, MoveSteps
  <1>4. OpOk(a)' /\ NextOldOk(a, Idle)
    BY <1>1, <1>3, EndsOk, IdleOldOk DEF CatalogueIInv
  <1>5. CatalogueTypeOK'
    <2>1. op' \in [Admin -> TreeOp]
      BY <1>1, <1>2, IdleType
    <2> QED
      BY <1>1, <2>1 DEF CatalogueIInv, CatalogueTypeOK
  <1>6. \A c \in Category : \A n : Stands(c) /\ <<c, n>> \in covers => <<c, n>> \in covers'
    BY <1>1, <1>3
  <1>7. CoversOk'
    BY <1>1, <1>6 DEF CatalogueIInv, CoversOk, CoverIsStored, Stands
  <1>8. ASSUME NEW b \in Admin \ {a}
        PROVE  OpOk(b)'
    <2>1. OpOk(b) /\ op[b].cat \in Category /\ op'[b] = op[b]
      BY <1>2 DEF CatalogueIInv, TreeOp
    <2> QED
      BY <1>1, <1>6, <2>1 DEF OpOk, Stands
  <1>9. ASSUME NEW b \in Admin
        PROVE  FreshOk(b)'
    BY <1>1, <1>2, <1>4, IdleType DEF FreshOk, NextOldOk, CatalogueIInv, Stands
  <1> QED
    BY <1>4, <1>5, <1>7, <1>8, <1>9 DEF CatalogueIInv

-----------------------------------------------------------------------------
(* Moves *)

LEMMA MoveGoesOn ==
    ASSUME CatalogueIInv, NEW a \in Admin, category' = category, OnlyTree, untold' = untold,
           NEW o \in TreeOp, op' = [op EXCEPT ![a] = o], o.at \in MoveSteps, o.old = 0 \/ o.old = op[a].old,
           NEW rows \in SUBSET Category, Unlocked(a, rows), locked' = [locked EXCEPT ![a] = @ \union rows],
           Stands(o.cat), o.cat \in locked[a] \union rows
    PROVE  CatalogueIInv'
  <1>1. made' = made /\ covers' = covers /\ drawn' = drawn
    BY DEF OnlyTree
  <1>2. op \in [Admin -> TreeOp] /\ locked \in [Admin -> SUBSET Category]
    BY DEF CatalogueIInv, CatalogueTypeOK
  <1>3. /\ op'[a] = o /\ locked'[a] = locked[a] \union rows
        /\ locked' \in [Admin -> SUBSET Category]
        /\ \A b \in Admin \ {a} : locked'[b] = locked[b]
    BY <1>2
  <1>4. LocksGoOn(a)
    <2>1. \A b \in Admin \ {a} : locked[a] \intersect locked[b] = {} /\ locked[b] \intersect rows = {}
      BY DEF CatalogueIInv, CatalogueTypeOK, Unlocked
    <2>2. \A b \in Admin \ {a} : (locked[a] \union rows) \intersect locked[b] = {}
      BY <2>1
    <2> QED
      BY <1>3, <2>2, UntoldType DEF LocksGoOn
  <1>5. RowsGoOn(a)
    BY <1>1, SameRowsGoOn
  <1>6. 0 <= drawn /\ op[a].old <= drawn
    BY DrawnIsNat DEF CatalogueIInv, OpOk
  <1>7. \A b \in Admin : op[b].at = "setCover" => op[b].new # 0 /\ op[a].old # op[b].new
    BY NewIsNew
  <1>8. NextOldOk(a, o)
    <2>1. o.old <= drawn
      BY <1>6
    <2>2. o.at # "setCover"
      BY DEF MoveSteps
    <2> QED
      BY <1>7, <2>1, <2>2 DEF NextOldOk
  <1>9. OpOk(a)'
    <2>1. o.cat <= made
      <3>1. o.cat \in Category
        BY DEF TreeOp
      <3> QED
        BY <3>1, CatalogueTypes DEF CatalogueIInv
    <2>2. Stands(o.cat)'
      BY DEF Stands
    <2>3. o.at \notin {"idle", "insert", "files", "setCover", "setNull", "unlink", "draw", "adopt"}
      BY DEF MoveSteps
    <2>4. o.old <= drawn
      BY <1>8 DEF NextOldOk
    <2> QED
      BY <1>1, <1>3, <2>1, <2>2, <2>3, <2>4 DEF OpOk
  <1> QED
    BY <1>1, <1>4, <1>5, <1>8, <1>9, RowsKeep

LEMMA RollbackKeeps ==
    ASSUME CatalogueIInv, NEW a \in Admin, RowsGoOn(a), OnlyTree, Rollback(a), untold' \subseteq Category
    PROVE  CatalogueIInv'
  <1>1. /\ made' = made /\ covers' = covers /\ drawn' = drawn /\ op' = [op EXCEPT ![a] = Idle]
        /\ locked' = [locked EXCEPT ![a] = {}]
    BY DEF OnlyTree, Rollback, EndsOp
  <1>2. locked \in [Admin -> SUBSET Category]
    BY DEF CatalogueIInv, CatalogueTypeOK
  <1>3. locked'[a] = {}
    BY <1>1, <1>2
  <1>4. LocksGoOn(a)
    BY <1>1, <1>2, <1>3 DEF LocksGoOn
  <1> QED
    BY <1>1, <1>3, <1>4, EndsOk, IdleOldOk, RowsKeep DEF CatalogueIInv

LEMMA MoveLooksKeep ==
    ASSUME CatalogueIInv, NEW a \in Admin, NEW c \in Category, NEW p \in Parent, NEW slot \in 0..MaxOrder,
           \/ MoveBegin(a, c, p, slot) \/ MoveParent(a) \/ MoveDescends(a) \/ MoveSiblings(a) \/ MoveAborts(a)
    PROVE  CatalogueIInv'
  <1>1. /\ op \in [Admin -> TreeOp] /\ op[a] \in TreeOp /\ locked \in [Admin -> SUBSET Category]
        /\ \A d \in Category : Stands(d) => category[d] \in CategoryRow
    BY CatalogueTypes DEF CatalogueIInv
  <1>2. category' = category /\ made' = made /\ OnlyTree /\ untold' = untold
    BY DEF MoveBegin, MoveParent, MoveDescends, MoveSiblings, MoveAborts, OnlyTree
  <1>3. ASSUME Rollback(a)
        PROVE  CatalogueIInv'
    BY <1>2, <1>3, SameRowsGoOn, RollbackKeeps, UntoldType
  <1>4. locked = [locked EXCEPT ![a] = @ \union {}]
    BY <1>1
  <1>5. op[a].at \in MoveSteps => Stands(op[a].cat) /\ op[a].cat \in locked[a]
    BY DEF CatalogueIInv, OpOk
  <1>6. CASE MoveBegin(a, c, p, slot)
    <2> DEFINE step == IF p = NoCategory THEN "moveSiblings" ELSE "moveParent"
    <2> DEFINE o == [Idle EXCEPT !.cat = c, !.parent = p, !.from = category[c].parent, !.order = slot,
                                 !.tier = category[c].tier, !.at = step]
    <2>1. /\ op' = [op EXCEPT ![a] = o] /\ Stands(c)
          /\ Unlocked(a, {c}) /\ locked' = [locked EXCEPT ![a] = @ \union {c}]
      BY <1>6 DEF MoveBegin, Locks
    <2>2. category[c].parent \in Parent /\ category[c].tier \in Tier
      BY <1>1, <2>1 DEF CategoryRow
    <2>3. step \in MoveSteps
      BY DEF MoveSteps
    <2>4. Idle \in TreeOp /\ Idle.old = 0
      BY IdleType
    <2>5. o \in TreeOp /\ o.at = step /\ o.old = 0 /\ o.cat = c
      BY <2>2, <2>3, <2>4 DEF TreeOp, OpStep, MoveSteps
    <2> HIDE DEF o, step
    <2> QED
      BY <1>2, <2>1, <2>3, <2>5, MoveGoesOn
  <1>7. ASSUME NEW t \in Tier, NEW step \in MoveSteps, NEW rows \in SUBSET Category, op[a].at \in MoveSteps,
               op' = [op EXCEPT ![a].tier = t, ![a].at = step],
               Unlocked(a, rows), locked' = [locked EXCEPT ![a] = @ \union rows]
        PROVE  CatalogueIInv'
    <2> DEFINE o == [op[a] EXCEPT !.tier = t, !.at = step]
    <2>1. op' = [op EXCEPT ![a] = o]
      BY <1>1, <1>7
    <2>2. o \in TreeOp /\ o.at = step /\ o.old = op[a].old /\ o.cat = op[a].cat
      BY <1>1 DEF TreeOp, OpStep, MoveSteps
    <2> HIDE DEF o
    <2> QED
      BY <1>2, <1>5, <1>7, <2>1, <2>2, MoveGoesOn
  <1>8. ASSUME NEW step, Then(a, step)
        PROVE  op' = [op EXCEPT ![a].tier = op[a].tier, ![a].at = step]
    <2>1. [op[a] EXCEPT !.tier = op[a].tier, !.at = step] = [op[a] EXCEPT !.at = step]
      BY <1>1 DEF TreeOp
    <2> QED
      BY <1>1, <1>8, <2>1 DEF Then
  <1>9. op[a].tier \in Tier /\ op[a].parent \in Parent
    BY <1>1 DEF TreeOp
  <1>10. CASE MoveParent(a)
    <2>1. CASE Stands(op[a].parent)
      <3>1. /\ op[a].at = "moveParent"
            /\ op' = [op EXCEPT ![a].tier = category[op[a].parent].tier, ![a].at = "moveDescend"]
            /\ Unlocked(a, {op[a].parent}) /\ locked' = [locked EXCEPT ![a] = @ \union {op[a].parent}]
        BY <1>10, <2>1 DEF MoveParent, Does, Locks
      <3>2. op[a].parent \in Category
        BY <1>9, <2>1 DEF Parent, Stands
      <3>3. category[op[a].parent].tier \in Tier
        BY <1>1, <2>1, <3>2 DEF CategoryRow
      <3>4. "moveParent" \in MoveSteps /\ "moveDescend" \in MoveSteps /\ {op[a].parent} \in SUBSET Category
        BY <3>2 DEF MoveSteps
      <3> QED
        BY <1>7, <3>1, <3>3, <3>4
    <2>2. CASE ~Stands(op[a].parent)
      BY <1>3, <1>10, <2>2 DEF MoveParent
    <2> QED
      BY <2>1, <2>2
  <1>11. CASE MoveDescends(a)
    <2>1. CASE Then(a, "moveSiblings") /\ locked' = locked
      <3>1. Unlocked(a, {}) /\ {} \in SUBSET Category
        BY DEF Unlocked
      <3>2. "moveSiblings" \in MoveSteps /\ op[a].at \in MoveSteps
        BY <1>11 DEF MoveSteps, MoveDescends, Does
      <3>3. op' = [op EXCEPT ![a].tier = op[a].tier, ![a].at = "moveSiblings"]
        BY <1>8, <2>1
      <3>4. locked' = [locked EXCEPT ![a] = @ \union {}]
        BY <1>4, <2>1
      <3> QED
        BY <1>7, <1>9, <3>1, <3>2, <3>3, <3>4
    <2> QED
      BY <1>3, <1>11, <2>1 DEF MoveDescends
  <1>12. CASE MoveSiblings(a)
    <2> DEFINE rows == Children(op[a].from) \union Children(op[a].parent)
    <2>1. rows \in SUBSET Category
      BY DEF Children
    <2>2. Unlocked(a, rows) /\ locked' = [locked EXCEPT ![a] = @ \union rows] /\ Then(a, "moveCommit")
      BY <1>12 DEF MoveSiblings, Locks
    <2>3. "moveCommit" \in MoveSteps /\ op[a].at \in MoveSteps
      BY <1>12 DEF MoveSteps, MoveSiblings, Does
    <2> HIDE DEF rows
    <2> QED
      BY <1>7, <1>8, <1>9, <2>1, <2>2, <2>3
  <1>13. CASE MoveAborts(a)
    BY <1>3, <1>13 DEF MoveAborts
  <1> QED
    BY <1>6, <1>10, <1>11, <1>12, <1>13

\* The parts of MoveCommit.
Left(a) == IF op[a].from = op[a].parent THEN {} ELSE Children(op[a].from) \ {op[a].cat}
Dest(a) == Children(op[a].parent) \ {op[a].cat}
Index(a) == IF op[a].order < Cardinality(Dest(a)) THEN op[a].order ELSE Cardinality(Dest(a))
OrderOf(a, s) ==
    CASE s = op[a].cat -> Index(a)
      [] s \in Left(a) -> Place(s, Left(a))
      [] s \in Dest(a) -> IF Place(s, Dest(a)) < Index(a) THEN Place(s, Dest(a)) ELSE Place(s, Dest(a)) + 1
      [] OTHER -> category[s].order
Placed(a) ==
    [s \in Category |->
        IF ~Stands(s) THEN NoCategory
        ELSE [category[s] EXCEPT !.order = OrderOf(a, s), !.parent = IF s = op[a].cat THEN op[a].parent ELSE @]]

LEMMA MoveCommitPlaces ==
    ASSUME NEW a \in Admin, MoveCommit(a)
    PROVE  category' = WithTier(Placed(a), Below(op[a].cat) \union {op[a].cat}, op[a].tier)
  BY DEF MoveCommit, Placed, OrderOf, Index, Left, Dest

Before(r, s) ==
    \/ category[r].order < category[s].order
    \/ category[r].order = category[s].order /\ r < s

\* A sibling's place is among the number of its siblings, and its own.
LEMMA PlaceBounds ==
    ASSUME NEW siblings \in SUBSET Category, NEW s \in siblings,
           \A r \in siblings : category[r].order \in Nat
    PROVE  /\ Place(s, siblings) \in Nat /\ Cardinality(siblings) \in Nat
           /\ Place(s, siblings) < Cardinality(siblings)
  <1> DEFINE before == {r \in siblings : Before(r, s)}
  <1>1. IsFiniteSet(siblings)
    BY CategoryAssumption, FS_Subset
  <1>2. Place(s, siblings) = Cardinality(before)
    BY DEF Place, Before
  <1>3. ~Before(s, s)
    <2>1. s \in Nat
      BY CategoryAssumption, FS_CardinalityType
    <2> QED
      BY <2>1 DEF Before
  <1>4. before \subseteq siblings /\ before # siblings
    BY <1>3
  <1>5. Cardinality(before) < Cardinality(siblings) /\ Cardinality(before) \in Nat /\ Cardinality(siblings) \in Nat
    <2>1. IsFiniteSet(before)
      BY <1>1, <1>4, FS_Subset
    <2> HIDE DEF before
    <2>2. Cardinality(before) \in Nat /\ Cardinality(siblings) \in Nat
      BY <1>1, <2>1, FS_CardinalityType
    <2> QED
      BY <1>1, <1>4, <2>2, FS_Subset
  <1> QED
    BY <1>2, <1>5

LEMMA PlacesDiffer ==
    ASSUME NEW siblings \in SUBSET Category, NEW s \in siblings, NEW t \in siblings, s # t,
           \A r \in siblings : category[r].order \in Nat
    PROVE  Place(s, siblings) # Place(t, siblings)
  <1>1. \A r \in siblings : r \in Nat
    BY CategoryAssumption, FS_CardinalityType
  <1>2. ASSUME NEW x \in siblings, NEW y \in siblings, Before(x, y)
        PROVE  Place(x, siblings) < Place(y, siblings)
    <2> DEFINE X == {r \in siblings : Before(r, x)}
    <2> DEFINE Y == {r \in siblings : Before(r, y)}
    <2>1. X \subseteq Y
      <3>1. ASSUME NEW r \in siblings, Before(r, x)
            PROVE  Before(r, y)
        <4>1. /\ category[r].order \in Nat /\ category[x].order \in Nat /\ category[y].order \in Nat
              /\ r \in Nat /\ x \in Nat /\ y \in Nat
          BY <1>1
        <4> QED
          BY <1>2, <3>1, <4>1 DEF Before
      <3> QED
        BY <3>1
    <2>2. x \in Y /\ x \notin X
      BY <1>1, <1>2 DEF Before
    <2>3. IsFiniteSet(siblings)
      BY CategoryAssumption, FS_Subset
    <2>4. Place(x, siblings) = Cardinality(X) /\ Place(y, siblings) = Cardinality(Y)
      BY DEF Place, Before
    <2>5. IsFiniteSet(Y) /\ IsFiniteSet(X)
      <3>1. X \subseteq siblings /\ Y \subseteq siblings
        OBVIOUS
      <3> HIDE DEF X, Y
      <3> QED
        BY <2>3, <3>1, FS_Subset
    <2> HIDE DEF X, Y
    <2>6. Cardinality(X) \in Nat /\ Cardinality(Y) \in Nat
      BY <2>5, FS_CardinalityType
    <2> QED
      BY <2>1, <2>2, <2>4, <2>5, <2>6, FS_Subset
  <1>3. Before(s, t) \/ Before(t, s)
    <2>1. s \in Nat /\ t \in Nat /\ category[s].order \in Nat /\ category[t].order \in Nat
      BY <1>1
    <2> QED
      BY <2>1 DEF Before
  <1>4. Place(s, siblings) \in Nat /\ Place(t, siblings) \in Nat
    BY PlaceBounds
  <1> QED
    BY <1>2, <1>3, <1>4

LEMMA OrderCases ==
    ASSUME NEW a \in Admin, NEW s \in Category
    PROVE  /\ s = op[a].cat => OrderOf(a, s) = Index(a)
           /\ s \in Left(a) => OrderOf(a, s) = Place(s, Left(a))
           /\ s \in Dest(a) => OrderOf(a, s) = IF Place(s, Dest(a)) < Index(a) THEN Place(s, Dest(a))
                                               ELSE Place(s, Dest(a)) + 1
           /\ s # op[a].cat /\ s \notin Left(a) /\ s \notin Dest(a) => OrderOf(a, s) = category[s].order
  <1>1. op[a].cat \notin Left(a) /\ op[a].cat \notin Dest(a)
    BY DEF Left, Dest
  <1>2. s \in Left(a) => s \notin Dest(a)
    BY DEF Left, Dest, Children
  <1> QED
    BY <1>1, <1>2 DEF OrderOf

LEMMA OrdersAreNat ==
    ASSUME CatalogueTypeOK
    PROVE  \A s \in Category : Stands(s) => category[s].order \in Nat /\ category[s].order <= MaxOrder
  <1>1. \A s \in Category : Stands(s) => category[s] \in CategoryRow
    BY CatalogueTypes
  <1>2. \A r \in CategoryRow : r.order \in Nat /\ r.order <= MaxOrder
    BY CatalogueBounds DEF CategoryRow
  <1> QED
    BY <1>1, <1>2

\* How far a place may go: to the number of the categories less one.
LEMMA MoveBounds ==
    ASSUME CatalogueTypeOK, NEW a \in Admin
    PROVE  /\ Dest(a) \subseteq Category /\ Left(a) \subseteq Category
           /\ \A s \in Dest(a) \union Left(a) : Stands(s) /\ category[s].order \in Nat
           /\ Index(a) \in Nat /\ Index(a) <= MaxOrder /\ Index(a) <= Cardinality(Dest(a))
           /\ \A s \in Dest(a) : Place(s, Dest(a)) \in Nat /\ Place(s, Dest(a)) + 1 <= MaxOrder
           /\ \A s \in Left(a) : Place(s, Left(a)) \in Nat /\ Place(s, Left(a)) <= MaxOrder
  <1>1. op[a] \in TreeOp
    BY CatalogueTypes
  <1>2. op[a].cat \in Category /\ op[a].order \in Nat
    BY <1>1, CatalogueBounds DEF TreeOp
  <1>3. Dest(a) \subseteq Category \ {op[a].cat} /\ Left(a) \subseteq Category \ {op[a].cat}
    BY DEF Dest, Left, Children
  <1>4. \A s \in Dest(a) \union Left(a) : Stands(s) /\ category[s].order \in Nat
    <2>1. \A s \in Dest(a) \union Left(a) : Stands(s)
      BY DEF Dest, Left, Children
    <2> QED
      BY <1>3, <2>1, OrdersAreNat
  <1>5. /\ IsFiniteSet(Category) /\ Cardinality(Category) \in Nat
        /\ Cardinality(Category \ {op[a].cat}) = Cardinality(Category) - 1
        /\ IsFiniteSet(Category \ {op[a].cat})
    <2>1. IsFiniteSet(Category)
      BY CategoryAssumption
    <2>2. Cardinality(Category) \in Nat
      BY <2>1, FS_CardinalityType
    <2>3. /\ IsFiniteSet(Category \ {op[a].cat})
          /\ Cardinality(Category \ {op[a].cat}) = Cardinality(Category) - 1
      BY <1>2, <2>1, FS_RemoveElement
    <2> QED
      BY <2>1, <2>2, <2>3
  <1>6. ASSUME NEW S \in SUBSET (Category \ {op[a].cat})
        PROVE  Cardinality(S) \in Nat /\ Cardinality(S) <= Cardinality(Category) - 1
    <2>1. IsFiniteSet(S)
      BY <1>5, FS_Subset
    <2>2. Cardinality(S) <= Cardinality(Category \ {op[a].cat})
      BY <1>5, FS_Subset
    <2> QED
      BY <1>5, <2>1, <2>2, FS_CardinalityType
  <1>7. MaxOrder \in Nat /\ Cardinality(Category) - 1 <= MaxOrder
    BY <1>5, CatalogueBounds
  <1>8. /\ Cardinality(Dest(a)) \in Nat /\ Cardinality(Dest(a)) <= MaxOrder
        /\ Cardinality(Left(a)) \in Nat /\ Cardinality(Left(a)) <= MaxOrder
    <2>1. /\ Cardinality(Dest(a)) \in Nat /\ Cardinality(Dest(a)) <= Cardinality(Category) - 1
          /\ Cardinality(Left(a)) \in Nat /\ Cardinality(Left(a)) <= Cardinality(Category) - 1
      BY <1>3, <1>6
    <2> QED
      BY <1>5, <1>7, <2>1
  <1>9. Index(a) \in Nat /\ Index(a) <= Cardinality(Dest(a)) /\ Index(a) <= MaxOrder
    <2>1. CASE op[a].order < Cardinality(Dest(a))
      <3>1. Index(a) = op[a].order
        BY <2>1 DEF Index
      <3> QED
        BY <1>2, <1>7, <1>8, <2>1, <3>1
    <2>2. CASE ~(op[a].order < Cardinality(Dest(a)))
      <3>1. Index(a) = Cardinality(Dest(a))
        BY <2>2 DEF Index
      <3> QED
        BY <1>8, <3>1
    <2> QED
      BY <2>1, <2>2
  <1>10. \A s \in Dest(a) : Place(s, Dest(a)) \in Nat /\ Place(s, Dest(a)) < Cardinality(Dest(a))
    <2>1. Dest(a) \in SUBSET Category /\ \A r \in Dest(a) : category[r].order \in Nat
      BY <1>3, <1>4
    <2> QED
      BY <2>1, PlaceBounds
  <1>11. \A s \in Left(a) : Place(s, Left(a)) \in Nat /\ Place(s, Left(a)) < Cardinality(Left(a))
    <2>1. Left(a) \in SUBSET Category /\ \A r \in Left(a) : category[r].order \in Nat
      BY <1>3, <1>4
    <2> QED
      BY <2>1, PlaceBounds
  <1>12. \A s \in Dest(a) : Place(s, Dest(a)) + 1 <= MaxOrder
    BY <1>7, <1>8, <1>10
  <1>13. \A s \in Left(a) : Place(s, Left(a)) <= MaxOrder
    BY <1>7, <1>8, <1>11
  <1> QED
    BY <1>3, <1>4, <1>9, <1>10, <1>11, <1>12, <1>13

LEMMA OrderType ==
    ASSUME CatalogueTypeOK, NEW a \in Admin, NEW s \in Category, Stands(s)
    PROVE  OrderOf(a, s) \in 0..MaxOrder
  <1>1. MaxOrder \in Nat
    BY CatalogueBounds
  <1>2. CASE s = op[a].cat
    BY <1>1, <1>2, OrderCases, MoveBounds
  <1>3. CASE s \in Left(a)
    BY <1>1, <1>3, OrderCases, MoveBounds
  <1>4. CASE s \in Dest(a)
    <2>1. Place(s, Dest(a)) \in Nat /\ Place(s, Dest(a)) + 1 <= MaxOrder
      BY <1>4, MoveBounds
    <2>2. OrderOf(a, s) = Place(s, Dest(a)) \/ OrderOf(a, s) = Place(s, Dest(a)) + 1
      BY <1>4, OrderCases
    <2> QED
      BY <1>1, <2>1, <2>2
  <1>5. CASE s # op[a].cat /\ s \notin Left(a) /\ s \notin Dest(a)
    BY <1>1, <1>5, OrderCases, OrdersAreNat
  <1> QED
    BY <1>2, <1>3, <1>4, <1>5

\* The rows as a move leaves them.
LEMMA MoveRows ==
    ASSUME CatalogueTypeOK, NEW a \in Admin, MoveCommit(a), Stands(op[a].cat)
    PROVE  /\ category' \in [Category -> CategoryRow \union {NoCategory}]
           /\ \A s \in Category :
                 /\ Stands(s)' <=> Stands(s)
                 /\ Stands(s) =>
                       /\ category'[s].order = OrderOf(a, s)
                       /\ category'[s].cover = category[s].cover
                       /\ category'[s].parent = IF s = op[a].cat THEN op[a].parent ELSE category[s].parent
                       /\ category'[s].tier = IF s \in Below(op[a].cat) \union {op[a].cat} THEN op[a].tier
                                              ELSE category[s].tier
  <1> DEFINE c == op[a].cat
  <1> DEFINE cs == Below(c) \union {c}
  <1> DEFINE rows == Placed(a)
  <1>1. /\ category \in [Category -> CategoryRow \union {NoCategory}] /\ op[a] \in TreeOp
        /\ \A s \in Category : s # NoCategory /\ (Stands(s) => category[s] \in CategoryRow)
    BY CatalogueTypes
  <1>2. c \in Category /\ op[a].parent \in Parent /\ op[a].tier \in Tier
    BY <1>1 DEF TreeOp
  <1>3. ASSUME NEW s \in Category, Stands(s)
        PROVE  /\ rows[s] \in CategoryRow /\ rows[s].order = OrderOf(a, s)
               /\ rows[s].cover = category[s].cover /\ rows[s].tier = category[s].tier
               /\ rows[s].parent = IF s = c THEN op[a].parent ELSE category[s].parent
    <2> DEFINE n == OrderOf(a, s)
    <2> DEFINE p == IF s = c THEN op[a].parent ELSE category[s].parent
    <2>1. rows[s] = [category[s] EXCEPT !.order = n, !.parent = p]
      BY <1>3, <1>1 DEF Placed, CategoryRow
    <2>2. n \in 0..MaxOrder
      BY <1>3, OrderType
    <2>3. category[s] \in CategoryRow
      BY <1>1, <1>3
    <2>4. p \in Parent
      BY <1>2, <2>3 DEF CategoryRow
    <2> HIDE DEF n, p, rows
    <2>5. rows[s] \in CategoryRow /\ rows[s].order = n /\ rows[s].parent = p
          /\ rows[s].cover = category[s].cover /\ rows[s].tier = category[s].tier
      BY <2>1, <2>2, <2>3, <2>4 DEF CategoryRow
    <2> QED
      BY <2>5 DEF n, p
  <1>4. \A s \in Category : ~Stands(s) => rows[s] = NoCategory
    BY DEF Placed
  <1>5. rows \in [Category -> CategoryRow \union {NoCategory}]
    <2>1. \A s \in Category : rows[s] \in CategoryRow \union {NoCategory}
      BY <1>3, <1>4
    <2> QED
      BY <2>1 DEF Placed
  <1>6. \A s \in cs : s \in Category /\ Stands(s)
    BY <1>2, BelowStands
  <1>7. category' = WithTier(rows, cs, op[a].tier)
    BY MoveCommitPlaces
  <1> HIDE DEF rows, cs
  <1>8. \A s \in cs \intersect Category : rows[s] # NoCategory
    BY <1>3, <1>6, NoCategoryAssumption
  <1>9. category' \in [Category -> CategoryRow \union {NoCategory}]
    BY <1>2, <1>5, <1>7, <1>8, WithTierType
  <1>10. ASSUME NEW s \in Category
         PROVE  /\ Stands(s)' <=> Stands(s)
                /\ Stands(s) =>
                     /\ category'[s].order = OrderOf(a, s)
                     /\ category'[s].cover = category[s].cover
                     /\ category'[s].parent = IF s = op[a].cat THEN op[a].parent ELSE category[s].parent
                     /\ category'[s].tier = IF s \in cs THEN op[a].tier ELSE category[s].tier
    <2>1. CASE s \in cs
      <3>1. /\ category'[s] # NoCategory /\ category'[s].tier = op[a].tier
            /\ category'[s].parent = rows[s].parent /\ category'[s].order = rows[s].order
            /\ category'[s].cover = rows[s].cover
        BY <1>2, <1>5, <1>7, <1>8, <2>1, WithTierType
      <3>2. Stands(s) /\ Stands(s)'
        BY <1>1, <1>6, <2>1, <3>1 DEF Stands
      <3> QED
        BY <1>3, <2>1, <3>1, <3>2
    <2>2. CASE s \notin cs
      <3>1. category'[s] = rows[s]
        BY <1>2, <1>5, <1>7, <1>8, <2>2, WithTierType
      <3>2. Stands(s)' <=> Stands(s)
        BY <1>1, <1>3, <1>4, <3>1, NoCategoryAssumption DEF Stands
      <3> QED
        BY <1>3, <2>2, <3>1, <3>2
    <2> QED
      BY <2>1, <2>2
  <1> QED
    BY <1>9, <1>10 DEF cs

LEMMA MoveCommitKeeps ==
    ASSUME CatalogueIInv, NEW a \in Admin, MoveCommit(a)
    PROVE  CatalogueIInv'
  <1>1. OnlyTree /\ Rollback(a) /\ made' = made /\ untold' \subseteq Category
    BY UntoldType DEF MoveCommit, OnlyTree
  <1>2. Stands(op[a].cat) /\ CatalogueTypeOK
    BY DEF CatalogueIInv, OpOk, MoveCommit, Does, MoveSteps
  <1>3. /\ category' \in [Category -> CategoryRow \union {NoCategory}]
        /\ \A s \in Category : (Stands(s)' <=> Stands(s)) /\ (Stands(s) => category'[s].cover = category[s].cover)
    BY <1>2, MoveRows
  <1>4. RowsGoOn(a)
    BY <1>1, <1>3, StayingRowsGoOn
  <1> QED
    BY <1>1, <1>4, RollbackKeeps

-----------------------------------------------------------------------------
(* Covers *)

LEMMA CoverBeginKeeps ==
    ASSUME CatalogueIInv, NEW a \in Admin, NEW c \in Category, NEW step, CoverBegin(a, c, step)
    PROVE  CatalogueIInv'
  <1> DEFINE o == [Idle EXCEPT !.at = step, !.cat = c, !.old = category[c].cover, !.moved = (step = "adopt")]
  <1>1. /\ Stands(c) /\ step \in {"draw", "setNull", "adopt"} /\ (step = "adopt" => category[c].cover = 0)
        /\ op[a].at = "idle" /\ OnlyOp /\ op' = [op EXCEPT ![a] = o]
    BY DEF CoverBegin, Does
  <1>2. category[c] \in CategoryRow /\ c <= made
    BY <1>1, CatalogueTypes DEF CatalogueIInv
  <1>3. category[c].cover \in 0..MaxCover /\ category[c].cover <= drawn
    BY <1>1, <1>2 DEF CategoryRow, CatalogueIInv, CoversOk
  <1>4. Idle \in TreeOp /\ Idle.new = 0
    BY IdleType DEF Idle
  <1>5. /\ o \in TreeOp /\ o.at = step /\ o.cat = c /\ o.old = category[c].cover
        /\ o.new = 0 /\ o.moved = (step = "adopt")
    BY <1>1, <1>3, <1>4 DEF TreeOp, OpStep
  <1>6. \A b \in Admin \ {a} : op[b].at = "setCover" => category[c].cover # op[b].new
    BY <1>1 DEF CatalogueIInv, FreshOk
  <1> HIDE DEF o
  <1>7. NextOpOk(a, o)
    BY <1>1, <1>2, <1>3, <1>5, <1>6 DEF NextOpOk, MoveSteps
  <1>8. op[a].at \notin MoveSteps
    BY <1>1 DEF MoveSteps
  <1> QED
    BY <1>1, <1>7, <1>8, OnlyOpKeeps

LEMMA CoverDrawKeeps ==
    ASSUME CatalogueIInv, NEW a \in Admin, CoverDraw(a)
    PROVE  CatalogueIInv'
  <1> DEFINE c == op[a].cat
  <1> DEFINE n == drawn + 1
  <1> DEFINE o == [op[a] EXCEPT !.at = "setCover", !.new = n]
  <1>1. /\ op[a].at \in {"draw", "adopt"} /\ drawn < MaxCover /\ drawn' = n
        /\ covers' = covers \union {<<c, n>>}
        /\ category' = category /\ made' = made /\ locked' = locked /\ untold' = untold
    BY DEF CoverDraw, Does
  <1>2. /\ op \in [Admin -> TreeOp] /\ op[a] \in TreeOp /\ drawn \in Nat /\ covers \subseteq Category \X (1..drawn)
    BY CatalogueTypes DEF CatalogueIInv
  <1>3. op' = [op EXCEPT ![a] = o]
    BY <1>1, <1>2 DEF CoverDraw
  <1>4. n \in 1..MaxCover /\ n \in 0..MaxCover
    BY <1>1, <1>2, CatalogueBounds
  <1>5. /\ o \in TreeOp /\ o.at = "setCover" /\ o.cat = c /\ o.old = op[a].old /\ o.new = n
        /\ o.moved = op[a].moved
    BY <1>2, <1>4 DEF TreeOp, OpStep
  <1>6. c \in Category
    BY <1>2 DEF TreeOp
  <1>7. op'[a] = o /\ op' \in [Admin -> TreeOp] /\ \A b \in Admin \ {a} : op'[b] = op[b]
    BY <1>2, <1>3, <1>5
  <1> HIDE DEF o
  <1>8. CatalogueTypeOK'
    <2>1. covers' \subseteq Category \X (1..drawn')
      <3>1. \A f \in covers : f \in Category \X (1..n)
        BY <1>2
      <3>2. <<c, n>> \in Category \X (1..n)
        BY <1>2, <1>6
      <3> QED
        BY <1>1, <3>1, <3>2
    <2> QED
      BY <1>1, <1>4, <1>7, <2>1 DEF CatalogueIInv, CatalogueTypeOK
  <1>9. CoversOk'
    <2>1. \A d \in Category : Stands(d) => category[d].cover <= drawn /\ category[d].cover \in Nat
      <3>1. \A r \in CategoryRow : r.cover \in Nat
        BY CatalogueBounds DEF CategoryRow
      <3>2. \A d \in Category : Stands(d) => category[d] \in CategoryRow
        BY CatalogueTypes DEF CatalogueIInv
      <3> QED
        BY <3>1, <3>2 DEF CatalogueIInv, CoversOk
    <2>2. \A d \in Category : Stands(d) => category[d].cover <= n
      BY <1>2, <2>1
    <2>3. CoverIsStored
      BY DEF CatalogueIInv, CoversOk
    <2> QED
      BY <1>1, <2>2, <2>3 DEF CoversOk, CoverIsStored, Stands
  <1>10. OpOk(a)'
    <2>1. /\ op[a].cat <= made /\ locked[a] = {} /\ (op[a].moved => op[a].old = 0) /\ op[a].old <= drawn
      BY <1>1 DEF CatalogueIInv, OpOk, MoveSteps
    <2>2. op[a].old \in Nat
      BY <1>2, CatalogueBounds DEF TreeOp
    <2>3. n \in 1..n /\ op[a].old <= n
      BY <1>2, <2>1, <2>2
    <2> QED
      BY <1>1, <1>5, <1>7, <2>1, <2>3 DEF OpOk, MoveSteps
  <1>11. ASSUME NEW b \in Admin \ {a}
         PROVE  OpOk(b)'
    <2>1. OpOk(b) /\ op'[b] = op[b] /\ op[b].old \in Nat /\ op[b].new \in Nat
      BY <1>2, <1>7, CatalogueBounds DEF CatalogueIInv, TreeOp
    <2>2. op[b].old <= drawn => op[b].old <= n
      BY <1>2, <2>1
    <2>3. op[b].new \in 1..drawn => op[b].new \in 1..n
      BY <1>2, <2>1
    <2> QED
      BY <1>1, <2>1, <2>2, <2>3 DEF OpOk, Stands
  <1>12. ASSUME NEW b \in Admin
         PROVE  FreshOk(b)'
    <2>1. /\ \A d \in Admin : op[d].old # n
          /\ \A d \in Admin : op[d].at = "setCover" => op[d].new # n
          /\ \A d \in Category : Stands(d) => category[d].cover # n
      <3>1. ASSUME NEW d \in Admin
            PROVE  op[d].old # n /\ (op[d].at = "setCover" => op[d].new # n)
        <4>1. OpOk(d)
          BY DEF CatalogueIInv
        <4>2. op[d].old <= drawn /\ op[d].old \in Nat
          <5>1. op[d] \in TreeOp
            BY <1>2
          <5> QED
            BY <4>1, <5>1, CatalogueBounds DEF OpOk, TreeOp
        <4>3. op[d].at = "setCover" => op[d].new \in 1..drawn
          BY <4>1 DEF OpOk
        <4> QED
          BY <1>2, <4>2, <4>3
      <3>2. ASSUME NEW d \in Category, Stands(d)
            PROVE  category[d].cover # n
        <4>1. category[d] \in CategoryRow /\ category[d].cover <= drawn
          BY <3>2, CatalogueTypes DEF CatalogueIInv, CoversOk
        <4>2. category[d].cover \in Nat
          BY <4>1, CatalogueBounds DEF CategoryRow
        <4> QED
          BY <1>2, <4>1, <4>2
      <3> QED
        BY <3>1, <3>2
    <2> HIDE DEF n
    <2>2. CASE b = a
      <3>1. \A d \in Admin : op'[d].old # n /\ (d # a /\ op'[d].at = "setCover" => op'[d].new # n)
        BY <1>5, <1>7, <2>1
      <3> QED
        BY <1>1, <1>5, <1>7, <2>1, <2>2, <3>1 DEF FreshOk, Stands
    <2>3. CASE b # a
      <3>1. FreshOk(b) /\ op'[b] = op[b]
        BY <1>7, <2>3 DEF CatalogueIInv
      <3>2. \A d \in Admin : op'[d].old = op[d].old
        BY <1>5, <1>7
      <3>3. op[b].at = "setCover" =>
               \A d \in Admin \ {b} : op'[d].at = "setCover" => op'[d].new # op[b].new
        BY <1>5, <1>7, <2>1, <2>3, <3>1 DEF FreshOk
      <3> QED
        BY <1>1, <3>1, <3>2, <3>3 DEF FreshOk, Stands
    <2> QED
      BY <2>2, <2>3
  <1> QED
    BY <1>8, <1>9, <1>10, <1>11, <1>12 DEF CatalogueIInv

\* A step that takes away one cover that nobody names or is about to name.
LEMMA FileGoes ==
    ASSUME CatalogueIInv, NEW a \in Admin, op' = [op EXCEPT ![a] = Idle], locked[a] = {},
           category' = category, made' = made, drawn' = drawn, locked' = locked, untold' = untold,
           NEW f, covers' = covers \/ covers' = covers \ {f},
           \A d \in Category : Stands(d) => <<d, category[d].cover>> # f,
           \A b \in Admin \ {a} : op[b].at = "setCover" => <<op[b].cat, op[b].new>> # f
    PROVE  CatalogueIInv'
  <1>1. op \in [Admin -> TreeOp] /\ op'[a] = Idle /\ \A b \in Admin \ {a} : op'[b] = op[b]
    BY DEF CatalogueIInv, CatalogueTypeOK
  <1>2. OpOk(a)' /\ NextOldOk(a, Idle)
    BY EndsOk, IdleOldOk DEF CatalogueIInv
  <1>3. CatalogueTypeOK'
    <2>1. op' \in [Admin -> TreeOp]
      BY <1>1, IdleType
    <2>2. covers' \subseteq covers
      OBVIOUS
    <2> QED
      BY <2>1, <2>2 DEF CatalogueIInv, CatalogueTypeOK
  <1>4. CoversOk'
    <2>1. CoversOk
      BY DEF CatalogueIInv
    <2> QED
      BY <2>1 DEF CoversOk, CoverIsStored, Stands
  <1>5. ASSUME NEW b \in Admin \ {a}
        PROVE  OpOk(b)'
    <2>1. OpOk(b) /\ op'[b] = op[b]
      BY <1>1 DEF CatalogueIInv
    <2>2. op[b].at = "setCover" => (<<op[b].cat, op[b].new>> \in covers => <<op[b].cat, op[b].new>> \in covers')
      OBVIOUS
    <2> QED
      BY <2>1, <2>2 DEF OpOk, Stands
  <1>6. ASSUME NEW b \in Admin
        PROVE  FreshOk(b)'
    BY <1>1, <1>2, IdleType DEF FreshOk, NextOldOk, CatalogueIInv, Stands
  <1> QED
    BY <1>2, <1>3, <1>4, <1>5, <1>6 DEF CatalogueIInv

LEMMA CoverUnlinkKeeps ==
    ASSUME CatalogueIInv, NEW a \in Admin, CoverUnlink(a) \/ CoverFails(a)
    PROVE  CatalogueIInv'
  <1>1. /\ op' = [op EXCEPT ![a] = Idle]
        /\ category' = category /\ made' = made /\ drawn' = drawn /\ locked' = locked /\ untold' = untold
    BY DEF CoverUnlink, CoverFails, EndsOp
  <1>2. op[a].at \in {"unlink", "setCover"}
    BY DEF CoverUnlink, CoverFails, Does
  <1>3. locked[a] = {} /\ OpOk(a) /\ FreshOk(a)
    BY <1>2 DEF CatalogueIInv, OpOk, MoveSteps
  <1>4. CASE CoverUnlink(a)
    <2> DEFINE f == <<op[a].cat, op[a].old>>
    <2>1. covers' = covers \ {f} /\ op[a].at = "unlink"
      BY <1>4 DEF CoverUnlink, Does
    <2>2. \A d \in Category : Stands(d) => <<d, category[d].cover>> # f
      BY <1>3, <2>1 DEF OpOk
    <2>3. \A b \in Admin \ {a} : op[b].at = "setCover" => <<op[b].cat, op[b].new>> # f
      BY NewIsNew
    <2> HIDE DEF f
    <2> QED
      BY <1>1, <1>3, <2>1, <2>2, <2>3, FileGoes
  <1>5. CASE CoverFails(a)
    <2> DEFINE f == <<op[a].cat, op[a].new>>
    <2>1. (covers' = covers \/ covers' = covers \ {f}) /\ op[a].at = "setCover"
      BY <1>5 DEF CoverFails, Does
    <2>2. \A d \in Category : Stands(d) => <<d, category[d].cover>> # f
      BY <1>3, <2>1 DEF FreshOk
    <2>3. \A b \in Admin \ {a} : op[b].at = "setCover" => <<op[b].cat, op[b].new>> # f
      BY <1>3, <2>1 DEF FreshOk
    <2> HIDE DEF f
    <2> QED
      BY <1>1, <1>3, <2>1, <2>2, <2>3, FileGoes
  <1> QED
    BY <1>4, <1>5

LEMMA CoverUpdateKeeps ==
    ASSUME CatalogueIInv, NEW a \in Admin, CoverUpdate(a)
    PROVE  CatalogueIInv'
  <1> DEFINE c == op[a].cat
  <1> DEFINE n == op[a].new
  <1> DEFINE row == [category[c] EXCEPT !.cover = n]
  <1> DEFINE written == Stands(c) /\ (op[a].moved => category[c].cover = 0)
  <1>1. /\ made' = made /\ covers' = covers /\ drawn' = drawn /\ locked' = locked
        /\ op[a].at \in {"setCover", "setNull"} /\ untold' = untold
        /\ category' = IF written THEN [category EXCEPT ![c] = row] ELSE category
    BY DEF CoverUpdate, OnlyTree, Does
  <1>2. /\ category \in [Category -> CategoryRow \union {NoCategory}] /\ op \in [Admin -> TreeOp] /\ op[a] \in TreeOp
        /\ \A d \in Category : Stands(d) => category[d] \in CategoryRow
    BY CatalogueTypes DEF CatalogueIInv
  <1>3. c \in Category /\ n \in 0..MaxCover /\ op[a].old \in 0..MaxCover
    BY <1>2 DEF TreeOp
  <1>4. /\ OpOk(a) /\ FreshOk(a) /\ c <= made /\ locked[a] = {} /\ op[a].old <= drawn
        /\ op[a].moved => op[a].old = 0
    BY <1>1 DEF CatalogueIInv, OpOk, MoveSteps
  <1>5. Stands(c) => row \in CategoryRow /\ row.cover = n /\ row # NoCategory
    BY <1>2, <1>3, NoCategoryAssumption DEF CategoryRow
  <1>6. n = 0 \/ (op[a].at = "setCover" /\ (Stands(c) => <<c, n>> \in covers))
    BY <1>1, <1>4 DEF OpOk
  <1>7. n <= drawn
    <2>1. 0 <= drawn
      BY DrawnIsNat DEF CatalogueIInv
    <2>2. op[a].at = "setCover" => n \in 1..drawn
      BY <1>4 DEF OpOk
    <2> QED
      BY <1>6, <2>1, <2>2
  <1>8. \A b \in Admin \ {a} : op[b].at = "setCover" => op[b].new # n
    BY <1>4, <1>6, NewIsNew DEF FreshOk
  <1> HIDE DEF n, row, written
  <1>9. /\ category' \in [Category -> CategoryRow \union {NoCategory}]
        /\ \A d \in Category : /\ Stands(d)' <=> Stands(d)
                               /\ Stands(d) => category'[d].cover = IF d = c /\ written THEN n ELSE category[d].cover
    <2>1. CASE written
      <3>1. Stands(c) /\ category' = [category EXCEPT ![c] = row]
        BY <1>1, <2>1 DEF written
      <3>2. category'[c] = row /\ \A d \in Category \ {c} : category'[d] = category[d]
        BY <1>2, <1>3, <3>1
      <3> QED
        BY <1>2, <1>3, <1>5, <2>1, <3>1, <3>2 DEF Stands
    <2>2. CASE ~written
      BY <1>1, <1>2, <2>2 DEF Stands
    <2> QED
      BY <2>1, <2>2
  <1>10. \E o \in TreeOp :
            /\ op' = [op EXCEPT ![a] = o] /\ o.at \in {"idle", "unlink"}
            /\ o.at = "unlink" => op[a].old # 0 /\ o.cat = c
            /\ o.old = 0 \/ o.old = op[a].old
    <2>1. CASE op[a].old = 0
      <3>1. op' = [op EXCEPT ![a] = Idle]
        BY <2>1 DEF CoverUpdate, EndsOp
      <3> QED
        BY <3>1, IdleType
    <2>2. CASE op[a].old # 0
      <3> DEFINE o == [op[a] EXCEPT !.at = "unlink"]
      <3>1. op' = [op EXCEPT ![a] = o]
        BY <1>2, <2>2 DEF CoverUpdate, Then
      <3>2. o \in TreeOp /\ o.at = "unlink" /\ o.old = op[a].old /\ o.cat = c
        BY <1>2 DEF TreeOp, OpStep
      <3> QED
        BY <2>2, <3>1, <3>2
    <2> QED
      BY <2>1, <2>2
  <1>11. PICK o \in TreeOp :
            /\ op' = [op EXCEPT ![a] = o] /\ o.at \in {"idle", "unlink"}
            /\ o.at = "unlink" => op[a].old # 0 /\ o.cat = c
            /\ o.old = 0 \/ o.old = op[a].old
    BY <1>10
  <1> HIDE DEF c
  <1>12. op'[a] = o /\ op' \in [Admin -> TreeOp] /\ \A b \in Admin \ {a} : op'[b] = op[b]
    BY <1>2, <1>11
  <1>13. CatalogueTypeOK'
    <2>1. \A d \in Category : category'[d] # NoCategory => d <= made
      BY <1>9, CatalogueTypes, CategoryAssumption DEF CatalogueIInv, Stands
    <2> QED
      BY <1>1, <1>9, <1>12, <2>1 DEF CatalogueIInv, CatalogueTypeOK
  <1>14. CoversOk'
    <2>1. CoversOk
      BY DEF CatalogueIInv
    <2>2. ASSUME NEW d \in Category, Stands(d)'
          PROVE  category'[d].cover <= drawn /\ (category'[d].cover # 0 => <<d, category'[d].cover>> \in covers)
      <3>1. CASE d = c /\ written
        BY <1>6, <1>7, <1>9, <2>2, <3>1 DEF written, c, n
      <3>2. CASE ~(d = c /\ written)
        BY <1>9, <2>1, <2>2, <3>2 DEF CoversOk, CoverIsStored
      <3> QED
        BY <3>1, <3>2
    <2> QED
      BY <1>1, <2>2 DEF CoversOk, CoverIsStored
  <1>15. OpOk(a)'
    <2>1. o.old <= drawn
      BY <1>4, <1>11, DrawnIsNat DEF CatalogueIInv
    <2>2. o.at = "unlink" => o.old # 0
      <3>1. CASE op[a].old = 0
        <4>1. o.at # "unlink"
          BY <1>11, <3>1
        <4> QED
          BY <4>1
      <3>2. CASE op[a].old # 0
        <4>1. op' = [op EXCEPT ![a].at = "unlink"]
          BY <3>2 DEF CoverUpdate, Then
        <4>2. o.old = op[a].old
          BY <1>2, <1>12, <4>1 DEF TreeOp
        <4> QED
          BY <3>2, <4>2
      <3> QED
        BY <3>1, <3>2
    <2>3. o.at = "unlink" /\ Stands(o.cat)' => category'[o.cat].cover # o.old
      <3>1. SUFFICES ASSUME o.at = "unlink", Stands(o.cat)'
                     PROVE  category'[o.cat].cover # o.old
        OBVIOUS
      <3>2. o.cat = c /\ op[a].old # 0 /\ o.old = op[a].old /\ Stands(c)
        BY <1>3, <1>9, <1>11, <2>2, <3>1 DEF c
      <3>3. written
        BY <1>4, <3>2 DEF written, c
      <3>4. category'[c].cover = n
        BY <1>3, <1>9, <3>2, <3>3 DEF c
      <3>5. n # op[a].old
        BY <1>4, <1>6, <3>2 DEF FreshOk, n
      <3> QED
        BY <3>2, <3>4, <3>5
    <2>4. o.at # "idle" => o.cat <= made
      BY <1>4, <1>11 DEF c
    <2>5. o.at \notin MoveSteps
      BY <1>11 DEF MoveSteps
    <2> QED
      BY <1>1, <1>4, <1>11, <1>12, <2>1, <2>2, <2>3, <2>4, <2>5 DEF OpOk
  <1>16. ASSUME NEW b \in Admin \ {a}
         PROVE  OpOk(b)'
    <2>1. OpOk(b) /\ op'[b] = op[b] /\ op[b].cat \in Category
      BY <1>2, <1>12 DEF CatalogueIInv, TreeOp
    <2>2. Stands(op[b].cat)' <=> Stands(op[b].cat)
      BY <1>9, <2>1 DEF Stands
    <2>3. n # op[b].old \/ op[b].old = 0
      BY <1>4, <1>6 DEF FreshOk, n
    <2>4. op[b].at = "unlink" /\ Stands(op[b].cat) => category'[op[b].cat].cover # op[b].old
      BY <1>9, <2>1, <2>3 DEF OpOk
    <2> QED
      BY <1>1, <2>1, <2>2, <2>4 DEF OpOk
  <1>17. ASSUME NEW b \in Admin
         PROVE  FreshOk(b)'
    <2>1. CASE b = a
      BY <1>11, <1>12, <2>1 DEF FreshOk
    <2>2. CASE b # a
      <3>1. FreshOk(b) /\ op'[b] = op[b]
        BY <1>12, <2>2 DEF CatalogueIInv
      <3>2. op[b].at = "setCover" => \A d \in Admin : op'[d].old # op[b].new
        BY <1>11, <1>12, <3>1, NewIsNew DEF FreshOk
      <3>3. op[b].at = "setCover" => \A d \in Category : Stands(d)' => category'[d].cover # op[b].new
        BY <1>8, <1>9, <2>2, <3>1 DEF FreshOk
      <3>4. op[b].at = "setCover" => \A d \in Admin \ {b} : op'[d].at = "setCover" => op'[d].new # op[b].new
        BY <1>11, <1>12, <3>1 DEF FreshOk
      <3> QED
        BY <3>1, <3>2, <3>3, <3>4 DEF FreshOk
    <2> QED
      BY <2>1, <2>2
  <1> QED
    BY <1>13, <1>14, <1>15, <1>16, <1>17 DEF CatalogueIInv

-----------------------------------------------------------------------------
(* The theorem of any number of requests *)

LEMMA CatalogueInitHolds ==
    ASSUME CatalogueInit
    PROVE  CatalogueIInv
  <1>1. /\ \A c \in Category : category[c] = NoCategory /\ ~Stands(c)
        /\ \A a \in Admin : op[a] = Idle /\ locked[a] = {}
        /\ made = 0 /\ covers = {} /\ drawn = 0
    BY DEF CatalogueInit, Stands
  <1>2. CatalogueTypeOK
    <2>1. 0 \in 0..Cardinality(Category) /\ 0 \in 0..MaxCover
      BY CategoryAssumption, FS_CardinalityType, CatalogueBounds
    <2> QED
      BY <1>1, <2>1, IdleType DEF CatalogueInit, CatalogueTypeOK
  <1>3. CoversOk
    BY <1>1 DEF CoversOk, CoverIsStored
  <1>4. ASSUME NEW a \in Admin
        PROVE  OpOk(a) /\ FreshOk(a)
    BY <1>1, IdleType DEF OpOk, FreshOk, MoveSteps
  <1> QED
    BY <1>2, <1>3, <1>4 DEF CatalogueIInv

LEMMA CatalogueStep ==
    ASSUME CatalogueIInv, [CatalogueNext]_catalogueVars
    PROVE  CatalogueIInv'
  <1>1. ASSUME NEW a \in Admin, Restructure(a)
        PROVE  CatalogueIInv'
    <2>1. CASE \E p \in Parent, t \in Tier : AddBegin(a, p, t)
      <3>1. 1 \in Category
        BY CategoryAssumption, FS_CardinalityType
      <3> QED
        BY <2>1, <3>1, BeginKeeps
    <2>2. ASSUME NEW c \in Category,
                 \/ \E p \in Parent, t \in Tier : EditBegin(a, c, TRUE, p, t)
                 \/ \E t \in Tier : EditBegin(a, c, FALSE, NoCategory, t)
                 \/ RemoveBegin(a, c)
          PROVE  CatalogueIInv'
      <3>1. NoCategory \in Parent /\ \E t \in Tier : TRUE
        BY TierAssumption DEF Parent
      <3> QED
        BY <2>2, <3>1, BeginKeeps
    <2>3. ASSUME NEW c \in Category, \E p \in Parent, slot \in 0..MaxOrder : MoveBegin(a, c, p, slot)
          PROVE  CatalogueIInv'
      BY <2>3, MoveLooksKeep
    <2>4. CASE MoveParent(a) \/ MoveDescends(a) \/ MoveSiblings(a) \/ MoveAborts(a)
      <3>1. 1 \in Category /\ NoCategory \in Parent /\ 0 \in 0..MaxOrder
        BY CategoryAssumption, FS_CardinalityType, CatalogueBounds DEF Parent
      <3> QED
        BY <2>4, <3>1, MoveLooksKeep
    <2>5. CASE EditDescends(a) \/ EditTier(a) \/ EditOrder(a) \/ RemoveChildren(a) \/ RemoveCover(a)
      BY <2>5, LooksKeep
    <2> QED
      BY <1>1, <2>1, <2>2, <2>3, <2>4, <2>5, AddInsertKeeps, EditUpdateKeeps, EditPropagateKeeps, EditCutKeeps,
         MoveCommitKeeps,
         RemoveRowKeeps, RemoveCoverFilesKeeps DEF Restructure
  <1>2. ASSUME NEW a \in Admin, Recover(a)
        PROVE  CatalogueIInv'
    BY <1>2, CoverBeginKeeps, CoverDrawKeeps, CoverUpdateKeeps, CoverUnlinkKeeps DEF Recover
  <1>3. CASE UNCHANGED catalogueVars
    BY <1>3 DEF catalogueVars, CatalogueIInv, CatalogueTypeOK, CoversOk, CoverIsStored, OpOk, FreshOk, Stands
  <1> QED
    BY <1>1, <1>2, <1>3, AdminAssumption DEF CatalogueNext

\* Whatever any number of administrators and uploads change at the same time,
\* the cover that a category's row names is stored.
THEOREM CoversStay == CatalogueSpec => [](CatalogueTypeOK /\ CoverIsStored)
  <1>1. CatalogueInit => CatalogueIInv
    BY CatalogueInitHolds
  <1>2. CatalogueIInv /\ [CatalogueNext]_catalogueVars => CatalogueIInv'
    BY CatalogueStep
  <1>3. CatalogueIInv => CatalogueTypeOK /\ CoverIsStored
    BY DEF CatalogueIInv, CoversOk
  <1> QED
    BY <1>1, <1>2, <1>3, PTL DEF CatalogueSpec

-----------------------------------------------------------------------------
(* The tree, while one request at a time changes it *)

ParentsStand ==
    \A c \in Category : Stands(c) /\ category[c].parent # NoCategory => Stands(category[c].parent)

TierAgrees(c) ==
    Stands(c) /\ category[c].parent # NoCategory =>
       category[c].tier = category[category[c].parent].tier \/ category[c].parent \in untold

OrdersDiffer ==
    \A c, d \in Category :
        Stands(c) /\ Stands(d) /\ c # d /\ category[c].parent = category[d].parent
           => category[c].order # category[d].order

\* While an edit has yet to carry a tier down, only those directly below the
\* edited category may differ from their parents.
TiersAgree(a) ==
    IF op[a].at = "propagate"
      THEN /\ category[op[a].cat].tier = op[a].tier
           /\ \A c \in Category : category[c].parent # op[a].cat => TierAgrees(c)
      ELSE \A c \in Category : TierAgrees(c)

AtParent == {"tier", "order", "update", "moveSiblings", "moveCommit"}

\* What the one request that changes the tree knows of it.
KnowsTree(a) ==
    LET o == op[a] IN
    /\ o.at \in {"descend", "tier", "order", "update", "propagate"} => Stands(o.cat)
    /\ o.at \in {"descend", "moveParent", "moveDescend"} => o.parent # o.cat
    /\ o.at \in AtParent => o.parent \notin Below(o.cat) \union {o.cat}
    /\ o.at \in {"insert", "order", "update", "moveDescend", "moveSiblings", "moveCommit"} /\ o.parent # NoCategory =>
          Stands(o.parent) /\ o.tier = category[o.parent].tier
    /\ o.at \in {"descend", "tier"} /\ ~o.moved =>
          o.parent = category[o.cat].parent /\ o.order = category[o.cat].order
    /\ o.at = "update" => \A s \in Children(o.parent) \ {o.cat} : category[s].order # o.order
    /\ o.at \in MoveSteps => o.from = category[o.cat].parent

TreeIInv(a) == NoCycle /\ ParentsStand /\ OrdersDiffer /\ TiersAgree(a) /\ KnowsTree(a)

\* The tree as the next step leaves it: the same rows in the same places.
SameTree ==
    \A c \in Category :
        /\ Stands(c)' <=> Stands(c)
        /\ Stands(c) => /\ category'[c].parent = category[c].parent
                        /\ category'[c].tier = category[c].tier
                        /\ category'[c].order = category[c].order

LEMMA ChildrenGiveBelow ==
    ASSUME \A p : Children(p)' = Children(p)
    PROVE  \A c : Below(c)' = Below(c)
  <1>1. ASSUME NEW c, NEW S
        PROVE  Holds(S, c)' <=> Holds(S, c)
    BY DEF Holds
  <1> QED
    BY <1>1 DEF Below

LEMMA SameTreeBelow ==
    ASSUME \A c \in Category : (Stands(c)' <=> Stands(c))
                               /\ (Stands(c) => category'[c].parent = category[c].parent)
    PROVE  \A c : Children(c)' = Children(c) /\ Below(c)' = Below(c)
  <1>1. \A p : Children(p)' = Children(p)
    BY DEF Children
  <1> QED
    BY <1>1, ChildrenGiveBelow

\* What is below something below c is below c.
LEMMA BelowBelow ==
    ASSUME NEW c, NEW d \in Below(c)
    PROVE  Below(d) \subseteq Below(c)
  <1>1. Holds(Below(c), d) /\ Below(c) \in SUBSET Category
    BY ChildrenBelow DEF Holds
  <1> QED
    BY <1>1, BelowLeast

\* A tree that loses rows, or keeps them all, and gets c a parent that is not
\* below it, has no cycle.
LEMMA Reparent ==
    ASSUME NEW c \in Category, NEW p, p \notin Below(c) \union {c}, c \notin Below(c), NoCycle,
           \A x \in Category : Stands(x)' /\ x # c => Stands(x) /\ category'[x].parent = category[x].parent,
           Stands(c)' => category'[c].parent = p
    PROVE  NoCycle'
  <1>1. \A x \in Category : Children(x)' \subseteq Children(x) \union {c}
    BY DEF Children
  <1>2. \A x \in Category : x # p => Children(x)' \subseteq Children(x)
    BY DEF Children
  <1>3. ASSUME NEW d \in Category, NEW S \in SUBSET Category, d \notin S,
               Children(d)' \subseteq S, \A x \in S : Children(x)' \subseteq S
        PROVE  d \notin Below(d)'
    <2>1. Holds(S, d)'
      BY <1>3 DEF Holds
    <2> QED
      BY <1>3, <2>1 DEF Below
  <1>4. \A x : Children(x) \subseteq Category /\ Below(x) \subseteq Category
    BY DEF Children, Below
  <1>5. ASSUME NEW d \in Category, Stands(d)'
        PROVE  d \notin Below(d)'
    <2>1. d \notin Below(d)
      BY <1>5 DEF NoCycle
    <2>2. CASE d \in Below(c) \union {c}
      <3>1. Below(d) \subseteq Below(c)
        BY <2>2, BelowBelow
      <3>2. p \notin Below(d) /\ p # d
        BY <2>2, <3>1
      <3>3. Children(d)' \subseteq Below(d) /\ \A x \in Below(d) : Children(x)' \subseteq Below(d)
        BY <1>2, <1>4, <3>2, ChildrenBelow
      <3> QED
        BY <1>3, <1>4, <2>1, <3>3
    <2>3. CASE d \notin Below(c) \union {c}
      <3> DEFINE S == Below(d) \union Below(c) \union {c}
      <3>1. S \in SUBSET Category /\ d \notin S
        BY <1>4, <2>1, <2>3
      <3>2. Children(d) \subseteq S /\ \A x \in S : Children(x) \subseteq S
        BY ChildrenBelow
      <3>3. Children(d)' \subseteq S /\ \A x \in S : Children(x)' \subseteq S
        BY <1>1, <3>1, <3>2
      <3> HIDE DEF S
      <3> QED
        BY <1>3, <3>1, <3>3
    <2> QED
      BY <2>2, <2>3
  <1> QED
    BY <1>5 DEF NoCycle

LEMMA ParentTypes ==
    ASSUME CatalogueTypeOK
    PROVE  /\ \A c \in Category : c # NoCategory /\ (Stands(c) <=> category[c] # NoCategory)
           /\ \A c \in Category : Stands(c) /\ category[c].parent # NoCategory => category[c].parent \in Category
           /\ \A a \in Admin : op[a].cat \in Category /\ op[a].parent \in Parent
  <1>1. \A r \in CategoryRow : r.parent \in Parent
    BY DEF CategoryRow
  <1>2. /\ \A c \in Category : c # NoCategory /\ (Stands(c) => category[c] \in CategoryRow)
        /\ \A a \in Admin : op[a] \in TreeOp
    BY CatalogueTypes
  <1>3. \A o \in TreeOp : o.cat \in Category /\ o.parent \in Parent
    BY DEF TreeOp
  <1> QED
    BY <1>1, <1>2, <1>3 DEF Stands, Parent

LEMMA SameTreeKeeps ==
    ASSUME CatalogueTypeOK, SameTree, NoCycle, ParentsStand, OrdersDiffer, untold' = untold
    PROVE  /\ NoCycle' /\ ParentsStand' /\ OrdersDiffer'
           /\ \A c \in Category : TierAgrees(c)' <=> TierAgrees(c)
  <1>1. \A c : Children(c)' = Children(c) /\ Below(c)' = Below(c)
    BY SameTreeBelow DEF SameTree
  <1>2. NoCycle'
    BY <1>1 DEF NoCycle, SameTree
  <1>3. ASSUME NEW c \in Category, Stands(c), category[c].parent # NoCategory
        PROVE  /\ category[c].parent \in Category /\ Stands(category[c].parent) /\ Stands(category[c].parent)'
               /\ category'[c].parent = category[c].parent /\ category'[c].tier = category[c].tier
               /\ category'[category[c].parent].tier = category[category[c].parent].tier
    <2> DEFINE p == category[c].parent
    <2>1. Stands(p) /\ p \in Category
      BY <1>3, ParentTypes DEF ParentsStand
    <2>2. category'[c].parent = p /\ category'[c].tier = category[c].tier
      BY <1>3 DEF SameTree
    <2> HIDE DEF p
    <2>3. category'[p].tier = category[p].tier /\ category'[p] # NoCategory
      BY <2>1 DEF SameTree, Stands
    <2> QED
      BY <2>1, <2>2, <2>3 DEF p, Stands
  <1>4. ParentsStand'
    <2>1. ASSUME NEW c \in Category, Stands(c)', category'[c].parent # NoCategory
          PROVE  Stands(category[c].parent)' /\ category'[c].parent = category[c].parent
      BY <1>3, <2>1 DEF SameTree
    <2> QED
      BY <2>1 DEF ParentsStand, Stands
  <1>5. OrdersDiffer'
    BY DEF OrdersDiffer, SameTree
  <1>6. ASSUME NEW c \in Category
        PROVE  TierAgrees(c)' <=> TierAgrees(c)
    <2>1. CASE Stands(c) /\ category[c].parent # NoCategory
      BY <1>3, <2>1 DEF TierAgrees, SameTree
    <2>2. CASE ~(Stands(c) /\ category[c].parent # NoCategory)
      BY <2>2 DEF TierAgrees, SameTree
    <2> QED
      BY <2>1, <2>2
  <1> QED
    BY <1>2, <1>4, <1>5, <1>6

\* A step that changes neither the tree nor what its request does.
LEMMA SameOpKnows ==
    ASSUME CatalogueIInv, NEW a \in Admin, TreeIInv(a), SameTree, op'[a] = op[a], untold' = untold
    PROVE  TreeIInv(a)'
  <1>1. /\ NoCycle' /\ ParentsStand' /\ OrdersDiffer'
        /\ \A c \in Category : TierAgrees(c)' <=> TierAgrees(c)
    BY SameTreeKeeps DEF TreeIInv, CatalogueIInv
  <1>2. \A c : Children(c)' = Children(c) /\ Below(c)' = Below(c)
    BY SameTreeBelow DEF SameTree
  <1> DEFINE c == op[a].cat
  <1> DEFINE p == op[a].parent
  <1>3. c \in Category /\ (p # NoCategory => p \in Category)
    BY ParentTypes DEF CatalogueIInv, Parent
  <1>4. KnowsTree(a) /\ OpOk(a) /\ TiersAgree(a)
    BY DEF TreeIInv, CatalogueIInv
  <1>5. op'[a].cat = c /\ op'[a].parent = p
    OBVIOUS
  <1> HIDE DEF c, p
  <1>6. /\ Stands(c) => /\ category'[c].tier = category[c].tier /\ category'[c].parent = category[c].parent
                        /\ category'[c].order = category[c].order /\ category'[c] # NoCategory
        /\ p # NoCategory /\ Stands(p) => category'[p].tier = category[p].tier /\ category'[p] # NoCategory
    BY <1>3 DEF SameTree, Stands
  <1>7. \A s \in Children(p) : category'[s].order = category[s].order
    BY DEF Children, SameTree
  <1>8. TiersAgree(a)'
    <2>1. CASE op[a].at = "propagate"
      <3>1. Stands(c)
        BY <1>4, <2>1 DEF KnowsTree, c
      <3>2. \A x \in Category : category[x].parent # c => TierAgrees(x)
        BY <1>4, <2>1 DEF TiersAgree, c
      <3>3. ASSUME NEW x \in Category, category'[x].parent # c
            PROVE  TierAgrees(x)'
        <4>1. CASE Stands(x)
          BY <1>1, <3>2, <3>3, <4>1 DEF SameTree
        <4>2. CASE ~Stands(x)
          BY <4>2 DEF TierAgrees, SameTree
        <4> QED
          BY <4>1, <4>2
      <3>4. category'[c].tier = op[a].tier
        BY <1>4, <1>6, <2>1, <3>1 DEF TiersAgree, c
      <3> QED
        BY <1>5, <2>1, <3>3, <3>4 DEF TiersAgree
    <2>2. CASE op[a].at # "propagate"
      BY <1>1, <1>4, <2>2 DEF TiersAgree
    <2> QED
      BY <2>1, <2>2
  <1>9. KnowsTree(a)'
    <2>1. op[a].at \in {"descend", "tier", "order", "update", "propagate"} \union MoveSteps => Stands(c)
      BY <1>4 DEF KnowsTree, OpOk, c
    <2>2. Stands(c) => Stands(op[a].cat)'
      BY <1>5, <1>6 DEF Stands, c
    <2>3. Stands(p) => Stands(op[a].parent)'
      BY <1>5, <1>6 DEF Stands
    <2>4. Below(op[a].cat)' = Below(c)
      BY <1>2, <1>5
    <2>5. Children(op[a].parent)' = Children(p)
      BY <1>2, <1>5
    <2>6. /\ op[a].at \in {"descend", "tier", "order", "update", "propagate"} => Stands(op[a].cat)'
          /\ op[a].at \in {"descend", "moveParent", "moveDescend"} => p # c
          /\ op[a].at \in AtParent => p \notin Below(c) \union {c}
      BY <1>4, <2>1, <2>2 DEF KnowsTree, c, p
    <2>7. op[a].at \in {"insert", "order", "update", "moveDescend", "moveSiblings", "moveCommit"} /\ p # NoCategory =>
             Stands(op[a].parent)' /\ op[a].tier = category'[p].tier
      BY <1>4, <1>6, <2>3 DEF KnowsTree, p
    <2>8. op[a].at \in {"descend", "tier"} /\ ~op[a].moved =>
             p = category'[c].parent /\ op[a].order = category'[c].order
      BY <1>4, <1>6, <2>1 DEF KnowsTree, c, p
    <2>9. op[a].at = "update" => \A s \in Children(p) \ {c} : category'[s].order # op[a].order
      BY <1>4, <1>7 DEF KnowsTree, c, p
    <2>10. op[a].at \in MoveSteps => op[a].from = category'[c].parent
      BY <1>4, <1>6, <2>1 DEF KnowsTree, c
    <2> QED
      BY <1>5, <2>4, <2>5, <2>6, <2>7, <2>8, <2>9, <2>10 DEF KnowsTree
  <1> QED
    BY <1>1, <1>8, <1>9 DEF TreeIInv

\* A step of the tree's request that changes no row.
LEMMA LooksAtTree ==
    ASSUME CatalogueTypeOK, NEW a \in Admin, TreeIInv(a), category' = category, untold' = untold,
           op[a].at # "propagate", op'[a].at # "propagate", KnowsTree(a)'
    PROVE  TreeIInv(a)'
  <1>1. SameTree
    BY DEF SameTree, Stands
  <1>2. /\ NoCycle' /\ ParentsStand' /\ OrdersDiffer'
        /\ \A c \in Category : TierAgrees(c)' <=> TierAgrees(c)
    BY <1>1, SameTreeKeeps DEF TreeIInv
  <1>3. TiersAgree(a)'
    BY <1>2 DEF TreeIInv, TiersAgree
  <1> QED
    BY <1>2, <1>3 DEF TreeIInv

QuietSteps == {"idle", "children", "cover", "delete", "files", "draw", "adopt", "setCover", "setNull", "unlink"}

LEMMA QuietKnows ==
    ASSUME NEW a \in Admin, op'[a].at \in QuietSteps
    PROVE  KnowsTree(a)' /\ op'[a].at # "propagate"
  BY DEF KnowsTree, QuietSteps, AtParent, MoveSteps

LEMMA SameRows ==
    ASSUME category' = category
    PROVE  \A c : (Stands(c)' <=> Stands(c)) /\ Children(c)' = Children(c) /\ Below(c)' = Below(c)
  <1>1. \A c : Stands(c)' <=> Stands(c)
    BY DEF Stands
  <1> QED
    BY <1>1, SameTreeBelow

LEMMA BeginKnows ==
    ASSUME CatalogueIInv, NEW a \in Admin, TreeIInv(a), NEW c \in Category, NEW p \in Parent, NEW t \in Tier,
           \/ AddBegin(a, p, t) \/ EditBegin(a, c, TRUE, p, t) \/ EditBegin(a, c, FALSE, NoCategory, t)
    PROVE  TreeIInv(a)'
  <1>1. op \in [Admin -> TreeOp] /\ CatalogueTypeOK /\ Idle \in TreeOp
    BY IdleType DEF CatalogueIInv, CatalogueTypeOK
  <1>2. op[a].at = "idle" /\ category' = category /\ untold' = untold
    BY DEF AddBegin, EditBegin, Does, OnlyOp
  <1>3. \A d : (Stands(d)' <=> Stands(d)) /\ Children(d)' = Children(d) /\ Below(d)' = Below(d)
    BY <1>2, SameRows
  <1>4. CASE AddBegin(a, p, t)
    <2> DEFINE tier == IF p = NoCategory THEN t ELSE category[p].tier
    <2> DEFINE o == [Idle EXCEPT !.at = "insert", !.parent = p, !.tier = tier]
    <2>1. op'[a] = o /\ (p = NoCategory \/ Stands(p))
      BY <1>1, <1>4 DEF AddBegin
    <2>2. o.at = "insert" /\ o.parent = p /\ o.tier = tier
      BY <1>1 DEF TreeOp
    <2> HIDE DEF o
    <2>3. KnowsTree(a)'
      BY <1>2, <1>3, <2>1, <2>2 DEF KnowsTree, AtParent, MoveSteps
    <2> QED
      BY <1>1, <1>2, <2>1, <2>2, <2>3, LooksAtTree
  <1>5. ASSUME NEW given \in BOOLEAN, NEW q \in Parent, EditBegin(a, c, given, q, t), ~given => q = NoCategory
        PROVE  TreeIInv(a)'
    <2> DEFINE parent == IF given THEN q ELSE category[c].parent
    <2> DEFINE moved == given /\ q # category[c].parent
    <2> DEFINE step == IF given /\ q # NoCategory THEN "descend"
                       ELSE IF parent # NoCategory THEN "tier"
                       ELSE IF given /\ q # category[c].parent THEN "order" ELSE "update"
    <2> DEFINE o == [Idle EXCEPT !.cat = c, !.parent = parent, !.tier = t, !.order = category[c].order,
                                 !.moved = moved, !.at = step]
    <2>1. op'[a] = o /\ Stands(c) /\ q # c
      BY <1>1, <1>5 DEF EditBegin
    <2>2. o.at = step /\ o.cat = c /\ o.parent = parent /\ o.order = category[c].order /\ o.moved = moved
      BY <1>1 DEF TreeOp
    <2>3. c \in Category /\ c # NoCategory /\ NoCategory \notin Category /\ c \notin Below(c)
      BY <2>1, <1>1, ParentTypes, CategoryAssumption DEF TreeIInv, NoCycle
    <2>4. Below(c) \subseteq Category
      BY ChildrenBelow
    <2>5. category[c].parent \notin Below(c) \union {c}
      <3>1. CASE category[c].parent = NoCategory
        BY <2>3, <2>4, <3>1
      <3>2. CASE category[c].parent # NoCategory
        <4> DEFINE r == category[c].parent
        <4>1. r \in Category /\ c \in Children(r)
          BY <1>1, <2>1, <3>2, ParentTypes DEF Children
        <4>2. r \notin Below(r) /\ c \in Below(r)
          BY <1>1, <2>1, <3>2, <4>1, ChildrenBelow DEF TreeIInv, NoCycle, ParentsStand
        <4>3. r \in Below(c) => c \in Below(c)
          BY <4>1, ChildrenBelow
        <4> HIDE DEF r
        <4>4. r # c
          BY <2>3, <4>2
        <4> QED
          BY <2>3, <4>3, <4>4 DEF r
      <3> QED
        BY <3>1, <3>2
    <2>6. step \in {"descend", "tier", "order", "update"}
      OBVIOUS
    <2>7. step = "descend" => parent # c
      BY <2>1
    <2>8. step \in {"tier", "order", "update"} => parent \notin Below(c) \union {c}
      BY <2>3, <2>4, <2>5
    <2>9. step \in {"order", "update"} => parent = NoCategory
      OBVIOUS
    <2>10. ~moved => parent = category[c].parent
      OBVIOUS
    <2>11. step = "update" => ~moved
      OBVIOUS
    <2>12. step = "update" => \A s \in Children(parent) \ {c} : category[s].order # category[c].order
      <3>1. \A s \in Children(category[c].parent) \ {c} : category[s].order # category[c].order
        BY <2>1 DEF TreeIInv, OrdersDiffer, Children
      <3> QED
        BY <2>10, <2>11, <3>1
    <2> HIDE DEF o, step, parent, moved
    <2>13. KnowsTree(a)'
      BY <1>2, <1>3, <2>1, <2>2, <2>6, <2>7, <2>8, <2>9, <2>10, <2>12 DEF KnowsTree, AtParent, MoveSteps
    <2>14. op'[a].at # "propagate"
      BY <2>1, <2>2, <2>6
    <2> QED
      BY <1>1, <1>2, <2>13, <2>14, LooksAtTree
  <1>6. NoCategory \in Parent
    BY DEF Parent
  <1> QED
    BY <1>4, <1>5, <1>6

LEMMA EditLooksKnow ==
    ASSUME CatalogueIInv, NEW a \in Admin, TreeIInv(a), EditDescends(a) \/ EditTier(a) \/ EditOrder(a)
    PROVE  TreeIInv(a)'
  <1> DEFINE c == op[a].cat
  <1> DEFINE p == op[a].parent
  <1>1. op \in [Admin -> TreeOp] /\ op[a] \in TreeOp /\ CatalogueTypeOK /\ Idle \in TreeOp /\ Idle.at = "idle"
    BY IdleType, CatalogueTypes DEF CatalogueIInv, CatalogueTypeOK
  <1>2. op[a].at \in {"descend", "tier", "order"} /\ category' = category /\ untold' = untold
    BY DEF EditDescends, EditTier, EditOrder, Does, OnlyOp
  <1>3. \A d : (Stands(d)' <=> Stands(d)) /\ Children(d)' = Children(d) /\ Below(d)' = Below(d)
    BY <1>2, SameRows
  <1>4. KnowsTree(a) /\ Stands(c) /\ c \in Category /\ OrdersDiffer
    BY <1>1, <1>2, ParentTypes DEF TreeIInv, KnowsTree
  <1>5. ASSUME EndsOp(a)
        PROVE  TreeIInv(a)'
    <2>1. op'[a].at \in QuietSteps
      BY <1>1, <1>5 DEF EndsOp, QuietSteps
    <2> QED
      BY <1>1, <1>2, <2>1, QuietKnows, LooksAtTree
  <1>6. CASE EditDescends(a) /\ ~EndsOp(a)
    <2>1. p \notin Below(c) /\ op' = [op EXCEPT ![a].at = "tier"] /\ op[a].at = "descend"
      BY <1>6 DEF EditDescends, Then, Does
    <2>2. /\ op'[a].at = "tier" /\ op'[a].cat = c /\ op'[a].parent = p
          /\ op'[a].order = op[a].order /\ op'[a].moved = op[a].moved
      BY <1>1, <2>1 DEF TreeOp
    <2>3. p # c /\ (~op[a].moved => p = category[c].parent /\ op[a].order = category[c].order)
      BY <1>4, <2>1 DEF KnowsTree
    <2>4. KnowsTree(a)'
      BY <1>2, <1>3, <1>4, <2>1, <2>2, <2>3 DEF KnowsTree, AtParent, MoveSteps
    <2> QED
      BY <1>1, <1>2, <2>2, <2>4, LooksAtTree
  <1>7. CASE EditTier(a) /\ ~EndsOp(a)
    <2> DEFINE step == IF op[a].moved THEN "order" ELSE "update"
    <2>1. Stands(p) /\ op' = [op EXCEPT ![a].tier = category[p].tier, ![a].at = step] /\ op[a].at = "tier"
      BY <1>7 DEF EditTier, Does
    <2>2. /\ op'[a].at = step /\ op'[a].cat = c /\ op'[a].parent = p /\ op'[a].tier = category[p].tier
          /\ op'[a].order = op[a].order
      BY <1>1, <2>1 DEF TreeOp
    <2>3. p \notin Below(c) \union {c} /\ (~op[a].moved => p = category[c].parent /\ op[a].order = category[c].order)
      BY <1>4, <2>1 DEF KnowsTree, AtParent
    <2>4. step = "update" => \A s \in Children(p) \ {c} : category[s].order # op[a].order
      BY <1>4, <2>3 DEF OrdersDiffer, Children
    <2>5. step \in {"order", "update"}
      OBVIOUS
    <2> HIDE DEF step
    <2>6. KnowsTree(a)'
      BY <1>2, <1>3, <1>4, <2>1, <2>2, <2>3, <2>4, <2>5 DEF KnowsTree, AtParent, MoveSteps
    <2> QED
      BY <1>1, <1>2, <2>2, <2>5, <2>6, LooksAtTree
  <1>8. CASE EditOrder(a)
    <2>1. PICK n \in 0..MaxOrder :
              NextOrder(Children(p) \ {c}, n) /\ op' = [op EXCEPT ![a].order = n, ![a].at = "update"]
      BY <1>8 DEF EditOrder
    <2>2. /\ op'[a].at = "update" /\ op'[a].cat = c /\ op'[a].parent = p /\ op'[a].tier = op[a].tier
          /\ op'[a].order = n
      BY <1>1, <2>1 DEF TreeOp
    <2>3. /\ p \notin Below(c) \union {c}
          /\ p # NoCategory => Stands(p) /\ op[a].tier = category[p].tier
      BY <1>4, <1>8 DEF KnowsTree, AtParent, EditOrder, Does
    <2>4. \A s \in Children(p) \ {c} : category[s].order # n
      <3>1. \A s \in Children(p) \ {c} : category[s].order < n /\ category[s].order \in Nat
        BY <1>1, <2>1, OrdersAreNat DEF NextOrder, Children
      <3> QED
        BY <3>1
    <2>5. KnowsTree(a)'
      BY <1>2, <1>3, <1>4, <2>2, <2>3, <2>4 DEF KnowsTree, AtParent, MoveSteps
    <2> QED
      BY <1>1, <1>2, <2>2, <2>5, LooksAtTree
  <1> QED
    BY <1>5, <1>6, <1>7, <1>8

LEMMA MoveLooksKnow ==
    ASSUME CatalogueIInv, NEW a \in Admin, TreeIInv(a), NEW x \in Category, NEW q \in Parent, NEW slot \in 0..MaxOrder,
           \/ MoveBegin(a, x, q, slot) \/ MoveParent(a) \/ MoveDescends(a) \/ MoveSiblings(a) \/ MoveAborts(a)
    PROVE  TreeIInv(a)'
  <1> DEFINE c == op[a].cat
  <1> DEFINE p == op[a].parent
  <1>1. op \in [Admin -> TreeOp] /\ op[a] \in TreeOp /\ CatalogueTypeOK /\ Idle \in TreeOp /\ Idle.at = "idle"
    BY IdleType, CatalogueTypes DEF CatalogueIInv, CatalogueTypeOK
  <1>2. op[a].at \in MoveSteps \union {"idle"} /\ category' = category /\ op[a].at # "propagate" /\ untold' = untold
    BY DEF MoveBegin, MoveParent, MoveDescends, MoveSiblings, MoveAborts, Does, MoveSteps
  <1>3. \A d : (Stands(d)' <=> Stands(d)) /\ Children(d)' = Children(d) /\ Below(d)' = Below(d)
    BY <1>2, SameRows
  <1>4. KnowsTree(a) /\ OpOk(a)
    BY DEF TreeIInv, CatalogueIInv
  <1>5. ASSUME Rollback(a)
        PROVE  TreeIInv(a)'
    <2>1. op'[a].at \in QuietSteps
      BY <1>1, <1>5 DEF Rollback, EndsOp, QuietSteps
    <2> QED
      BY <1>1, <1>2, <2>1, QuietKnows, LooksAtTree
  <1>6. CASE MoveBegin(a, x, q, slot)
    <2> DEFINE step == IF q = NoCategory THEN "moveSiblings" ELSE "moveParent"
    <2> DEFINE o == [Idle EXCEPT !.cat = x, !.parent = q, !.from = category[x].parent, !.order = slot,
                                 !.tier = category[x].tier, !.at = step]
    <2>1. op'[a] = o /\ Stands(x) /\ q # x
      BY <1>1, <1>6 DEF MoveBegin
    <2>2. o.at = step /\ o.cat = x /\ o.parent = q /\ o.from = category[x].parent
      BY <1>1 DEF TreeOp
    <2>3. NoCategory \notin Below(x) \union {x}
      BY ChildrenBelow, CategoryAssumption
    <2>4. step = "moveSiblings" => q = NoCategory
      OBVIOUS
    <2>5. step \in {"moveSiblings", "moveParent"}
      OBVIOUS
    <2> HIDE DEF o, step
    <2>6. KnowsTree(a)'
      BY <1>2, <1>3, <2>1, <2>2, <2>3, <2>4, <2>5 DEF KnowsTree, AtParent, MoveSteps
    <2> QED
      BY <1>1, <1>2, <2>1, <2>2, <2>5, <2>6, LooksAtTree
  <1>7. CASE MoveParent(a) /\ ~Rollback(a)
    <2>1. Stands(p) /\ op' = [op EXCEPT ![a].tier = category[p].tier, ![a].at = "moveDescend"] /\ op[a].at = "moveParent"
      BY <1>7 DEF MoveParent, Does
    <2>2. /\ op'[a].at = "moveDescend" /\ op'[a].cat = c /\ op'[a].parent = p /\ op'[a].tier = category[p].tier
          /\ op'[a].from = op[a].from
      BY <1>1, <2>1 DEF TreeOp
    <2>3. p # c /\ op[a].from = category[c].parent
      BY <1>4, <2>1 DEF KnowsTree, MoveSteps
    <2>4. KnowsTree(a)'
      BY <1>2, <1>3, <2>1, <2>2, <2>3 DEF KnowsTree, AtParent, MoveSteps
    <2> QED
      BY <1>1, <1>2, <2>2, <2>4, LooksAtTree
  <1>8. CASE MoveDescends(a) /\ ~Rollback(a)
    <2>1. p \notin Below(c) /\ op' = [op EXCEPT ![a].at = "moveSiblings"] /\ op[a].at = "moveDescend"
      BY <1>8 DEF MoveDescends, Then, Does
    <2>2. /\ op'[a].at = "moveSiblings" /\ op'[a].cat = c /\ op'[a].parent = p /\ op'[a].tier = op[a].tier
          /\ op'[a].from = op[a].from
      BY <1>1, <2>1 DEF TreeOp
    <2>3. /\ p # c /\ op[a].from = category[c].parent
          /\ p # NoCategory => Stands(p) /\ op[a].tier = category[p].tier
      BY <1>4, <2>1 DEF KnowsTree, MoveSteps
    <2>4. KnowsTree(a)'
      BY <1>2, <1>3, <2>1, <2>2, <2>3 DEF KnowsTree, AtParent, MoveSteps
    <2> QED
      BY <1>1, <1>2, <2>2, <2>4, LooksAtTree
  <1>9. CASE MoveSiblings(a)
    <2>1. op' = [op EXCEPT ![a].at = "moveCommit"] /\ op[a].at = "moveSiblings"
      BY <1>9 DEF MoveSiblings, Then, Does
    <2>2. /\ op'[a].at = "moveCommit" /\ op'[a].cat = c /\ op'[a].parent = p /\ op'[a].tier = op[a].tier
          /\ op'[a].from = op[a].from
      BY <1>1, <2>1 DEF TreeOp
    <2>3. /\ p \notin Below(c) \union {c} /\ op[a].from = category[c].parent
          /\ p # NoCategory => Stands(p) /\ op[a].tier = category[p].tier
      BY <1>4, <2>1 DEF KnowsTree, AtParent, MoveSteps
    <2>4. KnowsTree(a)'
      BY <1>2, <1>3, <2>2, <2>3 DEF KnowsTree, AtParent, MoveSteps
    <2> QED
      BY <1>1, <1>2, <2>2, <2>4, LooksAtTree
  <1>10. CASE MoveAborts(a)
    BY <1>5, <1>10 DEF MoveAborts
  <1> QED
    BY <1>5, <1>6, <1>7, <1>8, <1>9, <1>10

LEMMA RemoveLooksKnow ==
    ASSUME CatalogueIInv, NEW a \in Admin, TreeIInv(a), NEW x \in Category,
           \/ RemoveBegin(a, x) \/ RemoveChildren(a) \/ RemoveCover(a) \/ RemoveCoverFiles(a)
    PROVE  TreeIInv(a)'
  <1>1. op \in [Admin -> TreeOp] /\ op[a] \in TreeOp /\ CatalogueTypeOK /\ Idle \in TreeOp /\ Idle.at = "idle"
    BY IdleType, CatalogueTypes DEF CatalogueIInv, CatalogueTypeOK
  <1>2. category' = category /\ op[a].at # "propagate" /\ untold' = untold
    BY DEF RemoveBegin, RemoveChildren, RemoveCover, RemoveCoverFiles, OnlyOp, Does, Starts
  <1>3. op'[a].at \in {"idle", "children", "cover", "delete"}
    <2>1. \A o \in TreeOp, s \in {"cover", "delete"} : [o EXCEPT !.at = s].at = s
      BY DEF TreeOp
    <2>2. [Idle EXCEPT !.at = "children", !.cat = x].at = "children"
      BY <1>1 DEF TreeOp
    <2>3. \/ op' = [op EXCEPT ![a] = Idle]
          \/ op' = [op EXCEPT ![a] = [Idle EXCEPT !.at = "children", !.cat = x]]
          \/ op' = [op EXCEPT ![a].at = "cover"] \/ op' = [op EXCEPT ![a].at = "delete"]
      BY DEF RemoveBegin, RemoveChildren, RemoveCover, RemoveCoverFiles, Starts, EndsOp, Then
    <2>4. \/ op'[a] = Idle \/ op'[a] = [Idle EXCEPT !.at = "children", !.cat = x]
          \/ op'[a] = [op[a] EXCEPT !.at = "cover"] \/ op'[a] = [op[a] EXCEPT !.at = "delete"]
      BY <1>1, <2>3
    <2> QED
      BY <1>1, <2>1, <2>2, <2>4
  <1> QED
    BY <1>1, <1>2, <1>3, QuietKnows, LooksAtTree DEF QuietSteps

\* The end of the tree's request, with a tree that is sound.
LEMMA SoundTreeHolds ==
    ASSUME NEW a \in Admin, op'[a].at \in QuietSteps, NoCycle', ParentsStand', OrdersDiffer',
           \A c \in Category : TierAgrees(c)'
    PROVE  TreeIInv(a)'
  <1>1. TiersAgree(a)'
    BY QuietKnows DEF TiersAgree
  <1> QED
    BY <1>1, QuietKnows DEF TreeIInv

LEMMA EndIsQuiet ==
    ASSUME CatalogueTypeOK, NEW a \in Admin, EndsOp(a)
    PROVE  op'[a].at \in QuietSteps
  <1>1. op \in [Admin -> TreeOp] /\ Idle.at = "idle"
    BY IdleType DEF CatalogueTypeOK
  <1> QED
    BY <1>1 DEF EndsOp, QuietSteps

LEMMA AddInsertKnows ==
    ASSUME CatalogueIInv, NEW a \in Admin, TreeIInv(a), AddInsert(a)
    PROVE  TreeIInv(a)'
  <1> DEFINE p == op[a].parent
  <1> DEFINE id == made + 1
  <1>1. /\ category \in [Category -> CategoryRow \union {NoCategory}] /\ CatalogueTypeOK /\ made \in Nat
        /\ \A c \in Category : c \in Nat /\ (Stands(c) => c <= made)
    BY CatalogueTypes DEF CatalogueIInv
  <1>2. op'[a].at \in QuietSteps /\ op[a].at = "insert" /\ untold' = untold
    BY <1>1, EndIsQuiet DEF AddInsert, Does
  <1>3. NoCycle /\ ParentsStand /\ OrdersDiffer /\ \A c \in Category : TierAgrees(c)
    BY <1>2 DEF TreeIInv, TiersAgree
  <1>4. p # NoCategory => Stands(p) /\ op[a].tier = category[p].tier /\ p \in Category
    BY <1>1, <1>2, ParentTypes DEF TreeIInv, KnowsTree, Parent
  <1>5. CASE ~(p = NoCategory \/ Stands(p))
    BY <1>4, <1>5
  <1>6. CASE p = NoCategory \/ Stands(p)
    <2>1. PICK next \in 0..MaxOrder :
            /\ id \in Category /\ NextOrder(Children(p), next)
            /\ category' = [category EXCEPT ![id] =
                   [parent |-> p, tier |-> op[a].tier, order |-> next, cover |-> 0]]
      BY <1>6 DEF AddInsert
    <2>2. /\ \A x \in Category \ {id} : category'[x] = category[x]
          /\ category'[id].parent = p /\ category'[id].tier = op[a].tier /\ category'[id].order = next
      BY <1>1, <2>1
    <2>3. ~Stands(id) /\ id # p /\ id # NoCategory
      <3>1. ~Stands(id)
        BY <1>1, <2>1
      <3>2. id # NoCategory
        BY <2>1, CategoryAssumption
      <3> QED
        BY <1>4, <3>1, <3>2
    <2>4. \A s \in Children(p) : category[s].order # next
      <3>1. \A s \in Children(p) : category[s].order < next /\ category[s].order \in Nat
        BY <1>1, <2>1, OrdersAreNat DEF NextOrder, Children
      <3> QED
        BY <3>1
    <2> HIDE DEF id
    <2>5. \A x \in Category : x # id => (Stands(x)' <=> Stands(x))
      BY <2>2 DEF Stands
    <2>6. Below(id) = {}
      <3>1. Children(id) = {}
        BY <1>3, <2>1, <2>3 DEF Children, ParentsStand
      <3>2. Holds({}, id) /\ {} \in SUBSET Category
        BY <3>1 DEF Holds
      <3> QED
        BY <3>2, BelowLeast
    <2>7. NoCycle'
      BY <1>3, <2>1, <2>2, <2>3, <2>5, <2>6, Reparent
    <2>8. ASSUME NEW x \in Category, Stands(x), category[x].parent # NoCategory
          PROVE  /\ category[x].parent \in Category \ {id} /\ Stands(category[x].parent)
                 /\ category'[category[x].parent] = category[category[x].parent]
      BY <1>1, <1>3, <2>2, <2>3, <2>8, ParentTypes DEF ParentsStand
    <2>9. ASSUME NEW x \in Category, Stands(x)', category'[x].parent # NoCategory
          PROVE  /\ category'[x].parent \in Category /\ Stands(category'[x].parent)
                 /\ category'[category'[x].parent] = category[category'[x].parent]
                 /\ \/ category'[x].tier = category[category'[x].parent].tier
                    \/ category'[x].parent \in untold'
      <3>1. CASE x = id
        BY <1>4, <2>2, <2>3, <2>9, <3>1
      <3>2. CASE x # id
        BY <1>2, <1>3, <2>2, <2>5, <2>8, <2>9, <3>2 DEF TierAgrees
      <3> QED
        BY <3>1, <3>2
    <2>10. ParentsStand' /\ \A x \in Category : TierAgrees(x)'
      BY <2>9 DEF ParentsStand, TierAgrees, Stands
    <2>11. OrdersDiffer'
      <3>1. ASSUME NEW x \in Category, NEW y \in Category, Stands(x)', Stands(y)', x # y, y # id,
                   category'[x].parent = category'[y].parent
            PROVE  category'[x].order # category'[y].order
        <4>1. Stands(y) /\ category'[y] = category[y]
          BY <2>2, <2>5, <3>1
        <4>2. CASE x = id
          BY <2>2, <2>4, <3>1, <4>1, <4>2 DEF Children
        <4>3. CASE x # id
          BY <1>3, <2>2, <2>5, <3>1, <4>1, <4>3 DEF OrdersDiffer
        <4> QED
          BY <4>2, <4>3
      <3>2. ASSUME NEW x \in Category, NEW y \in Category, Stands(x)', Stands(y)', x # y,
                   category'[x].parent = category'[y].parent
            PROVE  category'[x].order # category'[y].order
        BY <3>1, <3>2
      <3> QED
        BY <3>2 DEF OrdersDiffer
    <2> QED
      BY <1>2, <2>7, <2>10, <2>11, SoundTreeHolds
  <1> QED
    BY <1>5, <1>6

LEMMA EditPropagateKnows ==
    ASSUME CatalogueIInv, NEW a \in Admin, TreeIInv(a), EditPropagate(a)
    PROVE  TreeIInv(a)'
  <1> DEFINE c == op[a].cat
  <1>1. /\ category \in [Category -> CategoryRow \union {NoCategory}] /\ CatalogueTypeOK /\ op[a] \in TreeOp
    BY CatalogueTypes DEF CatalogueIInv
  <1>2. op'[a].at \in QuietSteps /\ op[a].at = "propagate"
    BY <1>1, EndIsQuiet DEF EditPropagate, Does
  <1>3. /\ NoCycle /\ ParentsStand /\ OrdersDiffer /\ Stands(c) /\ c \in Category
        /\ category[c].tier = op[a].tier /\ \A x \in Category : category[x].parent # c => TierAgrees(x)
    BY <1>1, <1>2, ParentTypes DEF TreeIInv, TiersAgree, KnowsTree
  <1>4. /\ op[a].tier \in Tier /\ category' = WithTier(category, Below(c), op[a].tier)
        /\ \A d \in Below(c) \intersect Category : category[d] # NoCategory
    BY <1>1, BelowStands DEF TreeOp, EditPropagate
  <1>5. \A x \in Category :
           /\ x \notin Below(c) => category'[x] = category[x]
           /\ x \in Below(c) => /\ category'[x] # NoCategory /\ category'[x].tier = op[a].tier
                                /\ category'[x].parent = category[x].parent /\ category'[x].order = category[x].order
    BY <1>1, <1>4, WithTierType
  <1>11. untold' = untold \ ({c} \union Below(c))
    BY DEF EditPropagate, Told
  <1> HIDE DEF c
  <1>6. \A x \in Category :
           /\ Stands(x)' <=> Stands(x)
           /\ Stands(x) => category'[x].parent = category[x].parent /\ category'[x].order = category[x].order
    BY <1>5, BelowStands DEF Stands
  <1>7. NoCycle'
    <2>1. \A x : Below(x)' = Below(x)
      BY <1>6, SameTreeBelow
    <2> QED
      BY <1>3, <1>6, <2>1 DEF NoCycle
  <1>8. OrdersDiffer'
    BY <1>3, <1>6 DEF OrdersDiffer
  <1>9. ASSUME NEW x \in Category, Stands(x)', category'[x].parent # NoCategory
        PROVE  /\ category'[x].parent \in Category /\ Stands(category'[x].parent)
               /\ category'[category'[x].parent] # NoCategory
               /\ \/ category'[x].tier = category'[category'[x].parent].tier
                  \/ category'[x].parent \in untold'
    <2> DEFINE r == category[x].parent
    <2>1. Stands(x) /\ category'[x].parent = r /\ r # NoCategory
      BY <1>6, <1>9
    <2>2. r \in Category /\ Stands(r) /\ x \in Children(r)
      BY <1>1, <1>3, <2>1, ParentTypes DEF ParentsStand, Children
    <2>3. category'[r] # NoCategory
      BY <1>6, <2>2 DEF Stands
    <2>4. x \in Below(c) => r = c \/ r \in Below(c)
      BY ParentBelow
    <2>5. r \in Below(c) => x \in Below(c)
      BY <2>2, ChildrenBelow
    <2>6. c \notin Below(c)
      BY <1>3 DEF NoCycle
    <2>7. x \notin Below(c) => r # c /\ (category[x].tier = category[r].tier \/ r \in untold)
      <3>1. x \notin Below(c) => r # c
        BY <2>2, ChildrenBelow
      <3> QED
        BY <1>3, <2>1, <3>1 DEF TierAgrees
    <2> HIDE DEF r
    <2>8. category'[x].tier = category'[r].tier \/ r \in untold'
      <3>1. CASE x \in Below(c)
        BY <1>3, <1>5, <2>2, <2>4, <2>6, <3>1
      <3>2. CASE x \notin Below(c)
        BY <1>5, <1>11, <2>2, <2>5, <2>7, <3>2
      <3> QED
        BY <3>1, <3>2
    <2> QED
      BY <2>1, <2>2, <2>3, <2>8
  <1>10. ParentsStand' /\ \A x \in Category : TierAgrees(x)'
    BY <1>9 DEF ParentsStand, TierAgrees, Stands
  <1> QED
    BY <1>2, <1>7, <1>8, <1>10, SoundTreeHolds

\* An edit that ends between its statements leaves the rows as they are: those
\* directly below the category may differ, and it is untold from now on.
LEMMA EditCutKnows ==
    ASSUME CatalogueIInv, NEW a \in Admin, TreeIInv(a), EditCut(a)
    PROVE  TreeIInv(a)'
  <1>1. CatalogueTypeOK /\ op[a].at = "propagate" /\ category' = category
        /\ untold' = untold \union {op[a].cat}
    BY DEF CatalogueIInv, EditCut, Does
  <1>2. op'[a].at \in QuietSteps
    BY <1>1, EndIsQuiet DEF EditCut
  <1>3. /\ NoCycle /\ ParentsStand /\ OrdersDiffer
        /\ \A x \in Category : category[x].parent # op[a].cat => TierAgrees(x)
    BY <1>1 DEF TreeIInv, TiersAgree
  <1>4. \A c : (Stands(c)' <=> Stands(c)) /\ Below(c)' = Below(c)
    BY <1>1, SameRows
  <1>5. NoCycle' /\ ParentsStand' /\ OrdersDiffer'
    BY <1>1, <1>3, <1>4 DEF NoCycle, ParentsStand, OrdersDiffer, Stands
  <1>6. \A x \in Category : TierAgrees(x)'
    BY <1>1, <1>3, <1>4 DEF TierAgrees
  <1> QED
    BY <1>2, <1>5, <1>6, SoundTreeHolds

LEMMA RemoveRowKnows ==
    ASSUME CatalogueIInv, NEW a \in Admin, TreeIInv(a), RemoveRow(a)
    PROVE  TreeIInv(a)'
  <1> DEFINE c == op[a].cat
  <1> DEFINE gone == {c} \union Below(c)
  <1>1. CatalogueTypeOK /\ op \in [Admin -> TreeOp] /\ op[a] \in TreeOp /\ c \in Category
    BY CatalogueTypes, ParentTypes DEF CatalogueIInv
  <1>2. op'[a].at \in QuietSteps /\ op[a].at = "delete"
    <2>1. CASE EndsOp(a)
      BY <1>1, <2>1, EndIsQuiet DEF RemoveRow, Does
    <2>2. CASE Then(a, "files")
      <3>1. op'[a].at = "files"
        BY <1>1, <2>2 DEF Then, TreeOp
      <3> QED
        BY <3>1 DEF QuietSteps, RemoveRow, Does
    <2> QED
      BY <2>1, <2>2 DEF RemoveRow
  <1>3. NoCycle /\ ParentsStand /\ OrdersDiffer /\ \A x \in Category : TierAgrees(x)
    BY <1>2 DEF TreeIInv, TiersAgree
  <1>4. category' = [d \in Category |-> IF d \in gone THEN NoCategory ELSE category[d]] /\ untold' = untold
    BY DEF RemoveRow
  <1>5. c \in gone /\ \A x \in gone : Children(x) \subseteq gone
    BY ChildrenBelow
  <1>11. \A d \in Category : Children(d) \subseteq Category
    BY DEF Children
  <1> HIDE DEF gone
  <1>6. \A x \in Category : Stands(x)' => Stands(x) /\ x \notin gone /\ category'[x] = category[x]
    BY <1>4 DEF Stands
  <1>7. NoCycle'
    <2>1. \A x \in Category : Children(x)' \subseteq Children(x)
      BY <1>6 DEF Children
    <2>2. \A x \in Category : Below(x)' \subseteq Below(x)
      <3>1. ASSUME NEW x \in Category
            PROVE  Children(x)' \subseteq Below(x) /\ \A y \in Below(x) : Children(y)' \subseteq Below(x)
        BY <2>1, ChildrenBelow
      <3>2. ASSUME NEW x, NEW S \in SUBSET Category, Children(x)' \subseteq S, \A y \in S : Children(y)' \subseteq S
            PROVE  Below(x)' \subseteq S
        <4>1. Holds(S, x)'
          BY <3>2 DEF Holds
        <4> QED
          BY <4>1 DEF Below
      <3> QED
        BY <3>1, <3>2, ChildrenBelow
    <2> QED
      BY <1>3, <1>6, <2>2 DEF NoCycle
  <1>8. OrdersDiffer'
    BY <1>3, <1>6 DEF OrdersDiffer
  <1>9. ASSUME NEW x \in Category, Stands(x)', category'[x].parent # NoCategory
        PROVE  /\ Stands(category'[x].parent) /\ category'[category'[x].parent] # NoCategory
               /\ \/ category'[x].tier = category'[category'[x].parent].tier
                  \/ category'[x].parent \in untold'
    <2> DEFINE r == category[x].parent
    <2>1. Stands(x) /\ category'[x] = category[x] /\ x \notin gone
      BY <1>6, <1>9
    <2>2. /\ r \in Category /\ Stands(r) /\ x \in Children(r)
          /\ category[x].tier = category[r].tier \/ r \in untold
      BY <1>1, <1>3, <1>9, <2>1, ParentTypes DEF ParentsStand, Children, TierAgrees
    <2> HIDE DEF r
    <2>3. r \notin gone
      BY <1>5, <2>1, <2>2
    <2>4. category'[r] = category[r] /\ category[r] # NoCategory
      BY <1>4, <2>2, <2>3 DEF Stands
    <2> QED
      BY <1>4, <2>1, <2>2, <2>4 DEF r
  <1>10. ParentsStand' /\ \A x \in Category : TierAgrees(x)'
    BY <1>9 DEF ParentsStand, TierAgrees, Stands
  <1> QED
    BY <1>2, <1>7, <1>8, <1>10, SoundTreeHolds

LEMMA EditUpdateKnows ==
    ASSUME CatalogueIInv, NEW a \in Admin, TreeIInv(a), EditUpdate(a)
    PROVE  TreeIInv(a)'
  <1> DEFINE c == op[a].cat
  <1> DEFINE p == op[a].parent
  <1>1. /\ category \in [Category -> CategoryRow \union {NoCategory}] /\ CatalogueTypeOK
        /\ op \in [Admin -> TreeOp] /\ op[a] \in TreeOp
        /\ \A x \in Category : Stands(x) => category[x] \in CategoryRow
    BY CatalogueTypes DEF CatalogueIInv, CatalogueTypeOK
  <1>2. op[a].at = "update" /\ untold' = untold
    BY DEF EditUpdate, Does
  <1>3. /\ NoCycle /\ ParentsStand /\ OrdersDiffer /\ \A x \in Category : TierAgrees(x)
        /\ Stands(c) /\ c \in Category /\ p \notin Below(c) \union {c}
        /\ \A s \in Children(p) \ {c} : category[s].order # op[a].order
    BY <1>1, <1>2, ParentTypes DEF TreeIInv, TiersAgree, KnowsTree, AtParent
  <1>4. p # NoCategory => Stands(p) /\ p \in Category /\ op[a].tier = category[p].tier
    BY <1>1, <1>2, ParentTypes DEF TreeIInv, KnowsTree, Parent
  <1>5. /\ op' = [op EXCEPT ![a].at = "propagate"]
        /\ category' = [category EXCEPT ![c].parent = p, ![c].tier = op[a].tier, ![c].order = op[a].order]
    BY <1>3, <1>4 DEF EditUpdate, Then
  <1>6. op'[a].at = "propagate" /\ op'[a].cat = c /\ op'[a].tier = op[a].tier
    BY <1>1, <1>5 DEF TreeOp
  <1>7. /\ category'[c].parent = p /\ category'[c].tier = op[a].tier /\ category'[c].order = op[a].order
        /\ category'[c] # NoCategory
        /\ \A x \in Category \ {c} : category'[x] = category[x]
    <2> DEFINE row == [category[c] EXCEPT !.parent = p, !.tier = op[a].tier, !.order = op[a].order]
    <2>1. category[c] \in CategoryRow
      BY <1>1, <1>3
    <2>2. row \in CategoryRow /\ row.parent = p /\ row.tier = op[a].tier /\ row.order = op[a].order
      BY <1>1, <2>1 DEF CategoryRow, TreeOp
    <2>3. category' = [category EXCEPT ![c] = row]
      BY <1>1, <1>3, <1>5
    <2> HIDE DEF row
    <2> QED
      BY <1>1, <1>3, <2>2, <2>3, NoCategoryAssumption
  <1>8. c # NoCategory
    BY <1>3 DEF Stands
  <1>13. op[a].cat = c /\ op[a].parent = p
    OBVIOUS
  <1> HIDE DEF c, p
  <1>9. \A x \in Category : Stands(x)' <=> Stands(x)
    BY <1>3, <1>7 DEF Stands
  <1>10. NoCycle'
    BY <1>3, <1>7, <1>9, Reparent DEF NoCycle
  <1>11. OrdersDiffer'
    <2>1. ASSUME NEW x \in Category, NEW y \in Category, Stands(x), Stands(y), x # y, y # c,
                 category'[x].parent = category'[y].parent
          PROVE  category'[x].order # category'[y].order
      <3>1. category'[y] = category[y]
        BY <1>7, <2>1
      <3>2. CASE x = c
        BY <1>3, <1>7, <2>1, <3>1, <3>2 DEF Children
      <3>3. CASE x # c
        BY <1>3, <1>7, <2>1, <3>1, <3>3 DEF OrdersDiffer
      <3> QED
        BY <3>2, <3>3
    <2>2. ASSUME NEW x \in Category, NEW y \in Category, Stands(x)', Stands(y)', x # y,
                 category'[x].parent = category'[y].parent
          PROVE  category'[x].order # category'[y].order
      BY <1>9, <2>1, <2>2
    <2> QED
      BY <2>2 DEF OrdersDiffer
  <1>12. ASSUME NEW x \in Category, Stands(x)', category'[x].parent # NoCategory
         PROVE  /\ category'[x].parent \in Category /\ Stands(category'[x].parent)
                /\ category'[category'[x].parent] # NoCategory
                /\ x = c \/ category'[x].parent # c =>
                      \/ category'[x].tier = category'[category'[x].parent].tier
                      \/ category'[x].parent \in untold'
    <2>1. CASE x = c
      BY <1>3, <1>4, <1>7, <1>12, <2>1 DEF Stands
    <2>2. CASE x # c
      <3> DEFINE r == category[x].parent
      <3>1. Stands(x) /\ category'[x] = category[x]
        BY <1>7, <1>9, <1>12, <2>2
      <3>2. r \in Category /\ Stands(r) /\ (category[x].tier = category[r].tier \/ r \in untold')
        BY <1>1, <1>2, <1>3, <1>12, <3>1, ParentTypes DEF ParentsStand, TierAgrees
      <3> HIDE DEF r
      <3>3. category'[r] # NoCategory /\ (r # c => category'[r] = category[r])
        BY <1>7, <3>2 DEF Stands
      <3> QED
        BY <2>2, <3>1, <3>2, <3>3 DEF r
    <2> QED
      BY <2>1, <2>2
  <1>14. ParentsStand'
    BY <1>12 DEF ParentsStand, Stands
  <1>15. ASSUME NEW x \in Category, category'[x].parent # c
         PROVE  TierAgrees(x)'
    BY <1>12, <1>15 DEF TierAgrees
  <1>16. TiersAgree(a)'
    BY <1>6, <1>7, <1>15 DEF TiersAgree
  <1>17. KnowsTree(a)'
    <2>1. Stands(op[a].cat)'
      BY <1>6, <1>7, <1>8 DEF Stands
    <2> QED
      BY <1>6, <2>1 DEF KnowsTree, AtParent, MoveSteps
  <1> QED
    BY <1>10, <1>11, <1>14, <1>16, <1>17 DEF TreeIInv

\* After a move no two siblings share a place: those of the destination make
\* room for the moved category, those it leaves close up.
LEMMA MoveApart ==
    ASSUME CatalogueTypeOK, OrdersDiffer, NEW a \in Admin, op[a].from = category[op[a].cat].parent,
           NEW x \in Category, NEW y \in Category, Stands(x), Stands(y), x # y, y # op[a].cat,
           (IF x = op[a].cat THEN op[a].parent ELSE category[x].parent) = category[y].parent
    PROVE  OrderOf(a, x) # OrderOf(a, y)
  <1>1. /\ Dest(a) \in SUBSET Category /\ Left(a) \in SUBSET Category
        /\ \A s \in Dest(a) \union Left(a) : category[s].order \in Nat
        /\ \A s \in Dest(a) : Place(s, Dest(a)) \in Nat
        /\ Index(a) \in Nat
    BY MoveBounds
  <1>2. \A s \in Dest(a) : /\ Place(s, Dest(a)) < Index(a) => OrderOf(a, s) = Place(s, Dest(a))
                           /\ ~(Place(s, Dest(a)) < Index(a)) => OrderOf(a, s) = Place(s, Dest(a)) + 1
    BY <1>1, OrderCases
  <1>3. CASE x = op[a].cat
    <2>1. y \in Dest(a)
      BY <1>3 DEF Dest, Children
    <2>2. OrderOf(a, x) = Index(a)
      BY <1>3, OrderCases
    <2>3. Place(y, Dest(a)) \in Nat
      BY <1>1, <2>1
    <2> QED
      BY <1>1, <1>2, <2>1, <2>2, <2>3
  <1>4. CASE x # op[a].cat /\ category[y].parent = op[a].parent
    <2>1. x \in Dest(a) /\ y \in Dest(a)
      BY <1>4 DEF Dest, Children
    <2>2. Place(x, Dest(a)) # Place(y, Dest(a))
      BY <1>1, <2>1, PlacesDiffer
    <2>3. Place(x, Dest(a)) \in Nat /\ Place(y, Dest(a)) \in Nat
      BY <1>1, <2>1
    <2>4. /\ Place(x, Dest(a)) < Index(a) => OrderOf(a, x) = Place(x, Dest(a))
          /\ ~(Place(x, Dest(a)) < Index(a)) => OrderOf(a, x) = Place(x, Dest(a)) + 1
          /\ Place(y, Dest(a)) < Index(a) => OrderOf(a, y) = Place(y, Dest(a))
          /\ ~(Place(y, Dest(a)) < Index(a)) => OrderOf(a, y) = Place(y, Dest(a)) + 1
      BY <1>2, <2>1
    <2>5. Index(a) \in Nat
      BY <1>1
    <2> QED
      BY <2>2, <2>3, <2>4, <2>5
  <1>5. CASE x # op[a].cat /\ category[y].parent # op[a].parent /\ category[y].parent = op[a].from
    <2>1. x \in Left(a) /\ y \in Left(a)
      BY <1>5 DEF Left, Children
    <2>2. Place(x, Left(a)) # Place(y, Left(a))
      BY <1>1, <2>1, PlacesDiffer
    <2> QED
      BY <2>1, <2>2, OrderCases
  <1>6. CASE x # op[a].cat /\ category[y].parent # op[a].parent /\ category[y].parent # op[a].from
    <2>1. x \notin Left(a) /\ x \notin Dest(a) /\ y \notin Left(a) /\ y \notin Dest(a)
      BY <1>6 DEF Left, Dest, Children
    <2>2. OrderOf(a, x) = category[x].order /\ OrderOf(a, y) = category[y].order
      BY <1>6, <2>1, OrderCases
    <2> QED
      BY <1>6, <2>2 DEF OrdersDiffer
  <1> QED
    BY <1>3, <1>4, <1>5, <1>6

LEMMA MoveCommitKnows ==
    ASSUME CatalogueIInv, NEW a \in Admin, TreeIInv(a), MoveCommit(a)
    PROVE  TreeIInv(a)'
  <1> DEFINE c == op[a].cat
  <1> DEFINE p == op[a].parent
  <1> DEFINE cs == Below(c) \union {c}
  <1>1. CatalogueTypeOK /\ op[a] \in TreeOp /\ op[a].at = "moveCommit"
    BY CatalogueTypes DEF CatalogueIInv, MoveCommit, Does
  <1>2. op'[a].at \in QuietSteps
    BY <1>1, EndIsQuiet DEF MoveCommit, Rollback
  <1>3. /\ NoCycle /\ ParentsStand /\ OrdersDiffer /\ \A x \in Category : TierAgrees(x)
        /\ Stands(c) /\ c \in Category /\ p \notin cs /\ op[a].from = category[c].parent
        /\ p # NoCategory => Stands(p) /\ p \in Category /\ op[a].tier = category[p].tier
    <2>1. KnowsTree(a) /\ OpOk(a)
      BY DEF TreeIInv, CatalogueIInv
    <2>2. Stands(c)
      BY <1>1, <2>1 DEF OpOk, MoveSteps
    <2>3. p \notin cs /\ op[a].from = category[c].parent
          /\ (p # NoCategory => Stands(p) /\ op[a].tier = category[p].tier)
      BY <1>1, <2>1 DEF KnowsTree, AtParent, MoveSteps
    <2>4. c \in Category /\ (p # NoCategory => p \in Category)
      BY <1>1, ParentTypes DEF Parent
    <2>5. NoCycle /\ ParentsStand /\ OrdersDiffer /\ \A x \in Category : TierAgrees(x)
      BY <1>1 DEF TreeIInv, TiersAgree
    <2> QED
      BY <2>2, <2>3, <2>4, <2>5
  <1>4. \A s \in Category :
            /\ Stands(s)' <=> Stands(s)
            /\ Stands(s) => /\ category'[s].order = OrderOf(a, s)
                            /\ category'[s].parent = IF s = c THEN p ELSE category[s].parent
                            /\ category'[s].tier = IF s \in cs THEN op[a].tier ELSE category[s].tier
    BY <1>1, <1>3, MoveRows
  <1>5. OrdersDiffer'
    <2>1. ASSUME NEW x \in Category, NEW y \in Category, Stands(x), Stands(y), x # y, y # c,
                 category'[x].parent = category'[y].parent
          PROVE  category'[x].order # category'[y].order
      <3>1. (IF x = c THEN p ELSE category[x].parent) = category[y].parent
        BY <1>4, <2>1
      <3>2. OrderOf(a, x) # OrderOf(a, y)
        BY <1>1, <1>3, <2>1, <3>1, MoveApart
      <3> QED
        BY <1>4, <2>1, <3>2
    <2>2. ASSUME NEW x \in Category, NEW y \in Category, Stands(x)', Stands(y)', x # y,
                 category'[x].parent = category'[y].parent
          PROVE  category'[x].order # category'[y].order
      <3>1. Stands(x) /\ Stands(y)
        BY <1>4, <2>2
      <3>2. CASE y # c
        BY <2>1, <2>2, <3>1, <3>2
      <3>3. CASE y = c
        <4>1. x # c
          BY <2>2, <3>3
        <4> QED
          BY <2>1, <2>2, <3>1, <4>1
      <3> QED
        BY <3>2, <3>3
    <2> QED
      BY <2>2 DEF OrdersDiffer
  <1>6. c \notin Below(c) /\ c # NoCategory
    BY <1>3 DEF NoCycle, Stands
  <1>7. c \in cs /\ \A x \in cs : Children(x) \subseteq cs
    BY ChildrenBelow
  <1>8. \A x \in Below(c) : category[x].parent \in cs
    BY ParentBelow
  <1>9. cs = Below(c) \union {c}
    OBVIOUS
  <1>13. untold' = untold \ cs
    BY DEF MoveCommit, Told
  <1> HIDE DEF cs, c, p
  <1>10. NoCycle'
    BY <1>3, <1>4, <1>6, <1>9, Reparent
  <1>11. ASSUME NEW x \in Category, Stands(x)', category'[x].parent # NoCategory
         PROVE  /\ category'[x].parent \in Category /\ Stands(category'[x].parent)
                /\ category'[category'[x].parent] # NoCategory
                /\ \/ category'[x].tier = category'[category'[x].parent].tier
                   \/ category'[x].parent \in untold'
    <2> DEFINE r == category'[x].parent
    <2>1. Stands(x)
      BY <1>4, <1>11
    <2>2. r \in Category /\ Stands(r)
      BY <1>1, <1>3, <1>4, <1>11, <2>1, ParentTypes DEF ParentsStand
    <2>3. category'[r] # NoCategory
      <3>1. \A s \in Category : Stands(s) => category'[s] # NoCategory
        BY <1>4 DEF Stands
      <3> QED
        BY <2>2, <3>1
    <2>4. category'[x].tier = category'[r].tier \/ r \in untold'
      <3>1. CASE x = c
        <4>1. r = p /\ p \notin cs /\ c \in cs
          BY <1>3, <1>4, <1>7, <2>1, <3>1
        <4> QED
          BY <1>3, <1>4, <1>11, <2>1, <2>2, <3>1, <4>1
      <3>2. CASE x # c
        <4>1. r = category[x].parent /\ x \in Children(r)
          BY <1>4, <2>1, <3>2 DEF Children
        <4>2. x \in cs <=> r \in cs
          BY <1>7, <1>8, <1>9, <3>2, <4>1
        <4>3. category[x].tier = category[r].tier \/ r \in untold
          BY <1>3, <1>11, <2>1, <4>1 DEF TierAgrees
        <4> HIDE DEF r
        <4> QED
          BY <1>4, <1>13, <2>1, <2>2, <4>2, <4>3
      <3> QED
        BY <3>1, <3>2
    <2> QED
      BY <2>2, <2>3, <2>4
  <1>12. ParentsStand' /\ \A x \in Category : TierAgrees(x)'
    BY <1>11 DEF ParentsStand, TierAgrees, Stands
  <1> QED
    BY <1>2, <1>5, <1>10, <1>12, SoundTreeHolds

LEMMA RecoverKnows ==
    ASSUME CatalogueIInv, NEW a \in Admin, TreeIInv(a), NEW b \in Admin, Recover(b)
    PROVE  TreeIInv(a)'
  <1>1. /\ category \in [Category -> CategoryRow \union {NoCategory}] /\ CatalogueTypeOK
        /\ op \in [Admin -> TreeOp] /\ op[b] \in TreeOp /\ Idle \in TreeOp /\ Idle.at = "idle"
        /\ \A x \in Category : Stands(x) => category[x] \in CategoryRow
    BY CatalogueTypes, IdleType DEF CatalogueIInv, CatalogueTypeOK
  <1>5. untold' = untold
    BY DEF Recover, CoverBegin, CoverDraw, CoverUpdate, CoverUnlink, CoverFails, OnlyOp
  <1>2. SameTree
    <2>1. CASE category' = category
      BY <2>1 DEF SameTree, Stands
    <2>2. CASE CoverUpdate(b)
      <3> DEFINE c == op[b].cat
      <3> DEFINE row == [category[c] EXCEPT !.cover = op[b].new]
      <3>1. c \in Category
        BY <1>1 DEF TreeOp
      <3>2. category' = category \/ (Stands(c) /\ category' = [category EXCEPT ![c] = row])
        BY <2>2 DEF CoverUpdate
      <3>3. Stands(c) => /\ row.parent = category[c].parent /\ row.tier = category[c].tier
                         /\ row.order = category[c].order /\ row # NoCategory
        <4>1. \A r \in CategoryRow, n \in 0..MaxCover :
                 /\ [r EXCEPT !.cover = n].parent = r.parent /\ [r EXCEPT !.cover = n].tier = r.tier
                 /\ [r EXCEPT !.cover = n].order = r.order /\ [r EXCEPT !.cover = n] \in CategoryRow
          BY DEF CategoryRow
        <4>2. op[b].new \in 0..MaxCover
          BY <1>1 DEF TreeOp
        <4> QED
          BY <1>1, <3>1, <4>1, <4>2, NoCategoryAssumption
      <3> HIDE DEF row, c
      <3>4. CASE category' = category
        BY <3>4 DEF SameTree, Stands
      <3>5. CASE Stands(c) /\ category' = [category EXCEPT ![c] = row]
        <4>1. category'[c] = row /\ \A x \in Category \ {c} : category'[x] = category[x]
          BY <1>1, <3>1, <3>5
        <4> QED
          BY <3>1, <3>3, <3>5, <4>1 DEF SameTree, Stands
      <3> QED
        BY <3>2, <3>4, <3>5
    <2> QED
      BY <2>1, <2>2 DEF Recover, CoverBegin, CoverDraw, CoverUnlink, CoverFails, OnlyOp
  <1>3. CASE a # b
    <2>1. op'[a] = op[a]
      BY <1>1, <1>3 DEF Recover, CoverBegin, CoverDraw, CoverUpdate, CoverUnlink, CoverFails, EndsOp, Then
    <2> QED
      BY <1>2, <1>5, <2>1, SameOpKnows
  <1>4. CASE a = b
    <2>1. op[b].at \in {"idle", "draw", "adopt", "setCover", "setNull", "unlink"}
      BY DEF Recover, CoverBegin, CoverDraw, CoverUpdate, CoverUnlink, CoverFails, Does
    <2>2. op'[b].at \in {"idle", "draw", "adopt", "setCover", "setNull", "unlink"}
      <3>1. ASSUME NEW c \in Category, NEW step, CoverBegin(b, c, step)
            PROVE  op'[b].at \in {"idle", "draw", "adopt", "setCover", "setNull", "unlink"}
        <4> DEFINE o == [Idle EXCEPT !.at = step, !.cat = c, !.old = category[c].cover, !.moved = (step = "adopt")]
        <4>1. op'[b] = o /\ step \in {"draw", "setNull", "adopt"}
          BY <1>1, <3>1 DEF CoverBegin
        <4>2. o.at = step
          BY <1>1 DEF TreeOp
        <4> QED
          BY <4>1, <4>2
      <3>2. CASE CoverDraw(b)
        BY <1>1, <3>2 DEF CoverDraw, TreeOp
      <3>3. CASE CoverUpdate(b) \/ CoverUnlink(b) \/ CoverFails(b)
        <4>1. op'[b] = Idle \/ op'[b] = [op[b] EXCEPT !.at = "unlink"]
          BY <1>1, <3>3 DEF CoverUpdate, CoverUnlink, CoverFails, EndsOp, Then
        <4>2. [op[b] EXCEPT !.at = "unlink"].at = "unlink"
          BY <1>1 DEF TreeOp
        <4> QED
          BY <1>1, <4>1, <4>2
      <3> QED
        BY <3>1, <3>2, <3>3 DEF Recover
    <2>3. op'[a].at \in QuietSteps
      BY <1>4, <2>2 DEF QuietSteps
    <2>4. /\ NoCycle /\ ParentsStand /\ OrdersDiffer /\ \A x \in Category : TierAgrees(x)
      BY <1>4, <2>1 DEF TreeIInv, TiersAgree
    <2> QED
      BY <1>1, <1>2, <1>5, <2>3, <2>4, SameTreeKeeps, SoundTreeHolds
  <1> QED
    BY <1>3, <1>4

LEMMA RestructureKnows ==
    ASSUME CatalogueIInv, NEW a \in Admin, TreeIInv(a), Restructure(a)
    PROVE  TreeIInv(a)'
  <1>1. /\ 1 \in Category /\ NoCategory \in Parent /\ 0 \in 0..MaxOrder /\ \E t \in Tier : TRUE
    <2>1. 1 \in Category
      BY CategoryAssumption, FS_CardinalityType
    <2>2. \E t \in Tier : TRUE
      BY TierAssumption
    <2> QED
      BY <2>1, <2>2, CatalogueBounds DEF Parent
  <1>2. CASE \E p \in Parent, t \in Tier : AddBegin(a, p, t)
    BY <1>1, <1>2, BeginKnows
  <1>3. ASSUME NEW c \in Category,
               \/ \E p \in Parent, t \in Tier : EditBegin(a, c, TRUE, p, t)
               \/ \E t \in Tier : EditBegin(a, c, FALSE, NoCategory, t)
        PROVE  TreeIInv(a)'
    BY <1>1, <1>3, BeginKnows
  <1>4. ASSUME NEW c \in Category, \E p \in Parent, slot \in 0..MaxOrder : MoveBegin(a, c, p, slot)
        PROVE  TreeIInv(a)'
    BY <1>4, MoveLooksKnow
  <1>5. CASE MoveParent(a) \/ MoveDescends(a) \/ MoveSiblings(a) \/ MoveAborts(a)
    BY <1>1, <1>5, MoveLooksKnow
  <1>6. CASE EditDescends(a) \/ EditTier(a) \/ EditOrder(a)
    BY <1>6, EditLooksKnow
  <1>7. ASSUME NEW c \in Category, RemoveBegin(a, c)
        PROVE  TreeIInv(a)'
    BY <1>7, RemoveLooksKnow
  <1>8. CASE RemoveChildren(a) \/ RemoveCover(a) \/ RemoveCoverFiles(a)
    BY <1>1, <1>8, RemoveLooksKnow
  <1> QED
    BY <1>2, <1>3, <1>4, <1>5, <1>6, <1>7, <1>8, AddInsertKnows, EditUpdateKnows, EditPropagateKnows,
       EditCutKnows, MoveCommitKnows, RemoveRowKnows DEF Restructure

LEMMA TreeInitHolds ==
    ASSUME CatalogueInit, NEW a \in Admin
    PROVE  TreeIInv(a)
  <1>1. (\A c \in Category : ~Stands(c)) /\ op[a] = Idle /\ Idle.at = "idle"
    BY IdleType DEF CatalogueInit, Stands
  <1> QED
    BY <1>1 DEF TreeIInv, NoCycle, ParentsStand, OrdersDiffer, TiersAgree, TierAgrees, KnowsTree, AtParent, MoveSteps

LEMMA TreeStep ==
    ASSUME NEW a, TreeAdmin = {a}, CatalogueIInv, TreeIInv(a), [CatalogueNext]_catalogueVars
    PROVE  TreeIInv(a)'
  <1>1. a \in Admin
    BY AdminAssumption
  <1>2. CASE Restructure(a)
    BY <1>1, <1>2, RestructureKnows
  <1>3. ASSUME NEW b \in CoverAdmin, Recover(b)
        PROVE  TreeIInv(a)'
    BY <1>1, <1>3, AdminAssumption, RecoverKnows
  <1>4. CASE UNCHANGED catalogueVars
    <2>1. SameTree /\ op'[a] = op[a] /\ untold' = untold
      BY <1>4 DEF catalogueVars, SameTree, Stands
    <2> QED
      BY <1>1, <2>1, SameOpKnows
  <1> QED
    BY <1>2, <1>3, <1>4 DEF CatalogueNext

LEMMA TreeIsSoundHolds ==
    ASSUME NEW a \in Admin, CatalogueIInv, TreeIInv(a)
    PROVE  TreeInv
  <1>1. TreeIsSound
    <2>1. NoCycle /\ ParentsStand /\ OrdersDiffer /\ TiersAgree(a) /\ KnowsTree(a)
      BY DEF TreeIInv
    <2>2. ASSUME NEW c \in Category, Stands(c), category[c].parent # NoCategory
          PROVE  \/ category[c].tier = category[category[c].parent].tier
                 \/ category[c].parent \in untold
                 \/ \E b \in Admin : Does(b, "propagate")
      BY <2>1, <2>2 DEF TiersAgree, TierAgrees, Does
    <2> QED
      BY <2>1, <2>2 DEF TreeIsSound, ParentsStand, OrdersDiffer
  <1> QED
    BY <1>1 DEF TreeInv, CatalogueIInv, CoversOk

\* Changed by one request at a time, the tree is sound in every state: it has
\* no cycle, every category has the tier of its parent unless an edit is on its
\* way down, or ended between its two statements and the parent is the category
\* it was about, and siblings have places of their own.
THEOREM TreeStaysSound ==
    ASSUME NEW a, TreeAdmin = {a}
    PROVE  CatalogueSpec => []TreeInv
  <1>1. a \in Admin
    BY AdminAssumption
  <1>2. CatalogueInit => CatalogueIInv /\ TreeIInv(a)
    BY <1>1, CatalogueInitHolds, TreeInitHolds
  <1>3. CatalogueIInv /\ TreeIInv(a) /\ [CatalogueNext]_catalogueVars => CatalogueIInv' /\ TreeIInv(a)'
    BY CatalogueStep, TreeStep
  <1>4. CatalogueIInv /\ TreeIInv(a) => TreeInv
    BY <1>1, TreeIsSoundHolds
  <1> QED
    BY <1>2, <1>3, <1>4, PTL DEF CatalogueSpec
=============================================================================

------------------------- MODULE CollectionScans_proofs -------------------------
(***************************************************************************)
(* The schedulers of the worker never lose a slot and never disagree with  *)
(* themselves, whatever the number of collections and the limits.  First   *)
(* the queue as a sequence without repetitions, then the operations of a   *)
(* scheduler, then the futures that carry its active collections, then the *)
(* handlers.                                                               *)
(***************************************************************************)
EXTENDS CollectionScans, TLAPS, FiniteSetTheorems, SequenceTheorems

(* The queue of a scheduler never holds a collection twice.                   *)
Distinct(q) == \A i, j \in 1..Len(q) : q[i] = q[j] => i = j

(* A set of naturals has a least member: the induction of this module.        *)
LEMMA LeastNatural ==
  ASSUME NEW T \in SUBSET Nat, T # {}
  PROVE  \E n \in T : \A m \in T : n <= m
<1> DEFINE R == {ss \in Nat \X Nat : ss[1] < ss[2]}
<1>1. IsWellFoundedOn(R, Nat)
  BY NatLessThanWellFounded DEF OpToRel
<1>2. \E n \in T : \A m \in T : ~(<<m, n>> \in R)
  <2> HIDE DEF R
  <2> QED
    BY <1>1, WFMin
<1>3. \A m, n \in Nat : m < n => <<m, n>> \in R
  <2> SUFFICES ASSUME NEW m \in Nat, NEW n \in Nat, m < n
               PROVE  <<m, n>> \in R
    OBVIOUS
  <2>1. <<m, n>> \in Nat \X Nat /\ <<m, n>>[1] < <<m, n>>[2]
    OBVIOUS
  <2> QED
    BY <2>1, Zenon
<1> HIDE DEF R
<1>4. \E n \in T : \A m \in T : ~(m < n)
  BY <1>2, <1>3, Zenon
<1> QED
  BY <1>4

(* What holds of zero, and of the next when of one, holds of every natural.   *)
LEMMA NaturalSteps ==
  ASSUME NEW T \in SUBSET Nat, 0 \in T, \A n \in T : n + 1 \in T
  PROVE  T = Nat
<1> SUFFICES ASSUME Nat \ T # {}
             PROVE  FALSE
  OBVIOUS
<1>1. PICK n \in Nat \ T : \A m \in Nat \ T : n <= m
  BY LeastNatural
<1>2. n # 0 /\ n - 1 \in Nat
  BY <1>1
<1>3. n - 1 \in T
  BY <1>1, <1>2
<1>4. (n - 1) + 1 = n
  BY <1>1
<1> QED
  BY <1>1, <1>3, <1>4

(* A queue without repetitions is as long as the set it holds is large.       *)
LEMMA DistinctLength ==
  ASSUME NEW S, NEW q \in Seq(S), Distinct(q)
  PROVE  IsFiniteSet(ToSet(q)) /\ Cardinality(ToSet(q)) = Len(q)
<1>1. Len(q) \in Nat /\ DOMAIN q = 1..Len(q) /\ q \in [1..Len(q) -> ToSet(q)]
  BY LenProperties DEF ToSet
<1>2. q \in Injection(1..Len(q), ToSet(q))
  BY <1>1 DEF Injection, IsInjective, Distinct
<1>3. q \in Surjection(1..Len(q), ToSet(q))
  BY <1>1 DEF Surjection, ToSet
<1>4. IsFiniteSet(1..Len(q)) /\ Cardinality(1..Len(q)) = Len(q)
  BY <1>1, FS_Interval
<1> QED
  BY <1>2, <1>3, <1>4, FS_Surjection

(* The members of a queue are what its positions hold.                        *)
LEMMA SeqToSet ==
  ASSUME NEW S, NEW q \in Seq(S)
  PROVE  /\ \A x : x \in ToSet(q) <=> \E i \in 1..Len(q) : q[i] = x
         /\ ToSet(q) \subseteq S
         /\ Len(q) \in Nat
<1>1. Len(q) \in Nat /\ DOMAIN q = 1..Len(q) /\ q \in [1..Len(q) -> S]
  BY LenProperties
<1> QED
  BY <1>1 DEF ToSet

(* push_back of a collection that does not wait keeps the queue without       *)
(* repetitions.                                                               *)
LEMMA AppendDistinct ==
  ASSUME NEW S, NEW q \in Seq(S), Distinct(q), NEW x \in S, x \notin ToSet(q)
  PROVE  /\ Append(q, x) \in Seq(S)
         /\ Distinct(Append(q, x))
         /\ ToSet(Append(q, x)) = ToSet(q) \union {x}
<1> DEFINE r == Append(q, x)
<1>1. /\ r \in Seq(S) /\ Len(r) = Len(q) + 1 /\ r[Len(q) + 1] = x
      /\ \A i \in 1..Len(q) : r[i] = q[i]
  BY AppendProperties
<1>2. Len(q) \in Nat /\ \A i \in 1..Len(q) : q[i] # x
  BY SeqToSet
<1> HIDE DEF r
<1>3. \A i \in 1..Len(r) : i \in 1..Len(q) \/ i = Len(q) + 1
  BY <1>1, <1>2
<1>4. Distinct(r)
  BY <1>1, <1>2, <1>3 DEF Distinct
<1>5. ToSet(r) = ToSet(q) \union {x}
  <2>1. ASSUME NEW y \in ToSet(r)
        PROVE  y \in ToSet(q) \union {x}
    BY <1>1, <1>3, SeqToSet
  <2>2. ASSUME NEW y \in ToSet(q)
        PROVE  y \in ToSet(r)
    <3>1. PICK i \in 1..Len(q) : q[i] = y
      BY SeqToSet
    <3>2. i \in 1..Len(r) /\ r[i] = y
      BY <1>1, <1>2, <3>1
    <3> QED
      BY <1>1, <3>2, SeqToSet
  <2>3. x \in ToSet(r)
    <3>1. Len(q) + 1 \in 1..Len(r)
      BY <1>1, <1>2
    <3> QED
      BY <1>1, <3>1, SeqToSet
  <2> QED
    BY <2>1, <2>2, <2>3
<1> QED
  BY <1>1, <1>4, <1>5 DEF r

(* The collections popped from the front and those left are the queue,        *)
(* shared out.                                                                *)
LEMMA SplitDistinct ==
  ASSUME NEW S, NEW q \in Seq(S), Distinct(q), NEW n \in 0..Len(q)
  PROVE  LET front == SubSeq(q, 1, n)
             rest == SubSeq(q, n + 1, Len(q))
         IN  /\ front \in Seq(S) /\ rest \in Seq(S)
             /\ Distinct(front) /\ Distinct(rest)
             /\ Len(front) = n /\ Len(rest) = Len(q) - n
             /\ ToSet(rest) = ToSet(q) \ ToSet(front)
             /\ ToSet(front) \subseteq ToSet(q)
<1> DEFINE front == SubSeq(q, 1, n)
           rest == SubSeq(q, n + 1, Len(q))
<1>0. Len(q) \in Nat /\ n \in Nat /\ n <= Len(q) /\ \A i \in 1..Len(q) : q[i] \in S
  BY LenProperties, ElementOfSeq
<1>1. /\ front \in Seq(S) /\ Len(front) = n
      /\ \A i \in 1..n : front[i] = q[i]
  <2>1. \A i \in 1..n : q[i] \in S
    BY <1>0
  <2>2. /\ front \in Seq(S)
        /\ Len(front) = IF 1 <= n THEN n - 1 + 1 ELSE 0
        /\ \A i \in 1..n - 1 + 1 : front[i] = q[1 + i - 1]
    BY <1>0, <2>1, SubSeqProperties
  <2> QED
    BY <1>0, <2>2
<1>2. /\ rest \in Seq(S) /\ Len(rest) = Len(q) - n
      /\ \A i \in 1..Len(q) - n : rest[i] = q[n + i]
  <2>1. \A i \in n + 1..Len(q) : q[i] \in S
    BY <1>0
  <2>2. /\ rest \in Seq(S)
        /\ Len(rest) = IF n + 1 <= Len(q) THEN Len(q) - (n + 1) + 1 ELSE 0
        /\ \A i \in 1..Len(q) - (n + 1) + 1 : rest[i] = q[n + 1 + i - 1]
    BY <1>0, <2>1, SubSeqProperties
  <2>3. \A i \in 1..Len(q) - n : n + 1 + i - 1 = n + i
    BY <1>0
  <2> QED
    BY <1>0, <2>2, <2>3
<1> HIDE DEF front, rest
<1>3. Distinct(front)
  BY <1>0, <1>1 DEF Distinct
<1>4. Distinct(rest)
  <2> SUFFICES ASSUME NEW i \in 1..Len(q) - n, NEW j \in 1..Len(q) - n, rest[i] = rest[j]
               PROVE  i = j
    BY <1>2 DEF Distinct
  <2>1. n + i \in 1..Len(q) /\ n + j \in 1..Len(q) /\ q[n + i] = q[n + j]
    BY <1>0, <1>2
  <2>2. n + i = n + j
    BY <2>1 DEF Distinct
  <2> QED
    BY <1>0, <2>2
<1>5. ToSet(front) \subseteq ToSet(q)
  <2> SUFFICES ASSUME NEW x \in ToSet(front)
               PROVE  x \in ToSet(q)
    OBVIOUS
  <2>1. PICK i \in 1..Len(front) : front[i] = x
    BY <1>1, SeqToSet
  <2>2. i \in 1..Len(q) /\ q[i] = x
    BY <1>0, <1>1, <2>1
  <2> QED
    BY <2>2, SeqToSet
<1>6. ASSUME NEW x \in ToSet(rest)
      PROVE  x \in ToSet(q) \ ToSet(front)
  <2>1. PICK i \in 1..Len(q) - n : rest[i] = x
    BY <1>2, <1>6, SeqToSet
  <2>2. n + i \in 1..Len(q) /\ q[n + i] = x
    BY <1>0, <1>2, <2>1
  <2>3. \A k \in 1..n : q[k] # x
    BY <1>0, <2>2 DEF Distinct
  <2>4. x \notin ToSet(front)
    BY <1>1, <2>3, SeqToSet
  <2>5. x \in ToSet(q)
    BY <2>2, SeqToSet
  <2> QED
    BY <2>4, <2>5
<1>7. ASSUME NEW x \in ToSet(q), x \notin ToSet(front)
      PROVE  x \in ToSet(rest)
  <2>1. PICK k \in 1..Len(q) : q[k] = x
    BY SeqToSet
  <2>2. ~(k <= n)
    <3> SUFFICES ASSUME k <= n
                 PROVE  FALSE
      OBVIOUS
    <3>1. k \in 1..Len(front) /\ front[k] = x
      BY <1>0, <1>1, <2>1
    <3> QED
      BY <1>1, <1>7, <3>1, SeqToSet
  <2>3. k - n \in 1..Len(rest) /\ rest[k - n] = q[n + (k - n)] /\ n + (k - n) = k
    BY <1>0, <1>2, <2>1, <2>2
  <2> QED
    BY <1>2, <2>1, <2>3, SeqToSet
<1>8. ToSet(rest) = ToSet(q) \ ToSet(front)
  BY <1>6, <1>7
<1> QED
  BY <1>1, <1>2, <1>3, <1>4, <1>5, <1>8 DEF front, rest
(* The loop of retain: what is kept of each prefix of the queue.              *)
Retains(kept, queue, c) ==
  kept = [n \in 0..Len(queue) |->
            IF n = 0 THEN <<>>
            ELSE IF queue[n] = c THEN kept[n - 1] ELSE Append(kept[n - 1], queue[n])]

(* The loop of retain ends with one answer for every prefix of the queue.     *)
LEMMA RetainExists ==
  ASSUME NEW S, NEW queue \in Seq(S), NEW c
  PROVE  \E kept : Retains(kept, queue, c)
<1> DEFINE next(kept, n) == IF queue[n] = c THEN kept[n - 1] ELSE Append(kept[n - 1], queue[n])
           upTo(kept, n) == [i \in 0..n |-> IF i = 0 THEN <<>> ELSE next(kept, i)]
           T == {n \in Nat : \E kept : kept = upTo(kept, n)}
<1>1. 0 \in T
  <2> DEFINE k == [i \in 0..0 |-> <<>>]
  <2>1. k = upTo(k, 0)
    OBVIOUS
  <2> QED
    BY <2>1
<1>2. ASSUME NEW n \in T
      PROVE  n + 1 \in T
  <2>1. PICK kept : kept = upTo(kept, n)
    OBVIOUS
  <2> DEFINE more == [i \in 0..n + 1 |-> IF i <= n THEN kept[i] ELSE next(kept, i)]
  <2>2. n \in Nat
    OBVIOUS
  <2>3. \A i \in 0..n + 1 : more[i] = IF i = 0 THEN <<>> ELSE next(more, i)
    <3> SUFFICES ASSUME NEW i \in 0..n + 1
                 PROVE  more[i] = IF i = 0 THEN <<>> ELSE next(more, i)
      OBVIOUS
    <3>1. CASE i = 0
      <4>1. more[i] = kept[i] /\ i \in 0..n
        BY <2>2, <3>1
      <4>2. kept[i] = <<>>
        BY <2>1, <3>1, <4>1
      <4> QED
        BY <3>1, <4>1, <4>2
    <3>2. CASE i # 0
      <4>1. i - 1 \in 0..n /\ i - 1 \in 0..n + 1 /\ i - 1 <= n
        BY <2>2, <3>2
      <4>2. more[i - 1] = kept[i - 1]
        BY <4>1
      <4>3. next(more, i) = next(kept, i)
        BY <4>2
      <4>4. more[i] = next(kept, i)
        <5>1. CASE i <= n
          <6>1. i \in 0..n /\ more[i] = kept[i]
            BY <2>2, <5>1
          <6>2. kept[i] = next(kept, i)
            BY <2>1, <3>2, <6>1
          <6> QED
            BY <6>1, <6>2
        <5>2. CASE ~(i <= n)
          BY <5>2
        <5> QED
          BY <5>1, <5>2
      <4> QED
        BY <3>2, <4>3, <4>4
    <3> QED
      BY <3>1, <3>2
  <2>4. more = upTo(more, n + 1)
    BY <2>3
  <2>5. n + 1 \in Nat
    BY <2>2
  <2> QED
    BY <2>4, <2>5
<1>3. Len(queue) \in Nat
  BY LenProperties
<1>4. T = Nat
  <2> HIDE DEF T
  <2>1. T \in SUBSET Nat
    BY DEF T
  <2> QED
    BY <1>1, <1>2, <2>1, NaturalSteps
<1> QED
  BY <1>3, <1>4 DEF Retains

(* One turn of that loop.                                                     *)
LEMMA RetainsNext ==
  ASSUME NEW kept, NEW queue, NEW c, Retains(kept, queue, c),
         NEW n \in Nat, NEW m, m = n + 1, m \in 0..Len(queue)
  PROVE  kept[m] = IF queue[m] = c THEN kept[n] ELSE Append(kept[n], queue[m])
<1> DEFINE step(i) == IF i = 0 THEN <<>>
                      ELSE IF queue[i] = c THEN kept[i - 1] ELSE Append(kept[i - 1], queue[i])
           all == [i \in 0..Len(queue) |-> step(i)]
<1>1. kept = all
  BY DEF Retains
<1>2. all[m] = step(m)
  <2> HIDE DEF step
  <2> QED
    OBVIOUS
<1>3. m # 0 /\ m - 1 = n
  OBVIOUS
<1>4. step(m) = IF queue[m] = c THEN kept[n] ELSE Append(kept[n], queue[m])
  BY <1>3, Zenon
<1> HIDE DEF step, all
<1> QED
  BY <1>1, <1>2, <1>4

(* retain drops the cancelled collection and nothing else, for every queue.   *)
LEMMA RetainKeeps ==
  ASSUME NEW S, NEW queue \in Seq(S), Distinct(queue), NEW c
  PROVE  /\ Without(queue, c) \in Seq(S)
         /\ Distinct(Without(queue, c))
         /\ ToSet(Without(queue, c)) = ToSet(queue) \ {c}
<1> DEFINE kept == CHOOSE k : Retains(k, queue, c)
           walked(n) == {queue[i] : i \in 1..n} \ {c}
           good(n) == /\ kept[n] \in Seq(S) /\ Distinct(kept[n])
                      /\ ToSet(kept[n]) = walked(n)
           T == {n \in Nat : n \in 0..Len(queue) => good(n)}
<1>1. Retains(kept, queue, c)
  BY RetainExists
<1>2. Without(queue, c) = kept[Len(queue)]
  BY DEF Without, Retains
<1>3. Len(queue) \in Nat /\ \A i \in 1..Len(queue) : queue[i] \in S
  BY LenProperties, ElementOfSeq
<1> HIDE DEF kept
<1>4. 0 \in T
  <2>1. kept[0] = <<>>
    BY <1>1, <1>3 DEF Retains
  <2>2. <<>> \in Seq(S) /\ Len(<<>>) = 0
    BY EmptySeq
  <2>3. Distinct(<<>>) /\ ToSet(<<>>) = {}
    <3>1. 1..Len(<<>>) = {}
      BY <2>2
    <3>2. \A x : x \notin ToSet(<<>>)
      BY <2>2, <3>1, SeqToSet
    <3> QED
      BY <3>1, <3>2 DEF Distinct
  <2>4. walked(0) = {}
    OBVIOUS
  <2> QED
    BY <2>1, <2>2, <2>3, <2>4
<1>5. ASSUME NEW n \in T
      PROVE  n + 1 \in T
  <2>0. n \in Nat /\ n + 1 \in Nat
    OBVIOUS
  <2> SUFFICES ASSUME n + 1 \in 0..Len(queue)
               PROVE  good(n + 1)
    BY <2>0
  <2>1. /\ n \in 0..Len(queue) /\ n + 1 \in 1..Len(queue)
        /\ n + 1 - 1 = n /\ n + 1 # 0
    BY <1>3, <2>0
  <2>2. good(n)
    BY <2>1
  <2>3. queue[n + 1] \in S
    BY <1>3, <2>1
  <2>4. kept[n + 1] = IF queue[n + 1] = c THEN kept[n] ELSE Append(kept[n], queue[n + 1])
    BY <1>1, <2>0, <2>1, RetainsNext
  <2>5. walked(n + 1) = walked(n) \union ({queue[n + 1]} \ {c})
    BY <2>0
  <2>6. queue[n + 1] \notin walked(n)
    <3>1. \A i \in 1..n : i \in 1..Len(queue) /\ i # n + 1
      BY <1>3, <2>0, <2>1
    <3> QED
      BY <2>1, <3>1 DEF Distinct
  <2>7. CASE queue[n + 1] = c
    BY <2>2, <2>4, <2>5, <2>7
  <2>8. CASE queue[n + 1] # c
    <3> HIDE DEF walked
    <3>1. /\ Append(kept[n], queue[n + 1]) \in Seq(S)
          /\ Distinct(Append(kept[n], queue[n + 1]))
          /\ ToSet(Append(kept[n], queue[n + 1])) = ToSet(kept[n]) \union {queue[n + 1]}
      BY <2>2, <2>3, <2>6, AppendDistinct
    <3>2. walked(n + 1) = walked(n) \union {queue[n + 1]}
      BY <2>5, <2>8
    <3> QED
      BY <2>2, <2>4, <2>8, <3>1, <3>2
  <2> QED
    BY <2>7, <2>8
<1>6. T = Nat
  <2> HIDE DEF T
  <2>1. T \in SUBSET Nat
    BY DEF T
  <2> QED
    BY <1>4, <1>5, <2>1, NaturalSteps
<1>7. good(Len(queue))
  <2>1. Len(queue) \in 0..Len(queue)
    BY <1>3
  <2>2. Len(queue) \in T
    <3> HIDE DEF T
    <3> QED
      BY <1>3, <1>6
  <2> HIDE DEF good
  <2> QED
    BY <2>1, <2>2
<1>8. walked(Len(queue)) = ToSet(queue) \ {c}
  BY SeqToSet
<1> QED
  BY <1>2, <1>7, <1>8

Schedulers ==
  [active : SUBSET Collections, queued : Seq(Collections), queuedSet : SUBSET Collections,
   dirty : SUBSET Collections]

(* What a scheduler is between two handlers, but for the slots it has free.    *)
Waits(S, limit) ==
  /\ S \in Schedulers
  /\ Distinct(S.queued) /\ S.queuedSet = ToSet(S.queued)
  /\ IsFiniteSet(S.active) /\ Cardinality(S.active) <= limit
  /\ S.active \intersect S.queuedSet = {}
  /\ S.dirty \subseteq S.active

(* And nobody waits beside a free slot.                                       *)
SchedulerFits(S, limit) ==
  Waits(S, limit) /\ (S.queued # <<>> => Cardinality(S.active) = limit)

(* What is kept invariant below is what the runs check.                       *)
LEMMA FitsIsSound ==
  ASSUME NEW S, NEW limit \in Nat, SchedulerFits(S, limit)
  PROVE  SchedulerIsSound(S, limit)
<1>1. S.queued \in Seq(Collections)
  BY DEF SchedulerFits, Waits, Schedulers
<1>2. Len(S.queued) = Cardinality(S.queuedSet)
  BY <1>1, DistinctLength DEF SchedulerFits, Waits
<1> QED
  BY <1>2 DEF SchedulerFits, Waits, SchedulerIsSound

(* start_ready fills the free slots from the front of the queue: afterwards   *)
(* nobody waits beside a free slot.                                           *)
LEMMA StartReadyFits ==
  ASSUME NEW S, NEW limit \in Nat \ {0}, Waits(S, limit)
  PROVE  /\ SchedulerFits(StartReady(S, limit).scheduler, limit)
         /\ StartReady(S, limit).ready \subseteq Collections
         /\ StartReady(S, limit).scheduler.active = S.active \union StartReady(S, limit).ready
<1> DEFINE n == IF Cardinality(S.active) < limit
                THEN Smaller(limit - Cardinality(S.active), Len(S.queued)) ELSE 0
           front == SubSeq(S.queued, 1, n)
           rest == SubSeq(S.queued, n + 1, Len(S.queued))
           T == [S EXCEPT !.active = @ \union ToSet(front), !.queued = rest,
                          !.queuedSet = @ \ ToSet(front)]
<1>1. StartReady(S, limit).scheduler = T /\ StartReady(S, limit).ready = ToSet(front)
  BY DEF StartReady
<1>2. /\ S.queued \in Seq(Collections) /\ Distinct(S.queued)
      /\ S.queuedSet = ToSet(S.queued) /\ S.active \subseteq Collections
      /\ IsFiniteSet(S.active) /\ S.active \intersect S.queuedSet = {}
      /\ S.dirty \subseteq S.active /\ Cardinality(S.active) <= limit
  BY DEF Waits, Schedulers
<1>3. /\ Len(S.queued) \in Nat /\ Cardinality(S.active) \in Nat
      /\ ToSet(S.queued) \subseteq Collections
  BY <1>2, SeqToSet, FS_CardinalityType
<1>4. /\ n \in 0..Len(S.queued)
      /\ Cardinality(S.active) + n <= limit
      /\ Len(S.queued) - n # 0 => Cardinality(S.active) + n = limit
  BY <1>2, <1>3 DEF Smaller
<1> HIDE DEF n
<1>5. /\ front \in Seq(Collections) /\ rest \in Seq(Collections)
      /\ Distinct(front) /\ Distinct(rest)
      /\ Len(front) = n /\ Len(rest) = Len(S.queued) - n
      /\ ToSet(rest) = ToSet(S.queued) \ ToSet(front)
      /\ ToSet(front) \subseteq ToSet(S.queued)
  BY <1>2, <1>4, SplitDistinct
<1> HIDE DEF front, rest
<1>6. /\ T.active = S.active \union ToSet(front) /\ T.queued = rest
      /\ T.queuedSet = S.queuedSet \ ToSet(front) /\ T.dirty = S.dirty
      /\ T \in Schedulers
  <2>1. ToSet(front) \subseteq Collections
    BY <1>3, <1>5
  <2> QED
    BY <1>5, <2>1 DEF Waits, Schedulers
<1> HIDE DEF T
<1>7. IsFiniteSet(ToSet(front)) /\ Cardinality(ToSet(front)) = n
  BY <1>5, DistinctLength
<1>8. S.active \intersect ToSet(front) = {}
  BY <1>2, <1>5
<1>9. IsFiniteSet(T.active) /\ Cardinality(T.active) = Cardinality(S.active) + n
  <2>1. /\ IsFiniteSet(S.active \union ToSet(front))
        /\ Cardinality(S.active \union ToSet(front))
             = Cardinality(S.active) + Cardinality(ToSet(front))
                 - Cardinality(S.active \intersect ToSet(front))
    BY <1>2, <1>7, FS_Union
  <2>2. Cardinality(S.active \intersect ToSet(front)) = 0
    BY <1>8, FS_EmptySet
  <2>3. n \in Nat
    BY <1>3, <1>4
  <2> QED
    BY <1>3, <1>6, <1>7, <2>1, <2>2, <2>3
<1>10. Waits(T, limit)
  <2>1. T.queuedSet = ToSet(T.queued) /\ T.active \intersect T.queuedSet = {}
    BY <1>2, <1>5, <1>6
  <2> QED
    BY <1>2, <1>4, <1>5, <1>6, <1>9, <2>1 DEF Waits
<1>11. T.queued # <<>> => Cardinality(T.active) = limit
  BY <1>4, <1>5, <1>6, <1>9, EmptySeq
<1>12. ToSet(front) \subseteq Collections
  BY <1>3, <1>5
<1> QED
  BY <1>1, <1>6, <1>10, <1>11, <1>12 DEF SchedulerFits

(* Enqueueing keeps the containers of a scheduler in agreement.               *)
LEMMA EnqueueWaits ==
  ASSUME NEW S, NEW limit, Waits(S, limit), NEW c \in Collections, c \notin S.active
  PROVE  Waits(Enqueue(S, c), limit) /\ Enqueue(S, c).active = S.active
<1>1. CASE c \in S.queuedSet
  BY <1>1 DEF Enqueue
<1>2. CASE c \notin S.queuedSet
  <2> DEFINE queue == Append(S.queued, c)
             T == [S EXCEPT !.queued = queue, !.queuedSet = @ \union {c}]
  <2>1. S.queued \in Seq(Collections) /\ Distinct(S.queued) /\ c \notin ToSet(S.queued)
    BY <1>2 DEF Waits, Schedulers
  <2>2. /\ queue \in Seq(Collections) /\ Distinct(queue)
        /\ ToSet(queue) = ToSet(S.queued) \union {c}
    BY <2>1, AppendDistinct
  <2> HIDE DEF queue
  <2>3. /\ T \in Schedulers /\ T.active = S.active /\ T.queued = queue
        /\ T.queuedSet = S.queuedSet \union {c} /\ T.dirty = S.dirty
    BY <2>2 DEF Waits, Schedulers
  <2>4. Enqueue(S, c) = T
    BY <1>2 DEF Enqueue, queue
  <2> HIDE DEF T
  <2>5. Waits(T, limit)
    BY <2>2, <2>3 DEF Waits
  <2> QED
    BY <2>3, <2>4, <2>5
<1> QED
  BY <1>1, <1>2

(* ScanScheduler::request leaves a sound scheduler and activates what it      *)
(* starts.                                                                    *)
LEMMA RequestFits ==
  ASSUME NEW S, NEW limit \in Nat \ {0}, SchedulerFits(S, limit), NEW c \in Collections
  PROVE  LET r == Request(S, c, limit)
         IN  /\ SchedulerFits(r.scheduler, limit)
             /\ r.ready \subseteq Collections
             /\ r.scheduler.active = S.active \union r.ready
<1> DEFINE T == IF c \in S.active THEN [S EXCEPT !.dirty = @ \union {c}] ELSE Enqueue(S, c)
<1>1. Waits(T, limit) /\ T.active = S.active
  <2>1. CASE c \in S.active
    <3> DEFINE D == [S EXCEPT !.dirty = @ \union {c}]
    <3>1. /\ D \in Schedulers /\ D.active = S.active /\ D.queued = S.queued
          /\ D.queuedSet = S.queuedSet /\ D.dirty = S.dirty \union {c}
      BY DEF SchedulerFits, Waits, Schedulers
    <3>2. T = D
      BY <2>1
    <3> HIDE DEF D, T
    <3> QED
      BY <2>1, <3>1, <3>2 DEF SchedulerFits, Waits
  <2>2. CASE c \notin S.active
    BY <2>2, EnqueueWaits DEF SchedulerFits
  <2> QED
    BY <2>1, <2>2
<1>2. Request(S, c, limit) = StartReady(T, limit)
  BY DEF Request
<1> HIDE DEF T
<1> QED
  BY <1>1, <1>2, StartReadyFits

(* Taking a collection out of the active ones keeps them within the limit.    *)
LEMMA FreedSlot ==
  ASSUME NEW S, NEW limit \in Nat, SchedulerFits(S, limit), NEW c
  PROVE  IsFiniteSet(S.active \ {c}) /\ Cardinality(S.active \ {c}) <= limit
<1>1. IsFiniteSet(S.active) /\ Cardinality(S.active) <= limit
  BY DEF SchedulerFits, Waits
<1>2. Cardinality(S.active) \in Nat
  BY <1>1, FS_CardinalityType
<1>3. /\ IsFiniteSet(S.active \ {c})
      /\ Cardinality(S.active \ {c})
           = IF c \in S.active THEN Cardinality(S.active) - 1 ELSE Cardinality(S.active)
  BY <1>1, FS_RemoveElement
<1> QED
  BY <1>1, <1>2, <1>3

(* ScanScheduler::finish leaves a sound scheduler: c is active only if        *)
(* started again.                                                             *)
LEMMA FinishFits ==
  ASSUME NEW S, NEW limit \in Nat \ {0}, SchedulerFits(S, limit), NEW c \in Collections
  PROVE  LET r == Finish(S, c, limit)
         IN  /\ SchedulerFits(r.scheduler, limit)
             /\ r.ready \subseteq Collections
             /\ r.scheduler.active = (S.active \ {c}) \union r.ready
<1> DEFINE freed == [S EXCEPT !.active = @ \ {c}, !.dirty = @ \ {c}]
           T == IF c \in S.dirty THEN Enqueue(freed, c) ELSE freed
<1>1. /\ freed \in Schedulers /\ freed.active = S.active \ {c} /\ freed.queued = S.queued
      /\ freed.queuedSet = S.queuedSet /\ freed.dirty = S.dirty \ {c}
  BY DEF SchedulerFits, Waits, Schedulers
<1>2. Finish(S, c, limit) = StartReady(T, limit)
  BY DEF Finish
<1> HIDE DEF freed
<1>3. IsFiniteSet(freed.active) /\ Cardinality(freed.active) <= limit
  BY <1>1, FreedSlot
<1>4. Waits(freed, limit)
  BY <1>1, <1>3 DEF SchedulerFits, Waits
<1>5. Waits(T, limit) /\ T.active = S.active \ {c}
  BY <1>1, <1>4, EnqueueWaits
<1> HIDE DEF T
<1> QED
  BY <1>2, <1>5, StartReadyFits

(* So does ScanScheduler::cancel.                                             *)
LEMMA CancelFits ==
  ASSUME NEW S, NEW limit \in Nat \ {0}, SchedulerFits(S, limit), NEW c \in Collections
  PROVE  LET r == Cancel(S, c, limit)
         IN  /\ SchedulerFits(r.scheduler, limit)
             /\ r.ready \subseteq Collections
             /\ r.scheduler.active = (S.active \ {c}) \union r.ready
<1> DEFINE queue == Without(S.queued, c)
           T == [S EXCEPT !.active = @ \ {c}, !.dirty = @ \ {c}, !.queuedSet = @ \ {c},
                          !.queued = queue]
<1>1. /\ queue \in Seq(Collections) /\ Distinct(queue)
      /\ ToSet(queue) = ToSet(S.queued) \ {c}
  <2>1. S.queued \in Seq(Collections) /\ Distinct(S.queued)
    BY DEF SchedulerFits, Waits, Schedulers
  <2> QED
    BY <2>1, RetainKeeps
<1>2. Cancel(S, c, limit) = StartReady(T, limit)
  BY DEF Cancel
<1> HIDE DEF queue
<1>3. /\ T \in Schedulers /\ T.active = S.active \ {c} /\ T.queued = queue
      /\ T.queuedSet = S.queuedSet \ {c} /\ T.dirty = S.dirty \ {c}
  BY <1>1 DEF SchedulerFits, Waits, Schedulers
<1> HIDE DEF T
<1>4. IsFiniteSet(T.active) /\ Cardinality(T.active) <= limit
  BY <1>3, FreedSlot
<1>5. Waits(T, limit)
  BY <1>1, <1>3, <1>4 DEF SchedulerFits, Waits
<1> QED
  BY <1>2, <1>3, <1>5, StartReadyFits

(* The futures by collection and stage.                                       *)
Rows == [Collections -> [Stages -> Nat]]
ScanStages == {"scan", "prepare", "scanned", "scanFailed"}
PreflightStages == {"preflight", "checked", "checkFailed"}

(* Every collection of A has a future in one of the stages.                   *)
Carried(A, rows, stages) == \A c \in A : \E stage \in stages : rows[c][stage] > 0

(* Starting futures loses none, and carries the collections they are started  *)
(* for.                                                                       *)
LEMMA SpawnFits ==
  ASSUME NEW rows \in Rows, NEW stage \in Stages, NEW R \in SUBSET Collections
  PROVE  /\ Spawn(rows, stage, R) \in Rows
         /\ \A A \in SUBSET Collections, stages \in SUBSET Stages :
              Carried(A, rows, stages) =>
                /\ Carried(A, Spawn(rows, stage, R), stages)
                /\ stage \in stages => Carried(A \union R, Spawn(rows, stage, R), stages)
<1> DEFINE more == Spawn(rows, stage, R)
<1>1. more \in Rows
  BY DEF Rows, Spawn
<1>2. \A c \in Collections : \A s \in Stages :
        /\ rows[c][s] \in Nat /\ more[c][s] \in Nat /\ more[c][s] >= rows[c][s]
        /\ c \in R => more[c][stage] > 0
  BY DEF Rows, Spawn
<1> HIDE DEF more
<1>3. ASSUME NEW A \in SUBSET Collections, NEW stages \in SUBSET Stages,
             Carried(A, rows, stages)
      PROVE  /\ Carried(A, more, stages)
             /\ stage \in stages => Carried(A \union R, more, stages)
  <2>1. Carried(A, more, stages)
    <3> SUFFICES ASSUME NEW c \in A
                 PROVE  \E s \in stages : more[c][s] > 0
      BY DEF Carried
    <3>1. PICK s \in stages : rows[c][s] > 0
      BY <1>3 DEF Carried
    <3>2. c \in Collections /\ s \in Stages
      OBVIOUS
    <3> QED
      BY <1>2, <3>1, <3>2
  <2> QED
    BY <1>2, <2>1 DEF Carried
<1> QED
  BY <1>1, <1>3 DEF more

(* The future that completed was one of c, in its stage.                      *)
LEMMA DropFits ==
  ASSUME NEW rows \in Rows, NEW c \in Collections, NEW stage \in Stages, rows[c][stage] > 0
  PROVE  /\ Drop(rows, c, stage) \in Rows
         /\ \A A \in SUBSET Collections, stages \in SUBSET Stages :
              Carried(A, rows, stages) /\ (stage \notin stages \/ c \notin A) =>
                Carried(A, Drop(rows, c, stage), stages)
<1> DEFINE fewer == Drop(rows, c, stage)
<1>1. fewer \in Rows
  BY DEF Rows, Drop
<1>2. \A d \in Collections : \A s \in Stages :
        d # c \/ s # stage => fewer[d][s] = rows[d][s]
  BY DEF Rows, Drop
<1> HIDE DEF fewer
<1>3. ASSUME NEW A \in SUBSET Collections, NEW stages \in SUBSET Stages,
             Carried(A, rows, stages), stage \notin stages \/ c \notin A
      PROVE  Carried(A, fewer, stages)
  <2> SUFFICES ASSUME NEW d \in A
               PROVE  \E s \in stages : fewer[d][s] > 0
    BY DEF Carried
  <2>1. PICK s \in stages : rows[d][s] > 0
    BY <1>3 DEF Carried
  <2> QED
    BY <1>2, <1>3, <2>1
<1> QED
  BY <1>1, <1>3 DEF fewer

(* A future that moves on within the stages of a scan still carries its       *)
(* collection.                                                                *)
LEMMA AdvanceFits ==
  ASSUME NEW c \in Collections, NEW from \in Stages, NEW to \in Stages, from # to,
         work \in Rows, Advance(c, from, to)
  PROVE  /\ work' \in Rows
         /\ \A A \in SUBSET Collections, stages \in SUBSET Stages :
              Carried(A, work, stages) /\ (from \in stages => to \in stages) =>
                Carried(A, work', stages)
<1>1. work[c][from] > 0 /\ work[c][from] \in Nat /\ work[c][to] \in Nat
  BY DEF Advance, Running, Rows
<1>2. work' \in Rows
  BY <1>1 DEF Rows, Advance
<1>3. /\ \A d \in Collections : \A s \in Stages :
           d # c \/ s # from => work'[d][s] >= work[d][s]
      /\ work'[c][to] > 0
  BY <1>1 DEF Rows, Advance
<1>4. \A d \in Collections : \A s \in Stages : work[d][s] \in Nat /\ work'[d][s] \in Nat
  BY <1>2 DEF Rows
<1>5. ASSUME NEW A \in SUBSET Collections, NEW stages \in SUBSET Stages,
             Carried(A, work, stages), from \in stages => to \in stages
      PROVE  Carried(A, work', stages)
  <2> SUFFICES ASSUME NEW d \in A
               PROVE  \E s \in stages : work'[d][s] > 0
    BY DEF Carried
  <2>1. PICK s \in stages : work[d][s] > 0
    BY <1>5 DEF Carried
  <2>2. CASE d # c \/ s # from
    BY <1>3, <1>4, <2>1, <2>2
  <2>3. CASE d = c /\ s = from
    BY <1>3, <1>5, <2>3
  <2> QED
    BY <2>2, <2>3
<1> QED
  BY <1>2, <1>5

(* The futures, and who is active in the two schedulers.                      *)
Steady(rows, A, B) ==
  /\ rows \in Rows /\ A \subseteq Collections /\ B \subseteq Collections
  /\ Carried(A, rows, ScanStages) /\ Carried(B, rows, PreflightStages)

(* A stage belongs to a scan, to a preflight, or to neither.                  *)
LEMMA StageKinds ==
  /\ ScanStages \subseteq Stages /\ PreflightStages \subseteq Stages
  /\ ScanStages \intersect PreflightStages = {}
BY DEF ScanStages, PreflightStages, Stages

(* Starting futures, for both schedulers at once.                             *)
LEMMA SteadySpawn ==
  ASSUME NEW rows, NEW A, NEW B, Steady(rows, A, B),
         NEW stage \in Stages, NEW R \in SUBSET Collections
  PROVE  /\ Steady(Spawn(rows, stage, R), A, B)
         /\ stage \in ScanStages => Steady(Spawn(rows, stage, R), A \union R, B)
         /\ stage \in PreflightStages => Steady(Spawn(rows, stage, R), A, B \union R)
BY SpawnFits, StageKinds DEF Steady

(* Taking the completion of a future, for both schedulers at once.            *)
LEMMA SteadyDrop ==
  ASSUME NEW rows, NEW A, NEW B, Steady(rows, A, B),
         NEW c \in Collections, NEW stage \in Stages, rows[c][stage] > 0
  PROVE  /\ stage \in ScanStages => Steady(Drop(rows, c, stage), A \ {c}, B)
         /\ stage \in PreflightStages => Steady(Drop(rows, c, stage), A, B \ {c})
         /\ stage \notin ScanStages \union PreflightStages
              => Steady(Drop(rows, c, stage), A, B)
<1>1. rows \in Rows /\ A \in SUBSET Collections /\ B \in SUBSET Collections
  BY DEF Steady
<1>2. /\ Drop(rows, c, stage) \in Rows
      /\ \A D \in SUBSET Collections, stages \in SUBSET Stages :
           Carried(D, rows, stages) /\ (stage \notin stages \/ c \notin D) =>
             Carried(D, Drop(rows, c, stage), stages)
  BY <1>1, DropFits
<1>3. Carried(A \ {c}, rows, ScanStages) /\ Carried(B \ {c}, rows, PreflightStages)
  BY DEF Steady, Carried
<1> QED
  BY <1>1, <1>2, <1>3, StageKinds DEF Steady

(* A future that moves on, for both schedulers at once.                       *)
LEMMA SteadyAdvance ==
  ASSUME NEW A, NEW B, Steady(work, A, B),
         NEW c \in Collections, NEW from \in Stages, NEW to \in Stages, from # to,
         from \in ScanStages => to \in ScanStages,
         from \in PreflightStages => to \in PreflightStages,
         Advance(c, from, to)
  PROVE  Steady(work', A, B)
<1>1. work \in Rows /\ A \in SUBSET Collections /\ B \in SUBSET Collections
  BY DEF Steady
<1>2. /\ work' \in Rows
      /\ \A D \in SUBSET Collections, stages \in SUBSET Stages :
           Carried(D, work, stages) /\ (from \in stages => to \in stages) =>
             Carried(D, work', stages)
  BY <1>1, AdvanceFits
<1> QED
  BY <1>1, <1>2, StageKinds DEF Steady

(* Both schedulers are sound, and who is active in one has a future of its kind. *)
ScansInv ==
  /\ SchedulerFits(scans, MaxScans)
  /\ SchedulerFits(preflights, MaxPreflights)
  /\ Steady(work, scans.active, preflights.active)

(* request_quarantine starts no scan and ends none.                           *)
LEMMA QuarantineFits ==
  ASSUME NEW rows, NEW A, NEW B, Steady(rows, A, B), NEW c \in Collections,
         RequestQuarantine(rows, c)
  PROVE  Steady(work', A, B)
<1>1. "quarantine" \in Stages /\ {c} \in SUBSET Collections
  BY DEF Stages
<1>2. Steady(Spawn(rows, "quarantine", {c}), A, B)
  BY <1>1, SteadySpawn
<1> QED
  BY <1>2 DEF RequestQuarantine

(* request_scan: what the scheduler activates has its future.                 *)
LEMMA RequestScanFits ==
  ASSUME SchedulerFits(scans, MaxScans), NEW rows, NEW B, Steady(rows, scans.active, B),
         NEW c \in Collections, RequestScan(rows, c)
  PROVE  SchedulerFits(scans', MaxScans) /\ Steady(work', scans'.active, B)
<1> DEFINE r == Request(scans, c, MaxScans)
<1>1. /\ SchedulerFits(r.scheduler, MaxScans) /\ r.ready \subseteq Collections
      /\ r.scheduler.active = scans.active \union r.ready
  BY RequestFits, SlotAssumption
<1>2. scans' = r.scheduler /\ work' = Spawn(rows, "scan", r.ready)
  BY DEF RequestScan
<1>3. "scan" \in Stages /\ "scan" \in ScanStages
  BY DEF Stages, ScanStages
<1> HIDE DEF r
<1>4. Steady(work', scans.active \union r.ready, B)
  BY <1>1, <1>2, <1>3, SteadySpawn
<1> QED
  BY <1>1, <1>2, <1>4

(* Cancelling in both schedulers starts what takes the freed slots.           *)
LEMMA CancelBothFits ==
  ASSUME ScansInv, NEW c \in Collections
  PROVE  LET cancelled == CancelBoth(work, c)
         IN  /\ SchedulerFits(cancelled.scans, MaxScans)
             /\ SchedulerFits(cancelled.preflights, MaxPreflights)
             /\ Steady(cancelled.work, cancelled.scans.active, cancelled.preflights.active)
<1> DEFINE scan == Cancel(scans, c, MaxScans)
           check == Cancel(preflights, c, MaxPreflights)
           rows == Spawn(work, "scan", scan.ready)
<1>1. /\ SchedulerFits(scan.scheduler, MaxScans) /\ scan.ready \subseteq Collections
      /\ scan.scheduler.active = (scans.active \ {c}) \union scan.ready
  BY CancelFits, SlotAssumption DEF ScansInv
<1>2. /\ SchedulerFits(check.scheduler, MaxPreflights) /\ check.ready \subseteq Collections
      /\ check.scheduler.active = (preflights.active \ {c}) \union check.ready
  BY CancelFits, SlotAssumption DEF ScansInv
<1>3. Steady(work, scans.active \ {c}, preflights.active \ {c})
  BY DEF ScansInv, Steady, Carried
<1>4. /\ CancelBoth(work, c).scans = scan.scheduler
      /\ CancelBoth(work, c).preflights = check.scheduler
      /\ CancelBoth(work, c).work = Spawn(rows, "preflight", check.ready)
  BY DEF CancelBoth
<1>5. /\ "scan" \in Stages /\ "scan" \in ScanStages
      /\ "preflight" \in Stages /\ "preflight" \in PreflightStages
  BY DEF Stages, ScanStages, PreflightStages
<1> HIDE DEF scan, check
<1>6. Steady(rows, scan.scheduler.active, preflights.active \ {c})
  <2>1. Steady(rows, (scans.active \ {c}) \union scan.ready, preflights.active \ {c})
    BY <1>1, <1>3, <1>5, SteadySpawn
  <2> QED
    BY <1>1, <2>1, Zenon
<1> HIDE DEF rows
<1>7. Steady(Spawn(rows, "preflight", check.ready), scan.scheduler.active,
             check.scheduler.active)
  <2>1. Steady(Spawn(rows, "preflight", check.ready), scan.scheduler.active,
               (preflights.active \ {c}) \union check.ready)
    BY <1>2, <1>5, <1>6, SteadySpawn
  <2> QED
    BY <1>2, <2>1, Zenon
<1> QED
  BY <1>1, <1>2, <1>4, <1>7

(* The worker starts with empty schedulers.                                   *)
LEMMA ScansStart ==
  ASSUME Init
  PROVE  ScansInv
<1>1. <<>> \in Seq(Collections) /\ Len(<<>>) = 0
  BY EmptySeq
<1>2. 1..Len(<<>>) = {}
  BY <1>1
<1>3. ToSet(<<>>) = {} /\ Distinct(<<>>)
  <2>1. \A x : x \notin ToSet(<<>>)
    BY <1>1, <1>2, SeqToSet
  <2> QED
    BY <1>2, <2>1 DEF Distinct
<1>4. IsFiniteSet({}) /\ Cardinality({}) = 0
  BY FS_EmptySet
<1>5. ASSUME NEW limit \in Nat
      PROVE  SchedulerFits(EmptyScheduler, limit)
  BY <1>1, <1>3, <1>4 DEF SchedulerFits, Waits, Schedulers, EmptyScheduler
<1>6. work \in Rows
  BY DEF Init, Rows
<1>7. scans.active = {} /\ preflights.active = {}
  BY DEF Init, EmptyScheduler
<1>8. Steady(work, scans.active, preflights.active)
  BY <1>6, <1>7 DEF Steady, Carried
<1> QED
  BY <1>5, <1>8, SlotAssumption DEF Init, ScansInv

(* A future that moves on changes no scheduler and stays among its stages.    *)
LEMMA FuturesStep ==
  ASSUME ScansInv, NEW c \in Collections, Futures(c) \/ Failures(c)
  PROVE  ScansInv'
<1> DEFINE A == scans.active
           B == preflights.active
<1>1. scans' = scans /\ preflights' = preflights
  BY DEF Futures, Failures, ScanWalks, Ends, FutureFails, schedulers
<1>2. Steady(work, A, B)
  BY DEF ScansInv
<1>3. PICK from \in Stages, to \in Stages :
        /\ from # to /\ Advance(c, from, to)
        /\ from \in ScanStages => to \in ScanStages
        /\ from \in PreflightStages => to \in PreflightStages
  <2>1. CASE Futures(c)
    BY <2>1 DEF Futures, ScanWalks, Ends, Stages, ScanStages, PreflightStages
  <2>2. CASE Failures(c)
    BY <2>2 DEF Failures, FutureFails, Stages, ScanStages, PreflightStages
  <2> QED
    BY <2>1, <2>2
<1>4. Steady(work', A, B)
  <2> HIDE DEF A, B
  <2> QED
    BY <1>2, <1>3, SteadyAdvance
<1> QED
  BY <1>1, <1>4 DEF ScansInv

(* A watcher event: a scan, or a preflight beside it.                         *)
LEMMA HandleChangedStep ==
  ASSUME ScansInv, NEW c \in Collections, HandleChanged(c)
  PROVE  ScansInv'
<1> DEFINE scan == Request(scans, c, MaxScans)
           check == Request(preflights, c, MaxPreflights)
           rows == Spawn(work, "scan", scan.ready)
<1>1. CASE c \notin watchers
  BY <1>1 DEF ScansInv, HandleChanged, schedulers
<1>2. CASE c \in watchers
  <2>1. /\ SchedulerFits(scan.scheduler, MaxScans) /\ scan.ready \subseteq Collections
        /\ scan.scheduler.active = scans.active \union scan.ready
    BY RequestFits, SlotAssumption DEF ScansInv
  <2>2. /\ SchedulerFits(check.scheduler, MaxPreflights) /\ check.ready \subseteq Collections
        /\ check.scheduler.active = preflights.active \union check.ready
    BY RequestFits, SlotAssumption DEF ScansInv
  <2>3. /\ "scan" \in Stages /\ "scan" \in ScanStages
        /\ "preflight" \in Stages /\ "preflight" \in PreflightStages
    BY DEF Stages, ScanStages, PreflightStages
  <2>4. Steady(work, scans.active, preflights.active)
    BY DEF ScansInv
  <2>5. /\ scans' = scan.scheduler
        /\ IF c \in scan.ready THEN work' = rows /\ preflights' = preflights
           ELSE preflights' = check.scheduler /\ work' = Spawn(rows, "preflight", check.ready)
    BY <1>2 DEF HandleChanged
  <2> HIDE DEF scan, check
  <2>6. Steady(rows, scan.scheduler.active, preflights.active)
    <3>1. Steady(rows, scans.active \union scan.ready, preflights.active)
      BY <2>1, <2>3, <2>4, SteadySpawn
    <3> QED
      BY <2>1, <3>1, Zenon
  <2> HIDE DEF rows
  <2>7. Steady(Spawn(rows, "preflight", check.ready), scan.scheduler.active,
               check.scheduler.active)
    <3>1. Steady(Spawn(rows, "preflight", check.ready), scan.scheduler.active,
                 preflights.active \union check.ready)
      BY <2>2, <2>3, <2>6, SteadySpawn
    <3> QED
      BY <2>2, <3>1, Zenon
  <2>8. CASE c \in scan.ready
    BY <2>1, <2>5, <2>6, <2>8 DEF ScansInv
  <2>9. CASE c \notin scan.ready
    BY <2>1, <2>2, <2>5, <2>7, <2>9 DEF ScansInv
  <2> QED
    BY <2>8, <2>9
<1> QED
  BY <1>1, <1>2

(* A watcher that stopped: both cancelled, and a quarantine.                  *)
LEMMA HandleFailedStep ==
  ASSUME ScansInv, NEW c \in Collections, HandleFailed(c)
  PROVE  ScansInv'
<1> DEFINE cancelled == CancelBoth(work, c)
<1>1. /\ SchedulerFits(cancelled.scans, MaxScans)
      /\ SchedulerFits(cancelled.preflights, MaxPreflights)
      /\ Steady(cancelled.work, cancelled.scans.active, cancelled.preflights.active)
  BY CancelBothFits
<1>2. /\ scans' = cancelled.scans /\ preflights' = cancelled.preflights
      /\ RequestQuarantine(cancelled.work, c)
  BY DEF HandleFailed
<1> HIDE DEF cancelled
<1>3. Steady(work', cancelled.scans.active, cancelled.preflights.active)
  BY <1>1, <1>2, QuarantineFits
<1> QED
  BY <1>1, <1>2, <1>3 DEF ScansInv

(* A relink: both cancelled, and the relink itself.                           *)
LEMMA RelinkStep ==
  ASSUME ScansInv, NEW c \in Collections, RelinkCollection(c)
  PROVE  ScansInv'
<1> DEFINE cancelled == CancelBoth(work, c)
<1>1. /\ SchedulerFits(cancelled.scans, MaxScans)
      /\ SchedulerFits(cancelled.preflights, MaxPreflights)
      /\ Steady(cancelled.work, cancelled.scans.active, cancelled.preflights.active)
  BY CancelBothFits
<1>2. /\ scans' = cancelled.scans /\ preflights' = cancelled.preflights
      /\ work' = Spawn(cancelled.work, "relink", {c})
  BY DEF RelinkCollection
<1>3. "relink" \in Stages /\ {c} \in SUBSET Collections
  BY DEF Stages
<1> HIDE DEF cancelled
<1>4. Steady(work', cancelled.scans.active, cancelled.preflights.active)
  BY <1>1, <1>2, <1>3, SteadySpawn
<1> QED
  BY <1>1, <1>2, <1>4 DEF ScansInv

(* A relink that ended: a first scan of the new folder, or nothing.           *)
LEMMA RelinkEndsStep ==
  ASSUME ScansInv, NEW c \in Collections, RelinkEnds(c)
  PROVE  ScansInv'
<1> DEFINE B == preflights.active
<1>1. Steady(work, scans.active, B) /\ SchedulerFits(scans, MaxScans)
  BY DEF ScansInv
<1>2. preflights' = preflights /\ SchedulerFits(preflights, MaxPreflights)
  BY DEF ScansInv, RelinkEnds
<1>3. PICK stage \in {"relinked", "relinkFailed"} :
        /\ work[c][stage] > 0
        /\ \/ RequestScan(Drop(work, c, stage), c)
           \/ work' = Drop(work, c, stage) /\ scans' = scans
  BY DEF RelinkEnds, Running
<1>4. stage \in Stages /\ stage \notin ScanStages \union PreflightStages
  BY DEF Stages, ScanStages, PreflightStages
<1> DEFINE rows == Drop(work, c, stage)
<1>5. Steady(rows, scans.active, B)
  <2> HIDE DEF B
  <2> QED
    BY <1>1, <1>3, <1>4, SteadyDrop
<1> HIDE DEF rows, B
<1>6. SchedulerFits(scans', MaxScans) /\ Steady(work', scans'.active, B)
  BY <1>1, <1>3, <1>5, RequestScanFits DEF rows
<1> QED
  BY <1>2, <1>6 DEF ScansInv, B

(* A preflight that ended: its slot goes on, one more scan, perhaps a         *)
(* quarantine.                                                                *)
LEMMA PreflightEndsStep ==
  ASSUME ScansInv, NEW c \in Collections, NEW stage \in {"checked", "checkFailed"},
         PreflightEnds(c, stage)
  PROVE  ScansInv'
<1> DEFINE rows == Drop(work, c, stage)
           scan == Request(scans, c, MaxScans)
           check == Finish(preflights, c, MaxPreflights)
           scanned == IF c \in watchers THEN Spawn(rows, "scan", scan.ready) ELSE rows
           checked == Spawn(scanned, "preflight", check.ready)
           B == preflights.active \ {c}
<1>1. /\ SchedulerFits(scan.scheduler, MaxScans) /\ scan.ready \subseteq Collections
      /\ scan.scheduler.active = scans.active \union scan.ready
  BY RequestFits, SlotAssumption DEF ScansInv
<1>2. /\ SchedulerFits(check.scheduler, MaxPreflights) /\ check.ready \subseteq Collections
      /\ check.scheduler.active = B \union check.ready
  BY FinishFits, SlotAssumption DEF ScansInv
<1>3. /\ preflights' = check.scheduler
      /\ scans' = IF c \in watchers THEN scan.scheduler ELSE scans
      /\ \E R \in SUBSET Collections : work' = Spawn(checked, "quarantine", R)
  BY DEF PreflightEnds
<1>4. /\ stage \in Stages /\ stage \in PreflightStages
      /\ {"scan", "preflight", "quarantine"} \subseteq Stages
      /\ "scan" \in ScanStages /\ "preflight" \in PreflightStages
  BY DEF Stages, ScanStages, PreflightStages
<1>5. Steady(rows, scans.active, B)
  BY <1>4, SteadyDrop DEF ScansInv, PreflightEnds, Running
<1> HIDE DEF rows, scan, check, B
<1>6. Steady(scanned, scans'.active, B) /\ SchedulerFits(scans', MaxScans)
  <2>1. CASE c \in watchers
    <3>1. Steady(scanned, scans.active \union scan.ready, B)
      BY <1>1, <1>4, <1>5, <2>1, SteadySpawn
    <3> QED
      BY <1>1, <1>3, <2>1, <3>1
  <2>2. CASE c \notin watchers
    BY <1>3, <1>5, <2>2 DEF ScansInv
  <2> QED
    BY <2>1, <2>2
<1> HIDE DEF scanned
<1>7. Steady(checked, scans'.active, check.scheduler.active)
  <2>1. Steady(checked, scans'.active, B \union check.ready)
    BY <1>2, <1>4, <1>6, SteadySpawn
  <2> QED
    BY <1>2, <2>1, Zenon
<1> HIDE DEF checked
<1>8. Steady(work', scans'.active, check.scheduler.active)
  <2>1. PICK R \in SUBSET Collections : work' = Spawn(checked, "quarantine", R)
    BY <1>3
  <2>2. Steady(Spawn(checked, "quarantine", R), scans'.active, check.scheduler.active)
    BY <1>4, <1>7, SteadySpawn
  <2> QED
    BY <2>1, <2>2
<1> QED
  BY <1>2, <1>3, <1>6, <1>8 DEF ScansInv

(* A scan that ended: its slot goes on, perhaps to its own follow-up.         *)
LEMMA ScanEndsStep ==
  ASSUME ScansInv, NEW c \in Collections, NEW stage \in {"scanned", "scanFailed"},
         ScanEnds(c, stage)
  PROVE  ScansInv'
<1> DEFINE next == Finish(scans, c, MaxScans)
           dropped == Drop(work, c, stage)
           rows == Spawn(dropped, "scan", next.ready)
           A == scans.active \ {c}
           B == preflights.active
<1>1. /\ SchedulerFits(next.scheduler, MaxScans) /\ next.ready \subseteq Collections
      /\ next.scheduler.active = A \union next.ready
  BY FinishFits, SlotAssumption DEF ScansInv
<1>2. /\ scans' = next.scheduler /\ preflights' = preflights
      /\ RequestQuarantine(rows, c) \/ work' = rows
  BY DEF ScanEnds
<1>3. /\ stage \in Stages /\ stage \in ScanStages
      /\ "scan" \in Stages /\ "scan" \in ScanStages
  BY DEF Stages, ScanStages
<1>4. Steady(dropped, A, B)
  BY <1>3, SteadyDrop DEF ScansInv, ScanEnds, Running
<1> HIDE DEF next, dropped, A
<1>5. Steady(rows, next.scheduler.active, B)
  <2> HIDE DEF B
  <2>1. Steady(rows, A \union next.ready, B)
    BY <1>1, <1>3, <1>4, SteadySpawn
  <2> QED
    BY <1>1, <2>1, Zenon
<1> HIDE DEF rows
<1>6. Steady(work', next.scheduler.active, B)
  <2> HIDE DEF B
  <2> QED
    BY <1>2, <1>5, QuarantineFits
<1> QED
  BY <1>1, <1>2, <1>6 DEF ScansInv

(* The completion of a quarantine concerns no slot.                           *)
LEMMA QuarantineEndsStep ==
  ASSUME ScansInv, NEW c \in Collections, QuarantineEnds(c)
  PROVE  ScansInv'
<1> DEFINE A == scans.active
           B == preflights.active
<1>1. PICK stage \in {"withdrawn", "withdrawFailed"} :
        work[c][stage] > 0 /\ work' = Drop(work, c, stage)
  BY DEF QuarantineEnds, Running
<1>2. stage \in Stages /\ stage \notin ScanStages \union PreflightStages
  BY DEF Stages, ScanStages, PreflightStages
<1>3. Steady(work, A, B)
  BY DEF ScansInv
<1>4. Steady(work', A, B)
  <2> HIDE DEF A, B
  <2> QED
    BY <1>1, <1>2, <1>3, SteadyDrop
<1> QED
  BY <1>4 DEF ScansInv, QuarantineEnds, schedulers

(* The two timers and the manual update request a scan, or a quarantine.      *)
LEMMA RequestsStep ==
  ASSUME ScansInv, NEW c \in Collections,
         RetryWatcher(c) \/ PeriodicScan(c) \/ RescanCollection(c)
  PROVE  ScansInv'
<1> DEFINE B == preflights.active
<1>1. /\ SchedulerFits(scans, MaxScans) /\ SchedulerFits(preflights, MaxPreflights)
      /\ Steady(work, scans.active, B)
  BY DEF ScansInv
<1>2. preflights' = preflights
  BY DEF RetryWatcher, PeriodicScan, RescanCollection
<1>3. RequestScan(work, c) \/ (RequestQuarantine(work, c) /\ scans' = scans)
  BY DEF RetryWatcher, PeriodicScan, RescanCollection
<1> HIDE DEF B
<1>4. SchedulerFits(scans', MaxScans) /\ Steady(work', scans'.active, B)
  BY <1>1, <1>3, RequestScanFits, QuarantineFits
<1> QED
  BY <1>1, <1>2, <1>4 DEF ScansInv, B

(* Every step of the loop and of the futures keeps the invariant.             *)
LEMMA ScansStep ==
  ASSUME ScansInv, [Next]_vars
  PROVE  ScansInv'
<1>1. CASE UNCHANGED vars
  BY <1>1 DEF ScansInv, vars, schedulers
<1>2. ASSUME NEW c \in Collections,
             \/ Futures(c) \/ Failures(c) \/ Handlers(c)
             \/ RetryWatcher(c) \/ PeriodicScan(c)
             \/ RescanCollection(c) \/ RelinkCollection(c)
             \/ ChangeFolder(c) \/ BreakWatcher(c)
      PROVE  ScansInv'
  <2>1. CASE Futures(c) \/ Failures(c)
    BY <2>1, FuturesStep
  <2>2. CASE Handlers(c)
    BY <2>2, HandleChangedStep, HandleFailedStep, RelinkEndsStep, PreflightEndsStep,
       ScanEndsStep, QuarantineEndsStep DEF Handlers
  <2>3. CASE RetryWatcher(c) \/ PeriodicScan(c) \/ RescanCollection(c)
    BY <2>3, RequestsStep
  <2>4. CASE RelinkCollection(c)
    BY <2>4, RelinkStep
  <2>5. CASE ChangeFolder(c) \/ BreakWatcher(c)
    BY <2>5 DEF ScansInv, ChangeFolder, BreakWatcher, schedulers
  <2> QED
    BY <1>2, <2>1, <2>2, <2>3, <2>4, <2>5
<1> QED
  BY <1>1, <1>2 DEF Next

(* The invariant holds of every execution, for every set of collections,      *)
(* finite or not, and all limits.                                             *)
THEOREM ScansInvariance == Spec => []ScansInv
<1>1. Init => ScansInv
  BY ScansStart
<1>2. ScansInv /\ [Next]_vars => ScansInv'
  BY ScansStep
<1> QED
  BY <1>1, <1>2, PTL DEF Spec

(* The four containers of both ScanScheduler values agree at every step of    *)
(* the loop: nobody waits twice, beside a free slot or while active, the      *)
(* slots are never exceeded, and a follow-up is owed by active collections    *)
(* only (worker.rs, request, finish, cancel and start_ready).                 *)
THEOREM SchedulersAreAlwaysSound == Spec => []SchedulersAreSound
<1>1. ScansInv => SchedulersAreSound
  BY FitsIsSound, SlotAssumption DEF ScansInv, SchedulersAreSound
<1> QED
  BY <1>1, ScansInvariance, PTL

(* Every active collection has a future whose completion frees its slot,      *)
(* through every cancellation, relink, failure and lost watcher: no slot of   *)
(* the worker leaks.                                                          *)
THEOREM SlotsAreAlwaysReturned == Spec => []SlotsAreReturned
<1>1. ScansInv => SlotsAreReturned
  BY DEF ScansInv, Steady, Carried, ScanStages, PreflightStages, SlotsAreReturned, Running
<1> QED
  BY <1>1, ScansInvariance, PTL

================================================================================

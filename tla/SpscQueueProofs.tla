--------------------------- MODULE SpscQueueProofs ---------------------------
(***************************************************************************)
(* Proofs about SpscQueue for every capacity and any number of pushes.     *)
(***************************************************************************)
EXTENDS SpscQueue, SequenceTheorems, TLAPS

(* Quotient and remainder of a masked index. *)
LEMMA DivMod ==
  ASSUME NEW N \in Nat \ {0}, NEW a \in Int
  PROVE  /\ a % N \in 0 .. N - 1 /\ a \div N \in Int
         /\ a = N * (a \div N) + (a % N)
OBVIOUS

(* A multiple of N strictly inside (-N, N) is zero. *)
LEMMA SmallMultiple ==
  ASSUME NEW N \in Nat \ {0}, NEW q \in Int, NEW d \in Int, d = N * q, -N < d, d < N
  PROVE  q = 0
OBVIOUS

(* Counts less than a lap apart share an index only if they are equal: this   *)
(* is what lets one comparison tell full from empty (spsc_queue.hpp:64, 77).  *)
LEMMA IndexUnique ==
  ASSUME NEW N \in Nat \ {0}, NEW a \in Int, NEW b \in Int,
         -N < a - b, a - b < N, a % N = b % N
  PROVE  a = b
<1> DEFINE q == a \div N
           r == b \div N
<1>1. /\ q \in Int /\ r \in Int /\ a % N \in Int
      /\ a = N * q + (a % N) /\ b = N * r + (b % N)
  BY DivMod
<1> HIDE DEF q, r
<1>2. a - b = N * (q - r)
  BY <1>1
<1>3. q - r = 0
  BY <1>1, <1>2, SmallMultiple
<1> QED BY <1>1, <1>2, <1>3

(* A number is its own remainder plus a multiple: the remainder is unique. *)
LEMMA ModUnique ==
  ASSUME NEW N \in Nat \ {0}, NEW x \in Int, NEW r \in 0 .. N - 1, NEW q \in Int,
         x = N * q + r
  PROVE  x % N = r
<1> DEFINE d == x \div N
           m == x % N
<1>1. m \in 0 .. N - 1 /\ d \in Int /\ x = N * d + m
  BY DivMod
<1> HIDE DEF d, m
<1>2. m - r = N * (q - d)
  BY <1>1
<1>3. q - d = 0
  BY <1>1, <1>2, SmallMultiple
<1>4. m = r
  BY <1>1, <1>2, <1>3
<1> QED BY <1>4 DEF m

(* The masked increment of a stored index is the index of the next store. *)
LEMMA NextStored ==
  ASSUME NEW a \in Nat
  PROVE  Stored(a) \in Slot /\ next(Stored(a)) = Stored(a + 1)
<1> DEFINE N == Capacity
           r == a % N
           q == a \div N
<1>1. N \in Nat \ {0} /\ N >= 2
  BY QueueAssumption
<1>2. r \in 0 .. N - 1 /\ q \in Int /\ a = N * q + r
  BY <1>1, DivMod
<1> HIDE DEF r, q
<1>3. CASE r = N - 1
  <2>1. a + 1 = N * (q + 1) + 0 /\ r + 1 = N * 1 + 0
    BY <1>1, <1>2, <1>3
  <2>2. (a + 1) % N = 0
    BY <1>1, <1>2, <2>1, ModUnique
  <2>3. (r + 1) % N = 0
    BY <1>1, <1>2, <2>1, ModUnique
  <2> QED BY <1>2, <2>2, <2>3 DEF next, Stored, Slot, r
<1>4. CASE r # N - 1
  <2>1. r + 1 \in 0 .. N - 1 /\ a + 1 = N * q + (r + 1) /\ r + 1 = N * 0 + (r + 1)
    BY <1>1, <1>2, <1>4
  <2>2. (a + 1) % N = r + 1
    BY <1>1, <1>2, <2>1, ModUnique
  <2>3. (r + 1) % N = r + 1
    BY <1>1, <1>2, <2>1, ModUnique
  <2> QED BY <1>2, <2>2, <2>3 DEF next, Stored, Slot, r
<1> QED BY <1>3, <1>4

(* There is at least one place besides the one kept free. *)
LEMMA CapacityFacts == Capacity \in Nat \ {0} /\ Capacity >= 2
BY QueueAssumption

(* Counts less than a lap apart are stored as the same index only if equal. *)
LEMMA StoredUnique ==
  ASSUME NEW a \in Nat, NEW b \in Nat, -Capacity < a - b, a - b < Capacity,
         Stored(a) = Stored(b)
  PROVE  a = b
<1> DEFINE N == Capacity
<1>1. N \in Nat \ {0} /\ a \in Int /\ b \in Int
  BY CapacityFacts
<1>2. a % N = b % N
  BY DEF Stored, Slot
<1>3. -N < a - b /\ a - b < N
  OBVIOUS
<1> HIDE DEF N
<1> QED BY <1>1, <1>2, <1>3, IndexUnique

(* A count and the one a whole lap later are stored as the same index. *)
LEMMA StoredLap ==
  ASSUME NEW c \in Nat
  PROVE  Stored(c + Capacity) = Stored(c)
<1> DEFINE N == Capacity
           k == c % N
           q == c \div N
<1>1. N \in Nat \ {0}
  BY CapacityFacts
<1>2. k \in 0 .. N - 1 /\ q \in Int /\ c = N * q + k
  BY <1>1, DivMod
<1> HIDE DEF k, q
<1>3. c + N \in Int /\ q + 1 \in Int /\ c + N = N * (q + 1) + k
  BY <1>1, <1>2
<1> HIDE DEF N
<1>4. (c + N) % N = k
  BY <1>1, <1>2, <1>3, ModUnique
<1> QED BY <1>4 DEF Stored, k, N

------------------------------------------------------------------------------
(* The inductive invariant.  Indices are the masked counts; what a thread saw *)
(* of the other bounds what it does next: the producer has seen all but       *)
(* Capacity - 1 of its values popped, and all but Capacity - 2 of them once   *)
(* it found room; the consumer takes only what it saw pushed; the slots       *)
(* between the counts hold the values pushed there.                           *)
Counts ==
  /\ head = Stored(pushes) /\ tail = Stored(pops)
  /\ tailSeen <= pops /\ pops <= headSeen /\ headSeen <= pushes
  /\ pushes - tailSeen <= Capacity - 1

ProducerPlace ==
  /\ ppc # "idle" => phead = head /\ pushes < MaxPush
  /\ ppc \in {"write", "publish"} => pushes - tailSeen <= Capacity - 2
  /\ ppc = "publish" => slots[phead] = pushes

ConsumerPlace ==
  /\ cpc # "idle" => ctail = tail
  /\ cpc \in {"read", "release"} => pops < headSeen
  /\ cpc = "release" => out = pops

Contents == \A i \in pops .. pushes - 1 : slots[Stored(i)] = i

QueueInv == TypeOK /\ Counts /\ ProducerPlace /\ ConsumerPlace /\ Contents

(* The empty ring satisfies the invariant. *)
LEMMA QueueInit == Init => QueueInv
<1> SUFFICES ASSUME Init PROVE QueueInv
  OBVIOUS
<1>1. Stored(0) = 0 /\ 0 \in Slot /\ Capacity \in Nat /\ Capacity >= 2
  <2>1. 0 = Capacity * 0 + 0 /\ 0 \in 0 .. Capacity - 1 /\ Capacity \in Nat \ {0}
    BY QueueAssumption
  <2>2. 0 % Capacity = 0
    BY <2>1, ModUnique
  <2> QED BY <2>1, <2>2, QueueAssumption DEF Stored, Slot
<1>2. TypeOK
  BY <1>1 DEF Init, TypeOK, Unset
<1>3. Counts /\ ProducerPlace /\ ConsumerPlace /\ Contents
  BY <1>1 DEF Init, Counts, ProducerPlace, ConsumerPlace, Contents
<1> QED BY <1>2, <1>3 DEF QueueInv

(* Every access of either thread preserves the invariant. *)
LEMMA QueueNext == QueueInv /\ [Next]_vars => QueueInv'
<1> SUFFICES ASSUME QueueInv, [Next]_vars PROVE QueueInv'
  OBVIOUS
<1> USE DEF QueueInv
<1>1. Capacity \in Nat \ {0} /\ Capacity >= 2
  BY QueueAssumption
<1>2. CASE PushBegin
  BY <1>2 DEF PushBegin, TypeOK, Counts, ProducerPlace, ConsumerPlace, Contents, consumer
<1>3. CASE PushFull
  <2>1. PICK c \in tailSeen .. pops : tailSeen' = c
    BY <1>3 DEF PushFull
  <2>2. c \in Nat /\ tailSeen <= c /\ c <= pops
    BY DEF TypeOK
  <2> QED BY <1>1, <1>3, <2>1, <2>2
       DEF PushFull, TypeOK, Counts, ProducerPlace, ConsumerPlace, Contents, consumer
<1>4. CASE PushRoom
  <2>1. PICK c \in tailSeen .. pops : ~IsFull(c) /\ tailSeen' = c
    BY <1>4 DEF PushRoom
  <2>2. c \in Nat /\ tailSeen <= c /\ c <= pops /\ pushes \in Nat /\ pops <= pushes
    BY DEF TypeOK, Counts
  <2>3. next(phead) = Stored(pushes + 1)
    BY <1>4, <2>2, NextStored DEF PushRoom, ProducerPlace, Counts
  <2>4. pushes - c <= Capacity - 1 /\ pushes - c >= 0
    BY <1>1, <2>2 DEF Counts, TypeOK
  <2>5. pushes - c # Capacity - 1
    <3> SUFFICES ASSUME pushes - c = Capacity - 1 PROVE FALSE
      OBVIOUS
    <3>1. pushes + 1 = c + Capacity
      BY <1>1, <2>2
    <3>2. Stored(pushes + 1) = Stored(c)
      BY <2>2, <3>1, StoredLap
    <3> QED BY <2>1, <2>3, <3>2 DEF IsFull
  <2>6. pushes - c <= Capacity - 2
    BY <1>1, <2>2, <2>4, <2>5
  <2> QED BY <1>1, <1>4, <2>1, <2>2, <2>4, <2>6
       DEF PushRoom, TypeOK, Counts, ProducerPlace, ConsumerPlace, Contents, consumer
<1>5. CASE PushWrite
  <2>1. /\ ppc = "write" /\ phead = Stored(pushes) /\ phead \in Slot
        /\ pushes - tailSeen <= Capacity - 2 /\ tailSeen <= pops
    BY <1>5 DEF PushWrite, ProducerPlace, Counts, TypeOK
  <2>2. slots' \in [Slot -> Int] /\ slots'[phead] = pushes
    BY <1>5, <2>1 DEF PushWrite, TypeOK
  <2>3. ASSUME NEW i \in pops .. pushes - 1 PROVE slots'[Stored(i)] = i
    <3>1. i \in Nat /\ pushes \in Nat /\ pushes - i > 0 /\ pushes - i < Capacity
      BY <1>1, <2>1 DEF TypeOK
    <3>2. Stored(i) # phead
      <4>1. ASSUME Stored(i) = Stored(pushes) PROVE FALSE
        <5>1. -Capacity < i - pushes /\ i - pushes < Capacity
          BY <1>1, <3>1
        <5>2. i = pushes
          BY <3>1, <4>1, <5>1, StoredUnique
        <5> QED BY <3>1, <5>2
      <4> QED BY <2>1, <4>1
    <3>3. Stored(i) \in Slot
      BY <3>1, NextStored
    <3> QED BY <1>5, <3>2, <3>3 DEF PushWrite, Contents, TypeOK
  <2>4. Contents'
    BY <1>5, <2>3 DEF PushWrite, Contents
  <2> QED BY <1>5, <2>1, <2>2, <2>4
       DEF PushWrite, TypeOK, Counts, ProducerPlace, ConsumerPlace, consumer
<1>6. CASE PushPublish
  <2>1. /\ phead = Stored(pushes) /\ slots[phead] = pushes /\ pushes \in Nat
        /\ pushes - tailSeen <= Capacity - 2
    BY <1>6 DEF PushPublish, ProducerPlace, Counts, TypeOK
  <2>2. head' = Stored(pushes') /\ head' \in Slot
    BY <1>6, <2>1, NextStored DEF PushPublish
  <2>3. pushes' = pushes + 1 /\ UNCHANGED <<slots, pops, tailSeen, headSeen, tail, ctail, cpc, out, phead>>
    BY <1>6 DEF PushPublish, consumer
  <2>4. Contents'
    <3> SUFFICES ASSUME NEW i \in pops .. pushes PROVE slots[Stored(i)] = i
      BY <2>1, <2>3 DEF Contents
    <3>1. i = pushes \/ i \in pops .. pushes - 1
      BY <2>1 DEF TypeOK
    <3> QED BY <2>1, <3>1 DEF Contents
  <2>5. Counts'
    BY <1>1, <2>1, <2>2, <2>3 DEF Counts, TypeOK
  <2> QED BY <1>6, <2>1, <2>2, <2>3, <2>4, <2>5
       DEF PushPublish, TypeOK, ProducerPlace, ConsumerPlace
<1>7. CASE PopBegin
  BY <1>7 DEF PopBegin, TypeOK, Counts, ProducerPlace, ConsumerPlace, Contents, producer
<1>8. CASE PopEmpty
  <2>1. PICK h \in headSeen .. pushes : headSeen' = h
    BY <1>8 DEF PopEmpty
  <2>2. h \in Nat /\ headSeen <= h /\ h <= pushes
    BY DEF TypeOK
  <2> QED BY <1>8, <2>1, <2>2
       DEF PopEmpty, TypeOK, Counts, ProducerPlace, ConsumerPlace, Contents, producer
<1>9. CASE PopItem
  <2>1. PICK h \in headSeen .. pushes : ~IsEmpty(h) /\ headSeen' = h
    BY <1>9 DEF PopItem
  <2>2. h \in Nat /\ headSeen <= h /\ h <= pushes /\ pops <= h
    BY DEF TypeOK, Counts
  <2>3. h # pops
    BY <1>9, <2>1 DEF PopItem, IsEmpty, ConsumerPlace, Counts
  <2>4. pops < h
    BY <2>2, <2>3 DEF TypeOK
  <2> QED BY <1>9, <2>1, <2>2, <2>4
       DEF PopItem, TypeOK, Counts, ProducerPlace, ConsumerPlace, Contents, producer
<1>10. CASE PopRead
  <2>1. /\ ctail = Stored(pops) /\ pops < headSeen /\ headSeen <= pushes
        /\ ctail \in Slot
    BY <1>10 DEF PopRead, ConsumerPlace, Counts, TypeOK
  <2>2. pops \in pops .. pushes - 1
    BY <2>1 DEF TypeOK
  <2>3. out' = pops
    BY <1>10, <2>1, <2>2 DEF PopRead, Contents
  <2> QED BY <1>10, <2>1, <2>3
       DEF PopRead, TypeOK, Counts, ProducerPlace, ConsumerPlace, Contents, producer
<1>11. CASE PopRelease
  <2>1. ctail = Stored(pops) /\ pops \in Nat /\ pops < headSeen
    BY <1>11 DEF PopRelease, ConsumerPlace, Counts, TypeOK
  <2>2. tail' = Stored(pops') /\ tail' \in Slot
    BY <1>11, <2>1, NextStored DEF PopRelease
  <2>3. pops' = pops + 1 /\ UNCHANGED <<slots, pushes, tailSeen, headSeen, head, phead, ppc, out, ctail>>
    BY <1>11 DEF PopRelease, producer
  <2>4. Contents'
    BY <2>1, <2>3 DEF Contents, TypeOK
  <2>5. Counts'
    BY <2>1, <2>2, <2>3 DEF Counts, TypeOK
  <2> QED BY <1>11, <2>1, <2>2, <2>3, <2>4, <2>5
       DEF PopRelease, TypeOK, ProducerPlace, ConsumerPlace
<1>12. CASE UNCHANGED vars
  BY <1>12 DEF vars, producer, consumer, TypeOK, Counts, ProducerPlace, ConsumerPlace, Contents
<1> QED BY <1>2, <1>3, <1>4, <1>5, <1>6, <1>7, <1>8, <1>9, <1>10, <1>11, <1>12 DEF Next

(* The invariant holds in every execution. *)
THEOREM QueueInvariant == Spec => []QueueInv
BY QueueInit, QueueNext, PTL DEF Spec

(* The write and the read of a slot never overlap, for any capacity and any  *)
(* staleness of the indices read (spsc_queue.hpp:67, 80).                    *)
THEOREM RaceFree == Spec => []NoSlotRace
<1>1. QueueInv => NoSlotRace
  <2> SUFFICES ASSUME QueueInv, ppc = "write", cpc = "read", phead = ctail PROVE FALSE
    BY DEF NoSlotRace
  <2>1. /\ phead = Stored(pushes) /\ ctail = Stored(pops)
        /\ pushes - tailSeen <= Capacity - 2 /\ tailSeen <= pops
        /\ pops < headSeen /\ headSeen <= pushes
    BY DEF QueueInv, ProducerPlace, ConsumerPlace, Counts
  <2>2. pushes \in Nat /\ pops \in Nat /\ tailSeen \in Nat /\ headSeen \in Nat
    BY DEF QueueInv, TypeOK
  <2>3. /\ pushes - pops > 0 /\ pushes - pops < Capacity
        /\ -Capacity < pushes - pops
    BY <2>1, <2>2, CapacityFacts
  <2>4. pushes = pops
    BY <2>1, <2>2, <2>3, StoredUnique
  <2> QED BY <2>2, <2>3, <2>4
<1> QED BY <1>1, QueueInvariant, PTL

(* Pops deliver the values pushed, in order, each exactly once.              *)
THEOREM DeliversInOrder == Spec => []PopsInOrder
<1>1. QueueInv => PopsInOrder
  BY DEF QueueInv, ConsumerPlace, PopsInOrder
<1> QED BY <1>1, QueueInvariant, PTL

(* The occupancy computed from the two wrapped indices is the number of     *)
(* values inside, and one slot always stays free (spsc_queue.hpp:87-91).     *)
THEOREM SizeIsExact == Spec => []OccupancyExact
<1>1. QueueInv => OccupancyExact
  <2> SUFFICES ASSUME QueueInv PROVE OccupancyExact
    OBVIOUS
  <2> DEFINE N == Capacity
             a == pushes \div N
             b == pops \div N
             d == pushes - pops
  <2>1. N \in Nat \ {0} /\ pushes \in Int /\ pops \in Int
    BY CapacityFacts DEF QueueInv, TypeOK
  <2>2. d \in 0 .. N - 1
    BY CapacityFacts DEF QueueInv, TypeOK, Counts
  <2>3. head = pushes % N /\ tail = pops % N
    BY DEF QueueInv, Counts, Stored
  <2>4. /\ a \in Int /\ b \in Int /\ head \in Int /\ tail \in Int
        /\ pushes = N * a + head /\ pops = N * b + tail
    BY <2>1, <2>3, DivMod
  <2> HIDE DEF a, b, N
  <2>5. head - tail = N * (b - a) + d
    BY <2>1, <2>4
  <2> HIDE DEF d
  <2>6. (head - tail) % N = d
    BY <2>1, <2>2, <2>4, <2>5, ModUnique
  <2> QED BY <2>2, <2>6 DEF OccupancyExact, size, d, N
<1> QED BY <1>1, QueueInvariant, PTL

------------------------------------------------------------------------------
(* The ring implements BoundedFifo.  Window(a, b) is what the refinement      *)
(* mapping puts in the abstract queue: the values a to b - 1.                 *)
Window(a, b) == [i \in 1 .. b - a |-> a + i - 1]

(* A window is a sequence. *)
LEMMA WindowIsSeq ==
  ASSUME NEW a \in Nat, NEW b \in Nat, a <= b
  PROVE  Window(a, b) \in Seq(Int) /\ Len(Window(a, b)) = b - a
BY b - a \in Nat DEF Window

(* A value published extends the window at the end. *)
LEMMA WindowPut ==
  ASSUME NEW a \in Nat, NEW b \in Nat, a <= b
  PROVE  Append(Window(a, b), b) = Window(a, b + 1)
<1>1. b - a \in Nat /\ b + 1 - a = (b - a) + 1
  OBVIOUS
<1> QED BY <1>1, WindowIsSeq DEF Window

(* A value copied out is the first of the window, and leaves the rest. *)
LEMMA WindowTake ==
  ASSUME NEW a \in Nat, NEW b \in Nat, a < b
  PROVE  /\ Window(a, b) # <<>> /\ Head(Window(a, b)) = a
         /\ Tail(Window(a, b)) = Window(a + 1, b)
<1>1. b - a \in Nat /\ b - a >= 1 /\ b - (a + 1) = (b - a) - 1 /\ a + 1 \in Nat /\ a + 1 <= b
  OBVIOUS
<1>2. Window(a, b) \in Seq(Int) /\ Len(Window(a, b)) = b - a
  BY WindowIsSeq
<1>3. Window(a, b) # <<>> /\ Head(Window(a, b)) = a
  BY <1>1, <1>2 DEF Window
<1>4. /\ Tail(Window(a, b)) \in Seq(Int) /\ Len(Tail(Window(a, b))) = b - a - 1
      /\ \A i \in 1 .. b - a - 1 : Tail(Window(a, b))[i] = Window(a, b)[i + 1]
  BY <1>1, <1>2, <1>3, HeadTailProperties
<1>5. Window(a + 1, b) \in Seq(Int) /\ Len(Window(a + 1, b)) = b - a - 1
  BY <1>1, WindowIsSeq
<1>6. \A i \in 1 .. b - a - 1 : Window(a, b)[i + 1] = Window(a + 1, b)[i]
  BY <1>1 DEF Window
<1> HIDE DEF Window
<1> QED BY <1>3, <1>4, <1>5, <1>6, SeqEqual

(* The empty ring is the empty queue. *)
LEMMA FifoInit == Init => Fifo!fifoInit
<1> SUFFICES ASSUME Init PROVE Fifo!fifoInit
  OBVIOUS
<1>1. pushes = 0 /\ Taken = 0 /\ out = -1
  BY DEF Init, Taken, Unset
<1>2. [i \in 1 .. pushes - Taken |-> Taken + i - 1] = <<>>
  BY <1>1
<1> QED BY <1>1, <1>2 DEF Fifo!fifoInit

(* Every access of either thread is a Put, a Take or invisible. *)
LEMMA FifoNext == QueueInv /\ [Next]_vars => [Fifo!Put \/ Fifo!Take]_Fifo!fifoVars
<1> SUFFICES ASSUME QueueInv, [Next]_vars
             PROVE  [Fifo!Put \/ Fifo!Take]_Fifo!fifoVars
  OBVIOUS
<1>1. /\ pushes \in Nat /\ pops \in Nat /\ tailSeen \in Nat /\ headSeen \in Nat
      /\ Capacity \in Nat /\ Capacity >= 2
      /\ tailSeen <= pops /\ pops <= headSeen /\ headSeen <= pushes
      /\ cpc \in {"read", "release"} => pops < headSeen
  BY CapacityFacts DEF QueueInv, TypeOK, Counts, ConsumerPlace
<1>2. Taken \in Nat /\ pops <= Taken /\ Taken <= pushes
  BY <1>1 DEF Taken
<1>3. CASE PushPublish
  <2>1. pushes' = pushes + 1 /\ UNCHANGED <<out, pops, cpc, Taken>>
    BY <1>3 DEF PushPublish, consumer, Taken
  <2>2. pushes < MaxPush /\ pushes - tailSeen <= Capacity - 2
    BY <1>3 DEF PushPublish, QueueInv, ProducerPlace
  <2>3. Len(Window(Taken, pushes)) < Capacity - 1
    BY <1>1, <1>2, <2>2, WindowIsSeq
  <2>4. Window(Taken, pushes)' = Append(Window(Taken, pushes), pushes)
    BY <1>1, <1>2, <2>1, WindowPut DEF Window
  <2>5. Fifo!Put
    BY <2>1, <2>2, <2>3, <2>4 DEF Fifo!Put, Window
  <2> QED BY <2>5
<1>4. CASE PopRead
  <2>1. /\ cpc = "read" /\ Taken = pops /\ Taken' = pops + 1
        /\ UNCHANGED <<pushes, pops>>
    BY <1>4 DEF PopRead, Taken
  <2>2. /\ ctail = Stored(pops) /\ pops \in pops .. pushes - 1 /\ pops < pushes
    BY <1>1, <2>1 DEF QueueInv, ConsumerPlace, Counts
  <2>3. out' = pops
    BY <1>4, <2>2 DEF PopRead, QueueInv, Contents
  <2>4. /\ Window(Taken, pushes) # <<>> /\ Head(Window(Taken, pushes)) = pops
        /\ Window(Taken, pushes)' = Tail(Window(Taken, pushes))
    BY <1>1, <2>1, <2>2, WindowTake
  <2>5. Fifo!Take
    BY <2>1, <2>3, <2>4 DEF Fifo!Take, Window
  <2> QED BY <2>5
<1>5. CASE PopRelease
  <2>1. Taken' = Taken /\ UNCHANGED <<pushes, out>>
    BY <1>1, <1>5 DEF PopRelease, Taken
  <2> QED BY <2>1 DEF Fifo!fifoVars
<1>6. ASSUME UNCHANGED <<pushes, pops, out>>, UNCHANGED Taken
      PROVE  UNCHANGED Fifo!fifoVars
  BY <1>6 DEF Fifo!fifoVars
<1>7. CASE PushBegin \/ PushFull \/ PushRoom \/ PushWrite \/ UNCHANGED vars
  BY <1>6, <1>7 DEF PushBegin, PushFull, PushRoom, PushWrite, vars, consumer, Taken
<1>8. CASE PopBegin \/ PopEmpty \/ PopItem
  BY <1>6, <1>8 DEF PopBegin, PopEmpty, PopItem, Taken
<1> QED BY <1>3, <1>4, <1>5, <1>7, <1>8 DEF Next

(* The ring implements the bounded FIFO of Capacity - 1 places, for every    *)
(* capacity: a push takes effect at the release store of head_ and a pop     *)
(* when the slot is copied out (spsc_queue.hpp:58-85).                       *)
THEOREM ImplementsFifo == Spec => ImplementsBoundedFifo
<1>1. Init => Fifo!fifoInit
  BY FifoInit
<1>2. QueueInv /\ [Next]_vars => [Fifo!Put \/ Fifo!Take]_Fifo!fifoVars
  BY FifoNext
<1> QED BY <1>1, <1>2, QueueInvariant, PTL DEF Spec, ImplementsBoundedFifo, Fifo!fifoSpec
==============================================================================

------------------------------ MODULE SpscQueue ------------------------------
(***************************************************************************)
(* spsc_queue_t of include/matching/runtime/spsc_queue.hpp: a ring of      *)
(* Capacity slots, head_ stored by the producer and tail_ by the consumer. *)
(*                                                                         *)
(* One action per access to shared memory.  An acquire load of the other   *)
(* thread's index may return any value stored there since the one the      *)
(* loading thread saw last; it makes the slot accesses before that store   *)
(* visible.  The slots are plain memory: two overlapping accesses to one   *)
(* of them would be a data race.  Values are numbered in push order.       *)
(***************************************************************************)
EXTENDS Integers, Sequences

CONSTANTS Capacity,  \* number of slots, a power of two
          MaxPush    \* bound: values ever pushed

ASSUME QueueAssumption ==
  /\ Capacity \in Nat /\ Capacity >= 2
  /\ \E k \in 1 .. Capacity : Capacity = 2 ^ k
  /\ MaxPush \in Nat

Slot == 0 .. Capacity - 1
Unset == -1                \* the T{} every slot is constructed with

VARIABLES
  head, tail,  \* the atomic indices head_ and tail_
  slots,       \* Slot -> value
  ppc, phead,  \* producer: place in try_push, its local head
  cpc, ctail,  \* consumer: place in try_pop, its local tail
  out,         \* the value try_pop copied out last
  pushes,      \* number of stores to head_ so far
  pops,        \* number of stores to tail_ so far
  tailSeen,    \* the producer's last load of tail_ read the tailSeen-th store
  headSeen     \* the consumer's last load of head_ read the headSeen-th store

producer == <<ppc, phead, tailSeen>>
consumer == <<cpc, ctail, headSeen>>
vars == <<head, tail, slots, producer, consumer, out, pushes, pops>>

(* (i + 1) & mask_v, the mask being Capacity - 1 for a power of two. *)
next(i) == (i + 1) % Capacity

(* Index value written by the k-th store. *)
Stored(k) == k % Capacity

Init ==
  /\ head = 0 /\ tail = 0
  /\ slots = [i \in Slot |-> Unset]
  /\ ppc = "idle" /\ phead = 0
  /\ cpc = "idle" /\ ctail = 0
  /\ out = Unset
  /\ pushes = 0 /\ pops = 0
  /\ tailSeen = 0 /\ headSeen = 0

------------------------------------------------------------------------------
(* try_push *)

PushBegin ==                       \* relaxed load of head_
  /\ ppc = "idle"
  /\ pushes < MaxPush
  /\ phead' = head
  /\ ppc' = "check"
  /\ UNCHANGED <<head, tail, slots, consumer, out, pushes, pops, tailSeen>>

(* Mutant: the ring is never taken for full. *)
Mut_never_full(c) == FALSE

IsFull(c) == next(phead) = Stored(c)

PushFull ==                        \* acquire load of tail_: full, return false
  /\ ppc = "check"
  /\ \E c \in tailSeen .. pops : IsFull(c) /\ tailSeen' = c
  /\ ppc' = "idle"
  /\ UNCHANGED <<head, tail, slots, phead, consumer, out, pushes, pops>>

PushRoom ==                        \* acquire load of tail_: room
  /\ ppc = "check"
  /\ \E c \in tailSeen .. pops : ~IsFull(c) /\ tailSeen' = c
  /\ ppc' = "write"
  /\ UNCHANGED <<head, tail, slots, phead, consumer, out, pushes, pops>>

PushWrite ==                       \* slots_[head] = value
  /\ ppc = "write"
  /\ slots' = [slots EXCEPT ![phead] = pushes]
  /\ ppc' = "publish"
  /\ UNCHANGED <<head, tail, phead, tailSeen, consumer, out, pushes, pops>>

PushPublish ==                     \* release store of head_, return true
  /\ ppc = "publish"
  /\ head' = next(phead)
  /\ pushes' = pushes + 1
  /\ ppc' = "idle"
  /\ UNCHANGED <<tail, slots, phead, tailSeen, consumer, out, pops>>

------------------------------------------------------------------------------
(* try_pop *)

PopBegin ==                        \* relaxed load of tail_
  /\ cpc = "idle"
  /\ ctail' = tail
  /\ cpc' = "check"
  /\ UNCHANGED <<head, tail, slots, producer, out, pushes, pops, headSeen>>

(* Mutant: the ring is never taken for empty. *)
Mut_never_empty(h) == FALSE

IsEmpty(h) == ctail = Stored(h)

PopEmpty ==                        \* acquire load of head_: empty, return false
  /\ cpc = "check"
  /\ \E h \in headSeen .. pushes : IsEmpty(h) /\ headSeen' = h
  /\ cpc' = "idle"
  /\ UNCHANGED <<head, tail, slots, producer, ctail, out, pushes, pops>>

PopItem ==                         \* acquire load of head_: an item is there
  /\ cpc = "check"
  /\ \E h \in headSeen .. pushes : ~IsEmpty(h) /\ headSeen' = h
  /\ cpc' = "read"
  /\ UNCHANGED <<head, tail, slots, producer, ctail, out, pushes, pops>>

PopRead ==                         \* out = slots_[tail]
  /\ cpc = "read"
  /\ out' = slots[ctail]
  /\ cpc' = "release"
  /\ UNCHANGED <<head, tail, slots, producer, ctail, headSeen, pushes, pops>>

(* Mutant: the freed index is not stored back. *)
Mut_release_lost ==
  /\ cpc = "release"
  /\ cpc' = "idle"
  /\ UNCHANGED <<head, tail, slots, producer, ctail, headSeen, out, pushes, pops>>

PopRelease ==                      \* release store of tail_, return true
  /\ cpc = "release"
  /\ tail' = next(ctail)
  /\ pops' = pops + 1
  /\ cpc' = "idle"
  /\ UNCHANGED <<head, slots, producer, ctail, headSeen, out, pushes>>

------------------------------------------------------------------------------
Producer == PushBegin \/ PushFull \/ PushRoom \/ PushWrite \/ PushPublish
Consumer == PopBegin \/ PopEmpty \/ PopItem \/ PopRead \/ PopRelease

Next ==
  \/ PushBegin \/ PushFull \/ PushRoom \/ PushWrite \/ PushPublish
  \/ PopBegin \/ PopEmpty \/ PopItem \/ PopRead \/ PopRelease

Spec == Init /\ [][Next]_vars

(* Both threads keep spinning on the queue, and a store becomes visible to   *)
(* the other thread after finitely many loads.                               *)
FairSpec ==
  /\ Spec
  /\ WF_vars(Producer) /\ WF_vars(Consumer)
  /\ SF_vars(PushRoom) /\ SF_vars(PopItem)

------------------------------------------------------------------------------
(* Indices stay inside the ring (spsc_queue.hpp:63, 81: masked increments),  *)
(* so that every slot access is in bounds; proved with QueueInv.             *)
TypeOK ==
  /\ head \in Slot /\ tail \in Slot /\ phead \in Slot /\ ctail \in Slot
  /\ slots \in [Slot -> Int]
  /\ ppc \in {"idle", "check", "write", "publish"}
  /\ cpc \in {"idle", "check", "read", "release"}
  /\ out \in Int
  /\ pushes \in Nat /\ pops \in Nat /\ tailSeen \in Nat /\ headSeen \in Nat

(* The producer never writes the slot the consumer may be reading, whatever  *)
(* stale index either of them loaded (spsc_queue.hpp:67, 80).                *)
NoSlotRace == ~(ppc = "write" /\ cpc = "read" /\ phead = ctail)

(* The n-th pop delivers the n-th value pushed: nothing is lost, repeated,   *)
(* reordered or read before it was written (spsc_queue.hpp:18-20).           *)
PopsInOrder == cpc = "release" => out = pops

(* The queue never holds more than Capacity - 1 values, and the occupancy    *)
(* computed from the two indices by size() is exact when nothing moves       *)
(* (spsc_queue.hpp:87-91): full and empty are never confused.                *)
size == (head - tail) % Capacity

OccupancyExact ==
  /\ pushes - pops \in 0 .. Capacity - 1
  /\ size = pushes - pops

(* Every value pushed is popped in the end while the consumer keeps polling. *)
EveryPushIsPopped == \A n \in 0 .. MaxPush - 1 : pushes > n ~> pops > n

(* A full ring never stops a producer for good: all values get through.      *)
ProducerGetsThrough == <>(pushes = MaxPush)

------------------------------------------------------------------------------
(* Values inside: those published and not yet copied out. *)
Taken == IF cpc = "release" THEN pops + 1 ELSE pops

Fifo == INSTANCE BoundedFifo WITH
  Room <- Capacity - 1,
  queue <- [i \in 1 .. pushes - Taken |-> Taken + i - 1],
  sent <- pushes,
  last <- out

(* The ring is a bounded FIFO of Capacity - 1 places: a push takes effect at *)
(* the release store of head_, a pop when the slot is copied out.            *)
ImplementsBoundedFifo == Fifo!fifoSpec
==============================================================================

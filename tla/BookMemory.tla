------------------------------ MODULE BookMemory ------------------------------
(***************************************************************************)
(* The resting-order arena of clob_memory_t (include/matching/             *)
(* order_book.hpp): its size, and where allocate_resting_node finds room   *)
(* in the std::pmr::monotonic_buffer_resource on top of it.  Addresses are *)
(* counted in units of the alignment that operator new gives a byte array. *)
(***************************************************************************)
EXTENDS Integers, Sequences

CONSTANTS Capacities,   \* book capacities, at least 1 (parse_config)
          Line,         \* alignment and size of order_node_t (64 bytes)
          Page          \* granularity of the arena (4096 bytes)

ASSUME MemoryAssumption ==
  /\ Capacities \subseteq Nat \ {0}
  /\ Line \in Nat \ {0} /\ Page \in Nat \ {0} /\ Page % Line = 0

VARIABLES
  capacity,    \* book_capacity, fixed
  start,       \* address of the arena modulo Line, fixed
  buffer,      \* the buffer in use: 0 the arena, then those from the heap
  from, to,    \* what is left of it
  next_size,   \* size of the next buffer
  place        \* history: [buffer, address] of every node, by allocation

memVars == <<capacity, start, buffer, from, to, next_size, place>>

(* Mutant: the alignment is ignored. *)
Mut_align_up(size, alignment) == size

align_up(size, alignment) == ((size + alignment - 1) \div alignment) * alignment

(* Mutant: the size is not rounded up to whole pages. *)
Mut_resting_order_arena_byte_count(max_orders) == max_orders * Line

resting_order_arena_byte_count(max_orders) == align_up(max_orders * Line, Page)

(* monotonic_buffer_resource: each buffer is half as large again. *)
Grown(size) == (3 * size) \div 2

memInit ==
  /\ capacity \in Capacities
  /\ start \in 0 .. Line - 1
  /\ buffer = 0
  /\ from = start
  /\ to = start + resting_order_arena_byte_count(capacity)
  /\ next_size = Grown(resting_order_arena_byte_count(capacity))
  /\ place = <<>>

(* allocate(sizeof(order_node_t), alignof(order_node_t)): the next aligned    *)
(* place in the buffer, or the start of a new one from the heap.              *)
AllocateHere ==
  /\ align_up(from, Line) + Line <= to
  /\ from' = align_up(from, Line) + Line
  /\ place' = Append(place, [buffer |-> buffer, address |-> align_up(from, Line)])
  /\ UNCHANGED <<capacity, start, buffer, to, next_size>>

AllocateSpill ==
  /\ align_up(from, Line) + Line > to
  /\ buffer' = buffer + 1
  /\ from' = Line
  /\ to' = next_size                     \* a page at least
  /\ next_size' = Grown(next_size)
  /\ place' = Append(place, [buffer |-> buffer + 1, address |-> 0])
  /\ UNCHANGED <<capacity, start>>

Allocate == AllocateHere \/ AllocateSpill

------------------------------------------------------------------------------
(* Every node has a line of its own for good: aligned, and apart from every   *)
(* node before it, on either side of the step from the arena to the heap      *)
(* ("stable address until retired", order_book.hpp:22).                       *)
NodesApart ==
  \A m \in DOMAIN place :
    /\ place[m].address % Line = 0
    /\ \A n \in DOMAIN place :
         n < m /\ place[n].buffer = place[m].buffer =>
           place[n].address + Line <= place[m].address

(* Nodes that fill the pages of the arena to the last byte, an arena that     *)
(* does not start on a line.                                                  *)
Tight == (capacity * Line) % Page = 0 /\ start # 0

(* The arena serves as many nodes as the capacity says (order_book.hpp:39-46, *)
(* 209-213), except the last one when it is tight: that one, and any beyond   *)
(* what its pages hold, come from the heap, so that neither the capacity nor  *)
(* nodes retired long ago ever stop the book from resting an order.           *)
ArenaServesCapacity ==
  \A n \in DOMAIN place :
    /\ n < capacity => place[n].buffer = 0
    /\ n = capacity => (place[n].buffer = 0 <=> ~Tight)
    /\ n * Line > resting_order_arena_byte_count(capacity) => place[n].buffer > 0
==============================================================================

------------------------- MODULE GeneratedBookProofs -------------------------
(***************************************************************************)
(* Proofs about BookMemory and OrderGenerator, as GeneratedBook composes   *)
(* them with the book: for every capacity, alignment and page size the     *)
(* nodes of the book never overlap and the arena holds what it was sized   *)
(* for; for every profile, overridden ones included, the quotes drawn are  *)
(* ones the book accepts, on the right side of the touch; and the          *)
(* generator and the book agree on what became of every order.             *)
(***************************************************************************)
EXTENDS GeneratedBook, OrderBookProofs, SequenceTheorems, TLAPS

(* Division by a positive number. *)
LEMMA DivMod ==
  ASSUME NEW a \in Int, NEW b \in Nat \ {0}
  PROVE  /\ a \div b \in Int /\ a % b \in 0 .. b - 1
         /\ (a \div b) * b <= a /\ a < (a \div b) * b + b
         /\ a % b = a - (a \div b) * b
OBVIOUS

LEMMA Multiple ==
  ASSUME NEW b \in Nat \ {0}, NEW k \in Int
  PROVE  (k * b) % b = 0 /\ (k * b) \div b = k /\ k * b \in Int
OBVIOUS

LEMMA FactorOrder ==
  ASSUME NEW b \in Nat \ {0}, NEW x \in Int, NEW y \in Int
  PROVE  /\ x <= y => x * b <= y * b
         /\ x < y => x * b + b <= y * b
         /\ (x + 1) * b = x * b + b
OBVIOUS

(* A size is rounded up to a multiple of the alignment, by less than one. *)
LEMMA AlignUp ==
  ASSUME NEW size \in Int, NEW a \in Nat \ {0}
  PROVE  /\ align_up(size, a) \in Int
         /\ size <= align_up(size, a) /\ align_up(size, a) < size + a
         /\ align_up(size, a) % a = 0
         /\ size % a = 0 => align_up(size, a) = size
         /\ \E k \in Int : align_up(size, a) = k * a
<1> DEFINE k == (size + a - 1) \div a
<1>1. k \in Int /\ align_up(size, a) = k * a
  BY DEF align_up
<1>2. size <= k * a /\ k * a < size + a
  BY DEF k
<1>3. (k * a) % a = 0 /\ k * a \in Int
  BY <1>1, Multiple
<1> HIDE DEF k
<1>4. size % a = 0 => k * a = size
  <2> SUFFICES ASSUME size % a = 0 PROVE k * a = size
    OBVIOUS
  <2> DEFINE m == size \div a
  <2>1. m \in Int /\ size = m * a
    BY DivMod
  <2> HIDE DEF m
  <2>2. ~(m < k)
    BY <1>1, <1>2, <2>1, FactorOrder
  <2>3. ~(k < m)
    BY <1>1, <1>2, <2>1, FactorOrder
  <2> QED BY <1>1, <2>1, <2>2, <2>3
<1> QED BY <1>1, <1>2, <1>3, <1>4

------------------------------------------------------------------------------
(* Where nodes go.  The first node of the arena, and whether an n-th fits. *)
First == align_up(start, Line)
Size == resting_order_arena_byte_count(capacity)
Fits(n) == First + n * Line <= start + Size

MemTypes ==
  /\ capacity \in Capacities /\ start \in 0 .. Line - 1
  /\ buffer \in Nat /\ from \in Int /\ to \in Int /\ next_size \in Int
  /\ place \in Seq([buffer: Nat, address: Int])

(* Nothing placed reaches past what is left of the buffer in use. *)
Behind ==
  \A n \in 1 .. Len(place) :
    /\ place[n].buffer <= buffer
    /\ place[n].buffer = buffer => place[n].address + Line <= from

(* The arena is filled line by line, until the next node does not fit. *)
Filled ==
  /\ buffer = 0 => /\ to = start + Size
                   /\ from = IF Len(place) = 0 THEN start ELSE First + Len(place) * Line
  /\ buffer > 0 => ~Fits(Len(place))
  /\ \A n \in 1 .. Len(place) : place[n].buffer = 0 <=> Fits(n)

MemInv == MemTypes /\ Behind /\ Filled /\ NodesApart

(* The numbers of an arena. *)
LEMMA ArenaFacts ==
  ASSUME capacity \in Capacities, start \in 0 .. Line - 1
  PROVE  /\ capacity \in Nat /\ capacity > 0 /\ Line \in Nat \ {0} /\ Page \in Nat \ {0}
         /\ First \in Int /\ First % Line = 0 /\ start <= First /\ First <= Line
         /\ First = IF start = 0 THEN 0 ELSE Line
         /\ Size \in Int /\ capacity * Line <= Size
         /\ Size = capacity * Line <=> (capacity * Line) % Page = 0
         /\ \E k \in Int : Size = k * Line
         /\ \E k \in Int : First = k * Line
<1>1. capacity \in Nat /\ capacity > 0 /\ Line \in Nat \ {0} /\ Page \in Nat \ {0} /\ Page % Line = 0
  BY MemoryAssumption
<1>2. start \in Int /\ capacity * Line \in Int
  BY <1>1
<1>3. First \in Int /\ First % Line = 0 /\ start <= First /\ First < start + Line /\ \E k \in Int : First = k * Line
  BY <1>1, <1>2, AlignUp DEF First
<1>4. First = IF start = 0 THEN 0 ELSE Line
  <2>1. PICK k \in Int : First = k * Line
    BY <1>3
  <2>2. k < 2
    <3>1. 2 <= k => 2 * Line <= k * Line
      BY <1>1, FactorOrder
    <3> QED BY <1>1, <1>3, <2>1, <3>1
  <2>3. k >= 0
    <3>1. k <= -1 => k * Line <= (-1) * Line
      BY <1>1, FactorOrder
    <3> QED BY <1>1, <1>3, <2>1, <3>1
  <2>4. k = 0 \/ k = 1
    BY <2>2, <2>3
  <2> QED BY <1>1, <1>3, <2>1, <2>4
<1>5. /\ Size \in Int /\ capacity * Line <= Size /\ Size % Page = 0
      /\ (capacity * Line) % Page = 0 => Size = capacity * Line
      /\ \E k \in Int : Size = k * Page
  BY <1>1, <1>2, AlignUp DEF Size, resting_order_arena_byte_count
<1>6. \E k \in Int : Size = k * Line
  <2>1. PICK k \in Int : Size = k * Page
    BY <1>5
  <2> DEFINE m == Page \div Line
  <2>2. m \in Int /\ Page = m * Line
    BY <1>1, DivMod
  <2> HIDE DEF m
  <2>3. k * (m * Line) = (k * m) * Line /\ k * m \in Int
    BY <1>1, <2>2
  <2> QED BY <2>1, <2>2, <2>3
<1>7. Size = capacity * Line <=> (capacity * Line) % Page = 0
  <2>1. Size = capacity * Line => (capacity * Line) % Page = 0
    <3> SUFFICES ASSUME Size = capacity * Line PROVE (capacity * Line) % Page = 0
      OBVIOUS
    <3> QED BY <1>5, Zenon
  <2> QED BY <1>5, <2>1
<1>8. First <= Line
  BY <1>1, <1>4
<1> QED BY <1>1, <1>3, <1>4, <1>5, <1>6, <1>7, <1>8, Zenon

(* The arena is empty and no node is placed. *)
LEMMA MemInit == memInit => MemInv
<1> SUFFICES ASSUME memInit PROVE MemInv
  OBVIOUS
<1>1. capacity \in Capacities /\ start \in 0 .. Line - 1 /\ place = <<>> /\ buffer = 0 /\ from = start
      /\ to = start + Size /\ next_size = Grown(Size)
  BY DEF memInit, Size
<1>2. Size \in Int /\ Line \in Nat
  BY <1>1, ArenaFacts
<1>3. start \in Int /\ to \in Int /\ next_size \in Int
  BY <1>1, <1>2 DEF Grown
<1>4. place \in Seq([buffer: Nat, address: Int]) /\ Len(place) = 0 /\ DOMAIN place = {}
  BY <1>1
<1> QED BY <1>1, <1>3, <1>4 DEF MemInv, MemTypes, Behind, Filled, NodesApart

(* In the arena the next aligned place is the next line. *)
LEMMA NextLine ==
  ASSUME MemInv
  PROVE  /\ align_up(from, Line) \in Int /\ from <= align_up(from, Line)
         /\ align_up(from, Line) % Line = 0
         /\ buffer = 0 => align_up(from, Line) = First + Len(place) * Line
<1>1. from \in Int /\ Line \in Nat \ {0} /\ First \in Int /\ Len(place) \in Nat
  BY ArenaFacts, LenProperties DEF MemInv, MemTypes
<1>2. /\ align_up(from, Line) \in Int /\ from <= align_up(from, Line)
      /\ align_up(from, Line) % Line = 0 /\ (from % Line = 0 => align_up(from, Line) = from)
  BY <1>1, AlignUp
<1>3. ASSUME buffer = 0 PROVE align_up(from, Line) = First + Len(place) * Line
  <2>1. CASE Len(place) = 0
    <3>1. from = start
      BY <1>3, <2>1 DEF MemInv, Filled
    <3>2. Len(place) * Line = 0
      BY <1>1, <2>1
    <3> QED BY <1>1, <3>1, <3>2 DEF First
  <2>2. CASE Len(place) # 0
    <3>1. from = First + Len(place) * Line
      BY <1>3, <2>2 DEF MemInv, Filled
    <3>2. PICK k \in Int : First = k * Line
      BY ArenaFacts DEF MemInv, MemTypes
    <3>3. k * Line + Len(place) * Line = (k + Len(place)) * Line /\ k + Len(place) \in Int
      BY <1>1
    <3>4. from = (k + Len(place)) * Line
      BY <3>1, <3>2, <3>3
    <3>5. from % Line = 0
      BY <1>1, <3>3, <3>4, Multiple
    <3> QED BY <1>2, <3>1, <3>5
  <2> QED BY <2>1, <2>2
<1> QED BY <1>2, <1>3

(* Once a node does not fit, no later one does. *)
LEMMA FitsNoMore ==
  ASSUME MemTypes, ~Fits(Len(place))
  PROVE  ~Fits(Len(place) + 1)
<1> DEFINE n == Len(place)
<1>1. Line \in Nat \ {0} /\ First \in Int /\ n \in Nat /\ start + Size \in Int
  BY ArenaFacts, LenProperties DEF MemTypes
<1> HIDE DEF n
<1>2. n * Line \in Int /\ (n + 1) * Line = n * Line + Line
  BY <1>1, FactorOrder
<1>3. ~(First + n * Line <= start + Size)
  BY DEF Fits, n
<1>4. ~(First + (n + 1) * Line <= start + Size)
  BY <1>1, <1>2, <1>3
<1> QED BY <1>4 DEF Fits, n

(* Two facts of arithmetic, away from the divisions of the arena. *)
LEMMA Through ==
  ASSUME NEW x \in Int, NEW y \in Int, NEW z \in Int, x <= y, y <= z
  PROVE  x <= z
OBVIOUS

LEMMA FurtherOn ==
  ASSUME NEW x \in Int, NEW y \in Int, NEW z \in Nat, x + z <= y
  PROVE  x + z <= y + z
OBVIOUS

(* One more node at the end of the list. *)
LEMMA Placed ==
  ASSUME MemInv, NEW b \in Nat, NEW a \in Int,
         place' = Append(place, [buffer |-> b, address |-> a]),
         b = buffer' /\ buffer <= b, a % Line = 0, a + Line = from',
         b = buffer => a = align_up(from, Line),
         to' \in Int, next_size' \in Int, UNCHANGED <<capacity, start>>,
         b = 0 => to' = to /\ Fits(Len(place) + 1),
         b > 0 => ~Fits(Len(place) + 1)
  PROVE  MemInv'
<1> DEFINE n == Len(place)
           rec == [buffer |-> b, address |-> a]
<1>1. place \in Seq([buffer: Nat, address: Int]) /\ n \in Nat /\ Line \in Nat \ {0}
      /\ First \in Int /\ Size \in Int /\ buffer \in Nat /\ from \in Int
  BY ArenaFacts, LenProperties DEF MemInv, MemTypes
<1>2. rec \in [buffer: Nat, address: Int]
  OBVIOUS
<1>3. /\ place' \in Seq([buffer: Nat, address: Int]) /\ Len(place') = n + 1
      /\ \A i \in 1 .. n : place'[i] = place[i]
      /\ place'[n + 1] = rec
  BY <1>1, <1>2, AppendProperties
<1>4. rec.buffer = b /\ rec.address = a
  OBVIOUS
<1>5. DOMAIN place' = 1 .. n + 1 /\ DOMAIN place = 1 .. n
  BY <1>1, <1>3, LenProperties
<1>6. UNCHANGED <<First, Size>> /\ \A i : Fits(i)' <=> Fits(i)
  BY DEF First, Size, Fits
<1>7. \A i \in 1 .. n : place[i].buffer \in Nat /\ place[i].address \in Int
  <2>1. \A i \in 1 .. n : place[i] \in [buffer: Nat, address: Int]
    BY <1>1, ElementOfSeq
  <2> QED BY <2>1
<1> HIDE DEF rec
<1>8. Behind /\ Filled /\ NodesApart
  BY DEF MemInv
<1>9. MemTypes'
  BY <1>1, <1>3 DEF MemInv, MemTypes
<1>10. \A i \in 1 .. n : /\ place[i].buffer <= b
                         /\ place[i].buffer = b => place[i].address + Line <= a
  <2> SUFFICES ASSUME NEW i \in 1 .. n
               PROVE  /\ place[i].buffer <= b
                      /\ place[i].buffer = b => place[i].address + Line <= a
    OBVIOUS
  <2>1. place[i].buffer \in Nat /\ place[i].address \in Int
    BY <1>7
  <2>2. place[i].buffer <= buffer /\ (place[i].buffer = buffer => place[i].address + Line <= from)
    BY <1>8 DEF Behind
  <2>3. b = buffer => from <= a
    BY NextLine
  <2>4. place[i].buffer = b => b = buffer
    BY <1>1, <2>1, <2>2
  <2> DEFINE x == place[i].buffer
             y == place[i].address
  <2> HIDE DEF x, y
  <2>5. x <= b
    <3>1. x \in Int /\ buffer \in Int /\ b \in Int
      BY <1>1, <2>1 DEF x
    <3>2. x <= buffer /\ buffer <= b
      BY <2>2, Zenon DEF x
    <3> QED BY <3>1, <3>2, Through, Zenon
  <2>6. ASSUME x = b PROVE y + Line <= a
    <3>1. y + Line <= from /\ from <= a
      BY <2>2, <2>3, <2>4, <2>6, Zenon DEF x, y
    <3>2. y \in Int /\ Line \in Int /\ from \in Int /\ a \in Int
      BY <1>1, <2>1 DEF y
    <3> QED BY <3>1, <3>2
  <2> QED BY <2>5, <2>6 DEF x, y
<1>11. \A i \in 1 .. n + 1 : i \in 1 .. n \/ i = n + 1
  BY <1>1
<1>12. Behind'
  <2> SUFFICES ASSUME NEW i \in 1 .. n + 1
               PROVE  /\ place'[i].buffer <= b
                      /\ place'[i].buffer = b => place'[i].address + Line <= a + Line
    BY <1>3 DEF Behind
  <2>1. CASE i \in 1 .. n
    <3>1. place'[i] = place[i] /\ place[i].address \in Int /\ place[i].buffer <= b
          /\ (place[i].buffer = b => place[i].address + Line <= a)
      BY <1>3, <1>7, <1>10, <2>1
    <3> DEFINE y == place[i].address
    <3>2. y \in Int /\ Line \in Nat
      BY <1>1, <3>1, Zenon
    <3>3. y + Line <= a => y + Line <= a + Line
      BY <3>2, FurtherOn, Zenon
    <3> QED BY <3>1, <3>3, Zenon
  <2>2. CASE i = n + 1
    BY <1>1, <1>3, <1>4, <2>2
  <2> QED BY <1>11, <2>1, <2>2
<1>13. Filled'
  <2>1. buffer' = 0 => to' = start + Size
    BY <1>1, <1>8 DEF Filled
  <2>2. buffer' = 0 => from' = First + (n + 1) * Line
    <3> SUFFICES ASSUME buffer' = 0 PROVE from' = First + (n + 1) * Line
      OBVIOUS
    <3>1. buffer = 0
      BY <1>1
    <3>2. align_up(from, Line) = First + n * Line
      BY <3>1, NextLine
    <3>3. a = First + n * Line
      BY <3>1, <3>2
    <3> QED BY <1>1, <3>3, FactorOrder
  <2>3. \A i \in 1 .. n + 1 : place'[i].buffer = 0 <=> Fits(i)
    <3> SUFFICES ASSUME NEW i \in 1 .. n + 1 PROVE place'[i].buffer = 0 <=> Fits(i)
      OBVIOUS
    <3>1. CASE i \in 1 .. n
      BY <1>3, <1>8, <3>1 DEF Filled
    <3>2. CASE i = n + 1
      BY <1>3, <1>4, <3>2
    <3> QED BY <1>11, <3>1, <3>2
  <2>4. Len(place') = n + 1 /\ n + 1 # 0 /\ buffer' = b
    BY <1>1, <1>3
  <2>5. buffer' > 0 => ~Fits(n + 1)
    BY <2>4, Zenon
  <2> QED BY <1>6, <2>1, <2>2, <2>3, <2>4, <2>5, Zenon DEF Filled
<1>14. NodesApart'
  <2> SUFFICES ASSUME NEW m \in DOMAIN place'
               PROVE  /\ place'[m].address % Line = 0
                      /\ \A i \in DOMAIN place' :
                           i < m /\ place'[i].buffer = place'[m].buffer =>
                             place'[i].address + Line <= place'[m].address
    BY Zenon DEF NodesApart
  <2> SUFFICES /\ place'[m].address % Line = 0
               /\ \A i \in 1 .. n + 1 :
                    i < m /\ place'[i].buffer = place'[m].buffer =>
                      place'[i].address + Line <= place'[m].address
    BY <1>5, Zenon
  <2>3. m \in 1 .. n + 1
    BY <1>5, Zenon
  <2>1. CASE m \in 1 .. n
    <3>1. \A i \in 1 .. n + 1 : i < m => i \in 1 .. n
      BY <1>1, <2>1
    <3> QED BY <1>3, <1>5, <1>8, <2>1, <3>1 DEF NodesApart
  <2>2. CASE m = n + 1
    <3>1. \A i \in 1 .. n + 1 : i < m => i \in 1 .. n
      BY <1>1, <2>2
    <3> QED BY <1>3, <1>4, <1>10, <2>2, <3>1
  <2> QED BY <1>11, <2>1, <2>2, <2>3, Zenon
<1> QED BY <1>9, <1>12, <1>13, <1>14 DEF MemInv

(* A node goes to the next aligned place, or to the start of a new buffer. *)
LEMMA AllocateKeeps == ASSUME MemInv, Allocate PROVE MemInv'
<1> DEFINE A == align_up(from, Line)
           n == Len(place)
<1>1. /\ buffer \in Nat /\ from \in Int /\ to \in Int /\ next_size \in Int /\ n \in Nat
      /\ Line \in Nat \ {0} /\ First \in Int /\ Size \in Int /\ start \in Int
  BY ArenaFacts, LenProperties DEF MemInv, MemTypes
<1>2. A \in Int /\ A % Line = 0 /\ (buffer = 0 => A = First + n * Line)
  BY NextLine
<1>3. buffer = 0 => to = start + Size
  BY DEF MemInv, Filled
<1>4. buffer > 0 => ~Fits(n + 1)
  BY FitsNoMore DEF MemInv, Filled
<1>5. (n + 1) * Line = n * Line + Line /\ n * Line \in Int
  BY <1>1, FactorOrder
<1> HIDE DEF A, n
<1>6. buffer = 0 => (Fits(n + 1) <=> A + Line <= to)
  BY <1>1, <1>2, <1>3, <1>5 DEF Fits
<1>7. CASE AllocateHere
  <2>1. /\ A + Line <= to /\ from' = A + Line
        /\ place' = Append(place, [buffer |-> buffer, address |-> A])
        /\ UNCHANGED <<capacity, start, buffer, to, next_size>>
    BY <1>7 DEF AllocateHere, A
  <2> QED BY <1>1, <1>2, <1>4, <1>6, <2>1, Placed DEF A, n
<1>8. CASE AllocateSpill
  <2>1. /\ ~(A + Line <= to) /\ from' = Line /\ to' = next_size /\ buffer' = buffer + 1
        /\ next_size' = Grown(next_size)
        /\ place' = Append(place, [buffer |-> buffer + 1, address |-> 0])
        /\ UNCHANGED <<capacity, start>>
    BY <1>1, <1>2, <1>8 DEF AllocateSpill, A
  <2>2. buffer + 1 \in Nat /\ 0 % Line = 0 /\ 0 + Line = Line /\ next_size' \in Int
        /\ buffer <= buffer + 1 /\ buffer + 1 # buffer /\ buffer + 1 # 0
    BY <1>1, <2>1 DEF Grown
  <2>3. ~Fits(n + 1)
    BY <1>1, <1>4, <1>6, <2>1
  <2> QED BY <1>1, <2>1, <2>2, <2>3, Placed DEF n
<1> QED BY <1>7, <1>8 DEF Allocate

(* Only a handler that rests an order takes memory, one node of it. *)
LEMMA MemNext == MemInv /\ [generatedNext]_allVars => MemInv'
<1> SUFFICES ASSUME MemInv, [generatedNext]_allVars PROVE MemInv'
  OBVIOUS
<1>1. CASE UNCHANGED memVars
  BY <1>1 DEF memVars, MemInv, MemTypes, Behind, Filled, NodesApart, Fits, First, Size
<1>2. UNCHANGED memVars \/ Allocate
  BY DEF generatedNext, FeedAdd, FeedCancel, Handle, StreamOver, allVars
<1> QED BY <1>1, <1>2, AllocateKeeps

(* Where every node lies and how full the arena is, at every moment           *)
(* (order_book.hpp:22, 39-46, 209-213).                                       *)
THEOREM MemoryInvariant == generatedSpec => []MemInv
<1>1. generatedInit => MemInv
  BY MemInit DEF generatedInit
<1> QED BY <1>1, MemNext, PTL DEF generatedSpec

(* No two nodes overlap, for every capacity and every alignment, also when    *)
(* the arena is exhausted and the resource goes to the heap                   *)
(* (order_book.hpp:22, 209-213).                                              *)
THEOREM NodesStayApart == generatedSpec => []NodesApart
<1>1. MemInv => NodesApart
  BY DEF MemInv
<1> QED BY <1>1, MemoryInvariant, PTL

(* The arena of clob_memory_t holds the nodes it was sized for, but for the   *)
(* one that the alignment costs it when its pages are full to the last byte   *)
(* (order_book.hpp:39-46).                                                    *)
THEOREM ArenaHoldsCapacity == generatedSpec => []ArenaServesCapacity
<1>1. MemInv => ArenaServesCapacity
  <2> SUFFICES ASSUME MemInv, NEW n \in DOMAIN place
               PROVE  /\ n < capacity => place[n].buffer = 0
                      /\ n = capacity => (place[n].buffer = 0 <=> ~Tight)
                      /\ n * Line > Size => place[n].buffer > 0
    BY DEF ArenaServesCapacity, Size
  <2>1. /\ place \in Seq([buffer: Nat, address: Int]) /\ capacity \in Capacities
        /\ start \in 0 .. Line - 1
    BY DEF MemInv, MemTypes
  <2>2. n \in 1 .. Len(place) /\ n \in Nat
    BY <2>1, LenProperties
  <2>3. place[n].buffer \in Nat /\ (place[n].buffer = 0 <=> Fits(n))
    <3>1. place[n] \in [buffer: Nat, address: Int]
      BY <2>1, <2>2, ElementOfSeq
    <3> QED BY <2>2, <3>1 DEF MemInv, Filled
  <2>4. /\ capacity \in Nat /\ capacity > 0 /\ Line \in Nat \ {0}
        /\ First \in Int /\ start <= First /\ First <= Line
        /\ First = IF start = 0 THEN 0 ELSE Line
        /\ Size \in Int /\ capacity * Line <= Size
        /\ Size = capacity * Line <=> (capacity * Line) % Page = 0
        /\ \E k \in Int : Size = k * Line
    BY <2>1, ArenaFacts
  <2>5. n * Line \in Int /\ capacity * Line \in Int /\ start \in Int /\ start >= 0
    BY <2>1, <2>2, <2>4
  <2>6. ASSUME n < capacity PROVE Fits(n)
    <3>1. n * Line + Line <= capacity * Line
      BY <2>2, <2>4, <2>6, FactorOrder
    <3> QED BY <2>4, <2>5, <3>1 DEF Fits
  <2>7. ASSUME n * Line > Size PROVE ~Fits(n)
    BY <2>4, <2>5, <2>7 DEF Fits
  <2>8. ASSUME n = capacity PROVE Fits(n) <=> ~Tight
    <3>1. CASE Size = capacity * Line
      <4>1. Tight <=> start # 0
        BY <2>4, <3>1 DEF Tight
      <4>2. Fits(n) <=> First <= start
        BY <2>4, <2>5, <2>8, <3>1 DEF Fits
      <4>3. First <= start <=> start = 0
        BY <2>1, <2>4, <2>5
      <4> QED BY <4>1, <4>2, <4>3
    <3>2. CASE Size # capacity * Line
      <4>1. ~Tight
        BY <2>4, <3>2 DEF Tight
      <4>2. PICK k \in Int : Size = k * Line
        BY <2>4
      <4>3. capacity < k
        <5>1. k <= capacity => k * Line <= capacity * Line
          BY <2>4, FactorOrder
        <5> QED BY <2>4, <2>5, <3>2, <4>2, <5>1
      <4>4. capacity * Line + Line <= Size
        BY <2>4, <4>2, <4>3, FactorOrder
      <4>5. Fits(n)
        BY <2>4, <2>5, <2>8, <4>4 DEF Fits
      <4> QED BY <4>1, <4>5
    <3> QED BY <3>1, <3>2
  <2> QED BY <2>3, <2>6, <2>7, <2>8
<1> QED BY <1>1, MemoryInvariant, PTL

------------------------------------------------------------------------------
(* The tick, and the half widths of the spread, are at least one tick. *)
LEMMA TickFacts ==
  ASSUME profile \in Profiles
  PROVE  /\ tick \in Nat \ {0} /\ profile.tick_size \in Int
         /\ profile.tick_size > 0 => tick = profile.tick_size
         /\ profile.mids \subseteq Nat \cup {Wild} /\ Wild \in Int /\ Wild \notin Nat
<1>1. profile \in [num_orders: Nat, mids: SUBSET (Nat \cup {Wild}), tick_size: Int,
                   base_half_spread_ticks: Int, spread_asym_ticks: Int,
                   hot_half_spread_extra_ticks: Int, qty_min: Int, qty_max: Int]
  BY GeneratorAssumption
<1>2. profile.tick_size \in Int /\ profile.mids \subseteq Nat \cup {Wild}
  BY <1>1
<1>3. Wild \in Int /\ Wild \notin Nat
  BY DEF Wild
<1> QED BY <1>2, <1>3 DEF tick, Larger

(* The touch before it is rounded and snapped, when the mid is a number. *)
BestBid(mid, hot) == mid - bid_ask_half_width_price(hot).bid
BestAsk(mid, hot) == mid + bid_ask_half_width_price(hot).ask

LEMMA WidthFacts ==
  ASSUME profile \in Profiles, NEW hot \in HotExtra
  PROVE  LET w == bid_ask_half_width_price(hot)
         IN  /\ w.bid \in Int /\ w.bid >= tick
             /\ w.ask \in Int /\ w.ask >= tick
<1>1. profile \in [num_orders: Nat, mids: SUBSET (Nat \cup {Wild}), tick_size: Int,
                   base_half_spread_ticks: Int, spread_asym_ticks: Int,
                   hot_half_spread_extra_ticks: Int, qty_min: Int, qty_max: Int]
  BY GeneratorAssumption
<1>2. tick \in Nat \ {0}
  BY TickFacts
<1>3. hot \in Nat
  BY <1>1 DEF HotExtra, Larger
<1> DEFINE base == Larger(profile.base_half_spread_ticks, 1) * tick
           asym == profile.spread_asym_ticks * tick
           heat == hot * tick
<1>4. base \in Int /\ asym \in Int
  BY <1>1, <1>2 DEF Larger
<1>5. heat \in Int /\ heat >= 0
  BY <1>2, <1>3
<1> HIDE DEF base, asym, heat
<1> DEFINE bw == Larger(base + asym, tick)
           aw == Larger(base - asym, tick)
<1>6. bw \in Int /\ bw >= tick /\ aw \in Int /\ aw >= tick
  BY <1>2, <1>4 DEF Larger
<1>7. bid_ask_half_width_price(hot) = [bid |-> bw + heat, ask |-> aw + heat]
  BY DEF bid_ask_half_width_price, base, asym, heat
<1> HIDE DEF bw, aw
<1>8. /\ bw + heat \in Int /\ bw + heat >= tick
      /\ aw + heat \in Int /\ aw + heat >= tick
  BY <1>2, <1>5, <1>6
<1> QED BY <1>7, <1>8

LEMMA SpreadFacts ==
  ASSUME profile \in Profiles, NEW mid \in profile.mids \ {Wild}, NEW hot \in HotExtra
  PROVE  /\ BestBid(mid, hot) \in Int /\ BestBid(mid, hot) <= mid - tick
         /\ BestAsk(mid, hot) \in Int /\ mid + tick <= BestAsk(mid, hot)
<1> DEFINE w == bid_ask_half_width_price(hot)
<1>1. mid \in Nat /\ tick \in Nat \ {0}
  BY TickFacts
<1>2. w.bid \in Int /\ w.bid >= tick /\ w.ask \in Int /\ w.ask >= tick
  BY WidthFacts
<1>3. BestBid(mid, hot) = mid - w.bid /\ BestAsk(mid, hot) = mid + w.ask
  BY DEF BestBid, BestAsk
<1> HIDE DEF w
<1> QED BY <1>1, <1>2, <1>3

(* snap_to_tick, once rounded: down to the grid, but no lower than one tick. *)
LEMMA SnapFacts ==
  ASSUME tick \in Nat \ {0}, NEW raw \in Int
  PROVE  /\ SnapRounded(raw) \in Int /\ SnapRounded(raw) >= tick
         /\ SnapRounded(raw) % tick = 0
         /\ raw <= tick => SnapRounded(raw) = tick
         /\ raw >= tick => /\ SnapRounded(raw) <= raw
                           /\ SnapRounded(raw + tick) = SnapRounded(raw) + tick
<1> DEFINE t == tick
           r == Larger(raw, t)
           k == r \div t
<1>1. t \in Nat \ {0} /\ r \in Int /\ r >= t /\ (raw <= t => r = t) /\ (raw >= t => r = raw)
  BY DEF Larger
<1>2. SnapRounded(raw) = k * t
  BY DEF SnapRounded
<1> HIDE DEF t, r
<1>3. k \in Int /\ k * t <= r /\ r < k * t + t
  BY <1>1, DivMod
<1>4. k >= 1
  <2>1. k <= 0 => k * t <= 0
    BY <1>1, <1>3, FactorOrder
  <2> DEFINE kt == k * t
  <2>2. kt \in Int /\ (k <= 0 => kt <= 0) /\ r < kt + t
    BY <1>1, <1>3, <2>1
  <2> HIDE DEF kt, k
  <2> QED BY <1>1, <1>3, <2>2
<1>5. k * t \in Int /\ k * t >= t /\ (k * t) % t = 0
  <2>1. 1 * t <= k * t
    BY <1>1, <1>3, <1>4, FactorOrder
  <2>2. 1 * t = t
    BY <1>1
  <2>3. k * t \in Int /\ (k * t) % t = 0
    BY <1>1, <1>3, Multiple
  <2>4. t <= k * t
    BY <2>1, <2>2, Zenon
  <2> QED BY <2>3, <2>4
<1>6. r = t => k = 1
  BY <1>1, Multiple
<1>7. ASSUME raw >= t PROVE SnapRounded(raw + tick) = k * t + t
  <2>1. Larger(raw + t, t) = r + t
    BY <1>1, <1>7 DEF Larger
  <2>2. (r + t) \div t = k + 1
    BY <1>1
  <2>3. (k + 1) * t = k * t + t
    BY <1>1, <1>3, FactorOrder
  <2> QED BY <2>1, <2>2, <2>3 DEF SnapRounded, t
<1>8. raw <= t => k * t = t
  BY <1>1, <1>6
<1> QED BY <1>1, <1>2, <1>3, <1>5, <1>7, <1>8 DEF t

LEMMA SnapOrder ==
  ASSUME tick \in Nat \ {0}, NEW x \in Int, NEW y \in Int, x <= y
  PROVE  SnapRounded(x) <= SnapRounded(y)
<1> DEFINE t == tick
           a == Larger(x, t)
           b == Larger(y, t)
<1>1. t \in Nat \ {0} /\ a \in Int /\ b \in Int /\ a <= b
  BY DEF Larger
<1> HIDE DEF t, a, b
<1>2. a \div t \in Int /\ b \div t \in Int /\ a \div t <= b \div t
  BY <1>1
<1>3. (a \div t) * t <= (b \div t) * t
  BY <1>1, <1>2, FactorOrder
<1> QED BY <1>3 DEF SnapRounded, t, a, b

(* A depth is not negative unless the tick size is. *)
LEMMA DepthFacts ==
  ASSUME profile \in Profiles, NEW a \in BOOLEAN, NEW d \in Depths(a)
  PROVE  /\ d \in Int
         /\ profile.tick_size >= 0 => d >= 0
         /\ profile.tick_size >= 0 /\ a => d >= profile.tick_size
<1> DEFINE t == profile.tick_size
<1>1. t \in Int /\ MaxDepth \in Nat
  BY TickFacts, GeneratorAssumption
<1> HIDE DEF t
<1>2. MaxDepth * t \in Int /\ \A n \in 1 .. MaxDepth : n * t \in Int
  BY <1>1
<1>3. CASE a
  <2>1. PICK n \in 1 .. MaxDepth : d = n * t
    BY <1>3 DEF Depths, t
  <2>2. t >= 0 => n * t >= t
    <3> SUFFICES ASSUME t >= 0 PROVE n * t >= t
      OBVIOUS
    <3>1. CASE t = 0
      BY <1>1, <3>1
    <3>2. CASE t > 0
      <4>1. 1 * t <= n * t
        BY <1>1, <3>2, FactorOrder
      <4>2. 1 * t = t
        BY <1>1
      <4> QED BY <1>1, <1>2, <4>1, <4>2
    <3> QED BY <1>1, <3>1, <3>2
  <2> QED BY <1>1, <1>2, <1>3, <2>1, <2>2 DEF t
<1>4. CASE ~a
  <2>1. d \in IF t < 0 THEN MaxDepth * t .. 0 ELSE 0 .. MaxDepth * t
    BY <1>4 DEF Depths, t
  <2> DEFINE m == MaxDepth * t
  <2>2. m \in Int /\ d \in IF t < 0 THEN m .. 0 ELSE 0 .. m
    BY <1>2, <2>1
  <2> HIDE DEF m
  <2> QED BY <1>1, <1>4, <2>2 DEF t
<1> QED BY <1>3, <1>4

(* With a mid that is a number there is one value for the touch and for a draw. *)
LEMMA OneQuote ==
  ASSUME profile \in Profiles, NEW mid \in profile.mids \ {Wild}, NEW hot \in HotExtra
  PROVE  /\ current_best_bid(mid, hot) = {SnapRounded(BestBid(mid, hot))}
         /\ current_best_ask(mid, hot) = {SnapRounded(BestAsk(mid, hot))}
         /\ \A s \in Side, a \in BOOLEAN : \A d \in Depths(a) :
              sample_price(s, mid, hot, a, d) =
                {SnapRounded(IF (s = "buy") = a THEN BestAsk(mid, hot) + d
                                                ELSE BestBid(mid, hot) - d)}
<1> DEFINE w == bid_ask_half_width_price(hot)
<1>1. mid \in Int /\ w.bid \in Int /\ w.ask \in Int
  BY TickFacts, WidthFacts
<1>2. ASSUME NEW x PROVE snap_to_tick(mid, x) = {SnapRounded(mid + x)}
  BY DEF snap_to_tick, lround
<1>3. current_best_bid(mid, hot) = {SnapRounded(mid + (-w.bid))}
  BY <1>2 DEF current_best_bid
<1>4. current_best_ask(mid, hot) = {SnapRounded(BestAsk(mid, hot))}
  BY <1>2 DEF current_best_ask, BestAsk
<1>5. ASSUME NEW s \in Side, NEW a \in BOOLEAN, NEW d \in Depths(a)
      PROVE  sample_price(s, mid, hot, a, d) =
               {SnapRounded(IF (s = "buy") = a THEN BestAsk(mid, hot) + d
                                               ELSE BestBid(mid, hot) - d)}
  <2>1. d \in Int
    BY DepthFacts
  <2>2. sample_price(s, mid, hot, a, d) =
          {SnapRounded(mid + (IF (s = "buy") = a THEN w.ask + d ELSE -(w.bid + d)))}
    BY <1>2 DEF sample_price
  <2> HIDE DEF w
  <2>3. mid + (w.ask + d) = (mid + w.ask) + d /\ mid + (-(w.bid + d)) = (mid - w.bid) - d
    BY <1>1, <2>1
  <2>4. BestAsk(mid, hot) = mid + w.ask /\ BestBid(mid, hot) = mid - w.bid
    BY DEF BestAsk, BestBid, w
  <2>5. CASE (s = "buy") = a
    BY <2>2, <2>3, <2>4, <2>5
  <2>6. CASE (s = "buy") # a
    BY <2>2, <2>3, <2>4, <2>6
  <2> QED BY <2>5, <2>6
<1>6. mid + (-w.bid) = BestBid(mid, hot)
  <2> HIDE DEF w
  <2>1. mid + (-w.bid) = mid - w.bid
    BY <1>1
  <2> QED BY <2>1 DEF BestBid, w
<1> QED BY <1>3, <1>4, <1>5, <1>6

(* Whatever lround gives, a price drawn is positive and on the grid. *)
LEMMA PricesOnGrid ==
  ASSUME profile \in Profiles, NEW s \in Side, NEW px \in SampledPrices(s)
  PROVE  px \in Int /\ px > 0 /\ px % tick = 0
<1>1. PICK mid \in profile.mids, hot \in HotExtra, a \in BOOLEAN :
        px \in UNION {sample_price(s, mid, hot, a, d) : d \in Depths(a)}
  BY DEF SampledPrices
<1>2. PICK d \in Depths(a) : px \in sample_price(s, mid, hot, a, d)
  BY <1>1
<1> DEFINE w == bid_ask_half_width_price(hot)
           x == IF (s = "buy") = a THEN w.ask + d ELSE -(w.bid + d)
<1>3. PICK rounded \in lround(mid, x) : px = SnapRounded(rounded)
  BY <1>2 DEF sample_price, snap_to_tick
<1>4. tick \in Nat \ {0} /\ mid \in Int
  BY TickFacts
<1>5. x \in Int
  <2>1. w.bid \in Int /\ w.ask \in Int /\ d \in Int
    BY WidthFacts, DepthFacts
  <2> HIDE DEF w
  <2> QED BY <2>1
<1> HIDE DEF x
<1>6. rounded \in Int
  BY <1>3, <1>4, <1>5, GeneratorAssumption DEF lround
<1>7. px \in Int /\ px >= tick /\ px % tick = 0
  BY <1>3, <1>4, <1>6, SnapFacts
<1> QED BY <1>4, <1>7

(* One draw, seen from the touch. *)
LEMMA QuoteFacts ==
  ASSUME profile \in Profiles, NEW mid \in profile.mids \ {Wild}, NEW hot \in HotExtra,
         NEW s \in Side, NEW a \in BOOLEAN, NEW d \in Depths(a), profile.tick_size >= 0
  PROVE  LET bid == SnapRounded(BestBid(mid, hot))
             ask == SnapRounded(BestAsk(mid, hot))
             px  == SnapRounded(IF (s = "buy") = a THEN BestAsk(mid, hot) + d
                                                   ELSE BestBid(mid, hot) - d)
         IN  CASE s = "buy" /\ ~a  -> px <= bid
               [] s = "sell" /\ ~a -> px >= ask
               [] s = "buy" /\ a   -> px >= ask + profile.tick_size
               [] s = "sell" /\ a  -> px <= Larger(bid - profile.tick_size, tick)
<1> DEFINE b == BestBid(mid, hot)
           k == BestAsk(mid, hot)
           t == profile.tick_size
           px == SnapRounded(IF (s = "buy") = a THEN k + d ELSE b - d)
<1>1. tick \in Nat \ {0} /\ t \in Int /\ (t > 0 => tick = t) /\ mid \in Nat
  BY TickFacts
<1>2. b \in Int /\ k \in Int /\ mid + tick <= k
  BY SpreadFacts
<1>3. d \in Int /\ (t >= 0 => d >= 0) /\ (t >= 0 /\ a => d >= t)
  BY DepthFacts
<1>4. px = IF (s = "buy") = a THEN SnapRounded(k + d) ELSE SnapRounded(b - d)
  OBVIOUS
<1>5. s = "buy" \/ s = "sell"
  BY DEF Side
<1> HIDE DEF b, k, t, px
<1>6. k + d \in Int /\ b - d \in Int /\ k >= tick
  BY <1>1, <1>2, <1>3
<1>7. px \in Int /\ px >= tick /\ px % tick = 0
  BY <1>1, <1>4, <1>6, SnapFacts
<1>8. /\ SnapRounded(b) \in Int /\ SnapRounded(b) >= tick
      /\ SnapRounded(k) \in Int /\ SnapRounded(k + tick) = SnapRounded(k) + tick
  BY <1>1, <1>2, <1>6, SnapFacts
<1>9. ASSUME t >= 0, s = "buy", ~a PROVE px <= SnapRounded(b)
  <2>1. px = SnapRounded(b - d)
    BY <1>4, <1>9
  <2>2. b - d <= b
    BY <1>2, <1>3, <1>9
  <2> QED BY <1>1, <1>2, <1>6, <2>1, <2>2, SnapOrder
<1>10. ASSUME t >= 0, s = "sell", ~a PROVE px >= SnapRounded(k)
  <2>1. px = SnapRounded(k + d)
    BY <1>4, <1>10
  <2>2. k <= k + d
    BY <1>2, <1>3, <1>10
  <2>3. SnapRounded(k) <= px
    BY <1>1, <1>2, <1>6, <2>1, <2>2, SnapOrder
  <2> QED BY <1>7, <1>8, <2>3
<1>11. ASSUME t >= 0, s = "buy", a PROVE px >= SnapRounded(k) + t
  <2>1. px = SnapRounded(k + d) /\ d >= t
    BY <1>3, <1>4, <1>11
  <2>2. CASE t = 0
    <3>1. k <= k + d
      BY <1>1, <1>2, <1>3, <2>1, <2>2
    <3>2. SnapRounded(k) <= px
      BY <1>1, <1>2, <1>6, <2>1, <3>1, SnapOrder
    <3> QED BY <1>7, <1>8, <2>2, <3>2
  <2>3. CASE t > 0
    <3>1. tick = t /\ k + tick <= k + d /\ k + tick \in Int
      BY <1>1, <1>2, <1>3, <2>1, <2>3
    <3>2. SnapRounded(k + tick) <= px
      BY <1>1, <1>6, <2>1, <3>1, SnapOrder
    <3> QED BY <1>1, <1>7, <1>8, <3>1, <3>2
  <2> QED BY <1>1, <1>11, <2>2, <2>3
<1>12. ASSUME t >= 0, s = "sell", a PROVE px <= Larger(SnapRounded(b) - t, tick)
  <2>1. px = SnapRounded(b - d) /\ d >= t
    BY <1>3, <1>4, <1>12
  <2>2. CASE t = 0
    <3>1. b - d <= b
      BY <1>1, <1>2, <1>3, <2>1, <2>2
    <3>2. px <= SnapRounded(b)
      BY <1>1, <1>2, <1>6, <2>1, <3>1, SnapOrder
    <3> QED BY <1>1, <1>7, <1>8, <2>2, <3>2 DEF Larger
  <2>3. CASE t > 0
    <3>1. tick = t /\ b - d <= b - tick /\ b - tick \in Int
      BY <1>1, <1>2, <1>3, <2>1, <2>3
    <3>2. px <= SnapRounded(b - tick)
      BY <1>1, <1>6, <2>1, <3>1, SnapOrder
    <3>3. CASE b - tick >= tick
      <4>1. SnapRounded((b - tick) + tick) = SnapRounded(b - tick) + tick
            /\ SnapRounded(b - tick) \in Int
        BY <1>1, <3>1, <3>3, SnapFacts
      <4>2. (b - tick) + tick = b
        BY <1>1, <1>2
      <4>3. SnapRounded(b) = SnapRounded(b - tick) + tick
        BY <4>1, <4>2
      <4> QED BY <1>1, <1>7, <1>8, <3>1, <3>2, <4>1, <4>3 DEF Larger
    <3>4. CASE b - tick <= tick
      <4>1. SnapRounded(b - tick) = tick
        BY <1>1, <3>1, <3>4, SnapFacts
      <4> QED BY <1>1, <1>7, <1>8, <3>1, <3>2, <4>1 DEF Larger
    <3> QED BY <1>1, <3>1, <3>3, <3>4
  <2> QED BY <1>1, <1>12, <2>2, <2>3
<1>13. (CASE s = "buy" /\ ~a  -> px <= SnapRounded(b)
          [] s = "sell" /\ ~a -> px >= SnapRounded(k)
          [] s = "buy" /\ a   -> px >= SnapRounded(k) + t
          [] s = "sell" /\ a  -> px <= Larger(SnapRounded(b) - t, tick))
  <2>1. t >= 0
    BY DEF t
  <2> QED BY <1>5, <1>9, <1>10, <1>11, <1>12, <2>1
<1> QED BY <1>13 DEF b, k, t, px

(* The profile is fixed. *)
LEMMA ProfileFixed == generatedSpec => [](profile \in Profiles)
<1>1. generatedInit => profile \in Profiles
  BY DEF generatedInit, genInit
<1>2. profile \in Profiles /\ [generatedNext]_allVars => (profile \in Profiles)'
  BY DEF generatedNext, FeedAdd, FeedCancel, Handle, StreamOver, next_add, next_cancel,
         genVars, allVars
<1> QED BY <1>1, <1>2, PTL DEF generatedSpec

(* Every quote drawn from any profile, with any overrides and from any mid,   *)
(* wild ones included, is one the book accepts; and where the mid is a number *)
(* and the tick size is not negative it lies on the side of the touch that    *)
(* its kind says (order_generator.hpp:24, 111-137, 199-219).                  *)
THEOREM QuotesAreSound == generatedSpec => []QuotesRespectTouch
<1>1. profile \in Profiles => QuotesRespectTouch
  <2> SUFFICES ASSUME profile \in Profiles PROVE QuotesRespectTouch
    OBVIOUS
  <2>1. \A q \in sample_quantity : q > 0
    <3>1. profile.qty_min \in Int /\ profile.qty_max \in Int
      BY GeneratorAssumption
    <3> QED BY <3>1 DEF sample_quantity, Larger
  <2>2. ASSUME NEW mid \in profile.mids \ {Wild}, NEW hot \in HotExtra, mid >= tick
        PROVE  SnapRounded(BestBid(mid, hot)) < SnapRounded(BestAsk(mid, hot))
    <3> DEFINE b == BestBid(mid, hot)
               k == BestAsk(mid, hot)
    <3>1. tick \in Nat \ {0} /\ mid \in Nat
      BY TickFacts
    <3>2. b \in Int /\ b <= mid - tick /\ k \in Int /\ mid + tick <= k
      BY SpreadFacts
    <3> HIDE DEF b, k
    <3>3. SnapRounded(mid + tick) = SnapRounded(mid) + tick /\ SnapRounded(mid) \in Int
      BY <2>2, <3>1, SnapFacts
    <3>4. SnapRounded(b) \in Int /\ SnapRounded(k) \in Int
      BY <3>1, <3>2, SnapFacts
    <3>5. SnapRounded(b) <= SnapRounded(mid)
      <4>1. b <= mid /\ mid \in Int
        BY <3>1, <3>2
      <4> QED BY <3>1, <3>2, <4>1, SnapOrder
    <3>6. SnapRounded(mid + tick) <= SnapRounded(k)
      BY <3>1, <3>2, SnapOrder
    <3>7. SnapRounded(b) < SnapRounded(k)
      BY <3>1, <3>3, <3>4, <3>5, <3>6
    <3> QED BY <3>7 DEF b, k
  <2>3. ASSUME NEW mid \in profile.mids \ {Wild}, NEW hot \in HotExtra,
               NEW bid \in current_best_bid(mid, hot), NEW ask \in current_best_ask(mid, hot)
        PROVE  /\ mid >= tick => bid < ask
               /\ profile.tick_size >= 0 =>
                    \A s \in Side, a \in BOOLEAN : \A d \in Depths(a) :
                      \A px \in sample_price(s, mid, hot, a, d) :
                        CASE s = "buy" /\ ~a  -> px <= bid
                          [] s = "sell" /\ ~a -> px >= ask
                          [] s = "buy" /\ a   -> px >= ask + profile.tick_size
                          [] s = "sell" /\ a  ->
                               px <= Larger(bid - profile.tick_size, tick)
    <3>1. bid = SnapRounded(BestBid(mid, hot)) /\ ask = SnapRounded(BestAsk(mid, hot))
      BY <2>3, OneQuote
    <3>2. mid >= tick => bid < ask
      BY <2>2, <3>1
    <3>3. ASSUME profile.tick_size >= 0, NEW s \in Side, NEW a \in BOOLEAN,
                 NEW d \in Depths(a), NEW px \in sample_price(s, mid, hot, a, d)
          PROVE  CASE s = "buy" /\ ~a  -> px <= bid
                   [] s = "sell" /\ ~a -> px >= ask
                   [] s = "buy" /\ a   -> px >= ask + profile.tick_size
                   [] s = "sell" /\ a  -> px <= Larger(bid - profile.tick_size, tick)
      <4>1. px = SnapRounded(IF (s = "buy") = a THEN BestAsk(mid, hot) + d
                                                ELSE BestBid(mid, hot) - d)
        BY <3>3, OneQuote
      <4> QED BY <3>1, <3>3, <4>1, QuoteFacts
    <3> QED BY <3>2, <3>3, Zenon
  <2>4. \A s \in Side : \A px \in SampledPrices(s) : px > 0 /\ px % tick = 0
    BY PricesOnGrid
  <2> QED BY <2>1, <2>3, <2>4, Zenon DEF QuotesRespectTouch
<1> QED BY <1>1, ProfileFixed, PTL

------------------------------------------------------------------------------
(* The generator: live_ holds every id issued and not yet cancelled, once. *)
Entry == [id: Int, side: Side, price: Price]

StreamInv ==
  /\ profile \in Profiles
  /\ last_order_id \in Nat /\ 1 .. last_order_id \subseteq OrderId
  /\ live \in Seq(Entry)
  /\ cancelled \subseteq 1 .. last_order_id
  /\ LiveIds = (1 .. last_order_id) \ cancelled
  /\ \A i, j \in DOMAIN live : live[i].id = live[j].id => i = j

(* Overwriting an entry by the last and popping the last removes that entry *)
(* and no other (order_generator.hpp:85-90).                                *)
LEMMA RemovedEntries ==
  ASSUME NEW S, live \in Seq(S), NEW i \in DOMAIN live
  PROVE  /\ Removed(i) \in Seq(S) /\ DOMAIN Removed(i) = 1 .. Len(live) - 1
         /\ DOMAIN live = 1 .. Len(live) /\ Len(live) \in Nat
         /\ \A j \in 1 .. Len(live) - 1 : Removed(i)[j] = IF j = i THEN live[Len(live)] ELSE live[j]
<1> DEFINE n == Len(live)
           s == [live EXCEPT ![i] = live[n]]
<1>1. n \in Nat /\ DOMAIN live = 1 .. n /\ i \in 1 .. n /\ n \in 1 .. n /\ live \in [1 .. n -> S]
  BY LenProperties
<1> HIDE DEF n
<1>2. \A j \in 1 .. n : s[j] \in S /\ s[j] = IF j = i THEN live[n] ELSE live[j]
  BY <1>1
<1>3. 1 \in Int /\ n - 1 \in Int /\ \A j \in 1 .. n - 1 : s[j] \in S
  BY <1>1, <1>2
<1> HIDE DEF s
<1>4. /\ SubSeq(s, 1, n - 1) \in Seq(S)
      /\ Len(SubSeq(s, 1, n - 1)) = IF 1 <= n - 1 THEN (n - 1) - 1 + 1 ELSE 0
      /\ \A j \in 1 .. (n - 1) - 1 + 1 : SubSeq(s, 1, n - 1)[j] = s[1 + j - 1]
  BY <1>3, SubSeqProperties
<1>5. Removed(i) = SubSeq(s, 1, n - 1)
  BY DEF Removed, s, n
<1>6. DOMAIN Removed(i) = 1 .. Len(Removed(i))
  BY <1>4, <1>5, LenProperties
<1>7. Len(Removed(i)) = n - 1
  BY <1>1, <1>4, <1>5
<1>8. ASSUME NEW j \in 1 .. n - 1 PROVE Removed(i)[j] = s[j]
  <2>1. j \in 1 .. (n - 1) - 1 + 1 /\ 1 + j - 1 = j
    BY <1>1
  <2> QED BY <1>4, <1>5, <2>1
<1> QED BY <1>1, <1>2, <1>4, <1>5, <1>6, <1>7, <1>8 DEF n

(* An add is drawn with the next id and positive numbers. *)
LEMMA DrawnAdd ==
  ASSUME profile \in Profiles, NEW e \in NextAdds
  PROVE  /\ e.order_id = last_order_id + 1 /\ e.tif = "gtc" /\ e.type = "add"
         /\ e.side \in Side /\ e.quantity > 0 /\ e.price > 0
<1>1. PICK s \in Side : e \in [type: {"add"}, order_id: {last_order_id + 1}, side: {s},
                              quantity: sample_quantity, price: SampledPrices(s), tif: {"gtc"}]
  BY DEF NextAdds, sample_side
<1>2. e.quantity > 0
  <2>1. profile.qty_min \in Int /\ profile.qty_max \in Int
    BY GeneratorAssumption
  <2> QED BY <1>1, <2>1 DEF sample_quantity, Larger
<1>3. e.price > 0
  BY <1>1, PricesOnGrid
<1> QED BY <1>1, <1>2, <1>3

LEMMA StreamAdd ==
  ASSUME StreamInv, NEW e \in NextAdds, FeedAdd(e)
  PROVE  StreamInv'
<1>1. /\ e \in AddEvent /\ last_order_id' = e.order_id
      /\ live' = Append(live, [id |-> e.order_id, side |-> e.side, price |-> e.price])
      /\ profile' = profile /\ cancelled' = cancelled
  BY DEF FeedAdd, next_add
<1> DEFINE x == [id |-> e.order_id, side |-> e.side, price |-> e.price]
           n == Len(live)
           k == last_order_id
<1>2. e.order_id = k + 1 /\ k \in Nat /\ live \in Seq(Entry) /\ 1 .. k \subseteq OrderId
  BY DrawnAdd DEF StreamInv
<1>3. e.order_id \in OrderId /\ e.order_id \in Int /\ e.side \in Side /\ e.price \in Price
  BY <1>1, AddFields
<1>4. x \in Entry /\ x.id = k + 1
  BY <1>2, <1>3 DEF Entry
<1>5. n \in Nat /\ DOMAIN live = 1 .. n
  BY <1>2, LenProperties
<1> HIDE DEF x
<1>6. /\ live' \in Seq(Entry) /\ Len(live') = n + 1
      /\ \A i \in 1 .. n : live'[i] = live[i]
      /\ live'[n + 1] = x
  BY <1>1, <1>2, <1>4, AppendProperties DEF x
<1>7. DOMAIN live' = 1 .. n + 1
  BY <1>6, LenProperties
<1>8. \A i \in 1 .. n : live[i].id \in (1 .. k) \ cancelled
  BY <1>5 DEF StreamInv, LiveIds
<1> HIDE DEF n, k
<1>9. \A i \in 1 .. n + 1 : i \in 1 .. n \/ i = n + 1
  BY <1>5 DEF n
<1>10. \A i \in 1 .. n : live[i].id # k + 1
  BY <1>2, <1>8 DEF k
<1>11. LiveIds' = LiveIds \cup {k + 1}
  <2>1. LiveIds' = {live'[i].id : i \in 1 .. n + 1}
    BY <1>7 DEF LiveIds
  <2>2. LiveIds = {live[i].id : i \in 1 .. n}
    BY <1>5 DEF LiveIds, n
  <2>3. n + 1 \in 1 .. n + 1 /\ 1 .. n \subseteq 1 .. n + 1
    BY <1>5 DEF n
  <2> QED BY <1>4, <1>6, <1>9, <2>1, <2>2, <2>3 DEF n, k
<1>12. LiveIds' = (1 .. k + 1) \ cancelled
  <2>1. 1 .. k + 1 = (1 .. k) \cup {k + 1} /\ k + 1 \notin 1 .. k
    BY <1>2 DEF k
  <2>2. cancelled \subseteq 1 .. k /\ LiveIds = (1 .. k) \ cancelled
    BY DEF StreamInv, k
  <2> QED BY <1>11, <2>1, <2>2
<1>13. ASSUME NEW i \in DOMAIN live', NEW j \in DOMAIN live', live'[i].id = live'[j].id PROVE i = j
  <2>1. CASE i \in 1 .. n /\ j \in 1 .. n
    <3>1. live[i].id = live[j].id /\ i \in DOMAIN live /\ j \in DOMAIN live
      BY <1>5, <1>6, <1>13, <2>1 DEF n
    <3> QED BY <3>1 DEF StreamInv
  <2> QED BY <1>4, <1>6, <1>7, <1>9, <1>10, <1>13, <2>1 DEF n, k
<1>14. 1 .. k + 1 \subseteq OrderId /\ k + 1 \in Nat /\ cancelled \subseteq 1 .. k + 1
  <2>1. 1 .. k + 1 = (1 .. k) \cup {k + 1} /\ k + 1 \in Nat
    BY <1>2 DEF k
  <2>2. cancelled \subseteq 1 .. k
    BY DEF StreamInv, k
  <2> QED BY <1>2, <1>3, <2>1, <2>2 DEF k
<1> QED BY <1>1, <1>2, <1>6, <1>12, <1>13, <1>14 DEF StreamInv, n, k

LEMMA StreamCancel ==
  ASSUME StreamInv, NEW i \in sample_cancel_index, FeedCancel(i)
  PROVE  StreamInv'
<1> DEFINE n == Len(live)
<1>1. live' = Removed(i) /\ cancelled' = cancelled \cup {live[i].id} /\ i \in DOMAIN live
      /\ UNCHANGED <<profile, last_order_id>>
  BY DEF FeedCancel, next_cancel, sample_cancel_index
<1>2. live \in Seq(Entry)
  BY DEF StreamInv
<1>3. /\ live' \in Seq(Entry) /\ DOMAIN live' = 1 .. n - 1
      /\ DOMAIN live = 1 .. n /\ n \in Nat
      /\ \A j \in 1 .. n - 1 : live'[j] = IF j = i THEN live[n] ELSE live[j]
  BY <1>1, <1>2, RemovedEntries
<1> HIDE DEF n
<1>4. i \in 1 .. n /\ n \in 1 .. n /\ 1 .. n - 1 \subseteq 1 .. n
      /\ \A j \in 1 .. n : j # n => j \in 1 .. n - 1
  BY <1>1, <1>3
<1>5. n \notin 1 .. n - 1
  BY <1>3
<1>6. LiveIds = {live[j].id : j \in 1 .. n} /\ LiveIds' = {live'[j].id : j \in 1 .. n - 1}
  BY <1>3 DEF LiveIds
<1>7. \A j, m \in 1 .. n : live[j].id = live[m].id => j = m
  BY <1>3 DEF StreamInv
<1>8. LiveIds' = LiveIds \ {live[i].id}
  <2>1. ASSUME NEW id \in LiveIds' PROVE id \in LiveIds /\ id # live[i].id
    BY <1>3, <1>4, <1>5, <1>6, <1>7, <2>1
  <2>2. ASSUME NEW id \in LiveIds, id # live[i].id PROVE id \in LiveIds'
    <3>1. PICK j \in 1 .. n : id = live[j].id /\ j # i
      BY <1>6, <2>2
    <3>2. CASE j = n
      BY <1>3, <1>4, <1>6, <3>1, <3>2
    <3>3. CASE j # n
      BY <1>3, <1>4, <1>6, <3>1, <3>3
    <3> QED BY <3>2, <3>3
  <2> QED BY <2>1, <2>2
<1>9. live[i].id \in 1 .. last_order_id /\ cancelled \subseteq 1 .. last_order_id
      /\ LiveIds = (1 .. last_order_id) \ cancelled
  BY <1>4, <1>6 DEF StreamInv
<1>10. \A j, m \in DOMAIN live' : live'[j].id = live'[m].id => j = m
  BY <1>3, <1>4, <1>5, <1>7
<1> QED BY <1>1, <1>3, <1>8, <1>9, <1>10 DEF StreamInv

LEMMA StreamNext == StreamInv /\ [generatedNext]_allVars => StreamInv'
<1>1. ASSUME StreamInv, UNCHANGED genVars PROVE StreamInv'
  BY <1>1 DEF genVars, StreamInv, LiveIds
<1> QED BY <1>1, StreamAdd, StreamCancel DEF generatedNext, Handle, StreamOver, allVars

LEMMA StreamHolds == generatedSpec => []StreamInv
<1>1. generatedInit => StreamInv
  <2> SUFFICES ASSUME generatedInit PROVE StreamInv
    OBVIOUS
  <2>1. profile \in Profiles /\ last_order_id = 0 /\ live = <<>> /\ cancelled = {}
    BY DEF generatedInit, genInit
  <2>2. 1 .. 0 = {} /\ DOMAIN live = {} /\ live \in Seq(Entry)
    BY <2>1
  <2> QED BY <2>1, <2>2 DEF StreamInv, LiveIds
<1> QED BY <1>1, StreamNext, PTL DEF generatedSpec

(* A generated stream drives the book as any input does. *)
LEMMA BookStepInStream == StreamInv /\ [generatedNext]_allVars => [Next]_vars
<1> SUFFICES ASSUME StreamInv, [generatedNext]_allVars PROVE [Next]_vars
  OBVIOUS
<1>1. ASSUME NEW e \in NextAdds, FeedAdd(e) PROVE Next
  <2>1. e \in AddEvent /\ BookBegin(e) /\ e.type = "add"
    BY <1>1, AddFields DEF FeedAdd
  <2> QED BY <2>1 DEF BookBegin, Next
<1>2. ASSUME NEW i \in sample_cancel_index, FeedCancel(i) PROVE Next
  <2> DEFINE e == CancelAt(i)
  <2>1. live[i].id \in OrderId
    BY DEF StreamInv, LiveIds, sample_cancel_index
  <2>2. e \in CancelEvent /\ e.type = "cancel"
    BY <2>1 DEF CancelAt, CancelEvent
  <2>3. BookBegin(e)
    BY <1>2 DEF FeedCancel
  <2> HIDE DEF e
  <2> QED BY <2>2, <2>3 DEF BookBegin, Next
<1>3. CASE Handle
  BY <1>3 DEF Handle, HandlerStep, Next
<1>4. CASE StreamOver \/ UNCHANGED allVars
  BY <1>4 DEF StreamOver, allVars
<1> QED BY <1>1, <1>2, <1>3, <1>4 DEF generatedNext

(* The benchmark's workload runs the book: whatever a generator draws is an   *)
(* input the handlers accept, so all that is proved of clob_t holds of it     *)
(* (benchmark.hpp, pre_generate and the timed loop).                          *)
THEOREM StreamRunsBook == generatedSpec => Spec
<1>1. generatedInit => Init
  BY DEF generatedInit
<1> QED BY <1>1, StreamHolds, BookStepInStream, PTL DEF generatedSpec, Spec

------------------------------------------------------------------------------
(* What the events of a handler say of orders that ended. *)
LEMMA EndedNone == Ended(<<>>) = {}
BY DEF Ended

LEMMA EndedOne ==
  ASSUME NEW x, x.tag # "TRD"
  PROVE  Ended(<<x>>) = {<<x.order_id, x.tag>>}
<1>1. DOMAIN <<x>> = {1} /\ <<x>>[1] = x
  OBVIOUS
<1>2. {j \in DOMAIN <<x>> : <<x>>[j].tag # "TRD"} = {1}
  BY <1>1
<1> QED BY <1>1, <1>2 DEF Ended

LEMMA EndedAppend ==
  ASSUME NEW S, NEW s \in Seq(S), NEW x, x.tag # "TRD"
  PROVE  Ended(Append(s, x)) = Ended(s) \cup {<<x.order_id, x.tag>>}
<1> DEFINE n == Len(s)
           t == Append(s, x)
<1>1. n \in Nat /\ DOMAIN s = 1 .. n /\ DOMAIN t = 1 .. n + 1 /\ t[n + 1] = x
      /\ \A j \in 1 .. n : t[j] = s[j]
  OBVIOUS
<1> HIDE DEF n, t
<1>2. {j \in DOMAIN t : t[j].tag # "TRD"} = {j \in DOMAIN s : s[j].tag # "TRD"} \cup {n + 1}
  BY <1>1
<1>3. Ended(t) = Ended(s) \cup {<<x.order_id, x.tag>>}
  BY <1>1, <1>2 DEF Ended
<1> QED BY <1>3 DEF t

LEMMA EndedTrade ==
  ASSUME NEW S, NEW s \in Seq(S), NEW y, y.tag = "TRD", NEW x, x.tag # "TRD"
  PROVE  Ended(s \o <<y, x>>) = Ended(s) \cup {<<x.order_id, x.tag>>}
<1> DEFINE n == Len(s)
           t == s \o <<y, x>>
<1>1. n \in Nat /\ DOMAIN s = 1 .. n /\ DOMAIN t = 1 .. n + 2 /\ t[n + 1] = y /\ t[n + 2] = x
      /\ \A j \in 1 .. n : t[j] = s[j]
  OBVIOUS
<1> HIDE DEF n, t
<1>2. {j \in DOMAIN t : t[j].tag # "TRD"} = {j \in DOMAIN s : s[j].tag # "TRD"} \cup {n + 2}
  BY <1>1
<1>3. Ended(t) = Ended(s) \cup {<<x.order_id, x.tag>>}
  BY <1>1, <1>2 DEF Ended
<1> QED BY <1>3 DEF t

(* The fates known so far, those of the handler in progress included, and the *)
(* orders that have one: all that were issued, except an add being matched.   *)
Outcomes == fates \cup Ended(emitted)
Arriving(id) == pc \in {"ladder", "level"} /\ id = event.order_id
Known == {id \in 1 .. last_order_id : ~Arriving(id)}

(* An add being matched is the last one issued, and live_ knows it. *)
ArrivalIsLive ==
  pc \in {"ladder", "level"} =>
    /\ event.tif = "gtc" /\ event.order_id = last_order_id
    /\ \E i \in DOMAIN live :
         live[i] = [id |-> event.order_id, side |-> event.side, price |-> event.price]

(* A known order was filled, was cancelled or rests, and only one of these. *)
OneFateEach ==
  /\ \A id \in OrderId : lookup[id] # Null => id \in Known
  /\ \A o \in Outcomes : o[1] \in Known
  /\ \A id \in Known :
       /\ <<id, "FIL">> \in Outcomes => <<id, "CAN">> \notin Outcomes /\ lookup[id] = Null
       /\ <<id, "CAN">> \in Outcomes => lookup[id] = Null
       /\ <<id, "FIL">> \in Outcomes \/ <<id, "CAN">> \in Outcomes \/ lookup[id] # Null

LiveAgrees ==
  \A i \in DOMAIN live :
    LET n == lookup[live[i].id]
    IN  n # Null => node[n].side = live[i].side /\ node[n].price = live[i].price

(* A cancel was answered once, by a cancel or by a reject after a fill. *)
CancelsAnswered ==
  /\ \A o \in Outcomes : o[2] \in {"CAN", "REJ"} => o[1] \in cancelled
  /\ \A id \in cancelled :
       \/ <<id, "CAN">> \in Outcomes
       \/ <<id, "FIL">> \in Outcomes /\ <<id, "REJ">> \in Outcomes

FateInv ==
  /\ pc = "idle" => emitted = <<>>
  /\ ArrivalIsLive /\ OneFateEach /\ LiveAgrees /\ CancelsAnswered

(* A step that settles nothing. *)
LEMMA FateKept ==
  ASSUME FateInv, Outcomes' = Outcomes, Known' = Known, ArrivalIsLive',
         pc' = "idle" => emitted' = <<>>,
         UNCHANGED <<node, lookup, live, cancelled>>
  PROVE  FateInv'
<1>1. OneFateEach'
  BY DEF FateInv, OneFateEach
<1>2. LiveAgrees'
  BY DEF FateInv, LiveAgrees
<1>3. CancelsAnswered'
  BY DEF FateInv, CancelsAnswered
<1> QED BY <1>1, <1>2, <1>3 DEF FateInv

LEMMA FateAdd ==
  ASSUME TypeOK, StreamInv, FateInv, NEW e \in NextAdds, FeedAdd(e)
  PROVE  FateInv'
<1>1. /\ e \in AddEvent /\ e.order_id = last_order_id + 1 /\ e.tif = "gtc" /\ e.type = "add"
      /\ e.quantity > 0 /\ e.price > 0 /\ last_order_id \in Nat
  BY DrawnAdd DEF FeedAdd, StreamInv
<1>2. ~Invalid(e)
  BY <1>1, AddFields DEF Invalid
<1>3. BeginMatch(e)
  BY <1>1, <1>2 DEF FeedAdd, BookBegin, RejectAdd, KillFok
<1>4. /\ pc = "idle" /\ pc' = "ladder" /\ event' = e /\ emitted' = <<>> /\ emitted = <<>>
      /\ UNCHANGED <<node, lookup>>
  BY <1>3 DEF BeginMatch, book, FateInv
<1>5. /\ last_order_id' = last_order_id + 1 /\ cancelled' = cancelled /\ fates' = fates
      /\ live' = Append(live, [id |-> e.order_id, side |-> e.side, price |-> e.price])
  BY <1>1 DEF FeedAdd, next_add
<1>6. Outcomes' = Outcomes
  BY <1>4, <1>5 DEF Outcomes
<1>7. Known = 1 .. last_order_id
  BY <1>4 DEF Known, Arriving
<1>8. Known' = Known
  <2>1. Known' = {id \in 1 .. last_order_id + 1 : id # last_order_id + 1}
    BY <1>1, <1>4, <1>5 DEF Known, Arriving
  <2> QED BY <1>1, <1>7, <2>1
<1> DEFINE x == [id |-> e.order_id, side |-> e.side, price |-> e.price]
           n == Len(live)
<1>9. x \in Entry /\ live \in Seq(Entry)
  BY <1>1, AddFields DEF Entry, StreamInv
<1>10. /\ n \in Nat /\ DOMAIN live = 1 .. n /\ DOMAIN live' = 1 .. n + 1 /\ live'[n + 1] = x
       /\ \A i \in 1 .. n : live'[i] = live[i]
  <2> HIDE DEF x
  <2>1. live' = Append(live, x)
    BY <1>5 DEF x
  <2> QED BY <1>9, <2>1
<1> HIDE DEF n
<1>11. ArrivalIsLive'
  <2>1. n + 1 \in DOMAIN live'
    BY <1>10
  <2> QED BY <1>1, <1>4, <1>5, <1>10, <2>1 DEF ArrivalIsLive
<1>12. LiveAgrees'
  <2>1. ASSUME NEW i \in DOMAIN live', lookup[live'[i].id] # Null
        PROVE  i \in 1 .. n
    <3>1. CASE i = n + 1
      <4>1. live'[i].id = last_order_id + 1 /\ e.order_id \in OrderId
        BY <1>1, <1>10, <3>1, AddFields
      <4>2. last_order_id + 1 \in Known
        BY <1>1, <2>1, <4>1 DEF FateInv, OneFateEach
      <4> QED BY <1>1, <1>7, <4>2
    <3> QED BY <1>10, <3>1
  <2> QED BY <1>4, <1>10, <2>1 DEF FateInv, LiveAgrees
<1>13. OneFateEach'
  BY <1>4, <1>6, <1>8 DEF FateInv, OneFateEach
<1>14. CancelsAnswered'
  BY <1>5, <1>6, <1>8 DEF FateInv, CancelsAnswered
<1> QED BY <1>4, <1>11, <1>12, <1>13, <1>14 DEF FateInv

(* The order a generated cancel names, and what is left of live_. *)
LEMMA CancelFacts ==
  ASSUME TypeOK, StreamInv, FateInv, NEW i \in sample_cancel_index, FeedCancel(i),
         NEW id, id = live[i].id
  PROVE  /\ pc = "idle" /\ emitted = <<>> /\ fates' = fates /\ last_order_id' = last_order_id
         /\ CancelAt(i) \in CancelEvent /\ CancelAt(i).order_id = id
         /\ RejectCancel(CancelAt(i)) \/ CancelResting(CancelAt(i))
         /\ id \in OrderId /\ id > 0 /\ id \in Known /\ id \notin cancelled
         /\ cancelled' = cancelled \cup {id} /\ Known = 1 .. last_order_id /\ pc' = "done"
         /\ Known' = Known
         /\ \A j \in DOMAIN live' : live'[j].id # id /\ \E m \in DOMAIN live : live'[j] = live[m]
<1>1. live[i].id \in (1 .. last_order_id) \ cancelled /\ 1 .. last_order_id \subseteq OrderId
      /\ i \in DOMAIN live /\ live \in Seq(Entry)
  BY DEF StreamInv, LiveIds, sample_cancel_index
<1>2. /\ live' = Removed(i) /\ cancelled' = cancelled \cup {id} /\ fates' = fates
      /\ last_order_id' = last_order_id /\ BookBegin(CancelAt(i))
  BY DEF FeedCancel, next_cancel
<1> DEFINE e == CancelAt(i)
<1>3. e \in CancelEvent /\ e.type = "cancel" /\ e.order_id = id
  BY <1>1 DEF CancelAt, CancelEvent
<1>4. RejectCancel(e) \/ CancelResting(e)
  <2> HIDE DEF e
  <2> QED BY <1>2, <1>3 DEF BookBegin, e
<1>5. pc = "idle" /\ pc' = "done" /\ emitted = <<>>
  <2>1. pc = "idle" /\ pc' = "done"
    BY <1>4 DEF RejectCancel, CancelResting
  <2> QED BY <2>1 DEF FateInv
<1>6. Known = 1 .. last_order_id /\ Known' = 1 .. last_order_id
  BY <1>2, <1>5 DEF Known, Arriving
<1>7. /\ DOMAIN live' = 1 .. Len(live) - 1 /\ DOMAIN live = 1 .. Len(live) /\ Len(live) \in Nat
      /\ \A j \in 1 .. Len(live) - 1 : live'[j] = IF j = i THEN live[Len(live)] ELSE live[j]
  BY <1>1, <1>2, RemovedEntries
<1>8. ASSUME NEW j \in DOMAIN live' PROVE live'[j].id # id /\ \E m \in DOMAIN live : live'[j] = live[m]
  <2> DEFINE n == Len(live)
             m == IF j = i THEN n ELSE j
  <2>1. m \in DOMAIN live /\ m # i /\ live'[j] = live[m]
    BY <1>1, <1>7
  <2> HIDE DEF m
  <2>2. live[m].id # live[i].id
    BY <1>1, <2>1 DEF StreamInv
  <2> QED BY <2>1, <2>2
<1>9. id > 0
  BY <1>1 DEF StreamInv
<1> QED BY <1>1, <1>2, <1>3, <1>4, <1>5, <1>6, <1>8, <1>9

(* The book refuses a cancel only of an order that was filled. *)
LEMMA FateReject ==
  ASSUME TypeOK, Structure, StreamInv, FateInv,
         NEW i \in sample_cancel_index, FeedCancel(i), RejectCancel(CancelAt(i))
  PROVE  FateInv'
<1>1. PICK id, e : id = live[i].id /\ e = CancelAt(i)
  OBVIOUS
<1>2. /\ pc = "idle" /\ emitted = <<>> /\ fates' = fates
      /\ e \in CancelEvent /\ e.order_id = id
      /\ id \in OrderId /\ id > 0 /\ id \in Known /\ id \notin cancelled
      /\ cancelled' = cancelled \cup {id} /\ pc' = "done" /\ Known' = Known
      /\ \A j \in DOMAIN live' : live'[j].id # id /\ \E m \in DOMAIN live : live'[j] = live[m]
  BY <1>1, CancelFacts
<1>3. ~Cancellable(id) /\ UNCHANGED <<node, lookup>>
  <2>1. id \in Int
    BY <1>2, MessageAssumption
  <2> QED BY <1>1, <1>2, <2>1 DEF RejectCancel, book
<1>4. lookup[id] = Null
  BY <1>2, <1>3 DEF Cancellable, Structure, LookupExact
<1>5. <<id, "FIL">> \in Outcomes
  BY <1>2, <1>4 DEF FateInv, OneFateEach, CancelsAnswered
<1>6. Outcomes' = Outcomes \cup {<<id, "REJ">>}
  <2> DEFINE c == IF e.order_id <= 0 THEN "invalid_order_id" ELSE "unknown_order_id"
             x == REJ(id, c)
  <2>1. emitted' = <<x>>
    BY <1>1, <1>2 DEF RejectCancel
  <2>2. x.tag = "REJ" /\ x.order_id = id
    BY DEF REJ
  <2> HIDE DEF x
  <2>3. Ended(emitted') = {<<id, "REJ">>} /\ Ended(emitted) = {}
    BY <1>2, <2>1, <2>2, EndedOne, EndedNone
  <2> QED BY <1>2, <2>3 DEF Outcomes
<1>7. OneFateEach'
  BY <1>2, <1>3, <1>6 DEF FateInv, OneFateEach
<1>8. LiveAgrees'
  BY <1>2, <1>3 DEF FateInv, LiveAgrees
<1>9. CancelsAnswered'
  BY <1>2, <1>5, <1>6 DEF FateInv, CancelsAnswered
<1> QED BY <1>2, <1>7, <1>8, <1>9 DEF FateInv, ArrivalIsLive

LEMMA FateCancel ==
  ASSUME TypeOK, Structure, Structure', StreamInv, FateInv,
         NEW i \in sample_cancel_index, FeedCancel(i), CancelResting(CancelAt(i))
  PROVE  FateInv'
<1>1. PICK id, e, n : id = live[i].id /\ e = CancelAt(i) /\ n = lookup[id]
  OBVIOUS
<1>2. /\ pc = "idle" /\ emitted = <<>> /\ fates' = fates
      /\ e \in CancelEvent /\ e.order_id = id
      /\ id \in OrderId /\ id > 0 /\ id \in Known /\ id \notin cancelled
      /\ cancelled' = cancelled \cup {id} /\ pc' = "done" /\ Known' = Known
      /\ \A j \in DOMAIN live' : live'[j].id # id /\ \E m \in DOMAIN live : live'[j] = live[m]
  BY <1>1, CancelFacts
<1>3. n # Null /\ lookup' = [lookup EXCEPT ![id] = Null]
  BY <1>1, <1>2 DEF CancelResting, Cancellable, lookup_erase
<1>4. \A d \in OrderId : lookup'[d] = IF d = id THEN Null ELSE lookup[d]
  BY <1>2, <1>3 DEF TypeOK
<1>5. \A m \in Addr \ {n} : Kept(m)
  BY <1>1, <1>2, CancelEffect
<1>6. Outcomes' = Outcomes \cup {<<id, "CAN">>}
  <2> DEFINE x == CAN(id, 0, node[n].quantity, "user_request")
  <2>1. emitted' = <<x>>
    BY <1>1, <1>2 DEF CancelResting
  <2>2. x.tag = "CAN" /\ x.order_id = id
    BY DEF CAN
  <2> HIDE DEF x
  <2>3. Ended(emitted') = {<<id, "CAN">>} /\ Ended(emitted) = {}
    BY <1>2, <2>1, <2>2, EndedOne, EndedNone
  <2> QED BY <1>2, <2>3 DEF Outcomes
<1>7. Known \subseteq OrderId
  BY DEF StreamInv, Known
<1>8. <<id, "FIL">> \notin Outcomes /\ <<id, "CAN">> \notin Outcomes
  BY <1>1, <1>2, <1>3 DEF FateInv, OneFateEach
<1>9. OneFateEach'
  BY <1>2, <1>4, <1>6, <1>7, <1>8 DEF FateInv, OneFateEach
<1>10. LiveAgrees'
  <2> SUFFICES ASSUME NEW j \in DOMAIN live', lookup'[live'[j].id] # Null
               PROVE  /\ node'[lookup'[live'[j].id]].side = live'[j].side
                      /\ node'[lookup'[live'[j].id]].price = live'[j].price
    BY DEF LiveAgrees
  <2>1. PICK k \in DOMAIN live : live'[j] = live[k] /\ live[k].id # id
    BY <1>2
  <2>2. live[k].id \in OrderId
    BY DEF StreamInv, LiveIds
  <2>3. PICK m : m = lookup[live[k].id]
    OBVIOUS
  <2>4. lookup'[live'[j].id] = m /\ m # Null
    BY <1>4, <2>1, <2>2, <2>3
  <2>5. m \in Addr /\ node[m].order_id = live[k].id /\ node[n].order_id = id
    BY <1>1, <1>2, <1>3, <2>2, <2>3, <2>4 DEF TypeOK, Pointer, Structure, LookupExact
  <2>6. Kept(m)
    BY <1>5, <2>1, <2>5
  <2>7. node[m].side = live[k].side /\ node[m].price = live[k].price
    BY <2>3, <2>4 DEF FateInv, LiveAgrees
  <2> QED BY <2>1, <2>4, <2>6, <2>7 DEF Kept
<1>11. CancelsAnswered'
  BY <1>2, <1>6 DEF FateInv, CancelsAnswered
<1> QED BY <1>2, <1>9, <1>10, <1>11 DEF FateInv, ArrivalIsLive

(* A trade: the resting order is one that live_ or the cancels know. *)
LEMMA FateFill ==
  ASSUME TypeOK, Structure, StreamInv, FateInv, FillRestingWhole \/ FillRestingPart,
         UNCHANGED <<genVars, fates>>
  PROVE  FateInv'
<1>1. PICK n, r : n = cursor /\ r = node[n].order_id
  OBVIOUS
<1>2. Fill /\ n \in Addr /\ node[n].active /\ \A m \in Addr \ {n} : Kept(m)
  BY <1>1, FillEffect
<1>3. pc = "level" /\ pc' = "level" /\ event' = event
  BY <1>2 DEF Fill
<1>4. /\ UNCHANGED <<live, cancelled, last_order_id, fates>>
      /\ Known' = Known /\ ArrivalIsLive'
  BY <1>3 DEF genVars, Known, Arriving, FateInv, ArrivalIsLive
<1>5. r \in OrderId /\ lookup[r] = n /\ n # Null
  BY <1>1, <1>2, AddrFacts DEF Structure, NodesHaveLevels, LookupExact
<1>6. r \in Known /\ <<r, "FIL">> \notin Outcomes /\ <<r, "CAN">> \notin Outcomes
  BY <1>5 DEF FateInv, OneFateEach
<1>7. Known \subseteq OrderId
  BY DEF StreamInv, Known
<1>8. emitted \in Seq(OutputEvent)
  BY DEF TypeOK
<1>9. CASE FillRestingWhole
  <2>1. \A d \in OrderId : lookup'[d] = IF d = r THEN Null ELSE lookup[d]
    BY <1>1, <1>5, <1>9 DEF FillRestingWhole, lookup_erase, TypeOK
  <2>2. Outcomes' = Outcomes \cup {<<r, "FIL">>}
    <3> DEFINE y == TRD(event.order_id, r, trade_qty)
               x == FIL(r, trade_qty)
    <3>1. emitted' = emitted \o <<y, x>>
      BY <1>1, <1>9 DEF FillRestingWhole
    <3>2. y.tag = "TRD" /\ x.tag = "FIL" /\ x.order_id = r
      BY DEF TRD, FIL
    <3> HIDE DEF x, y
    <3>3. Ended(emitted') = Ended(emitted) \cup {<<r, "FIL">>}
      <4>1. x.tag # "TRD"
        BY <3>2
      <4>2. Ended(emitted \o <<y, x>>) = Ended(emitted) \cup {<<x.order_id, x.tag>>}
        BY <1>8, <3>2, <4>1, EndedTrade, Zenon
      <4> QED BY <3>1, <3>2, <4>2, Zenon
    <3>4. fates' = fates
      BY <1>4
    <3> QED BY <3>3, <3>4, Zenon DEF Outcomes
  <2>3. OneFateEach'
    BY <1>4, <1>6, <1>7, <2>1, <2>2 DEF FateInv, OneFateEach
  <2>4. CancelsAnswered'
    BY <1>4, <1>6, <2>2 DEF FateInv, CancelsAnswered
  <2>5. LiveAgrees'
    <3> SUFFICES ASSUME NEW j \in DOMAIN live, lookup'[live[j].id] # Null
                 PROVE  /\ node'[lookup'[live[j].id]].side = live[j].side
                        /\ node'[lookup'[live[j].id]].price = live[j].price
      BY <1>4 DEF LiveAgrees
    <3>1. live[j].id \in OrderId
      BY DEF StreamInv, LiveIds
    <3>2. PICK m : m = lookup[live[j].id]
      OBVIOUS
    <3>3. lookup'[live[j].id] = m /\ m # Null /\ live[j].id # r
      BY <2>1, <3>1, <3>2
    <3>4. m \in Addr /\ node[m].order_id = live[j].id
      BY <3>1, <3>2, <3>3 DEF TypeOK, Pointer, Structure, LookupExact
    <3>5. Kept(m)
      BY <1>1, <1>2, <3>3, <3>4
    <3>6. node[m].side = live[j].side /\ node[m].price = live[j].price
      BY <3>2, <3>3 DEF FateInv, LiveAgrees
    <3> QED BY <3>3, <3>5, <3>6 DEF Kept
  <2> QED BY <1>3, <1>4, <2>3, <2>4, <2>5 DEF FateInv
<1>10. CASE FillRestingPart
  <2>1. lookup' = lookup
    BY <1>10 DEF FillRestingPart
  <2>2. Outcomes' = Outcomes \cup {<<r, "RST">>}
    <3> DEFINE y == TRD(event.order_id, r, trade_qty)
               x == RST(r, trade_qty, node[n].quantity - trade_qty)
    <3>1. emitted' = emitted \o <<y, x>>
      BY <1>1, <1>10 DEF FillRestingPart
    <3>2. y.tag = "TRD" /\ x.tag = "RST" /\ x.order_id = r
      BY DEF TRD, RST
    <3> HIDE DEF x, y
    <3>3. Ended(emitted') = Ended(emitted) \cup {<<r, "RST">>}
      <4>1. x.tag # "TRD"
        BY <3>2
      <4>2. Ended(emitted \o <<y, x>>) = Ended(emitted) \cup {<<x.order_id, x.tag>>}
        BY <1>8, <3>2, <4>1, EndedTrade, Zenon
      <4> QED BY <3>1, <3>2, <4>2, Zenon
    <3>4. fates' = fates
      BY <1>4
    <3> QED BY <3>3, <3>4, Zenon DEF Outcomes
  <2>3. OneFateEach'
    BY <1>4, <1>6, <2>1, <2>2 DEF FateInv, OneFateEach
  <2>4. CancelsAnswered'
    BY <1>4, <2>2 DEF FateInv, CancelsAnswered
  <2>5. \A m \in Addr : node'[m].side = node[m].side /\ node'[m].price = node[m].price
    <3>1. node' = [node EXCEPT ![n] = [node[n] EXCEPT !.quantity = node[n].quantity - trade_qty]]
      BY <1>1, <1>10 DEF FillRestingPart
    <3>2. node[n] \in Node
      BY <1>2 DEF TypeOK
    <3>3. node'[n] = [node[n] EXCEPT !.quantity = node[n].quantity - trade_qty]
      BY <1>2, <3>1 DEF TypeOK
    <3>4. node'[n].side = node[n].side /\ node'[n].price = node[n].price
      BY <3>2, <3>3 DEF Node
    <3> QED BY <1>2, <3>4 DEF Kept
  <2>6. LiveAgrees'
    <3> SUFFICES ASSUME NEW j \in DOMAIN live, lookup[live[j].id] # Null
                 PROVE  /\ node'[lookup[live[j].id]].side = live[j].side
                        /\ node'[lookup[live[j].id]].price = live[j].price
      BY <1>4, <2>1 DEF LiveAgrees
    <3>1. live[j].id \in OrderId
      BY DEF StreamInv, LiveIds
    <3>2. lookup[live[j].id] \in Addr
      BY <3>1 DEF TypeOK, Pointer
    <3> QED BY <2>5, <3>2 DEF FateInv, LiveAgrees
  <2> QED BY <1>3, <1>4, <2>3, <2>4, <2>6 DEF FateInv
<1> QED BY <1>9, <1>10

(* The end of an add: a generated order is filled or rests, for its id is new *)
(* and it is good till cancelled.                                             *)
LEMMA FateFinish ==
  ASSUME TypeOK, Structure, StreamInv, FateInv, UNCHANGED <<genVars, fates>>,
         FinishFilled \/ FinishResting \/ FinishDuplicate \/ FinishCancelled
  PROVE  FateInv'
<1>1. PICK id : id = event.order_id
  OBVIOUS
<1>2. MatchDone /\ pc = "ladder" /\ pc' = "done" /\ event' = event
  BY DEF FinishFilled, FinishResting, FinishDuplicate, FinishCancelled, Finish, MatchDone
<1>3. /\ event \in AddEvent /\ event.tif = "gtc" /\ id = last_order_id /\ id \in OrderId
      /\ \E i \in DOMAIN live : live[i] = [id |-> id, side |-> event.side, price |-> event.price]
  BY <1>1, <1>2, AddFields DEF TypeOK, FateInv, ArrivalIsLive
<1>4. UNCHANGED <<live, cancelled, last_order_id, fates>>
  BY DEF genVars
<1>5. id \notin Known /\ id \in 1 .. last_order_id /\ Known' = Known \cup {id}
  <2>1. id \in 1 .. last_order_id
    <3>1. PICK i \in DOMAIN live : live[i] = [id |-> id, side |-> event.side, price |-> event.price]
      BY <1>3
    <3>2. live[i].id = id
      BY <3>1
    <3> QED BY <3>2 DEF StreamInv, LiveIds
  <2> QED BY <1>1, <1>2, <1>4, <2>1 DEF Known, Arriving
<1>6. lookup[id] = Null /\ \A o \in Outcomes : o[1] # id
  BY <1>3, <1>5 DEF FateInv, OneFateEach
<1>7. \A t : <<id, t>> \notin Outcomes
  BY <1>6
<1>8. ~FinishDuplicate /\ ~FinishCancelled
  BY <1>1, <1>3, <1>6 DEF FinishDuplicate, FinishCancelled
<1>9. Known \subseteq OrderId /\ emitted \in Seq(OutputEvent)
  BY DEF StreamInv, Known, TypeOK
<1>10. CASE FinishFilled
  <2>1. UNCHANGED <<node, lookup>>
    BY <1>10 DEF FinishFilled, book
  <2>2. Outcomes' = Outcomes \cup {<<id, "FIL">>}
    <3> DEFINE x == FIL(id, filled)
    <3>1. emitted' = Append(emitted, x)
      BY <1>1, <1>10 DEF FinishFilled, Finish
    <3>2. x.tag = "FIL" /\ x.order_id = id
      BY DEF FIL
    <3> HIDE DEF x
    <3>3. Ended(emitted') = Ended(emitted) \cup {<<id, "FIL">>}
      BY <1>9, <3>1, <3>2, EndedAppend
    <3>4. fates' = fates
      BY <1>4
    <3> QED BY <3>3, <3>4, Zenon DEF Outcomes
  <2>3. OneFateEach'
    BY <1>5, <1>6, <1>7, <2>1, <2>2 DEF FateInv, OneFateEach
  <2>4. CancelsAnswered'
    BY <1>4, <1>5, <1>7, <2>2 DEF FateInv, CancelsAnswered
  <2>5. LiveAgrees'
    BY <1>4, <2>1 DEF FateInv, LiveAgrees
  <2> QED BY <1>2, <2>3, <2>4, <2>5 DEF FateInv, ArrivalIsLive
<1>11. CASE FinishResting
  <2>1. PICK n : n = allocated + 1
    OBVIOUS
  <2>2. /\ n \in Addr /\ ~node[n].active /\ node'[n].side = event.side /\ node'[n].price = event.price
        /\ \A m \in Addr \ {n} : Kept(m)
    BY <1>11, <2>1, RestEffect
  <2>3. \A d \in OrderId : lookup'[d] = IF d = id THEN n ELSE lookup[d]
    BY <1>1, <1>3, <1>11, <2>1 DEF FinishResting, TypeOK
  <2>4. n # Null
    BY <2>2, AddrFacts
  <2>5. Outcomes' = Outcomes \cup {<<id, "RST">>}
    <3> DEFINE x == RST(id, filled, residual)
    <3>1. emitted' = Append(emitted, x)
      BY <1>1, <1>11 DEF FinishResting, Finish
    <3>2. x.tag = "RST" /\ x.order_id = id
      BY DEF RST
    <3> HIDE DEF x
    <3>3. Ended(emitted') = Ended(emitted) \cup {<<id, "RST">>}
      BY <1>9, <3>1, <3>2, EndedAppend
    <3>4. fates' = fates
      BY <1>4
    <3> QED BY <3>3, <3>4, Zenon DEF Outcomes
  <2>6. OneFateEach'
    <3>1. \A d \in OrderId : lookup'[d] # Null => d \in Known'
      BY <1>5, <2>3 DEF FateInv, OneFateEach
    <3>2. \A o \in Outcomes' : o[1] \in Known'
      BY <1>5, <2>5 DEF FateInv, OneFateEach
    <3>3. \A d, t : t # "RST" => (<<d, t>> \in Outcomes' <=> <<d, t>> \in Outcomes)
      BY <2>5
    <3>4. \A d \in Known : d \in OrderId /\ lookup'[d] = lookup[d]
      BY <1>5, <1>9, <2>3
    <3>5. lookup'[id] # Null /\ <<id, "FIL">> \notin Outcomes /\ <<id, "CAN">> \notin Outcomes
      BY <1>3, <1>7, <2>3, <2>4
    <3> QED BY <1>5, <3>1, <3>2, <3>3, <3>4, <3>5 DEF FateInv, OneFateEach
  <2>7. CancelsAnswered'
    BY <1>4, <1>5, <1>7, <2>5 DEF FateInv, CancelsAnswered
  <2>8. LiveAgrees'
    <3> SUFFICES ASSUME NEW j \in DOMAIN live, lookup'[live[j].id] # Null
                 PROVE  /\ node'[lookup'[live[j].id]].side = live[j].side
                        /\ node'[lookup'[live[j].id]].price = live[j].price
      BY <1>4 DEF LiveAgrees
    <3>1. live[j].id \in OrderId
      BY DEF StreamInv, LiveIds
    <3>2. CASE live[j].id = id
      <4>1. PICK i \in DOMAIN live : live[i] = [id |-> id, side |-> event.side, price |-> event.price]
        BY <1>3
      <4>2. live[i].id = live[j].id
        BY <3>2, <4>1
      <4>3. i = j
        BY <4>2 DEF StreamInv
      <4> QED BY <2>2, <2>3, <3>1, <3>2, <4>1, <4>3
    <3>3. CASE live[j].id # id
      <4>1. PICK m : m = lookup[live[j].id]
        OBVIOUS
      <4>2. lookup'[live[j].id] = m /\ m # Null
        BY <2>3, <3>1, <3>3, <4>1
      <4>3. m \in Addr /\ node[m].active
        BY <3>1, <4>1, <4>2 DEF TypeOK, Pointer, Structure, LookupExact
      <4>4. Kept(m)
        BY <2>2, <4>3
      <4>5. node[m].side = live[j].side /\ node[m].price = live[j].price
        BY <4>1, <4>2 DEF FateInv, LiveAgrees
      <4> QED BY <4>2, <4>4, <4>5 DEF Kept
    <3> QED BY <3>2, <3>3
  <2> QED BY <1>2, <2>6, <2>7, <2>8 DEF FateInv, ArrivalIsLive
<1> QED BY <1>8, <1>10, <1>11

LEMMA FateNext ==
  ASSUME TypeOK, Structure, Structure', StreamInv, FateInv, [generatedNext]_allVars
  PROVE  FateInv'
<1>1. ASSUME NEW e \in NextAdds, FeedAdd(e) PROVE FateInv'
  BY <1>1, FateAdd
<1>2. ASSUME NEW i \in sample_cancel_index, FeedCancel(i) PROVE FateInv'
  <2>1. RejectCancel(CancelAt(i)) \/ CancelResting(CancelAt(i))
    BY <1>2, CancelFacts
  <2> QED BY <1>2, <2>1, FateReject, FateCancel
<1>3. CASE Handle
  <2>1. HandlerStep /\ UNCHANGED genVars /\ fates' = IF pc = "done" THEN fates \cup Ended(emitted) ELSE fates
    BY <1>3 DEF Handle
  <2>2. UNCHANGED <<live, cancelled, last_order_id>>
    BY <2>1 DEF genVars
  <2>3. CASE FillRestingWhole \/ FillRestingPart
    <3>1. pc = "level"
      BY <2>3 DEF FillRestingWhole, FillRestingPart, Fill
    <3> QED BY <2>1, <2>3, <3>1, FateFill
  <2>4. CASE FinishFilled \/ FinishResting \/ FinishDuplicate \/ FinishCancelled
    <3>1. pc = "ladder"
      BY <2>4 DEF FinishFilled, FinishResting, FinishDuplicate, FinishCancelled, MatchDone
    <3> QED BY <2>1, <2>4, <3>1, FateFinish
  <2>5. CASE EnterLevel \/ LeaveLevel
    <3>1. /\ pc \in {"ladder", "level"} /\ pc' \in {"ladder", "level"} /\ event' = event
          /\ UNCHANGED <<node, lookup, emitted>>
      BY <2>5 DEF EnterLevel, LeaveLevel, book
    <3>2. fates' = fates
      BY <2>1, <3>1
    <3>3. Outcomes' = Outcomes /\ Known' = Known /\ ArrivalIsLive'
      BY <2>2, <3>1, <3>2 DEF Outcomes, Known, Arriving, FateInv, ArrivalIsLive
    <3> QED BY <2>2, <3>1, <3>3, FateKept
  <2>6. CASE Return
    <3>1. pc = "done" /\ pc' = "idle" /\ emitted' = <<>> /\ UNCHANGED <<node, lookup>>
      BY <2>6 DEF Return, book
    <3>2. Outcomes' = Outcomes
      BY <2>1, <3>1, EndedNone DEF Outcomes
    <3>3. Known' = Known /\ ArrivalIsLive'
      BY <2>2, <3>1 DEF Known, Arriving, ArrivalIsLive
    <3> QED BY <2>2, <3>1, <3>2, <3>3, FateKept
  <2> QED BY <2>1, <2>3, <2>4, <2>5, <2>6 DEF HandlerStep
<1>4. CASE StreamOver \/ UNCHANGED allVars
  <2>1. UNCHANGED <<node, lookup, live, cancelled, last_order_id, fates, emitted, pc, event>>
    BY <1>4 DEF StreamOver, allVars, vars, book, genVars
  <2>2. Outcomes' = Outcomes /\ Known' = Known /\ ArrivalIsLive' /\ (pc' = "idle" => emitted' = <<>>)
    BY <2>1 DEF Outcomes, Known, Arriving, FateInv, ArrivalIsLive
  <2> QED BY <2>1, <2>2, FateKept
<1> QED BY <1>1, <1>2, <1>3, <1>4 DEF generatedNext

(* live_ has one entry for each of its ids. *)
LEMMA LiveCount ==
  ASSUME StreamInv
  PROVE  Len(live) = Cardinality(LiveIds)
<1> DEFINE n == Len(live)
           f == [i \in 1 .. n |-> live[i].id]
<1>1. live \in Seq(Entry) /\ n \in Nat /\ DOMAIN live = 1 .. n
  BY LenProperties DEF StreamInv
<1> HIDE DEF n
<1>2. f \in Bijection(1 .. n, LiveIds)
  <2>1. LiveIds = {f[i] : i \in 1 .. n} /\ \A i, j \in 1 .. n : f[i] = f[j] => i = j
    BY <1>1 DEF StreamInv, LiveIds
  <2> QED BY <2>1 DEF Bijection, Injection, Surjection, IsInjective
<1>3. ExistsBijection(1 .. n, LiveIds)
  BY <1>2 DEF ExistsBijection
<1>4. 1 \in Int /\ n \in Int
  BY <1>1
<1>5. IsFiniteSet(1 .. n) /\ Cardinality(1 .. n) = IF 1 > n THEN 0 ELSE n - 1 + 1
  BY <1>4, FS_Interval
<1>6. Cardinality(LiveIds) = Cardinality(1 .. n)
  BY <1>3, <1>5, FS_Bijection
<1> QED BY <1>1, <1>5, <1>6 DEF n

LEMMA FatesFollow ==
  ASSUME StreamInv, FateInv
  PROVE  EveryOrderHasOneFate
<1> SUFFICES ASSUME pc = "idle"
             PROVE  /\ \A id \in 1 .. last_order_id : Cardinality(Fate(id)) = 1
                    /\ LiveIds = (1 .. last_order_id) \ cancelled /\ Len(live) = Cardinality(LiveIds)
                    /\ LiveAgrees
                    /\ \A id \in cancelled :
                         Fate(id) = {"CAN"} \/ {<<id, "FIL">>, <<id, "REJ">>} \subseteq fates
                    /\ \A f \in fates : f[2] = "REJ" => f[1] \in cancelled
  BY DEF EveryOrderHasOneFate, LiveAgrees
<1>1. Outcomes = fates
  BY EndedNone DEF Outcomes, FateInv
<1>2. Known = 1 .. last_order_id
  BY DEF Known, Arriving
<1>3. ASSUME NEW id \in 1 .. last_order_id
      PROVE  /\ Fate(id) = {"FIL"} \/ Fate(id) = {"CAN"} \/ Fate(id) = {"resting"}
             /\ <<id, "CAN">> \in fates => Fate(id) = {"CAN"}
  <2>1. /\ <<id, "FIL">> \in fates => <<id, "CAN">> \notin fates /\ lookup[id] = Null
        /\ <<id, "CAN">> \in fates => lookup[id] = Null
        /\ <<id, "FIL">> \in fates \/ <<id, "CAN">> \in fates \/ lookup[id] # Null
    BY <1>1, <1>2 DEF FateInv, OneFateEach
  <2> QED BY <2>1 DEF Fate
<1>4. \A id \in 1 .. last_order_id : Cardinality(Fate(id)) = 1
  BY <1>3, FS_Singleton
<1>5. \A id \in cancelled : Fate(id) = {"CAN"} \/ {<<id, "FIL">>, <<id, "REJ">>} \subseteq fates
  BY <1>1, <1>3 DEF FateInv, CancelsAnswered, StreamInv
<1>6. \A f \in fates : f[2] = "REJ" => f[1] \in cancelled
  BY <1>1 DEF FateInv, CancelsAnswered
<1>7. LiveIds = (1 .. last_order_id) \ cancelled /\ LiveAgrees
  BY DEF StreamInv, FateInv
<1> QED BY <1>4, <1>5, <1>6, <1>7, LiveCount

(* Generator and book never lose track of an order, in any generated stream   *)
(* on any book: each id issued rests, was filled or was cancelled, only one   *)
(* of these; live_ holds what was not cancelled; and the book refuses only    *)
(* cancels of orders filled before (order_generator.hpp:53-90).               *)
THEOREM FatesAreUnique == generatedSpec => []EveryOrderHasOneFate
<1>1. generatedInit => FateInv
  <2> SUFFICES ASSUME generatedInit PROVE FateInv
    OBVIOUS
  <2>1. /\ pc = "idle" /\ emitted = <<>> /\ fates = {} /\ live = <<>> /\ cancelled = {}
        /\ last_order_id = 0 /\ lookup = [id \in OrderId |-> Null]
    BY DEF generatedInit, Init, genInit
  <2>2. Outcomes = {} /\ Known = {} /\ DOMAIN live = {}
    BY <2>1, EndedNone DEF Outcomes, Known
  <2> QED BY <2>1, <2>2 DEF FateInv, ArrivalIsLive, OneFateEach, LiveAgrees, CancelsAnswered
<1>2. generatedSpec => [](TypeOK /\ Structure)
  BY StreamRunsBook, TypeCorrect, StructureHolds, PTL
<1>3. TypeOK /\ Structure /\ Structure' /\ StreamInv /\ FateInv /\ [generatedNext]_allVars => FateInv'
  BY FateNext
<1>4. StreamInv /\ FateInv => EveryOrderHasOneFate
  BY FatesFollow
<1> QED BY <1>1, <1>2, <1>3, <1>4, StreamHolds, PTL DEF generatedSpec
==============================================================================

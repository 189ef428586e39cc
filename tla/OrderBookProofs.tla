--------------------------- MODULE OrderBookProofs ---------------------------
(***************************************************************************)
(* Proofs about OrderBook, for every set of ids, prices and quantities,    *)
(* every arena size and every width of quantity_t.                         *)
(***************************************************************************)
EXTENDS OrderBookRefinement, SumsProofs, TLAPS

(* Two's-complement wrapping yields an integer (order_book.hpp:94, 117). *)
LEMMA WrapInt == ASSUME NEW x \in Int PROVE Wrap(x) \in Int
BY BookAssumption DEF Wrap

(* The fields of a validated add (order_book.hpp:265-277). *)
LEMMA AddFields ==
  ASSUME NEW e \in AddEvent
  PROVE  /\ e.order_id \in OrderId /\ e.order_id \in Int
         /\ e.side \in Side /\ opposite_of(e.side) \in Side
         /\ e.quantity \in Int /\ e.price \in Price /\ e.price \in Int
         /\ e.tif \in Tif /\ e.type = "add"
         /\ ~Invalid(e) => e.order_id > 0 /\ e.quantity > 0 /\ e.price > 0
<1>1. /\ e.order_id \in OrderId /\ e.side \in Side /\ e.quantity \in Quantity
      /\ e.price \in Price /\ e.tif \in Tif /\ e.type = "add"
  BY DEF AddEvent
<1>2. e.order_id \in Int /\ e.quantity \in Int /\ e.price \in Int
  BY <1>1, MessageAssumption
<1>3. opposite_of(e.side) \in Side
  BY <1>1 DEF opposite_of, Side
<1>4. ~Invalid(e) => e.order_id > 0 /\ e.quantity > 0 /\ e.price > 0
  BY <1>2 DEF Invalid
<1> QED BY <1>1, <1>2, <1>3, <1>4

(* Lowering a level's total keeps the level well typed (order_book.hpp:117, 474). *)
LEMMA ReducedType ==
  ASSUME NEW l \in Level, NEW q \in Int
  PROVE  Reduced(l, q) \in Level
<1>1. l.total \in Int
  BY DEF Level
<1>2. Wrap(l.total - q) \in Int
  BY <1>1, WrapInt
<1> QED BY <1>2 DEF Reduced, Level

(* Unlinking a node keeps the arena and the level well typed (order_book.hpp:110, 492). *)
LEMMA UnlinkTypes ==
  ASSUME node \in [Addr -> Node], NEW n \in Addr, NEW l \in Level
  PROVE  UnlinkedNodes(n) \in [Addr -> Node] /\ UnlinkedLevel(l, n) \in Level
<1>1. RawNode \in Node
  BY DEF RawNode, Node, Side, Pointer, Null
<1>2. \A m \in Addr : node[m].prev \in Pointer /\ node[m].next \in Pointer
  BY DEF Node
<1>3. UnlinkedNodes(n) \in [Addr -> Node]
  BY <1>1, <1>2 DEF UnlinkedNodes, Node
<1>4. UnlinkedLevel(l, n) \in Level
  BY <1>2 DEF UnlinkedLevel, Level
<1> QED BY <1>3, <1>4

(* The initial book is well typed. *)
LEMMA TypeInit == Init => TypeOK
<1> SUFFICES ASSUME Init PROVE TypeOK
  OBVIOUS
<1>1. RawNode \in Node /\ EmptyLevel \in Level
  BY DEF RawNode, Node, EmptyLevel, Level, Side, Pointer, Null
<1> QED
  BY <1>1, BookAssumption DEF Init, TypeOK, Pointer, Null

(* Every step of every handler keeps the state well typed. *)
LEMMA TypeNext == TypeOK /\ [Next]_vars => TypeOK'
<1> SUFFICES ASSUME TypeOK, [Next]_vars PROVE TypeOK'
  OBVIOUS
<1> USE DEF TypeOK
<1>1. ASSUME NEW e \in AddEvent, RejectAdd(e) PROVE TypeOK'
  <2>1. REJ(e.order_id, InvalidCode(e)) \in OutputEvent
    BY AddFields DEF REJ, InvalidCode, OutputEvent
  <2> QED BY <1>1, <2>1 DEF RejectAdd, book, frame
<1>2. ASSUME NEW e \in AddEvent, KillFok(e) PROVE TypeOK'
  <2>1. CAN(e.order_id, 0, e.quantity, "fill_or_kill") \in OutputEvent
    BY AddFields DEF CAN, OutputEvent
  <2> QED BY <1>2, <2>1 DEF KillFok, book, frame
<1>3. ASSUME NEW e \in AddEvent, BeginMatch(e) PROVE TypeOK'
  BY <1>3, AddFields DEF BeginMatch, book, frame
<1>4. ASSUME NEW e \in CancelEvent, RejectCancel(e) PROVE TypeOK'
  <2>1. REJ(e.order_id, IF e.order_id <= 0 THEN "invalid_order_id" ELSE "unknown_order_id") \in OutputEvent
    BY MessageAssumption DEF REJ, OutputEvent, CancelEvent
  <2> QED BY <1>4, <2>1 DEF RejectCancel, book, frame
<1>5. ASSUME NEW e \in CancelEvent, CancelResting(e) PROVE TypeOK'
  <2> DEFINE n == lookup[e.order_id]
             s == node[n].side
             p == node[n].price
             l == Reduced(UnlinkedLevel(level[s][p], n), node[n].quantity)
  <2>1. n \in Addr /\ node[n] \in Node /\ e.order_id \in Int
    BY <1>5, MessageAssumption DEF CancelResting, Cancellable, Pointer, CancelEvent
  <2>2. CAN(e.order_id, 0, node[n].quantity, "user_request") \in OutputEvent
    BY <2>1 DEF CAN, OutputEvent, Node
  <2>3. lookup' \in [OrderId -> Pointer]
    BY <1>5 DEF CancelResting, lookup_erase, Pointer
  <2>4. /\ node' \in [Addr -> Node]
        /\ prices' \in [Side -> SUBSET Price]
        /\ level' \in [Side -> [Price -> Level]]
    <3>1. RawNode \in Node /\ EmptyLevel \in Level
      BY DEF RawNode, Node, EmptyLevel, Level, Side, Pointer, Null
    <3>2. CASE p \notin prices[s]
      BY <1>5, <3>1, <3>2 DEF CancelResting, detach
    <3>3. CASE p \in prices[s]
      <4>1. s \in Side /\ p \in Price
        BY <2>1, <3>3 DEF Node
      <4>2. level[s][p] \in Level
        BY <4>1
      <4>3. UnlinkedNodes(n) \in [Addr -> Node] /\ UnlinkedLevel(level[s][p], n) \in Level
        BY <2>1, <4>2, UnlinkTypes
      <4>4. l \in Level
        <5>1. node[n].quantity \in Int
          BY <2>1 DEF Node
        <5> QED BY <5>1, <4>3, ReducedType
      <4>5. /\ node' = UnlinkedNodes(n)
            /\ prices' = [prices EXCEPT ![s] = IF Drained(l) THEN @ \ {p} ELSE @]
            /\ level' = [level EXCEPT ![s][p] = IF Drained(l) THEN EmptyLevel ELSE l]
        BY <1>5, <3>3 DEF CancelResting, detach
      <4> HIDE DEF l
      <4>6. prices' \in [Side -> SUBSET Price]
        BY <4>1, <4>5
      <4>7. level' \in [Side -> [Price -> Level]]
        BY <4>1, <4>4, <4>5, <3>1
      <4> QED BY <4>3, <4>5, <4>6, <4>7
    <3> QED BY <3>2, <3>3
  <2> HIDE DEF n, s, p, l
  <2>5. emitted' \in Seq(OutputEvent)
    BY <1>5, <2>2 DEF CancelResting, n
  <2> QED BY <1>5, <2>3, <2>4, <2>5 DEF CancelResting, frame
<1>6. CASE EnterLevel
  <2>1. event \in AddEvent /\ Opp \in Side
    BY <1>6, AddFields DEF EnterLevel, Opp
  <2> QED BY <1>6, <2>1 DEF EnterLevel, book, Level
<1>7. ASSUME Fill PROVE
        /\ event \in AddEvent /\ event.order_id \in Int /\ Opp \in Side
        /\ levelPrice \in Price /\ cursor \in Addr /\ node[cursor] \in Node
        /\ level[Opp][levelPrice] \in Level
        /\ trade_qty \in Nat /\ trade_qty <= residual /\ trade_qty <= node[cursor].quantity
        /\ residual' \in Nat /\ filled' \in Nat /\ cursor' \in Pointer
  <2>1. /\ event \in AddEvent /\ levelPrice \in Price /\ cursor \in Addr
        /\ node[cursor] \in Node
    BY <1>7 DEF Fill, Pointer
  <2>2. event.order_id \in Int /\ Opp \in Side
    BY <2>1, AddFields DEF Opp
  <2>3. node[cursor].quantity \in Nat /\ node[cursor].next \in Pointer
    BY <2>1 DEF Node
  <2>4. trade_qty \in Nat /\ trade_qty <= residual /\ trade_qty <= node[cursor].quantity
    BY <2>3 DEF trade_qty, MinQty
  <2> HIDE DEF TypeOK
  <2>5. residual' \in Nat /\ filled' \in Nat /\ cursor' \in Pointer
    BY <1>7, <2>3, <2>4 DEF Fill, TypeOK
  <2> QED BY <2>1, <2>2, <2>4, <2>5 DEF TypeOK
<1>8. CASE FillRestingWhole
  <2>1. Fill
    BY <1>8 DEF FillRestingWhole
  <2> DEFINE n == cursor
             t == TRD(event.order_id, node[n].order_id, trade_qty)
             f == FIL(node[n].order_id, trade_qty)
             l == UnlinkedLevel(level[Opp][levelPrice], n)
  <2>2. t \in OutputEvent /\ f \in OutputEvent
    BY <1>7, <2>1 DEF TRD, FIL, OutputEvent, Node
  <2>3. UnlinkedNodes(n) \in [Addr -> Node] /\ l \in Level
    BY <1>7, <2>1, UnlinkTypes
  <2>4. Reduced(l, trade_qty) \in Level
    BY <1>7, <2>1, <2>3, ReducedType
  <2>5. level' = [level EXCEPT ![Opp][levelPrice] = Reduced(l, trade_qty)]
    BY <1>8 DEF FillRestingWhole
  <2> HIDE DEF l, t, f
  <2>6. level' \in [Side -> [Price -> Level]]
    BY <1>7, <2>1, <2>4, <2>5
  <2>7. emitted' \in Seq(OutputEvent)
    BY <1>8, <2>2 DEF FillRestingWhole, t, f
  <2>8. lookup' \in [OrderId -> Pointer]
    BY <1>8 DEF FillRestingWhole, lookup_erase, Pointer
  <2>9. node' \in [Addr -> Node]
    BY <1>8, <2>3 DEF FillRestingWhole
  <2> QED BY <1>7, <2>1, <2>6, <2>7, <2>8, <2>9 DEF Fill
<1>9. CASE FillRestingPart
  <2>1. Fill
    BY <1>9 DEF FillRestingPart
  <2> DEFINE t == TRD(event.order_id, node[cursor].order_id, trade_qty)
             r == RST(node[cursor].order_id, trade_qty, node[cursor].quantity - trade_qty)
  <2>2. t \in OutputEvent /\ r \in OutputEvent
    BY <1>7, <2>1 DEF TRD, RST, OutputEvent, Node
  <2>3. emitted' \in Seq(OutputEvent)
    BY <1>9, <2>2 DEF FillRestingPart
  <2>4. node' \in [Addr -> Node]
    <3>1. ASSUME NEW k \in Node, NEW q \in Nat
          PROVE  [k EXCEPT !.quantity = q] \in Node
      BY DEF Node
    <3>2. node[cursor].quantity \in Nat /\ node[cursor].quantity - trade_qty \in Nat
      <4>1. node[cursor].quantity \in Nat
        BY <1>7, <2>1 DEF Node
      <4> QED BY <4>1, <1>7, <2>1
    <3>3. node' = [node EXCEPT ![cursor] =
                     [node[cursor] EXCEPT !.quantity = node[cursor].quantity - trade_qty]]
      BY <1>9 DEF FillRestingPart
    <3>4. [node[cursor] EXCEPT !.quantity = node[cursor].quantity - trade_qty] \in Node
      BY <1>7, <2>1, <3>1, <3>2
    <3> QED BY <3>3, <3>4
  <2>5. Reduced(level[Opp][levelPrice], trade_qty) \in Level
    BY <1>7, <2>1, ReducedType
  <2>6. level' \in [Side -> [Price -> Level]]
    BY <1>7, <1>9, <2>1, <2>5 DEF FillRestingPart
  <2> QED BY <1>7, <1>9, <2>1, <2>3, <2>4, <2>6 DEF Fill, FillRestingPart
<1>10. CASE LeaveLevel
  <2>1. event \in AddEvent /\ Opp \in Side /\ levelPrice \in Price
    BY <1>10, AddFields DEF LeaveLevel, Opp
  <2>2. EmptyLevel \in Level
    BY DEF EmptyLevel, Level, Pointer, Null
  <2>3. prices' \in [Side -> SUBSET Price]
    BY <1>10, <2>1 DEF LeaveLevel
  <2>4. level' \in [Side -> [Price -> Level]]
    <3>1. \/ level' = [level EXCEPT ![Opp][levelPrice] = EmptyLevel]
          \/ level' = level
      BY <1>10 DEF LeaveLevel
    <3>2. [level EXCEPT ![Opp][levelPrice] = EmptyLevel] \in [Side -> [Price -> Level]]
      <4>1. level \in [Side -> [Price -> Level]]
        BY <2>1 DEF TypeOK
      <4> QED BY <2>1, <2>2, <4>1
    <3> QED BY <1>1, <3>1, <3>2 DEF TypeOK
  <2>5. levelPrice' = 0 /\ cursor' \in Pointer
    BY <1>10 DEF LeaveLevel, Pointer
  <2>6. /\ pc' = "ladder" /\ levelPrice' \in Price \cup {0}
        /\ UNCHANGED <<node, allocated, lookup, event, residual, filled, emitted>>
    BY <1>10, <2>5 DEF LeaveLevel
  <2>7. pc = "level"
    BY <1>10 DEF LeaveLevel
  <2> QED BY <2>3, <2>4, <2>5, <2>6, <2>7
<1>11. ASSUME MatchDone, NEW ev \in OutputEvent, Finish(ev) PROVE
         /\ event \in AddEvent
         /\ emitted' \in Seq(OutputEvent)
         /\ residual' \in Nat /\ filled' \in Nat
         /\ pc' = "done" /\ UNCHANGED <<event, levelPrice, cursor>>
  BY <1>11 DEF MatchDone, Finish
<1>12. CASE FinishFilled
  <2>1. FIL(event.order_id, filled) \in OutputEvent
    BY <1>12, AddFields DEF FinishFilled, MatchDone, FIL, OutputEvent
  <2> QED BY <1>11, <1>12, <2>1 DEF FinishFilled, book
<1>13. CASE FinishResting
  <2> DEFINE n == allocated + 1
             new == allocate_resting_node(event, residual)
             l == level[event.side][event.price]
             nl == [head |-> IF l.tail = Null THEN n ELSE l.head, tail |-> n,
                    total |-> Wrap(l.total + residual)]
  <2>1. event \in AddEvent /\ ~Invalid(event) /\ allocated < MaxNodes
    BY <1>13 DEF FinishResting, MatchDone
  <2>2. /\ event.order_id \in OrderId /\ event.order_id \in Int
        /\ event.side \in Side /\ event.price \in Price /\ event.price \in Int
    BY <2>1, AddFields
  <2>3. n \in Addr /\ n \in Pointer /\ n \in 0 .. MaxNodes
    BY <2>1, BookAssumption DEF Addr, Pointer
  <2>4. l \in Level
    BY <2>2
  <2>5. nl \in Level
    <3>1. l.total \in Int /\ residual \in Int
      BY <2>4 DEF Level, TypeOK
    <3>2. l.total + residual \in Int
      BY <3>1
    <3> HIDE DEF l
    <3>3. Wrap(l.total + residual) \in Int
      BY <3>2, WrapInt
    <3> QED BY <2>3, <2>4, <3>3 DEF Level
  <2>6. new \in Node /\ [new EXCEPT !.prev = l.tail] \in Node
    BY <2>2, <2>4 DEF allocate_resting_node, Node, Level, Pointer, Null
  <2>7. /\ new.side = event.side /\ new.price = event.price
        /\ new.quantity = residual
    BY DEF allocate_resting_node
  <2>8. RST(event.order_id, filled, residual) \in OutputEvent
    BY <2>2 DEF RST, OutputEvent
  <2>9. append(n, new)
    BY <1>13 DEF FinishResting
  <2> HIDE DEF n, new, l, nl
  <2>10. node' \in [Addr -> Node]
    <3>1. node' = [m \in Addr |->
                    IF m = n THEN [new EXCEPT !.prev = l.tail]
                    ELSE IF m = l.tail THEN [node[m] EXCEPT !.next = n]
                    ELSE node[m]]
      BY <2>7, <2>9 DEF append, l
    <3>2. ASSUME NEW m \in Addr PROVE [node[m] EXCEPT !.next = n] \in Node
      <4>1. node[m] \in Node
        BY <3>2
      <4> QED BY <2>3, <4>1 DEF Node
    <3> QED BY <2>6, <3>1, <3>2
  <2>11. prices' \in [Side -> SUBSET Price]
    BY <2>2, <2>7, <2>9 DEF append
  <2>12. level' \in [Side -> [Price -> Level]]
    <3>1. level' = [level EXCEPT ![event.side][event.price] = nl]
      BY <2>7, <2>9 DEF append, l, nl
    <3> QED BY <2>2, <2>5, <3>1
  <2>13. allocated' \in 0 .. MaxNodes /\ lookup' \in [OrderId -> Pointer]
    BY <1>13, <2>3 DEF FinishResting, n
  <2> QED
    BY <1>11, <1>13, <2>8, <2>10, <2>11, <2>12, <2>13 DEF FinishResting
<1>14. CASE FinishDuplicate
  <2>1. event \in AddEvent /\ allocated < MaxNodes
    BY <1>14 DEF FinishDuplicate, MatchDone
  <2>2. REJ(event.order_id, "duplicate_order_id") \in OutputEvent
    BY <2>1, AddFields DEF REJ, OutputEvent
  <2>3. allocated' \in 0 .. MaxNodes
    BY <1>14, <2>1, BookAssumption DEF FinishDuplicate
  <2> QED BY <1>11, <1>14, <2>2, <2>3 DEF FinishDuplicate
<1>15. CASE FinishCancelled
  <2>1. CAN(event.order_id, filled, residual,
            IF event.tif = "ioc" THEN "immediate_or_cancel" ELSE "fill_or_kill") \in OutputEvent
    BY <1>15, AddFields DEF FinishCancelled, MatchDone, CAN, OutputEvent
  <2> QED BY <1>11, <1>15, <2>1 DEF FinishCancelled, book
<1>16. CASE Return
  BY <1>16 DEF Return, book, frame
<1>17. CASE UNCHANGED vars
  BY <1>17 DEF vars, book, frame
<1> QED
  BY <1>1, <1>2, <1>3, <1>4, <1>5, <1>6, <1>8, <1>9, <1>10, <1>12, <1>13,
     <1>14, <1>15, <1>16, <1>17 DEF Next

(* Type correctness of the book: the type invariant holds of every execution, *)
(* for any inputs, arena size and quantity width.                             *)
THEOREM TypeCorrect == Spec => []TypeOK
BY TypeInit, TypeNext, PTL DEF Spec

------------------------------------------------------------------------------
(* When match_against returns with a residue, no opposite level is crossed   *)
(* (order_book.hpp:437-443): the best one is not, and the others are worse.  *)
LEMMA ResidueDoesNotCross ==
  ASSUME TypeOK, MatchDone, residual > 0
  PROVE  \A q \in prices[Opp] : Better(Opp, event.price, q)
<1> SUFFICES ASSUME NEW q \in prices[Opp] PROVE Better(Opp, event.price, q)
  OBVIOUS
<1>1. event \in AddEvent
  BY DEF TypeOK, MatchDone
<1>2. event.price \in Int /\ Opp \in Side
  BY <1>1, AddFields DEF Opp
<1>3. prices[Opp] \subseteq Int
  BY <1>2, MessageAssumption DEF TypeOK
<1>4. PICK p \in prices[Opp] : IsBest(Opp, p) /\ ~crosses(Opp, event.price, p)
  BY DEF MatchDone, TypeOK
<1>5. Better(Opp, event.price, p)
  BY <1>4 DEF crosses
<1>6. q = p \/ Better(Opp, p, q)
  BY <1>4 DEF IsBest
<1> QED BY <1>2, <1>3, <1>5, <1>6 DEF Better

(* Only rest_order adds a price to a ladder (order_book.hpp:419-429). *)
LEMMA PricesChange ==
  ASSUME TypeOK, [Next]_vars
  PROVE  FinishResting \/ \A s \in Side : prices'[s] \subseteq prices[s]
<1>1. ASSUME NEW e \in AddEvent, RejectAdd(e) \/ KillFok(e) \/ BeginMatch(e)
      PROVE  prices' = prices
  BY <1>1 DEF RejectAdd, KillFok, BeginMatch, book
<1>2. ASSUME NEW e \in CancelEvent, RejectCancel(e) PROVE prices' = prices
  BY <1>2 DEF RejectCancel, book
<1>3. ASSUME NEW e \in CancelEvent, CancelResting(e)
      PROVE  \A s \in Side : prices'[s] \subseteq prices[s]
  <2> DEFINE n == lookup[e.order_id]
             l == Reduced(UnlinkedLevel(level[node[n].side][node[n].price], n),
                          node[n].quantity)
  <2>1. \/ prices' = prices
        \/ prices' = [prices EXCEPT ![node[n].side] =
                        IF Drained(l) THEN @ \ {node[n].price} ELSE @]
    BY <1>3 DEF CancelResting, detach
  <2> HIDE DEF n, l
  <2> QED BY <2>1 DEF TypeOK
<1>4. CASE EnterLevel \/ Fill \/ FinishFilled \/ FinishDuplicate \/ FinishCancelled
           \/ Return \/ UNCHANGED vars
  BY <1>4 DEF EnterLevel, Fill, FinishFilled, FinishDuplicate, FinishCancelled,
              Return, vars, book
<1>5. CASE LeaveLevel
  <2>1. \/ prices' = prices
        \/ prices' = [prices EXCEPT ![Opp] = @ \ {levelPrice}]
    BY <1>5 DEF LeaveLevel
  <2> QED BY <2>1 DEF TypeOK
<1> QED
  BY <1>1, <1>2, <1>3, <1>4, <1>5 DEF Next, FillRestingWhole, FillRestingPart

(* A step from an uncrossed book leads to an uncrossed book. *)
LEMMA NotCrossedNext ==
  ASSUME TypeOK, BookNotCrossed, [Next]_vars
  PROVE  BookNotCrossed'
<1>1. CASE \A s \in Side : prices'[s] \subseteq prices[s]
  BY <1>1 DEF BookNotCrossed, Side
<1>2. CASE FinishResting
  <2>1. MatchDone /\ residual > 0 /\ event \in AddEvent
    BY <1>2 DEF FinishResting, MatchDone, TypeOK
  <2>2. \A q \in prices[Opp] : Better(Opp, event.price, q)
    BY <2>1, ResidueDoesNotCross
  <2>3. event.side \in Side /\ event.price \in Int
    BY <2>1, AddFields
  <2>4. prices' = [prices EXCEPT ![event.side] = @ \cup {event.price}]
    BY <1>2 DEF FinishResting, append, allocate_resting_node
  <2>5. CASE event.side = "buy"
    <3>1. \A q \in prices["sell"] : event.price < q
      BY <2>2, <2>5 DEF Opp, opposite_of, Better
    <3> QED BY <2>4, <2>5, <3>1 DEF BookNotCrossed, TypeOK, Side
  <2>6. CASE event.side = "sell"
    <3>1. \A q \in prices["buy"] : event.price > q
      BY <2>2, <2>6 DEF Opp, opposite_of, Better
    <3>2. \A q \in prices["buy"] : q \in Int
      BY MessageAssumption DEF TypeOK, Side
    <3> QED BY <2>3, <2>4, <2>6, <3>1, <3>2 DEF BookNotCrossed, TypeOK, Side
  <2> QED BY <2>3, <2>5, <2>6 DEF Side
<1> QED BY <1>1, <1>2, PricesChange

(* The book is never crossed, not even between the steps of a handler: a     *)
(* residue rests only once every opposite price it reaches is exhausted.     *)
THEOREM NeverCrossed == Spec => []BookNotCrossed
<1>1. Init => BookNotCrossed
  BY DEF Init, BookNotCrossed, Side
<1>2. TypeOK /\ BookNotCrossed /\ [Next]_vars => BookNotCrossed'
  BY NotCrossedNext
<1> QED BY <1>1, <1>2, TypeCorrect, PTL DEF Spec

------------------------------------------------------------------------------
(* The intrusive lists, the ladders and the lookup always describe the same   *)
(* resting orders, and matching therefore follows price-time priority.        *)

(* Addresses are positive integers and nullptr is none of them. *)
LEMMA AddrFacts == Addr \subseteq Int /\ Null \notin Addr /\ Null \in Int
BY BookAssumption DEF Addr, Null

(* Removing n from the middle or an end of its list leaves the list of the *)
(* others (detach and retire_resting, order_book.hpp:119-134, 493-506).    *)
LEMMA UnlinkSame ==
  ASSUME node \in [Addr -> Node], NEW l \in Level, NEW L \in SUBSET Addr,
         NEW n \in L, IsFifo(node, l, L)
  PROVE  IsFifo(UnlinkedNodes(n), UnlinkedLevel(l, n), L \ {n})
<1> DEFINE pn == node[n].prev
           nn == node[n].next
           u == UnlinkedNodes(n)
           k == UnlinkedLevel(l, n)
           M == L \ {n}
<1>1. n \in Addr /\ n # Null /\ \A m \in L : m \in Addr /\ m \in Int /\ m # Null
  BY AddrFacts
<1>2. IsPrev(pn, n, L) /\ IsNext(nn, n, L)
  BY DEF IsFifo
<1>3. /\ k.head = IF pn = Null THEN nn ELSE l.head
      /\ k.tail = IF nn = Null THEN pn ELSE l.tail
  BY DEF UnlinkedLevel, Level
<1>4. \A m \in M : /\ u[m].next = (IF m = pn THEN nn ELSE node[m].next)
                   /\ u[m].prev = (IF m = nn THEN pn ELSE node[m].prev)
  BY <1>1 DEF UnlinkedNodes, Node
<1> HIDE DEF pn, nn, u, k
<1>5. IF k.head = Null THEN M = {} ELSE k.head \in M /\ \A m \in M : k.head <= m
  <2>1. IF l.head = Null THEN L = {} ELSE l.head \in L /\ \A m \in L : l.head <= m
    BY DEF IsFifo
  <2>2. CASE pn = Null
    <3>1. \A m \in L : n <= m
      BY <1>2, <2>2 DEF IsPrev
    <3>2. k.head = nn
      BY <1>3, <2>2
    <3>3. CASE nn = Null
      BY <1>1, <1>2, <3>1, <3>2, <3>3 DEF IsNext
    <3>4. CASE nn # Null
      BY <1>1, <1>2, <3>1, <3>2, <3>4 DEF IsNext
    <3> QED BY <3>3, <3>4
  <2>3. CASE pn # Null
    <3>1. pn \in L /\ pn < n
      BY <1>2, <2>3 DEF IsPrev
    <3>2. k.head = l.head /\ l.head # Null
      BY <1>3, <2>1, <2>3
    <3> QED BY <1>1, <2>1, <3>1, <3>2
  <2> QED BY <2>2, <2>3
<1>6. IF k.tail = Null THEN M = {} ELSE k.tail \in M /\ \A m \in M : m <= k.tail
  <2>1. IF l.tail = Null THEN L = {} ELSE l.tail \in L /\ \A m \in L : m <= l.tail
    BY DEF IsFifo
  <2>2. CASE nn = Null
    <3>1. \A m \in L : m <= n
      BY <1>2, <2>2 DEF IsNext
    <3>2. k.tail = pn
      BY <1>3, <2>2
    <3>3. CASE pn = Null
      BY <1>1, <1>2, <3>1, <3>2, <3>3 DEF IsPrev
    <3>4. CASE pn # Null
      BY <1>1, <1>2, <3>1, <3>2, <3>4 DEF IsPrev
    <3> QED BY <3>3, <3>4
  <2>3. CASE nn # Null
    <3>1. nn \in L /\ n < nn
      BY <1>2, <2>3 DEF IsNext
    <3>2. k.tail = l.tail /\ l.tail # Null
      BY <1>3, <2>1, <2>3
    <3> QED BY <1>1, <2>1, <3>1, <3>2
  <2> QED BY <2>2, <2>3
<1>7. ASSUME NEW m \in M PROVE IsNext(u[m].next, m, M)
  <2>1. IsNext(node[m].next, m, L)
    BY <1>1 DEF IsFifo
  <2>2. CASE m = pn
    <3>1. u[m].next = nn /\ pn \in L /\ pn # Null
      BY <1>1, <1>4, <2>2
    <3>2. m < n /\ \A j \in M : j <= m \/ n < j
      BY <1>1, <1>2, <2>2, <3>1 DEF IsPrev
    <3>3. CASE nn = Null
      BY <1>1, <1>2, <3>1, <3>2, <3>3 DEF IsNext
    <3>4. CASE nn # Null
      <4>1. nn \in M /\ n < nn /\ \A j \in L : j <= n \/ nn <= j
        BY <1>1, <1>2, <3>4 DEF IsNext
      <4> QED BY <1>1, <3>1, <3>2, <3>4, <4>1 DEF IsNext
    <3> QED BY <3>3, <3>4
  <2>3. CASE m # pn
    <3>1. node[m].next # n
      <4> SUFFICES ASSUME node[m].next = n PROVE FALSE
        OBVIOUS
      <4>1. m < n /\ \A j \in L : j <= m \/ n <= j
        BY <1>1, <2>1 DEF IsNext
      <4>2. pn # Null
        BY <1>1, <1>2, <4>1 DEF IsPrev
      <4>3. pn \in L /\ pn < n /\ \A j \in L : j <= pn \/ n <= j
        BY <1>2, <4>2 DEF IsPrev
      <4>4. m = pn
        BY <1>1, <4>1, <4>3
      <4> QED BY <2>3, <4>4
    <3> QED BY <1>1, <1>4, <2>1, <2>3, <3>1 DEF IsNext
  <2> QED BY <2>2, <2>3
<1>8. ASSUME NEW m \in M PROVE IsPrev(u[m].prev, m, M)
  <2>1. IsPrev(node[m].prev, m, L)
    BY <1>1 DEF IsFifo
  <2>2. CASE m = nn
    <3>1. u[m].prev = pn /\ nn \in L /\ nn # Null
      BY <1>1, <1>4, <2>2
    <3>2. m > n /\ \A j \in M : m <= j \/ j < n
      BY <1>1, <1>2, <2>2, <3>1 DEF IsNext
    <3>3. CASE pn = Null
      BY <1>1, <1>2, <3>1, <3>2, <3>3 DEF IsPrev
    <3>4. CASE pn # Null
      <4>1. pn \in M /\ n > pn /\ \A j \in L : n <= j \/ j <= pn
        BY <1>1, <1>2, <3>4 DEF IsPrev
      <4> QED BY <1>1, <3>1, <3>2, <3>4, <4>1 DEF IsPrev
    <3> QED BY <3>3, <3>4
  <2>3. CASE m # nn
    <3>1. node[m].prev # n
      <4> SUFFICES ASSUME node[m].prev = n PROVE FALSE
        OBVIOUS
      <4>1. m > n /\ \A j \in L : m <= j \/ j <= n
        BY <1>1, <2>1 DEF IsPrev
      <4>2. nn # Null
        BY <1>1, <1>2, <4>1 DEF IsNext
      <4>3. nn \in L /\ nn > n /\ \A j \in L : nn <= j \/ j <= n
        BY <1>2, <4>2 DEF IsNext
      <4>4. m = nn
        BY <1>1, <4>1, <4>3
      <4> QED BY <2>3, <4>4
    <3> QED BY <1>1, <1>4, <2>1, <2>3, <3>1 DEF IsPrev
  <2> QED BY <2>2, <2>3
<1> QED BY <1>5, <1>6, <1>7, <1>8 DEF IsFifo, u, k

(* Removing n leaves the lists of the other prices alone. *)
LEMMA UnlinkOther ==
  ASSUME node \in [Addr -> Node], NEW L \in SUBSET Addr, NEW l,
         NEW n \in L, IsFifo(node, l, L),
         NEW M \in SUBSET Addr, NEW k, M \cap L = {}, IsFifo(node, k, M)
  PROVE  IsFifo(UnlinkedNodes(n), k, M)
<1>1. IsPrev(node[n].prev, n, L) /\ IsNext(node[n].next, n, L)
  BY DEF IsFifo
<1>2. \A m \in M : m \in Addr /\ m # n /\ m # node[n].prev /\ m # node[n].next
  BY <1>1, AddrFacts DEF IsPrev, IsNext
<1>3. \A m \in M : /\ UnlinkedNodes(n)[m].next = node[m].next
                   /\ UnlinkedNodes(n)[m].prev = node[m].prev
  BY <1>2 DEF UnlinkedNodes, Node
<1> QED BY <1>3 DEF IsFifo

(* A list depends on its links and its two ends only. *)
LEMMA FifoTransfer ==
  ASSUME NEW f, NEW g, NEW k, NEW l, NEW L, IsFifo(f, k, L),
         l.head = k.head, l.tail = k.tail,
         \A m \in L : g[m].prev = f[m].prev /\ g[m].next = f[m].next
  PROVE  IsFifo(g, l, L)
BY DEF IsFifo

(* Linking a node with a larger address behind the tail extends the list by *)
(* it (append, order_book.hpp:96-106).                                      *)
LEMMA AppendSame ==
  ASSUME NEW l \in Level, NEW L \in SUBSET Addr, IsFifo(node, l, L),
         NEW n \in Addr, \A m \in L : m < n,
         NEW f, f[n].prev = l.tail, f[n].next = Null,
         \A m \in L : /\ f[m].prev = node[m].prev
                      /\ f[m].next = IF m = l.tail THEN n ELSE node[m].next,
         NEW k, k.head = IF l.tail = Null THEN n ELSE l.head, k.tail = n
  PROVE  IsFifo(f, k, L \cup {n})
<1> DEFINE M == L \cup {n}
<1>1. n \in Int /\ n # Null /\ \A m \in L : m \in Int /\ m # Null /\ m # n
  BY AddrFacts
<1>2. IF l.tail = Null THEN L = {} ELSE l.tail \in L /\ \A m \in L : m <= l.tail
  BY DEF IsFifo
<1>3. IF k.head = Null THEN M = {} ELSE k.head \in M /\ \A m \in M : k.head <= m
  <2>1. IF l.head = Null THEN L = {} ELSE l.head \in L /\ \A m \in L : l.head <= m
    BY DEF IsFifo
  <2>2. CASE l.tail = Null
    BY <1>1, <1>2, <2>2
  <2>3. CASE l.tail # Null
    <3>1. l.tail \in L
      BY <1>2, <2>3
    <3>2. k.head = l.head /\ l.head \in L /\ l.head # Null
      BY <1>1, <2>1, <2>3, <3>1
    <3>3. l.head < n /\ \A m \in L : l.head <= m
      BY <2>1, <3>2
    <3>4. l.head \in Int /\ n \in Int
      BY <1>1, <3>2
    <3>5. ASSUME NEW m \in M PROVE l.head <= m
      <4>1. CASE m = n
        BY <3>3, <3>4, <4>1
      <4>2. CASE m \in L
        BY <3>3, <4>2
      <4> QED BY <4>1, <4>2
    <3> QED BY <3>2, <3>5
  <2> QED BY <2>2, <2>3
<1>4. IF k.tail = Null THEN M = {} ELSE k.tail \in M /\ \A m \in M : m <= k.tail
  BY <1>1
<1>5. IsPrev(f[n].prev, n, M) /\ IsNext(f[n].next, n, M)
  <2>1. CASE l.tail = Null
    BY <1>1, <1>2, <2>1 DEF IsPrev, IsNext
  <2>2. CASE l.tail # Null
    <3>1. l.tail \in L /\ l.tail < n /\ \A m \in L : m <= l.tail
      BY <1>2, <2>2
    <3>2. IsPrev(l.tail, n, M)
      BY <1>1, <2>2, <3>1 DEF IsPrev
    <3>3. IsNext(Null, n, M)
      BY <1>1 DEF IsNext
    <3> QED BY <3>2, <3>3
  <2> QED BY <2>1, <2>2
<1>6. ASSUME NEW m \in L PROVE IsPrev(f[m].prev, m, M) /\ IsNext(f[m].next, m, M)
  <2>1. IsPrev(node[m].prev, m, L) /\ IsNext(node[m].next, m, L)
    BY DEF IsFifo
  <2>2. IsPrev(f[m].prev, m, M)
    BY <1>1, <2>1 DEF IsPrev
  <2>3. CASE m = l.tail
    <3>1. m # Null /\ m < n /\ f[m].next = n /\ \A j \in L : j <= m
      BY <1>1, <1>2, <2>3
    <3>2. \A j \in M : j <= m \/ n <= j
      BY <1>1, <3>1
    <3>3. IsNext(n, m, M)
      BY <1>1, <3>1, <3>2 DEF IsNext
    <3> QED BY <2>2, <3>1, <3>3
  <2>4. CASE m # l.tail
    <3> DEFINE x == node[m].next
    <3>1. l.tail \in L /\ m <= l.tail
      BY <1>2
    <3>2. m \in Int /\ l.tail \in Int /\ ~(l.tail <= m)
      <4>1. m \in Int /\ l.tail \in Int
        BY <1>1, <3>1
      <4> QED BY <2>4, <3>1, <4>1
    <3>3. x # Null
      <4>1. ASSUME x = Null PROVE \A j \in L : j <= m
        BY <2>1, <4>1 DEF IsNext
      <4> QED BY <3>1, <3>2, <4>1
    <3>4. x \in L /\ m < x /\ \A j \in L : j <= m \/ x <= j
      BY <2>1, <3>3 DEF IsNext
    <3>5. f[m].next = x
      BY <2>4
    <3> HIDE DEF x
    <3>6. x < n
      BY <3>4
    <3>7. \A j \in M : j <= m \/ x <= j
      BY <1>1, <3>4, <3>6
    <3>8. IsNext(x, m, M)
      BY <1>1, <3>3, <3>4, <3>7 DEF IsNext
    <3> QED BY <2>2, <3>5, <3>8
  <2> QED BY <2>2, <2>3, <2>4
<1> QED BY <1>3, <1>4, <1>5, <1>6 DEF IsFifo

------------------------------------------------------------------------------
(* The inductive invariant: lists, ladders and lookup agree on what rests. *)
Structure ==
  /\ NodesHaveLevels
  /\ NoEmptyLevels
  /\ ListsAreFifo
  /\ LookupExact
  /\ CursorOnLiveHead

(* The empty book is well structured. *)
LEMMA StructureInit == Init => Structure
<1> SUFFICES ASSUME Init PROVE Structure
  OBVIOUS
<1>1. \A n \in Addr : ~node[n].active
  BY DEF Init, RawNode
<1>2. \A s \in Side, p \in Price : Live(s, p) = {}
  BY <1>1 DEF Live
<1>3. ListsAreFifo
  BY <1>2 DEF ListsAreFifo, IsFifo, Init, EmptyLevel
<1>4. NodesHaveLevels /\ NoEmptyLevels /\ LookupExact /\ CursorOnLiveHead
  BY <1>1 DEF Init, NodesHaveLevels, NoEmptyLevels, LookupExact, CursorOnLiveHead
<1> QED BY <1>3, <1>4 DEF Structure

(* Steps that leave arena, ladders and lookup alone outside match_level. *)
LEMMA QuietStep ==
  ASSUME TypeOK, Structure, UNCHANGED <<node, prices, level, lookup>>,
         allocated' \in {allocated, allocated + 1},
         \/ pc # "level" /\ pc' # "level"
         \/ UNCHANGED <<pc, event, residual, levelPrice, cursor>>
  PROVE  Structure'
<1>1. \A s, p : Live(s, p)' = Live(s, p)
  BY DEF Live
<1>2. NodesHaveLevels'
  BY AddrFacts DEF Structure, NodesHaveLevels, TypeOK
<1>3. ListsAreFifo'
  BY <1>1 DEF Structure, ListsAreFifo, IsFifo
<1>4. NoEmptyLevels'
  BY <1>1 DEF Structure, NoEmptyLevels, Draining, Opp
<1>5. LookupExact'
  BY DEF Structure, LookupExact
<1>6. CursorOnLiveHead'
  BY DEF Structure, CursorOnLiveHead, IsBest, Opp
<1> QED BY <1>2, <1>3, <1>4, <1>5, <1>6 DEF Structure

(* Retiring n removes it from the active nodes and changes no other order. *)
LEMMA UnlinkedLive ==
  ASSUME TypeOK, NEW n \in Addr, node' = UnlinkedNodes(n)
  PROVE  /\ ~node'[n].active
         /\ \A m \in Addr \ {n} :
              /\ node'[m].active = node[m].active
              /\ node'[m].order_id = node[m].order_id
              /\ node'[m].side = node[m].side
              /\ node'[m].price = node[m].price
              /\ node'[m].quantity = node[m].quantity
         /\ \A s, p : Live(s, p)' = Live(s, p) \ {n}
<1>1. ~node'[n].active
  BY DEF UnlinkedNodes, RawNode
<1>2. ASSUME NEW m \in Addr \ {n}
      PROVE  /\ node'[m].active = node[m].active
             /\ node'[m].order_id = node[m].order_id
             /\ node'[m].side = node[m].side
             /\ node'[m].price = node[m].price
             /\ node'[m].quantity = node[m].quantity
  <2>1. node[m] \in Node
    BY DEF TypeOK
  <2> QED BY <2>1 DEF UnlinkedNodes, Node
<1>3. \A s, p : Live(s, p)' = Live(s, p) \ {n}
  BY <1>1, <1>2 DEF Live
<1> QED BY <1>1, <1>2, <1>3

(* Retiring an active node and storing the repaired ends of its level keeps *)
(* every list in order.                                                     *)
LEMMA UnlinkedLists ==
  ASSUME TypeOK, ListsAreFifo,
         NEW n \in Addr, node[n].active, node' = UnlinkedNodes(n),
         NEW s \in Side, NEW p \in Price, s = node[n].side, p = node[n].price,
         NEW k, level' = [level EXCEPT ![s][p] = k],
         k.head = UnlinkedLevel(level[s][p], n).head,
         k.tail = UnlinkedLevel(level[s][p], n).tail
  PROVE  ListsAreFifo'
<1> SUFFICES ASSUME NEW s2 \in Side, NEW p2 \in Price
             PROVE  IsFifo(node', level'[s2][p2], Live(s2, p2)')
  BY DEF ListsAreFifo
<1>1. node \in [Addr -> Node] /\ level[s][p] \in Level
  BY DEF TypeOK
<1>2. /\ IsFifo(node, level[s][p], Live(s, p)) /\ IsFifo(node, level[s2][p2], Live(s2, p2))
      /\ Live(s, p) \subseteq Addr /\ Live(s2, p2) \subseteq Addr
      /\ n \in Live(s, p)
  BY DEF ListsAreFifo, Live
<1>3. Live(s2, p2)' = Live(s2, p2) \ {n}
  BY UnlinkedLive
<1>4. CASE s2 = s /\ p2 = p
  <2>1. IsFifo(node', UnlinkedLevel(level[s][p], n), Live(s, p) \ {n})
    BY <1>1, <1>2, UnlinkSame
  <2>2. IsFifo(node', k, Live(s, p) \ {n})
    BY <2>1, FifoTransfer
  <2>3. level'[s2][p2] = k
    BY <1>4 DEF TypeOK
  <2> QED BY <1>3, <1>4, <2>2, <2>3
<1>5. CASE ~(s2 = s /\ p2 = p)
  <2>1. Live(s2, p2) \cap Live(s, p) = {} /\ n \notin Live(s2, p2)
    BY <1>5 DEF Live
  <2>2. level'[s2][p2] = level[s2][p2]
    BY <1>5 DEF TypeOK
  <2>3. IsFifo(node', level[s2][p2], Live(s2, p2))
    BY <1>1, <1>2, <2>1, UnlinkOther
  <2>4. Live(s2, p2)' = Live(s2, p2)
    BY <1>3, <2>1
  <2> QED BY <2>2, <2>3, <2>4
<1> QED BY <1>4, <1>5

(* Retiring the node of an id and erasing its entry keeps the lookup exact *)
(* (order_book.hpp:388, 508).                                              *)
LEMMA UnlinkedLookup ==
  ASSUME TypeOK, LookupExact, NodesHaveLevels,
         NEW n \in Addr, node[n].active, node' = UnlinkedNodes(n),
         lookup' = lookup_erase(node[n].order_id)
  PROVE  LookupExact'
<1>1. /\ ~node'[n].active
      /\ \A m \in Addr \ {n} : /\ node'[m].active = node[m].active
                               /\ node'[m].order_id = node[m].order_id
  BY UnlinkedLive
<1>2. lookup[node[n].order_id] = n /\ node[n].order_id \in OrderId
  BY DEF LookupExact, NodesHaveLevels
<1>3. \A id \in OrderId : lookup'[id] = IF id = node[n].order_id THEN Null ELSE lookup[id]
  BY DEF lookup_erase, TypeOK
<1>4. ASSUME NEW m \in Addr, node'[m].active PROVE lookup'[node'[m].order_id] = m
  <2>1. m # n /\ node[m].active /\ node'[m].order_id = node[m].order_id
    BY <1>1, <1>4
  <2>2. lookup[node[m].order_id] = m /\ node[m].order_id \in OrderId
    BY <2>1 DEF LookupExact, NodesHaveLevels
  <2> QED BY <1>2, <1>3, <2>1, <2>2
<1>5. ASSUME NEW id \in OrderId, lookup'[id] # Null
      PROVE  node'[lookup'[id]].active /\ node'[lookup'[id]].order_id = id
  <2>1. lookup'[id] = lookup[id] /\ lookup[id] # Null /\ id # node[n].order_id
    BY <1>3, <1>5
  <2>2. lookup[id] \in Addr /\ node[lookup[id]].active /\ node[lookup[id]].order_id = id
    BY <2>1 DEF LookupExact, TypeOK, Pointer
  <2> QED BY <1>1, <2>1, <2>2
<1> QED BY <1>4, <1>5 DEF LookupExact

------------------------------------------------------------------------------
(* While match_level has quantity to fill, its cursor is the active head of *)
(* the best opposite level (order_book.hpp:461-466).                        *)
LEMMA CursorIsHead ==
  ASSUME TypeOK, Structure, Fill
  PROVE  /\ event \in AddEvent /\ Opp \in Side /\ levelPrice \in Price
         /\ cursor \in Addr /\ node[cursor] \in Node
         /\ cursor \in Live(Opp, levelPrice)
         /\ cursor = level[Opp][levelPrice].head
         /\ \A m \in Live(Opp, levelPrice) : cursor <= m
         /\ node[cursor].prev = Null
         /\ IsNext(node[cursor].next, cursor, Live(Opp, levelPrice))
<1> DEFINE L == Live(Opp, levelPrice)
<1>1. /\ event \in AddEvent /\ levelPrice \in Price /\ cursor \in Addr
      /\ node[cursor] \in Node /\ cursor # Null
  BY DEF TypeOK, Fill, Pointer
<1>2. Opp \in Side
  BY <1>1, AddFields DEF Opp
<1>3. cursor = level[Opp][levelPrice].head
  BY DEF Structure, CursorOnLiveHead, Fill
<1>4. IsFifo(node, level[Opp][levelPrice], L)
  BY <1>1, <1>2 DEF Structure, ListsAreFifo
<1>5. cursor \in L /\ \A m \in L : cursor <= m
  BY <1>1, <1>3, <1>4 DEF IsFifo
<1>6. IsPrev(node[cursor].prev, cursor, L) /\ IsNext(node[cursor].next, cursor, L)
  BY <1>4, <1>5 DEF IsFifo
<1>7. \A m \in L : m \in Int
  BY AddrFacts DEF Live
<1>8. node[cursor].prev = Null
  <2>1. ASSUME node[cursor].prev # Null PROVE FALSE
    <3>1. node[cursor].prev \in L /\ node[cursor].prev < cursor
      BY <1>6, <2>1 DEF IsPrev
    <3> QED BY <1>5, <1>7, <3>1
  <2> QED BY <2>1
<1> QED BY <1>1, <1>2, <1>3, <1>5, <1>6, <1>8

(* Filling a resting order in full: trade, retire_resting. *)
LEMMA FillWholeStep ==
  ASSUME TypeOK, Structure, FillRestingWhole
  PROVE  Structure'
<1> DEFINE n == cursor
           l == UnlinkedLevel(level[Opp][levelPrice], n)
           k == Reduced(l, trade_qty)
<1>1. Fill
  BY DEF FillRestingWhole
<1>2. /\ event \in AddEvent /\ Opp \in Side /\ levelPrice \in Price /\ n \in Addr
      /\ n \in Live(Opp, levelPrice) /\ node[n].prev = Null
      /\ IsNext(node[n].next, n, Live(Opp, levelPrice))
  BY <1>1, CursorIsHead
<1>3. node[n].active /\ node[n].side = Opp /\ node[n].price = levelPrice
  BY <1>2 DEF Live
<1>4. /\ node' = UnlinkedNodes(n)
      /\ level' = [level EXCEPT ![Opp][levelPrice] = k]
      /\ lookup' = lookup_erase(node[n].order_id)
  BY DEF FillRestingWhole
<1>5. /\ UNCHANGED <<allocated, prices, pc, event, levelPrice>>
      /\ pc = "level" /\ cursor' = node[n].next /\ Opp' = Opp
  BY <1>1 DEF Fill, Opp
<1>6. k.head = l.head /\ k.tail = l.tail /\ l.head = node[n].next
  <2>1. level[Opp][levelPrice] \in Level
    BY <1>2 DEF TypeOK
  <2>2. l \in Level /\ l.head = node[n].next
    BY <1>2, <2>1, UnlinkTypes DEF TypeOK, UnlinkedLevel, Level
  <2> HIDE DEF l
  <2> QED BY <2>2 DEF Reduced, Level
<1> HIDE DEF n, l, k
<1>7. /\ ~node'[n].active
      /\ \A m \in Addr \ {n} :
           /\ node'[m].active = node[m].active
           /\ node'[m].order_id = node[m].order_id
           /\ node'[m].side = node[m].side
           /\ node'[m].price = node[m].price
           /\ node'[m].quantity = node[m].quantity
      /\ \A s, p : Live(s, p)' = Live(s, p) \ {n}
  BY <1>2, <1>4, UnlinkedLive
<1>8. NodesHaveLevels'
  BY <1>5, <1>7 DEF NodesHaveLevels, Structure
<1>9. NoEmptyLevels'
  <2> SUFFICES ASSUME NEW s \in Side, NEW p \in prices[s], ~Draining(s, p)'
               PROVE  Live(s, p)' # {}
    BY <1>5 DEF NoEmptyLevels
  <2>1. ~(s = Opp /\ p = levelPrice)
    BY <1>5 DEF Draining
  <2>2. n \notin Live(s, p)
    BY <1>3, <2>1 DEF Live
  <2>3. Live(s, p) # {}
    BY <2>1 DEF Structure, NoEmptyLevels, Draining
  <2> QED BY <1>7, <2>2, <2>3
<1>10. ListsAreFifo'
  BY <1>2, <1>3, <1>4, <1>6, UnlinkedLists DEF Structure, l
<1>11. LookupExact'
  BY <1>2, <1>3, <1>4, UnlinkedLookup DEF Structure
<1>12. CursorOnLiveHead'
  <2>1. IsBest(Opp, levelPrice) /\ crosses(Opp, event.price, levelPrice)
    BY <1>5 DEF Structure, CursorOnLiveHead
  <2>2. IsBest(Opp, levelPrice)' /\ crosses(Opp, event.price, levelPrice)'
    BY <1>5, <2>1 DEF IsBest
  <2>3. cursor' = level'[Opp][levelPrice].head
    BY <1>2, <1>4, <1>5, <1>6 DEF TypeOK
  <2>4. ASSUME cursor' # Null PROVE node'[cursor'].active
    <3>1. node[n].next \in Live(Opp, levelPrice) /\ n < node[n].next
      BY <1>2, <1>5, <2>4 DEF IsNext
    <3>2. node[n].next # n
      BY <1>2, <3>1, AddrFacts
    <3> QED BY <1>5, <1>7, <3>1, <3>2 DEF Live
  <2> QED BY <1>5, <2>2, <2>3, <2>4 DEF CursorOnLiveHead
<1> QED BY <1>8, <1>9, <1>10, <1>11, <1>12 DEF Structure

(* Filling a resting order in part: it keeps its place in the list. *)
LEMMA FillPartStep ==
  ASSUME TypeOK, Structure, FillRestingPart
  PROVE  Structure'
<1>1. Fill
  BY DEF FillRestingPart
<1>2. /\ event \in AddEvent /\ Opp \in Side /\ levelPrice \in Price /\ cursor \in Addr
      /\ cursor \in Live(Opp, levelPrice) /\ node[cursor] \in Node
      /\ IsNext(node[cursor].next, cursor, Live(Opp, levelPrice))
  BY <1>1, CursorIsHead
<1>3. /\ UNCHANGED <<allocated, prices, pc, event, levelPrice, lookup>>
      /\ pc = "level" /\ cursor' = node[cursor].next /\ Opp' = Opp
  BY <1>1 DEF Fill, Opp, FillRestingPart
<1>4. node[cursor].quantity \in Nat /\ residual \in Nat
  BY <1>2 DEF Node, TypeOK
<1>5. trade_qty = residual /\ trade_qty < node[cursor].quantity
  BY <1>4 DEF FillRestingPart, trade_qty, MinQty
<1>6. residual' = 0
  BY <1>1, <1>4, <1>5 DEF Fill
<1>7. \A m \in Addr :
        /\ node'[m].active = node[m].active /\ node'[m].order_id = node[m].order_id
        /\ node'[m].side = node[m].side /\ node'[m].price = node[m].price
        /\ node'[m].prev = node[m].prev /\ node'[m].next = node[m].next
        /\ node[m].quantity > 0 => node'[m].quantity > 0
  <2>1. node' = [node EXCEPT ![cursor] =
                   [node[cursor] EXCEPT !.quantity = node[cursor].quantity - trade_qty]]
    BY DEF FillRestingPart
  <2>2. node[cursor].quantity - trade_qty > 0
    BY <1>4, <1>5
  <2>3. ASSUME NEW m \in Addr, m # cursor PROVE node'[m] = node[m]
    BY <2>1, <2>3 DEF TypeOK
  <2>4. node'[cursor] = [node[cursor] EXCEPT !.quantity = node[cursor].quantity - trade_qty]
    BY <1>2, <2>1 DEF TypeOK
  <2> QED BY <1>2, <2>2, <2>3, <2>4 DEF Node
<1>8. \A s, p : Live(s, p)' = Live(s, p)
  BY <1>7 DEF Live
<1>9. \A s \in Side, p \in Price :
        level'[s][p].head = level[s][p].head /\ level'[s][p].tail = level[s][p].tail
  <2>1. level' = [level EXCEPT ![Opp][levelPrice] =
                    Reduced(level[Opp][levelPrice], trade_qty)]
    BY DEF FillRestingPart
  <2>2. /\ Reduced(level[Opp][levelPrice], trade_qty).head = level[Opp][levelPrice].head
        /\ Reduced(level[Opp][levelPrice], trade_qty).tail = level[Opp][levelPrice].tail
    <3>1. level[Opp][levelPrice] \in Level
      BY <1>2 DEF TypeOK
    <3> QED BY <3>1 DEF Reduced, Level
  <2> QED BY <2>1, <2>2 DEF TypeOK
<1>10. NodesHaveLevels'
  BY <1>3, <1>7 DEF Structure, NodesHaveLevels
<1>11. NoEmptyLevels'
  BY <1>3, <1>8 DEF Structure, NoEmptyLevels, Draining
<1>12. ListsAreFifo'
  <2> SUFFICES ASSUME NEW s \in Side, NEW p \in Price
               PROVE  IsFifo(node', level'[s][p], Live(s, p))
    BY <1>8 DEF ListsAreFifo
  <2>1. IsFifo(node, level[s][p], Live(s, p)) /\ Live(s, p) \subseteq Addr
    BY DEF Structure, ListsAreFifo, Live
  <2>2. \A m \in Live(s, p) : node'[m].prev = node[m].prev /\ node'[m].next = node[m].next
    BY <1>7, <2>1
  <2> QED BY <1>9, <2>1, <2>2, FifoTransfer
<1>13. LookupExact'
  BY <1>3, <1>7 DEF Structure, LookupExact, TypeOK, Pointer
<1>14. CursorOnLiveHead'
  <2>1. IsBest(Opp, levelPrice) /\ crosses(Opp, event.price, levelPrice)
    BY <1>3 DEF Structure, CursorOnLiveHead
  <2>2. IsBest(Opp, levelPrice)' /\ crosses(Opp, event.price, levelPrice)'
    BY <1>3, <2>1 DEF IsBest
  <2>3. ASSUME cursor' # Null PROVE node'[cursor'].active
    <3>1. node[cursor].next \in Live(Opp, levelPrice)
      BY <1>2, <1>3, <2>3 DEF IsNext
    <3> QED BY <1>3, <1>7, <3>1 DEF Live
  <2> QED BY <1>3, <1>6, <2>2, <2>3 DEF CursorOnLiveHead
<1> QED BY <1>10, <1>11, <1>12, <1>13, <1>14 DEF Structure

(* match_against hands its best crossed level to match_level. *)
LEMMA EnterLevelStep ==
  ASSUME TypeOK, Structure, EnterLevel
  PROVE  Structure'
<1>1. /\ UNCHANGED <<node, allocated, prices, level, lookup, event, residual>>
      /\ pc = "ladder" /\ pc' = "level" /\ Opp' = Opp
  BY DEF EnterLevel, book, Opp
<1>2. event \in AddEvent /\ Opp \in Side
  BY <1>1, AddFields DEF TypeOK, Opp
<1>3. /\ levelPrice' \in prices[Opp] /\ IsBest(Opp, levelPrice')
      /\ crosses(Opp, event.price, levelPrice')
      /\ cursor' = level[Opp][levelPrice'].head
  BY DEF EnterLevel
<1>4. \A s, p : Live(s, p)' = Live(s, p)
  BY <1>1 DEF Live
<1>5. NodesHaveLevels' /\ LookupExact'
  BY <1>1 DEF Structure, NodesHaveLevels, LookupExact
<1>6. NoEmptyLevels'
  BY <1>1, <1>4 DEF Structure, NoEmptyLevels, Draining
<1>7. ListsAreFifo'
  BY <1>1, <1>4 DEF Structure, ListsAreFifo, IsFifo
<1>8. CursorOnLiveHead'
  <2>1. levelPrice' \in Price
    BY <1>2, <1>3 DEF TypeOK
  <2>2. IsFifo(node, level[Opp][levelPrice'], Live(Opp, levelPrice'))
    BY <1>2, <2>1 DEF Structure, ListsAreFifo
  <2>3. cursor' # Null => node[cursor'].active
    BY <1>3, <2>2 DEF IsFifo, Live
  <2>4. IsBest(Opp, levelPrice)' /\ crosses(Opp, event.price, levelPrice)'
    BY <1>1, <1>3 DEF IsBest
  <2> QED BY <1>1, <1>3, <2>3, <2>4 DEF CursorOnLiveHead
<1> QED BY <1>5, <1>6, <1>7, <1>8 DEF Structure

(* match_level returns; a drained level is popped. *)
LEMMA LeaveLevelStep ==
  ASSUME TypeOK, Structure, LeaveLevel
  PROVE  Structure'
<1> DEFINE l == level[Opp][levelPrice]
<1>1. /\ UNCHANGED <<node, allocated, lookup, event>>
      /\ pc = "level" /\ pc' = "ladder"
  BY DEF LeaveLevel
<1>2. event \in AddEvent /\ Opp \in Side /\ levelPrice \in Price
  BY <1>1, AddFields DEF TypeOK, Opp
<1>3. \A s, p : Live(s, p)' = Live(s, p)
  BY <1>1 DEF Live
<1>4. IsFifo(node, l, Live(Opp, levelPrice))
  BY <1>2 DEF Structure, ListsAreFifo
<1>5. LookupExact' /\ CursorOnLiveHead'
  BY <1>1 DEF Structure, LookupExact, CursorOnLiveHead
<1>6. CASE Drained(l)
  <2>1. /\ prices' = [prices EXCEPT ![Opp] = @ \ {levelPrice}]
        /\ level' = [level EXCEPT ![Opp][levelPrice] = EmptyLevel]
    BY <1>6 DEF LeaveLevel
  <2>2. Live(Opp, levelPrice) = {}
    BY <1>4, <1>6 DEF Drained, IsFifo
  <2>3. \A s \in Side : prices'[s] = IF s = Opp THEN prices[s] \ {levelPrice} ELSE prices[s]
    BY <2>1 DEF TypeOK
  <2>4. NodesHaveLevels'
    <3> SUFFICES ASSUME NEW n \in Addr, node[n].active
                 PROVE  /\ n <= allocated
                        /\ node[n].order_id \in OrderId /\ node[n].order_id > 0
                        /\ node[n].quantity > 0
                        /\ node[n].price \in prices'[node[n].side]
      BY <1>1 DEF NodesHaveLevels
    <3>1. ~(node[n].side = Opp /\ node[n].price = levelPrice)
      BY <2>2 DEF Live
    <3>2. node[n].side \in Side
      BY DEF TypeOK, Node
    <3> QED BY <2>3, <3>1, <3>2 DEF Structure, NodesHaveLevels
  <2>5. NoEmptyLevels'
    BY <1>1, <1>3, <2>3 DEF Structure, NoEmptyLevels, Draining
  <2>6. ListsAreFifo'
    <3> SUFFICES ASSUME NEW s \in Side, NEW p \in Price
                 PROVE  IsFifo(node, level'[s][p], Live(s, p))
      BY <1>1, <1>3 DEF ListsAreFifo
    <3>1. CASE s = Opp /\ p = levelPrice
      <4>1. level'[s][p] = EmptyLevel
        BY <2>1, <3>1 DEF TypeOK
      <4> QED BY <2>2, <3>1, <4>1 DEF IsFifo, EmptyLevel
    <3>2. CASE ~(s = Opp /\ p = levelPrice)
      <4>1. level'[s][p] = level[s][p]
        BY <2>1, <3>2 DEF TypeOK
      <4> QED BY <4>1 DEF Structure, ListsAreFifo
    <3> QED BY <3>1, <3>2
  <2> QED BY <1>5, <2>4, <2>5, <2>6 DEF Structure
<1>7. CASE ~Drained(l)
  <2>1. UNCHANGED <<prices, level>>
    BY <1>7 DEF LeaveLevel
  <2>2. Live(Opp, levelPrice) # {}
    BY <1>4, <1>7 DEF Drained, IsFifo
  <2>3. NodesHaveLevels'
    BY <1>1, <2>1 DEF Structure, NodesHaveLevels
  <2>4. NoEmptyLevels'
    BY <1>1, <1>3, <2>1, <2>2 DEF Structure, NoEmptyLevels, Draining
  <2>5. ListsAreFifo'
    BY <1>1, <1>3, <2>1 DEF Structure, ListsAreFifo, IsFifo
  <2> QED BY <1>5, <2>3, <2>4, <2>5 DEF Structure
<1> QED BY <1>6, <1>7

(* rest_order: a fresh node goes behind the tail of its level. *)
LEMMA RestStep ==
  ASSUME TypeOK, Structure, FinishResting
  PROVE  Structure'
<1> DEFINE n == allocated + 1
           s == event.side
           p == event.price
           l == level[s][p]
           new == allocate_resting_node(event, residual)
<1>1. /\ event \in AddEvent /\ ~Invalid(event) /\ allocated < MaxNodes
      /\ residual > 0 /\ lookup[event.order_id] = Null /\ pc = "ladder"
  BY DEF FinishResting, MatchDone, TypeOK
<1>2. /\ event.order_id \in OrderId /\ event.order_id > 0
      /\ s \in Side /\ p \in Price
  BY <1>1, AddFields
<1>3. n \in Addr /\ allocated \in Int /\ n > allocated /\ n # Null
  BY <1>1, BookAssumption DEF TypeOK, Addr, Null
<1>4. l \in Level /\ l.tail \in Pointer
  BY <1>2 DEF TypeOK, Level
<1>5. /\ node' = [m \in Addr |->
                    IF m = n THEN [new EXCEPT !.prev = l.tail]
                    ELSE IF m = l.tail THEN [node[m] EXCEPT !.next = n]
                    ELSE node[m]]
      /\ prices' = [prices EXCEPT ![s] = @ \cup {p}]
      /\ level' = [level EXCEPT ![s][p] =
                     [head  |-> IF l.tail = Null THEN n ELSE l.head,
                      tail  |-> n,
                      total |-> Wrap(l.total + residual)]]
      /\ lookup' = [lookup EXCEPT ![event.order_id] = n]
      /\ allocated' = n /\ pc' = "done"
  BY DEF FinishResting, append, allocate_resting_node, Finish
<1>6. \A m \in Addr : node[m].active => m <= allocated /\ m # n
  BY <1>3, AddrFacts DEF Structure, NodesHaveLevels
<1>7. /\ node'[n].active /\ node'[n].order_id = event.order_id
      /\ node'[n].side = s /\ node'[n].price = p /\ node'[n].quantity = residual
      /\ node'[n].prev = l.tail /\ node'[n].next = Null
  <2>1. node'[n] = [new EXCEPT !.prev = l.tail]
    BY <1>3, <1>5
  <2> QED BY <2>1 DEF allocate_resting_node
<1>8. \A m \in Addr \ {n} :
        /\ node'[m].active = node[m].active /\ node'[m].order_id = node[m].order_id
        /\ node'[m].side = node[m].side /\ node'[m].price = node[m].price
        /\ node'[m].quantity = node[m].quantity /\ node'[m].prev = node[m].prev
        /\ node'[m].next = IF m = l.tail THEN n ELSE node[m].next
  <2> SUFFICES ASSUME NEW m \in Addr \ {n}
               PROVE  /\ node'[m].active = node[m].active /\ node'[m].order_id = node[m].order_id
                      /\ node'[m].side = node[m].side /\ node'[m].price = node[m].price
                      /\ node'[m].quantity = node[m].quantity /\ node'[m].prev = node[m].prev
                      /\ node'[m].next = IF m = l.tail THEN n ELSE node[m].next
    OBVIOUS
  <2>1. node[m] \in Node
    BY DEF TypeOK
  <2>2. node'[m] = IF m = l.tail THEN [node[m] EXCEPT !.next = n] ELSE node[m]
    BY <1>5
  <2> QED BY <2>1, <2>2 DEF Node
<1>9. \A s2 \in Side, p2 \in Price :
        Live(s2, p2)' = IF s2 = s /\ p2 = p THEN Live(s2, p2) \cup {n} ELSE Live(s2, p2)
  <2> SUFFICES ASSUME NEW s2 \in Side, NEW p2 \in Price, NEW m \in Addr
               PROVE  m \in Live(s2, p2)' <=>
                        m \in Live(s2, p2) \/ (m = n /\ s2 = s /\ p2 = p)
    BY <1>3 DEF Live
  <2>1. CASE m = n
    BY <1>6, <1>7, <2>1 DEF Live
  <2>2. CASE m # n
    BY <1>8, <2>2 DEF Live
  <2> QED BY <2>1, <2>2
<1>10. \A s2 \in Side : prices'[s2] = IF s2 = s THEN prices[s2] \cup {p} ELSE prices[s2]
  BY <1>2, <1>5 DEF TypeOK
<1>11. level'[s][p].head = (IF l.tail = Null THEN n ELSE l.head) /\ level'[s][p].tail = n
  BY <1>2, <1>5 DEF TypeOK
<1>12. \A s2 \in Side, p2 \in Price : ~(s2 = s /\ p2 = p) => level'[s2][p2] = level[s2][p2]
  BY <1>2, <1>5 DEF TypeOK
<1>13. \A id \in OrderId : lookup'[id] = IF id = event.order_id THEN n ELSE lookup[id]
  BY <1>2, <1>5 DEF TypeOK
<1>14. allocated' = n /\ pc' = "done"
  BY <1>5
<1> HIDE DEF n, s, p, l, new
<1>15. NodesHaveLevels'
  <2> SUFFICES ASSUME NEW m \in Addr, node'[m].active
               PROVE  /\ m <= n
                      /\ node'[m].order_id \in OrderId /\ node'[m].order_id > 0
                      /\ node'[m].quantity > 0
                      /\ node'[m].price \in prices'[node'[m].side]
    BY <1>14 DEF NodesHaveLevels
  <2>1. CASE m = n
    <3>1. m <= n
      BY <1>3, <2>1, AddrFacts
    <3>2. node'[n].price \in prices'[node'[n].side]
      BY <1>2, <1>7, <1>10
    <3> QED BY <1>1, <1>2, <1>7, <2>1, <3>1, <3>2
  <2>2. CASE m # n
    <3>1. /\ node[m].active /\ m <= allocated /\ node[m].side \in Side
          /\ node[m].order_id \in OrderId /\ node[m].order_id > 0
          /\ node[m].quantity > 0 /\ node[m].price \in prices[node[m].side]
      BY <1>8, <2>2 DEF Structure, NodesHaveLevels, TypeOK, Node
    <3>2. m <= n
      <4>1. m \in Int
        BY AddrFacts
      <4> QED BY <1>3, <3>1, <4>1 DEF n
    <3>3. /\ node'[m].order_id = node[m].order_id /\ node'[m].side = node[m].side
          /\ node'[m].price = node[m].price /\ node'[m].quantity = node[m].quantity
      BY <1>8, <2>2
    <3>4. node[m].price \in prices'[node[m].side]
      BY <1>10, <3>1
    <3> QED BY <3>1, <3>2, <3>3, <3>4
  <2> QED BY <2>1, <2>2
<1>16. NoEmptyLevels'
  <2> SUFFICES ASSUME NEW s2 \in Side, NEW p2 \in prices'[s2] PROVE Live(s2, p2)' # {}
    BY DEF NoEmptyLevels
  <2>1. p2 \in Price
    BY <1>2, <1>10 DEF TypeOK
  <2>2. CASE s2 = s /\ p2 = p
    BY <1>9, <2>1, <2>2
  <2>3. CASE ~(s2 = s /\ p2 = p)
    <3>1. p2 \in prices[s2]
      BY <1>10, <2>3
    <3>2. Live(s2, p2) # {}
      BY <1>1, <3>1 DEF Structure, NoEmptyLevels, Draining
    <3> QED BY <1>9, <2>1, <2>3, <3>2
  <2> QED BY <2>2, <2>3
<1>17. ListsAreFifo'
  <2> SUFFICES ASSUME NEW s2 \in Side, NEW p2 \in Price
               PROVE  IsFifo(node', level'[s2][p2], Live(s2, p2)')
    BY DEF ListsAreFifo
  <2>1. /\ IsFifo(node, level[s2][p2], Live(s2, p2)) /\ Live(s2, p2) \subseteq Addr
        /\ IsFifo(node, l, Live(s, p)) /\ Live(s, p) \subseteq Addr
    BY <1>2 DEF Structure, ListsAreFifo, Live, l
  <2>2. n \notin Live(s2, p2) /\ n \notin Live(s, p)
    BY <1>6 DEF Live
  <2>3. CASE s2 = s /\ p2 = p
    <3>1. \A m \in Live(s, p) : m < n
      <4> SUFFICES ASSUME NEW m \in Live(s, p) PROVE m < n
        OBVIOUS
      <4>1. m \in Int /\ m <= allocated
        BY <1>6, AddrFacts DEF Live
      <4> QED BY <1>3, <4>1 DEF n
    <3>2. \A m \in Live(s, p) :
            /\ node'[m].prev = node[m].prev
            /\ node'[m].next = IF m = l.tail THEN n ELSE node[m].next
      BY <1>8, <2>1, <2>2
    <3>3. IsFifo(node', level'[s][p], Live(s, p) \cup {n})
      BY <1>3, <1>4, <1>7, <1>11, <2>1, <3>1, <3>2, AppendSame
    <3> QED BY <1>9, <2>3, <3>3
  <2>4. CASE ~(s2 = s /\ p2 = p)
    <3>1. Live(s2, p2)' = Live(s2, p2) /\ level'[s2][p2] = level[s2][p2]
      BY <1>9, <1>12, <2>4
    <3>2. l.tail \notin Live(s2, p2)
      <4>1. l.tail = Null \/ l.tail \in Live(s, p)
        BY <2>1 DEF IsFifo
      <4> QED BY <2>4, <4>1, AddrFacts DEF Live
    <3>3. \A m \in Live(s2, p2) : node'[m].prev = node[m].prev /\ node'[m].next = node[m].next
      BY <1>8, <2>1, <2>2, <3>2
    <3> QED BY <2>1, <3>1, <3>3, FifoTransfer
  <2> QED BY <2>3, <2>4
<1>18. LookupExact'
  <2>1. ASSUME NEW m \in Addr, node'[m].active PROVE lookup'[node'[m].order_id] = m
    <3>1. CASE m = n
      BY <1>2, <1>7, <1>13, <3>1
    <3>2. CASE m # n
      <4>1. node[m].active /\ node'[m].order_id = node[m].order_id
        BY <1>8, <2>1, <3>2
      <4>2. lookup[node[m].order_id] = m /\ m # Null /\ node[m].order_id \in OrderId
        BY <4>1, AddrFacts DEF Structure, LookupExact, NodesHaveLevels
      <4>3. node[m].order_id # event.order_id
        BY <1>1, <4>2
      <4> QED BY <1>13, <4>1, <4>2, <4>3
    <3> QED BY <3>1, <3>2
  <2>2. ASSUME NEW id \in OrderId, lookup'[id] # Null
        PROVE  node'[lookup'[id]].active /\ node'[lookup'[id]].order_id = id
    <3>1. CASE id = event.order_id
      BY <1>7, <1>13, <3>1
    <3>2. CASE id # event.order_id
      <4>1. lookup'[id] = lookup[id] /\ lookup[id] \in Addr
        BY <1>13, <2>2, <3>2 DEF TypeOK, Pointer
      <4>2. node[lookup[id]].active /\ node[lookup[id]].order_id = id
        BY <2>2, <4>1 DEF Structure, LookupExact
      <4>3. lookup[id] # n
        BY <1>6, <4>1, <4>2
      <4> QED BY <1>8, <4>1, <4>2, <4>3
    <3> QED BY <3>1, <3>2
  <2> QED BY <2>1, <2>2 DEF LookupExact
<1>19. CursorOnLiveHead'
  BY <1>14 DEF CursorOnLiveHead
<1> QED BY <1>15, <1>16, <1>17, <1>18, <1>19 DEF Structure

(* cancel_resting: the order leaves its list wherever it stands in it. *)
LEMMA CancelStep ==
  ASSUME TypeOK, Structure, NEW e \in CancelEvent, CancelResting(e)
  PROVE  Structure'
<1> DEFINE n == lookup[e.order_id]
           s == node[n].side
           p == node[n].price
           u == UnlinkedLevel(level[s][p], n)
           l == Reduced(u, node[n].quantity)
           k == IF Drained(l) THEN EmptyLevel ELSE l
<1>1. e.order_id \in OrderId
  BY DEF CancelEvent
<1>2. n \in Addr /\ node[n].active /\ node[n] \in Node /\ s \in Side
  BY <1>1 DEF CancelResting, Cancellable, TypeOK, Pointer, Node
<1>3. node[n].order_id = e.order_id
  BY <1>1 DEF CancelResting, Cancellable, Structure, LookupExact
<1>4. p \in prices[s] /\ p \in Price
  BY <1>2 DEF Structure, NodesHaveLevels, TypeOK
<1>5. /\ node' = UnlinkedNodes(n)
      /\ prices' = [prices EXCEPT ![s] = IF Drained(l) THEN @ \ {p} ELSE @]
      /\ level' = [level EXCEPT ![s][p] = k]
      /\ lookup' = lookup_erase(node[n].order_id)
  BY <1>3, <1>4 DEF CancelResting, detach
<1>6. pc = "idle" /\ pc' = "done" /\ allocated' = allocated
  BY DEF CancelResting
<1>7. u \in Level
  <2>1. level[s][p] \in Level
    BY <1>2, <1>4 DEF TypeOK
  <2> QED BY <1>2, <2>1, UnlinkTypes DEF TypeOK
<1>8. IsFifo(node', u, Live(s, p) \ {n})
  <2>1. /\ IsFifo(node, level[s][p], Live(s, p)) /\ Live(s, p) \subseteq Addr
        /\ n \in Live(s, p) /\ level[s][p] \in Level
    BY <1>2, <1>4 DEF Structure, ListsAreFifo, Live, TypeOK
  <2> QED BY <1>5, <2>1, UnlinkSame DEF TypeOK
<1> HIDE DEF n, s, p, u
<1>9. l.head = u.head /\ l.tail = u.tail
  BY <1>7 DEF Reduced, Level
<1>10. k.head = u.head /\ k.tail = u.tail
  <2>1. CASE Drained(l)
    <3>1. u.head = Null
      BY <1>9, <2>1 DEF Drained
    <3>2. u.tail = Null
      BY <1>8, <3>1 DEF IsFifo
    <3> QED BY <2>1, <3>1, <3>2 DEF EmptyLevel
  <2>2. CASE ~Drained(l)
    BY <1>9, <2>2
  <2> QED BY <2>1, <2>2
<1>11. Drained(l) <=> Live(s, p) \ {n} = {}
  BY <1>8, <1>9 DEF Drained, IsFifo
<1> HIDE DEF l, k
<1>12. /\ ~node'[n].active
       /\ \A m \in Addr \ {n} :
            /\ node'[m].active = node[m].active
            /\ node'[m].order_id = node[m].order_id
            /\ node'[m].side = node[m].side
            /\ node'[m].price = node[m].price
            /\ node'[m].quantity = node[m].quantity
       /\ \A s2, p2 : Live(s2, p2)' = Live(s2, p2) \ {n}
  BY <1>2, <1>5, UnlinkedLive
<1>13. \A s2 \in Side : prices'[s2] =
         IF s2 = s /\ Drained(l) THEN prices[s2] \ {p} ELSE prices[s2]
  BY <1>5 DEF TypeOK
<1>14. NodesHaveLevels'
  <2> SUFFICES ASSUME NEW m \in Addr, node'[m].active
               PROVE  /\ m <= allocated
                      /\ node'[m].order_id \in OrderId /\ node'[m].order_id > 0
                      /\ node'[m].quantity > 0
                      /\ node'[m].price \in prices'[node'[m].side]
    BY <1>6 DEF NodesHaveLevels
  <2>1. m # n
    BY <1>12
  <2>2. /\ node'[m].active = node[m].active /\ node'[m].order_id = node[m].order_id
        /\ node'[m].side = node[m].side /\ node'[m].price = node[m].price
        /\ node'[m].quantity = node[m].quantity
    BY <1>12, <2>1
  <2>3. /\ m <= allocated /\ node[m].order_id \in OrderId /\ node[m].order_id > 0
        /\ node[m].quantity > 0 /\ node[m].price \in prices[node[m].side]
        /\ node[m].side \in Side
    BY <2>2 DEF Structure, NodesHaveLevels, TypeOK, Node
  <2>4. node[m].price \in prices'[node[m].side]
    <3>1. node[m].side = s /\ node[m].price = p => ~Drained(l)
      BY <1>11, <2>1, <2>2 DEF Live
    <3> QED BY <1>13, <2>3, <3>1
  <2> QED BY <2>2, <2>3, <2>4
<1>15. NoEmptyLevels'
  <2> SUFFICES ASSUME NEW s2 \in Side, NEW p2 \in prices'[s2] PROVE Live(s2, p2)' # {}
    BY DEF NoEmptyLevels
  <2>1. p2 \in prices[s2]
    BY <1>13
  <2>2. Live(s2, p2) # {}
    BY <1>6, <2>1 DEF Structure, NoEmptyLevels, Draining
  <2>3. CASE s2 = s /\ p2 = p
    BY <1>11, <1>12, <1>13, <2>3
  <2>4. CASE ~(s2 = s /\ p2 = p)
    <3>1. n \notin Live(s2, p2)
      BY <2>4 DEF Live, s, p
    <3> QED BY <1>12, <2>2, <3>1
  <2> QED BY <2>3, <2>4
<1>16. ListsAreFifo'
  <2>1. s = node[n].side /\ p = node[n].price
    BY DEF s, p
  <2>2. k.head = UnlinkedLevel(level[s][p], n).head /\ k.tail = UnlinkedLevel(level[s][p], n).tail
    BY <1>10 DEF u
  <2> QED BY <1>2, <1>4, <1>5, <2>1, <2>2, UnlinkedLists DEF Structure
<1>17. LookupExact'
  BY <1>2, <1>5, UnlinkedLookup DEF Structure
<1>18. CursorOnLiveHead'
  BY <1>6 DEF CursorOnLiveHead
<1> QED BY <1>14, <1>15, <1>16, <1>17, <1>18 DEF Structure

(* Every step of every handler keeps lists, ladders and lookup in agreement. *)
LEMMA StructureNext ==
  ASSUME TypeOK, Structure, [Next]_vars
  PROVE  Structure'
<1>1. ASSUME NEW e \in AddEvent, RejectAdd(e) \/ KillFok(e) \/ BeginMatch(e)
      PROVE  Structure'
  <2>1. /\ UNCHANGED <<node, prices, level, lookup, allocated>>
        /\ pc # "level" /\ pc' # "level"
    BY <1>1 DEF RejectAdd, KillFok, BeginMatch, book
  <2> QED BY <2>1, QuietStep
<1>2. ASSUME NEW e \in CancelEvent, RejectCancel(e) PROVE Structure'
  <2>1. /\ UNCHANGED <<node, prices, level, lookup, allocated>>
        /\ pc # "level" /\ pc' # "level"
    BY <1>2 DEF RejectCancel, book
  <2> QED BY <2>1, QuietStep
<1>3. ASSUME NEW e \in CancelEvent, CancelResting(e) PROVE Structure'
  BY <1>3, CancelStep
<1>4. CASE FinishFilled \/ FinishCancelled \/ FinishDuplicate \/ Return
  <2>1. /\ UNCHANGED <<node, prices, level, lookup>>
        /\ allocated' \in {allocated, allocated + 1}
        /\ pc # "level" /\ pc' # "level"
    BY <1>4 DEF FinishFilled, FinishCancelled, FinishDuplicate, Return, Finish, MatchDone, book
  <2> QED BY <2>1, QuietStep
<1>5. CASE UNCHANGED vars
  <2>1. UNCHANGED <<node, prices, level, lookup, allocated, pc, event, residual,
                    levelPrice, cursor>>
    BY <1>5 DEF vars, book, frame
  <2> QED BY <2>1, QuietStep
<1> QED
  BY <1>1, <1>2, <1>3, <1>4, <1>5, EnterLevelStep, FillWholeStep, FillPartStep,
     LeaveLevelStep, RestStep DEF Next

(* The three representations of what rests (intrusive lists, ladder keys, id  *)
(* lookup) agree in every reachable state, and match_level's cursor is sound. *)
THEOREM StructureHolds == Spec => []Structure
<1>1. TypeOK /\ Structure /\ [Next]_vars => Structure'
  BY StructureNext
<1> QED BY <1>1, StructureInit, TypeCorrect, PTL DEF Spec

(* Each level's list is its active orders in order of arrival, after any      *)
(* sequence of appends, cancels and fills (order_book.hpp:91-139, 492-511).   *)
THEOREM ListsStayFifo == Spec => []ListsAreFifo
<1>1. Structure => ListsAreFifo
  BY DEF Structure
<1> QED BY <1>1, StructureHolds, PTL

(* No lookup entry dangles and no id rests twice (order_book.hpp:422, 508).   *)
THEOREM LookupStaysExact == Spec => []LookupExact
<1>1. Structure => LookupExact
  BY DEF Structure
<1> QED BY <1>1, StructureHolds, PTL

(* The assertion of order_book.hpp:466 never fails, and matching always works *)
(* on the best, crossed level.                                                *)
THEOREM CursorStaysLive == Spec => []CursorOnLiveHead
<1>1. Structure => CursorOnLiveHead
  BY DEF Structure
<1> QED BY <1>1, StructureHolds, PTL

------------------------------------------------------------------------------
(* What match_level trades with is first in price, then in time. *)
LEMMA CursorHasPriority ==
  ASSUME TypeOK, Structure, Fill
  PROVE  /\ node[cursor].side = Opp
         /\ crosses(Opp, event.price, node[cursor].price)
         /\ \A m \in Addr :
              node[m].active /\ node[m].side = node[cursor].side /\ m # cursor =>
                \/ Better(Opp, node[cursor].price, node[m].price)
                \/ node[cursor].price = node[m].price /\ cursor < m
<1>1. /\ cursor \in Addr /\ cursor \in Live(Opp, levelPrice)
      /\ \A m \in Live(Opp, levelPrice) : cursor <= m
  BY CursorIsHead
<1>2. node[cursor].side = Opp /\ node[cursor].price = levelPrice
  BY <1>1 DEF Live
<1>3. IsBest(Opp, levelPrice) /\ crosses(Opp, event.price, levelPrice)
  BY DEF Structure, CursorOnLiveHead, Fill
<1>4. ASSUME NEW m \in Addr, node[m].active, node[m].side = Opp, m # cursor
      PROVE  \/ Better(Opp, levelPrice, node[m].price)
             \/ levelPrice = node[m].price /\ cursor < m
  <2>1. node[m].price \in prices[Opp]
    BY <1>4 DEF Structure, NodesHaveLevels
  <2>2. CASE node[m].price # levelPrice
    BY <1>3, <2>1, <2>2 DEF IsBest
  <2>3. CASE node[m].price = levelPrice
    <3>1. cursor <= m
      BY <1>1, <1>4, <2>3 DEF Live
    <3>2. cursor \in Int /\ m \in Int
      BY <1>1, AddrFacts
    <3> QED BY <1>4, <2>3, <3>1, <3>2
  <2> QED BY <2>2, <2>3
<1> QED BY <1>2, <1>3, <1>4

(* No step of an add takes from an order that another one precedes. *)
LEMMA PriceTimeNext ==
  ASSUME TypeOK, Structure, [Next]_vars
  PROVE  PriceTimeStep
<1> SUFFICES ASSUME NEW n \in Addr, Takes(n), event'.type = "add"
             PROVE  /\ node[n].side = opposite_of(event'.side)
                    /\ crosses(node[n].side, event'.price, node[n].price)
                    /\ \A m \in Addr :
                         node[m].active /\ node[m].side = node[n].side /\ m # n =>
                           \/ Better(node[n].side, node[n].price, node[m].price)
                           \/ node[n].price = node[m].price /\ n < m
  BY DEF PriceTimeStep
<1>1. node[n] \in Node /\ node[n].quantity \in Int
  BY DEF TypeOK, Node
<1>2. node'[n] # node[n]
  BY <1>1 DEF Takes
<1>3. ASSUME Fill, event' = event, n = cursor
      PROVE  /\ node[n].side = opposite_of(event'.side)
             /\ crosses(node[n].side, event'.price, node[n].price)
             /\ \A m \in Addr :
                  node[m].active /\ node[m].side = node[n].side /\ m # n =>
                    \/ Better(node[n].side, node[n].price, node[m].price)
                    \/ node[n].price = node[m].price /\ n < m
  BY <1>3, CursorHasPriority DEF Opp
<1>4. CASE FillRestingWhole
  <2>1. Fill /\ event' = event /\ node' = UnlinkedNodes(cursor) /\ cursor \in Addr
    BY <1>4, CursorIsHead DEF FillRestingWhole, Fill
  <2>2. n = cursor
    <3>1. ASSUME n # cursor PROVE FALSE
      <4>1. node'[n].active = node[n].active /\ node'[n].quantity = node[n].quantity
        BY <2>1, <3>1, UnlinkedLive
      <4> QED BY <1>1, <4>1 DEF Takes
    <3> QED BY <3>1
  <2> QED BY <1>3, <2>1, <2>2
<1>5. CASE FillRestingPart
  <2>1. Fill /\ event' = event
    BY <1>5 DEF FillRestingPart, Fill
  <2>2. n = cursor
    BY <1>2, <1>5 DEF FillRestingPart, TypeOK
  <2> QED BY <1>3, <2>1, <2>2
<1>6. CASE FinishResting
  <2> DEFINE a == allocated + 1
  <2>1. append(a, allocate_resting_node(event, residual)) /\ allocated \in Int
    BY <1>6 DEF FinishResting, TypeOK
  <2>2. n # a
    <3>1. n <= allocated /\ n \in Int
      BY AddrFacts DEF Takes, Structure, NodesHaveLevels
    <3> QED BY <2>1, <3>1
  <2> HIDE DEF a
  <2>3. node'[n].active = node[n].active /\ node'[n].quantity = node[n].quantity
    BY <1>1, <2>1, <2>2 DEF append, Node
  <2> QED BY <1>1, <2>3 DEF Takes
<1>7. ASSUME NEW e \in CancelEvent, CancelResting(e) PROVE FALSE
  BY <1>7 DEF CancelResting, CancelEvent
<1>8. ASSUME node' = node PROVE FALSE
  BY <1>2, <1>8
<1>9. \/ node' = node \/ FillRestingWhole \/ FillRestingPart \/ FinishResting
      \/ \E e \in CancelEvent : CancelResting(e)
  BY DEF Next, RejectAdd, KillFok, BeginMatch, RejectCancel, EnterLevel, LeaveLevel,
         FinishFilled, FinishDuplicate, FinishCancelled, Return, vars, book
<1> QED BY <1>4, <1>5, <1>6, <1>7, <1>8, <1>9

(* Price-time priority, for every reachable book and every incoming order: a *)
(* resting order trades only inside the limit and only when no other order   *)
(* of its side has a better price, or the same price and an earlier arrival. *)
THEOREM PriorityRespected == Spec => PriceTimePriority
<1>1. TypeOK /\ Structure /\ [Next]_vars => [PriceTimeStep]_vars
  BY PriceTimeNext
<1> QED BY <1>1, TypeCorrect, StructureHolds, PTL DEF Spec, PriceTimePriority

(* Ladders and nodes agree: every active node is reachable through the level  *)
(* of its price, and no level outlives its last order except while            *)
(* match_level drains it (order_book.hpp:446, 137).                           *)
THEOREM LaddersStayMatched == Spec => []LadderMatchesNodes
<1>1. Structure => LadderMatchesNodes
  BY DEF Structure, LadderMatchesNodes
<1> QED BY <1>1, StructureHolds, PTL

------------------------------------------------------------------------------
(* Arithmetic of quantity_t. *)
LEMMA Remainder ==
  ASSUME NEW m \in Nat \ {0}, NEW k \in Int, NEW r \in 0 .. m - 1
  PROVE  (k * m + r) % m = r
OBVIOUS

LEMMA Quotient ==
  ASSUME NEW m \in Nat \ {0}, NEW x \in Int
  PROVE  \E k \in Int, r \in 0 .. m - 1 : r = x % m /\ r = x - k * m
<1>1. x \div m \in Int /\ x % m \in 0 .. m - 1 /\ x % m = x - (x \div m) * m
  OBVIOUS
<1> QED BY <1>1, Zenon

LEMMA ModShift ==
  ASSUME NEW m \in Nat \ {0}, NEW x \in Int, NEW d \in Int
  PROVE  ((x % m) + d) % m = (x + d) % m
<1>1. PICK k \in Int, r \in 0 .. m - 1 : r = x % m /\ r = x - k * m
  BY Quotient
<1>2. PICK j \in Int, t \in 0 .. m - 1 : t = (x + d) % m /\ t = x + d - j * m
  <2>1. x + d \in Int
    OBVIOUS
  <2> DEFINE y == x + d
  <2> HIDE DEF y
  <2>2. \E j \in Int, t \in 0 .. m - 1 : t = y % m /\ t = y - j * m
    BY <2>1, Quotient DEF y
  <2> QED BY <2>2 DEF y
<1>3. r + d = (j - k) * m + t
  <2>1. (j - k) * m = j * m - k * m /\ j * m \in Int /\ k * m \in Int
    OBVIOUS
  <2>2. r = x - k * m /\ t = x + d - j * m /\ r \in Int /\ t \in Int
    BY <1>1, <1>2
  <2> QED BY <2>1, <2>2
<1>4. j - k \in Int
  OBVIOUS
<1>5. ((j - k) * m + t) % m = t
  BY <1>4, Remainder
<1> QED BY <1>1, <1>2, <1>3, <1>5, Zenon

(* Wrapping is the identity on quantity_t, never adds, and can be left out of *)
(* the operands of a sum (order_book.hpp:94, 117, 172, 474).                  *)
LEMMA WrapShift ==
  ASSUME NEW x \in Int, NEW d \in Int
  PROVE  Wrap(Wrap(x) + d) = Wrap(x + d)
<1> DEFINE M == 2 * QtyMax + 2
           H == QtyMax + 1
           y == x + H
<1>1. M \in Nat \ {0} /\ H \in Int /\ QtyMax \in Int /\ y \in Int
  BY BookAssumption
<1>2. ASSUME NEW z \in Int PROVE z + QtyMax + 1 = z + H
  BY <1>1
<1>3. \A z \in Int : Wrap(z) = ((z + H) % M) - H
  BY <1>2, Zenon DEF Wrap
<1> HIDE DEF M, H, y
<1>4. y % M \in Int
  BY <1>1
<1>5. Wrap(x) = (y % M) - H
  BY <1>3, Zenon DEF y
<1>6. ((y % M) + d) % M = (y + d) % M
  BY <1>1, ModShift
<1> DEFINE r == y % M
<1> HIDE DEF r
<1>7. r - H + d + H = r + d /\ r - H + d \in Int
  BY <1>1, <1>4 DEF r
<1>8. x + d + H = y + d /\ x + d \in Int
  BY <1>1 DEF y
<1> QED BY <1>3, <1>5, <1>6, <1>7, <1>8, Zenon DEF r

LEMMA WrapRange ==
  ASSUME NEW x \in Int
  PROVE  /\ x \in -QtyMax - 1 .. QtyMax => Wrap(x) = x
         /\ x >= 0 => Wrap(x) <= x
         /\ Wrap(x) \in Int
<1> DEFINE M == 2 * QtyMax + 2
           H == QtyMax + 1
           y == x + H
<1>1. M \in Nat \ {0} /\ H \in Nat /\ QtyMax \in Nat /\ M = 2 * H /\ y \in Int
  BY BookAssumption
<1>2. Wrap(x) = (y % M) - H
  <2>1. x + QtyMax + 1 = y
    BY <1>1
  <2> QED BY <2>1, Zenon DEF Wrap
<1> HIDE DEF M, y
<1>3. PICK k \in Int, r \in 0 .. M - 1 : r = y % M /\ r = y - k * M
  BY <1>1, Quotient
<1>4. ASSUME x \in -QtyMax - 1 .. QtyMax PROVE Wrap(x) = x
  <2>1. y \in 0 .. M - 1
    BY <1>4, <1>1 DEF y
  <2>2. (0 * M + y) % M = y
    BY <1>1, <2>1, Remainder
  <2>3. 0 * M + y = y
    BY <1>1
  <2>4. Wrap(x) = y - H
    BY <1>2, <2>2, <2>3, Zenon
  <2> QED BY <1>1, <2>4 DEF y
<1>5. ASSUME x >= 0 PROVE Wrap(x) <= x
  <2> HIDE DEF H
  <2>1. k * M >= 0
    <3>1. ASSUME k <= -1 PROVE FALSE
      <4>1. k * M <= -M
        BY <1>1, <3>1
      <4>2. r \in Int /\ r = y - k * M /\ r < M /\ k * M \in Int
        BY <1>1, <1>3
      <4>3. y >= 0
        BY <1>1, <1>5 DEF y
      <4> QED BY <1>1, <4>1, <4>2, <4>3
    <3>2. k >= 0
      BY <3>1
    <3> QED BY <1>1, <3>2
  <2>2. Wrap(x) = r - H
    BY <1>2, <1>3, Zenon
  <2>3. r = y - k * M /\ k * M \in Int /\ r \in Int
    BY <1>1, <1>3
  <2>4. y = x + H
    BY DEF y
  <2> QED BY <1>1, <2>1, <2>2, <2>3, <2>4
<1> QED BY <1>4, <1>5, WrapInt

------------------------------------------------------------------------------
(* What rests on a side at the prices R, and how much. *)
Resting(s, R) == {n \in Addr : node[n].active /\ node[n].side = s /\ node[n].price \in R}
Depth(s, R) == SumOver(Quantities, Resting(s, R))
Share(n, s, R) == IF n \in Resting(s, R) THEN node[n].quantity ELSE 0

(* Order n is what it was. *)
Kept(n) ==
  /\ node'[n].active = node[n].active /\ node'[n].side = node[n].side
  /\ node'[n].price = node[n].price /\ node'[n].quantity = node[n].quantity
  /\ node'[n].order_id = node[n].order_id

LEMMA RestingFacts ==
  ASSUME TypeOK, NEW s, NEW R
  PROVE  /\ \A T \in SUBSET Addr : IsFiniteSet(T)
         /\ Resting(s, R) \in SUBSET Addr
         /\ \A n \in Addr : Quantities[n] = node[n].quantity /\ Quantities[n] \in Nat
         /\ Depth(s, R) \in Nat
<1>1. \A T \in SUBSET Addr : IsFiniteSet(T)
  <2>1. 1 \in Int /\ MaxNodes \in Int
    BY BookAssumption
  <2>2. IsFiniteSet(Addr)
    BY <2>1, FS_Interval, Zenon DEF Addr
  <2> QED BY <2>2, FS_Subset
<1>2. Resting(s, R) \in SUBSET Addr
  BY DEF Resting
<1>3. \A n \in Addr : Quantities[n] = node[n].quantity /\ Quantities[n] \in Nat
  BY DEF TypeOK, Node, Quantities
<1>4. Depth(s, R) \in Nat
  BY <1>1, <1>2, <1>3, SumNat DEF Depth
<1> QED BY <1>1, <1>2, <1>3, <1>4

(* When one order changes, the depth changes by its share. *)
LEMMA DepthChange ==
  ASSUME TypeOK, TypeOK', NEW n \in Addr, \A m \in Addr \ {n} : Kept(m), NEW s, NEW R
  PROVE  Depth(s, R)' = Depth(s, R) + Share(n, s, R)' - Share(n, s, R)
<1> DEFINE A == Resting(s, R)
           B == Resting(s, R)'
           q == Quantities
           r == Quantities'
<1>1. A \in SUBSET Addr /\ B \in SUBSET Addr /\ A \ {n} = B \ {n}
  BY DEF Resting, Kept
<1>2. /\ \A m \in Addr : q[m] = node[m].quantity /\ r[m] = node'[m].quantity
      /\ \A m \in Addr : q[m] \in Int /\ r[m] \in Int
  <2>1. node \in [Addr -> Node] /\ node' \in [Addr -> Node]
    BY DEF TypeOK
  <2>2. \A m \in Addr : node[m].quantity \in Int /\ node'[m].quantity \in Int
    BY <2>1 DEF Node
  <2> QED BY <2>2 DEF Quantities
<1>3. \A T \in SUBSET Addr : IsFiniteSet(T)
  BY RestingFacts
<1>4. Depth(s, R) = SumOver(q, A) /\ Depth(s, R)' = SumOver(r, B)
  BY DEF Depth
<1>5. /\ Share(n, s, R) = IF n \in A THEN q[n] ELSE 0
      /\ Share(n, s, R)' = IF n \in B THEN r[n] ELSE 0
  BY <1>2 DEF Share
<1>6. \A m \in A \ {n} : q[m] = r[m]
  BY <1>1, <1>2 DEF Kept
<1> HIDE DEF A, B, q, r
<1>7. SumOver(q, A \ {n}) = SumOver(r, B \ {n}) /\ SumOver(q, A \ {n}) \in Int
  <2>1. A \ {n} \in SUBSET Addr
    BY <1>1
  <2>2. SumOver(q, A \ {n}) = SumOver(r, A \ {n})
    BY <1>3, <1>6, <2>1, SumSame
  <2> QED BY <1>1, <1>2, <1>3, <2>1, <2>2, SumInt
<1>8. SumOver(q, A) = (IF n \in A THEN q[n] ELSE 0) + SumOver(q, A \ {n})
  <2>1. CASE n \in A
    BY <1>1, <1>2, <1>3, <2>1, SumRemove
  <2>2. CASE n \notin A
    <3>1. A \ {n} = A /\ SumOver(q, A \ {n}) = SumOver(q, A)
      BY <2>2
    <3>2. SumOver(q, A) \in Int
      BY <1>7, <3>1
    <3> QED BY <2>2, <3>1, <3>2
  <2> QED BY <2>1, <2>2
<1>9. SumOver(r, B) = (IF n \in B THEN r[n] ELSE 0) + SumOver(r, B \ {n})
  <2>1. CASE n \in B
    BY <1>1, <1>2, <1>3, <2>1, SumRemove
  <2>2. CASE n \notin B
    <3>1. B \ {n} = B /\ SumOver(r, B \ {n}) = SumOver(r, B)
      BY <2>2
    <3>2. SumOver(r, B) \in Int
      BY <1>7, <3>1
    <3> QED BY <2>2, <3>1, <3>2
  <2> QED BY <2>1, <2>2
<1>10. q[n] \in Int /\ r[n] \in Int
  BY <1>2
<1> QED BY <1>4, <1>5, <1>7, <1>8, <1>9, <1>10

LEMMA DepthSame ==
  ASSUME TypeOK, TypeOK', \A m \in Addr : Kept(m), NEW s, NEW R
  PROVE  Depth(s, R)' = Depth(s, R)
<1>1. Resting(s, R)' = Resting(s, R)
  BY DEF Resting, Kept
<1>2. \A m \in Addr : Quantities[m] = Quantities'[m]
  BY DEF Kept, Quantities
<1>3. IsFiniteSet(Resting(s, R)) /\ Resting(s, R) \in SUBSET Addr
  <2>1. Resting(s, R) \in SUBSET Addr /\ \A T \in SUBSET Addr : IsFiniteSet(T)
    BY RestingFacts
  <2> QED BY <2>1
<1>4. SumOver(Quantities, Resting(s, R)) = SumOver(Quantities', Resting(s, R))
  <2> DEFINE q == Quantities
             r == Quantities'
             A == Resting(s, R)
  <2>1. \A m \in A : q[m] = r[m]
    BY <1>2, <1>3
  <2> HIDE DEF q, r, A
  <2>2. SumOver(q, A) = SumOver(r, A)
    BY <1>3, <2>1, SumSame DEF A
  <2> QED BY <2>2 DEF q, r, A
<1> QED BY <1>1, <1>4 DEF Depth

------------------------------------------------------------------------------
(* What a fill does to the orders and the totals: the cursor loses the        *)
(* quantity traded, and so does its level (order_book.hpp:467-486).           *)
LEMMA FillEffect ==
  ASSUME TypeOK, Structure, FillRestingWhole \/ FillRestingPart, NEW n, n = cursor
  PROVE  /\ Fill /\ n \in Addr /\ event \in AddEvent
         /\ Opp \in Side /\ levelPrice \in Price
         /\ node[n].active /\ node[n].side = Opp /\ node[n].price = levelPrice
         /\ trade_qty \in Nat /\ trade_qty <= residual /\ trade_qty <= node[n].quantity
         /\ \A m \in Addr \ {n} : Kept(m)
         /\ \A s, R : /\ Share(n, s, R) \in Int
                      /\ Share(n, s, R)' = Share(n, s, R) -
                           (IF s = Opp /\ levelPrice \in R THEN trade_qty ELSE 0)
         /\ \A s \in Side, p \in Price :
              level'[s][p].total = IF s = Opp /\ p = levelPrice
                                   THEN Wrap(level[s][p].total - trade_qty)
                                   ELSE level[s][p].total
<1> DEFINE q == trade_qty
<1>1. Fill
  BY DEF FillRestingWhole, FillRestingPart
<1>2. /\ event \in AddEvent /\ Opp \in Side /\ levelPrice \in Price /\ n \in Addr
      /\ n \in Live(Opp, levelPrice) /\ node[n] \in Node
  BY <1>1, CursorIsHead
<1>3. node[n].active /\ node[n].side = Opp /\ node[n].price = levelPrice /\ node[n].quantity \in Nat
  BY <1>2 DEF Live, Node
<1>4. q \in Nat /\ q <= residual /\ q <= node[n].quantity
  BY <1>3 DEF trade_qty, MinQty, TypeOK
<1> HIDE DEF q
<1>5. \A m \in Addr \ {n} : Kept(m)
  <2>1. CASE FillRestingWhole
    <3>1. node' = UnlinkedNodes(n)
      BY <2>1 DEF FillRestingWhole
    <3> QED BY <1>2, <3>1, UnlinkedLive DEF Kept
  <2>2. CASE FillRestingPart
    <3>1. node' = [node EXCEPT ![n] = [node[n] EXCEPT !.quantity = node[n].quantity - q]]
      BY <2>2 DEF FillRestingPart, q
    <3>2. ASSUME NEW m \in Addr \ {n} PROVE node'[m] = node[m]
      BY <3>1 DEF TypeOK
    <3> QED BY <3>2 DEF Kept
  <2> QED BY <2>1, <2>2
<1>6. \/ ~node'[n].active /\ q = node[n].quantity
      \/ /\ node'[n].active /\ node'[n].side = Opp /\ node'[n].price = levelPrice
         /\ node'[n].quantity = node[n].quantity - q
  <2>1. CASE FillRestingWhole
    <3>1. node' = UnlinkedNodes(n) /\ q = node[n].quantity
      BY <2>1 DEF FillRestingWhole, q
    <3> QED BY <1>2, <3>1, UnlinkedLive
  <2>2. CASE FillRestingPart
    <3>1. node' = [node EXCEPT ![n] = [node[n] EXCEPT !.quantity = node[n].quantity - q]]
      BY <2>2 DEF FillRestingPart, q
    <3>2. node'[n] = [node[n] EXCEPT !.quantity = node[n].quantity - q]
      BY <1>2, <3>1 DEF TypeOK
    <3> QED BY <1>2, <1>3, <3>2 DEF Node
  <2> QED BY <2>1, <2>2
<1>7. ASSUME NEW s, NEW R
      PROVE  /\ Share(n, s, R) \in Int
             /\ Share(n, s, R)' = Share(n, s, R) - (IF s = Opp /\ levelPrice \in R THEN q ELSE 0)
  <2>1. Share(n, s, R) = IF s = Opp /\ levelPrice \in R THEN node[n].quantity ELSE 0
    BY <1>2, <1>3 DEF Share, Resting
  <2>2. CASE ~node'[n].active /\ q = node[n].quantity
    <3>1. Share(n, s, R)' = 0
      BY <2>2 DEF Share, Resting
    <3> QED BY <1>3, <2>1, <2>2, <3>1
  <2>3. CASE /\ node'[n].active /\ node'[n].side = Opp /\ node'[n].price = levelPrice
             /\ node'[n].quantity = node[n].quantity - q
    <3>1. Share(n, s, R)' = IF s = Opp /\ levelPrice \in R THEN node[n].quantity - q ELSE 0
      BY <1>2, <2>3 DEF Share, Resting
    <3> QED BY <1>3, <1>4, <2>1, <3>1
  <2> QED BY <1>6, <2>2, <2>3
<1>8. ASSUME NEW s \in Side, NEW p \in Price
      PROVE  level'[s][p].total = IF s = Opp /\ p = levelPrice
                                  THEN Wrap(level[s][p].total - q) ELSE level[s][p].total
  <2> DEFINE l == level[Opp][levelPrice]
             u == UnlinkedLevel(l, n)
             k == IF FillRestingWhole THEN Reduced(u, q) ELSE Reduced(l, q)
  <2>1. l \in Level /\ u \in Level /\ u.total = l.total
    <3>1. l \in Level
      BY <1>2 DEF TypeOK
    <3> HIDE DEF l
    <3> QED BY <1>2, <3>1, UnlinkTypes DEF TypeOK, UnlinkedLevel, Level
  <2>2. level' = [level EXCEPT ![Opp][levelPrice] = k]
    BY DEF FillRestingWhole, FillRestingPart, q
  <2> HIDE DEF l, u
  <2>3. Reduced(u, q).total = Wrap(l.total - q) /\ Reduced(l, q).total = Wrap(l.total - q)
    BY <2>1 DEF Reduced, Level
  <2>4. k.total = Wrap(l.total - q)
    BY <2>3
  <2> HIDE DEF k
  <2>5. level'[s][p] = IF s = Opp /\ p = levelPrice THEN k ELSE level[s][p]
    BY <1>2, <2>2 DEF TypeOK
  <2> QED BY <2>4, <2>5 DEF l
<1> QED BY <1>1, <1>2, <1>3, <1>4, <1>5, <1>7, <1>8 DEF q

(* What a cancel does: one order and its quantity go (order_book.hpp:119-139).*)
LEMMA CancelEffect ==
  ASSUME TypeOK, Structure, Structure', NEW e \in CancelEvent, CancelResting(e)
  PROVE  LET n == lookup[e.order_id]
         IN  /\ n \in Addr /\ node[n].active /\ node[n].quantity \in Nat
             /\ ~node'[n].active
             /\ \A m \in Addr \ {n} : Kept(m)
             /\ \A s \in Side, p \in Price :
                  IF s = node[n].side /\ p = node[n].price
                  THEN \/ level'[s][p].total = Wrap(level[s][p].total - node[n].quantity)
                       \/ level'[s][p].total = 0 /\ Live(s, p)' = {}
                  ELSE level'[s][p].total = level[s][p].total
<1> DEFINE n == lookup[e.order_id]
           s == node[n].side
           p == node[n].price
           u == UnlinkedLevel(level[s][p], n)
           l == Reduced(u, node[n].quantity)
           k == IF Drained(l) THEN EmptyLevel ELSE l
<1>1. e.order_id \in OrderId
  BY DEF CancelEvent
<1>2. n \in Addr /\ node[n].active /\ node[n] \in Node /\ s \in Side /\ node[n].quantity \in Nat
  BY <1>1 DEF CancelResting, Cancellable, TypeOK, Pointer, Node
<1>3. p \in prices[s] /\ p \in Price
  BY <1>2 DEF Structure, NodesHaveLevels, TypeOK
<1>4. node' = UnlinkedNodes(n) /\ level' = [level EXCEPT ![s][p] = k]
  BY <1>3 DEF CancelResting, detach
<1>5. ~node'[n].active /\ \A m \in Addr \ {n} : Kept(m)
  BY <1>2, <1>4, UnlinkedLive DEF Kept
<1>6. level[s][p] \in Level /\ u \in Level /\ u.total = level[s][p].total
  <2>1. level[s][p] \in Level
    BY <1>2, <1>3 DEF TypeOK
  <2> QED BY <1>2, <2>1, UnlinkTypes DEF TypeOK, UnlinkedLevel, Level
<1>7. l.total = Wrap(level[s][p].total - node[n].quantity) /\ EmptyLevel.total = 0
      /\ EmptyLevel.head = Null
  <2> HIDE DEF u
  <2> QED BY <1>6 DEF Reduced, Level, EmptyLevel
<1>8. \A s2 \in Side, p2 \in Price : level'[s2][p2] = IF s2 = s /\ p2 = p THEN k ELSE level[s2][p2]
  <2> HIDE DEF k, s, p
  <2> QED BY <1>2, <1>3, <1>4 DEF TypeOK
<1>9. k.total = l.total \/ (k.total = 0 /\ k.head = Null)
  <2> HIDE DEF l
  <2> QED BY <1>7
<1> HIDE DEF s, p, k, l, u, n
<1>10. ASSUME NEW s2 \in Side, NEW p2 \in Price, s2 = s, p2 = p, k.head = Null
       PROVE  Live(s2, p2)' = {}
  <2>1. IsFifo(node', level'[s2][p2], Live(s2, p2)')
    BY DEF Structure, ListsAreFifo
  <2>2. level'[s2][p2].head = Null
    BY <1>8, <1>10
  <2> QED BY <2>1, <2>2 DEF IsFifo
<1>11. \A s2 \in Side, p2 \in Price :
         IF s2 = node[n].side /\ p2 = node[n].price
         THEN \/ level'[s2][p2].total = Wrap(level[s2][p2].total - node[n].quantity)
              \/ level'[s2][p2].total = 0 /\ Live(s2, p2)' = {}
         ELSE level'[s2][p2].total = level[s2][p2].total
  BY <1>7, <1>8, <1>9, <1>10 DEF s, p
<1> QED BY <1>2, <1>5, <1>11 DEF n

(* What resting a residue does: one order more, and its quantity             *)
(* (order_book.hpp:91-106, 353-371).                                         *)
LEMMA RestEffect ==
  ASSUME TypeOK, Structure, FinishResting, NEW n, n = allocated + 1
  PROVE  /\ n \in Addr /\ ~node[n].active /\ event \in AddEvent /\ residual \in Nat
         /\ event.side \in Side /\ event.price \in Price
         /\ node'[n].active /\ node'[n].order_id = event.order_id
         /\ node'[n].side = event.side /\ node'[n].price = event.price
         /\ node'[n].quantity = residual
         /\ \A m \in Addr \ {n} : Kept(m)
         /\ \A s \in Side, p \in Price :
              level'[s][p].total = IF s = event.side /\ p = event.price
                                   THEN Wrap(level[s][p].total + residual)
                                   ELSE level[s][p].total
<1> DEFINE s == event.side
           p == event.price
           l == level[s][p]
           new == allocate_resting_node(event, residual)
<1>1. event \in AddEvent /\ allocated < MaxNodes /\ residual \in Nat
  BY DEF FinishResting, MatchDone, TypeOK
<1>2. s \in Side /\ p \in Price
  BY <1>1, AddFields
<1>3. n \in Addr /\ allocated \in Int /\ n > allocated
  BY <1>1, BookAssumption DEF TypeOK, Addr
<1>4. ~node[n].active
  BY <1>3, AddrFacts DEF Structure, NodesHaveLevels
<1>5. /\ node' = [m \in Addr |->
                    IF m = n THEN [new EXCEPT !.prev = l.tail]
                    ELSE IF m = l.tail THEN [node[m] EXCEPT !.next = n]
                    ELSE node[m]]
      /\ level' = [level EXCEPT ![s][p] =
                     [head  |-> IF l.tail = Null THEN n ELSE l.head,
                      tail  |-> n,
                      total |-> Wrap(l.total + residual)]]
  BY DEF FinishResting, append, allocate_resting_node
<1>6. /\ node'[n].active /\ node'[n].order_id = event.order_id
      /\ node'[n].side = s /\ node'[n].price = p /\ node'[n].quantity = residual
  <2>1. node'[n] = [new EXCEPT !.prev = l.tail]
    BY <1>3, <1>5
  <2> QED BY <2>1 DEF allocate_resting_node
<1>7. ASSUME NEW m \in Addr \ {n} PROVE Kept(m)
  <2>1. node[m] \in Node
    BY DEF TypeOK
  <2>2. node'[m] = IF m = l.tail THEN [node[m] EXCEPT !.next = n] ELSE node[m]
    BY <1>5
  <2> QED BY <2>1, <2>2 DEF Node, Kept
<1>8. ASSUME NEW s2 \in Side, NEW p2 \in Price
      PROVE  level'[s2][p2].total = IF s2 = s /\ p2 = p THEN Wrap(level[s2][p2].total + residual)
                                    ELSE level[s2][p2].total
  <2> DEFINE k == [head  |-> IF l.tail = Null THEN n ELSE l.head, tail  |-> n,
                   total |-> Wrap(l.total + residual)]
  <2>1. k.total = Wrap(l.total + residual)
    OBVIOUS
  <2>2. level'[s2][p2] = IF s2 = s /\ p2 = p THEN k ELSE level[s2][p2]
    <3> HIDE DEF k, s, p
    <3> QED BY <1>2, <1>5 DEF TypeOK, k
  <2> HIDE DEF k
  <2> QED BY <2>1, <2>2
<1> QED BY <1>1, <1>2, <1>3, <1>4, <1>6, <1>7, <1>8

(* Leaving a level changes no order, and a total only of a level without any. *)
LEMMA LeaveEffect ==
  ASSUME TypeOK, Structure, LeaveLevel
  PROVE  /\ \A m \in Addr : Kept(m)
         /\ \A s \in Side, p \in Price :
              \/ level'[s][p].total = level[s][p].total
              \/ level'[s][p].total = 0 /\ Live(s, p)' = {}
<1>1. node' = node /\ pc = "level"
  BY DEF LeaveLevel
<1>2. Opp \in Side /\ levelPrice \in Price
  BY <1>1, AddFields DEF TypeOK, Opp
<1>3. \A s, p : Live(s, p)' = Live(s, p)
  BY <1>1 DEF Live
<1>4. ASSUME NEW s \in Side, NEW p \in Price
      PROVE  \/ level'[s][p].total = level[s][p].total
             \/ level'[s][p].total = 0 /\ Live(s, p)' = {}
  <2>1. CASE Drained(level[Opp][levelPrice]) /\ s = Opp /\ p = levelPrice
    <3>1. level' = [level EXCEPT ![Opp][levelPrice] = EmptyLevel]
      BY <2>1 DEF LeaveLevel
    <3>2. level'[s][p] = EmptyLevel
      BY <1>2, <2>1, <3>1 DEF TypeOK
    <3>3. level'[s][p].total = 0
      BY <3>2 DEF EmptyLevel
    <3>4. IsFifo(node, level[s][p], Live(s, p)) /\ level[s][p].head = Null
      BY <2>1 DEF Structure, ListsAreFifo, Drained
    <3>5. Live(s, p) = {}
      BY <3>4 DEF IsFifo
    <3> QED BY <1>3, <3>3, <3>5
  <2>2. CASE ~(Drained(level[Opp][levelPrice]) /\ s = Opp /\ p = levelPrice)
    <3>1. \/ level' = level
          \/ level' = [level EXCEPT ![Opp][levelPrice] = EmptyLevel] /\ ~(s = Opp /\ p = levelPrice)
      BY <2>2 DEF LeaveLevel
    <3>2. level'[s][p] = level[s][p]
      BY <1>2, <3>1 DEF TypeOK
    <3> QED BY <3>2
  <2> QED BY <2>1, <2>2
<1> QED BY <1>1, <1>4 DEF Kept

(* A level's orders are those resting at its price. *)
LEMMA LiveResting == \A s, p : Live(s, p) = Resting(s, {p})
BY DEF Live, Resting

LEMMA TotalIsDepth ==
  LevelTotalsExact <=> \A s \in Side, p \in Price : level[s][p].total = Wrap(Depth(s, {p}))
BY LiveResting, Zenon DEF LevelTotalsExact, Depth

(* A level without orders totals nothing. *)
LEMMA NoDepth ==
  ASSUME NEW s, NEW R, Resting(s, R) = {}
  PROVE  Depth(s, R) = 0
BY SumEmpty DEF Depth

LEMMA WrapZero == Wrap(0) = 0
<1>1. 0 \in Int /\ 0 \in -QtyMax - 1 .. QtyMax
  BY BookAssumption
<1> QED BY <1>1, WrapRange

(* Every step keeps the totals exact. *)
LEMMA TotalsNext ==
  ASSUME TypeOK, TypeOK', Structure, Structure', LevelTotalsExact, [Next]_vars
  PROVE  LevelTotalsExact'
<1> DEFINE T(s, p) == level[s][p].total
<1>1. \A s \in Side, p \in Price : T(s, p) = Wrap(Depth(s, {p}))
  BY TotalIsDepth, Zenon
<1>2. SUFFICES ASSUME NEW s \in Side, NEW p \in Price
               PROVE  T(s, p)' = Wrap(Depth(s, {p})')
  <2>1. ASSUME NEW s \in Side, NEW p \in Price
        PROVE  Depth(s, {p})' = SumOver(Quantities', Live(s, p)')
    <3>1. Resting(s, {p})' = Live(s, p)'
      BY DEF Live, Resting
    <3> QED BY <3>1 DEF Depth
  <2> QED BY <2>1, Zenon DEF LevelTotalsExact
<1>3. Depth(s, {p}) \in Int /\ T(s, p) = Wrap(Depth(s, {p}))
  BY <1>1, RestingFacts
<1>4. ASSUME Live(s, p)' = {}, T(s, p)' = 0
      PROVE  T(s, p)' = Wrap(Depth(s, {p})')
  <2>1. Resting(s, {p})' = {}
    BY <1>4 DEF Live, Resting
  <2>2. Depth(s, {p})' = 0
    <3>1. SumOver(Quantities', {}) = 0
      BY SumEmpty
    <3> QED BY <2>1, <3>1 DEF Depth
  <2> QED BY <1>4, <2>2, WrapZero
<1>5. ASSUME NEW d \in Int, Depth(s, {p})' = Depth(s, {p}) + d,
             T(s, p)' = Wrap(T(s, p) + d)
      PROVE  T(s, p)' = Wrap(Depth(s, {p})')
  BY <1>3, <1>5, WrapShift, Zenon
<1>6. ASSUME Depth(s, {p})' = Depth(s, {p}), T(s, p)' = T(s, p)
      PROVE  T(s, p)' = Wrap(Depth(s, {p})')
  BY <1>3, <1>6
<1>7. ASSUME \A m \in Addr : Kept(m)
      PROVE  Depth(s, {p})' = Depth(s, {p})
  BY <1>7, DepthSame
<1>8. CASE FillRestingWhole \/ FillRestingPart
  <2> DEFINE n == cursor
             d == IF s = Opp /\ levelPrice \in {p} THEN trade_qty ELSE 0
  <2>1. PICK c : c = cursor
    OBVIOUS
  <2>2. /\ c \in Addr /\ trade_qty \in Nat
        /\ \A m \in Addr \ {c} : Kept(m)
        /\ Share(c, s, {p}) \in Int /\ Share(c, s, {p})' = Share(c, s, {p}) - d
        /\ T(s, p)' = IF s = Opp /\ p = levelPrice
                           THEN Wrap(T(s, p) - trade_qty) ELSE T(s, p)
    BY <1>8, <2>1, FillEffect
  <2>3. Depth(s, {p})' = Depth(s, {p}) + Share(c, s, {p})' - Share(c, s, {p})
    BY <2>2, DepthChange
  <2>4. T(s, p) \in Int
    BY <1>3, WrapRange
  <2>5. Depth(s, {p})' = Depth(s, {p}) + (0 - d)
    BY <1>3, <2>2, <2>3
  <2>6. CASE s = Opp /\ p = levelPrice
    <3>1. d = trade_qty /\ T(s, p)' = Wrap(T(s, p) - trade_qty)
      BY <2>2, <2>6
    <3>2. T(s, p) - trade_qty = T(s, p) + (0 - d) /\ 0 - d \in Int
      BY <2>2, <2>4, <3>1
    <3>3. T(s, p)' = Wrap(T(s, p) + (0 - d))
      BY <3>1, <3>2, Zenon
    <3> QED BY <1>5, <2>5, <3>2, <3>3, Zenon
  <2>7. CASE ~(s = Opp /\ p = levelPrice)
    <3>1. d = 0 /\ T(s, p)' = T(s, p)
      BY <2>2, <2>7
    <3>2. Depth(s, {p})' = Depth(s, {p})
      BY <1>3, <2>5, <3>1
    <3> QED BY <1>6, <3>1, <3>2
  <2> QED BY <2>6, <2>7
<1>9. ASSUME NEW e \in CancelEvent, CancelResting(e)
      PROVE  T(s, p)' = Wrap(Depth(s, {p})')
  <2>1. PICK c : c = lookup[e.order_id]
    OBVIOUS
  <2>2. /\ c \in Addr /\ node[c].active /\ node[c].quantity \in Nat /\ ~node'[c].active
        /\ \A m \in Addr \ {c} : Kept(m)
        /\ IF s = node[c].side /\ p = node[c].price
           THEN \/ T(s, p)' = Wrap(T(s, p) - node[c].quantity)
                \/ T(s, p)' = 0 /\ Live(s, p)' = {}
           ELSE T(s, p)' = T(s, p)
    BY <1>9, <2>1, CancelEffect
  <2> DEFINE q == node[c].quantity
  <2>3. Depth(s, {p})' = Depth(s, {p}) + Share(c, s, {p})' - Share(c, s, {p})
    BY <2>2, DepthChange
  <2>4. Share(c, s, {p})' = 0
    BY <2>2 DEF Share, Resting
  <2>5. Share(c, s, {p}) = IF s = node[c].side /\ p = node[c].price THEN q ELSE 0
    BY <2>2 DEF Share, Resting
  <2> HIDE DEF q
  <2>6. q \in Nat /\ T(s, p) \in Int
    BY <1>3, <2>2, WrapRange DEF q
  <2>7. CASE T(s, p)' = 0 /\ Live(s, p)' = {}
    BY <1>4, <2>7
  <2>8. CASE s = node[c].side /\ p = node[c].price /\ T(s, p)' = Wrap(T(s, p) - q)
    <3>1. Depth(s, {p})' = Depth(s, {p}) + (0 - q) /\ 0 - q \in Int
      BY <1>3, <2>3, <2>4, <2>5, <2>6, <2>8
    <3>2. T(s, p) - q = T(s, p) + (0 - q)
      BY <2>6
    <3>3. T(s, p)' = Wrap(T(s, p) + (0 - q))
      BY <2>8, <3>2, Zenon
    <3> QED BY <1>5, <3>1, <3>3, Zenon
  <2>9. CASE ~(s = node[c].side /\ p = node[c].price) /\ T(s, p)' = T(s, p)
    <3>1. Depth(s, {p})' = Depth(s, {p})
      BY <1>3, <2>3, <2>4, <2>5, <2>9
    <3> QED BY <1>6, <2>9, <3>1
  <2> QED BY <2>2, <2>7, <2>8, <2>9 DEF q
<1>10. CASE FinishResting
  <2>1. PICK c : c = allocated + 1
    OBVIOUS
  <2>2. /\ c \in Addr /\ ~node[c].active /\ residual \in Nat
        /\ event.side \in Side /\ event.price \in Price
        /\ node'[c].active /\ node'[c].side = event.side /\ node'[c].price = event.price
        /\ node'[c].quantity = residual
        /\ \A m \in Addr \ {c} : Kept(m)
        /\ T(s, p)' = IF s = event.side /\ p = event.price
                      THEN Wrap(T(s, p) + residual) ELSE T(s, p)
    BY <1>10, <2>1, RestEffect
  <2>3. Depth(s, {p})' = Depth(s, {p}) + Share(c, s, {p})' - Share(c, s, {p})
    BY <2>2, DepthChange
  <2>4. Share(c, s, {p}) = 0
    BY <2>2 DEF Share, Resting
  <2>5. Share(c, s, {p})' = IF s = event.side /\ p = event.price THEN residual ELSE 0
    BY <2>2 DEF Share, Resting
  <2>6. CASE s = event.side /\ p = event.price
    <3>1. Depth(s, {p})' = Depth(s, {p}) + residual /\ residual \in Int
      BY <1>3, <2>2, <2>3, <2>4, <2>5, <2>6
    <3>2. T(s, p)' = Wrap(T(s, p) + residual)
      BY <2>2, <2>6
    <3> QED BY <1>5, <3>1, <3>2, Zenon
  <2>7. CASE ~(s = event.side /\ p = event.price)
    <3>1. Depth(s, {p})' = Depth(s, {p}) /\ T(s, p)' = T(s, p)
      BY <1>3, <2>2, <2>3, <2>4, <2>5, <2>7
    <3> QED BY <1>6, <3>1
  <2> QED BY <2>6, <2>7
<1>11. CASE LeaveLevel
  <2>1. /\ \A m \in Addr : Kept(m)
        /\ T(s, p)' = T(s, p) \/ (T(s, p)' = 0 /\ Live(s, p)' = {})
    BY <1>11, LeaveEffect
  <2> QED BY <1>4, <1>6, <1>7, <2>1
<1>12. CASE node' = node /\ level' = level
  BY <1>6, <1>7, <1>12 DEF Kept
<1>13. \/ FillRestingWhole \/ FillRestingPart \/ FinishResting \/ LeaveLevel
       \/ \E e \in CancelEvent : CancelResting(e)
       \/ node' = node /\ level' = level
  BY DEF Next, RejectAdd, KillFok, BeginMatch, RejectCancel, EnterLevel,
         FinishFilled, FinishDuplicate, FinishCancelled, Return, vars, book
<1> QED BY <1>8, <1>9, <1>10, <1>11, <1>12, <1>13

LEMMA TotalsInit == Init => LevelTotalsExact
<1> SUFFICES ASSUME Init, NEW s \in Side, NEW p \in Price
             PROVE  level[s][p].total = Wrap(SumOver(Quantities, Live(s, p)))
  BY Zenon DEF LevelTotalsExact
<1>1. level[s][p].total = 0
  BY DEF Init, EmptyLevel
<1>2. Live(s, p) = {}
  BY DEF Init, Live, RawNode
<1>3. SumOver(Quantities, {}) = 0
  BY SumEmpty
<1> QED BY <1>1, <1>2, <1>3, WrapZero, Zenon

(* The running total of every level is the sum of the quantities resting at   *)
(* its price, modulo the width of quantity_t, for every book and every        *)
(* sequence of orders (order_book.hpp:94, 117, 474).                          *)
THEOREM LevelTotals == Spec => []LevelTotalsExact
<1>1. TypeOK /\ TypeOK' /\ Structure /\ Structure' /\ LevelTotalsExact /\ [Next]_vars
        => LevelTotalsExact'
  BY TotalsNext
<1> QED BY <1>1, TotalsInit, TypeCorrect, StructureHolds, PTL DEF Spec

------------------------------------------------------------------------------
(* What an add in progress has traded, and what its terminal event says. *)
LEMMA TradeFacts ==
  ASSUME TypeOK
  PROVE  /\ IsFiniteSet(Trades)
         /\ \A i \in Trades : i \in 1 .. Len(emitted) /\ emitted[i].quantity \in Int
         /\ TradedQty \in Int
         /\ Len(emitted) \in Nat
<1>1. emitted \in Seq(OutputEvent) /\ Len(emitted) \in Nat
  BY DEF TypeOK
<1>2. \A i \in Trades : i \in 1 .. Len(emitted) /\ emitted[i].quantity \in Int
  BY <1>1 DEF Trades, OutputEvent
<1>3. IsFiniteSet(Trades)
  <2>1. 1 \in Int /\ Len(emitted) \in Int
    BY <1>1
  <2>2. IsFiniteSet(1 .. Len(emitted))
    BY <2>1, FS_Interval, Zenon
  <2>3. Trades \subseteq 1 .. Len(emitted)
    BY <1>2
  <2> QED BY <2>2, <2>3, FS_Subset
<1>4. TradedQty \in Int
  <2> DEFINE w == [i \in Trades |-> emitted[i].quantity]
  <2>1. \A i \in Trades : w[i] \in Int
    BY <1>2
  <2> HIDE DEF w
  <2>2. SumOver(w, Trades) \in Int
    BY <1>3, <2>1, SumInt
  <2> QED BY <2>2 DEF TradedQty, w
<1> QED BY <1>1, <1>2, <1>3, <1>4

(* An event that is no trade leaves the trades alone. *)
LEMMA QuietEvent ==
  ASSUME TypeOK, NEW x, x.tag # "TRD", emitted' = Append(emitted, x)
  PROVE  /\ Trades' = Trades /\ TradedQty' = TradedQty
         /\ \A i \in Trades : emitted'[i] = emitted[i]
         /\ emitted' # <<>> /\ Last' = x
<1>1. /\ emitted \in Seq(OutputEvent) /\ Len(emitted) \in Nat
      /\ DOMAIN emitted = 1 .. Len(emitted)
  BY DEF TypeOK
<1>2. /\ DOMAIN emitted' = 1 .. Len(emitted) + 1
      /\ \A i \in 1 .. Len(emitted) : emitted'[i] = emitted[i]
      /\ emitted'[Len(emitted) + 1] = x /\ Len(emitted') = Len(emitted) + 1
  BY <1>1
<1>3. Trades' = Trades /\ \A i \in Trades : emitted'[i] = emitted[i]
  BY <1>1, <1>2 DEF Trades
<1>4. TradedQty' = TradedQty
  <2>1. [i \in Trades |-> emitted'[i].quantity] = [i \in Trades |-> emitted[i].quantity]
    BY <1>3
  <2> QED BY <1>3, <2>1 DEF TradedQty
<1>5. Last' = x
  BY <1>2, Zenon DEF Last
<1>6. emitted' # <<>>
  <2>1. Len(emitted') # 0
    BY <1>1, <1>2
  <2> QED BY <2>1
<1> QED BY <1>3, <1>4, <1>5, <1>6

(* A trade and what became of its resting order. *)
LEMMA TradeEvents ==
  ASSUME TypeOK, TypeOK', NEW x, NEW y, x.tag = "TRD", y.tag # "TRD",
         emitted' = emitted \o <<x, y>>
  PROVE  /\ TradedQty' = TradedQty + x.quantity
         /\ \A i \in Trades' : (i \in Trades /\ emitted'[i] = emitted[i]) \/ emitted'[i] = x
<1> DEFINE k == Len(emitted) + 1
<1>1. /\ emitted \in Seq(OutputEvent) /\ Len(emitted) \in Nat
      /\ DOMAIN emitted = 1 .. Len(emitted)
  BY DEF TypeOK
<1>2. /\ DOMAIN emitted' = 1 .. Len(emitted) + 2
      /\ \A i \in 1 .. Len(emitted) : emitted'[i] = emitted[i]
      /\ emitted'[k] = x /\ emitted'[Len(emitted) + 2] = y
  BY <1>1
<1>3. /\ Trades' = Trades \cup {k} /\ k \notin Trades
      /\ \A i \in Trades : emitted'[i] = emitted[i]
  BY <1>1, <1>2 DEF Trades
<1>4. x.quantity \in Int
  BY <1>2, <1>3, TradeFacts DEF TypeOK, OutputEvent, Trades
<1>5. TradedQty' = TradedQty + x.quantity
  <2> DEFINE T == Trades
             v == [i \in T |-> emitted[i].quantity]
             w == [i \in T \cup {k} |-> emitted'[i].quantity]
  <2>1. /\ w[k] = x.quantity
        /\ \A i \in T : w[i] = v[i] /\ w[i] \in Int
    BY <1>2, <1>3, TradeFacts
  <2>2. TradedQty = SumOver(v, T)
    BY DEF TradedQty
  <2>3. TradedQty' = SumOver(w, T \cup {k})
    BY <1>3 DEF TradedQty
  <2>4. IsFiniteSet(T) /\ k \notin T
    BY <1>3, TradeFacts
  <2> HIDE DEF T, v, w, k
  <2>5. SumOver(w, T \cup {k}) = SumOver(w, T) + w[k]
    BY <1>4, <2>1, <2>4, SumAdd
  <2>6. SumOver(w, T) = SumOver(v, T)
    BY <2>1, <2>4, SumSame
  <2> QED BY <2>1, <2>2, <2>3, <2>5, <2>6
<1> QED BY <1>2, <1>3, <1>5

(* Inside the add handler the trades so far name the incoming order and sum   *)
(* to filled_quantity, and what is not filled is still residual.              *)
InProgressAccounts ==
  pc \in {"ladder", "level"} =>
    /\ \A i \in Trades : emitted[i].order_id = event.order_id
    /\ TradedQty = filled
    /\ filled + residual = event.quantity

Accounts == InProgressAccounts /\ TerminalAccountsForOrder

(* A handler that emits its only event, or has just begun. *)
LEMMA FirstEvent ==
  ASSUME NEW x, x.tag # "TRD", emitted' = <<x>>
  PROVE  Trades' = {} /\ TradedQty' = 0 /\ emitted' # <<>> /\ Last' = x
<1>1. DOMAIN emitted' = {1} /\ emitted'[1] = x /\ Len(emitted') = 1
  OBVIOUS
<1>2. Trades' = {}
  BY <1>1 DEF Trades
<1>3. TradedQty' = 0
  <2>1. SumOver([i \in {} |-> emitted'[i].quantity], {}) = 0
    BY SumEmpty
  <2> QED BY <1>2, <2>1 DEF TradedQty
<1>4. Last' = x
  BY <1>1, Zenon DEF Last
<1> QED BY <1>1, <1>2, <1>3, <1>4

LEMMA NoEventYet ==
  ASSUME emitted' = <<>>
  PROVE  Trades' = {} /\ TradedQty' = 0
<1>1. Trades' = {}
  BY DEF Trades
<1>2. SumOver([i \in {} |-> emitted'[i].quantity], {}) = 0
  BY SumEmpty
<1> QED BY <1>1, <1>2 DEF TradedQty

(* The terminal event of an add that was being matched. *)
LEMMA FinishAccounts ==
  ASSUME TypeOK, InProgressAccounts, pc = "ladder", NEW x, Finish(x),
         x.tag # "TRD", x.order_id = event.order_id,
         x.tag # "REJ" => filled = x.filled,
         x.tag = "FIL" => x.filled = event.quantity,
         x.tag = "RST" => x.filled + x.resting = event.quantity,
         x.tag = "CAN" => x.filled + x.cancelled = event.quantity
  PROVE  Accounts'
<1>1. emitted' = Append(emitted, x) /\ event' = event /\ pc' = "done"
  BY DEF Finish
<1>2. /\ Trades' = Trades /\ TradedQty' = TradedQty /\ emitted' # <<>> /\ Last' = x
      /\ \A i \in Trades : emitted'[i] = emitted[i]
  BY <1>1, QuietEvent
<1>3. (\A i \in Trades : emitted[i].order_id = event.order_id) /\ TradedQty = filled
  BY DEF InProgressAccounts
<1>4. TerminalAccountsForOrder'
  BY <1>1, <1>2, <1>3 DEF TerminalAccountsForOrder
<1> QED BY <1>1, <1>4 DEF Accounts, InProgressAccounts

LEMMA AccountsNext ==
  ASSUME TypeOK, TypeOK', Structure, Accounts, [Next]_vars
  PROVE  Accounts'
<1>1. ASSUME NEW e \in AddEvent, RejectAdd(e) PROVE Accounts'
  <2> DEFINE x == REJ(e.order_id, InvalidCode(e))
  <2>1. emitted' = <<x>> /\ event' = e /\ pc' = "done"
    BY <1>1 DEF RejectAdd
  <2>2. x.tag = "REJ" /\ x.order_id = e.order_id
    BY DEF REJ
  <2> HIDE DEF x
  <2>3. Trades' = {} /\ TradedQty' = 0 /\ emitted' # <<>> /\ Last' = x
    BY <2>1, <2>2, FirstEvent
  <2> QED BY <2>1, <2>2, <2>3 DEF Accounts, InProgressAccounts, TerminalAccountsForOrder
<1>2. ASSUME NEW e \in AddEvent, KillFok(e) PROVE Accounts'
  <2> DEFINE x == CAN(e.order_id, 0, e.quantity, "fill_or_kill")
  <2>1. emitted' = <<x>> /\ event' = e /\ pc' = "done"
    BY <1>2 DEF KillFok
  <2>2. x.tag = "CAN" /\ x.order_id = e.order_id /\ x.filled = 0 /\ x.cancelled = e.quantity
    BY DEF CAN
  <2> HIDE DEF x
  <2>3. Trades' = {} /\ TradedQty' = 0 /\ emitted' # <<>> /\ Last' = x
    BY <2>1, <2>2, FirstEvent
  <2>4. e.quantity \in Int
    BY AddFields
  <2> QED BY <2>1, <2>2, <2>3, <2>4 DEF Accounts, InProgressAccounts, TerminalAccountsForOrder
<1>3. ASSUME NEW e \in AddEvent, BeginMatch(e) PROVE Accounts'
  <2>1. emitted' = <<>> /\ event' = e /\ pc' = "ladder" /\ filled' = 0 /\ residual' = e.quantity
    BY <1>3 DEF BeginMatch
  <2>2. Trades' = {} /\ TradedQty' = 0
    BY <2>1, NoEventYet
  <2>3. e.quantity \in Int
    BY AddFields
  <2> QED BY <2>1, <2>2, <2>3 DEF Accounts, InProgressAccounts, TerminalAccountsForOrder
<1>4. ASSUME NEW e \in CancelEvent, RejectCancel(e) \/ CancelResting(e) PROVE Accounts'
  <2>1. event' = e /\ pc' = "done" /\ e.type = "cancel"
    BY <1>4 DEF RejectCancel, CancelResting, CancelEvent
  <2> QED BY <2>1 DEF Accounts, InProgressAccounts, TerminalAccountsForOrder
<1>5. CASE EnterLevel \/ LeaveLevel
  <2>1. /\ UNCHANGED <<event, residual, filled, emitted>>
        /\ pc \in {"ladder", "level"} /\ pc' \in {"ladder", "level"}
    BY <1>5 DEF EnterLevel, LeaveLevel
  <2>2. Trades' = Trades /\ TradedQty' = TradedQty
    BY <2>1 DEF Trades, TradedQty
  <2> QED BY <2>1, <2>2 DEF Accounts, InProgressAccounts, TerminalAccountsForOrder
<1>6. CASE FillRestingWhole \/ FillRestingPart
  <2> DEFINE q == trade_qty
             x == TRD(event.order_id, node[cursor].order_id, q)
             y == IF FillRestingWhole THEN FIL(node[cursor].order_id, q)
                  ELSE RST(node[cursor].order_id, q, node[cursor].quantity - q)
  <2>1. emitted' = emitted \o <<x, y>>
    BY <1>6 DEF FillRestingWhole, FillRestingPart
  <2>2. x.tag = "TRD" /\ x.quantity = q /\ x.order_id = event.order_id /\ y.tag # "TRD"
    BY DEF TRD, FIL, RST
  <2>3. Fill /\ trade_qty \in Nat
    BY <1>6, FillEffect
  <2>4. /\ pc = "level" /\ pc' = "level" /\ event' = event
        /\ residual' = residual - q /\ filled' = filled + q /\ q \in Nat
    BY <2>3 DEF Fill
  <2> HIDE DEF q, x, y
  <2>5. /\ TradedQty' = TradedQty + q
        /\ \A i \in Trades' : (i \in Trades /\ emitted'[i] = emitted[i]) \/ emitted'[i] = x
    BY <2>1, <2>2, TradeEvents
  <2>6. /\ \A i \in Trades : emitted[i].order_id = event.order_id
        /\ TradedQty = filled /\ filled + residual = event.quantity
    BY <2>4 DEF Accounts, InProgressAccounts
  <2>7. filled \in Nat /\ residual \in Nat
    BY DEF TypeOK
  <2>8. filled' + residual' = event'.quantity
    BY <2>4, <2>6, <2>7
  <2>9. \A i \in Trades' : emitted'[i].order_id = event'.order_id
    BY <2>2, <2>4, <2>5, <2>6
  <2>10. TradedQty' = filled'
    BY <2>4, <2>5, <2>6
  <2> QED BY <2>4, <2>8, <2>9, <2>10 DEF Accounts, InProgressAccounts, TerminalAccountsForOrder
<1>7. ASSUME MatchDone
      PROVE  /\ pc = "ladder" /\ filled + residual = event.quantity
             /\ InProgressAccounts /\ filled \in Nat
  BY <1>7 DEF MatchDone, Accounts, InProgressAccounts, TypeOK
<1>8. CASE FinishFilled
  <2> DEFINE x == FIL(event.order_id, filled)
  <2>1. MatchDone /\ residual = 0 /\ Finish(x)
    BY <1>8 DEF FinishFilled
  <2>2. x.tag = "FIL" /\ x.order_id = event.order_id /\ x.filled = filled
    BY DEF FIL
  <2> HIDE DEF x
  <2>3. filled = event.quantity
    BY <1>7, <2>1
  <2> QED BY <1>7, <2>1, <2>2, <2>3, FinishAccounts
<1>9. CASE FinishResting
  <2> DEFINE x == RST(event.order_id, filled, residual)
  <2>1. MatchDone /\ Finish(x)
    BY <1>9 DEF FinishResting
  <2>2. x.tag = "RST" /\ x.order_id = event.order_id /\ x.filled = filled /\ x.resting = residual
    BY DEF RST
  <2> HIDE DEF x
  <2> QED BY <1>7, <2>1, <2>2, FinishAccounts
<1>10. CASE FinishDuplicate
  <2> DEFINE x == REJ(event.order_id, "duplicate_order_id")
  <2>1. MatchDone /\ Finish(x)
    BY <1>10 DEF FinishDuplicate
  <2>2. x.tag = "REJ" /\ x.order_id = event.order_id
    BY DEF REJ
  <2> HIDE DEF x
  <2> QED BY <1>7, <2>1, <2>2, FinishAccounts
<1>11. CASE FinishCancelled
  <2> DEFINE x == CAN(event.order_id, filled, residual,
                      IF event.tif = "ioc" THEN "immediate_or_cancel" ELSE "fill_or_kill")
  <2>1. MatchDone /\ Finish(x)
    BY <1>11 DEF FinishCancelled
  <2>2. x.tag = "CAN" /\ x.order_id = event.order_id /\ x.filled = filled /\ x.cancelled = residual
    BY DEF CAN
  <2> HIDE DEF x
  <2> QED BY <1>7, <2>1, <2>2, FinishAccounts
<1>12. CASE Return
  BY <1>12 DEF Return, Accounts, InProgressAccounts, TerminalAccountsForOrder
<1>13. CASE UNCHANGED vars
  <2>1. UNCHANGED <<pc, event, residual, filled, emitted>>
    BY <1>13 DEF vars, frame
  <2>2. Trades' = Trades /\ TradedQty' = TradedQty /\ Last' = Last
    BY <2>1 DEF Trades, TradedQty, Last
  <2> QED BY <2>1, <2>2 DEF Accounts, InProgressAccounts, TerminalAccountsForOrder
<1> QED BY <1>1, <1>2, <1>3, <1>4, <1>5, <1>6, <1>8, <1>9, <1>10, <1>11, <1>12, <1>13
       DEF Next

(* When the handler of an add is done, its last event is its terminal         *)
(* event, its trades name it and sum to what that event reports as filled,    *)
(* and filled, rested and cancelled add up to what was ordered                *)
(* (order_book.hpp:264-307).                                                  *)
THEOREM TerminalAccounts == Spec => []TerminalAccountsForOrder
<1>1. Init => Accounts
  BY DEF Init, Accounts, InProgressAccounts, TerminalAccountsForOrder
<1>2. TypeOK /\ TypeOK' /\ Structure /\ Accounts /\ [Next]_vars => Accounts'
  BY AccountsNext
<1>3. Accounts => TerminalAccountsForOrder
  BY DEF Accounts
<1> QED BY <1>1, <1>2, <1>3, TypeCorrect, StructureHolds, PTL DEF Spec

------------------------------------------------------------------------------
(* Fill-or-kill: what the probe reads and what matching then finds. *)
CrossedBy(e) == {p \in Price : crosses(opposite_of(e.side), e.price, p)}

LEMMA DepthUnion ==
  ASSUME TypeOK, NEW s, NEW R, NEW Q, R \cap Q = {}
  PROVE  Depth(s, R \cup Q) = Depth(s, R) + Depth(s, Q)
<1> DEFINE A == Resting(s, R)
           B == Resting(s, Q)
           q == Quantities
<1>1. Resting(s, R \cup Q) = A \cup B /\ A \cap B = {}
  BY DEF Resting
<1>2. /\ A \in SUBSET Addr /\ B \in SUBSET Addr
      /\ \A T \in SUBSET Addr : IsFiniteSet(T)
      /\ \A n \in Addr : q[n] \in Nat
  BY RestingFacts
<1>3. \A x \in A \cup B : q[x] \in Int
  BY <1>2
<1> HIDE DEF A, B, q
<1>4. SumOver(q, A \cup B) = SumOver(q, A) + SumOver(q, B)
  BY <1>1, <1>2, <1>3, SumUnion
<1> QED BY <1>1, <1>4 DEF Depth, A, B, q

LEMMA DepthMonotone ==
  ASSUME TypeOK, NEW s, NEW R, NEW Q, R \subseteq Q
  PROVE  Depth(s, R) <= Depth(s, Q)
<1>1. R \cap (Q \ R) = {} /\ R \cup (Q \ R) = Q
  OBVIOUS
<1>2. Depth(s, Q) = Depth(s, R) + Depth(s, Q \ R)
  BY <1>1, DepthUnion
<1>3. Depth(s, R) \in Nat /\ Depth(s, Q \ R) \in Nat
  BY RestingFacts
<1> QED BY <1>2, <1>3

(* Summing wrapped totals and wrapping the sum is wrapping the real sum. *)
LEMMA WrapSum ==
  ASSUME TypeOK, NEW s, NEW D, IsFiniteSet(D), NEW t,
         \A p \in D : t[p] = Wrap(Depth(s, {p}))
  PROVE  Wrap(SumOver(t, D)) = Wrap(Depth(s, D))
<1> DEFINE G == {T \in SUBSET D : Wrap(SumOver(t, T)) = Wrap(Depth(s, T))}
<1>1. \A T \in SUBSET D : IsFiniteSet(T)
  BY FS_Subset
<1>2. \A p \in D : t[p] \in Int
  <2>1. \A p \in D : Depth(s, {p}) \in Int
    BY RestingFacts
  <2> QED BY <2>1, WrapRange
<1>3. {} \in G
  <2>1. Resting(s, {}) = {}
    BY DEF Resting
  <2>2. Depth(s, {}) = 0
    BY <2>1, NoDepth
  <2>3. SumOver(t, {}) = 0
    BY SumEmpty
  <2> QED BY <2>2, <2>3
<1>4. ASSUME NEW T \in SUBSET D, T # {}, \A p \in T : T \ {p} \in G
      PROVE  T \in G
  <2>1. PICK p \in T : TRUE
    BY <1>4
  <2> DEFINE U == T \ {p}
             X == SumOver(t, U)
             E == Depth(s, {p})
             F == Depth(s, U)
  <2>2. Wrap(X) = Wrap(F)
    BY <1>4
  <2>3. SumOver(t, T) = t[p] + X
    <3>1. IsFiniteSet(T) /\ \A x \in T : t[x] \in Int
      BY <1>1, <1>2
    <3> QED BY <3>1, SumRemove
  <2>4. X \in Int
    <3>1. IsFiniteSet(U) /\ \A x \in U : t[x] \in Int
      BY <1>1, <1>2
    <3> HIDE DEF U
    <3> QED BY <3>1, SumInt
  <2>5. E \in Int /\ F \in Int
    BY RestingFacts
  <2>6. Depth(s, T) = F + E
    <3>1. U \cap {p} = {} /\ U \cup {p} = T
      OBVIOUS
    <3> HIDE DEF U
    <3> QED BY <3>1, DepthUnion
  <2>7. t[p] = Wrap(E)
    OBVIOUS
  <2> HIDE DEF U, X, E, F
  <2>8. Wrap(Wrap(E) + X) = Wrap(E + X)
    BY <2>4, <2>5, WrapShift
  <2>9. Wrap(Wrap(X) + E) = Wrap(X + E)
    BY <2>4, <2>5, WrapShift
  <2>10. Wrap(Wrap(F) + E) = Wrap(F + E)
    BY <2>5, WrapShift
  <2>11. E + X = X + E
    BY <2>4, <2>5
  <2>12. Wrap(SumOver(t, T)) = Wrap(Depth(s, T))
    BY <2>2, <2>3, <2>6, <2>7, <2>8, <2>9, <2>10, <2>11, Zenon
  <2> QED BY <2>12
<1> HIDE DEF G
<1>5. D \in G
  BY <1>3, <1>4, SetInduct
<1> QED BY <1>5 DEF G

(* Between handlers every level holds an order, so the ladders are finite. *)
LEMMA LadderFinite ==
  ASSUME TypeOK, Structure, pc # "level", NEW s \in Side
  PROVE  IsFiniteSet(prices[s])
<1> DEFINE f == [n \in Addr |-> node[n].price]
<1>1. \A p \in prices[s] : \E n \in Addr : f[n] = p
  <2> SUFFICES ASSUME NEW p \in prices[s] PROVE \E n \in Addr : f[n] = p
    OBVIOUS
  <2>1. Live(s, p) # {}
    BY DEF Structure, NoEmptyLevels, Draining
  <2> QED BY <2>1 DEF Live
<1>2. IsFiniteSet(Addr) /\ Addr \in SUBSET Addr
  BY RestingFacts
<1> DEFINE I == {f[n] : n \in Addr}
<1>3. f \in Surjection(Addr, I)
  BY DEF Surjection
<1>4. prices[s] \subseteq I
  BY <1>1
<1> HIDE DEF f, I
<1>5. IsFiniteSet(I)
  BY <1>2, <1>3, FS_Surjection
<1> QED BY <1>4, <1>5, FS_Subset

(* What the probe reads of the levels D is the depth of D, wrapped. *)
LEMMA ProbeReads ==
  ASSUME TypeOK, Structure, LevelTotalsExact, pc = "idle",
         NEW s \in Side, NEW q
  PROVE  LET D == {p \in prices[s] : p = q \/ Better(s, p, q)}
         IN  AvailableDownTo(s, q) = Wrap(Depth(s, D))
<1> DEFINE D == {p \in prices[s] : p = q \/ Better(s, p, q)}
           t == [p \in prices[s] |-> level[s][p].total]
<1>1. IsFiniteSet(D)
  <2>1. IsFiniteSet(prices[s])
    BY LadderFinite
  <2>2. D \subseteq prices[s]
    OBVIOUS
  <2> HIDE DEF D
  <2> QED BY <2>1, <2>2, FS_Subset
<1>2. \A p \in D : t[p] = Wrap(Depth(s, {p}))
  <2>1. \A p \in Price : level[s][p].total = Wrap(Depth(s, {p}))
    BY TotalIsDepth, Zenon
  <2>2. D \subseteq Price /\ \A p \in D : t[p] = level[s][p].total
    BY DEF TypeOK
  <2> HIDE DEF D, t
  <2> QED BY <2>1, <2>2, Zenon
<1>3. AvailableDownTo(s, q) = Wrap(SumOver(t, D))
  BY Zenon DEF AvailableDownTo
<1> HIDE DEF D, t
<1>4. Wrap(SumOver(t, D)) = Wrap(Depth(s, D))
  BY <1>1, <1>2, WrapSum
<1> QED BY <1>3, <1>4, Zenon DEF D

(* The probe promises no more than the crossed levels hold. *)
LEMMA ProbeCovers ==
  ASSUME TypeOK, Structure, LevelTotalsExact, pc = "idle",
         NEW e \in AddEvent, fillable_at_limit(e)
  PROVE  Depth(opposite_of(e.side), CrossedBy(e)) >= e.quantity
<1> DEFINE s == opposite_of(e.side)
<1>1. s \in Side /\ e.price \in Int /\ e.quantity \in Int
  BY AddFields
<1>2. PICK q \in prices[s] : crosses(s, e.price, q) /\ AvailableDownTo(s, q) >= e.quantity
  BY DEF fillable_at_limit
<1> DEFINE D == {p \in prices[s] : p = q \/ Better(s, p, q)}
<1>3. AvailableDownTo(s, q) = Wrap(Depth(s, D))
  <2> HIDE DEF s
  <2> QED BY <1>1, ProbeReads, Zenon
<1>4. D \subseteq CrossedBy(e)
  <2>1. prices[s] \subseteq Price /\ prices[s] \subseteq Int
    BY <1>1, MessageAssumption DEF TypeOK
  <2> QED BY <1>1, <1>2, <2>1 DEF CrossedBy, crosses, Better
<1> HIDE DEF D, s
<1>5. Depth(s, D) <= Depth(s, CrossedBy(e)) /\ Depth(s, D) \in Nat /\ Depth(s, CrossedBy(e)) \in Nat
  BY <1>4, DepthMonotone, RestingFacts
<1>6. Wrap(Depth(s, D)) <= Depth(s, D) /\ Wrap(Depth(s, D)) \in Int
  <2>1. Depth(s, D) \in Int /\ Depth(s, D) >= 0
    BY <1>5
  <2> QED BY <2>1, WrapRange
<1> DEFINE a == Depth(s, D)
           w == Wrap(Depth(s, D))
           c == Depth(s, CrossedBy(e))
<1>7. a \in Int /\ w \in Int /\ c \in Int /\ a <= c /\ w <= a /\ w >= e.quantity
  <2>1. w >= e.quantity
    BY <1>2, <1>3, Zenon
  <2> HIDE DEF w, a, c
  <2>2. a \in Nat /\ c \in Nat /\ a <= c
    BY <1>5 DEF a, c
  <2> QED BY <1>6, <2>1, <2>2 DEF w, a
<1> HIDE DEF a, w, c
<1>8. c >= e.quantity
  BY <1>1, <1>7
<1> QED BY <1>8 DEF c, s

(* The crossed levels, when there are any, are those down to the worst one. *)
LEMMA WorstCrossed ==
  ASSUME TypeOK, NEW e \in AddEvent, NEW s \in Side, NEW p0 \in prices[s],
         crosses(s, e.price, p0)
  PROVE  \E q \in prices[s] :
           /\ crosses(s, e.price, q)
           /\ {p \in prices[s] : p = q \/ Better(s, p, q)} =
                {p \in prices[s] : crosses(s, e.price, p)}
<1> DEFINE C == {p \in prices[s] : crosses(s, e.price, p)}
           d(p) == IF s = "buy" THEN p - e.price ELSE e.price - p
           T == {d(p) : p \in C}
<1>1. C \subseteq Int /\ e.price \in Int /\ p0 \in C
  BY MessageAssumption, AddFields DEF TypeOK
<1>2. \A p \in C : d(p) \in Nat
  BY <1>1 DEF crosses, Better
<1>3. T \in SUBSET Nat /\ T # {}
  BY <1>1, <1>2
<1>4. PICK x \in T : \A y \in T : x <= y
  <2> HIDE DEF T
  <2> QED BY <1>3, Least
<1>5. PICK q \in C : x = d(q)
  OBVIOUS
<1>6. \A p \in C : d(q) <= d(p)
  BY <1>4, <1>5
<1>7. \A p \in C : p = q \/ Better(s, p, q)
  BY <1>1, <1>6 DEF Better
<1>8. \A p \in prices[s] : p = q \/ Better(s, p, q) => p \in C
  <2>1. prices[s] \subseteq Int
    BY MessageAssumption DEF TypeOK
  <2>2. crosses(s, e.price, q) /\ q \in Int
    BY <1>1
  <2> SUFFICES ASSUME NEW p \in prices[s], p = q \/ Better(s, p, q)
               PROVE  crosses(s, e.price, p)
    OBVIOUS
  <2> QED BY <1>1, <2>1, <2>2 DEF crosses, Better
<1> QED BY <1>7, <1>8

(* Only an order that rests in a crossed level counts as crossed. *)
LEMMA CrossedLevels ==
  ASSUME TypeOK, Structure, NEW e \in AddEvent, NEW s \in Side, s = opposite_of(e.side)
  PROVE  /\ Resting(s, CrossedBy(e)) = Resting(s, {p \in prices[s] : crosses(s, e.price, p)})
         /\ Resting(s, CrossedBy(e)) =
              {n \in Addr : node[n].active /\ node[n].side = s /\ crosses(s, e.price, node[n].price)}
<1>1. \A n \in Addr : node[n].active /\ node[n].side = s =>
        node[n].price \in prices[s] /\ node[n].price \in Price
  BY DEF Structure, NodesHaveLevels, TypeOK
<1> QED BY <1>1 DEF Resting, CrossedBy

(* The probe misses nothing, unless the depth exceeds a quantity_t. *)
LEMMA ProbeComplete ==
  ASSUME TypeOK, Structure, LevelTotalsExact, pc = "idle",
         NEW e \in AddEvent, e.quantity > 0, ~fillable_at_limit(e),
         NEW d, d = Depth(opposite_of(e.side), CrossedBy(e))
  PROVE  d < e.quantity \/ d > QtyMax
<1> DEFINE s == opposite_of(e.side)
           C == {p \in prices[s] : crosses(s, e.price, p)}
<1>1. s \in Side /\ e.quantity \in Int
  BY AddFields
<1>2. d = Depth(s, C) /\ d \in Nat
  <2>1. Resting(s, CrossedBy(e)) = Resting(s, C)
    BY <1>1, CrossedLevels
  <2>2. Depth(s, CrossedBy(e)) \in Nat
    BY RestingFacts
  <2> QED BY <2>1, <2>2 DEF Depth
<1> SUFFICES ASSUME d >= e.quantity, d <= QtyMax PROVE FALSE
  BY <1>1, <1>2, BookAssumption
<1>3. C # {}
  <2>1. ASSUME C = {} PROVE FALSE
    <3>1. Resting(s, C) = {}
      BY <2>1 DEF Resting
    <3>2. Depth(s, C) = 0
      BY <3>1, NoDepth
    <3> QED BY <1>1, <1>2, <3>2
  <2> QED BY <2>1
<1>4. PICK q \in prices[s] :
        /\ crosses(s, e.price, q)
        /\ {p \in prices[s] : p = q \/ Better(s, p, q)} = C
  <2> HIDE DEF s
  <2> QED BY <1>1, <1>3, WorstCrossed
<1>5. AvailableDownTo(s, q) = Wrap(Depth(s, C))
  <2> HIDE DEF s
  <2> QED BY <1>1, <1>4, ProbeReads, Zenon
<1>6. Wrap(d) = d
  <2>1. d \in Int /\ d \in -QtyMax - 1 .. QtyMax
    BY <1>2, BookAssumption
  <2> QED BY <2>1, WrapRange
<1>7. AvailableDownTo(s, q) >= e.quantity
  BY <1>2, <1>5, <1>6, Zenon
<1> QED BY <1>4, <1>7 DEF fillable_at_limit

(* While a fill-or-kill order is matched, what is left of it still rests at   *)
(* crossed prices.                                                            *)
FokPromise ==
  pc \in {"ladder", "level"} /\ event.tif = "fok" =>
    Depth(Opp, CrossedBy(event)) >= residual

FokInv == FokPromise /\ FokAllOrNothing /\ FokKilledOnlyIfShort

(* Matching a fill-or-kill order does not end before it is filled. *)
LEMMA FokFilled ==
  ASSUME TypeOK, Structure, FokPromise, MatchDone, event.tif = "fok"
  PROVE  residual = 0
<1> SUFFICES ASSUME residual # 0 PROVE FALSE
  OBVIOUS
<1>1. pc = "ladder" /\ residual \in Nat /\ residual > 0 /\ event \in AddEvent
  BY DEF MatchDone, TypeOK
<1>2. \A q \in prices[Opp] : Better(Opp, event.price, q)
  BY <1>1, ResidueDoesNotCross
<1>3. Opp \in Side
  BY <1>1, AddFields DEF Opp
<1>4. Resting(Opp, CrossedBy(event)) = {}
  <2>1. {p \in prices[Opp] : crosses(Opp, event.price, p)} = {}
    BY <1>2 DEF crosses
  <2>2. Resting(Opp, CrossedBy(event)) =
          Resting(Opp, {p \in prices[Opp] : crosses(Opp, event.price, p)})
    BY <1>1, <1>3, CrossedLevels DEF Opp
  <2> QED BY <2>1, <2>2 DEF Resting
<1>5. Depth(Opp, CrossedBy(event)) = 0
  BY <1>4, NoDepth
<1> QED BY <1>1, <1>5 DEF FokPromise

LEMMA FokNext ==
  ASSUME TypeOK, TypeOK', Structure, LevelTotalsExact, Accounts, FokInv, [Next]_vars
  PROVE  FokInv'
<1>1. ASSUME NEW e \in AddEvent, RejectAdd(e) PROVE FokInv'
  <2> DEFINE x == REJ(e.order_id, InvalidCode(e))
  <2>1. emitted' = <<x>> /\ event' = e /\ pc' = "done"
    BY <1>1 DEF RejectAdd
  <2>2. x.tag = "REJ"
    BY DEF REJ
  <2> HIDE DEF x
  <2>3. TradedQty' = 0 /\ Last' = x
    BY <2>1, <2>2, FirstEvent
  <2> QED BY <2>1, <2>2, <2>3 DEF FokInv, FokPromise, FokAllOrNothing, FokKilledOnlyIfShort
<1>2. ASSUME NEW e \in AddEvent, KillFok(e) PROVE FokInv'
  <2> DEFINE x == CAN(e.order_id, 0, e.quantity, "fill_or_kill")
             s == opposite_of(e.side)
             d == Depth(s, CrossedBy(e))
  <2>1. emitted' = <<x>> /\ event' = e /\ pc' = "done" /\ node' = node
    BY <1>2 DEF KillFok, book
  <2>2. x.tag = "CAN"
    BY DEF CAN
  <2> HIDE DEF x
  <2>3. TradedQty' = 0
    BY <2>1, <2>2, FirstEvent
  <2>4. pc = "idle" /\ ~fillable_at_limit(e) /\ e.quantity > 0 /\ s \in Side
    BY <1>2, AddFields DEF KillFok
  <2>5. d < e.quantity \/ d > QtyMax
    BY <2>4, ProbeComplete
  <2>6. RestingThroughLimit' = d
    <3>1. Opp' = s
      BY <2>1 DEF Opp
    <3>2. Resting(s, CrossedBy(e)) =
            {n \in Addr : node[n].active /\ node[n].side = s /\ crosses(s, e.price, node[n].price)}
      BY <2>4, CrossedLevels
    <3>3. Quantities' = Quantities
      BY <2>1 DEF Quantities
    <3> QED BY <2>1, <3>1, <3>2, <3>3 DEF RestingThroughLimit, Depth
  <2>7. FokKilledOnlyIfShort'
    BY <2>1, <2>5, <2>6 DEF FokKilledOnlyIfShort
  <2> QED BY <2>1, <2>3, <2>7 DEF FokInv, FokPromise, FokAllOrNothing
<1>3. ASSUME NEW e \in AddEvent, BeginMatch(e) PROVE FokInv'
  <2>1. event' = e /\ pc' = "ladder" /\ residual' = e.quantity /\ node' = node /\ pc = "idle"
        /\ (e.tif = "fok" => fillable_at_limit(e))
    BY <1>3 DEF BeginMatch, book
  <2>2. Depth(opposite_of(e.side), CrossedBy(e))' = Depth(opposite_of(e.side), CrossedBy(e))
    BY <2>1 DEF Depth, Resting, Quantities
  <2>3. e.tif = "fok" => Depth(opposite_of(e.side), CrossedBy(e)) >= e.quantity
    BY <2>1, ProbeCovers
  <2>4. Depth(Opp, CrossedBy(event))' = Depth(opposite_of(e.side), CrossedBy(e))
    BY <2>1 DEF Depth, Resting, Quantities, Opp, CrossedBy
  <2> QED BY <2>1, <2>3, <2>4 DEF FokInv, FokPromise, FokAllOrNothing, FokKilledOnlyIfShort
<1>4. ASSUME NEW e \in CancelEvent, RejectCancel(e) \/ CancelResting(e) PROVE FokInv'
  <2>1. event' = e /\ pc' = "done" /\ e.type = "cancel"
    BY <1>4 DEF RejectCancel, CancelResting, CancelEvent
  <2> QED BY <2>1 DEF FokInv, FokPromise, FokAllOrNothing, FokKilledOnlyIfShort
<1>5. CASE EnterLevel \/ LeaveLevel
  <2>1. /\ UNCHANGED <<event, residual>> /\ node' = node
        /\ pc \in {"ladder", "level"} /\ pc' \in {"ladder", "level"}
    BY <1>5 DEF EnterLevel, LeaveLevel, book
  <2>2. Depth(Opp, CrossedBy(event))' = Depth(Opp, CrossedBy(event))
    BY <2>1 DEF Depth, Resting, Quantities, Opp, CrossedBy
  <2> QED BY <2>1, <2>2 DEF FokInv, FokPromise, FokAllOrNothing, FokKilledOnlyIfShort
<1>6. CASE FillRestingWhole \/ FillRestingPart
  <2>1. PICK n, s, R : n = cursor /\ s = Opp /\ R = CrossedBy(event)
    OBVIOUS
  <2>2. /\ Fill /\ n \in Addr /\ event \in AddEvent /\ levelPrice \in Price
        /\ trade_qty \in Nat /\ trade_qty <= residual
        /\ \A m \in Addr \ {n} : Kept(m)
        /\ Share(n, s, R) \in Int
        /\ Share(n, s, R)' = Share(n, s, R) -
             (IF s = Opp /\ levelPrice \in R THEN trade_qty ELSE 0)
    BY <1>6, <2>1, FillEffect
  <2>3. levelPrice \in R
    BY <2>1, <2>2 DEF Structure, CursorOnLiveHead, Fill, CrossedBy, Opp
  <2>4. Depth(s, R)' = Depth(s, R) + Share(n, s, R)' - Share(n, s, R)
    BY <2>2, DepthChange
  <2>5. /\ pc = "level" /\ pc' = "level" /\ event' = event /\ residual' = residual - trade_qty
        /\ residual \in Nat
    BY <2>2 DEF Fill, TypeOK
  <2>6. Opp' = s /\ CrossedBy(event)' = R
    BY <2>1, <2>5 DEF Opp, CrossedBy
  <2>7. Depth(Opp, CrossedBy(event))' = Depth(s, R)'
    BY <2>6 DEF Depth, Resting
  <2>8. Depth(s, R) \in Nat
    BY RestingFacts
  <2>9. event.tif = "fok" => Depth(s, R) >= residual
    BY <2>1, <2>5 DEF FokInv, FokPromise
  <2>10. event.tif = "fok" => Depth(s, R)' >= residual'
    BY <2>1, <2>2, <2>3, <2>4, <2>5, <2>8, <2>9
  <2> QED BY <2>5, <2>7, <2>10 DEF FokInv, FokPromise, FokAllOrNothing, FokKilledOnlyIfShort
<1>7. ASSUME MatchDone, event.tif = "fok" PROVE residual = 0
  BY <1>7, FokFilled DEF FokInv
<1>8. CASE FinishFilled
  <2> DEFINE x == FIL(event.order_id, filled)
  <2>1. MatchDone /\ residual = 0 /\ Finish(x)
    BY <1>8 DEF FinishFilled
  <2>2. x.tag = "FIL"
    BY DEF FIL
  <2> HIDE DEF x
  <2>3. pc = "ladder" /\ emitted' = Append(emitted, x) /\ event' = event /\ pc' = "done"
    BY <2>1 DEF Finish, MatchDone
  <2>4. TradedQty' = TradedQty /\ Last' = x
    BY <2>2, <2>3, QuietEvent
  <2>5. TradedQty = event.quantity
    BY <2>1, <2>3 DEF Accounts, InProgressAccounts, TypeOK
  <2> QED BY <2>2, <2>3, <2>4, <2>5 DEF FokInv, FokPromise, FokAllOrNothing, FokKilledOnlyIfShort
<1>9. CASE FinishResting \/ FinishDuplicate \/ FinishCancelled
  <2>1. MatchDone /\ residual > 0 /\ event' = event /\ pc' = "done"
    BY <1>9 DEF FinishResting, FinishDuplicate, FinishCancelled, Finish
  <2>2. event.tif # "fok"
    BY <1>7, <2>1
  <2> QED BY <2>1, <2>2 DEF FokInv, FokPromise, FokAllOrNothing, FokKilledOnlyIfShort
<1>10. CASE Return
  BY <1>10 DEF Return, FokInv, FokPromise, FokAllOrNothing, FokKilledOnlyIfShort
<1>11. CASE UNCHANGED vars
  <2>1. UNCHANGED <<node, pc, event, residual, emitted>>
    BY <1>11 DEF vars, book, frame
  <2>2. TradedQty' = TradedQty /\ Last' = Last /\ RestingThroughLimit' = RestingThroughLimit
    BY <2>1 DEF Trades, TradedQty, Last, RestingThroughLimit, Quantities, Opp
  <2>3. Depth(Opp, CrossedBy(event))' = Depth(Opp, CrossedBy(event))
    BY <2>1 DEF Depth, Resting, Quantities, Opp, CrossedBy
  <2> QED BY <2>1, <2>2, <2>3 DEF FokInv, FokPromise, FokAllOrNothing, FokKilledOnlyIfShort
<1> QED BY <1>1, <1>2, <1>3, <1>4, <1>5, <1>6, <1>8, <1>9, <1>10, <1>11 DEF Next

LEMMA FokHolds == Spec => []FokInv
<1>1. Init => FokInv /\ Accounts
  <2>1. Init => pc = "idle"
    BY DEF Init
  <2> QED BY <2>1 DEF FokInv, FokPromise, FokAllOrNothing, FokKilledOnlyIfShort,
                      Accounts, InProgressAccounts, TerminalAccountsForOrder
<1>2. TypeOK /\ TypeOK' /\ Structure /\ Accounts /\ [Next]_vars => Accounts'
  BY AccountsNext
<1>3. TypeOK /\ TypeOK' /\ Structure /\ LevelTotalsExact /\ Accounts /\ FokInv
        /\ [Next]_vars => FokInv'
  BY FokNext
<1> QED BY <1>1, <1>2, <1>3, TypeCorrect, StructureHolds, LevelTotals, PTL DEF Spec

(* A fill-or-kill order trades its whole quantity or nothing, whatever rests  *)
(* on the book and even when the totals the probe of fillable_quantity        *)
(* (order_book.hpp:166) adds up have wrapped.                                 *)
THEOREM FokIsAllOrNothing == Spec => []FokAllOrNothing
<1>1. FokInv => FokAllOrNothing
  BY DEF FokInv
<1> QED BY <1>1, FokHolds, PTL

(* A fill-or-kill order is killed only when less than its quantity rests at   *)
(* crossed prices, or more than a quantity_t can count (order_book.hpp:409).  *)
THEOREM FokKillsAreJustified == Spec => []FokKilledOnlyIfShort
<1>1. FokInv => FokKilledOnlyIfShort
  BY DEF FokInv
<1> QED BY <1>1, FokHolds, PTL

------------------------------------------------------------------------------
(* The price-time book adds up quantities the same way. *)
LEMMA AbsSum ==
  ASSUME NEW w, NEW S
  PROVE  Abstract!SumOver(w, S) = SumOver(w, S)
<1>1. Abstract!SumOver(w, S) = Partial(w, S)[S]
  BY DEF Abstract!SumOver, Abstract!MapThenSumSet, Abstract!MapThenFoldSet, Partial, Solves, Pick
<1> QED BY <1>1, SumIsPartial

(* The two books speak of the same inputs. *)
LEMMA SameInputs ==
  Abstract!AddEvent = AddEvent /\ Abstract!CancelEvent = CancelEvent
BY DEF AddEvent, Abstract!AddEvent, CancelEvent, Abstract!CancelEvent,
       Side, Abstract!Side, Tif, Abstract!Tif

LEMMA OrderFields ==
  ASSUME NEW n
  PROVE  /\ Order(n).ticket = n /\ Order(n).order_id = node[n].order_id
         /\ Order(n).side = node[n].side /\ Order(n).price = node[n].price
         /\ Order(n).quantity = node[n].quantity
BY DEF Order

(* The candidates of an order are what rests at the prices it crosses. *)
LEMMA CandidatesRest ==
  ASSUME TypeOK, Structure, NEW e \in AddEvent, NEW s, s = opposite_of(e.side)
  PROVE  Abstract!Candidates(e) = {Order(n) : n \in Resting(s, CrossedBy(e))}
<1>1. s \in Side /\ e.side \in Side /\ e.price \in Int
  BY AddFields
<1> DEFINE A == {n \in Addr : node[n].active /\ node[n].side = s /\ crosses(s, e.price, node[n].price)}
<1>2. Resting(s, CrossedBy(e)) = A
  BY <1>1, CrossedLevels
<1>3. \A n \in Addr : node[n].price \in Int
  BY DEF TypeOK, Node
<1>4. ASSUME NEW n \in Addr
      PROVE  Abstract!Matches(Order(n), e) <=>
               node[n].side = s /\ crosses(s, e.price, node[n].price)
  BY <1>1, <1>3, OrderFields
  DEF Abstract!Matches, Abstract!opposite_of, opposite_of, crosses, Better, Side
<1>5. Abstract!Candidates(e) = {Order(n) : n \in A}
  BY <1>4 DEF Abstract!Candidates, RestingOrders
<1> QED BY <1>2, <1>5

LEMMA SupplyIsDepth ==
  ASSUME TypeOK, Structure, NEW e \in AddEvent, NEW s, s = opposite_of(e.side)
  PROVE  Abstract!Supply(e) = Depth(s, CrossedBy(e))
<1> DEFINE A == Resting(s, CrossedBy(e))
           C == Abstract!Candidates(e)
           f == [n \in Addr |-> Order(n)]
           v == [r \in C |-> r.quantity]
           w == Quantities
<1>1. A \in SUBSET Addr /\ IsFiniteSet(A) /\ \A n \in A : w[n] \in Int /\ w[n] = node[n].quantity
  BY RestingFacts
<1>2. C = {f[n] : n \in A}
  <2>1. C = {Order(n) : n \in A}
    BY CandidatesRest, Zenon
  <2>2. \A n \in A : f[n] = Order(n)
    BY <1>1
  <2> HIDE DEF f, A, C
  <2> QED BY <2>1, <2>2
<1>3. \A n \in A : f[n] \in C /\ v[f[n]] = w[n]
  <2>1. \A n \in A : f[n] = Order(n) /\ f[n].quantity = node[n].quantity
    BY <1>1, OrderFields
  <2> QED BY <1>1, <1>2, <2>1
<1>4. \A n, m \in A : f[n] = f[m] => n = m
  BY <1>1, OrderFields
<1> HIDE DEF A, C, f, v, w
<1>5. SumOver(v, {f[n] : n \in A}) = SumOver(w, A)
  BY <1>1, <1>3, <1>4, SumImage
<1>6. SumOver(v, C) = SumOver(w, A)
  BY <1>2, <1>5
<1>7. Abstract!Supply(e) = SumOver(v, C)
  BY AbsSum DEF Abstract!Supply, v, C
<1> QED BY <1>6, <1>7 DEF Depth, A, w

(* An id is taken in the price-time book when lookup_ holds it. *)
LEMMA TakenIsLookup ==
  ASSUME TypeOK, Structure, NEW id \in OrderId
  PROVE  /\ Abstract!Taken(id) <=> lookup[id] # Null
         /\ lookup[id] # Null => /\ lookup[id] \in Addr /\ node[lookup[id]].active
                                 /\ node[lookup[id]].order_id = id /\ id > 0
                                 /\ Order(lookup[id]) \in RestingOrders
<1>1. lookup[id] \in Pointer
  BY DEF TypeOK
<1>2. lookup[id] # Null => /\ lookup[id] \in Addr /\ node[lookup[id]].active
                           /\ node[lookup[id]].order_id = id
  BY <1>1 DEF Pointer, Structure, LookupExact
<1>3. lookup[id] # Null => id > 0 /\ Order(lookup[id]) \in RestingOrders
  BY <1>2 DEF Structure, NodesHaveLevels, RestingOrders
<1>4. lookup[id] # Null => Abstract!Taken(id)
  BY <1>2, <1>3, OrderFields DEF Abstract!Taken
<1>5. Abstract!Taken(id) => lookup[id] # Null
  <2> SUFFICES ASSUME Abstract!Taken(id) PROVE lookup[id] # Null
    OBVIOUS
  <2>1. PICK n \in Addr : node[n].active /\ node[n].order_id = id
    BY OrderFields DEF Abstract!Taken, RestingOrders
  <2> QED BY <2>1, AddrFacts DEF Structure, LookupExact
<1> QED BY <1>2, <1>3, <1>4, <1>5

------------------------------------------------------------------------------
(* The steps of clob_t, one by one, as steps of the price-time book. *)

LEMMA OrdersUnchanged ==
  ASSUME node' = node
  PROVE  RestingOrders' = RestingOrders
BY DEF RestingOrders, Order

(* An input refused, killed or answered at once. *)
LEMMA RejectIsRefuse ==
  ASSUME TypeOK, NEW e \in AddEvent, RejectAdd(e)
  PROVE  Abstract!Refuse(e)
<1>1. ~Abstract!Acceptable(e)
  BY AddFields DEF RejectAdd, Invalid, Abstract!Acceptable
<1>2. InvalidCode(e) \in {"invalid_order_id", "invalid_quantity", "invalid_price"}
  BY DEF InvalidCode
<1>3. Abstract!Answer(e, Abstract!REJ(e.order_id, InvalidCode(e)))
  BY DEF RejectAdd, Abstract!Answer, frame, book, Abstract!REJ, REJ
<1>4. UNCHANGED RestingOrders
  BY OrdersUnchanged DEF RejectAdd, book
<1> QED BY <1>1, <1>2, <1>3, <1>4 DEF Abstract!Refuse

LEMMA KillIsKill ==
  ASSUME TypeOK, Structure, LevelTotalsExact, NEW e \in AddEvent, KillFok(e)
  PROVE  Abstract!Kill(e)
<1>1. Abstract!Acceptable(e) /\ e.tif = "fok" /\ e.quantity > 0 /\ pc = "idle" /\ ~fillable_at_limit(e)
  BY AddFields DEF KillFok, Abstract!Acceptable
<1>2. PICK d : d = Depth(opposite_of(e.side), CrossedBy(e))
  OBVIOUS
<1>3. d < e.quantity \/ d > QtyMax
  BY <1>1, <1>2, ProbeComplete
<1>4. Abstract!Supply(e) = d
  BY <1>2, SupplyIsDepth
<1>5. Abstract!Answer(e, Abstract!CAN(e.order_id, 0, e.quantity, "fill_or_kill"))
  BY DEF KillFok, Abstract!Answer, frame, book, Abstract!CAN, CAN
<1>6. UNCHANGED RestingOrders
  BY OrdersUnchanged DEF KillFok, book
<1> QED BY <1>1, <1>3, <1>4, <1>5, <1>6 DEF Abstract!Kill

LEMMA BeginIsAccept ==
  ASSUME TypeOK, Structure, LevelTotalsExact, NEW e \in AddEvent, BeginMatch(e)
  PROVE  Abstract!Accept(e)
<1>1. Abstract!Acceptable(e) /\ pc = "idle"
  BY AddFields DEF BeginMatch, Abstract!Acceptable
<1>2. e.tif = "fok" => Abstract!Supply(e) >= e.quantity
  BY <1>1, ProbeCovers, SupplyIsDepth DEF BeginMatch
<1>3. UNCHANGED RestingOrders
  BY OrdersUnchanged DEF BeginMatch, book
<1> QED BY <1>1, <1>2, <1>3 DEF Abstract!Accept, BeginMatch, book

LEMMA RejectIsWithdraw ==
  ASSUME TypeOK, Structure, NEW e \in CancelEvent, RejectCancel(e)
  PROVE  Abstract!Withdraw(e)
<1>1. e.order_id \in OrderId
  BY DEF CancelEvent
<1>2. ~Abstract!Taken(e.order_id)
  <2>1. e.order_id \in Int
    BY <1>1, MessageAssumption
  <2> QED BY <1>1, <2>1, TakenIsLookup DEF RejectCancel, Cancellable
<1>3. Abstract!Answer(e, Abstract!REJ(e.order_id, IF e.order_id <= 0 THEN "invalid_order_id"
                                                  ELSE "unknown_order_id"))
  BY DEF RejectCancel, Abstract!Answer, frame, book, Abstract!REJ, REJ
<1>4. UNCHANGED RestingOrders
  BY OrdersUnchanged DEF RejectCancel, book
<1> QED BY <1>2, <1>3, <1>4 DEF Abstract!Withdraw

(* When one order goes, the others are what they were. *)
LEMMA OrderGone ==
  ASSUME NEW n \in Addr, node[n].active, ~node'[n].active, \A m \in Addr \ {n} : Kept(m)
  PROVE  RestingOrders' = RestingOrders \ {Order(n)}
<1>1. ASSUME NEW m \in Addr \ {n} PROVE Order(m)' = Order(m) /\ Order(m) # Order(n)
  BY OrderFields DEF Order, Kept
<1>2. \A m \in Addr \ {n} : node'[m].active = node[m].active
  BY DEF Kept
<1> DEFINE P == {m \in Addr : node[m].active}
           Q == {m \in Addr : node'[m].active}
<1>3. Q = P \ {n} /\ P \in SUBSET Addr
  BY <1>2
<1>4. RestingOrders' = {Order(m) : m \in Q}
  <2>1. RestingOrders' = {Order(m)' : m \in Q}
    BY DEF RestingOrders
  <2>2. \A m \in Q : Order(m)' = Order(m)
    BY <1>1, <1>3
  <2> QED BY <2>1, <2>2
<1> QED BY <1>1, <1>3, <1>4 DEF RestingOrders

LEMMA CancelIsWithdraw ==
  ASSUME TypeOK, Structure, Structure', NEW e \in CancelEvent, CancelResting(e)
  PROVE  Abstract!Withdraw(e)
<1>1. PICK n : n = lookup[e.order_id]
  OBVIOUS
<1>2. n \in Addr /\ node[n].active /\ ~node'[n].active /\ \A m \in Addr \ {n} : Kept(m)
  BY <1>1, CancelEffect
<1>3. e.order_id \in OrderId
  BY DEF CancelEvent
<1>4. Order(n) \in RestingOrders /\ Order(n).order_id = e.order_id
  BY <1>1, <1>2, <1>3, AddrFacts, TakenIsLookup, OrderFields
<1>5. RestingOrders' = RestingOrders \ {Order(n)}
  BY <1>2, OrderGone
<1>6. Abstract!Answer(e, Abstract!CAN(e.order_id, 0, Order(n).quantity, "user_request"))
  BY <1>1, OrderFields DEF CancelResting, Abstract!Answer, frame, Abstract!CAN, CAN
<1> QED BY <1>4, <1>5, <1>6 DEF Abstract!Withdraw
(* When one order loses quantity, the others are what they were. *)
LEMMA OrderReduced ==
  ASSUME NEW n \in Addr, NEW r, node[n].active, node'[n].active, \A m \in Addr \ {n} : Kept(m),
         r = Order(n)'
  PROVE  RestingOrders' = (RestingOrders \ {Order(n)}) \cup {r}
<1>1. ASSUME NEW m \in Addr \ {n} PROVE Order(m)' = Order(m) /\ Order(m) # Order(n)
  BY OrderFields DEF Order, Kept
<1>2. \A m \in Addr \ {n} : node'[m].active = node[m].active
  BY DEF Kept
<1> DEFINE P == {m \in Addr : node[m].active}
           Q == {m \in Addr : node'[m].active}
<1>3. Q = P /\ P \in SUBSET Addr /\ n \in P
  BY <1>2
<1>4. RestingOrders' = {Order(m) : m \in P \ {n}} \cup {r}
  <2>1. RestingOrders' = {Order(m)' : m \in Q}
    BY DEF RestingOrders
  <2>2. \A m \in P \ {n} : Order(m)' = Order(m)
    BY <1>1, <1>3
  <2> QED BY <1>3, <2>1, <2>2
<1>5. RestingOrders \ {Order(n)} = {Order(m) : m \in P \ {n}}
  BY <1>1, <1>3 DEF RestingOrders
<1> QED BY <1>4, <1>5

(* The order match_level trades with is the first candidate. *)
LEMMA FirstCandidate ==
  ASSUME TypeOK, Structure, Fill, NEW n, n = cursor
  PROVE  /\ n \in Addr /\ Order(n) \in Abstract!Candidates(event)
         /\ \A c \in Abstract!Candidates(event) \ {Order(n)} : Abstract!Precedes(Order(n), c)
<1>1. PICK s : s = Opp
  OBVIOUS
<1>2. event \in AddEvent /\ s = opposite_of(event.side) /\ s \in Side /\ n \in Addr /\ n \in Live(s, levelPrice)
  BY <1>1, CursorIsHead DEF Opp
<1>3. /\ node[n].side = s /\ crosses(s, event.price, node[n].price)
      /\ \A m \in Addr :
           node[m].active /\ node[m].side = node[n].side /\ m # n =>
             \/ Better(s, node[n].price, node[m].price)
             \/ node[n].price = node[m].price /\ n < m
  BY <1>1, CursorHasPriority
<1>4. Resting(s, CrossedBy(event)) =
        {m \in Addr : node[m].active /\ node[m].side = s /\ crosses(s, event.price, node[m].price)}
  BY <1>2, CrossedLevels
<1>5. Abstract!Candidates(event) = {Order(m) : m \in Resting(s, CrossedBy(event))}
  BY <1>2, CandidatesRest
<1>6. Order(n) \in Abstract!Candidates(event)
  BY <1>2, <1>3, <1>4, <1>5 DEF Live
<1>7. ASSUME NEW c \in Abstract!Candidates(event) \ {Order(n)}
      PROVE  Abstract!Precedes(Order(n), c)
  <2>1. PICK m \in Addr : c = Order(m) /\ node[m].active /\ node[m].side = s /\ m # n
    BY <1>4, <1>5, <1>7
  <2>2. \/ Better(s, node[n].price, node[m].price)
        \/ node[n].price = node[m].price /\ n < m
    BY <1>3, <2>1
  <2> QED BY <1>3, <2>1, <2>2, OrderFields DEF Abstract!Precedes, Better
<1> QED BY <1>2, <1>6, <1>7

LEMMA WholeFillIsTrade ==
  ASSUME TypeOK, Structure, FillRestingWhole
  PROVE  Abstract!Trade
<1>1. PICK n, r, q : n = cursor /\ r = Order(n) /\ q = trade_qty
  OBVIOUS
<1>2. /\ Fill /\ n \in Addr /\ node[n].active /\ q \in Nat /\ q <= residual
      /\ \A m \in Addr \ {n} : Kept(m)
  BY <1>1, FillEffect
<1>3. pc = "level" /\ residual \in Nat /\ residual > 0 /\ residual' = residual - q
      /\ UNCHANGED <<allocated, pc, event>>
  BY <1>1, <1>2 DEF Fill, TypeOK
<1>4. r \in Abstract!Candidates(event) /\ \A c \in Abstract!Candidates(event) \ {r} : Abstract!Precedes(r, c)
  BY <1>1, <1>2, FirstCandidate
<1>5. q = node[n].quantity /\ node' = UnlinkedNodes(n)
      /\ emitted' = emitted \o <<TRD(event.order_id, node[n].order_id, q), FIL(node[n].order_id, q)>>
  BY <1>1 DEF FillRestingWhole
<1>6. r.quantity = q /\ r.order_id = node[n].order_id
  BY <1>1, <1>5, OrderFields
<1>7. q = IF residual < r.quantity THEN residual ELSE r.quantity
  BY <1>2, <1>3, <1>6
<1>8. RestingOrders' = RestingOrders \ {r}
  <2>1. ~node'[n].active
    BY <1>2, <1>5, UnlinkedLive
  <2> QED BY <1>1, <1>2, <2>1, OrderGone
<1>9. [r EXCEPT !.quantity = r.quantity - q].quantity = 0
  BY <1>1, <1>2, <1>6 DEF Order
<1>10. Abstract!TRD(event.order_id, r.order_id, q) = TRD(event.order_id, node[n].order_id, q)
       /\ Abstract!FIL(r.order_id, q) = FIL(node[n].order_id, q)
  BY <1>6 DEF TRD, Abstract!TRD, FIL, Abstract!FIL
<1> QED BY <1>3, <1>4, <1>5, <1>7, <1>8, <1>9, <1>10 DEF Abstract!Trade

LEMMA PartFillIsTrade ==
  ASSUME TypeOK, Structure, FillRestingPart
  PROVE  Abstract!Trade
<1>1. PICK n, r, q, k : n = cursor /\ r = Order(n) /\ q = trade_qty
                        /\ k = [r EXCEPT !.quantity = r.quantity - q]
  OBVIOUS
<1>2. /\ Fill /\ n \in Addr /\ node[n].active /\ q \in Nat
      /\ \A m \in Addr \ {n} : Kept(m)
  BY <1>1, FillEffect
<1>3. pc = "level" /\ residual \in Nat /\ residual > 0 /\ residual' = residual - q
      /\ UNCHANGED <<allocated, pc, event>>
  BY <1>1, <1>2 DEF Fill, TypeOK
<1>4. r \in Abstract!Candidates(event) /\ \A c \in Abstract!Candidates(event) \ {r} : Abstract!Precedes(r, c)
  BY <1>1, <1>2, FirstCandidate
<1>5. /\ q < node[n].quantity
      /\ node' = [node EXCEPT ![n] = [node[n] EXCEPT !.quantity = node[n].quantity - q]]
      /\ emitted' = emitted \o <<TRD(event.order_id, node[n].order_id, q),
                                 RST(node[n].order_id, q, node[n].quantity - q)>>
  BY <1>1 DEF FillRestingPart
<1>6. node[n] \in Node /\ node[n].quantity \in Nat
  BY <1>2 DEF TypeOK, Node
<1>7. r.quantity = node[n].quantity /\ r.order_id = node[n].order_id
  BY <1>1, OrderFields
<1>8. q = IF residual < r.quantity THEN residual ELSE r.quantity
  BY <1>1, <1>2, <1>3, <1>5, <1>6, <1>7 DEF trade_qty, MinQty
<1>9. k = Order(n)' /\ node'[n].active
  <2>1. node'[n] = [node[n] EXCEPT !.quantity = node[n].quantity - q]
    BY <1>2, <1>5 DEF TypeOK
  <2>2. /\ node'[n].order_id = node[n].order_id /\ node'[n].side = node[n].side
        /\ node'[n].price = node[n].price /\ node'[n].quantity = node[n].quantity - q
        /\ node'[n].active
    BY <1>2, <1>6, <2>1 DEF Node
  <2> QED BY <1>1, <2>2 DEF Order
<1>10. RestingOrders' = (RestingOrders \ {r}) \cup {k}
  BY <1>1, <1>2, <1>9, OrderReduced
<1>11. k.quantity = node[n].quantity - q /\ k.quantity # 0
  <2>1. k.quantity = node[n].quantity - q
    BY <1>1 DEF Order
  <2> QED BY <1>2, <1>5, <1>6, <2>1
<1>12. Abstract!TRD(event.order_id, r.order_id, q) = TRD(event.order_id, node[n].order_id, q)
       /\ Abstract!RST(r.order_id, q, k.quantity) = RST(node[n].order_id, q, node[n].quantity - q)
  BY <1>7, <1>11 DEF TRD, Abstract!TRD, RST, Abstract!RST
<1> QED BY <1>1, <1>3, <1>4, <1>5, <1>8, <1>10, <1>11, <1>12 DEF Abstract!Trade
(* When matching ends with a residue, no candidate is left. *)
LEMMA NoCandidateLeft ==
  ASSUME TypeOK, Structure, MatchDone, residual > 0
  PROVE  Abstract!Candidates(event) = {}
<1>1. PICK s : s = Opp
  OBVIOUS
<1>2. event \in AddEvent /\ s = opposite_of(event.side) /\ s \in Side
  BY <1>1, AddFields DEF MatchDone, TypeOK, Opp
<1>3. \A q \in prices[s] : Better(s, event.price, q)
  BY <1>1, ResidueDoesNotCross
<1>4. Resting(s, CrossedBy(event)) = Resting(s, {p \in prices[s] : crosses(s, event.price, p)})
  BY <1>2, CrossedLevels
<1>5. Resting(s, CrossedBy(event)) = {}
  BY <1>3, <1>4 DEF Resting, crosses
<1>6. Abstract!Candidates(event) = {Order(m) : m \in Resting(s, CrossedBy(event))}
  BY <1>2, CandidatesRest
<1> QED BY <1>5, <1>6

(* What is filled is what is no longer left. *)
LEMMA FilledIsDone ==
  ASSUME TypeOK, Accounts, MatchDone
  PROVE  /\ filled = event.quantity - residual /\ pc = "ladder" /\ residual \in Nat
         /\ event \in AddEvent
<1>1. pc = "ladder" /\ residual \in Nat /\ filled \in Nat /\ event \in AddEvent
  BY DEF MatchDone, TypeOK
<1>2. filled + residual = event.quantity /\ event.quantity \in Int
  BY <1>1, AddFields DEF Accounts, InProgressAccounts
<1> QED BY <1>1, <1>2

LEMMA FilledIsSettle ==
  ASSUME TypeOK, Accounts, FinishFilled
  PROVE  Abstract!Settle
<1>1. MatchDone /\ residual = 0 /\ Finish(FIL(event.order_id, filled)) /\ UNCHANGED book
  BY DEF FinishFilled
<1>2. filled = event.quantity - residual /\ pc = "ladder"
  BY <1>1, FilledIsDone
<1>3. UNCHANGED RestingOrders /\ allocated' = allocated
  BY <1>1, OrdersUnchanged DEF book
<1>4. Abstract!FIL(event.order_id, event.quantity - residual) = FIL(event.order_id, filled)
  BY <1>2 DEF FIL, Abstract!FIL
<1> QED BY <1>1, <1>2, <1>3, <1>4 DEF Abstract!Settle, Finish

LEMMA CancelledIsSettle ==
  ASSUME TypeOK, Structure, Accounts, FokInv, FinishCancelled
  PROVE  Abstract!Settle
<1>1. /\ MatchDone /\ residual > 0 /\ event.tif # "gtc" /\ UNCHANGED book
      /\ Finish(CAN(event.order_id, filled, residual,
                    IF event.tif = "ioc" THEN "immediate_or_cancel" ELSE "fill_or_kill"))
  BY DEF FinishCancelled
<1>2. filled = event.quantity - residual /\ pc = "ladder" /\ event \in AddEvent /\ residual \in Nat
  BY <1>1, FilledIsDone
<1>3. event.tif # "fok"
  BY <1>1, <1>2, FokFilled DEF FokInv
<1>4. event.tif = "ioc"
  BY <1>1, <1>2, <1>3, AddFields DEF Tif
<1>5. UNCHANGED RestingOrders /\ allocated' = allocated
  BY <1>1, OrdersUnchanged DEF book
<1>6. Abstract!CAN(event.order_id, event.quantity - residual, residual, "immediate_or_cancel")
        = CAN(event.order_id, filled, residual, "immediate_or_cancel")
  BY <1>2 DEF CAN, Abstract!CAN
<1>7. Abstract!Candidates(event) = {}
  BY <1>1, NoCandidateLeft
<1> QED BY <1>1, <1>2, <1>4, <1>5, <1>6, <1>7 DEF Abstract!Settle, Finish

LEMMA DuplicateIsSettle ==
  ASSUME TypeOK, Structure, Accounts, FinishDuplicate
  PROVE  Abstract!Settle
<1>1. /\ MatchDone /\ residual > 0 /\ event.tif = "gtc" /\ lookup[event.order_id] # Null
      /\ Finish(REJ(event.order_id, "duplicate_order_id"))
      /\ allocated' = allocated + 1 /\ node' = node
  BY DEF FinishDuplicate
<1>2. pc = "ladder" /\ event \in AddEvent
  BY <1>1, FilledIsDone
<1>3. UNCHANGED RestingOrders
  BY <1>1, OrdersUnchanged
<1>4. Abstract!Taken(event.order_id)
  BY <1>1, <1>2, AddFields, TakenIsLookup
<1>5. Abstract!REJ(event.order_id, "duplicate_order_id") = REJ(event.order_id, "duplicate_order_id")
  BY DEF REJ, Abstract!REJ
<1>6. Abstract!Candidates(event) = {}
  BY <1>1, NoCandidateLeft
<1> QED BY <1>1, <1>2, <1>3, <1>4, <1>5, <1>6 DEF Abstract!Settle, Finish

LEMMA RestingIsSettle ==
  ASSUME TypeOK, Structure, Accounts, FinishResting
  PROVE  Abstract!Settle
<1>1. /\ MatchDone /\ residual > 0 /\ event.tif = "gtc" /\ lookup[event.order_id] = Null
      /\ Finish(RST(event.order_id, filled, residual)) /\ allocated' = allocated + 1
  BY DEF FinishResting
<1>2. filled = event.quantity - residual /\ pc = "ladder" /\ event \in AddEvent
  BY <1>1, FilledIsDone
<1>3. PICK n : n = allocated + 1
  OBVIOUS
<1>4. /\ n \in Addr /\ ~node[n].active
      /\ node'[n].active /\ node'[n].order_id = event.order_id
      /\ node'[n].side = event.side /\ node'[n].price = event.price
      /\ node'[n].quantity = residual
      /\ \A m \in Addr \ {n} : Kept(m)
  BY <1>3, RestEffect
<1> DEFINE o == [ticket |-> n, order_id |-> event.order_id, side |-> event.side,
                 price |-> event.price, quantity |-> residual]
<1>5. RestingOrders' = RestingOrders \cup {o}
  <2> DEFINE P == {m \in Addr : node[m].active}
             Q == {m \in Addr : node'[m].active}
  <2>1. Q = P \cup {n} /\ P \in SUBSET (Addr \ {n})
    BY <1>4 DEF Kept
  <2>2. RestingOrders' = {Order(m)' : m \in Q}
    BY DEF RestingOrders
  <2>3. \A m \in P : Order(m)' = Order(m)
    BY <1>4, <2>1 DEF Kept, Order
  <2>4. Order(n)' = o
    BY <1>4 DEF Order
  <2> HIDE DEF o
  <2> QED BY <2>1, <2>2, <2>3, <2>4 DEF RestingOrders
<1>6. ~Abstract!Taken(event.order_id)
  BY <1>1, <1>2, AddFields, TakenIsLookup
<1>7. Abstract!RST(event.order_id, event.quantity - residual, residual)
        = RST(event.order_id, filled, residual)
  BY <1>2 DEF RST, Abstract!RST
<1>8. Abstract!Candidates(event) = {}
  BY <1>1, NoCandidateLeft
<1> QED BY <1>1, <1>2, <1>3, <1>5, <1>6, <1>7, <1>8 DEF Abstract!Settle, Finish

(* Every step of clob_t is a step of the price-time book or changes nothing there. *)
LEMMA BookSimulates ==
  ASSUME TypeOK, Structure, Structure', LevelTotalsExact, Accounts, FokInv, [Next]_vars
  PROVE  [Abstract!absNext]_(Abstract!absVars)
<1>1. ASSUME NEW e \in AddEvent, RejectAdd(e) \/ KillFok(e) \/ BeginMatch(e) PROVE Abstract!absNext
  <2>1. Abstract!Refuse(e) \/ Abstract!Kill(e) \/ Abstract!Accept(e)
    BY <1>1, RejectIsRefuse, KillIsKill, BeginIsAccept
  <2> QED BY <2>1, SameInputs DEF Abstract!absNext
<1>2. ASSUME NEW e \in CancelEvent, RejectCancel(e) \/ CancelResting(e) PROVE Abstract!absNext
  <2>1. Abstract!Withdraw(e)
    BY <1>2, RejectIsWithdraw, CancelIsWithdraw
  <2> QED BY <2>1, SameInputs DEF Abstract!absNext
<1>3. CASE FillRestingWhole \/ FillRestingPart
  BY <1>3, WholeFillIsTrade, PartFillIsTrade DEF Abstract!absNext
<1>4. CASE FinishFilled \/ FinishResting \/ FinishDuplicate \/ FinishCancelled
  BY <1>4, FilledIsSettle, RestingIsSettle, DuplicateIsSettle, CancelledIsSettle DEF Abstract!absNext
<1>5. CASE Return
  <2>1. UNCHANGED RestingOrders
    BY <1>5, OrdersUnchanged DEF Return, book
  <2>2. Abstract!Move
    BY <1>5, <2>1 DEF Return, book, frame, Abstract!Move, Abstract!NoEvent, NoEvent
  <2> QED BY <2>2 DEF Abstract!absNext
<1>6. CASE EnterLevel \/ LeaveLevel
  <2>1. node' = node
    BY <1>6 DEF EnterLevel, LeaveLevel, book
  <2>2. UNCHANGED RestingOrders
    BY <2>1, OrdersUnchanged
  <2>3. UNCHANGED Abstract!absVars
    BY <1>6, <2>2 DEF EnterLevel, LeaveLevel, book, Abstract!absVars
  <2> QED BY <2>3
<1>7. CASE UNCHANGED vars
  <2>1. UNCHANGED <<node, allocated, pc, event, residual, emitted>>
    BY <1>7 DEF vars, book, frame
  <2>2. UNCHANGED RestingOrders
    BY <2>1, OrdersUnchanged
  <2> QED BY <2>1, <2>2 DEF Abstract!absVars
<1> QED BY <1>1, <1>2, <1>3, <1>4, <1>5, <1>6, <1>7 DEF Next

(* An empty book is an empty price-time book. *)
LEMMA BookStartsEmpty == Init => Abstract!absInit
<1> SUFFICES ASSUME Init PROVE Abstract!absInit
  OBVIOUS
<1>1. RestingOrders = {}
  BY DEF Init, RestingOrders, RawNode
<1> QED BY <1>1 DEF Init, Abstract!absInit, Abstract!NoEvent, NoEvent

(* clob_t implements the price-time book, whatever ids, prices and quantities *)
(* occur and however wide quantity_t is: every handler, with its intrusive    *)
(* lists, ladders, lookup, level totals and fill-or-kill probe                *)
(* (order_book.hpp:265-511), trades with the first resting order in price     *)
(* and time, in the quantities and with the events that the abstract book     *)
(* prescribes, and leaves the same orders resting.                            *)
THEOREM BookImplementsPriceTimeBook == Spec => ImplementsPriceTimeBook
<1>1. Init => Accounts
  BY DEF Init, Accounts, InProgressAccounts, TerminalAccountsForOrder
<1>2. TypeOK /\ TypeOK' /\ Structure /\ Accounts /\ [Next]_vars => Accounts'
  BY AccountsNext
<1>3. TypeOK /\ Structure /\ Structure' /\ LevelTotalsExact /\ Accounts /\ FokInv
        /\ [Next]_vars => [Abstract!absNext]_(Abstract!absVars)
  BY BookSimulates
<1> QED BY <1>1, <1>2, <1>3, BookStartsEmpty, TypeCorrect, StructureHolds, LevelTotals, FokHolds, PTL
        DEF Spec, ImplementsPriceTimeBook, Abstract!absSpec

------------------------------------------------------------------------------
(* The steps a handler still has to take, at most: a fill takes at least one  *)
(* from the residue, and a level is entered only to fill (order_book.hpp:433, *)
(* 461).                                                                      *)
StepsLeft ==
  CASE pc = "idle"   -> 0
    [] pc = "done"   -> 1
    [] pc = "ladder" -> 3 * residual + 2
    [] pc = "level"  -> IF cursor # Null /\ residual > 0 THEN 3 * residual + 1
                        ELSE 3 * residual + 3

HandlerShrinks == HandlerStep => StepsLeft \in Nat /\ StepsLeft' \in Nat /\ StepsLeft' < StepsLeft

LEMMA StepsOf ==
  ASSUME TypeOK
  PROVE  /\ StepsLeft \in Nat
         /\ pc = "idle" => StepsLeft = 0
         /\ pc = "done" => StepsLeft = 1
         /\ pc = "ladder" => StepsLeft = 3 * residual + 2
         /\ pc = "level" /\ cursor # Null /\ residual > 0 => StepsLeft = 3 * residual + 1
         /\ pc = "level" /\ ~(cursor # Null /\ residual > 0) => StepsLeft = 3 * residual + 3
<1>1. pc \in {"idle", "ladder", "level", "done"} /\ residual \in Nat
  BY DEF TypeOK
<1> QED BY <1>1 DEF StepsLeft

LEMMA EveryStepShrinks ==
  ASSUME TypeOK, TypeOK', Structure
  PROVE  HandlerShrinks
<1> SUFFICES ASSUME HandlerStep PROVE StepsLeft \in Nat /\ StepsLeft' \in Nat /\ StepsLeft' < StepsLeft
  BY DEF HandlerShrinks
<1>1. /\ StepsLeft \in Nat /\ residual \in Nat
      /\ pc = "done" => StepsLeft = 1
      /\ pc = "ladder" => StepsLeft = 3 * residual + 2
      /\ pc = "level" /\ cursor # Null /\ residual > 0 => StepsLeft = 3 * residual + 1
      /\ pc = "level" /\ ~(cursor # Null /\ residual > 0) => StepsLeft = 3 * residual + 3
  BY StepsOf DEF TypeOK
<1>2. /\ StepsLeft' \in Nat /\ residual' \in Nat
      /\ pc' = "idle" => StepsLeft' = 0
      /\ pc' = "done" => StepsLeft' = 1
      /\ pc' = "ladder" => StepsLeft' = 3 * residual' + 2
      /\ pc' = "level" /\ cursor' # Null /\ residual' > 0 => StepsLeft' = 3 * residual' + 1
      /\ pc' = "level" => StepsLeft' <= 3 * residual' + 3
  <2>1. pc' \in {"idle", "ladder", "level", "done"} /\ residual' \in Nat
    BY DEF TypeOK
  <2> QED BY <2>1 DEF StepsLeft
<1>3. CASE EnterLevel
  <2>1. /\ pc = "ladder" /\ pc' = "level" /\ residual' = residual /\ residual > 0
        /\ event \in AddEvent
    BY <1>3 DEF EnterLevel, TypeOK
  <2>2. PICK p \in prices[Opp] : cursor' = level[Opp][p].head
    BY <1>3 DEF EnterLevel
  <2>3. Opp \in Side /\ p \in Price
    BY <2>1, <2>2, AddFields DEF Opp, TypeOK
  <2>4. Live(Opp, p) # {}
    BY <2>1, <2>2, <2>3 DEF Structure, NoEmptyLevels, Draining
  <2>5. cursor' # Null
    BY <2>2, <2>3, <2>4 DEF Structure, ListsAreFifo, IsFifo
  <2> QED BY <1>1, <1>2, <2>1, <2>5
<1>4. CASE FillRestingWhole \/ FillRestingPart
  <2>1. Fill
    BY <1>4 DEF FillRestingWhole, FillRestingPart
  <2>2. cursor \in Addr /\ cursor \in Live(Opp, levelPrice) /\ node[cursor] \in Node
    BY <2>1, CursorIsHead
  <2>3. node[cursor].quantity > 0 /\ node[cursor].quantity \in Nat
    BY <2>2 DEF Live, Node, Structure, NodesHaveLevels
  <2>4. residual' = residual - trade_qty /\ residual > 0 /\ cursor # Null /\ pc = "level" /\ pc' = "level"
    BY <2>1 DEF Fill
  <2>5. trade_qty \in Nat /\ trade_qty >= 1
    BY <1>1, <2>3, <2>4 DEF trade_qty, MinQty
  <2> HIDE DEF trade_qty
  <2>6. residual' <= residual - 1
    BY <1>1, <1>2, <2>4, <2>5
  <2> QED BY <1>1, <1>2, <2>4, <2>6
<1>5. CASE LeaveLevel
  <2>1. pc = "level" /\ pc' = "ladder" /\ residual' = residual /\ (cursor = Null \/ residual = 0)
    BY <1>5 DEF LeaveLevel
  <2> QED BY <1>1, <1>2, <2>1
<1>6. CASE FinishFilled \/ FinishResting \/ FinishDuplicate \/ FinishCancelled
  <2>1. pc = "ladder" /\ pc' = "done"
    BY <1>6 DEF FinishFilled, FinishResting, FinishDuplicate, FinishCancelled, MatchDone, Finish
  <2> QED BY <1>1, <1>2, <2>1
<1>7. CASE Return
  <2>1. pc = "done" /\ pc' = "idle"
    BY <1>7 DEF Return
  <2> QED BY <1>1, <1>2, <2>1
<1> QED BY <1>3, <1>4, <1>5, <1>6, <1>7 DEF HandlerStep

(* A ladder that is not empty has a best level. *)
LEMMA BestExists ==
  ASSUME TypeOK, Structure, pc # "level", NEW s \in Side, prices[s] # {}
  PROVE  \E p \in prices[s] : IsBest(s, p)
<1> DEFINE S == prices[s]
           G == {T \in SUBSET S : T # {} => \E p \in T : \A q \in T : q # p => Better(s, p, q)}
<1>1. IsFiniteSet(S) /\ S \subseteq Int
  BY LadderFinite, MessageAssumption DEF TypeOK
<1>2. {} \in G
  OBVIOUS
<1>3. \A T \in SUBSET S : T # {} /\ (\A x \in T : T \ {x} \in G) => T \in G
  <2> SUFFICES ASSUME NEW T \in SUBSET S, T # {}, \A x \in T : T \ {x} \in G
               PROVE  \E p \in T : \A q \in T : q # p => Better(s, p, q)
    OBVIOUS
  <2>1. PICK x \in T : TRUE
    OBVIOUS
  <2>2. CASE T \ {x} = {}
    BY <2>1, <2>2
  <2>3. CASE T \ {x} # {}
    <3>1. PICK p \in T \ {x} : \A q \in T \ {x} : q # p => Better(s, p, q)
      BY <2>1, <2>3
    <3>2. x \in Int /\ p \in Int /\ T \subseteq Int
      BY <1>1, <2>1, <3>1
    <3>3. CASE Better(s, p, x)
      BY <3>1, <3>3
    <3>4. CASE ~Better(s, p, x)
      <4>1. Better(s, x, p)
        BY <3>1, <3>2, <3>4 DEF Better
      <4>2. ASSUME NEW q \in T, q # x PROVE Better(s, x, q)
        BY <3>1, <3>2, <4>1, <4>2 DEF Better
      <4> QED BY <4>2
    <3> QED BY <3>3, <3>4
  <2> QED BY <2>2, <2>3
<1> HIDE DEF G
<1>4. S \in G
  BY <1>1, <1>2, <1>3, SetInduct
<1> QED BY <1>4 DEF G, IsBest

(* While a handler runs, the guard of one of its steps holds. *)
HandlerCanStep ==
  pc # "idle" =>
    \/ pc = "done"
    \/ pc = "level" /\ cursor # Null /\ residual > 0
    \/ pc = "level" /\ (cursor = Null \/ residual = 0)
    \/ MatchDone
    \/ /\ pc = "ladder" /\ residual > 0
       /\ \E p \in prices[Opp] : IsBest(Opp, p) /\ crosses(Opp, event.price, p)

(* A handler never takes more steps than the quantity it was given allows:    *)
(* every step, a fill, a level entered or left or the last event, comes       *)
(* closer to the end (order_book.hpp:433-449, 461-490).  With the fairness of *)
(* the matcher thread this is why every handler returns.                      *)
THEOREM HandlersAreBounded == Spec => [][HandlerShrinks]_vars
<1>1. TypeOK /\ TypeOK' /\ Structure => HandlerShrinks
  BY EveryStepShrinks
<1> QED BY <1>1, TypeCorrect, StructureHolds, PTL

(* A handler never gets stuck: match_against always finds its order flat, its *)
(* ladder empty or a best level to look at (order_book.hpp:435-449).          *)
THEOREM HandlersNeverStuck == Spec => []HandlerCanStep
<1>1. TypeOK /\ Structure => HandlerCanStep
  <2> SUFFICES ASSUME TypeOK, Structure PROVE HandlerCanStep
    OBVIOUS
  <2>1. residual \in Nat /\ pc \in {"idle", "ladder", "level", "done"}
    BY DEF TypeOK
  <2>2. ASSUME pc = "ladder", residual # 0, prices[Opp] # {}
        PROVE  MatchDone \/ \E p \in prices[Opp] : IsBest(Opp, p) /\ crosses(Opp, event.price, p)
    <3>1. Opp \in Side
      BY <2>2, AddFields DEF TypeOK, Opp
    <3>2. PICK p \in prices[Opp] : IsBest(Opp, p)
      BY <2>2, <3>1, BestExists
    <3> QED BY <2>2, <3>2 DEF MatchDone
  <2> QED BY <2>1, <2>2 DEF HandlerCanStep, MatchDone
<1> QED BY <1>1, TypeCorrect, StructureHolds, PTL
==============================================================================

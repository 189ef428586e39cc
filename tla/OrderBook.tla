------------------------------ MODULE OrderBook ------------------------------
(***************************************************************************)
(* The central limit order book clob_t of include/matching/order_book.hpp: *)
(* two price ladders of intrusive FIFO lists over nodes of a monotonic     *)
(* arena, an id -> node lookup, and the two handlers that change them.     *)
(*                                                                         *)
(* The add handler is a loop within a loop; each iteration is one action,  *)
(* forced by pc, so that the events of one handler can be pushed one at a  *)
(* time by the composition with the output queue.  Only the matcher thread *)
(* touches the book.                                                       *)
(***************************************************************************)
EXTENDS MessageTypes, Sequences, Sums

CONSTANTS MaxNodes,  \* bound: resting nodes ever allocated from the arena
          QtyMax     \* largest quantity_t (2^63 - 1 in the code)

ASSUME BookAssumption ==
  /\ MaxNodes \in Nat
  /\ QtyMax \in Nat \ {0}
  /\ Quantity \subseteq (-QtyMax - 1) .. QtyMax

Addr == 1 .. MaxNodes      \* arena addresses, in allocation order
Null == 0                  \* nullptr
Pointer == Addr \cup {Null}

Node == [order_id: Int, price: Int, quantity: Nat, side: Side,
         active: BOOLEAN, prev: Pointer, next: Pointer]
RawNode == [order_id |-> 0, price |-> 0, quantity |-> 0, side |-> "buy",
            active |-> FALSE, prev |-> Null, next |-> Null]

Level == [head: Pointer, tail: Pointer, total: Int]
EmptyLevel == [head |-> Null, tail |-> Null, total |-> 0]

VARIABLES
  node,        \* the arena: Addr -> Node (RawNode before allocation and after
               \* retirement: dead memory is inactive, and nothing else of it
               \* is ever read)
  allocated,   \* number of nodes allocated so far; never decreases
  prices,      \* keys of the ladder maps: Side -> set of Price
  level,       \* values of the ladder maps (EmptyLevel where there is no key)
  lookup,      \* id -> node, Null when absent
  pc,          \* "idle" between inputs; in the add handler "ladder"
               \* (match_against) and "level" (match_level); "done" when a
               \* handler has emitted its last event
  event,       \* the input being handled
  residual,    \* residual.quantity of the add being handled
  filled,      \* filled_quantity of the add being handled
  levelPrice,  \* price of the level match_level works on
  cursor,      \* its cursor
  emitted      \* events emitted for the input being handled, in order

book == <<node, allocated, prices, level, lookup>>
frame == <<residual, filled, levelPrice, cursor>>
vars == <<book, pc, event, frame, emitted>>

------------------------------------------------------------------------------
(* Arithmetic of quantity_t: sums wrap at the width of the type. *)
Wrap(x) == ((x + QtyMax + 1) % (2 * QtyMax + 2)) - (QtyMax + 1)

MinQty(a, b) == IF a < b THEN a ELSE b

(* resting_levels_compare_t: a comes strictly before b on the ladder of s. *)
Better(s, a, b) == IF s = "buy" THEN a > b ELSE a < b

(* Mutant: a strict comparison, so that equal prices do not trade. *)
Mut_crosses(s, aggressive, resting) == Better(s, resting, aggressive)

crosses(s, aggressive, resting) == ~Better(s, aggressive, resting)

(* Mutant: the ladder is ordered the wrong way round. *)
Mut_IsBest(s, p) ==
  p \in prices[s] /\ \A q \in prices[s] : q # p => Better(s, q, p)

(* best_level: the first key of the ladder. *)
IsBest(s, p) ==
  /\ p \in prices[s]
  /\ \A q \in prices[s] : q # p => Better(s, p, q)

(* fillable_quantity: the running total of the levels down to and including *)
(* q; crossed levels are exactly those down to some crossed q.              *)
AvailableDownTo(s, q) ==
  Wrap(SumOver([p \in prices[s] |-> level[s][p].total],
               {p \in prices[s] : p = q \/ Better(s, p, q)}))

(* Mutants: the probe ignores the limit price; the probe stops after the *)
(* best level.                                                           *)
Mut_fillable_any_price(e) ==
  \E q \in prices[opposite_of(e.side)] :
    AvailableDownTo(opposite_of(e.side), q) >= e.quantity

Mut_fillable_best_level(e) ==
  LET opp == opposite_of(e.side)
  IN  \E q \in prices[opp] :
        /\ IsBest(opp, q)
        /\ crosses(opp, e.price, q)
        /\ level[opp][q].total >= e.quantity

fillable_at_limit(e) ==
  LET opp == opposite_of(e.side)
  IN  \E q \in prices[opp] :
        /\ crosses(opp, e.price, q)
        /\ AvailableDownTo(opp, q) >= e.quantity

------------------------------------------------------------------------------
(* List surgery shared by detach and retire_resting, with the active flag *)
(* their callers clear.                                                   *)
UnlinkedNodes(n) ==
  [m \in Addr |->
     IF m = n
     THEN RawNode
     ELSE [node[m] EXCEPT
             !.next = IF m = node[n].prev THEN node[n].next ELSE @,
             !.prev = IF m = node[n].next THEN node[n].prev ELSE @]]

(* Mutants: the tail is not repaired; the head is not repaired; retiring a *)
(* node subtracts its quantity from the level a second time.               *)
Mut_Unlinked_keep_tail(l, n) ==
  [l EXCEPT !.head = IF node[n].prev = Null THEN node[n].next ELSE @]

Mut_Unlinked_keep_head(l, n) ==
  [l EXCEPT !.tail = IF node[n].next = Null THEN node[n].prev ELSE @]

Mut_Unlinked_subtract_twice(l, n) ==
  [l EXCEPT
     !.head = IF node[n].prev = Null THEN node[n].next ELSE @,
     !.tail = IF node[n].next = Null THEN node[n].prev ELSE @,
     !.total = Wrap(@ - node[n].quantity)]

UnlinkedLevel(l, n) ==
  [l EXCEPT
     !.head = IF node[n].prev = Null THEN node[n].next ELSE @,
     !.tail = IF node[n].next = Null THEN node[n].prev ELSE @]

(* The level after quantity q left it. *)
Reduced(l, q) == [l EXCEPT !.total = Wrap(@ - q)]

(* Mutants: a level is always, or never, erased. *)
Mut_Drained_always(l) == TRUE
Mut_Drained_never(l) == FALSE

(* The test that decides whether a level is erased. *)
Drained(l) == l.head = Null

(* detach: the level of n without n, erased when that empties it; no effect  *)
(* on the lists if n's price has no level.                                   *)
detach(n) ==
  LET s == node[n].side
      p == node[n].price
      l == Reduced(UnlinkedLevel(level[s][p], n), node[n].quantity)
  IN  IF p \notin prices[s]
      THEN
         /\ node' = [node EXCEPT ![n] = RawNode]
         /\ UNCHANGED <<prices, level>>
      ELSE
         /\ node' = UnlinkedNodes(n)
         /\ prices' = [prices EXCEPT ![s] = IF Drained(l) THEN @ \ {p} ELSE @]
         /\ level' = [level EXCEPT ![s][p] = IF Drained(l) THEN EmptyLevel ELSE l]

(* append: the level of price p with node n enqueued at its tail; n was just *)
(* built by allocate_resting_node as the record new.                         *)
append(n, new) ==
  LET s == new.side
      l == level[s][new.price]
  IN  /\ node' = [m \in Addr |->
                    IF m = n THEN [new EXCEPT !.prev = l.tail]
                    ELSE IF m = l.tail THEN [node[m] EXCEPT !.next = n]
                    ELSE node[m]]
      /\ prices' = [prices EXCEPT ![s] = @ \cup {new.price}]
      /\ level' = [level EXCEPT ![s][new.price] =
                     [head  |-> IF l.tail = Null THEN n ELSE l.head,
                      tail  |-> n,
                      total |-> Wrap(l.total + new.quantity)]]

(* Mutant: the entry stays behind. *)
Mut_lookup_erase(id) == lookup

(* lookup_.erase. *)
lookup_erase(id) == [lookup EXCEPT ![id] = Null]

(* Mutant: the whole order rests instead of its residue. *)
Mut_allocate_whole_order(e, qty) ==
  [order_id |-> e.order_id, price |-> e.price, quantity |-> e.quantity,
   side |-> e.side, active |-> TRUE, prev |-> Null, next |-> Null]

allocate_resting_node(e, qty) ==
  [order_id |-> e.order_id, price |-> e.price, quantity |-> qty,
   side |-> e.side, active |-> TRUE, prev |-> Null, next |-> Null]

------------------------------------------------------------------------------
Init ==
  /\ node = [n \in Addr |-> RawNode]
  /\ allocated = 0
  /\ prices = [s \in Side |-> {}]
  /\ level = [s \in Side |-> [p \in Price |-> EmptyLevel]]
  /\ lookup = [id \in OrderId |-> Null]
  /\ pc = "idle"
  /\ event = NoEvent
  /\ residual = 0
  /\ filled = 0
  /\ levelPrice = 0
  /\ cursor = Null
  /\ emitted = <<>>

(* The checks of operator()(add_order_event_t), in their order. *)
Invalid(e) == e.order_id <= 0 \/ e.quantity <= 0 \/ e.price <= 0

InvalidCode(e) ==
  IF e.order_id <= 0 THEN "invalid_order_id"
  ELSE IF e.quantity <= 0 THEN "invalid_quantity" ELSE "invalid_price"

RejectAdd(e) ==
  /\ pc = "idle"
  /\ Invalid(e)
  /\ event' = e
  /\ emitted' = <<REJ(e.order_id, InvalidCode(e))>>
  /\ pc' = "done"
  /\ UNCHANGED <<book, frame>>

(* add_order, fill-or-kill probe failing: nothing is touched. *)
KillFok(e) ==
  /\ pc = "idle"
  /\ ~Invalid(e)
  /\ e.tif = "fok"
  /\ ~fillable_at_limit(e)
  /\ event' = e
  /\ emitted' = <<CAN(e.order_id, 0, e.quantity, "fill_or_kill")>>
  /\ pc' = "done"
  /\ UNCHANGED <<book, frame>>

(* add_order up to the call of match_against.  A resting residue will need *)
(* a node: the bound MaxNodes is applied here, before the handler starts.  *)
BeginMatch(e) ==
  /\ pc = "idle"
  /\ ~Invalid(e)
  /\ e.tif = "fok" => fillable_at_limit(e)
  /\ e.tif = "gtc" => allocated < MaxNodes
  /\ pc' = "ladder"
  /\ event' = e
  /\ residual' = e.quantity
  /\ filled' = 0
  /\ emitted' = <<>>
  /\ UNCHANGED <<book, levelPrice, cursor>>

Opp == opposite_of(event.side)

(* match_against, one turn of its loop: the best level is crossed. *)
EnterLevel ==
  /\ pc = "ladder"
  /\ residual > 0
  /\ \E p \in prices[Opp] :
       /\ IsBest(Opp, p)
       /\ crosses(Opp, event.price, p)
       /\ levelPrice' = p
       /\ cursor' = level[Opp][p].head
  /\ pc' = "level"
  /\ UNCHANGED <<book, event, residual, filled, emitted>>

(* Mutant: the resting quantity always trades in full. *)
Mut_trade_qty == node[cursor].quantity

(* match_level, one turn of its loop; trade_qty is the quantity traded. *)
trade_qty == MinQty(residual, node[cursor].quantity)

(* Mutant: filled_quantity is overwritten instead of accumulated. *)
Mut_Fill ==
  /\ pc = "level"
  /\ cursor # Null
  /\ residual > 0
  /\ residual' = residual - trade_qty
  /\ filled' = trade_qty
  /\ cursor' = node[cursor].next
  /\ UNCHANGED <<allocated, prices, pc, event, levelPrice>>

Fill ==
  /\ pc = "level"
  /\ cursor # Null
  /\ residual > 0
  /\ residual' = residual - trade_qty
  /\ filled' = filled + trade_qty
  /\ cursor' = node[cursor].next
  /\ UNCHANGED <<allocated, prices, pc, event, levelPrice>>

FillRestingWhole ==
  /\ Fill
  /\ trade_qty = node[cursor].quantity
  /\ node' = UnlinkedNodes(cursor)
  /\ level' = [level EXCEPT ![Opp][levelPrice] =
                 Reduced(UnlinkedLevel(@, cursor), trade_qty)]
  /\ lookup' = lookup_erase(node[cursor].order_id)
  /\ emitted' = emitted \o <<TRD(event.order_id, node[cursor].order_id, trade_qty),
                             FIL(node[cursor].order_id, trade_qty)>>

FillRestingPart ==
  /\ Fill
  /\ trade_qty < node[cursor].quantity
  /\ node' = [node EXCEPT ![cursor].quantity = @ - trade_qty]
  /\ level' = [level EXCEPT ![Opp][levelPrice] = Reduced(@, trade_qty)]
  /\ emitted' = emitted \o <<TRD(event.order_id, node[cursor].order_id, trade_qty),
                             RST(node[cursor].order_id, trade_qty,
                                 node[cursor].quantity - trade_qty)>>
  /\ UNCHANGED lookup

(* match_level returns; match_against pops the level if it was drained. *)
LeaveLevel ==
  /\ pc = "level"
  /\ cursor = Null \/ residual = 0
  /\ pc' = "ladder"
  /\ IF Drained(level[Opp][levelPrice])
     THEN /\ prices' = [prices EXCEPT ![Opp] = @ \ {levelPrice}]
          /\ level' = [level EXCEPT ![Opp][levelPrice] = EmptyLevel]
     ELSE UNCHANGED <<prices, level>>
  /\ levelPrice' = 0
  /\ cursor' = Null
  /\ UNCHANGED <<node, allocated, lookup, event, residual, filled, emitted>>

(* match_against returns: the order is flat, or the ladder is empty, or its *)
(* best level does not cross.                                               *)
MatchDone ==
  /\ pc = "ladder"
  /\ \/ residual = 0
     \/ prices[Opp] = {}
     \/ \E p \in prices[Opp] : IsBest(Opp, p) /\ ~crosses(Opp, event.price, p)

(* What add_order does after match_against; emits ev and ends the handler. *)
Finish(ev) ==
  /\ pc' = "done"
  /\ emitted' = Append(emitted, ev)
  /\ residual' = 0
  /\ filled' = 0
  /\ UNCHANGED <<event, levelPrice, cursor>>

FinishFilled ==
  /\ MatchDone
  /\ residual = 0
  /\ Finish(FIL(event.order_id, filled))
  /\ UNCHANGED book

(* rest_order succeeds. *)
FinishResting ==
  /\ MatchDone
  /\ residual > 0
  /\ event.tif = "gtc"
  /\ lookup[event.order_id] = Null
  /\ allocated' = allocated + 1
  /\ lookup' = [lookup EXCEPT ![event.order_id] = allocated + 1]
  /\ append(allocated + 1, allocate_resting_node(event, residual))
  /\ Finish(RST(event.order_id, filled, residual))

(* rest_order finds the id taken; the node it allocated is dead memory. *)
FinishDuplicate ==
  /\ MatchDone
  /\ residual > 0
  /\ event.tif = "gtc"
  /\ lookup[event.order_id] # Null
  /\ allocated' = allocated + 1
  /\ Finish(REJ(event.order_id, "duplicate_order_id"))
  /\ UNCHANGED <<node, prices, level, lookup>>

FinishCancelled ==
  /\ MatchDone
  /\ residual > 0
  /\ event.tif # "gtc"
  /\ Finish(CAN(event.order_id, filled, residual,
                IF event.tif = "ioc" THEN "immediate_or_cancel" ELSE "fill_or_kill"))
  /\ UNCHANGED book

(* operator()(cancel_order_event_t). *)
Cancellable(id) == lookup[id] # Null /\ node[lookup[id]].active

RejectCancel(e) ==
  /\ pc = "idle"
  /\ e.order_id <= 0 \/ ~Cancellable(e.order_id)
  /\ event' = e
  /\ emitted' = <<REJ(e.order_id, IF e.order_id <= 0 THEN "invalid_order_id"
                                  ELSE "unknown_order_id")>>
  /\ pc' = "done"
  /\ UNCHANGED <<book, frame>>

CancelResting(e) ==
  /\ pc = "idle"
  /\ e.order_id > 0
  /\ Cancellable(e.order_id)
  /\ detach(lookup[e.order_id])
  /\ lookup' = lookup_erase(e.order_id)
  /\ event' = e
  /\ emitted' = <<CAN(e.order_id, 0, node[lookup[e.order_id]].quantity,
                      "user_request")>>
  /\ pc' = "done"
  /\ UNCHANGED <<allocated, frame>>

(* The handler returns and the caller moves on from this input. *)
Return ==
  /\ pc = "done"
  /\ pc' = "idle"
  /\ event' = NoEvent
  /\ emitted' = <<>>
  /\ UNCHANGED <<book, frame>>

(* book(e): the handler of input e begins. *)
BookBegin(e) ==
  \/ e.type = "add" /\ (RejectAdd(e) \/ KillFok(e) \/ BeginMatch(e))
  \/ e.type = "cancel" /\ (RejectCancel(e) \/ CancelResting(e))

Next ==
  \/ \E e \in AddEvent : RejectAdd(e) \/ KillFok(e) \/ BeginMatch(e)
  \/ \E e \in CancelEvent : RejectCancel(e) \/ CancelResting(e)
  \/ EnterLevel
  \/ FillRestingWhole
  \/ FillRestingPart
  \/ LeaveLevel
  \/ FinishFilled
  \/ FinishResting
  \/ FinishDuplicate
  \/ FinishCancelled
  \/ Return

Spec == Init /\ [][Next]_vars

(* The matcher thread keeps executing a handler it has started. *)
HandlerStep ==
  \/ EnterLevel \/ FillRestingWhole \/ FillRestingPart \/ LeaveLevel
  \/ FinishFilled \/ FinishResting \/ FinishDuplicate \/ FinishCancelled
  \/ Return

FairSpec == Spec /\ WF_vars(HandlerStep)

------------------------------------------------------------------------------
(* Values of the types declared in the code; an add handler in progress works *)
(* on a validated add, never over-fills it (order_book.hpp:469 takes a        *)
(* minimum), and has a node left for its residue.                             *)
TypeOK ==
  /\ node \in [Addr -> Node]
  /\ allocated \in 0 .. MaxNodes
  /\ prices \in [Side -> SUBSET Price]
  /\ level \in [Side -> [Price -> Level]]
  /\ lookup \in [OrderId -> Pointer]
  /\ pc \in {"idle", "ladder", "level", "done"}
  /\ event \in AddEvent \cup CancelEvent \cup {NoEvent}
  /\ residual \in Nat
  /\ filled \in Nat
  /\ levelPrice \in Price \cup {0}
  /\ cursor \in Pointer
  /\ emitted \in Seq(OutputEvent)
  /\ pc \in {"ladder", "level"} =>
       /\ event \in AddEvent
       /\ ~Invalid(event)
       /\ event.tif = "gtc" => allocated < MaxNodes
  /\ pc = "level" => levelPrice \in Price
  /\ pc = "done" => event \in AddEvent \cup CancelEvent

(* No resting bid reaches a resting ask, between handlers and at every step *)
(* inside one: match_against (order_book.hpp:433) exhausts every crossed    *)
(* level before rest_order may add to the own side.                         *)
BookNotCrossed ==
  \A b \in prices["buy"], a \in prices["sell"] : b < a

(* The active nodes of a price, those a walk of its list should visit. *)
Live(s, p) ==
  {n \in Addr : node[n].active /\ node[n].side = s /\ node[n].price = p}

Draining(s, p) == pc = "level" /\ s = Opp /\ p = levelPrice

(* a is the neighbour of n in the set L towards smaller (larger) addresses. *)
IsPrev(a, n, L) ==
  IF a = Null THEN \A m \in L : n <= m
  ELSE a \in L /\ a < n /\ \A m \in L : m <= a \/ n <= m
IsNext(a, n, L) ==
  IF a = Null THEN \A m \in L : m <= n
  ELSE a \in L /\ n < a /\ \A m \in L : m <= n \/ a <= m

(* Every active node was allocated for a valid order and has a level. *)
NodesHaveLevels ==
  \A n \in Addr : node[n].active =>
    /\ n <= allocated
    /\ node[n].order_id \in OrderId /\ node[n].order_id > 0
    /\ node[n].quantity > 0
    /\ node[n].price \in prices[node[n].side]

(* A price is on the ladder exactly while orders rest at it: detach and       *)
(* match_against erase a level with its last order, and only match_level may  *)
(* leave one empty until it returns (order_book.hpp:446).                     *)
NoEmptyLevels ==
  \A s \in Side : \A p \in prices[s] : Live(s, p) # {} \/ Draining(s, p)

(* Ladders and nodes agree after every fill and cancel: an active node is     *)
(* reachable through the level of its price, and no level outlives its last   *)
(* order except while match_level drains it (order_book.hpp:446, 137).        *)
LadderMatchesNodes == NodesHaveLevels /\ NoEmptyLevels

(* The list of level l, threaded through nodes, holds exactly L in order. *)
IsFifo(nodes, l, L) ==
  /\ IF l.head = Null THEN L = {} ELSE l.head \in L /\ \A m \in L : l.head <= m
  /\ IF l.tail = Null THEN L = {} ELSE l.tail \in L /\ \A m \in L : m <= l.tail
  /\ \A n \in L : IsPrev(nodes[n].prev, n, L) /\ IsNext(nodes[n].next, n, L)

(* The doubly linked list of a price holds exactly its active nodes in order  *)
(* of arrival (arena addresses grow), whatever appends, detaches from the     *)
(* middle and retirements have been made on it (order_book.hpp:91-139, 492).  *)
ListsAreFifo ==
  \A s \in Side, p \in Price : IsFifo(node, level[s][p], Live(s, p))

(* lookup_ maps exactly the ids of active nodes, each to its own node: no id  *)
(* rests twice and no entry dangles after a fill, a cancel or a duplicate.    *)
LookupExact ==
  /\ \A n \in Addr : node[n].active => lookup[node[n].order_id] = n
  /\ \A id \in OrderId : lookup[id] # Null =>
       node[lookup[id]].active /\ node[lookup[id]].order_id = id

(* match_level works on the best, crossed level; its saved cursor is the head *)
(* of what is left and never a retired node (the assert of order_book.hpp:466). *)
CursorOnLiveHead ==
  pc = "level" =>
    /\ IsBest(Opp, levelPrice)
    /\ crosses(Opp, event.price, levelPrice)
    /\ residual > 0 => cursor = level[Opp][levelPrice].head
    /\ cursor # Null => node[cursor].active

Quantities == [n \in Addr |-> node[n].quantity]

(* The running total_quantity of a level is the sum of what rests there, up  *)
(* to the width of quantity_t (order_book.hpp:94, 117, 474): the fill-or-kill *)
(* probe trusts it.                                                           *)
LevelTotalsExact ==
  \A s \in Side, p \in Price :
    level[s][p].total = Wrap(SumOver(Quantities, Live(s, p)))

Trades == {i \in DOMAIN emitted : emitted[i].tag = "TRD"}
TradedQty == SumOver([i \in Trades |-> emitted[i].quantity], Trades)
Last == emitted[Len(emitted)]

(* When its handler is done, the last event emitted for an add is its         *)
(* terminal event ("emit exactly one terminal event for the add",             *)
(* order_book.hpp:264), the trades before it name it as aggressor and sum to  *)
(* the quantity it reports filled, and filled plus rested plus cancelled is   *)
(* what was ordered.                                                          *)
TerminalAccountsForOrder ==
  pc = "done" /\ event.type = "add" =>
    /\ emitted # <<>>
    /\ Last.tag # "TRD" /\ Last.order_id = event.order_id
    /\ \A i \in Trades : emitted[i].order_id = event.order_id
    /\ Last.tag # "REJ" => TradedQty = Last.filled
    /\ Last.tag = "FIL" => Last.filled = event.quantity
    /\ Last.tag = "RST" => Last.filled + Last.resting = event.quantity
    /\ Last.tag = "CAN" => Last.filled + Last.cancelled = event.quantity

(* A fill-or-kill order trades its whole quantity or nothing: the probe of    *)
(* fillable_quantity (order_book.hpp:166) never promises what match_against   *)
(* then fails to find, even when level totals wrap.                           *)
FokAllOrNothing ==
  pc = "done" /\ event.type = "add" /\ event.tif = "fok" =>
    TradedQty \in {0, event.quantity}

(* What really rests at or through the limit of the last order. *)
RestingThroughLimit ==
  SumOver(Quantities, {n \in Addr : /\ node[n].active
                                    /\ node[n].side = Opp
                                    /\ crosses(Opp, event.price, node[n].price)})

(* A fill-or-kill order is killed only when the crossed levels hold less than *)
(* its quantity ("True if crossed levels hold at least incoming.quantity in   *)
(* aggregate", order_book.hpp:409), or hold more than a quantity_t can count: *)
(* the sums of order_book.hpp:94 and 172 then wrap, and it may be killed      *)
(* although enough rests.                                                     *)
FokKilledOnlyIfShort ==
  pc = "done" /\ event.type = "add" /\ event.tif = "fok" /\ Last.tag = "CAN" =>
    RestingThroughLimit < event.quantity \/ RestingThroughLimit > QtyMax

(* A rejected order leaves the book as it was ("order rejected; no state      *)
(* change to the book", output_event.hpp:65): in particular it never traded.  *)
RejectedOrderNeverTraded ==
  pc = "done" /\ event.type = "add" /\ Last.tag = "REJ" => Trades = {}

(* A step of the add handler that takes quantity from a resting node takes it *)
(* from a price inside the limit, and no other active node of that side comes *)
(* first in price, or in time at the same price ("under price-time priority", *)
(* order_book.hpp:236).                                                       *)
Takes(n) ==
  node[n].active /\ (~node'[n].active \/ node'[n].quantity < node[n].quantity)

PriceTimeStep ==
  \A n \in Addr : Takes(n) /\ event'.type = "add" =>
    /\ node[n].side = opposite_of(event'.side)
    /\ crosses(node[n].side, event'.price, node[n].price)
    /\ \A m \in Addr :
         node[m].active /\ node[m].side = node[n].side /\ m # n =>
           \/ Better(node[n].side, node[n].price, node[m].price)
           \/ node[n].price = node[m].price /\ n < m

PriceTimePriority == [][PriceTimeStep]_vars

(* Every add handler that starts returns: each turn of match_against's loop   *)
(* removes a level or finishes the order (order_book.hpp:435-449).            *)
HandlerTerminates == pc # "idle" ~> pc = "idle"
==============================================================================

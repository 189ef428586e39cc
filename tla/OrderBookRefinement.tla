------------------------- MODULE OrderBookRefinement -------------------------
(***************************************************************************)
(* clob_t implements the price-time book: forget the lists, the ladders,   *)
(* the lookup and the level totals, and read the resting orders off the    *)
(* active nodes, an address serving as the ticket.                         *)
(***************************************************************************)
EXTENDS OrderBook

Order(n) ==
  [ticket |-> n, order_id |-> node[n].order_id, side |-> node[n].side,
   price |-> node[n].price, quantity |-> node[n].quantity]

RestingOrders == {Order(n) : n \in {m \in Addr : node[m].active}}

Abstract == INSTANCE PriceTimeBook WITH
  resting <- RestingOrders,
  issued <- allocated,
  phase <- IF pc \in {"ladder", "level"} THEN "matching" ELSE pc,
  serving <- event,
  left <- residual,
  answers <- emitted

(* Every handler of clob_t, step by step, does what the price-time book does: *)
(* the same trades in the same order for the same quantities, the same        *)
(* terminal event, and the same orders left resting (order_book.hpp:265-511). *)
ImplementsPriceTimeBook == Abstract!absSpec
==============================================================================

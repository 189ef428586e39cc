---------------------------- MODULE MessageTypes ----------------------------
(***************************************************************************)
(* The vocabulary of include/matching/message_types.hpp, input_event.hpp   *)
(* and output_event.hpp: what travels between parser, book and formatter.  *)
(***************************************************************************)
EXTENDS Integers

CONSTANTS OrderId,   \* order ids that occur in the input, valid or not
          Price,     \* limit prices that occur in the input, valid or not
          Quantity   \* quantities that occur in the input, valid or not

ASSUME MessageAssumption ==
  OrderId \subseteq Int /\ Price \subseteq Int /\ Quantity \subseteq Int

Side == {"buy", "sell"}
Tif == {"gtc", "ioc", "fok"}

opposite_of(s) == IF s = "buy" THEN "sell" ELSE "buy"

AddEvent ==
  [type: {"add"}, order_id: OrderId, side: Side, quantity: Quantity,
   price: Price, tif: Tif]
CancelEvent == [type: {"cancel"}, order_id: OrderId]
NoEvent == [type |-> "none"]      \* no input is being handled

(* The alternatives of output_event_t that a book emits. *)
TRD(a, r, q)    == [tag |-> "TRD", order_id |-> a, resting_id |-> r, quantity |-> q]
RST(id, f, r)   == [tag |-> "RST", order_id |-> id, filled |-> f, resting |-> r]
FIL(id, f)      == [tag |-> "FIL", order_id |-> id, filled |-> f]
CAN(id, f, c, cause) ==
  [tag |-> "CAN", order_id |-> id, filled |-> f, cancelled |-> c, cause |-> cause]
REJ(id, code)   == [tag |-> "REJ", order_id |-> id, code |-> code]

OutputEvent ==
  [tag: {"TRD"}, order_id: Int, resting_id: Int, quantity: Int]
    \cup [tag: {"RST"}, order_id: Int, filled: Int, resting: Int]
    \cup [tag: {"FIL"}, order_id: Int, filled: Int]
    \cup [tag: {"CAN"}, order_id: Int, filled: Int, cancelled: Int,
          cause: {"user_request", "immediate_or_cancel", "fill_or_kill"}]
    \cup [tag: {"REJ"}, order_id: Int,
          code: {"duplicate_order_id", "unknown_order_id", "invalid_quantity",
                 "invalid_price", "invalid_order_id"}]
==============================================================================

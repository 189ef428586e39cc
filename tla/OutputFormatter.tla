--------------------------- MODULE OutputFormatter ---------------------------
(***************************************************************************)
(* output_formatter_t of include/matching/output_formatter.hpp: one line   *)
(* per output event.  A line is the sequence of its comma-separated        *)
(* fields.                                                                 *)
(***************************************************************************)
EXTENDS MessageTypes, Sequences

reject_code_token(code) ==
  CASE code = "duplicate_order_id" -> "DUP"
    [] code = "unknown_order_id"   -> "UNK"
    [] code = "invalid_quantity"   -> "IQT"
    [] code = "invalid_price"      -> "IPR"
    [] code = "invalid_order_id"   -> "IID"

cancel_cause_token(cause) ==
  CASE cause = "user_request"        -> "USR"
    [] cause = "immediate_or_cancel" -> "IOC"
    [] cause = "fill_or_kill"        -> "FOK"

(* Mutant: the cancelled quantity is printed before the filled one. *)
Mut_Format(ev) ==
  CASE ev.tag = "TRD" -> <<"TRD", ev.order_id, ev.resting_id, ev.quantity>>
    [] ev.tag = "RST" -> <<"RST", ev.order_id, ev.filled, ev.resting>>
    [] ev.tag = "FIL" -> <<"FIL", ev.order_id, ev.filled>>
    [] ev.tag = "CAN" -> <<"CAN", ev.order_id, ev.cancelled, ev.filled,
                           cancel_cause_token(ev.cause)>>
    [] ev.tag = "REJ" -> <<"REJ", ev.order_id, reject_code_token(ev.code)>>

(* operator() of each alternative. *)
Format(ev) ==
  CASE ev.tag = "TRD" -> <<"TRD", ev.order_id, ev.resting_id, ev.quantity>>
    [] ev.tag = "RST" -> <<"RST", ev.order_id, ev.filled, ev.resting>>
    [] ev.tag = "FIL" -> <<"FIL", ev.order_id, ev.filled>>
    [] ev.tag = "CAN" -> <<"CAN", ev.order_id, ev.filled, ev.cancelled,
                           cancel_cause_token(ev.cause)>>
    [] ev.tag = "REJ" -> <<"REJ", ev.order_id, reject_code_token(ev.code)>>

(* What a consumer understands who reads a line by the output grammar of the *)
(* help text (matching_engine_config.hpp:43-49) and the encodings of         *)
(* output_event.hpp:18-23 and 34-37.                                         *)
ReadBack(line) ==
  CASE line[1] = "TRD" -> TRD(line[2], line[3], line[4])
    [] line[1] = "RST" -> RST(line[2], line[3], line[4])
    [] line[1] = "FIL" -> FIL(line[2], line[3])
    [] line[1] = "CAN" ->
         CAN(line[2], line[3], line[4],
             [USR |-> "user_request", IOC |-> "immediate_or_cancel",
              FOK |-> "fill_or_kill"][line[5]])
    [] line[1] = "REJ" ->
         REJ(line[2],
             [DUP |-> "duplicate_order_id", UNK |-> "unknown_order_id",
              IQT |-> "invalid_quantity", IPR |-> "invalid_price",
              IID |-> "invalid_order_id"][line[3]])
==============================================================================

------------------------------ MODULE MCPipeline ------------------------------
(* Inputs of the Pipeline runs: between them three lines make orders rest, be *)
(* filled whole and in part, be cancelled, be duplicates and be unknown.      *)
EXTENDS Pipeline

Add(id, s, q, p, t) ==
  [type |-> "add", order_id |-> id, side |-> s, quantity |-> q, price |-> p,
   tif |-> t]

MCInputs ==
  {Add(1, "sell", 1, 1, "gtc"), Add(2, "sell", 2, 1, "gtc"),
   Add(3, "buy", 2, 1, "ioc"), [type |-> "cancel", order_id |-> 1]}
==============================================================================

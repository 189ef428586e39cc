---------------------------- MODULE MCInputParser ----------------------------
(* Lines of up to eight fields, each field right, missing or wrong. *)
EXTENDS InputParser

MCFieldAt ==
  <<{"ADD", "CXL", "add", "", "#"}, {"7", "0", "x", ""}, {"BUY", "SLL", "B", ""},
    {"7", "0", "x", ""}, {"7", "x", ""}, {"GTC", "IOC", "FOK", "D", ""}, {"x", ""}, {""}>>

MCFromChars == [t \in {"7", "0"} |-> IF t = "7" THEN 7 ELSE 0]
==============================================================================

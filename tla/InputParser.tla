----------------------------- MODULE InputParser -----------------------------
(***************************************************************************)
(* parse_line and parse_stream of include/matching/input_parser.hpp.       *)
(*                                                                         *)
(* A line is the sequence of its comma-separated fields, each trimmed (the *)
(* code trims the line and every field it takes); Blank is the empty       *)
(* field.  The rest of a line is the empty string both when no field is    *)
(* left and when one empty field is left.  "#" is any field that starts    *)
(* with '#'.                                                               *)
(***************************************************************************)
EXTENDS MessageTypes, Sequences

CONSTANTS FieldAt,     \* what may stand at each position of a line
          from_chars   \* the fields that are whole int64 literals, and their values

Blank == ""            \* an empty string_view

ASSUME ParserAssumption ==
  /\ FieldAt \in Seq(SUBSET STRING)
  /\ \A t \in DOMAIN from_chars :
       /\ t # Blank
       /\ from_chars[t] \in OrderId \cap Price \cap Quantity

VARIABLES line,     \* fields of the line getline is reading
          parsed,   \* the line parse_line was just given, <<>> while reading
          result    \* what parse_line returned for it

vars == <<line, parsed, result>>

Result(status, cause, e) == [status |-> status, cause |-> cause, event |-> e]
Ok(e) == Result("ok", "none", e)
Skipped == Result("skipped", "none", NoEvent)
Error(cause) == Result("error", cause, NoEvent)

(* next_field: the field taken, and the cursor after it. *)
next_field(cursor) == IF cursor = <<>> THEN Blank ELSE Head(cursor)
After(cursor, n) == SubSeq(cursor, n + 1, Len(cursor))

(* Mutant: one more field passes for the end of the line. *)
Mut_empty(cursor) == Len(cursor) <= 1

(* cursor.empty() *)
empty(cursor) == cursor = <<>> \/ cursor = <<Blank>>

IsInt(t) == t \in DOMAIN from_chars                  \* parse_int has a value

parse_side_token == [t \in {"BUY", "SLL"} |-> IF t = "BUY" THEN "buy" ELSE "sell"]
parse_tif_token ==
  [t \in {"GTC", "IOC", "FOK"} |->
     CASE t = "GTC" -> "gtc" [] t = "IOC" -> "ioc" [] t = "FOK" -> "fok"]

(* Field number n of the line, Blank past its end. *)
Taken(fields, n) == next_field(After(fields, n - 1))

ParseAdd(fields) ==
  LET id   == Taken(fields, 2)
      side == Taken(fields, 3)
      qty  == Taken(fields, 4)
      px   == Taken(fields, 5)
      tif  == Taken(fields, 6)
  IN  CASE \/ ~IsInt(id) \/ ~IsInt(qty) \/ ~IsInt(px)
           \/ tif = Blank \/ ~empty(After(fields, 6))        -> Error("shape")
        [] OTHER ->
             IF side \notin DOMAIN parse_side_token THEN Error("side")
             ELSE IF tif \notin DOMAIN parse_tif_token THEN Error("tif")
             ELSE Ok([type |-> "add", order_id |-> from_chars[id],
                      side |-> parse_side_token[side],
                      quantity |-> from_chars[qty], price |-> from_chars[px],
                      tif |-> parse_tif_token[tif]])

ParseCancel(fields) ==
  LET id == Taken(fields, 2)
  IN  IF IsInt(id) /\ empty(After(fields, 2))
      THEN Ok([type |-> "cancel", order_id |-> from_chars[id]])
      ELSE Error("shape")

parse_line(fields) ==
  CASE empty(fields) \/ fields[1] = "#"   -> Skipped
    [] Taken(fields, 1) = "ADD"           -> ParseAdd(fields)
    [] Taken(fields, 1) = "CXL"           -> ParseCancel(fields)
    [] OTHER                              -> Error("type")

------------------------------------------------------------------------------
Init == line = <<>> /\ parsed = <<>> /\ result = Skipped

(* Standard input: one more field on the line getline is reading; the locals *)
(* of the loop's last turn are gone.                                         *)
TypeField(t) ==
  /\ line' = Append(line, t)
  /\ parsed' = <<>>
  /\ result' = Skipped

(* getline returns and parse_stream parses the line; a fresh event per line. *)
parse_stream ==
  /\ parsed' = line
  /\ result' = parse_line(line)
  /\ line' = <<>>

Next ==
  \/ /\ Len(line) < Len(FieldAt)
     /\ \E t \in FieldAt[Len(line) + 1] : TypeField(t)
  \/ parse_stream

Spec == Init /\ [][Next]_vars

------------------------------------------------------------------------------
(* The grammar of the help text (matching_engine_config.hpp:40-41), and the   *)
(* event each of its lines denotes.                                           *)
Grammar ==
  {<<"ADD", i, s, q, p, t>> :
     i \in DOMAIN from_chars, s \in {"BUY", "SLL"}, q \in DOMAIN from_chars,
     p \in DOMAIN from_chars, t \in {"GTC", "IOC", "FOK"}}
  \cup {<<"CXL", i>> : i \in DOMAIN from_chars}

Denotes(fields, e) ==
  IF fields[1] = "ADD"
  THEN /\ e.type = "add" /\ e.order_id = from_chars[fields[2]]
       /\ e.side = IF fields[3] = "BUY" THEN "buy" ELSE "sell"
       /\ e.quantity = from_chars[fields[4]] /\ e.price = from_chars[fields[5]]
       /\ <<fields[6], e.tif>> \in {<<"GTC", "gtc">>, <<"IOC", "ioc">>, <<"FOK", "fok">>}
  ELSE e.type = "cancel" /\ e.order_id = from_chars[fields[2]]

WithoutTrailingComma(fields) ==
  IF Len(fields) > 1 /\ fields[Len(fields)] = Blank
  THEN SubSeq(fields, 1, Len(fields) - 1) ELSE fields

(* A line is accepted exactly when it is a line of the grammar, up to one     *)
(* trailing comma, and is then read as the event it denotes: no field is      *)
(* shifted into another's place, dropped or defaulted (input_parser.hpp:108). *)
AcceptsTheGrammar ==
  LET l == WithoutTrailingComma(parsed)
  IN  /\ result.status = "ok" <=> l \in Grammar
      /\ result.status = "ok" => Denotes(l, result.event)

(* The parser validates the field count ("tag, field count, integer/side/TIF  *)
(* tokens", input_parser.hpp:94): an accepted line has no field too many.     *)
FieldCountIsExact == result.status = "ok" => parsed \in Grammar
==============================================================================

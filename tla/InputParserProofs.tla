--------------------------- MODULE InputParserProofs ---------------------------
(***************************************************************************)
(* Proof about InputParser: for lines of any number of fields, any fields  *)
(* and any set of integer literals, the parser accepts exactly the lines   *)
(* of the documented grammar, up to one trailing comma, and reads each as  *)
(* the event it denotes.                                                   *)
(***************************************************************************)
EXTENDS InputParser, SequenceTheorems, TLAPS

(* The n-th field, and Blank past the end of the line. *)
Field(fields, n) == IF n <= Len(fields) THEN fields[n] ELSE Blank

(* next_field after n - 1 calls of it takes the n-th field. *)
LEMMA TakenIsField ==
  ASSUME NEW S, NEW fields \in Seq(S), NEW n \in Nat \ {0}
  PROVE  Taken(fields, n) = Field(fields, n)
<1> DEFINE s == SubSeq(fields, n, Len(fields))
<1>1. Len(fields) \in Nat /\ Taken(fields, n) = next_field(s)
  BY LenProperties DEF Taken, After
<1>2. CASE n <= Len(fields)
  <2>1. s \in Seq(S) /\ Len(s) = Len(fields) - n + 1 /\ s[1] = fields[n]
    BY <1>1, <1>2, SubSeqProperties
  <2> HIDE DEF s
  <2>2. s # <<>>
    BY <1>1, <1>2, <2>1, EmptySeq
  <2>3. Head(s) = s[1]
    BY <2>1, <2>2, HeadTailProperties
  <2> QED BY <1>1, <1>2, <2>1, <2>2, <2>3 DEF next_field, Field
<1>3. CASE ~(n <= Len(fields))
  <2>1. s = <<>>
    BY <1>1, <1>3, SubSeqProperties
  <2> QED BY <1>1, <1>3, <2>1 DEF next_field, Field
<1> QED BY <1>2, <1>3

(* The rest of the line is empty after n fields: there are no more, or one    *)
(* empty one.                                                                 *)
LEMMA EmptyRest ==
  ASSUME NEW S, NEW fields \in Seq(S), NEW n \in Nat
  PROVE  empty(After(fields, n)) <=>
           Len(fields) <= n \/ (Len(fields) = n + 1 /\ fields[n + 1] = Blank)
<1> DEFINE s == SubSeq(fields, n + 1, Len(fields))
<1>1. Len(fields) \in Nat /\ After(fields, n) = s
  BY LenProperties DEF After
<1>2. CASE n + 1 <= Len(fields)
  <2>1. s \in Seq(S) /\ Len(s) = Len(fields) - n /\ s[1] = fields[n + 1]
    BY <1>1, <1>2, SubSeqProperties
  <2> HIDE DEF s
  <2>2. s # <<>>
    BY <1>1, <1>2, <2>1, EmptySeq
  <2>3. s = <<Blank>> <=> Len(s) = 1 /\ s[1] = Blank
    <3>1. s = <<Blank>> => Len(s) = 1 /\ s[1] = Blank
      OBVIOUS
    <3>2. ASSUME Len(s) = 1, s[1] = Blank PROVE s = <<Blank>>
      <4>1. s \in Seq(S) /\ Len(s) = 1
        BY <2>1, <3>2
      <4>2. s = <<s[1]>>
        BY <4>1
      <4> QED BY <3>2, <4>2
    <3> QED BY <3>1, <3>2
  <2> QED BY <1>1, <1>2, <2>1, <2>2, <2>3 DEF empty
<1>3. CASE ~(n + 1 <= Len(fields))
  <2>1. s = <<>>
    BY <1>1, <1>3, SubSeqProperties
  <2> QED BY <1>1, <1>3, <2>1 DEF empty
<1> QED BY <1>2, <1>3

IsAdd(l) ==
  /\ Len(l) = 6 /\ l[1] = "ADD" /\ IsInt(l[2]) /\ l[3] \in {"BUY", "SLL"}
  /\ IsInt(l[4]) /\ IsInt(l[5]) /\ l[6] \in {"GTC", "IOC", "FOK"}
IsCancel(l) == Len(l) = 2 /\ l[1] = "CXL" /\ IsInt(l[2])

(* The two kinds of lines of the grammar, field by field. *)
LEMMA GrammarFields ==
  ASSUME NEW S, NEW l \in Seq(S)
  PROVE  l \in Grammar <=> IsAdd(l) \/ IsCancel(l)
<1>1. ASSUME l \in Grammar PROVE IsAdd(l) \/ IsCancel(l)
  <2>1. ASSUME NEW i \in DOMAIN from_chars, NEW s \in {"BUY", "SLL"}, NEW q \in DOMAIN from_chars,
               NEW p \in DOMAIN from_chars, NEW t \in {"GTC", "IOC", "FOK"},
               l = <<"ADD", i, s, q, p, t>>
        PROVE  IsAdd(l)
    BY <2>1 DEF IsAdd, IsInt
  <2>2. ASSUME NEW i \in DOMAIN from_chars, l = <<"CXL", i>> PROVE IsCancel(l)
    BY <2>2 DEF IsCancel, IsInt
  <2> QED BY <1>1, <2>1, <2>2 DEF Grammar
<1>2. ASSUME IsAdd(l) PROVE l \in Grammar
  <2> DEFINE m == <<l[1], l[2], l[3], l[4], l[5], l[6]>>
  <2>1. Len(l) = 6 /\ DOMAIN l = 1 .. 6
    BY <1>2, LenProperties DEF IsAdd
  <2>2. \A i \in 1 .. 6 : l[i] \in S
    BY <2>1, ElementOfSeq
  <2>3. m \in Seq(S) /\ Len(m) = 6 /\ m[1] = l[1] /\ m[2] = l[2] /\ m[3] = l[3]
        /\ m[4] = l[4] /\ m[5] = l[5] /\ m[6] = l[6]
    BY <2>2
  <2> HIDE DEF m
  <2>4. \A i \in 1 .. 6 : l[i] = m[i]
    BY <2>3
  <2>5. l = m
    BY <2>1, <2>3, <2>4, SeqEqual
  <2> QED BY <1>2, <2>5 DEF IsAdd, IsInt, Grammar, m
<1>3. ASSUME IsCancel(l) PROVE l \in Grammar
  <2> DEFINE m == <<l[1], l[2]>>
  <2>1. Len(l) = 2
    BY <1>3 DEF IsCancel
  <2>2. \A i \in 1 .. 2 : l[i] \in S
    BY <2>1, ElementOfSeq
  <2>3. m \in Seq(S) /\ Len(m) = 2 /\ m[1] = l[1] /\ m[2] = l[2]
    BY <2>2
  <2> HIDE DEF m
  <2>4. \A i \in 1 .. 2 : l[i] = m[i]
    BY <2>3
  <2>5. l = m
    BY <2>1, <2>3, <2>4, SeqEqual
  <2> QED BY <1>3, <2>5 DEF IsCancel, IsInt, Grammar, m
<1> QED BY <1>1, <1>2, <1>3

(* A trailing comma is one more, empty field. *)
LEMMA TrailingComma ==
  ASSUME NEW S, NEW fields \in Seq(S)
  PROVE  LET l == WithoutTrailingComma(fields)
         IN  /\ l \in Seq(S) /\ Len(l) \in Nat /\ Len(fields) \in Nat
             /\ \A i \in 1 .. Len(l) : l[i] = fields[i]
             /\ \/ Len(l) = Len(fields) /\ (Len(l) > 1 => fields[Len(l)] # Blank)
                \/ Len(l) >= 1 /\ Len(fields) = Len(l) + 1 /\ fields[Len(l) + 1] = Blank
<1> DEFINE n == Len(fields)
<1>1. n \in Nat
  BY LenProperties
<1>2. CASE n > 1 /\ fields[n] = Blank
  <2> DEFINE s == SubSeq(fields, 1, n - 1)
  <2>1. s \in Seq(S) /\ Len(s) = n - 1 /\ \A i \in 1 .. n - 1 : s[i] = fields[i]
    BY <1>1, <1>2, SubSeqProperties
  <2>2. WithoutTrailingComma(fields) = s
    BY <1>2 DEF WithoutTrailingComma
  <2> HIDE DEF s
  <2> QED BY <1>1, <1>2, <2>1, <2>2
<1>3. CASE ~(n > 1 /\ fields[n] = Blank)
  <2>1. WithoutTrailingComma(fields) = fields
    BY <1>3 DEF WithoutTrailingComma
  <2> QED BY <1>1, <1>3, <2>1
<1> QED BY <1>2, <1>3

(* The tokens of the grammar are not empty. *)
LEMMA Tokens == Blank \notin {"GTC", "IOC", "FOK"} /\ Blank # "ADD" /\ Blank # "CXL"
BY Zenon DEF Blank

LEMMA Statuses ==
  /\ Skipped.status # "ok"
  /\ \A e : Ok(e).status = "ok" /\ Ok(e).event = e
  /\ \A c : Error(c).status # "ok"
BY DEF Skipped, Ok, Error, Result

AddFrom(id, side, qty, px, tif) ==
  [type |-> "add", order_id |-> from_chars[id], side |-> parse_side_token[side],
   quantity |-> from_chars[qty], price |-> from_chars[px], tif |-> parse_tif_token[tif]]

(* The ADD branch accepts a line by its fields 2 to 6 and its length. *)
LEMMA AddBranch ==
  ASSUME NEW S, NEW fields \in Seq(S)
  PROVE  LET id == Field(fields, 2)  side == Field(fields, 3)  qty == Field(fields, 4)
             px == Field(fields, 5)  tif == Field(fields, 6)
             good == /\ IsInt(id) /\ side \in {"BUY", "SLL"} /\ IsInt(qty) /\ IsInt(px)
                     /\ tif \in {"GTC", "IOC", "FOK"} /\ empty(After(fields, 6))
         IN  /\ ParseAdd(fields).status = "ok" <=> good
             /\ good => ParseAdd(fields).event = AddFrom(id, side, qty, px, tif)
<1> DEFINE id == Field(fields, 2)
           side == Field(fields, 3)
           qty == Field(fields, 4)
           px == Field(fields, 5)
           tif == Field(fields, 6)
           rest == empty(After(fields, 6))
<1>1. /\ Taken(fields, 2) = id /\ Taken(fields, 3) = side /\ Taken(fields, 4) = qty
      /\ Taken(fields, 5) = px /\ Taken(fields, 6) = tif
  BY TakenIsField
<1>2. DOMAIN parse_side_token = {"BUY", "SLL"} /\ DOMAIN parse_tif_token = {"GTC", "IOC", "FOK"}
  BY DEF parse_side_token, parse_tif_token
<1> HIDE DEF id, side, qty, px, tif, rest
<1>3. ParseAdd(fields) =
        IF \/ ~IsInt(id) \/ ~IsInt(qty) \/ ~IsInt(px) \/ tif = Blank \/ ~rest
        THEN Error("shape")
        ELSE IF side \notin {"BUY", "SLL"} THEN Error("side")
        ELSE IF tif \notin {"GTC", "IOC", "FOK"} THEN Error("tif")
        ELSE Ok(AddFrom(id, side, qty, px, tif))
  BY <1>1, <1>2 DEF ParseAdd, AddFrom, rest
<1>4. CASE \/ ~IsInt(id) \/ ~IsInt(qty) \/ ~IsInt(px) \/ tif = Blank \/ ~rest
  <2>1. ParseAdd(fields) = Error("shape")
    BY <1>3, <1>4
  <2> QED BY <1>4, <2>1, Statuses, Tokens DEF id, side, qty, px, tif, rest
<1>5. CASE ~(\/ ~IsInt(id) \/ ~IsInt(qty) \/ ~IsInt(px) \/ tif = Blank \/ ~rest)
  <2>1. CASE side \notin {"BUY", "SLL"}
    <3>1. ParseAdd(fields) = Error("side")
      BY <1>3, <1>5, <2>1
    <3> QED BY <2>1, <3>1, Statuses DEF id, side, qty, px, tif, rest
  <2>2. CASE side \in {"BUY", "SLL"} /\ tif \notin {"GTC", "IOC", "FOK"}
    <3>1. ParseAdd(fields) = Error("tif")
      BY <1>3, <1>5, <2>2
    <3> QED BY <2>2, <3>1, Statuses DEF id, side, qty, px, tif, rest
  <2>3. CASE side \in {"BUY", "SLL"} /\ tif \in {"GTC", "IOC", "FOK"}
    <3>1. ParseAdd(fields) = Ok(AddFrom(id, side, qty, px, tif))
      BY <1>3, <1>5, <2>3
    <3> QED BY <1>5, <2>3, <3>1, Statuses DEF id, side, qty, px, tif, rest
  <2> QED BY <2>1, <2>2, <2>3
<1> QED BY <1>4, <1>5

(* The CXL branch accepts a line by its second field and its length. *)
LEMMA CancelBranch ==
  ASSUME NEW S, NEW fields \in Seq(S)
  PROVE  LET id == Field(fields, 2)
             good == IsInt(id) /\ empty(After(fields, 2))
         IN  /\ ParseCancel(fields).status = "ok" <=> good
             /\ good => ParseCancel(fields).event =
                          [type |-> "cancel", order_id |-> from_chars[id]]
<1>1. Taken(fields, 2) = Field(fields, 2)
  BY TakenIsField
<1> QED BY <1>1, Statuses DEF ParseCancel

(* The event of an ADD line is the one it denotes. *)
LEMMA AddDenotes ==
  ASSUME NEW l, IsAdd(l)
  PROVE  Denotes(l, AddFrom(l[2], l[3], l[4], l[5], l[6]))
<1> DEFINE e == AddFrom(l[2], l[3], l[4], l[5], l[6])
<1>1. /\ e.type = "add" /\ e.order_id = from_chars[l[2]] /\ e.side = parse_side_token[l[3]]
      /\ e.quantity = from_chars[l[4]] /\ e.price = from_chars[l[5]]
      /\ e.tif = parse_tif_token[l[6]]
  BY DEF AddFrom
<1> HIDE DEF e
<1>2. parse_side_token[l[3]] = IF l[3] = "BUY" THEN "buy" ELSE "sell"
  BY DEF IsAdd, parse_side_token
<1>3. <<l[6], parse_tif_token[l[6]]>> \in {<<"GTC", "gtc">>, <<"IOC", "ioc">>, <<"FOK", "fok">>}
  BY DEF IsAdd, parse_tif_token
<1>4. Denotes(l, e)
  BY <1>1, <1>2, <1>3 DEF Denotes, IsAdd
<1> QED BY <1>4 DEF e

(* Fields after the n-th are refused, but for a trailing comma. *)
LEMMA ExactLength ==
  ASSUME NEW S, NEW fields \in Seq(S), NEW n \in Nat, n >= 2
  PROVE  LET l == WithoutTrailingComma(fields)
         IN  /\ Field(fields, n) # Blank /\ empty(After(fields, n)) => Len(l) = n
             /\ Len(l) = n => /\ empty(After(fields, n))
                              /\ \A i \in 1 .. n : Field(fields, i) = l[i]
<1> DEFINE l == WithoutTrailingComma(fields)
<1>1. /\ Len(l) \in Nat /\ Len(fields) \in Nat
      /\ \A i \in 1 .. Len(l) : l[i] = fields[i]
      /\ \/ Len(l) = Len(fields) /\ (Len(l) > 1 => fields[Len(l)] # Blank)
         \/ Len(l) >= 1 /\ Len(fields) = Len(l) + 1 /\ fields[Len(l) + 1] = Blank
  BY TrailingComma
<1>2. empty(After(fields, n)) <=>
        Len(fields) <= n \/ (Len(fields) = n + 1 /\ fields[n + 1] = Blank)
  BY EmptyRest
<1> HIDE DEF l
<1>3. ASSUME Field(fields, n) # Blank, empty(After(fields, n)) PROVE Len(l) = n
  <2>1. n <= Len(fields) /\ fields[n] # Blank
    BY <1>3 DEF Field
  <2>2. Len(fields) = n \/ (Len(fields) = n + 1 /\ fields[n + 1] = Blank)
    BY <1>1, <1>2, <1>3, <2>1
  <2>3. CASE Len(fields) = n
    <3>1. Len(fields) # Len(l) + 1 \/ fields[Len(l) + 1] # Blank
      BY <2>1, <2>3
    <3> QED BY <1>1, <2>3, <3>1
  <2>4. CASE Len(fields) = n + 1 /\ fields[n + 1] = Blank
    <3>1. Len(l) # n + 1
      BY <1>1, <2>4
    <3> QED BY <1>1, <2>4, <3>1
  <2> QED BY <2>2, <2>3, <2>4
<1>4. ASSUME Len(l) = n
      PROVE  empty(After(fields, n)) /\ \A i \in 1 .. n : Field(fields, i) = l[i]
  <2>1. Len(fields) >= n
    BY <1>1, <1>4
  <2>2. empty(After(fields, n))
    BY <1>1, <1>2, <1>4
  <2> QED BY <1>1, <1>4, <2>1, <2>2 DEF Field
<1> QED BY <1>3, <1>4 DEF l

(* parse_line on any line. *)
LEMMA LineRead ==
  ASSUME NEW S, NEW fields \in Seq(S)
  PROVE  LET l == WithoutTrailingComma(fields)
             r == parse_line(fields)
         IN  /\ r.status = "ok" <=> l \in Grammar
             /\ r.status = "ok" => Denotes(l, r.event)
<1> DEFINE l == WithoutTrailingComma(fields)
           r == parse_line(fields)
<1>1. /\ l \in Seq(S) /\ Len(l) \in Nat /\ Len(fields) \in Nat /\ Len(l) <= Len(fields)
      /\ \A i \in 1 .. Len(l) : l[i] = fields[i]
  BY TrailingComma
<1>2. l \in Grammar <=> IsAdd(l) \/ IsCancel(l)
  BY <1>1, GrammarFields
<1>3. Taken(fields, 1) = Field(fields, 1)
  BY TakenIsField
<1>4. empty(fields) <=> Len(fields) <= 0 \/ (Len(fields) = 1 /\ fields[1] = Blank)
  <2>1. After(fields, 0) = fields
    BY SubSeqFull DEF After
  <2> QED BY <2>1, EmptyRest
<1>5. r = CASE empty(fields) \/ fields[1] = "#" -> Skipped
            [] Field(fields, 1) = "ADD"         -> ParseAdd(fields)
            [] Field(fields, 1) = "CXL"         -> ParseCancel(fields)
            [] OTHER                            -> Error("type")
  BY <1>3 DEF parse_line
<1>6. l \in Grammar => /\ Len(l) >= 2 /\ l[1] = fields[1] /\ Field(fields, 1) = l[1]
                       /\ l[1] \in {"ADD", "CXL"}
  BY <1>1, <1>2 DEF IsAdd, IsCancel, Field
<1> HIDE DEF r
<1>7. CASE empty(fields) \/ fields[1] = "#"
  <2>1. CASE empty(fields)
    <3>1. Field(fields, 1) = Blank
      BY <1>1, <1>4, <2>1 DEF Field
    <3>2. r = Skipped
      BY <1>5, <2>1, <3>1, Tokens
    <3>3. l \notin Grammar
      BY <1>1, <1>4, <1>6, <2>1
    <3> QED BY <3>2, <3>3, Statuses DEF r
  <2>2. CASE fields[1] = "#" /\ ~empty(fields)
    <3>1. 1 <= Len(fields)
      BY <1>1, <1>4, <2>2
    <3>2. Field(fields, 1) = "#"
      BY <2>2, <3>1 DEF Field
    <3>3. r = Skipped
      BY <1>5, <2>2, <3>2
    <3>4. l \notin Grammar
      BY <1>6, <2>2
    <3> QED BY <3>3, <3>4, Statuses DEF r
  <2> QED BY <1>7, <2>1, <2>2
<1>8. CASE ~(empty(fields) \/ fields[1] = "#") /\ Field(fields, 1) = "ADD"
  <2> DEFINE good == /\ IsInt(Field(fields, 2)) /\ Field(fields, 3) \in {"BUY", "SLL"}
                     /\ IsInt(Field(fields, 4)) /\ IsInt(Field(fields, 5))
                     /\ Field(fields, 6) \in {"GTC", "IOC", "FOK"} /\ empty(After(fields, 6))
             e == AddFrom(Field(fields, 2), Field(fields, 3), Field(fields, 4),
                          Field(fields, 5), Field(fields, 6))
  <2>1. r = ParseAdd(fields)
    BY <1>5, <1>8
  <2>2. (r.status = "ok" <=> good) /\ (good => r.event = e)
    BY <2>1, AddBranch
  <2>3. ASSUME good PROVE Len(l) = 6
    <3>1. Field(fields, 6) # Blank
      BY <2>3, Tokens
    <3>2. empty(After(fields, 6)) /\ 6 \in Nat /\ 6 >= 2
      BY <2>3
    <3> QED BY <3>1, <3>2, ExactLength, Zenon DEF l
  <2>4. ASSUME Len(l) = 6 PROVE /\ empty(After(fields, 6)) /\ \A i \in 1 .. 6 : Field(fields, i) = l[i]
    <3>1. 6 \in Nat /\ 6 >= 2
      OBVIOUS
    <3> QED BY <2>4, <3>1, ExactLength, Zenon DEF l
  <2>5. good <=> IsAdd(l)
    BY <1>8, <2>3, <2>4 DEF IsAdd
  <2>6. ~IsCancel(l)
    BY <1>6, <1>2, <1>8 DEF IsCancel
  <2>7. good => e = AddFrom(l[2], l[3], l[4], l[5], l[6])
    BY <2>3, <2>4
  <2>8. good => Denotes(l, r.event)
    BY <2>2, <2>5, <2>7, AddDenotes
  <2> QED BY <1>2, <2>2, <2>5, <2>6, <2>8 DEF r
<1>9. CASE ~(empty(fields) \/ fields[1] = "#") /\ Field(fields, 1) = "CXL"
  <2> DEFINE good == IsInt(Field(fields, 2)) /\ empty(After(fields, 2))
             e == [type |-> "cancel", order_id |-> from_chars[Field(fields, 2)]]
  <2>1. r = ParseCancel(fields)
    BY <1>5, <1>9
  <2>2. (r.status = "ok" <=> good) /\ (good => r.event = e)
    BY <2>1, CancelBranch
  <2>3. ASSUME good PROVE Len(l) = 2
    <3>1. Field(fields, 2) # Blank
      BY <2>3, ParserAssumption DEF IsInt
    <3>2. empty(After(fields, 2)) /\ 2 \in Nat /\ 2 >= 2
      BY <2>3
    <3> QED BY <3>1, <3>2, ExactLength, Zenon DEF l
  <2>4. ASSUME Len(l) = 2 PROVE /\ empty(After(fields, 2)) /\ \A i \in 1 .. 2 : Field(fields, i) = l[i]
    <3>1. 2 \in Nat /\ 2 >= 2
      OBVIOUS
    <3> QED BY <2>4, <3>1, ExactLength, Zenon DEF l
  <2>5. good <=> IsCancel(l)
    BY <1>9, <2>3, <2>4 DEF IsCancel
  <2>6. ~IsAdd(l)
    BY <1>6, <1>2, <1>9 DEF IsAdd
  <2>7. good => e = [type |-> "cancel", order_id |-> from_chars[l[2]]] /\ l[1] = "CXL"
    BY <1>9, <2>3, <2>4
  <2>8. good => Denotes(l, r.event)
    BY <2>2, <2>7 DEF Denotes
  <2> QED BY <1>2, <2>2, <2>5, <2>6, <2>8 DEF r
<1>10. CASE ~(empty(fields) \/ fields[1] = "#") /\ Field(fields, 1) \notin {"ADD", "CXL"}
  <2>1. r = Error("type")
    BY <1>5, <1>10
  <2>2. l \notin Grammar
    BY <1>6, <1>10
  <2> QED BY <2>1, <2>2, Statuses DEF r
<1> QED BY <1>7, <1>8, <1>9, <1>10

(* What was read so far, and the result of the last line. *)
Read ==
  /\ line \in Seq(STRING) /\ parsed \in Seq(STRING)
  /\ result = parse_line(parsed)

(* A line without a field is skipped. *)
LEMMA NothingRead == parse_line(<<>>) = Skipped
<1>1. empty(<<>>) /\ Taken(<<>>, 1) = Blank
  BY EmptySeq, SubSeqProperties DEF empty, Taken, After, next_field
<1> QED BY <1>1, Tokens DEF parse_line

LEMMA ReadInit == Init => Read
BY NothingRead, EmptySeq DEF Init, Read

LEMMA ReadNext == Read /\ [Next]_vars => Read'
<1> SUFFICES ASSUME Read, [Next]_vars PROVE Read'
  OBVIOUS
<1>1. ASSUME Len(line) < Len(FieldAt), NEW t \in FieldAt[Len(line) + 1], TypeField(t) PROVE Read'
  <2>1. t \in STRING
    <3>1. Len(line) + 1 \in 1 .. Len(FieldAt)
      BY <1>1, ParserAssumption, LenProperties DEF Read
    <3>2. FieldAt[Len(line) + 1] \in SUBSET STRING
      BY <3>1, ParserAssumption, ElementOfSeq
    <3> QED BY <3>2
  <2>2. line' \in Seq(STRING)
    BY <1>1, <2>1, AppendProperties DEF Read, TypeField
  <2>3. parsed' = <<>> /\ result' = Skipped
    BY <1>1 DEF TypeField
  <2> QED BY <2>2, <2>3, NothingRead, EmptySeq DEF Read
<1>2. CASE parse_stream
  BY <1>2, EmptySeq DEF parse_stream, Read
<1>3. CASE UNCHANGED vars
  BY <1>3 DEF vars, Read
<1> QED BY <1>1, <1>2, <1>3 DEF Next

(* The parser accepts the documented grammar and nothing else, whatever is on *)
(* standard input, and mistakes no field for another (input_parser.hpp:97-144). *)
THEOREM ParserAcceptsGrammar == Spec => []AcceptsTheGrammar
<1>1. Read => AcceptsTheGrammar
  BY LineRead DEF Read, AcceptsTheGrammar
<1> QED BY <1>1, ReadInit, ReadNext, PTL DEF Spec
==============================================================================

---------------------------- MODULE PriceTimeBook ----------------------------
(***************************************************************************)
(* What a single-symbol limit order book with price-time priority promises, *)
(* with no lists, ladders or lookup: a set of resting orders, each holding  *)
(* a ticket that orders arrivals, and an order being matched against them.  *)
(***************************************************************************)
EXTENDS MessageTypes, Sequences, Sums

CONSTANT QtyMax       \* the largest quantity that can be counted

VARIABLES resting,    \* set of [ticket, order_id, side, price, quantity]
          issued,     \* tickets issued so far
          phase,      \* "idle", "matching" or "done"
          serving,    \* the input being served
          left,       \* its quantity not yet matched
          answers     \* events emitted for it

absVars == <<resting, issued, phase, serving, left, answers>>

Acceptable(e) == e.order_id > 0 /\ e.quantity > 0 /\ e.price > 0

(* r is on the other side of e at a price e accepts. *)
Matches(r, e) ==
  /\ r.side = opposite_of(e.side)
  /\ IF e.side = "buy" THEN r.price <= e.price ELSE r.price >= e.price

(* r goes before q, an order of the same side. *)
Precedes(r, q) ==
  \/ IF r.side = "buy" THEN r.price > q.price ELSE r.price < q.price
  \/ r.price = q.price /\ r.ticket < q.ticket

Candidates(e) == {r \in resting : Matches(r, e)}
Supply(e) == SumOver([r \in Candidates(e) |-> r.quantity], Candidates(e))
Taken(id) == \E r \in resting : r.order_id = id

absInit ==
  /\ resting = {}
  /\ issued = 0
  /\ phase = "idle"
  /\ serving = NoEvent
  /\ left = 0
  /\ answers = <<>>

Answer(e, ev) ==
  /\ phase = "idle"
  /\ phase' = "done"
  /\ serving' = e
  /\ answers' = <<ev>>
  /\ UNCHANGED <<issued, left>>

Refuse(e) ==
  /\ ~Acceptable(e)
  /\ \E code \in {"invalid_order_id", "invalid_quantity", "invalid_price"} :
       Answer(e, REJ(e.order_id, code))
  /\ UNCHANGED resting

(* Killed for want of supply; a supply too large to be counted is no promise. *)
Kill(e) ==
  /\ Acceptable(e)
  /\ e.tif = "fok"
  /\ Supply(e) < e.quantity \/ Supply(e) > QtyMax
  /\ Answer(e, CAN(e.order_id, 0, e.quantity, "fill_or_kill"))
  /\ UNCHANGED resting

Accept(e) ==
  /\ phase = "idle"
  /\ Acceptable(e)
  /\ e.tif = "fok" => Supply(e) >= e.quantity
  /\ phase' = "matching"
  /\ serving' = e
  /\ left' = e.quantity
  /\ answers' = <<>>
  /\ UNCHANGED <<resting, issued>>

(* The first candidate in price-time order trades what both sides have. *)
Trade ==
  /\ phase = "matching"
  /\ left > 0
  /\ \E r \in Candidates(serving) :
       LET q == IF left < r.quantity THEN left ELSE r.quantity
           kept == [r EXCEPT !.quantity = @ - q]
       IN  /\ \A c \in Candidates(serving) \ {r} : Precedes(r, c)
           /\ resting' = (resting \ {r}) \cup (IF kept.quantity = 0 THEN {} ELSE {kept})
           /\ left' = left - q
           /\ answers' = answers \o
                <<TRD(serving.order_id, r.order_id, q),
                  IF kept.quantity = 0 THEN FIL(r.order_id, q)
                  ELSE RST(r.order_id, q, kept.quantity)>>
  /\ UNCHANGED <<issued, phase, serving>>

(* Nothing left to match: the order is answered once, and rests if it may. *)
Settle ==
  LET e == serving
      done == e.quantity - left
  IN  /\ phase = "matching"
      /\ left = 0 \/ Candidates(e) = {}
      /\ phase' = "done"
      /\ left' = 0
      /\ UNCHANGED serving
      /\ \/ /\ left = 0
            /\ answers' = Append(answers, FIL(e.order_id, done))
            /\ UNCHANGED <<resting, issued>>
         \/ /\ left > 0 /\ e.tif = "ioc"
            /\ answers' = Append(answers, CAN(e.order_id, done, left, "immediate_or_cancel"))
            /\ UNCHANGED <<resting, issued>>
         \/ /\ left > 0 /\ e.tif = "gtc"
            /\ issued' = issued + 1
            /\ IF Taken(e.order_id)
               THEN /\ answers' = Append(answers, REJ(e.order_id, "duplicate_order_id"))
                    /\ UNCHANGED resting
               ELSE /\ answers' = Append(answers, RST(e.order_id, done, left))
                    /\ resting' = resting \cup
                         {[ticket |-> issued + 1, order_id |-> e.order_id,
                           side |-> e.side, price |-> e.price, quantity |-> left]}

Withdraw(e) ==
  \/ \E r \in resting :
       /\ r.order_id = e.order_id
       /\ resting' = resting \ {r}
       /\ Answer(e, CAN(e.order_id, 0, r.quantity, "user_request"))
  \/ /\ ~Taken(e.order_id)
     /\ Answer(e, REJ(e.order_id, IF e.order_id <= 0 THEN "invalid_order_id"
                                  ELSE "unknown_order_id"))
     /\ UNCHANGED resting

Move == 
  /\ phase = "done"
  /\ phase' = "idle"
  /\ serving' = NoEvent
  /\ answers' = <<>>
  /\ UNCHANGED <<resting, issued, left>>

absNext ==
  \/ \E e \in AddEvent : Refuse(e) \/ Kill(e) \/ Accept(e)
  \/ \E e \in CancelEvent : Withdraw(e)
  \/ Trade
  \/ Settle
  \/ Move

absSpec == absInit /\ [][absNext]_absVars
==============================================================================

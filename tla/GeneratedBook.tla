----------------------------- MODULE GeneratedBook -----------------------------
(***************************************************************************)
(* A generated stream on a book with its memory, as in the loops of        *)
(* test/test_order_generator.cpp, and as pre_generate and the matcher of   *)
(* include/matching/benchmark/benchmark.hpp do it in two stages: the       *)
(* generator never looks at the book, so that nothing depends on how far   *)
(* ahead of it the generator is.                                           *)
(***************************************************************************)
EXTENDS OrderBook, OrderGenerator, BookMemory

ASSUME StreamAssumption == \A p \in Profiles : p.num_orders <= MaxNodes

VARIABLE fates    \* history: <<id, tag>> of the terminal events of finished handlers

allVars == <<vars, genVars, memVars, fates>>

generatedInit == Init /\ genInit /\ memInit /\ fates = {}

Generated == last_order_id + Cardinality(cancelled)

(* events.emplace_back(gen.next()) and book(event); what is drawn is bounded  *)
(* by the ids, prices and quantities of the book's model.                     *)
FeedAdd(e) ==
  /\ Generated < profile.num_orders
  /\ e \in AddEvent
  /\ next_add(e)
  /\ BookBegin(e)
  /\ UNCHANGED <<memVars, fates>>

FeedCancel(i) ==
  /\ Generated < profile.num_orders
  /\ next_cancel(i)
  /\ BookBegin(CancelAt(i))
  /\ UNCHANGED <<memVars, fates>>

Ended(evs) ==
  {<<evs[k].order_id, evs[k].tag>> : k \in {j \in DOMAIN evs : evs[j].tag # "TRD"}}

(* The rest of the handler; rest_order allocates a node. *)
Handle ==
  /\ HandlerStep
  /\ IF allocated' = allocated THEN UNCHANGED memVars ELSE Allocate
  /\ fates' = IF pc = "done" THEN fates \cup Ended(emitted) ELSE fates
  /\ UNCHANGED genVars

StreamOver == pc = "idle" /\ Generated = profile.num_orders /\ UNCHANGED allVars

generatedNext ==
  \/ \E e \in NextAdds : FeedAdd(e)
  \/ \E i \in sample_cancel_index : FeedCancel(i)
  \/ Handle
  \/ StreamOver

generatedSpec == generatedInit /\ [][generatedNext]_allVars

------------------------------------------------------------------------------
LiveIds == {live[i].id : i \in DOMAIN live}

Fate(id) ==
  {t \in {"FIL", "CAN"} : <<id, t>> \in fates}
    \cup (IF lookup[id] # Null THEN {"resting"} ELSE {})

(* Generator and book never lose track of an order, although live_ never      *)
(* learns of fills (order_generator.hpp:53-55, 71): each id issued rests, was *)
(* filled or was cancelled, one of the three; live_ holds each id not yet     *)
(* cancelled once, and every order that rests under its side and price; the   *)
(* book refuses only cancels of orders filled before, and such a cancel is    *)
(* never tried again.                                                         *)
EveryOrderHasOneFate ==
  pc = "idle" =>
    /\ \A id \in 1 .. last_order_id : Cardinality(Fate(id)) = 1
    /\ LiveIds = (1 .. last_order_id) \ cancelled /\ Len(live) = Cardinality(LiveIds)
    /\ \A i \in DOMAIN live :
         LET n == lookup[live[i].id]
         IN  n # Null => node[n].side = live[i].side /\ node[n].price = live[i].price
    /\ \A id \in cancelled :
         Fate(id) = {"CAN"} \/ {<<id, "FIL">>, <<id, "REJ">>} \subseteq fates
    /\ \A f \in fates : f[2] = "REJ" => f[1] \in cancelled
==============================================================================

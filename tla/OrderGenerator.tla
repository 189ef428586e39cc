---------------------------- MODULE OrderGenerator ----------------------------
(***************************************************************************)
(* order_generator_t of include/matching/benchmark/order_generator.hpp.    *)
(*                                                                         *)
(* The random numbers are nondeterministic choices: the mid price, the     *)
(* heat, the depth, the side, the quantity and the index of a cancel.  The *)
(* probabilities, which only weigh these choices, are left out.  A price   *)
(* is rounded before it is snapped, so the mid is taken as rounded and a   *)
(* passive depth as any whole distance.  The command line does not bound   *)
(* initial_mid, mu and sigma, so a mid may also be no such number: Wild.   *)
(***************************************************************************)
EXTENDS MessageTypes, Sequences

CONSTANTS Profiles,   \* market_profile_t values, presets and overridden ones
          MaxDepth,   \* bound: depth_ticks drawn
          Longs       \* what std::lround may return when its result is unspecified

(* exp(log_mid_) when it is NaN (an initial_mid below zero), infinite, or so  *)
(* large that doubles there do not hold every half.                           *)
Wild == -1

ASSUME GeneratorAssumption ==
  /\ Profiles \subseteq
       [num_orders: Nat, mids: SUBSET (Nat \cup {Wild}), tick_size: Int, base_half_spread_ticks: Int,
        spread_asym_ticks: Int, hot_half_spread_extra_ticks: Int,
        qty_min: Int, qty_max: Int]
  /\ MaxDepth \in Nat \ {0}
  /\ Longs \subseteq Int

VARIABLES
  profile,         \* profile_, fixed; mids are the rounded mid prices that the
                   \* walk of initial_mid, mu and sigma visits, Wild included
  last_order_id,
  live,            \* live_: [id, side, price] of orders not yet cancelled
  cancelled        \* history: ids for which a cancel was generated

genVars == <<profile, last_order_id, live, cancelled>>

Larger(a, b) == IF a < b THEN b ELSE a

tick == Larger(profile.tick_size, 1)

(* Rounded extra ticks of the half spread, by the heat. *)
HotExtra == 0 .. Larger(profile.hot_half_spread_extra_ticks, 0)

(* Mutant: a skewed spread is not kept at one tick at least. *)
Mut_bid_ask_half_width_price(hot) ==
  LET base == Larger(profile.base_half_spread_ticks, 1) * tick
      asym == profile.spread_asym_ticks * tick
  IN  [bid |-> base + asym + hot * tick, ask |-> base - asym + hot * tick]

bid_ask_half_width_price(hot) ==
  LET base == Larger(profile.base_half_spread_ticks, 1) * tick
      asym == profile.spread_asym_ticks * tick
  IN  [bid |-> Larger(base + asym, tick) + hot * tick,
       ask |-> Larger(base - asym, tick) + hot * tick]

(* The values of std::lround(mid + offset): one, unless the mid is wild. *)
lround(mid, offset) == IF mid = Wild THEN Longs ELSE {mid + offset}

(* snap_to_tick once its argument is rounded. *)
SnapRounded(rounded) == (Larger(rounded, tick) \div tick) * tick

snap_to_tick(mid, offset) == {SnapRounded(rounded) : rounded \in lround(mid, offset)}

current_best_bid(mid, hot) == snap_to_tick(mid, -bid_ask_half_width_price(hot).bid)
current_best_ask(mid, hot) == snap_to_tick(mid, bid_ask_half_width_price(hot).ask)

(* geometric_tail_ticks times the tick size: whole ticks, at least one, for an *)
(* aggressive order; any distance, rounded, for a passive one.  The tick size  *)
(* is the profile's own here, so that it may be zero or negative.              *)
Depths(aggressive) ==
  LET t == profile.tick_size
  IN  IF aggressive THEN {n * t : n \in 1 .. MaxDepth}
      ELSE IF t < 0 THEN MaxDepth * t .. 0 ELSE 0 .. MaxDepth * t

(* The prices of one draw: one, unless the mid is wild. *)
sample_price(side, mid, hot, aggressive, depth) ==
  LET w == bid_ask_half_width_price(hot)
  IN  snap_to_tick(mid, IF (side = "buy") = aggressive THEN w.ask + depth
                                                       ELSE -(w.bid + depth))

(* All prices and quantities that may be drawn.  std::clamp with its bounds   *)
(* the wrong way round is undefined: either bound.                            *)
SampledPrices(side) ==
  UNION {UNION {sample_price(side, mid, hot, a, d) : d \in Depths(a)} :
           mid \in profile.mids, hot \in HotExtra, a \in BOOLEAN}

(* Either side: buy_bias and the side before only weigh the choice. *)
sample_side == Side

sample_quantity ==
  {Larger(q, 1) : q \in IF profile.qty_min <= profile.qty_max
                        THEN profile.qty_min .. profile.qty_max
                        ELSE {profile.qty_min, profile.qty_max}}

NextAdds ==
  UNION {[type: {"add"}, order_id: {last_order_id + 1}, side: {s},
          quantity: sample_quantity, price: SampledPrices(s), tif: {"gtc"}] :
            s \in sample_side}

------------------------------------------------------------------------------
genInit ==
  /\ profile \in Profiles
  /\ last_order_id = 0
  /\ live = <<>>
  /\ cancelled = {}

(* next() returning the add e, one of NextAdds. *)
next_add(e) ==
  /\ last_order_id' = e.order_id
  /\ live' = Append(live, [id |-> e.order_id, side |-> e.side, price |-> e.price])
  /\ UNCHANGED <<profile, cancelled>>

(* Mutant: the back is popped without taking the place of the one drawn. *)
Mut_Removed(i) == SubSeq(live, 1, Len(live) - 1)

(* live_ with its i-th entry overwritten by the last, and the last popped. *)
Removed(i) == SubSeq([live EXCEPT ![i] = live[Len(live)]], 1, Len(live) - 1)

(* Any index: depth and rate only weigh the choice. *)
sample_cancel_index == DOMAIN live

(* next() returning a cancel of the order at index i. *)
next_cancel(i) ==
  /\ i \in sample_cancel_index
  /\ live' = Removed(i)
  /\ cancelled' = cancelled \cup {live[i].id}
  /\ UNCHANGED <<profile, last_order_id>>

CancelAt(i) == [type |-> "cancel", order_id |-> live[i].id]

------------------------------------------------------------------------------
(* Whatever is drawn, the book will not refuse the order: its quantity and    *)
(* its price are positive, the price on the tick grid.  With a mid that is a  *)
(* number and a tick size that is not negative, passive orders do not improve *)
(* on their own touch, aggressive ones reach the far touch and pass it by a   *)
(* tick at least unless the tick size is zero or the price is the lowest      *)
(* there is; and the touch itself is not crossed while the mid is at least a  *)
(* tick ("aggressive Adds cross the far touch", order_generator.hpp:24; skew  *)
(* 111-126, clamp 132).  Nothing is said of the sides when the mid is wild:   *)
(* where lround then gives the least long, all quotes and both touches are    *)
(* one tick, and no aggressive order passes its touch.  The draws depend on   *)
(* the profile alone, so the first order stands for all.                      *)
QuotesRespectTouch ==
  last_order_id = 0 =>
    /\ \A q \in sample_quantity : q > 0
    /\ \A s \in Side : \A px \in SampledPrices(s) : px > 0 /\ px % tick = 0
    /\ \A mid \in profile.mids \ {Wild}, hot \in HotExtra :
         \A bid \in current_best_bid(mid, hot), ask \in current_best_ask(mid, hot) :
           /\ mid >= tick => bid < ask
           /\ profile.tick_size >= 0 =>
                \A s \in Side, a \in BOOLEAN : \A d \in Depths(a) :
                  \A px \in sample_price(s, mid, hot, a, d) :
                    CASE s = "buy" /\ ~a  -> px <= bid
                      [] s = "sell" /\ ~a -> px >= ask
                      [] s = "buy" /\ a   -> px >= ask + profile.tick_size
                      [] s = "sell" /\ a  ->
                           px <= Larger(bid - profile.tick_size, tick)
==============================================================================

--------------------------- MODULE MCGeneratedBook ---------------------------
(* One profile replayed on the book, and overridden ones whose draws alone    *)
(* are checked: ticks of 0, 2, 3 and -2, a skew wider than the spread, hot    *)
(* spreads, and quantity bounds that are negative or the wrong way round, all *)
(* of them with mids that may be wild.                                        *)
EXTENDS GeneratedBook

Preset ==
  [num_orders |-> 5, mids |-> {2, Wild}, tick_size |-> 1, base_half_spread_ticks |-> 1,
   spread_asym_ticks |-> 0, hot_half_spread_extra_ticks |-> 0,
   qty_min |-> 1, qty_max |-> 2]

Odd(t, base, asym, hot, lo, hi) ==
  [num_orders |-> 0, mids |-> 0 .. 8 \cup {Wild}, tick_size |-> t,
   base_half_spread_ticks |-> base, spread_asym_ticks |-> asym,
   hot_half_spread_extra_ticks |-> hot,
   qty_min |-> lo, qty_max |-> hi]

(* A long below every tick, as on x86-64, and one on the books' grid. *)
MCLongs == {-9, 4}

MCProfiles ==
  {Preset, Odd(1, 1, 2, 3, 1, 3), Odd(2, 1, 2, 1, -1, 1), Odd(3, 0, -2, -1, 3, 1),
   Odd(0, 1, 0, 1, 0, 0), Odd(-2, 2, 1, 0, 1, 1)}
==============================================================================

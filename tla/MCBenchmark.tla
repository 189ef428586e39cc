---------------------------- MODULE MCBenchmark ----------------------------
(* Five small presets, whose members but two have one value. *)
EXTENDS Benchmark

Preset(n, orders) ==
  [name |-> n] @@ [num_orders |-> orders]
    @@ [m \in {OverriddenMember[f] : f \in OverrideFlags} |-> 10]

MCPresets == <<Preset("quiet", 2), Preset("active", 3), Preset("cancel", 1),
               Preset("volatile", 2), Preset("sweep", 1)>>

(* Trades depend on the event and on the seed of the stream. *)
MCTradesOf(p, i) == (i * p["seed"]) % 4

(* All presets, one of them, an unknown one; every override, of one and of    *)
(* all presets; zero warm-up, iterations and orders; latency off and          *)
(* misspelt; a CPU and a negative one; help, alone and with a bad value; an   *)
(* unknown flag.                                                              *)
MCArgvs ==
  {<<>>,
   [profile |-> "active", orders |-> 5, warmup |-> 1],
   [profile |-> "all", latency_stats |-> "off"],
   [profile |-> "brisk"],
   [orders |-> 1, seed |-> 3, mu |-> 0, sigma |-> 7, warmup |-> 0],
   [profile |-> "quiet", cancel_ratio |-> 1, aggressive_ratio |-> 2, buy_bias |-> 3,
    initial_mid |-> 4, place_decay |-> 5, qty_log_mean |-> 6, qty_log_stddev |-> 7],
   [profile |-> "sweep", tick_size |-> 5, qty_min |-> 2, qty_max |-> 9, iterations |-> 3],
   [iterations |-> 0],
   [profile |-> "cancel", orders |-> 0, latency_stats |-> "1"],
   [latency_stats |-> "maybe"],
   [profile |-> "quiet", producer_cpu |-> 0, stats_cpu |-> 2],
   [profile |-> "quiet", matcher_cpu |-> -1],
   [help |-> 1, stats_cpu |-> -1],
   [help |-> 1, tempo |-> 3]}
============================================================================

--------------------------- MODULE BenchmarkConfig ---------------------------
(***************************************************************************)
(* parse_config of include/app/benchmark_config.hpp: from the flags of a   *)
(* command line to the harness settings and the market profiles to run.    *)
(*                                                                         *)
(* A command line is a function from the flags given to their values.  A   *)
(* market_profile_t is a function from the names of its members to values; *)
(* the members that no flag overrides are left out.  A flag that is not    *)
(* declared stands for everything cxxopts throws on, a value that is not   *)
(* of the declared type included.                                          *)
(***************************************************************************)
EXTENDS Integers, Sequences, SequencesExt, Functions

CONSTANTS Presets,              \* the five presets of market_profile.hpp
          default_warmup, default_iterations   \* of benchmark_config_t

(* Mutant: two overrides are assigned to each other's members. *)
Mut_OverriddenMember ==
  [orders |-> "num_orders", seed |-> "seed", cancel_ratio |-> "cancel_ratio",
   aggressive_ratio |-> "aggressive_ratio", buy_bias |-> "buy_bias", mu |-> "sigma",
   sigma |-> "mu", initial_mid |-> "initial_mid", tick_size |-> "tick_size",
   place_decay |-> "place_decay", qty_log_mean |-> "qty_log_mean",
   qty_log_stddev |-> "qty_log_stddev", qty_min |-> "qty_min", qty_max |-> "qty_max"]

(* The member that the code assigns for each --flag: from the flag to its slot *)
(* in market_profile_overrides_t, and from the slot to the profile's member.   *)
OverriddenMember ==
  [orders |-> "num_orders", seed |-> "seed", cancel_ratio |-> "cancel_ratio",
   aggressive_ratio |-> "aggressive_ratio", buy_bias |-> "buy_bias", mu |-> "mu",
   sigma |-> "sigma", initial_mid |-> "initial_mid", tick_size |-> "tick_size",
   place_decay |-> "place_decay", qty_log_mean |-> "qty_log_mean",
   qty_log_stddev |-> "qty_log_stddev", qty_min |-> "qty_min", qty_max |-> "qty_max"]

OverrideFlags == DOMAIN OverriddenMember
CpuFlags == {"producer_cpu", "matcher_cpu", "stats_cpu"}

build_options ==
  {"help", "profile", "warmup", "iterations", "latency_stats"}
    \cup CpuFlags \cup OverrideFlags

On == {"on", "true", "1"}
Off == {"off", "false", "0"}

(* assign_if_present: the slot keeps its default when the flag is absent. *)
assign_if_present(argv, flag, slot) == IF flag \in DOMAIN argv THEN argv[flag] ELSE slot

(* What makes fill_staging_from_parse throw parse_error. *)
BadValue(argv) ==
  \/ \E f \in CpuFlags \cap DOMAIN argv : argv[f] < 0
  \/ "latency_stats" \in DOMAIN argv /\ argv["latency_stats"] \notin On \cup Off

(* staging_t, by fill_staging_from_parse, when nothing throws. *)
staging(argv) ==
  [profile_selection |-> assign_if_present(argv, "profile", "all"),
   benchmark |->
     [warmup_events   |-> assign_if_present(argv, "warmup", default_warmup),
      iterations      |-> assign_if_present(argv, "iterations", default_iterations),
      collect_latency |-> assign_if_present(argv, "latency_stats", "on") \in On,
      cpus            |-> Restrict(argv, CpuFlags \cap DOMAIN argv)],
   profile_overrides |-> Restrict(argv, OverrideFlags \cap DOMAIN argv)]

(* The members given on the command line. *)
Given(o) ==
  [m \in {OverriddenMember[f] : f \in DOMAIN o} |->
     o[CHOOSE f \in DOMAIN o : OverriddenMember[f] = m]]

merge_staged_overrides(base, o) ==
  [m \in DOMAIN base |-> IF m \in DOMAIN Given(o) THEN Given(o)[m] ELSE base[m]]

(* The presets that --profile picks: all, the first of that name, or none,   *)
(* which is a parse_error.                                                   *)
resolve_presets(pick) ==
  IF pick = "all" THEN Presets
  ELSE LET found == SelectInSeq(Presets, LAMBDA p : p["name"] = pick)
       IN  IF found = 0 THEN <<>> ELSE <<Presets[found]>>

(* The outcome of parse_config: a configuration or what it throws. *)
parse_config(argv) ==
  LET s == staging(argv)
      bases == resolve_presets(s.profile_selection)
  IN  IF ~ (DOMAIN argv \subseteq build_options) THEN [outcome |-> "parse_error"]
      ELSE IF "help" \in DOMAIN argv THEN [outcome |-> "help_requested"]
      ELSE IF BadValue(argv) \/ bases = <<>> THEN [outcome |-> "parse_error"]
      ELSE [outcome |-> "config", benchmark |-> s.benchmark,
            profiles |-> [i \in DOMAIN bases |->
                            merge_staged_overrides(bases[i], s.profile_overrides)]]
==============================================================================

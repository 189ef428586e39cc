------------------------------ MODULE Benchmark ------------------------------
(***************************************************************************)
(* src/benchmark.cpp and run_preset of                                     *)
(* include/matching/benchmark/benchmark.hpp: the command line is parsed,   *)
(* then each profile's generated stream is replayed by producer, matcher   *)
(* and stats threads on a fresh book in each iteration, and the sums and   *)
(* the latency accumulator they fill are reported.                         *)
(*                                                                         *)
(* The events of a stream are numbered.  Generator and book are            *)
(* deterministic: event i of the stream of profile p causes TradesOf(p, i) *)
(* trades on a book that has seen exactly the events before it.  Nobody    *)
(* calls request_stop on the stop_source of an iteration, so its token is  *)
(* never set.  Queues are sequences of at most Room entries.               *)
(***************************************************************************)
EXTENDS BenchmarkConfig, Sums

CONSTANTS Argvs,          \* command lines the program is started with
          TradesOf(_, _), \* trades caused by each event of a profile's stream
          Room,           \* entries a queue holds: queue_capacity_v - 1
          MaxSamples      \* max_samples_v of latency_accumulator_t

(* The counts are of type size_t; the presets are those of resolve_presets,  *)
(* and no two of them have the same name.                                    *)
ASSUME BenchmarkAssumption ==
  /\ default_warmup \in Nat /\ default_iterations \in Nat
  /\ Room \in Nat \ {0} /\ MaxSamples \in Nat \ {0}
  /\ Presets \in Seq(Range(Presets)) /\ Presets # <<>>
  /\ \A k \in DOMAIN Presets :
       "num_orders" \in DOMAIN Presets[k] /\ Presets[k]["num_orders"] \in Nat
  /\ \A j, k \in DOMAIN Presets : Presets[j]["name"] = Presets[k]["name"] => j = k
  /\ \A a \in Argvs : \A f \in {"warmup", "iterations", "orders"} \cap DOMAIN a : a[f] \in Nat

(* Trades are counted. *)
ASSUME TradesAssumption ==
  \A a \in Argvs : LET c == parse_config(a) IN c.outcome = "config" =>
    \A k \in DOMAIN c.profiles :
      \A i \in 1 .. c.benchmark.warmup_events + c.profiles[k]["num_orders"] :
        TradesOf(c.profiles[k], i) \in Nat

Shutdown == 0                              \* shutdown_t, no event's number

VARIABLES
  argv,           \* the command line, fixed
  config,         \* what parse_config returned
  phase,          \* main: "parse", "setup", the thread it joins, "collect", "exited"
  status,         \* what main returns
  at,             \* the profile being run, counted from 1
  remaining,      \* iterations left
  reports,        \* what print_preset_result has printed
  book,           \* events this iteration's book has been given, in order
  trade_counter,  \* written by the matcher through counting_emitter_t
  ppc, produced,  \* producer: "push", "exited"; last event pushed
  order_queue,
  mpc,            \* matcher: "poll", "ping", "forward", "exited"
  stats_queue,    \* ping_t (one is like another: 1) and shutdown_t
  spc,            \* stats thread: "poll", "exited"
  count,          \* latency_accumulator_t: readings added
  samples,        \* and the readings kept, by their number
  total_orders, total_trades

producer == <<ppc, produced>>
matcher == <<book, trade_counter, mpc>>
stats == <<spc, count, samples>>
sums == <<total_orders, total_trades>>
main == <<argv, config, phase, status, at, remaining, reports, sums>>
vars == <<producer, order_queue, matcher, stats_queue, stats, main>>

profile == config.profiles[at]
warmup_events == config.benchmark.warmup_events
num_orders == profile["num_orders"]

(* The events that pre_generate makes.  The code adds in size_t; that the two  *)
(* numbers of the command line add up without wrapping is taken for granted.   *)
Total == warmup_events + num_orders

Ping == 1

Init ==
  /\ argv \in Argvs /\ config = [outcome |-> "none"]
  /\ phase = "parse" /\ status = 0 /\ at = 0 /\ remaining = 0 /\ reports = <<>>
  /\ book = <<>> /\ trade_counter = 0
  /\ ppc = "exited" /\ produced = 0
  /\ order_queue = <<>>
  /\ mpc = "exited"
  /\ stats_queue = <<>>
  /\ spc = "exited" /\ count = 0 /\ samples = <<>>
  /\ total_orders = 0 /\ total_trades = 0

------------------------------------------------------------------------------
(* The head of run_preset, for the n-th profile: sums and accumulator anew. *)
EnterPreset(n) ==
  /\ at' = n
  /\ remaining' = config'.benchmark.iterations
  /\ count' = 0 /\ samples' = <<>>
  /\ total_orders' = 0 /\ total_trades' = 0
  /\ phase' = "setup"

Parse ==
  /\ phase = "parse"
  /\ config' = parse_config(argv)
  /\ config'.outcome = "config"
  /\ EnterPreset(1)
  /\ UNCHANGED <<argv, status, reports, spc, producer, order_queue, matcher, stats_queue>>

(* help_requested and parse_error reach main's handlers. *)
ParseThrows ==
  /\ phase = "parse"
  /\ config' = parse_config(argv)
  /\ config'.outcome # "config"
  /\ status' = IF config'.outcome = "help_requested" THEN 0 ELSE 1
  /\ phase' = "exited"
  /\ UNCHANGED <<argv, at, remaining, reports, sums, producer, order_queue, matcher,
                 stats_queue, stats>>

(* One turn of run_preset's loop up to system.join(): fresh book, warm-up    *)
(* and the counter reset after it, fresh queues, the three agents started on *)
(* the events after the warm-up.                                             *)
StartIteration ==
  /\ phase = "setup"
  /\ remaining # 0
  /\ book' = [i \in 1 .. warmup_events |-> i]
  /\ trade_counter' = 0
  /\ ppc' = "push" /\ produced' = warmup_events
  /\ mpc' = "poll"
  /\ spc' = "poll"
  /\ order_queue' = <<>> /\ stats_queue' = <<>>
  /\ phase' = "stats"
  /\ UNCHANGED <<count, samples, argv, config, status, at, remaining, reports, sums>>

(* Mutant: main goes on as soon as the producer has finished. *)
Mut_Exited(t) == ppc = "exited"

Exited(t) ==
  CASE t = "stats" -> spc = "exited"
    [] t = "matcher" -> mpc = "exited"
    [] t = "producer" -> ppc = "exited"

(* agent_system_t::join, in reverse order of declaration. *)
join ==
  /\ phase \in {"stats", "matcher", "producer"}
  /\ Exited(phase)
  /\ phase' = CASE phase = "stats" -> "matcher"
                [] phase = "matcher" -> "producer"
                [] phase = "producer" -> "collect"
  /\ UNCHANGED <<argv, config, status, at, remaining, reports, sums, producer, order_queue,
                 matcher, stats_queue, stats>>

(* The sums after system.join(). *)
EndIteration ==
  /\ phase = "collect"
  /\ total_orders' = total_orders + num_orders
  /\ total_trades' = total_trades + trade_counter
  /\ remaining' = remaining - 1
  /\ phase' = "setup"
  /\ UNCHANGED <<argv, config, status, at, reports, producer, order_queue, matcher,
                 stats_queue, stats>>

(* What run_preset returns, but for times and latencies. *)
preset_result ==
  [profile |-> profile, orders |-> total_orders, trades |-> total_trades, samples |-> count]

print_preset_result ==
  /\ phase = "setup"
  /\ remaining = 0
  /\ reports' = Append(reports, preset_result)
  /\ UNCHANGED <<argv, config, status, spc, producer, order_queue, matcher, stats_queue>>

NextPreset ==
  /\ print_preset_result
  /\ at < Len(config.profiles)
  /\ EnterPreset(at + 1)

LastPreset ==
  /\ print_preset_result
  /\ at = Len(config.profiles)
  /\ phase' = "exited"
  /\ UNCHANGED <<at, remaining, count, samples, sums>>

------------------------------------------------------------------------------
(* Mutant: the last event is left out. *)
Mut_More == produced < Total - 1

More == produced < Total

ProducerPush ==
  /\ ppc = "push"
  /\ More
  /\ Len(order_queue) < Room
  /\ order_queue' = Append(order_queue, produced + 1)
  /\ produced' = produced + 1
  /\ UNCHANGED <<ppc, matcher, stats_queue, stats, main>>

ProducerSentinel ==
  /\ ppc = "push"
  /\ ~More
  /\ Len(order_queue) < Room
  /\ order_queue' = Append(order_queue, Shutdown)
  /\ ppc' = "exited"
  /\ UNCHANGED <<produced, matcher, stats_queue, stats, main>>

(* matcher_handler_t: the book counts trades; then the reading is sent. *)
MatcherEvent ==
  /\ mpc = "poll"
  /\ order_queue # <<>> /\ Head(order_queue) # Shutdown
  /\ book' = Append(book, Head(order_queue))
  /\ trade_counter' = trade_counter + TradesOf(profile, Head(order_queue))
  /\ order_queue' = Tail(order_queue)
  /\ mpc' = IF config.benchmark.collect_latency THEN "ping" ELSE "poll"
  /\ UNCHANGED <<producer, stats_queue, stats, main>>

MatcherPing ==
  /\ mpc = "ping"
  /\ Len(stats_queue) < Room
  /\ stats_queue' = Append(stats_queue, Ping)
  /\ mpc' = "poll"
  /\ UNCHANGED <<book, trade_counter, producer, order_queue, stats, main>>

MatcherSentinel ==
  /\ mpc = "poll"
  /\ order_queue # <<>> /\ Head(order_queue) = Shutdown
  /\ order_queue' = Tail(order_queue)
  /\ mpc' = "forward"
  /\ UNCHANGED <<book, trade_counter, producer, stats_queue, stats, main>>

(* Mutant: the sentinel is dropped when the queue is full. *)
Mut_forward_shutdown ==
  /\ mpc = "forward"
  /\ stats_queue' = IF Len(stats_queue) < Room THEN Append(stats_queue, Shutdown)
                                               ELSE stats_queue
  /\ mpc' = "exited"
  /\ UNCHANGED <<book, trade_counter, producer, order_queue, stats, main>>

forward_shutdown ==
  /\ mpc = "forward"
  /\ Len(stats_queue) < Room
  /\ stats_queue' = Append(stats_queue, Shutdown)
  /\ mpc' = "exited"
  /\ UNCHANGED <<book, trade_counter, producer, order_queue, stats, main>>

(* Mutant: above the cap a reading that hits no slot is appended. *)
Mut_Kept(n, j) ==
  IF Len(samples) < MaxSamples THEN Append(samples, n)
  ELSE IF j <= MaxSamples THEN [samples EXCEPT ![j] = n]
  ELSE Append(samples, n)

(* The samples kept once reading n arrived; above the cap it replaces the    *)
(* j-th, j drawn from 1 .. n, or none (latency_accumulator_t::add).          *)
Kept(n, j) ==
  IF Len(samples) < MaxSamples THEN Append(samples, n)
  ELSE IF j <= MaxSamples THEN [samples EXCEPT ![j] = n]
  ELSE samples

StatsPing ==
  /\ spc = "poll"
  /\ stats_queue # <<>> /\ Head(stats_queue) # Shutdown
  /\ count' = count + 1
  /\ \E j \in 1 .. count + 1 : samples' = Kept(count + 1, j)
  /\ stats_queue' = Tail(stats_queue)
  /\ UNCHANGED <<spc, producer, order_queue, matcher, main>>

StatsSentinel ==
  /\ spc = "poll"
  /\ stats_queue # <<>> /\ Head(stats_queue) = Shutdown
  /\ stats_queue' = Tail(stats_queue)
  /\ spc' = "exited"
  /\ UNCHANGED <<count, samples, producer, order_queue, matcher, main>>

------------------------------------------------------------------------------
Finished == phase = "exited" /\ UNCHANGED vars

Producer == ProducerPush \/ ProducerSentinel
Matcher == MatcherEvent \/ MatcherPing \/ MatcherSentinel \/ forward_shutdown
Stats == StatsPing \/ StatsSentinel
Main ==
  \/ Parse \/ ParseThrows
  \/ StartIteration \/ join \/ EndIteration
  \/ NextPreset \/ LastPreset

Next == Producer \/ Matcher \/ Stats \/ Main \/ Finished

Spec == Init /\ [][Next]_vars

(* The threads of an iteration and main all keep running. *)
FairSpec ==
  /\ Spec
  /\ WF_vars(Producer) /\ WF_vars(Matcher) /\ WF_vars(Stats) /\ WF_vars(Main)

------------------------------------------------------------------------------
Completed == config.benchmark.iterations - remaining
Measured(p) ==
  LET events == warmup_events + 1 .. warmup_events + p["num_orders"]
  IN  SumOver([i \in events |-> TradesOf(p, i)], events)

(* Each book is given the profile's generated stream, each event once and in  *)
(* order, and the trades summed are those of the measured events, in full,    *)
(* once per iteration: the warm-up is not counted, no event is missed and the *)
(* counter is read only when the matcher is done with it                      *)
(* (benchmark.hpp:223-226, 235, 255-260).                                     *)
TotalsAreExact ==
  /\ phase = "collect" => book = [i \in 1 .. Total |-> i]
  /\ phase = "setup" => /\ total_trades = Completed * Measured(profile)
                        /\ total_orders = Completed * num_orders

(* Every measured event gives exactly one reading and none crosses into the   *)
(* next iteration or preset, although the accumulator outlives the threads    *)
(* (benchmark.hpp:210, 243): the sample count is exact between iterations.    *)
OneReadingPerEvent ==
  phase = "setup" =>
    /\ count = IF config.benchmark.collect_latency THEN Completed * num_orders ELSE 0
    /\ stats_queue = <<>>

(* The samples behind the percentiles are distinct readings, all of them      *)
(* while they fit and exactly MaxSamples after that (statistics.hpp:71-81).   *)
ReservoirIsFaithful ==
  /\ Len(samples) = IF count < MaxSamples THEN count ELSE MaxSamples
  /\ \A i, j \in DOMAIN samples : samples[i] = samples[j] => i = j

(* The flags, read without the program: the presets asked for, each reported  *)
(* in its place in the order of the help text, and the number of timed runs.  *)
Asked ==
  {i \in DOMAIN Presets :
     "profile" \in DOMAIN argv => argv["profile"] \in {"all", Presets[i]["name"]}}

Place(i) == Cardinality({j \in Asked : j <= i})

(* What the help text says each flag overrides (benchmark_config.hpp:57-76): *)
(* --orders the number of orders, the others the member they are named for.  *)
FlagFor(member) == IF member = "num_orders" THEN "orders" ELSE member

Overridable ==
  {"num_orders", "seed", "cancel_ratio", "aggressive_ratio", "buy_bias", "mu", "sigma",
   "initial_mid", "tick_size", "place_decay", "qty_log_mean", "qty_log_stddev",
   "qty_min", "qty_max"}

Meant(r, preset) ==
  \A m \in DOMAIN preset :
    r.profile[m] = IF m \in Overridable /\ FlagFor(m) \in DOMAIN argv
                   THEN argv[FlagFor(m)] ELSE preset[m]

(* The reports are, in order and each once, those of the presets that the     *)
(* command line names, with the members it overrides and no other changed,    *)
(* and with the orders, trades and samples of that many runs; a command line  *)
(* that is refused, or asks for help, runs nothing (benchmark.cpp:42-54,      *)
(* benchmark_config.hpp:244-325).  With no iterations or no orders the        *)
(* reports are there and all zero.                                            *)
ReportsWhatWasAsked ==
  /\ \A k \in DOMAIN reports :
       /\ \E i \in Asked : Place(i) = k /\ Meant(reports[k], Presets[i])
       /\ LET runs == IF "iterations" \in DOMAIN argv THEN argv["iterations"]
                                                     ELSE default_iterations
              quiet == "latency_stats" \in DOMAIN argv /\ argv["latency_stats"] \in Off
          IN  /\ reports[k].orders = runs * reports[k].profile["num_orders"]
              /\ reports[k].trades = runs * Measured(reports[k].profile)
              /\ reports[k].samples = IF quiet THEN 0 ELSE reports[k].orders
  /\ phase = "exited" =>
       \/ reports = <<>> /\ (status = 1 \/ "help" \in DOMAIN argv)
       \/ status = 0 /\ Len(reports) = Cardinality(Asked)

(* The program always ends, whatever the sizes of the queues.                 *)
PresetEnds == <>(phase = "exited")
==============================================================================

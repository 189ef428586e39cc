--------------------------- MODULE BenchmarkProofs ---------------------------
(***************************************************************************)
(* Proofs about Benchmark: the reservoir of the latency accumulator, the   *)
(* sums and readings of the iterations under every interleaving of the     *)
(* producer, matcher and stats threads, and the reports against the        *)
(* command line.                                                           *)
(***************************************************************************)
EXTENDS Benchmark, SumsProofs, SequenceTheorems, TLAPS

(* What a configuration consists of (benchmark_config.hpp:244-325). *)
GoodConfig(c) ==
  /\ c.benchmark.warmup_events \in Nat
  /\ c.benchmark.iterations \in Nat
  /\ c.benchmark.collect_latency \in BOOLEAN
  /\ Len(c.profiles) \in Nat \ {0} /\ DOMAIN c.profiles = 1 .. Len(c.profiles)
  /\ \A k \in DOMAIN c.profiles : c.profiles[k]["num_orders"] \in Nat

(* The overrides of a preset leave it a number of orders. *)
LEMMA Merged ==
  ASSUME NEW a \in Argvs, NEW k \in DOMAIN Presets, NEW o,
         o = Restrict(a, OverrideFlags \cap DOMAIN a)
  PROVE  merge_staged_overrides(Presets[k], o)["num_orders"] \in Nat
<1>1. DOMAIN o = OverrideFlags \cap DOMAIN a /\ \A f \in DOMAIN o : o[f] = a[f]
  BY DEF Restrict
<1>2. "num_orders" \in DOMAIN Presets[k] /\ Presets[k]["num_orders"] \in Nat
  BY BenchmarkAssumption
<1>3. \A f \in OverrideFlags : OverriddenMember[f] = "num_orders" => f = "orders"
  BY DEF OverrideFlags, OverriddenMember
<1>4. CASE "num_orders" \in DOMAIN Given(o)
  <2>1. \E f \in DOMAIN o : OverriddenMember[f] = "num_orders"
    BY <1>4 DEF Given
  <2> DEFINE g == CHOOSE f \in DOMAIN o : OverriddenMember[f] = "num_orders"
  <2>2. g \in DOMAIN o /\ OverriddenMember[g] = "num_orders"
    BY <2>1
  <2>3. g = "orders" /\ "orders" \in DOMAIN a
    BY <1>1, <1>3, <2>2
  <2>4. Given(o)["num_orders"] = o[g]
    BY <1>4 DEF Given
  <2>5. o[g] \in Nat
    BY <1>1, <2>2, <2>3, BenchmarkAssumption
  <2> QED BY <1>2, <1>4, <2>4, <2>5 DEF merge_staged_overrides
<1>5. CASE "num_orders" \notin DOMAIN Given(o)
  BY <1>2, <1>5 DEF merge_staged_overrides
<1> QED BY <1>4, <1>5

(* The presets resolved are presets. *)
LEMMA Resolved ==
  ASSUME NEW pick, resolve_presets(pick) # <<>>
  PROVE  LET b == resolve_presets(pick)
         IN  /\ Len(b) \in Nat \ {0} /\ DOMAIN b = 1 .. Len(b)
             /\ \A i \in DOMAIN b : \E k \in DOMAIN Presets : b[i] = Presets[k]
<1>1. Presets \in Seq(Range(Presets)) /\ Presets # <<>>
  BY BenchmarkAssumption
<1>2. Len(Presets) \in Nat \ {0} /\ DOMAIN Presets = 1 .. Len(Presets)
  BY <1>1
<1>3. CASE pick = "all"
  BY <1>2, <1>3 DEF resolve_presets
<1>4. CASE pick # "all"
  <2> DEFINE I == {i \in 1 .. Len(Presets) : Presets[i]["name"] = pick}
             found == IF I # {} THEN Min(I) ELSE 0
  <2>1. resolve_presets(pick) = IF found = 0 THEN <<>> ELSE <<Presets[found]>>
    BY <1>4, Zenon DEF resolve_presets, SelectInSeq
  <2>2. found # 0 /\ I # {}
    BY <2>1
  <2>3. Min(I) \in I
    <3>1. I \in SUBSET Nat
      BY <1>2
    <3> HIDE DEF I
    <3>2. \E x \in I : \A y \in I : x <= y
      BY <2>2, <3>1, Least
    <3> QED BY <3>2 DEF Min
  <2>4. found \in DOMAIN Presets
    BY <1>2, <2>2, <2>3
  <2> HIDE DEF found
  <2>5. resolve_presets(pick) = <<Presets[found]>>
    BY <2>1, <2>2
  <2> QED BY <2>4, <2>5
<1> QED BY <1>3, <1>4

LEMMA Configured ==
  ASSUME NEW a \in Argvs, parse_config(a).outcome = "config"
  PROVE  GoodConfig(parse_config(a))
<1> DEFINE s == staging(a)
           bases == resolve_presets(s.profile_selection)
           ps == [i \in DOMAIN bases |-> merge_staged_overrides(bases[i], s.profile_overrides)]
           c == [outcome |-> "config", benchmark |-> s.benchmark, profiles |-> ps]
<1>1. parse_config(a) = c /\ bases # <<>>
  BY DEF parse_config
<1>2. /\ s.benchmark.warmup_events = assign_if_present(a, "warmup", default_warmup)
      /\ s.benchmark.iterations = assign_if_present(a, "iterations", default_iterations)
      /\ s.benchmark.collect_latency = (assign_if_present(a, "latency_stats", "on") \in On)
      /\ s.profile_overrides = Restrict(a, OverrideFlags \cap DOMAIN a)
  BY DEF staging
<1>3. s.benchmark.warmup_events \in Nat /\ s.benchmark.iterations \in Nat
  <2> HIDE DEF s
  <2>1. /\ default_warmup \in Nat /\ default_iterations \in Nat
        /\ "warmup" \in DOMAIN a => a["warmup"] \in Nat
        /\ "iterations" \in DOMAIN a => a["iterations"] \in Nat
    BY BenchmarkAssumption
  <2> QED BY <1>2, <2>1 DEF assign_if_present
<1>4. s.benchmark.collect_latency \in BOOLEAN
  BY <1>2
<1> HIDE DEF s
<1>5. /\ Len(bases) \in Nat \ {0} /\ DOMAIN bases = 1 .. Len(bases)
      /\ \A i \in DOMAIN bases : \E k \in DOMAIN Presets : bases[i] = Presets[k]
  BY <1>1, Resolved
<1> HIDE DEF bases
<1>6. \A i \in DOMAIN bases : ps[i]["num_orders"] \in Nat
  BY <1>2, <1>5, Merged
<1>7. Len(ps) = Len(bases) /\ DOMAIN ps = DOMAIN bases
  <2> DEFINE m == Len(bases)
             V == {merge_staged_overrides(bases[i], s.profile_overrides) : i \in 1 .. m}
  <2>1. m \in Nat /\ ps = [i \in 1 .. m |-> ps[i]] /\ \A i \in 1 .. m : ps[i] \in V
    BY <1>5
  <2> HIDE DEF ps, V, m
  <2>2. ps \in Seq(V) /\ Len(ps) = m
    BY <2>1
  <2> QED BY <1>5, <2>1, <2>2 DEF m, ps
<1>8. c.benchmark = s.benchmark /\ c.profiles = ps
  OBVIOUS
<1> HIDE DEF ps, c
<1> QED BY <1>1, <1>3, <1>4, <1>5, <1>6, <1>7, <1>8 DEF GoodConfig

------------------------------------------------------------------------------
(* The samples are distinct readings among those counted. *)
Reservoir ==
  /\ count \in Nat
  /\ samples \in Seq(Nat) /\ \A i \in DOMAIN samples : samples[i] \in 1 .. count
  /\ ReservoirIsFaithful

LEMMA ReservoirEmpty ==
  ASSUME count' = 0, samples' = <<>>
  PROVE  Reservoir'
BY BenchmarkAssumption DEF Reservoir, ReservoirIsFaithful

(* A reading is newer than all that were kept: appended, or put in the place *)
(* of one of them, it keeps them distinct.                                   *)
Distinct(s, c) ==
  /\ \A i \in 1 .. Len(s) : s[i] \in 1 .. c
  /\ \A i, k \in 1 .. Len(s) : s[i] = s[k] => i = k

LEMMA DistinctStep ==
  ASSUME NEW s, NEW t, NEW c \in Nat, NEW j \in 1 .. Len(t), Distinct(s, c),
         Len(s) \in Nat, Len(t) = Len(s) \/ (Len(t) = Len(s) + 1 /\ j = Len(t)),
         \A i \in 1 .. Len(t) : t[i] = IF i = j THEN c + 1 ELSE s[i]
  PROVE  Distinct(t, c + 1)
<1> DEFINE m == Len(s)
           l == Len(t)
<1>1. \A i \in 1 .. l : i # j => i \in 1 .. m
  OBVIOUS
<1>2. \A i \in 1 .. l : i # j => t[i] = s[i] /\ s[i] \in 1 .. c
  BY <1>1 DEF Distinct
<1>3. \A i \in 1 .. l : t[i] \in 1 .. c + 1
  BY <1>2
<1>4. ASSUME NEW i \in 1 .. l, NEW k \in 1 .. l, t[i] = t[k] PROVE i = k
  <2>1. CASE i = j /\ k # j
    BY <1>2, <1>4, <2>1
  <2>2. CASE i # j /\ k = j
    BY <1>2, <1>4, <2>2
  <2>3. CASE i # j /\ k # j
    BY <1>1, <1>2, <1>4, <2>3 DEF Distinct
  <2> QED BY <2>1, <2>2, <2>3
<1> QED BY <1>3, <1>4 DEF Distinct

LEMMA ReservoirForm ==
  Reservoir <=> /\ count \in Nat /\ samples \in Seq(Nat) /\ Distinct(samples, count)
                /\ Len(samples) = IF count < MaxSamples THEN count ELSE MaxSamples
<1>1. samples \in Seq(Nat) => DOMAIN samples = 1 .. Len(samples)
  OBVIOUS
<1> QED BY <1>1, Zenon DEF Reservoir, ReservoirIsFaithful, Distinct

(* The sequence operators, applied once. *)
LEMMA SeqStep ==
  ASSUME NEW q \in Seq(Nat)
  PROVE  /\ Len(q) \in Nat
         /\ q # <<>> => /\ Tail(q) \in Seq(Nat) /\ Len(Tail(q)) = Len(q) - 1 /\ Len(q) >= 1
                        /\ Head(q) = q[1]
                        /\ \A i \in 1 .. Len(q) - 1 : Tail(q)[i] = q[i + 1]
         /\ \A x \in Nat : /\ Append(q, x) \in Seq(Nat) /\ Len(Append(q, x)) = Len(q) + 1
                           /\ Append(q, x)[Len(q) + 1] = x
                           /\ \A i \in 1 .. Len(q) : Append(q, x)[i] = q[i]
         /\ Len(q) = 0 => q = <<>>
OBVIOUS

(* latency_accumulator_t::add (statistics.hpp:71-81). *)
LEMMA ReservoirAdd ==
  ASSUME Reservoir, NEW j \in 1 .. count + 1, count' = count + 1,
         samples' = Kept(count + 1, j)
  PROVE  Reservoir'
<1> DEFINE n == count + 1
<1>1. /\ count \in Nat /\ samples \in Seq(Nat) /\ MaxSamples \in Nat \ {0}
      /\ Distinct(samples, count)
      /\ Len(samples) = IF count < MaxSamples THEN count ELSE MaxSamples
  BY BenchmarkAssumption, ReservoirForm
<1>2. Len(samples) \in Nat /\ n \in Nat /\ n = count + 1 /\ j \in Nat /\ j >= 1
  BY <1>1
<1> HIDE DEF n
<1>3. /\ samples' \in Seq(Nat) /\ Distinct(samples', n)
      /\ Len(samples') = IF n < MaxSamples THEN n ELSE MaxSamples
  <2>1. CASE Len(samples) < MaxSamples
    <3>1. samples' = Append(samples, n) /\ Len(samples) = count
      BY <1>1, <2>1 DEF Kept, n
    <3>2. /\ samples' \in Seq(Nat) /\ Len(samples') = n
          /\ \A i \in 1 .. n : samples'[i] = IF i = n THEN n ELSE samples[i]
      <4>1. /\ samples' \in Seq(Nat) /\ Len(samples') = count + 1
            /\ \A i \in 1 .. count : samples'[i] = samples[i]
            /\ samples'[count + 1] = n
        <5>1. n \in Nat /\ samples \in Seq(Nat) /\ Len(samples) = count
          BY <1>1, <1>2, <3>1
        <5>2. /\ Append(samples, n) \in Seq(Nat) /\ Len(Append(samples, n)) = Len(samples) + 1
              /\ Append(samples, n)[Len(samples) + 1] = n
              /\ \A i \in 1 .. Len(samples) : Append(samples, n)[i] = samples[i]
          BY <5>1, SeqStep, Zenon
        <5> QED BY <3>1, <5>1, <5>2, Zenon
      <4>2. \A i \in 1 .. n : i = n \/ i \in 1 .. count
        BY <1>1, <1>2
      <4>3. samples' \in Seq(Nat) /\ Len(samples') = n /\ samples'[n] = n
        BY <1>2, <4>1
      <4> QED BY <4>1, <4>2, <4>3, Zenon
    <3>3. Distinct(samples', count + 1)
      <4>1. /\ \A i \in 1 .. Len(samples') : samples'[i] = IF i = n THEN count + 1 ELSE samples[i]
            /\ Len(samples') = Len(samples) + 1 /\ n = Len(samples') /\ n \in 1 .. Len(samples')
        BY <1>1, <1>2, <3>1, <3>2
      <4> QED BY <1>1, <1>2, <4>1, DistinctStep
    <3>4. n = IF n < MaxSamples THEN n ELSE MaxSamples
      BY <1>1, <1>2, <2>1, <3>1
    <3> QED BY <3>2, <3>3, <3>4 DEF n
  <2>2. CASE Len(samples) >= MaxSamples /\ j <= MaxSamples
    <3>1. samples' = [samples EXCEPT ![j] = n]
      BY <1>1, <2>2 DEF Kept, n
    <3>2. Len(samples) = MaxSamples /\ count >= MaxSamples
      BY <1>1, <2>2
    <3>3. j \in 1 .. Len(samples)
      BY <1>2, <2>2, <3>2
    <3>4. /\ samples' \in Seq(Nat) /\ Len(samples') = Len(samples)
          /\ \A i \in 1 .. Len(samples) : samples'[i] = IF i = j THEN n ELSE samples[i]
      <4>1. samples' \in Seq(Nat) /\ Len(samples') = Len(samples)
        BY <1>1, <1>2, <3>1, <3>3
      <4>2. \A i \in 1 .. Len(samples) : samples'[i] = IF i = j THEN n ELSE samples[i]
        BY <1>1, <1>2, <3>1, <3>3
      <4> QED BY <4>1, <4>2
    <3>5. Distinct(samples', count + 1)
      <4>1. /\ \A i \in 1 .. Len(samples') : samples'[i] = IF i = j THEN count + 1 ELSE samples[i]
            /\ Len(samples') = Len(samples) /\ j \in 1 .. Len(samples')
        BY <1>2, <3>3, <3>4
      <4> QED BY <1>1, <1>2, <4>1, DistinctStep
    <3>6. MaxSamples = IF n < MaxSamples THEN n ELSE MaxSamples
      BY <1>1, <1>2, <3>2
    <3> QED BY <3>2, <3>4, <3>5, <3>6 DEF n
  <2>3. CASE Len(samples) >= MaxSamples /\ ~(j <= MaxSamples)
    <3>1. samples' = samples
      BY <1>1, <2>3 DEF Kept
    <3>2. Len(samples) = MaxSamples /\ count >= MaxSamples
      BY <1>1, <2>3
    <3>3. MaxSamples = IF n < MaxSamples THEN n ELSE MaxSamples
      BY <1>1, <1>2, <3>2
    <3>4. Distinct(samples, n)
      BY <1>1, <1>2 DEF Distinct
    <3> QED BY <1>1, <3>1, <3>2, <3>3, <3>4
  <2> QED BY <1>1, <1>2, <2>1, <2>2, <2>3
<1>4. DOMAIN samples' = 1 .. Len(samples')
  BY <1>3
<1>5. count' = n
  BY DEF n
<1> QED BY <1>2, <1>3, <1>4, <1>5, Zenon DEF Reservoir, ReservoirIsFaithful, Distinct

LEMMA ReservoirNext ==
  ASSUME Reservoir, [Next]_vars
  PROVE  Reservoir'
<1>1. CASE UNCHANGED <<count, samples>>
  BY <1>1 DEF Reservoir, ReservoirIsFaithful
<1>2. CASE StatsPing
  <2>1. /\ count' = count + 1
        /\ \E j \in 1 .. count + 1 : samples' = Kept(count + 1, j)
    BY <1>2 DEF StatsPing
  <2> QED BY <2>1, ReservoirAdd
<1>3. CASE count' = 0 /\ samples' = <<>>
  BY <1>3, ReservoirEmpty
<1>4. \/ UNCHANGED <<count, samples>> \/ StatsPing \/ (count' = 0 /\ samples' = <<>>)
  <2>1. CASE Producer \/ Matcher \/ StatsSentinel
    BY <2>1 DEF Producer, Matcher, ProducerPush, ProducerSentinel, MatcherEvent, MatcherPing,
                MatcherSentinel, forward_shutdown, StatsSentinel, stats
  <2>2. CASE Main
    BY <2>2 DEF Main, Parse, ParseThrows, StartIteration, join, EndIteration, NextPreset,
                LastPreset, EnterPreset, stats
  <2>3. CASE Finished \/ UNCHANGED vars
    BY <2>3 DEF Finished, vars, stats
  <2> QED BY <2>1, <2>2, <2>3 DEF Next, Stats
<1> QED BY <1>1, <1>2, <1>3, <1>4

(* The samples behind the percentiles are distinct readings, all of them      *)
(* while they fit and exactly MaxSamples after that, for every capacity and   *)
(* every sequence of draws (statistics.hpp:71-81).                            *)
THEOREM ReservoirStaysFaithful == Spec => []ReservoirIsFaithful
<1>1. Init => Reservoir
  BY BenchmarkAssumption DEF Init, Reservoir, ReservoirIsFaithful
<1>2. Reservoir /\ [Next]_vars => Reservoir'
  BY ReservoirNext
<1>3. Reservoir => ReservoirIsFaithful
  BY DEF Reservoir
<1> QED BY <1>1, <1>2, <1>3, PTL DEF Spec

------------------------------------------------------------------------------
(* What the queues of an iteration hold: q carries the events after b up to n, *)
(* then e sentinels; r carries k readings, then e sentinels.                  *)
Carries(q, b, n, e) ==
  /\ q \in Seq(Nat) /\ Len(q) = n - b + e
  /\ \A i \in 1 .. Len(q) : q[i] = IF i <= n - b THEN b + i ELSE Shutdown

Pings(r, k, e) ==
  /\ r \in Seq(Nat) /\ Len(r) = k + e
  /\ \A i \in 1 .. Len(r) : r[i] = IF i <= k THEN Ping ELSE Shutdown

LEMMA CarriesPush ==
  ASSUME NEW b \in Nat, NEW n \in Nat, b <= n, NEW q, Carries(q, b, n, 0)
  PROVE  Carries(Append(q, n + 1), b, n + 1, 0) /\ Carries(Append(q, Shutdown), b, n, 1)
<1>1. /\ q \in Seq(Nat) /\ Len(q) = n - b
      /\ \A i \in 1 .. Len(q) : q[i] = b + i
  BY DEF Carries
<1>2. n + 1 \in Nat /\ Shutdown \in Nat /\ b + (Len(q) + 1) = n + 1 /\ Len(q) \in Nat
  BY <1>1 DEF Shutdown
<1> DEFINE t == Append(q, n + 1)
           u == Append(q, Shutdown)
<1>3. /\ t \in Seq(Nat) /\ Len(t) = Len(q) + 1 /\ t[Len(q) + 1] = n + 1
      /\ \A i \in 1 .. Len(q) : t[i] = q[i]
      /\ u \in Seq(Nat) /\ Len(u) = Len(q) + 1 /\ u[Len(q) + 1] = Shutdown
      /\ \A i \in 1 .. Len(q) : u[i] = q[i]
  BY <1>1, <1>2, SeqStep
<1>4. \A i \in 1 .. Len(q) + 1 : i = Len(q) + 1 \/ i \in 1 .. Len(q)
  BY <1>2
<1> HIDE DEF t, u
<1>5. Carries(t, b, n + 1, 0)
  <2>1. \A i \in 1 .. Len(t) : t[i] = b + i
    BY <1>1, <1>2, <1>3, <1>4
  <2> QED BY <1>1, <1>2, <1>3, <2>1 DEF Carries
<1>6. Carries(u, b, n, 1)
  <2>1. ASSUME NEW i \in 1 .. Len(u)
        PROVE  u[i] = IF i <= n - b THEN b + i ELSE Shutdown
    <3>1. CASE i = Len(q) + 1
      <4>1. u[i] = Shutdown
        BY <1>3, <3>1
      <4>2. ~ (i <= n - b)
        BY <1>1, <1>2, <3>1
      <4> QED BY <4>1, <4>2
    <3>2. CASE i \in 1 .. Len(q)
      BY <1>1, <1>2, <1>3, <3>2
    <3> QED BY <1>3, <1>4, <3>1, <3>2
  <2> QED BY <1>1, <1>2, <1>3, <2>1 DEF Carries
<1> QED BY <1>5, <1>6 DEF t, u

LEMMA CarriesPop ==
  ASSUME NEW b \in Nat, NEW n \in Nat, b <= n, NEW e \in {0, 1}, NEW q,
         Carries(q, b, n, e), q # <<>>
  PROVE  /\ Head(q) # Shutdown => b < n /\ Head(q) = b + 1 /\ Carries(Tail(q), b + 1, n, e)
         /\ Head(q) = Shutdown => b = n /\ e = 1 /\ Carries(Tail(q), b, n, 0)
<1>1. /\ q \in Seq(Nat) /\ Len(q) = n - b + e
      /\ \A i \in 1 .. Len(q) : q[i] = IF i <= n - b THEN b + i ELSE Shutdown
  BY DEF Carries
<1> DEFINE t == Tail(q)
<1>2. /\ t \in Seq(Nat) /\ Len(t) = Len(q) - 1 /\ Len(q) >= 1 /\ Len(q) \in Nat
      /\ Head(q) = q[1] /\ \A i \in 1 .. Len(q) - 1 : t[i] = q[i + 1]
  BY <1>1, SeqStep
<1>3. Head(q) = IF 1 <= n - b THEN b + 1 ELSE Shutdown
  BY <1>1, <1>2
<1> HIDE DEF t
<1>4. ASSUME Head(q) # Shutdown
      PROVE  b < n /\ Head(q) = b + 1 /\ Carries(t, b + 1, n, e)
  <2>1. b < n /\ Head(q) = b + 1
    BY <1>3, <1>4
  <2>2. ASSUME NEW i \in 1 .. Len(t)
        PROVE  t[i] = IF i <= n - (b + 1) THEN b + 1 + i ELSE Shutdown
    <3>1. i + 1 \in 1 .. Len(q) /\ i \in 1 .. Len(q) - 1
      BY <1>2
    <3>2. t[i] = IF i + 1 <= n - b THEN b + (i + 1) ELSE Shutdown
      BY <1>1, <1>2, <3>1
    <3> QED BY <3>2
  <2>3. t \in Seq(Nat) /\ Len(t) = n - (b + 1) + e
    BY <1>1, <1>2
  <2> QED BY <2>1, <2>2, <2>3, Zenon DEF Carries
<1>5. ASSUME Head(q) = Shutdown
      PROVE  b = n /\ e = 1 /\ Carries(t, b, n, 0)
  <2>1. b = n /\ e = 1
    <3>1. ~ (1 <= n - b)
      BY <1>3, <1>5 DEF Shutdown
    <3>2. Len(q) = n - b + e /\ Len(q) >= 1
      BY <1>1, <1>2
    <3> QED BY <3>1, <3>2
  <2>2. Len(t) = 0
    BY <1>1, <1>2, <2>1
  <2> QED BY <1>2, <2>1, <2>2 DEF Carries
<1> QED BY <1>4, <1>5 DEF t

LEMMA PingsPush ==
  ASSUME NEW k \in Nat, NEW r, Pings(r, k, 0)
  PROVE  Pings(Append(r, Ping), k + 1, 0) /\ Pings(Append(r, Shutdown), k, 1)
<1>1. r \in Seq(Nat) /\ Len(r) = k /\ \A i \in 1 .. Len(r) : r[i] = Ping
  BY DEF Pings
<1>2. Ping \in Nat /\ Shutdown \in Nat
  BY DEF Ping, Shutdown
<1> DEFINE t == Append(r, Ping)
           u == Append(r, Shutdown)
<1>3. /\ t \in Seq(Nat) /\ Len(t) = k + 1 /\ t[k + 1] = Ping
      /\ \A i \in 1 .. k : t[i] = r[i]
      /\ u \in Seq(Nat) /\ Len(u) = k + 1 /\ u[k + 1] = Shutdown
      /\ \A i \in 1 .. k : u[i] = r[i]
  BY <1>1, <1>2, SeqStep
<1>4. \A i \in 1 .. k + 1 : i = k + 1 \/ i \in 1 .. k
  OBVIOUS
<1> HIDE DEF t, u
<1>5. Pings(t, k + 1, 0)
  BY <1>1, <1>3, <1>4 DEF Pings
<1>6. Pings(u, k, 1)
  BY <1>1, <1>3, <1>4 DEF Pings
<1> QED BY <1>5, <1>6 DEF t, u

LEMMA PingsPop ==
  ASSUME NEW k \in Nat, NEW e \in {0, 1}, NEW r, Pings(r, k, e), r # <<>>
  PROVE  /\ Head(r) # Shutdown => k > 0 /\ Pings(Tail(r), k - 1, e)
         /\ Head(r) = Shutdown => k = 0 /\ e = 1 /\ Pings(Tail(r), 0, 0)
<1>1. /\ r \in Seq(Nat) /\ Len(r) = k + e
      /\ \A i \in 1 .. Len(r) : r[i] = IF i <= k THEN Ping ELSE Shutdown
  BY DEF Pings
<1> DEFINE t == Tail(r)
<1>2. /\ t \in Seq(Nat) /\ Len(t) = Len(r) - 1 /\ Len(r) >= 1 /\ Len(r) \in Nat
      /\ Head(r) = r[1] /\ \A i \in 1 .. Len(r) - 1 : t[i] = r[i + 1]
  BY <1>1, SeqStep
<1>3. Head(r) = IF 1 <= k THEN Ping ELSE Shutdown
  BY <1>1, <1>2
<1> HIDE DEF t
<1>4. ASSUME Head(r) # Shutdown
      PROVE  k > 0 /\ Pings(t, k - 1, e)
  <2>1. k > 0
    BY <1>3, <1>4
  <2>2. ASSUME NEW i \in 1 .. Len(t)
        PROVE  t[i] = IF i <= k - 1 THEN Ping ELSE Shutdown
    <3>1. i + 1 \in 1 .. Len(r) /\ i \in 1 .. Len(r) - 1
      BY <1>2
    <3>2. t[i] = IF i + 1 <= k THEN Ping ELSE Shutdown
      BY <1>1, <1>2, <3>1
    <3> QED BY <3>2
  <2>3. Len(t) = k - 1 + e
    BY <1>1, <1>2
  <2> QED BY <1>2, <2>1, <2>2, <2>3 DEF Pings
<1>5. ASSUME Head(r) = Shutdown
      PROVE  k = 0 /\ e = 1 /\ Pings(t, 0, 0)
  <2>1. k = 0 /\ e = 1
    BY <1>1, <1>2, <1>3, <1>5 DEF Shutdown, Ping
  <2>2. Len(t) = 0
    BY <1>1, <1>2, <2>1
  <2> QED BY <1>2, <2>1, <2>2 DEF Pings
<1> QED BY <1>4, <1>5 DEF t

------------------------------------------------------------------------------
(* The three threads of an iteration whose warm-up is W events and whose      *)
(* stream is T events long: every event is in the producer's hands, in the    *)
(* order queue or given to the book, in order, and the sentinel follows the   *)
(* last one.                                                                  *)
EndOfOrders == IF ppc = "exited" /\ mpc \in {"poll", "ping"} THEN 1 ELSE 0

Feed(W, T) ==
  /\ ppc \in {"push", "exited"} /\ mpc \in {"poll", "ping", "forward", "exited"}
  /\ produced \in W .. T /\ (ppc = "exited" => produced = T)
  /\ Len(book) \in W .. produced
  /\ book \in Seq(Nat) /\ \A i \in 1 .. Len(book) : book[i] = i
  /\ Carries(order_queue, Len(book), produced, EndOfOrders)
  /\ mpc \in {"forward", "exited"} => ppc = "exited" /\ Len(book) = T

(* The trades counted are those of the events after the warm-up. *)
Tally(W, w) == trade_counter = SumOver(w, W + 1 .. Len(book))

(* Of the readings of l = 1, or none, per event, those not yet added to the   *)
(* B of earlier iterations are in the stats queue.                            *)
Queued(W, l, B) ==
  B + (IF l = 1 THEN Len(book) - W - (IF mpc = "ping" THEN 1 ELSE 0) ELSE 0) - count

EndOfReadings == IF mpc = "exited" /\ spc = "poll" THEN 1 ELSE 0

Readings(W, l, B) ==
  /\ spc \in {"poll", "exited"} /\ count \in Nat
  /\ mpc = "ping" => l = 1
  /\ Queued(W, l, B) \in Nat
  /\ Pings(stats_queue, Queued(W, l, B), EndOfReadings)
  /\ spc = "exited" => mpc = "exited" /\ Queued(W, l, B) = 0

Work(W, T, w, l, B) == Feed(W, T) /\ Tally(W, w) /\ Readings(W, l, B)

LEMMA FeedNats ==
  ASSUME NEW W \in Nat, NEW T \in Nat, Feed(W, T)
  PROVE  /\ produced \in Nat /\ Len(book) \in Nat /\ Len(book) <= produced
         /\ EndOfOrders \in {0, 1} /\ EndOfReadings \in {0, 1}
BY DEF Feed, EndOfOrders, EndOfReadings

LEMMA ProducerWorks ==
  ASSUME NEW W \in Nat, NEW T \in Nat, NEW w, NEW l, NEW B, Work(W, T, w, l, B),
         Producer, Total = T
  PROVE  Work(W, T, w, l, B)'
<1>1. /\ UNCHANGED <<book, trade_counter, mpc, stats_queue, spc, count>>
      /\ ppc = "push"
  BY DEF Producer, ProducerPush, ProducerSentinel, matcher, stats
<1>2. Feed(W, T) /\ mpc \in {"poll", "ping"} /\ EndOfOrders = 0
  BY <1>1 DEF Work, Feed, EndOfOrders
<1>3. produced \in Nat /\ Len(book) \in Nat /\ Len(book) <= produced
  BY <1>2, FeedNats
<1>4. Carries(order_queue, Len(book), produced, 0)
  BY <1>2 DEF Feed
<1>5. /\ Carries(Append(order_queue, produced + 1), Len(book), produced + 1, 0)
      /\ Carries(Append(order_queue, Shutdown), Len(book), produced, 1)
  BY <1>3, <1>4, CarriesPush
<1>6. CASE ProducerPush
  <2>1. /\ order_queue' = Append(order_queue, produced + 1) /\ produced' = produced + 1
        /\ ppc' = ppc /\ produced < T
    BY <1>6 DEF ProducerPush, More
  <2>2. EndOfOrders' = 0 /\ produced' \in W .. T
    BY <1>1, <1>2, <1>3, <2>1 DEF EndOfOrders, Feed
  <2> QED BY <1>1, <1>2, <1>3, <1>5, <2>1, <2>2
          DEF Work, Feed, Tally, Readings, Queued, EndOfReadings
<1>7. CASE ProducerSentinel
  <2>1. /\ order_queue' = Append(order_queue, Shutdown) /\ produced' = produced
        /\ ppc' = "exited" /\ ~(produced < T)
    BY <1>7 DEF ProducerSentinel, More
  <2>2. EndOfOrders' = 1 /\ produced = T
    BY <1>1, <1>2, <1>3, <2>1 DEF EndOfOrders, Feed
  <2> QED BY <1>1, <1>2, <1>3, <1>5, <2>1, <2>2
          DEF Work, Feed, Tally, Readings, Queued, EndOfReadings
<1> QED BY <1>6, <1>7 DEF Producer

LEMMA StatsWorks ==
  ASSUME NEW W \in Nat, NEW T \in Nat, NEW w, NEW l, NEW B \in Nat, Work(W, T, w, l, B), Stats
  PROVE  Work(W, T, w, l, B)'
<1> DEFINE k == Queued(W, l, B)
<1>1. /\ UNCHANGED <<book, trade_counter, mpc, ppc, produced, order_queue>>
      /\ spc = "poll" /\ stats_queue # <<>> /\ stats_queue' = Tail(stats_queue)
  BY DEF Stats, StatsPing, StatsSentinel, matcher, producer
<1>2. Feed(W, T)' /\ Tally(W, w)'
  BY <1>1 DEF Work, Feed, Tally, EndOfOrders
<1>3. /\ Readings(W, l, B) /\ EndOfReadings \in {0, 1} /\ k \in Nat /\ count \in Nat
      /\ Pings(stats_queue, k, EndOfReadings) /\ Len(book) \in Nat
  BY FeedNats DEF Work, Readings
<1> HIDE DEF k
<1>4. /\ Head(stats_queue) # Shutdown => k > 0 /\ Pings(Tail(stats_queue), k - 1, EndOfReadings)
      /\ Head(stats_queue) = Shutdown =>
           k = 0 /\ EndOfReadings = 1 /\ Pings(Tail(stats_queue), 0, 0)
  BY <1>1, <1>3, PingsPop
<1>5. CASE StatsPing
  <2>1. Head(stats_queue) # Shutdown /\ count' = count + 1 /\ spc' = spc
    BY <1>5 DEF StatsPing
  <2>2. Queued(W, l, B)' = k - 1 /\ EndOfReadings' = EndOfReadings
    BY <1>1, <1>3, <2>1 DEF Queued, EndOfReadings, k
  <2>3. Readings(W, l, B)'
    BY <1>1, <1>3, <1>4, <2>1, <2>2 DEF Readings
  <2> QED BY <1>2, <2>3 DEF Work
<1>6. CASE StatsSentinel
  <2>1. Head(stats_queue) = Shutdown /\ count' = count /\ spc' = "exited"
    BY <1>6 DEF StatsSentinel
  <2>2. Queued(W, l, B)' = 0 /\ EndOfReadings' = 0 /\ mpc = "exited"
    BY <1>1, <1>3, <1>4, <2>1 DEF Queued, EndOfReadings, k
  <2>3. Readings(W, l, B)'
    BY <1>1, <1>3, <1>4, <2>1, <2>2 DEF Readings
  <2> QED BY <1>2, <2>3 DEF Work
<1> QED BY <1>5, <1>6 DEF Stats

(* A handled event: the book is given the next one, its trades are counted    *)
(* and its reading is due (benchmark.hpp:139-160).                            *)
LEMMA EventWorks ==
  ASSUME NEW W \in Nat, NEW T \in Nat, NEW w, NEW l \in {0, 1}, NEW B \in Nat,
         Work(W, T, w, l, B), MatcherEvent,
         \A i \in W + 1 .. T : w[i] \in Int /\ w[i] = TradesOf(profile, i),
         config.benchmark.collect_latency <=> l = 1
  PROVE  Work(W, T, w, l, B)'
<1> DEFINE b == Len(book)
           n == produced
           h == Head(order_queue)
<1>1. /\ UNCHANGED <<ppc, produced, stats_queue, spc, count>> /\ mpc = "poll"
      /\ order_queue # <<>> /\ h # Shutdown /\ order_queue' = Tail(order_queue)
      /\ book' = Append(book, h) /\ trade_counter' = trade_counter + TradesOf(profile, h)
      /\ mpc' = IF config.benchmark.collect_latency THEN "ping" ELSE "poll"
  BY DEF MatcherEvent, producer, stats
<1>2. Feed(W, T) /\ Tally(W, w) /\ Readings(W, l, B)
  BY DEF Work
<1>3. /\ n \in Nat /\ b \in Nat /\ b <= n /\ EndOfOrders \in {0, 1}
      /\ b >= W /\ n <= T /\ book \in Seq(Nat) /\ \A i \in 1 .. b : book[i] = i
      /\ Carries(order_queue, b, n, EndOfOrders)
  BY <1>2, FeedNats DEF Feed
<1> HIDE DEF b, n, h
<1>4. b < n /\ h = b + 1 /\ Carries(Tail(order_queue), b + 1, n, EndOfOrders)
  BY <1>1, <1>3, CarriesPop DEF h
<1>5. b + 1 \in Nat /\ b + 1 \in W + 1 .. T
  BY <1>3, <1>4
<1>6. /\ book' \in Seq(Nat) /\ Len(book') = b + 1 /\ \A i \in 1 .. b + 1 : book'[i] = i
  <2>1. /\ book' \in Seq(Nat) /\ Len(book') = b + 1 /\ book'[b + 1] = b + 1
        /\ \A i \in 1 .. b : book'[i] = book[i]
    BY <1>1, <1>3, <1>4, <1>5, SeqStep DEF b
  <2>2. \A i \in 1 .. b + 1 : i = b + 1 \/ i \in 1 .. b
    BY <1>3
  <2> QED BY <1>3, <2>1, <2>2
<1>7. mpc' \in {"poll", "ping"} /\ EndOfOrders' = EndOfOrders
  BY <1>1 DEF EndOfOrders
<1>8. Feed(W, T)'
  <2>1. produced' = n /\ order_queue' = Tail(order_queue) /\ Len(book') \in W .. n
    BY <1>1, <1>3, <1>4, <1>6 DEF n
  <2>2. ppc' \in {"push", "exited"} /\ n \in W .. T /\ (ppc' = "exited" => n = T)
    BY <1>1, <1>2 DEF Feed, n
  <2> QED BY <1>4, <1>6, <1>7, <2>1, <2>2 DEF Feed
<1>9. Tally(W, w)'
  <2> DEFINE S == W + 1 .. b
  <2>1. W + 1 .. Len(book') = S \cup {b + 1} /\ b + 1 \notin S
    BY <1>3, <1>6
  <2>2. IsFiniteSet(S)
    <3>1. W + 1 \in Int /\ b \in Int
      BY <1>3
    <3> QED BY <3>1, FS_Interval, Zenon
  <2>3. \A x \in S : w[x] \in Int
    BY <1>3
  <2>4. w[b + 1] \in Int /\ w[b + 1] = TradesOf(profile, b + 1)
    BY <1>5
  <2> HIDE DEF S
  <2>5. SumOver(w, S \cup {b + 1}) = SumOver(w, S) + w[b + 1]
    BY <2>1, <2>2, <2>3, <2>4, SumAdd
  <2>6. trade_counter = SumOver(w, S)
    BY <1>2 DEF Tally, S, b
  <2>7. trade_counter' = trade_counter + w[b + 1]
    BY <1>1, <1>4, <2>4
  <2> QED BY <2>1, <2>5, <2>6, <2>7 DEF Tally
<1>10. Readings(W, l, B)'
  <2>1. spc = "poll" /\ count \in Nat /\ Queued(W, l, B) \in Nat /\ EndOfReadings = 0
        /\ Pings(stats_queue, Queued(W, l, B), EndOfReadings)
    BY <1>1, <1>2 DEF Readings, EndOfReadings
  <2>2. mpc' = IF l = 1 THEN "ping" ELSE "poll"
    BY <1>1
  <2>3. Queued(W, l, B)' = Queued(W, l, B)
    <3>1. Queued(W, l, B) = B + (IF l = 1 THEN b - W ELSE 0) - count
      BY <1>1, <1>3 DEF Queued, b
    <3>2. Queued(W, l, B)' = B + (IF l = 1 THEN b + 1 - W - 1 ELSE 0) - count
      BY <1>1, <1>3, <1>6, <2>2 DEF Queued
    <3> QED BY <1>3, <2>1, <3>1, <3>2
  <2>4. EndOfReadings' = 0
    BY <2>2 DEF EndOfReadings
  <2> QED BY <1>1, <2>1, <2>2, <2>3, <2>4 DEF Readings
<1> QED BY <1>8, <1>9, <1>10 DEF Work

LEMMA MatcherWorks ==
  ASSUME NEW W \in Nat, NEW T \in Nat, NEW w, NEW l \in {0, 1}, NEW B \in Nat,
         Work(W, T, w, l, B), Matcher,
         \A i \in W + 1 .. T : w[i] \in Int /\ w[i] = TradesOf(profile, i),
         config.benchmark.collect_latency <=> l = 1
  PROVE  Work(W, T, w, l, B)'
<1> DEFINE b == Len(book)
           k == Queued(W, l, B)
<1>1. Feed(W, T) /\ Tally(W, w) /\ Readings(W, l, B)
  BY DEF Work
<1>2. /\ produced \in Nat /\ b \in Nat /\ b <= produced /\ EndOfOrders \in {0, 1} /\ b >= W
      /\ Carries(order_queue, b, produced, EndOfOrders)
  BY <1>1, FeedNats DEF Feed
<1>3. /\ spc \in {"poll", "exited"} /\ count \in Nat /\ k \in Nat
      /\ Pings(stats_queue, k, EndOfReadings)
      /\ (mpc # "exited" => spc = "poll" /\ EndOfReadings = 0)
  BY <1>1 DEF Readings, EndOfReadings
<1> HIDE DEF b, k
<1>4. CASE MatcherPing
  <2>1. /\ UNCHANGED <<ppc, produced, order_queue, book, trade_counter, spc, count>>
        /\ mpc = "ping" /\ mpc' = "poll" /\ stats_queue' = Append(stats_queue, Ping)
    BY <1>4 DEF MatcherPing, producer, stats
  <2>2. EndOfOrders' = EndOfOrders /\ EndOfReadings' = 0 /\ l = 1
    BY <1>1, <2>1 DEF EndOfOrders, EndOfReadings, Readings
  <2>3. Feed(W, T)' /\ Tally(W, w)'
    BY <1>1, <2>1, <2>2 DEF Feed, Tally
  <2>4. Queued(W, l, B)' = k + 1
    BY <1>2, <1>3, <2>1, <2>2 DEF Queued, b, k
  <2>5. Pings(stats_queue', k + 1, 0)
    BY <1>3, <2>1, PingsPush
  <2>6. Readings(W, l, B)'
    BY <1>3, <2>1, <2>2, <2>4, <2>5 DEF Readings
  <2> QED BY <2>3, <2>6 DEF Work
<1>5. CASE MatcherSentinel
  <2>1. /\ UNCHANGED <<ppc, produced, stats_queue, book, trade_counter, spc, count>>
        /\ mpc = "poll" /\ mpc' = "forward" /\ order_queue' = Tail(order_queue)
        /\ order_queue # <<>> /\ Head(order_queue) = Shutdown
    BY <1>5 DEF MatcherSentinel, producer, stats
  <2>2. b = produced /\ EndOfOrders = 1 /\ Carries(Tail(order_queue), b, produced, 0)
    BY <1>2, <2>1, CarriesPop
  <2>3. ppc = "exited" /\ produced = T /\ EndOfOrders' = 0 /\ EndOfReadings' = 0
    BY <1>1, <2>1, <2>2 DEF Feed, EndOfOrders, EndOfReadings
  <2>4. Feed(W, T)'
    BY <1>1, <2>1, <2>2, <2>3 DEF Feed, b
  <2>5. Tally(W, w)'
    BY <1>1, <2>1 DEF Tally
  <2>6. Queued(W, l, B)' = k
    BY <2>1 DEF Queued, k
  <2>7. Readings(W, l, B)'
    BY <1>3, <2>1, <2>3, <2>6 DEF Readings
  <2> QED BY <2>4, <2>5, <2>7 DEF Work
<1>6. CASE forward_shutdown
  <2>1. /\ UNCHANGED <<ppc, produced, order_queue, book, trade_counter, spc, count>>
        /\ mpc = "forward" /\ mpc' = "exited" /\ stats_queue' = Append(stats_queue, Shutdown)
    BY <1>6 DEF forward_shutdown, producer, stats
  <2>2. EndOfOrders' = EndOfOrders /\ EndOfReadings' = 1
    BY <1>3, <2>1 DEF EndOfOrders, EndOfReadings
  <2>3. Feed(W, T)' /\ Tally(W, w)'
    BY <1>1, <2>1, <2>2 DEF Feed, Tally
  <2>4. Queued(W, l, B)' = k
    BY <2>1 DEF Queued, k
  <2>5. Pings(stats_queue', k, 1)
    BY <1>3, <2>1, PingsPush
  <2>6. Readings(W, l, B)'
    BY <1>3, <2>1, <2>2, <2>4, <2>5 DEF Readings
  <2> QED BY <2>3, <2>6 DEF Work
<1>7. CASE MatcherEvent
  BY <1>7, EventWorks
<1> QED BY <1>4, <1>5, <1>6, <1>7 DEF Matcher

------------------------------------------------------------------------------
(* main and run_preset: between iterations the sums are those of the          *)
(* completed ones, the threads are gone and their queues are empty; during an *)
(* iteration the threads work as above, and main joins them in turn.          *)
Threads == {"stats", "matcher", "producer", "collect"}
Weights == [i \in warmup_events + 1 .. Total |-> TradesOf(profile, i)]
PerEvent == IF config.benchmark.collect_latency THEN 1 ELSE 0
Before == IF config.benchmark.collect_latency THEN Completed * num_orders ELSE 0

Chosen ==
  /\ config = parse_config(argv) /\ config.outcome = "config"
  /\ at \in 1 .. Len(config.profiles)
  /\ remaining \in 0 .. config.benchmark.iterations

Summed ==
  /\ total_orders = Completed * num_orders
  /\ total_trades = Completed * Measured(profile)

Iterating ==
  /\ remaining # 0
  /\ Work(warmup_events, Total, Weights, PerEvent, Before)
  /\ phase # "stats" => spc = "exited"
  /\ phase \in {"producer", "collect"} => mpc = "exited"
  /\ phase = "collect" => ppc = "exited"

Halted == ppc = "exited" /\ mpc = "exited" /\ spc = "exited" /\ stats_queue = <<>>

HarnessInv ==
  /\ argv \in Argvs
  /\ phase \in {"parse", "setup", "exited"} \cup Threads
  /\ phase \in {"setup"} \cup Threads => Chosen /\ Summed
  /\ IF phase \in Threads THEN Iterating ELSE Halted
  /\ phase = "setup" => count = Before

LEMMA Products ==
  ASSUME NEW c \in Int, NEW n \in Int
  PROVE  c * n \in Int /\ (c + 1) * n = c * n + n /\ 0 * n = 0
         /\ (c \in Nat /\ n \in Nat => c * n \in Nat)
OBVIOUS

LEMMA ChosenFacts ==
  ASSUME argv \in Argvs, Chosen
  PROVE  /\ GoodConfig(config)
         /\ warmup_events \in Nat /\ num_orders \in Nat
         /\ Total \in Nat /\ Total = warmup_events + num_orders
         /\ remaining \in Int /\ config.benchmark.iterations \in Nat
         /\ Completed \in Nat
         /\ config.benchmark.collect_latency \in BOOLEAN
         /\ PerEvent \in {0, 1} /\ (config.benchmark.collect_latency <=> PerEvent = 1)
         /\ Before \in Nat
         /\ \A i \in warmup_events + 1 .. Total :
              Weights[i] \in Int /\ Weights[i] = TradesOf(profile, i)
         /\ Measured(profile) = SumOver(Weights, warmup_events + 1 .. Total)
         /\ Measured(profile) \in Int
<1>1. GoodConfig(config)
  BY Configured DEF Chosen
<1>2. /\ warmup_events \in Nat /\ config.benchmark.iterations \in Nat
      /\ config.benchmark.collect_latency \in BOOLEAN
      /\ at \in DOMAIN config.profiles /\ num_orders \in Nat
      /\ remaining \in 0 .. config.benchmark.iterations
  BY <1>1 DEF GoodConfig, Chosen, warmup_events, num_orders, profile
<1>3. Total \in Nat /\ Total = warmup_events + num_orders
  BY <1>2 DEF Total
<1>4. remaining \in Int /\ Completed \in Nat
  BY <1>2 DEF Completed
<1>5. PerEvent \in {0, 1} /\ (config.benchmark.collect_latency <=> PerEvent = 1)
  BY <1>2 DEF PerEvent
<1>6. Before \in Nat
  BY <1>2, <1>4, Products DEF Before
<1>7. \A i \in warmup_events + 1 .. Total :
        Weights[i] \in Int /\ Weights[i] = TradesOf(profile, i)
  <2>1. \A i \in 1 .. warmup_events + num_orders : TradesOf(profile, i) \in Nat
    BY <1>2, TradesAssumption DEF Chosen, warmup_events, num_orders, profile
  <2>2. \A i \in warmup_events + 1 .. Total : i \in 1 .. warmup_events + num_orders
    BY <1>2, <1>3
  <2> QED BY <2>1, <2>2 DEF Weights
<1>8. Measured(profile) = SumOver(Weights, warmup_events + 1 .. Total)
  BY DEF Measured, Weights, Total, num_orders
<1>9. Measured(profile) \in Int
  <2>1. warmup_events + 1 \in Int /\ Total \in Int
    BY <1>2, <1>3
  <2> DEFINE S == warmup_events + 1 .. Total
  <2>2. IsFiniteSet(S)
    BY <2>1, FS_Interval, Zenon
  <2>3. \A x \in S : Weights[x] \in Int
    BY <1>7
  <2> HIDE DEF S
  <2>4. SumOver(Weights, S) \in Int
    BY <2>2, <2>3, SumInt
  <2> QED BY <1>8, <2>4 DEF S
<1> QED BY <1>1, <1>2, <1>3, <1>4, <1>5, <1>6, <1>7, <1>8, <1>9

(* A step of a thread. *)
LEMMA ThreadStep ==
  ASSUME HarnessInv, Producer \/ Matcher \/ Stats
  PROVE  HarnessInv'
<1>1. UNCHANGED <<argv, config, phase, status, at, remaining, reports, total_orders, total_trades>>
  BY DEF Producer, Matcher, Stats, ProducerPush, ProducerSentinel, MatcherEvent, MatcherPing,
         MatcherSentinel, forward_shutdown, StatsPing, StatsSentinel, main, sums
<1>2. phase \in Threads
  BY DEF HarnessInv, Halted, Producer, Matcher, Stats, ProducerPush, ProducerSentinel,
         MatcherEvent, MatcherPing, MatcherSentinel, forward_shutdown, StatsPing, StatsSentinel
<1>3. argv \in Argvs /\ Chosen /\ Summed /\ Iterating
  BY <1>2 DEF HarnessInv
<1>4. PICK W, T, w, l, B : /\ W = warmup_events /\ T = Total /\ w = Weights
                           /\ l = PerEvent /\ B = Before
  OBVIOUS
<1>5. /\ W = warmup_events' /\ T = Total' /\ w = Weights' /\ l = PerEvent' /\ B = Before'
      /\ Chosen' /\ Summed'
  BY <1>1, <1>3, <1>4 DEF warmup_events, Total, num_orders, profile, Weights, PerEvent,
                          Before, Completed, Chosen, Summed, Measured
<1>6. /\ W \in Nat /\ T \in Nat /\ l \in {0, 1} /\ B \in Nat
      /\ \A i \in W + 1 .. T : w[i] \in Int /\ w[i] = TradesOf(profile, i)
      /\ config.benchmark.collect_latency <=> l = 1
  BY <1>3, <1>4, ChosenFacts
<1>7. Work(W, T, w, l, B)
  BY <1>3, <1>4 DEF Iterating
<1>8. Work(W, T, w, l, B)'
  <2>1. CASE Producer
    BY <1>4, <1>6, <1>7, <2>1, ProducerWorks
  <2>2. CASE Matcher
    BY <1>6, <1>7, <2>2, MatcherWorks
  <2>3. CASE Stats
    BY <1>6, <1>7, <2>3, StatsWorks
  <2> QED BY <2>1, <2>2, <2>3
<1>9. Work(warmup_events, Total, Weights, PerEvent, Before)'
  BY <1>5, <1>8 DEF Work, Feed, Tally, Readings, Queued
<1>10. /\ spc = "exited" => spc' = "exited"
       /\ mpc = "exited" => mpc' = "exited"
       /\ ppc = "exited" => ppc' = "exited"
  BY DEF Producer, Matcher, Stats, ProducerPush, ProducerSentinel, MatcherEvent, MatcherPing,
         MatcherSentinel, forward_shutdown, StatsPing, StatsSentinel, producer, matcher, stats
<1>11. Iterating'
  BY <1>1, <1>3, <1>9, <1>10 DEF Iterating
<1> QED BY <1>1, <1>2, <1>3, <1>5, <1>11 DEF HarnessInv, Threads

(* The head of run_preset, with a configuration that parse_config gave. *)
LEMMA PresetEntered ==
  ASSUME argv' \in Argvs, config' = parse_config(argv'), config'.outcome = "config",
         NEW n, n \in 1 .. Len(config'.profiles), EnterPreset(n), Halted'
  PROVE  HarnessInv'
<1>1. GoodConfig(config')
  BY Configured
<1>2. /\ at' = n /\ remaining' = config'.benchmark.iterations /\ count' = 0
      /\ total_orders' = 0 /\ total_trades' = 0 /\ phase' = "setup"
  BY DEF EnterPreset
<1>3. remaining' \in 0 .. config'.benchmark.iterations /\ config'.benchmark.iterations \in Nat
  BY <1>1, <1>2 DEF GoodConfig
<1>4. Chosen'
  BY <1>2, <1>3 DEF Chosen
<1>5. Completed' = 0
  BY <1>2, <1>3 DEF Completed
<1>6. num_orders' \in Int /\ Measured(profile)' \in Int
  <2>1. num_orders' \in Nat
    BY <1>1, <1>2 DEF GoodConfig, num_orders, profile
  <2>2. Measured(profile)' \in Int
    <3> DEFINE p == profile'
               W == warmup_events'
               S == W + 1 .. W + p["num_orders"]
               w == [i \in S |-> TradesOf(p, i)]
    <3>1. Measured(profile)' = SumOver(w, S)
      BY DEF Measured
    <3>2. W \in Nat /\ p["num_orders"] \in Nat
      BY <1>1, <1>2 DEF GoodConfig, profile, warmup_events
    <3>3. \A i \in 1 .. W + p["num_orders"] : TradesOf(p, i) \in Nat
      BY <1>1, <1>2, TradesAssumption DEF GoodConfig, profile, warmup_events
    <3>4. \A i \in S : w[i] \in Int
      <4>1. ASSUME NEW a \in Nat, NEW b \in Nat
            PROVE  \A i \in a + 1 .. a + b : i \in 1 .. a + b
        OBVIOUS
      <4>2. \A i \in S : i \in 1 .. W + p["num_orders"]
        BY <3>2, <4>1, Zenon
      <4> QED BY <3>3, <4>2
    <3>5. IsFiniteSet(S)
      <4>1. W + 1 \in Int /\ W + p["num_orders"] \in Int
        BY <3>2
      <4> QED BY <4>1, FS_Interval, Zenon
    <3> HIDE DEF S, w
    <3> QED BY <3>1, <3>4, <3>5, SumInt
  <2> QED BY <2>1, <2>2
<1>7. Completed' * num_orders' = 0 /\ Completed' * Measured(profile)' = 0
  BY <1>5, <1>6, Products
<1>8. Summed' /\ count' = Before'
  BY <1>2, <1>7 DEF Summed, Before
<1> QED BY <1>2, <1>4, <1>8 DEF HarnessInv, Threads

(* The threads start on fresh queues and a warmed-up book                     *)
(* (benchmark.hpp:217-249).                                                   *)
LEMMA IterationStarts ==
  ASSUME HarnessInv, StartIteration
  PROVE  HarnessInv'
<1>1. /\ UNCHANGED <<argv, config, at, remaining, total_orders, total_trades, count>>
      /\ book' = [i \in 1 .. warmup_events |-> i] /\ trade_counter' = 0
      /\ ppc' = "push" /\ produced' = warmup_events /\ mpc' = "poll" /\ spc' = "poll"
      /\ order_queue' = <<>> /\ stats_queue' = <<>>
      /\ phase = "setup" /\ phase' = "stats" /\ remaining # 0
  BY DEF StartIteration, sums
<1>2. argv \in Argvs /\ Chosen /\ Summed /\ count = Before
  BY <1>1 DEF HarnessInv
<1>3. PICK W, T, w, l, B : /\ W = warmup_events /\ T = Total /\ w = Weights
                           /\ l = PerEvent /\ B = Before
  OBVIOUS
<1>4. /\ W = warmup_events' /\ T = Total' /\ w = Weights' /\ l = PerEvent' /\ B = Before'
      /\ Chosen' /\ Summed'
  BY <1>1, <1>2, <1>3 DEF warmup_events, Total, num_orders, profile, Weights, PerEvent,
                          Before, Completed, Chosen, Summed, Measured
<1>5. W \in Nat /\ T \in Nat /\ W <= T /\ l \in {0, 1} /\ B \in Nat
  BY <1>2, <1>3, ChosenFacts
<1>6. book' \in Seq(Nat) /\ Len(book') = W /\ \A i \in 1 .. W : book'[i] = i
  <2>1. book' = [i \in 1 .. W |-> i]
    BY <1>1, <1>3
  <2> QED BY <1>5, <2>1
<1>7. /\ <<>> \in Seq(Nat) /\ Len(<<>>) = 0
  OBVIOUS
<1>8. Feed(W, T)'
  <2>1. EndOfOrders' = 0 /\ produced' = W
    BY <1>1, <1>3 DEF EndOfOrders
  <2>2. Carries(order_queue', W, W, 0)
    BY <1>1, <1>5, <1>7 DEF Carries
  <2> QED BY <1>1, <1>5, <1>6, <2>1, <2>2 DEF Feed
<1>9. Tally(W, w)'
  <2>1. W + 1 .. Len(book') = {}
    BY <1>5, <1>6
  <2>2. SumOver(w, {}) = 0
    BY SumEmpty
  <2> QED BY <1>1, <2>1, <2>2 DEF Tally
<1>10. Readings(W, l, B)'
  <2>1. Queued(W, l, B)' = 0 /\ EndOfReadings' = 0
    BY <1>1, <1>2, <1>3, <1>5, <1>6 DEF Queued, EndOfReadings
  <2>2. Pings(stats_queue', 0, 0)
    BY <1>1, <1>7 DEF Pings
  <2>3. count' \in Nat
    BY <1>1, <1>2, <1>3, <1>5
  <2> QED BY <1>1, <2>1, <2>2, <2>3 DEF Readings
<1>11. Work(warmup_events, Total, Weights, PerEvent, Before)'
  BY <1>4, <1>8, <1>9, <1>10 DEF Work, Feed, Tally, Readings, Queued
<1>12. Iterating'
  BY <1>1, <1>11 DEF Iterating
<1> QED BY <1>1, <1>2, <1>4, <1>12 DEF HarnessInv, Threads

(* All joined, the iteration has handled, counted and read every event. *)
LEMMA IterationComplete ==
  ASSUME HarnessInv, phase = "collect"
  PROVE  /\ Halted /\ Chosen /\ Summed /\ argv \in Argvs /\ remaining # 0
         /\ book = [i \in 1 .. Total |-> i]
         /\ trade_counter = Measured(profile)
         /\ count = Before + (IF config.benchmark.collect_latency THEN num_orders ELSE 0)
<1>1. /\ argv \in Argvs /\ Chosen /\ Summed /\ remaining # 0
      /\ spc = "exited" /\ mpc = "exited" /\ ppc = "exited"
      /\ Work(warmup_events, Total, Weights, PerEvent, Before)
  BY DEF HarnessInv, Threads, Iterating
<1>2. /\ warmup_events \in Nat /\ num_orders \in Nat /\ Total = warmup_events + num_orders
      /\ Total \in Nat /\ Before \in Nat
      /\ (config.benchmark.collect_latency <=> PerEvent = 1)
      /\ Measured(profile) = SumOver(Weights, warmup_events + 1 .. Total)
  BY <1>1, ChosenFacts
<1>3. /\ Len(book) = Total /\ book \in Seq(Nat) /\ \A i \in 1 .. Len(book) : book[i] = i
  BY <1>1 DEF Work, Feed
<1>4. book = [i \in 1 .. Total |-> i]
  BY <1>2, <1>3
<1>5. trade_counter = Measured(profile)
  BY <1>1, <1>2, <1>3 DEF Work, Tally
<1>6. /\ Queued(warmup_events, PerEvent, Before) = 0 /\ count \in Nat
      /\ Pings(stats_queue, 0, 0)
  BY <1>1 DEF Work, Readings, EndOfReadings
<1>7. count = Before + (IF config.benchmark.collect_latency THEN num_orders ELSE 0)
  BY <1>1, <1>2, <1>3, <1>6 DEF Queued
<1>8. stats_queue = <<>>
  BY <1>6, SeqStep DEF Pings
<1> QED BY <1>1, <1>4, <1>5, <1>7, <1>8 DEF Halted

LEMMA IterationEnds ==
  ASSUME HarnessInv, EndIteration
  PROVE  HarnessInv'
<1>1. /\ UNCHANGED <<argv, config, at, count, ppc, mpc, spc, stats_queue>>
      /\ total_orders' = total_orders + num_orders
      /\ total_trades' = total_trades + trade_counter
      /\ remaining' = remaining - 1 /\ phase = "collect" /\ phase' = "setup"
  BY DEF EndIteration, producer, matcher, stats
<1>2. /\ Halted /\ Chosen /\ Summed /\ argv \in Argvs /\ remaining # 0
      /\ trade_counter = Measured(profile)
      /\ count = Before + (IF config.benchmark.collect_latency THEN num_orders ELSE 0)
  BY <1>1, IterationComplete
<1>3. /\ num_orders \in Nat /\ Completed \in Nat /\ Measured(profile) \in Int
      /\ remaining \in Int /\ config.benchmark.iterations \in Nat
  BY <1>2, ChosenFacts
<1>4. remaining \in 0 .. config.benchmark.iterations
  BY <1>2 DEF Chosen
<1>5. Completed' = Completed + 1
  BY <1>1, <1>3 DEF Completed
<1>6. num_orders' = num_orders /\ Measured(profile)' = Measured(profile)
  BY <1>1 DEF num_orders, profile, Measured, warmup_events
<1>7. Chosen'
  <2>1. remaining - 1 \in 0 .. config.benchmark.iterations
    BY <1>2, <1>3, <1>4
  <2> QED BY <1>1, <1>2, <2>1 DEF Chosen
<1>8. /\ (Completed + 1) * num_orders = Completed * num_orders + num_orders
      /\ (Completed + 1) * Measured(profile) = Completed * Measured(profile) + Measured(profile)
  BY <1>3, Products
<1>9. Summed'
  BY <1>1, <1>2, <1>5, <1>6, <1>8 DEF Summed
<1>10. count' = Before'
  BY <1>1, <1>2, <1>5, <1>6, <1>8 DEF Before
<1>11. Halted'
  BY <1>1, <1>2 DEF Halted
<1> QED BY <1>1, <1>2, <1>7, <1>9, <1>10, <1>11 DEF HarnessInv, Threads

LEMMA HarnessNext ==
  ASSUME HarnessInv, [Next]_vars
  PROVE  HarnessInv'
<1>1. CASE Producer \/ Matcher \/ Stats
  BY <1>1, ThreadStep
<1>2. CASE Parse
  <2>1. /\ phase = "parse" /\ config' = parse_config(argv) /\ config'.outcome = "config"
        /\ EnterPreset(1) /\ UNCHANGED <<argv, ppc, mpc, spc, stats_queue>>
    BY <1>2 DEF Parse, producer, matcher
  <2>2. Halted /\ argv' \in Argvs /\ config' = parse_config(argv')
    BY <2>1 DEF HarnessInv, Threads
  <2>3. 1 \in 1 .. Len(config'.profiles)
    BY <2>1, <2>2, Configured DEF GoodConfig
  <2>4. Halted'
    BY <2>1, <2>2 DEF Halted
  <2> QED BY <2>1, <2>2, <2>3, <2>4, PresetEntered
<1>3. CASE ParseThrows
  <2>1. phase = "parse" /\ phase' = "exited" /\ UNCHANGED <<argv, ppc, mpc, spc, stats_queue>>
    BY <1>3 DEF ParseThrows, producer, matcher, stats
  <2> QED BY <2>1 DEF HarnessInv, Threads, Halted
<1>4. CASE StartIteration
  BY <1>4, IterationStarts
<1>5. CASE join
  <2>1. /\ phase \in {"stats", "matcher", "producer"} /\ Exited(phase)
        /\ phase' = CASE phase = "stats" -> "matcher"
                      [] phase = "matcher" -> "producer"
                      [] phase = "producer" -> "collect"
        /\ UNCHANGED <<argv, config, at, remaining, total_orders, total_trades>>
        /\ UNCHANGED <<ppc, produced, order_queue, book, trade_counter, mpc, stats_queue,
                       spc, count>>
    BY <1>5 DEF join, sums, producer, matcher, stats
  <2>2. argv \in Argvs /\ Chosen /\ Summed /\ Iterating
    BY <2>1 DEF HarnessInv, Threads
  <2>3. Chosen' /\ Summed'
    BY <2>1, <2>2 DEF warmup_events, num_orders, profile, Completed, Chosen, Summed, Measured
  <2>4. Work(warmup_events, Total, Weights, PerEvent, Before)'
    <3>1. Work(warmup_events, Total, Weights, PerEvent, Before)
      BY <2>2 DEF Iterating
    <3>2. UNCHANGED <<warmup_events, Total, Weights, PerEvent, Before>>
      BY <2>1 DEF warmup_events, Total, num_orders, profile, Weights, PerEvent, Before, Completed
    <3> QED BY <2>1, <3>1, <3>2
            DEF Work, Feed, Tally, Readings, Queued, EndOfOrders, EndOfReadings
  <2>5. Iterating'
    BY <2>1, <2>2, <2>4 DEF Iterating, Exited
  <2> QED BY <2>1, <2>2, <2>3, <2>5 DEF HarnessInv, Threads
<1>6. CASE EndIteration
  BY <1>6, IterationEnds
<1>7. CASE NextPreset
  <2>1. /\ phase = "setup" /\ UNCHANGED <<argv, config, ppc, mpc, spc, stats_queue>>
        /\ at < Len(config.profiles) /\ EnterPreset(at + 1)
    BY <1>7 DEF NextPreset, print_preset_result, producer, matcher
  <2>2. argv \in Argvs /\ Chosen /\ Halted
    BY <2>1 DEF HarnessInv, Threads
  <2>3. GoodConfig(config)
    BY <2>2, ChosenFacts
  <2>4. at + 1 \in 1 .. Len(config'.profiles)
    BY <2>1, <2>2, <2>3 DEF Chosen, GoodConfig
  <2>5. Halted' /\ argv' \in Argvs /\ config' = parse_config(argv') /\ config'.outcome = "config"
    BY <2>1, <2>2 DEF Halted, Chosen
  <2>6. PICK n : n = at + 1
    OBVIOUS
  <2>7. EnterPreset(n) /\ n \in 1 .. Len(config'.profiles)
    BY <2>1, <2>4, <2>6 DEF EnterPreset
  <2> QED BY <2>5, <2>7, PresetEntered
<1>8. CASE LastPreset
  <2>1. phase = "setup" /\ phase' = "exited" /\ UNCHANGED <<argv, ppc, mpc, spc, stats_queue>>
    BY <1>8 DEF LastPreset, print_preset_result, producer, matcher
  <2> QED BY <2>1 DEF HarnessInv, Threads, Halted
<1>9. CASE Finished \/ UNCHANGED vars
  <2>1. UNCHANGED <<argv, config, phase, at, remaining, total_orders, total_trades>>
        /\ UNCHANGED <<ppc, produced, order_queue, book, trade_counter, mpc, stats_queue,
                       spc, count>>
    BY <1>9 DEF Finished, vars, main, sums, producer, matcher, stats
  <2>2. /\ UNCHANGED <<warmup_events, num_orders, profile, Total, Weights, PerEvent, Before,
                       Completed>>
        /\ Measured(profile)' = Measured(profile)
    BY <2>1 DEF warmup_events, Total, num_orders, profile, Weights, PerEvent, Before, Completed,
                Measured
  <2>3. (Chosen' <=> Chosen) /\ (Summed' <=> Summed) /\ (Halted' <=> Halted)
    BY <2>1, <2>2 DEF Chosen, Summed, Halted
  <2>4. Iterating' <=> Iterating
    BY <2>1, <2>2 DEF Iterating, Work, Feed, Tally, Readings, Queued, EndOfOrders, EndOfReadings
  <2> QED BY <2>1, <2>2, <2>3, <2>4 DEF HarnessInv
<1> QED BY <1>1, <1>2, <1>3, <1>4, <1>5, <1>6, <1>7, <1>8, <1>9 DEF Next, Main

LEMMA HarnessHolds == Spec => []HarnessInv
<1>1. Init => HarnessInv
  BY DEF Init, HarnessInv, Threads, Halted
<1>2. HarnessInv /\ [Next]_vars => HarnessInv'
  BY HarnessNext
<1> QED BY <1>1, <1>2, PTL DEF Spec

(* Each book is given the profile's stream, every event once and in order,    *)
(* and the sums are those of the measured events times the iterations         *)
(* completed, under every interleaving of the three threads and for every     *)
(* queue size, command line and preset (benchmark.hpp:223-260).               *)
THEOREM TotalsStayExact == Spec => []TotalsAreExact
<1>1. HarnessInv => TotalsAreExact
  BY IterationComplete DEF HarnessInv, Threads, Summed, TotalsAreExact
<1> QED BY <1>1, HarnessHolds, PTL

(* Between iterations the accumulator has exactly one reading per measured    *)
(* event, or none when latencies are off, and no reading is left behind in    *)
(* the queue (benchmark.hpp:210, 243).                                        *)
THEOREM ReadingsStayExact == Spec => []OneReadingPerEvent
<1>1. HarnessInv => OneReadingPerEvent
  BY DEF HarnessInv, Threads, Halted, Before, OneReadingPerEvent
<1> QED BY <1>1, HarnessHolds, PTL

------------------------------------------------------------------------------
(* What the command line asks for, and what parse_config makes of it. *)
(* The code's table of flags is the one of the help text. *)
LEMMA FlagOfMember ==
  ASSUME NEW m
  PROVE  /\ m \in Overridable => FlagFor(m) \in OverrideFlags /\ OverriddenMember[FlagFor(m)] = m
         /\ \A f \in OverrideFlags : OverriddenMember[f] = m => m \in Overridable /\ f = FlagFor(m)
BY DEF OverrideFlags, OverriddenMember, Overridable, FlagFor

LEMMA MergedAsMeant ==
  ASSUME NEW a, NEW base, NEW m \in DOMAIN base, NEW o,
         o = Restrict(a, OverrideFlags \cap DOMAIN a)
  PROVE  merge_staged_overrides(base, o)[m] =
           IF m \in Overridable /\ FlagFor(m) \in DOMAIN a THEN a[FlagFor(m)] ELSE base[m]
<1>1. DOMAIN o = OverrideFlags \cap DOMAIN a /\ \A f \in DOMAIN o : o[f] = a[f]
  BY DEF Restrict
<1>2. m \in DOMAIN Given(o) <=> \E f \in DOMAIN o : OverriddenMember[f] = m
  BY DEF Given
<1>3. merge_staged_overrides(base, o)[m] =
        IF m \in DOMAIN Given(o) THEN Given(o)[m] ELSE base[m]
  BY DEF merge_staged_overrides
<1>4. (\E f \in DOMAIN o : OverriddenMember[f] = m)
        <=> m \in Overridable /\ FlagFor(m) \in DOMAIN a
  BY <1>1, FlagOfMember
<1>5. ASSUME \E f \in DOMAIN o : OverriddenMember[f] = m
      PROVE  Given(o)[m] = a[FlagFor(m)]
  <2> DEFINE g == CHOOSE f \in DOMAIN o : OverriddenMember[f] = m
  <2>1. g \in DOMAIN o /\ OverriddenMember[g] = m
    BY <1>5
  <2>2. Given(o)[m] = o[g]
    BY <1>2, <1>5 DEF Given
  <2> HIDE DEF g
  <2>3. g = FlagFor(m)
    BY <1>1, <2>1, FlagOfMember
  <2> QED BY <1>1, <2>1, <2>2, <2>3
<1> QED BY <1>2, <1>3, <1>4, <1>5, Zenon

(* The presets resolved are those asked for, in their places. *)
LEMMA ResolvedAsAsked ==
  ASSUME NEW b, b = resolve_presets(assign_if_present(argv, "profile", "all")), b # <<>>
  PROVE  /\ Len(b) \in Nat /\ Len(b) = Cardinality(Asked)
         /\ \A k \in 1 .. Len(b) : \E i \in Asked : Place(i) = k /\ b[k] = Presets[i]
<1>1. Presets \in Seq(Range(Presets))
  BY BenchmarkAssumption
<1>2. Len(Presets) \in Nat /\ DOMAIN Presets = 1 .. Len(Presets)
  BY <1>1
<1> DEFINE pick == assign_if_present(argv, "profile", "all")
<1>3. CASE pick = "all"
  <2>1. b = Presets
    BY <1>3 DEF resolve_presets
  <2>2. Asked = 1 .. Len(Presets)
    BY <1>2, <1>3 DEF Asked, assign_if_present
  <2>3. ASSUME NEW i \in 1 .. Len(Presets) PROVE Place(i) = i
    <3>1. {j \in Asked : j <= i} = 1 .. i
      BY <1>2, <2>2
    <3>2. Cardinality(1 .. i) = i
      <4>1. 1 \in Int /\ i \in Int /\ 1 <= i
        BY <1>2
      <4>2. Cardinality(1 .. i) = IF 1 > i THEN 0 ELSE i - 1 + 1
        BY <4>1, FS_Interval
      <4> QED BY <4>1, <4>2
    <3> QED BY <3>1, <3>2 DEF Place
  <2>4. Cardinality(Asked) = Len(Presets)
    <3>1. 1 \in Int /\ Len(Presets) \in Int
      BY <1>2
    <3>2. Cardinality(1 .. Len(Presets)) =
            IF 1 > Len(Presets) THEN 0 ELSE Len(Presets) - 1 + 1
      BY <3>1, FS_Interval
    <3> QED BY <1>2, <2>2, <3>2
  <2> QED BY <1>2, <2>1, <2>2, <2>3, <2>4
<1>4. CASE pick # "all"
  <2> DEFINE I == {i \in 1 .. Len(Presets) : Presets[i]["name"] = pick}
             found == IF I # {} THEN Min(I) ELSE 0
  <2>1. b = IF found = 0 THEN <<>> ELSE <<Presets[found]>>
    BY <1>4, Zenon DEF resolve_presets, SelectInSeq
  <2>2. found # 0 /\ I # {}
    BY <2>1
  <2>3. Min(I) \in I
    <3>1. I \in SUBSET Nat
      BY <1>2
    <3> HIDE DEF I
    <3>2. \E x \in I : \A y \in I : x <= y
      BY <2>2, <3>1, Least
    <3> QED BY <3>2 DEF Min
  <2>4. found \in I
    BY <2>2, <2>3
  <2>5. Asked = {found}
    <3>1. "profile" \in DOMAIN argv /\ argv["profile"] = pick
      BY <1>4 DEF assign_if_present
    <3>2. Asked = I
      BY <1>2, <1>4, <3>1 DEF Asked
    <3>3. \A i \in I : i = found
      <4> HIDE DEF found
      <4>1. \A j, k \in DOMAIN Presets : Presets[j]["name"] = Presets[k]["name"] => j = k
        BY BenchmarkAssumption
      <4> QED BY <1>2, <2>4, <4>1
    <3> HIDE DEF I, found
    <3> QED BY <2>4, <3>2, <3>3
  <2>6. found \in Int
    BY <1>2, <2>4
  <2> HIDE DEF found, I
  <2>7. b = <<Presets[found]>>
    BY <2>1, <2>2
  <2>8. Cardinality({found}) = 1
    BY FS_Singleton
  <2>9. Place(found) = 1
    <3>1. {j \in Asked : j <= found} = {found}
      BY <2>5, <2>6
    <3> QED BY <2>8, <3>1 DEF Place
  <2>10. Len(b) = 1 /\ b[1] = Presets[found]
    BY <2>7
  <2>11. \A k \in 1 .. 1 : k = 1
    OBVIOUS
  <2>12. found \in Asked
    BY <2>5
  <2>13. Cardinality(Asked) = 1
    BY <2>5, <2>8
  <2>14. Len(b) \in Nat /\ Len(b) = Cardinality(Asked)
    BY <2>10, <2>13
  <2>15. ASSUME NEW k \in 1 .. Len(b)
         PROVE  \E i \in Asked : Place(i) = k /\ b[k] = Presets[i]
    <3>1. k = 1
      BY <2>10, <2>11
    <3>2. Place(found) = k /\ b[k] = Presets[found]
      BY <2>9, <2>10, <3>1
    <3> QED BY <2>12, <3>2, Zenon
  <2> QED BY <2>14, <2>15
<1> QED BY <1>3, <1>4

LEMMA ConfigAsAsked ==
  ASSUME argv \in Argvs, NEW c, c = parse_config(argv), c.outcome = "config"
  PROVE  LET runs == IF "iterations" \in DOMAIN argv THEN argv["iterations"]
                                                    ELSE default_iterations
             quiet == "latency_stats" \in DOMAIN argv /\ argv["latency_stats"] \in Off
         IN  /\ c.benchmark.iterations = runs
             /\ c.benchmark.collect_latency <=> ~quiet
             /\ Len(c.profiles) = Cardinality(Asked)
             /\ \A r : \A k \in 1 .. Len(c.profiles) : r.profile = c.profiles[k] =>
                  \E i \in Asked : Place(i) = k /\ Meant(r, Presets[i])
<1> DEFINE s == staging(argv)
           bases == resolve_presets(s.profile_selection)
           ps == [i \in DOMAIN bases |-> merge_staged_overrides(bases[i], s.profile_overrides)]
<1>1. /\ c = [outcome |-> "config", benchmark |-> s.benchmark, profiles |-> ps]
      /\ bases # <<>> /\ ~BadValue(argv)
  BY DEF parse_config
<1>2. /\ s.profile_selection = assign_if_present(argv, "profile", "all")
      /\ s.benchmark.iterations = assign_if_present(argv, "iterations", default_iterations)
      /\ s.benchmark.collect_latency = (assign_if_present(argv, "latency_stats", "on") \in On)
      /\ s.profile_overrides = Restrict(argv, OverrideFlags \cap DOMAIN argv)
  BY DEF staging
<1>3. GoodConfig(c)
  BY Configured
<1> HIDE DEF s
<1>4. /\ Len(bases) \in Nat /\ Len(bases) = Cardinality(Asked)
      /\ \A k \in 1 .. Len(bases) : \E i \in Asked : Place(i) = k /\ bases[k] = Presets[i]
  BY <1>1, <1>2, ResolvedAsAsked
<1>5. DOMAIN bases = 1 .. Len(bases)
  BY <1>1, Resolved
<1> HIDE DEF bases
<1>6. c.benchmark = s.benchmark /\ c.profiles = ps
  BY <1>1
<1>7. Len(c.profiles) = Len(bases)
  <2>1. DOMAIN c.profiles = 1 .. Len(c.profiles) /\ Len(c.profiles) \in Nat
    BY <1>3 DEF GoodConfig
  <2>2. DOMAIN c.profiles = 1 .. Len(bases)
    BY <1>5, <1>6
  <2> QED BY <1>4, <2>1, <2>2
<1>8. c.benchmark.iterations = IF "iterations" \in DOMAIN argv THEN argv["iterations"]
                                                              ELSE default_iterations
  BY <1>2, <1>6 DEF assign_if_present
<1>9. c.benchmark.collect_latency <=>
        ~("latency_stats" \in DOMAIN argv /\ argv["latency_stats"] \in Off)
  BY <1>1, <1>2, <1>6 DEF assign_if_present, BadValue, On, Off
<1>10. ASSUME NEW k \in 1 .. Len(c.profiles), NEW r, r.profile = c.profiles[k]
       PROVE  \E i \in Asked : Place(i) = k /\ Meant(r, Presets[i])
  <2>1. PICK i \in Asked : Place(i) = k /\ bases[k] = Presets[i]
    BY <1>4, <1>7
  <2>2. r.profile = merge_staged_overrides(Presets[i], s.profile_overrides)
    BY <1>5, <1>6, <1>7, <1>10, <2>1
  <2>3. ASSUME NEW m \in DOMAIN Presets[i]
        PROVE  r.profile[m] = IF m \in Overridable /\ FlagFor(m) \in DOMAIN argv
                              THEN argv[FlagFor(m)] ELSE Presets[i][m]
    BY <1>2, <2>2, MergedAsMeant
  <2>4. Meant(r, Presets[i])
    BY <2>3, Zenon DEF Meant
  <2> QED BY <2>1, <2>4
<1> QED BY <1>4, <1>7, <1>8, <1>9, <1>10

(* The report of the k-th profile, had its runs all been counted in full. *)
ReportOf(k) ==
  LET p == config.profiles[k]
      runs == config.benchmark.iterations
  IN  [profile |-> p, orders |-> runs * p["num_orders"], trades |-> runs * Measured(p),
       samples |-> IF config.benchmark.collect_latency THEN runs * p["num_orders"] ELSE 0]

FromConfig == config = parse_config(argv) /\ config.outcome = "config"

(* A preset is reported when its last iteration is over, before the next one  *)
(* is entered; an error or --help ends the program with none reported.        *)
Reported ==
  /\ reports \in Seq({ReportOf(k) : k \in 1 .. Len(config.profiles)})
  /\ Len(reports) <= Len(config.profiles)
  /\ \A k \in 1 .. Len(reports) : reports[k] = ReportOf(k)

ReportInv ==
  /\ HarnessInv
  /\ phase # "exited" => status = 0
  /\ phase = "parse" => reports = <<>>
  /\ phase \in {"setup"} \cup Threads => FromConfig /\ Reported /\ Len(reports) = at - 1
  /\ phase = "exited" =>
       \/ reports = <<>> /\ (status = 1 \/ "help" \in DOMAIN argv)
       \/ status = 0 /\ FromConfig /\ Reported /\ Len(reports) = Len(config.profiles)

(* What print_preset_result reports is what was asked of the preset. *)
LEMMA PresetReported ==
  ASSUME HarnessInv, phase = "setup", remaining = 0
  PROVE  preset_result = ReportOf(at)
<1>1. argv \in Argvs /\ Chosen /\ Summed /\ count = Before
  BY DEF HarnessInv
<1>2. Completed = config.benchmark.iterations
  <2>1. config.benchmark.iterations \in Nat
    BY <1>1, ChosenFacts
  <2> QED BY <2>1 DEF Completed
<1>3. /\ total_orders = config.benchmark.iterations * profile["num_orders"]
      /\ total_trades = config.benchmark.iterations * Measured(profile)
  BY <1>1, <1>2 DEF Summed, num_orders
<1>4. count = IF config.benchmark.collect_latency
              THEN config.benchmark.iterations * profile["num_orders"] ELSE 0
  BY <1>1, <1>2 DEF Before, num_orders
<1> QED BY <1>3, <1>4 DEF preset_result, ReportOf, profile

LEMMA ReportPrinted ==
  ASSUME ReportInv, print_preset_result
  PROVE  /\ Reported' /\ FromConfig' /\ Len(reports') = at /\ status' = 0
         /\ at \in 1 .. Len(config.profiles) /\ Len(config.profiles) \in Nat
<1>1. /\ phase = "setup" /\ remaining = 0 /\ reports' = Append(reports, preset_result)
      /\ UNCHANGED <<argv, config, status>>
  BY DEF print_preset_result
<1>2. HarnessInv /\ FromConfig /\ Reported /\ Len(reports) = at - 1 /\ status = 0
  BY <1>1 DEF ReportInv
<1>3. argv \in Argvs /\ Chosen
  BY <1>1, <1>2 DEF HarnessInv
<1>4. Len(config.profiles) \in Nat /\ at \in 1 .. Len(config.profiles)
  BY <1>3, ChosenFacts DEF GoodConfig, Chosen
<1>5. preset_result = ReportOf(at)
  BY <1>1, <1>2, PresetReported
<1>6. PICK x, R : x = ReportOf(at) /\ R = {ReportOf(k) : k \in 1 .. Len(config.profiles)}
  OBVIOUS
<1>7. x \in R
  BY <1>4, <1>6
<1>8. R = {ReportOf(k) : k \in 1 .. Len(config.profiles)}'
  BY <1>1, <1>6 DEF ReportOf, Measured, warmup_events
<1>9. reports \in Seq(R) /\ \A k \in 1 .. Len(reports) : reports[k] = ReportOf(k)
  BY <1>2, <1>6 DEF Reported
<1>10. reports' = Append(reports, x)
  BY <1>1, <1>5, <1>6
<1>11. /\ reports' \in Seq(R) /\ Len(reports') = at
       /\ \A k \in 1 .. at : reports'[k] = IF k = at THEN x ELSE reports[k]
  BY <1>2, <1>4, <1>7, <1>9, <1>10
<1>12. ASSUME NEW k \in 1 .. Len(reports') PROVE reports'[k] = ReportOf(k)'
  <2>1. ReportOf(k)' = ReportOf(k)
    BY <1>1 DEF ReportOf, Measured, warmup_events
  <2>2. CASE k = at
    BY <1>6, <1>11, <2>1, <2>2
  <2>3. CASE k # at
    <3>1. k \in 1 .. Len(reports) /\ k \in 1 .. at
      BY <1>2, <1>4, <1>11, <2>3
    <3> QED BY <1>9, <1>11, <2>1, <2>3, <3>1
  <2> QED BY <2>2, <2>3
<1>13. Reported'
  <2>1. Len(reports') <= Len(config'.profiles)
    BY <1>1, <1>4, <1>11
  <2>2. reports' \in Seq({ReportOf(k) : k \in 1 .. Len(config.profiles)}')
    BY <1>8, <1>11
  <2> QED BY <1>12, <2>1, <2>2 DEF Reported
<1> QED BY <1>1, <1>2, <1>4, <1>11, <1>13 DEF FromConfig

(* Steps that neither parse nor report. *)
LEMMA ReportsKept ==
  ASSUME ReportInv, HarnessInv', UNCHANGED <<argv, config, status, reports, at>>,
         \/ phase' = phase
         \/ phase \in {"setup"} \cup Threads /\ phase' \in {"setup"} \cup Threads
  PROVE  ReportInv'
<1>1. (Reported' <=> Reported) /\ (FromConfig' <=> FromConfig)
  <2>1. \A k : ReportOf(k)' = ReportOf(k)
    BY DEF ReportOf, Measured, warmup_events
  <2> QED BY <2>1 DEF Reported, FromConfig
<1>2. CASE phase' = phase
  BY <1>1, <1>2 DEF ReportInv
<1>3. CASE phase \in {"setup"} \cup Threads /\ phase' \in {"setup"} \cup Threads
  BY <1>1, <1>3 DEF ReportInv, Threads
<1> QED BY <1>2, <1>3

LEMMA ReportNext ==
  ASSUME ReportInv, [Next]_vars
  PROVE  ReportInv'
<1>1. HarnessInv /\ HarnessInv'
  BY HarnessNext DEF ReportInv
<1>2. CASE Producer \/ Matcher \/ Stats \/ Finished \/ UNCHANGED vars
  <2>1. UNCHANGED <<argv, config, status, reports, at, phase>>
    BY <1>2 DEF Producer, Matcher, Stats, ProducerPush, ProducerSentinel, MatcherEvent,
                MatcherPing, MatcherSentinel, forward_shutdown, StatsPing, StatsSentinel,
                Finished, vars, main, sums
  <2> QED BY <1>1, <2>1, ReportsKept
<1>3. CASE StartIteration \/ join \/ EndIteration
  <2>1. /\ UNCHANGED <<argv, config, status, reports, at>>
        /\ phase \in {"setup"} \cup Threads /\ phase' \in {"setup"} \cup Threads
    BY <1>3 DEF StartIteration, join, EndIteration, Threads
  <2> QED BY <1>1, <2>1, ReportsKept
<1>4. CASE Parse
  <2>1. /\ phase = "parse" /\ config' = parse_config(argv) /\ config'.outcome = "config"
        /\ at' = 1 /\ phase' = "setup" /\ UNCHANGED <<argv, status, reports>>
    BY <1>4 DEF Parse, EnterPreset
  <2>2. reports = <<>> /\ status = 0
    BY <2>1 DEF ReportInv
  <2>3. Len(config'.profiles) \in Nat
    <3>1. argv \in Argvs
      BY <1>1 DEF HarnessInv
    <3> QED BY <2>1, <3>1, Configured DEF GoodConfig
  <2>4. Reported' /\ Len(reports') = 0
    BY <2>1, <2>2, <2>3 DEF Reported
  <2> QED BY <1>1, <2>1, <2>2, <2>4 DEF ReportInv, FromConfig
<1>5. CASE ParseThrows
  <2>1. /\ phase = "parse" /\ config' = parse_config(argv) /\ config'.outcome # "config"
        /\ status' = IF config'.outcome = "help_requested" THEN 0 ELSE 1
        /\ phase' = "exited" /\ UNCHANGED <<argv, reports>>
    BY <1>5 DEF ParseThrows
  <2>2. reports' = <<>>
    BY <2>1 DEF ReportInv
  <2>3. status' = 1 \/ "help" \in DOMAIN argv'
    BY <2>1 DEF parse_config
  <2> QED BY <1>1, <2>1, <2>2, <2>3 DEF ReportInv, Threads
<1>6. CASE NextPreset
  <2>1. /\ print_preset_result /\ at' = at + 1 /\ phase' = "setup"
    BY <1>6 DEF NextPreset, EnterPreset
  <2>2. /\ Reported' /\ FromConfig' /\ Len(reports') = at /\ status' = 0 /\ at \in Int
    BY <2>1, ReportPrinted
  <2> QED BY <1>1, <2>1, <2>2 DEF ReportInv
<1>7. CASE LastPreset
  <2>1. /\ print_preset_result /\ at = Len(config.profiles) /\ phase' = "exited"
        /\ config' = config
    BY <1>7 DEF LastPreset, print_preset_result
  <2>2. /\ Reported' /\ FromConfig' /\ Len(reports') = at /\ status' = 0
    BY <2>1, ReportPrinted
  <2> QED BY <1>1, <2>1, <2>2 DEF ReportInv, Threads
<1> QED BY <1>2, <1>3, <1>4, <1>5, <1>6, <1>7 DEF Next, Main

LEMMA ReportHolds == Spec => []ReportInv
<1>1. Init => ReportInv
  BY DEF Init, ReportInv, HarnessInv, Threads, Halted
<1>2. ReportInv /\ [Next]_vars => ReportInv'
  BY ReportNext
<1> QED BY <1>1, <1>2, PTL DEF Spec

(* For every command line, the reports are those of the presets it names, in  *)
(* order and each once, with its overrides and no other change, and with the  *)
(* orders, trades and samples of as many runs as it asks for; a command line  *)
(* that is refused or asks for help reports nothing (benchmark.cpp:42-54,     *)
(* benchmark_config.hpp:244-325).                                             *)
THEOREM ReportsStayAsAsked == Spec => []ReportsWhatWasAsked
<1>1. ASSUME ReportInv PROVE ReportsWhatWasAsked
  <2>1. CASE reports = <<>>
    <3>1. DOMAIN reports = {}
      BY <2>1
    <3>2. phase = "exited" =>
            \/ reports = <<>> /\ (status = 1 \/ "help" \in DOMAIN argv)
            \/ status = 0 /\ Len(reports) = Cardinality(Asked)
      <4>1. ASSUME phase = "exited", status = 0, FromConfig,
                   Len(reports) = Len(config.profiles)
            PROVE  Len(reports) = Cardinality(Asked)
        <5>1. argv \in Argvs
          BY <1>1 DEF ReportInv, HarnessInv
        <5> QED BY <4>1, <5>1, ConfigAsAsked DEF FromConfig
      <4> QED BY <1>1, <4>1 DEF ReportInv
    <3> QED BY <3>1, <3>2 DEF ReportsWhatWasAsked
  <2>2. CASE reports # <<>>
    <3>1. argv \in Argvs /\ FromConfig /\ Reported
      BY <1>1, <2>2 DEF ReportInv, HarnessInv
    <3>2. GoodConfig(config)
      BY <3>1, Configured DEF FromConfig
    <3>3. Len(config.profiles) \in Nat
      BY <3>2 DEF GoodConfig
    <3>4. LET runs == IF "iterations" \in DOMAIN argv THEN argv["iterations"]
                                                     ELSE default_iterations
              quiet == "latency_stats" \in DOMAIN argv /\ argv["latency_stats"] \in Off
          IN  /\ config.benchmark.iterations = runs
              /\ config.benchmark.collect_latency <=> ~quiet
              /\ Len(config.profiles) = Cardinality(Asked)
              /\ \A r : \A k \in 1 .. Len(config.profiles) : r.profile = config.profiles[k] =>
                   \E i \in Asked : Place(i) = k /\ Meant(r, Presets[i])
      BY <3>1, ConfigAsAsked DEF FromConfig
    <3>5. ASSUME NEW k \in DOMAIN reports
          PROVE  /\ \E i \in Asked : Place(i) = k /\ Meant(reports[k], Presets[i])
                 /\ LET runs == IF "iterations" \in DOMAIN argv THEN argv["iterations"]
                                                               ELSE default_iterations
                        quiet == "latency_stats" \in DOMAIN argv
                                   /\ argv["latency_stats"] \in Off
                    IN  /\ reports[k].orders = runs * reports[k].profile["num_orders"]
                        /\ reports[k].trades = runs * Measured(reports[k].profile)
                        /\ reports[k].samples = IF quiet THEN 0 ELSE reports[k].orders
      <4>1. k \in 1 .. Len(reports) /\ k \in 1 .. Len(config.profiles)
        BY <3>1, <3>3 DEF Reported
      <4>2. reports[k] = ReportOf(k)
        BY <3>1, <4>1 DEF Reported
      <4>3. /\ reports[k].profile = config.profiles[k]
            /\ reports[k].orders =
                 config.benchmark.iterations * config.profiles[k]["num_orders"]
            /\ reports[k].trades =
                 config.benchmark.iterations * Measured(config.profiles[k])
            /\ reports[k].samples = IF config.benchmark.collect_latency
                                    THEN reports[k].orders ELSE 0
        BY <4>2 DEF ReportOf
      <4>4. \E i \in Asked : Place(i) = k /\ Meant(reports[k], Presets[i])
        BY <3>4, <4>1, <4>3
      <4> QED BY <3>4, <4>3, <4>4
    <3>6. phase = "exited" => status = 0 /\ Len(reports) = Cardinality(Asked)
      BY <1>1, <2>2, <3>4 DEF ReportInv
    <3> QED BY <3>5, <3>6 DEF ReportsWhatWasAsked
  <2> QED BY <2>1, <2>2
<1> QED BY <1>1, ReportHolds, PTL

------------------------------------------------------------------------------
(* Every iteration ends.  The steps that its three threads, and main's joins, *)
(* can still take: an event costs a push, a handler call, a push of the       *)
(* reading and its addition to the accumulator; each thread ends once.        *)
MatcherLeft == IF mpc = "poll" THEN 3 ELSE IF mpc = "ping" THEN 5 ELSE IF mpc = "forward" THEN 2 ELSE 0

JoinsLeft ==
  IF phase = "stats" THEN 3 ELSE IF phase = "matcher" THEN 2 ELSE IF phase = "producer" THEN 1 ELSE 0

IterationLeft ==
  (Total - produced) + 3 * (Total - Len(book)) + Len(stats_queue)
  + (IF ppc = "push" THEN 1 ELSE 0) + MatcherLeft + JoinsLeft

Joining == phase \in {"stats", "matcher", "producer"}

IterationShrinks ==
  /\ Joining => IterationLeft \in Nat /\ IterationLeft' \in Nat /\ IterationLeft' < IterationLeft
  /\ StartIteration => IterationLeft' = 4 * num_orders + 7

(* While main joins, the guard of a step of some thread, or of main, holds. *)
IterationCanStep ==
  Joining =>
    \/ ppc = "push" /\ Len(order_queue) < Room
    \/ mpc = "poll" /\ order_queue # <<>>
    \/ mpc \in {"ping", "forward"} /\ Len(stats_queue) < Room
    \/ spc = "poll" /\ stats_queue # <<>>
    \/ Exited(phase)

(* What the invariant says while main joins. *)
LEMMA JoiningFacts ==
  ASSUME HarnessInv, phase \in Threads
  PROVE  /\ Total \in Nat /\ produced \in Nat /\ Len(book) \in Nat /\ Len(stats_queue) \in Nat
         /\ produced <= Total /\ Len(book) <= produced
         /\ ppc \in {"push", "exited"} /\ spc \in {"poll", "exited"}
         /\ mpc \in {"poll", "ping", "forward", "exited"}
         /\ order_queue \in Seq(Nat) /\ Len(order_queue) = produced - Len(book) + EndOfOrders
         /\ stats_queue \in Seq(Nat) /\ Len(stats_queue) >= EndOfReadings
         /\ phase # "stats" => spc = "exited"
         /\ phase \in {"producer", "collect"} => mpc = "exited"
         /\ mpc \in {"forward", "exited"} => ppc = "exited" /\ Len(book) = Total
         /\ spc = "exited" => mpc = "exited"
         /\ book \in Seq(Nat)
<1>1. argv \in Argvs /\ Chosen /\ Iterating
  BY DEF HarnessInv
<1>2. PICK W, T, l, B : W = warmup_events /\ T = Total /\ l = PerEvent /\ B = Before
  OBVIOUS
<1>3. W \in Nat /\ T \in Nat
  BY <1>1, <1>2, ChosenFacts
<1>4. Feed(W, T) /\ Readings(W, l, B)
  BY <1>1, <1>2 DEF Iterating, Work
<1>5. /\ produced \in W .. T /\ Len(book) \in W .. produced
      /\ Carries(order_queue, Len(book), produced, EndOfOrders)
      /\ ppc \in {"push", "exited"} /\ mpc \in {"poll", "ping", "forward", "exited"}
      /\ mpc \in {"forward", "exited"} => ppc = "exited" /\ Len(book) = T
      /\ book \in Seq(Nat)
  BY <1>4 DEF Feed
<1>6. /\ Queued(W, l, B) \in Nat /\ Pings(stats_queue, Queued(W, l, B), EndOfReadings)
      /\ spc \in {"poll", "exited"} /\ (spc = "exited" => mpc = "exited")
  BY <1>4 DEF Readings
<1>7. /\ stats_queue \in Seq(Nat) /\ Len(stats_queue) \in Nat
      /\ Len(stats_queue) >= EndOfReadings
  <2>1. stats_queue \in Seq(Nat) /\ Len(stats_queue) = Queued(W, l, B) + EndOfReadings
    BY <1>6 DEF Pings
  <2>2. EndOfReadings \in {0, 1}
    BY DEF EndOfReadings
  <2> QED BY <1>6, <2>1, <2>2, LenProperties
<1>8. order_queue \in Seq(Nat) /\ Len(order_queue) = produced - Len(book) + EndOfOrders
  BY <1>5 DEF Carries
<1>9. /\ phase # "stats" => spc = "exited"
      /\ phase \in {"producer", "collect"} => mpc = "exited"
  BY <1>1 DEF Iterating
<1>10. /\ produced \in Nat /\ Len(book) \in Nat /\ produced <= Total /\ Len(book) <= produced
       /\ Total \in Nat
  BY <1>2, <1>3, <1>5
<1> QED BY <1>2, <1>5, <1>6, <1>7, <1>8, <1>9, <1>10

(* An iteration is at most four steps per event and seven more, for every     *)
(* queue size and interleaving: each step of a thread, and each join, comes   *)
(* closer to its end (benchmark.hpp:101-109, 140-163, 177-184, 256).          *)
THEOREM IterationsAreBounded == Spec => [][IterationShrinks]_vars
<1>1. ASSUME HarnessInv, HarnessInv', [Next]_vars PROVE [IterationShrinks]_vars
  <2>0. ASSUME StartIteration PROVE IterationLeft' = 4 * num_orders + 7
    <3>1. phase = "setup" /\ phase' = "stats"
      BY <2>0 DEF StartIteration
    <3>2. /\ warmup_events \in Nat /\ num_orders \in Nat /\ Total = warmup_events + num_orders
      BY <1>1, <3>1, ChosenFacts DEF HarnessInv
    <3>3. /\ ppc' = "push" /\ produced' = warmup_events /\ mpc' = "poll"
          /\ stats_queue' = <<>> /\ book' = [i \in 1 .. warmup_events |-> i]
          /\ UNCHANGED <<config, at>>
      BY <2>0 DEF StartIteration
    <3>4. Total' = Total
      BY <3>3 DEF Total, warmup_events, num_orders, profile
    <3>5. Len(book)' = warmup_events /\ Len(stats_queue)' = 0
      BY <3>2, <3>3, LenProperties, EmptySeq
    <3>6. MatcherLeft' = 3 /\ JoinsLeft' = 3
      BY <3>1, <3>3 DEF MatcherLeft, JoinsLeft
    <3> QED BY <3>2, <3>3, <3>4, <3>5, <3>6 DEF IterationLeft
  <2> SUFFICES ASSUME Next, Joining
               PROVE  \/ IterationLeft \in Nat /\ IterationLeft' \in Nat /\ IterationLeft' < IterationLeft
                      \/ UNCHANGED vars
    BY <1>1, <2>0 DEF IterationShrinks
  <2>1. phase \in Threads
    BY DEF Joining, Threads
  <2>2. /\ Total \in Nat /\ produced \in Nat /\ Len(book) \in Nat /\ Len(stats_queue) \in Nat
        /\ produced <= Total /\ Len(book) <= produced
        /\ ppc \in {"push", "exited"} /\ mpc \in {"poll", "ping", "forward", "exited"}
        /\ book \in Seq(Nat) /\ stats_queue \in Seq(Nat) /\ phase \in {"stats", "matcher", "producer"}
    BY <1>1, <2>1, JoiningFacts DEF Joining
  <2>3. CASE join
    <3>1. /\ phase' = CASE phase = "stats" -> "matcher" [] phase = "matcher" -> "producer"
                        [] phase = "producer" -> "collect"
          /\ UNCHANGED <<produced, book, stats_queue, ppc, mpc, config, at>>
      BY <2>3 DEF join, producer, matcher
    <3>2. Total' = Total
      BY <3>1 DEF Total, warmup_events, num_orders, profile
    <3>3. JoinsLeft \in Nat /\ JoinsLeft' \in Nat /\ JoinsLeft' < JoinsLeft
      BY <2>2, <3>1 DEF JoinsLeft
    <3>4. MatcherLeft \in Nat /\ MatcherLeft' = MatcherLeft
      BY <3>1 DEF MatcherLeft
    <3>5. UNCHANGED <<produced, Len(book), Len(stats_queue), ppc>>
      BY <3>1
    <3> QED BY <2>2, <3>2, <3>3, <3>4, <3>5 DEF IterationLeft
  <2>4. CASE Producer \/ Matcher \/ Stats
    <3>1. UNCHANGED <<config, at, phase>>
      BY <2>4 DEF Producer, ProducerPush, ProducerSentinel, Matcher, MatcherEvent, MatcherPing,
                  MatcherSentinel, forward_shutdown, Stats, StatsPing, StatsSentinel, main
    <3>2. Total' = Total /\ phase' \in Threads
      BY <2>1, <3>1 DEF Total, warmup_events, num_orders, profile
    <3>3. /\ produced' \in Nat /\ Len(book)' \in Nat /\ Len(stats_queue)' \in Nat
          /\ produced' <= Total /\ Len(book)' <= produced'
      <4>1. (HarnessInv /\ phase \in Threads =>
               /\ produced \in Nat /\ Len(book) \in Nat /\ Len(stats_queue) \in Nat
               /\ produced <= Total /\ Len(book) <= produced)'
        BY JoiningFacts, PTL
      <4> QED BY <1>1, <3>2, <4>1 DEF Threads
    <3>4. CASE ProducerPush
      <4>1. produced' = produced + 1 /\ UNCHANGED <<book, stats_queue, ppc, mpc>>
        BY <3>4 DEF ProducerPush, matcher
      <4> QED BY <2>2, <3>1, <3>2, <3>3, <4>1 DEF IterationLeft, MatcherLeft, JoinsLeft
    <3>5. CASE ProducerSentinel
      <4>1. ppc = "push" /\ ppc' = "exited" /\ UNCHANGED <<produced, book, stats_queue, mpc>>
        BY <3>5 DEF ProducerSentinel, matcher
      <4> QED BY <2>2, <3>1, <3>2, <3>3, <4>1 DEF IterationLeft, MatcherLeft, JoinsLeft
    <3>6. CASE MatcherEvent
      <4>1. /\ mpc = "poll" /\ mpc' \in {"ping", "poll"} /\ book' = Append(book, Head(order_queue))
            /\ order_queue # <<>> /\ UNCHANGED <<produced, ppc, stats_queue>>
        BY <3>6 DEF MatcherEvent, producer
      <4>2. Head(order_queue) \in Nat
        BY <1>1, <2>1, <4>1, JoiningFacts
      <4>3. Len(book)' = Len(book) + 1
        BY <2>2, <4>1, <4>2, AppendProperties
      <4> QED BY <2>2, <3>1, <3>2, <3>3, <4>1, <4>3 DEF IterationLeft, MatcherLeft, JoinsLeft
    <3>7. CASE MatcherPing
      <4>1. /\ mpc = "ping" /\ mpc' = "poll" /\ stats_queue' = Append(stats_queue, Ping)
            /\ UNCHANGED <<produced, ppc, book>>
        BY <3>7 DEF MatcherPing, producer
      <4>2. Len(stats_queue)' = Len(stats_queue) + 1
        BY <2>2, <4>1, AppendProperties DEF Ping
      <4> QED BY <2>2, <3>1, <3>2, <3>3, <4>1, <4>2 DEF IterationLeft, MatcherLeft, JoinsLeft
    <3>8. CASE MatcherSentinel
      <4>1. mpc = "poll" /\ mpc' = "forward" /\ UNCHANGED <<produced, ppc, book, stats_queue>>
        BY <3>8 DEF MatcherSentinel, producer
      <4> QED BY <2>2, <3>1, <3>2, <3>3, <4>1 DEF IterationLeft, MatcherLeft, JoinsLeft
    <3>9. CASE forward_shutdown
      <4>1. /\ mpc = "forward" /\ mpc' = "exited" /\ stats_queue' = Append(stats_queue, Shutdown)
            /\ UNCHANGED <<produced, ppc, book>>
        BY <3>9 DEF forward_shutdown, producer
      <4>2. Len(stats_queue)' = Len(stats_queue) + 1
        BY <2>2, <4>1, AppendProperties DEF Shutdown
      <4> QED BY <2>2, <3>1, <3>2, <3>3, <4>1, <4>2 DEF IterationLeft, MatcherLeft, JoinsLeft
    <3>10. CASE Stats
      <4>1. stats_queue # <<>> /\ stats_queue' = Tail(stats_queue) /\ UNCHANGED <<produced, ppc, book, mpc>>
        BY <3>10 DEF Stats, StatsPing, StatsSentinel, producer, matcher
      <4>2. Len(stats_queue)' = Len(stats_queue) - 1
        BY <2>2, <4>1, HeadTailProperties
      <4> QED BY <2>2, <3>1, <3>2, <3>3, <4>1, <4>2 DEF IterationLeft, MatcherLeft, JoinsLeft
    <3> QED BY <2>4, <3>4, <3>5, <3>6, <3>7, <3>8, <3>9, <3>10 DEF Producer, Matcher
  <2>5. ~(Parse \/ ParseThrows \/ StartIteration \/ EndIteration \/ NextPreset \/ LastPreset)
    BY DEF Joining, Parse, ParseThrows, StartIteration, EndIteration, NextPreset, LastPreset,
           print_preset_result
  <2> QED BY <2>3, <2>4, <2>5 DEF Next, Main, Finished
<1> QED BY <1>1, HarnessHolds, PTL DEF Spec

(* The three threads never wait for each other in a circle, and main never    *)
(* waits for one that cannot end: the stats queue, when full, has a reader;   *)
(* an empty order queue with a matcher that polls has a producer that can     *)
(* push, or has just got its sentinel (benchmark.hpp:101-116, 140-163, 256).  *)
THEOREM IterationsNeverStuck == Spec => []IterationCanStep
<1>1. ASSUME HarnessInv PROVE IterationCanStep
  <2> SUFFICES ASSUME Joining,
                      ~(ppc = "push" /\ Len(order_queue) < Room),
                      ~(mpc = "poll" /\ order_queue # <<>>),
                      ~(mpc \in {"ping", "forward"} /\ Len(stats_queue) < Room),
                      ~(spc = "poll" /\ stats_queue # <<>>),
                      ~Exited(phase)
               PROVE  FALSE
    BY DEF IterationCanStep
  <2>1. phase \in Threads /\ phase \in {"stats", "matcher", "producer"}
    BY DEF Joining, Threads
  <2>2. /\ ppc \in {"push", "exited"} /\ spc \in {"poll", "exited"}
        /\ mpc \in {"poll", "ping", "forward", "exited"}
        /\ order_queue \in Seq(Nat) /\ Len(order_queue) = produced - Len(book) + EndOfOrders
        /\ stats_queue \in Seq(Nat) /\ Len(stats_queue) >= EndOfReadings
        /\ phase # "stats" => spc = "exited"
        /\ phase \in {"producer", "collect"} => mpc = "exited"
        /\ mpc \in {"forward", "exited"} => ppc = "exited"
        /\ spc = "exited" => mpc = "exited"
        /\ produced \in Nat /\ Len(book) \in Nat /\ Len(book) <= produced
    BY <1>1, <2>1, JoiningFacts
  <2>3. phase = "stats" /\ spc = "poll"
    BY <2>1, <2>2 DEF Exited
  <2>4. stats_queue = <<>> /\ Len(stats_queue) = 0
    BY <2>3, EmptySeq
  <2>5. mpc = "poll"
    <3>1. mpc # "exited"
      BY <2>2, <2>3, <2>4 DEF EndOfReadings
    <3> QED BY <2>2, <2>4, <3>1, BenchmarkAssumption
  <2>6. order_queue = <<>> /\ Len(order_queue) = 0
    BY <2>5, EmptySeq
  <2>7. ppc = "exited"
    BY <2>2, <2>6, BenchmarkAssumption
  <2> QED BY <2>2, <2>5, <2>6, <2>7 DEF EndOfOrders
<1> QED BY <1>1, HarnessHolds, PTL
==============================================================================

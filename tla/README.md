# Verification of the matching engine

TLA+ models of the single-symbol matching engine in this repository, checked
with TLC on small instances and, where it matters most, proved with TLAPS for
every value of the constants. Paths are relative to the repository; line numbers
refer to the commit the project was written against.

## 1. The system

`matching_engine` reads order lines from standard input and writes events to
standard output. Three threads, two queues, one book:

    stdin -> reader --order queue--> matcher (clob_t) --output queue--> writer -> stdout
                 SIGINT / SIGTERM -> one stop_source, read by all three

| Component | State | Operations | What makes it correct |
|---|---|---|---|
| Message vocabulary (`message_types.hpp`, `input_event.hpp`, `output_event.hpp`) | none | event records | - |
| Order book `clob_t` (`order_book.hpp`) | two price ladders of intrusive FIFO lists, id lookup, node arena | add, cancel | lists, ladders and lookup agree; never crossed; price-time priority; one terminal event per add that accounts for its quantity; FOK all or nothing |
| Book memory (`clob_memory_t`, `clob_factory.hpp`) | monotonic arena, pool | allocate | nodes aligned, apart, never reused; the arena serves its capacity, the heap the rest |
| SPSC queue (`runtime/spsc_queue.hpp`) | two atomic indices, slots | `try_push`, `try_pop`, `size` | race-free bounded FIFO under release/acquire |
| Stream pipeline (`stream_pipeline.hpp`, `runtime/event_loop.hpp`) | place of each loop, queues | read, push, pop, emit, forward sentinel | output is a gap-free prefix of what the book emitted, complete on a graceful exit |
| Agents and main (`runtime/agent.hpp`, `runtime/agent_system.hpp`, `src/matching_engine.cpp`) | threads, agents, where they live | compose, start, join in reverse order | a thread's agent stays put while it runs; main leaves nothing behind |
| Signals (`runtime/signal_handler.hpp`, `src/signal_handler.cpp`) | previous handlers, lazily built global stop source | install, move, restore, request_stop | the innermost handler is in force; a signal is never lost; workers are covered |
| Input parser (`input_parser.hpp`) | none between lines | `parse_line`, `parse_stream` | accepts exactly the grammar |
| Output formatter (`output_formatter.hpp`) | none | one line per event | a reader of the grammar gets the event back |
| Benchmark harness (`benchmark/benchmark.hpp`, `src/benchmark.cpp`) | queues, trade counter, sums, reports | parse, iterate, replay, join, aggregate, report | sums and sample counts exact; runs what was asked |
| Latency statistics (`benchmark/statistics.hpp`) | count, moments, reservoir | add, snapshot | reservoir bounded and faithful |
| Order generator (`benchmark/order_generator.hpp`) | RNG, mid, heat, live ids | next | unique ids, each cancelled once; valid quotes on the right side of the touch |
| Command lines (`app/*_config.hpp`) | none | `parse_config` | refused or read as given; overrides reach their members |
| Profiles, timers | - | - | - |

Interaction: the reader calls the parser and pushes events; the matcher pops,
calls the book, and the book calls back the emitter, which spins on the output
queue *in the middle of the handler*; the writer pops and formats. End of input
travels as an in-band `shutdown_t`; a signal sets one flag that every push and
every pop tests. Only the matcher thread touches the book.

Hard to test, and therefore what the properties are about (the full list, line by
line, is `hazards` in `PROJECT.json`): list surgery after long sequences of
appends, mid-list cancels and fills; the saved cursor in `match_level`; two
places that erase a level; hand-kept level totals that the fill-or-kill probe
trusts; quantity overflow; duplicates detected after matching; stale index loads
in the ring; a stop request between any two steps; a full output queue inside a
handler; the sentinel racing a stop request; thread counters read after join; a
signal inside the construction of the object its handler uses; agents moved while
threads point at them; guards moved and nested; generator state that never learns
of fills; odd profiles from the command line; an arena that is one gap too small.

## 2. Modules

| Module | Models | Extends / composes |
|---|---|---|
| `MessageTypes` | the event vocabulary | |
| `OrderBook` | `clob_t`, one action per loop turn or branch of a handler | `MessageTypes` |
| `PriceTimeBook` | abstract book: a set of orders, matched best price then oldest | `MessageTypes` |
| `OrderBookRefinement` | the mapping under which `OrderBook` implements it | `OrderBook`, instance of `PriceTimeBook` |
| `Sums` | sums over finite sets | |
| `SumsProofs` | what such sums are, without an operator to induct on | `Sums` |
| `OrderBookProofs` | proofs about `OrderBook`, its refinement included | `OrderBookRefinement`, `SumsProofs` |
| `SpscQueue` | the ring, one action per shared-memory access | instance of `BoundedFifo` |
| `BoundedFifo` | abstract bounded queue | |
| `SpscQueueProofs` | proofs about `SpscQueue` | `SpscQueue` |
| `OutputFormatter` | the formatter's lines, and how a consumer reads them | `MessageTypes` |
| `Pipeline` | the process: three loops, both queues, stop token, joins | `OrderBook`, `OutputFormatter` |
| `PipelineProofs` | what holds of the book inside the process, of the streams around it, and no deadlock | `Pipeline`, `OrderBookProofs` |
| `SignalGuard` | `signal_guard` objects and the process's signal dispositions | |
| `EngineMain` | `main` around the pipeline: command line, guards, stop source, agents, signals | `SignalGuard` |
| `EngineMainProofs` | proofs about guards and main | `EngineMain` |
| `InputParser` | `parse_line`, `parse_stream` | `MessageTypes` |
| `InputParserProofs` | proof about `InputParser` | `InputParser` |
| `OrderGenerator` | `order_generator_t` | `MessageTypes` |
| `BookMemory` | the resting-order arena | |
| `GeneratedBook` | generated streams on a book with its memory | `OrderBook`, `OrderGenerator`, `BookMemory` |
| `GeneratedBookProofs` | proofs about arena, generator and the book they feed | `GeneratedBook`, `OrderBookProofs` |
| `BenchmarkConfig` | `benchmark_config::parse_config` | |
| `Benchmark` | `src/benchmark.cpp`, `run_preset`, its threads, the accumulator | `BenchmarkConfig`, `Sums` |
| `BenchmarkProofs` | proofs about `Benchmark` and its command line | `Benchmark`, `SumsProofs` |
| `MCPipeline`, `MCEngineMain`, `MCInputParser`, `MCGeneratedBook`, `MCBenchmark` | values of the constants for TLC | |

### How state and actions correspond to the code

**OrderBook.** `node` is the arena (addresses in order of allocation, never
reused), `prices`/`level` the two `std::pmr::map` ladders, `lookup` the
`unordered_map`. `pc` and `frame` are the locals of a handler in progress:
`idle` -> `RejectAdd`, `KillFok`, or `BeginMatch`; then `EnterLevel` is a turn of
`match_against`, `FillRestingWhole`/`FillRestingPart` a turn of `match_level`
(with `retire_resting`), `LeaveLevel` its return and the pop of a drained level,
`FinishFilled`/`FinishResting`/`FinishDuplicate`/`FinishCancelled` the rest of
`add_order`. `CancelResting` is `cancel_resting` with `detach`. `emitted`
collects the events of the input being handled. Sums of `quantity_t` go through
`Wrap`: signed overflow is undefined in C++, and the model takes the
two's-complement result that the release build computes. A retired node is reset
to `RawNode`: the code only marks it inactive and never reads it again.

**PriceTimeBook.** What the book promises: orders with a ticket in order of
arrival, and for an add in progress the first order in price-time order inside its
limit, or a terminal event when there is none. `Kill` refuses a fill-or-kill order
that is short of supply, and may refuse one whose supply `quantity_t` cannot count:
the promise is no stronger than what the code's wrapped totals can keep.
`OrderBookRefinement` reads the resting orders off the active nodes, an address
serving as the ticket; entering and leaving a level are steps that change nothing.

**SpscQueue.** `head`, `tail`, `slots` as in the code; the locals of `try_push`
and `try_pop` are `phead` and `ctail`. An acquire load may return any value stored
since the one that thread saw last (`tailSeen .. pops`, `headSeen .. pushes`), so
the model covers the staleness that the memory model allows and not only
sequentially consistent interleavings. Values are numbered in push order.

**Pipeline.** Queues are sequences of at most `Room` entries, which
`ImplementsBoundedFifo` justifies. The book steps of `OrderBook` run inside the
matcher; each event it emits is pushed (`EmitPush`) or, after a stop request,
dropped (`EmitDrop`) before the next book step. `seen` is the set of threads that
have read the token as set: a thread continues as before until a test of its own
returns true, which covers both a signal between test and access and a late view
of the flag. `fed`, `handled` and `past` are histories. A spin turn that finds
nothing changes nothing and is not a step.

**InputParser.** A line is the sequence of its trimmed fields; the "rest of the
line" is the same empty string for no field and for one empty field, as in
`std::string_view`. `from_chars` is a function on the fields that are integer
literals. The three causes of refusal are kept, their wording is not.

**OutputFormatter.** `Format` is the formatter, a line the sequence of its fields;
`ReadBack` is not from the code: it reads a line by the output grammar of the help
text, and the engine's properties compare what it gives with what the book emitted.

**SignalGuard.** A guard object is `[alive, signum, previous, active]`, `handler`
the dispositions that `std::signal` swaps. `installed` records the registrations
in force; `Innermost` is the rule of the class comment (nested lifetimes), which
`Move` and `Destroy` require of their caller.

**EngineMain.** `stage` is main's program counter, `inside[t]` the handlers running
on thread `t`. A handler blocks its own signal, so the other one may nest in it.
`global_stop_source` is two steps (`BeginStatic`, `EndStatic`), because its static
is built by the first caller; a handler that finds it half built below itself on
its own thread is undefined behaviour, here `hung` or `terminated` (`Reenter`).
`Throw` is any allocation or thread creation that fails: main catches only its two
own exceptions. `captured` is where an agent was when its thread took its address.
What the workers do in between is `Pipeline`.

**OrderGenerator.** Random draws are choices; the probabilities that weigh them are
left out. `lround(mid + n)` is `lround(mid) + n` for whole `n` where it is positive,
and below that the clamp decides, so mids are whole numbers; a passive distance is
any number and is rounded with the price. `--initial-mid`, `--mu` and `--sigma` are
not checked, so `exp(log_mid_)` may also be NaN (a start below zero), infinite or too
large for a `double` to hold halves: such a mid is `Wild`, and what `lround` makes of
it is any member of the constant `Longs`. The prices of a draw are therefore a set,
with one member when the mid is a number. The clamps on tick, spread, price and
quantity are kept, with the negative and inverted values that overrides can produce.

**BookMemory.** Addresses are relative to a buffer, in units of the alignment that
operator new gives the arena; the arena's start within a line is arbitrary. The
rules of `std::pmr::monotonic_buffer_resource` are external: an aligned place in
the current buffer, or a new one from the heap half as large again.

**GeneratedBook.** The generator never looks at the book, so feeding each event as
it is generated is the same as generating the stream first. `Handle` allocates a
node exactly when `rest_order` does. What is drawn is bounded by the ids, prices and
quantities of the book's model (`e \in AddEvent` in `FeedAdd`).

**BenchmarkConfig, Benchmark.** A command line is a function from flags to values.
Generator and book are deterministic, so `TradesOf(p, i)` stands for the trades of
event `i` of profile `p`'s stream on a book that has seen the events before it,
and `TotalsAreExact` checks that every book has. Stop requests are left out: nobody
requests one on the local `stop_source`.

## 3. Runs

| Run | Shows |
|---|---|
| `book_safety` | all structural invariants of the book, quantity accounting, FOK, and price-time priority as an action property; three ids, two prices, quantities 1-2, four allocations, a `quantity_t` so narrow that totals wrap |
| `book_refines` | `OrderBook` implements `PriceTimeBook` and every handler returns; ids, prices and quantities include 0, so every rejection happens, and the width is 3, so totals wrap |
| `book_duplicate` | *violation*: an order rejected as DUP has traded |
| `queue` | the ring is a race-free bounded FIFO over more than two laps, and every value gets through |
| `engine` | no gap in input or output, sentinel last, graceful exit complete; the end of standard input ends the process, a stop request ends matcher and writer |
| `engine_abort_reader` | *violation*: a stop request does not end a reader that waits for input |
| `engine_main` | while a worker runs both signals are handled and the stop source is built; agents stay where their threads expect them; an accepted signal requests the stop; main restores handlers and returns the right code |
| `signal_guard` | the handler in force is that of the latest registration still held |
| `parser_grammar` | the parser accepts exactly the grammar up to one trailing comma |
| `parser_field_count` | *violation*: a line with a surplus empty field is accepted |
| `benchmark` | the presets asked for, with the overrides given, and no other; sums, sample counts and reservoir are exact; the program ends |
| `generated_book` | every id issued rests, was filled or was cancelled, and the generator's live set agrees; quotes are valid and on their side; nodes are apart and the arena serves its capacity |

The three violations are disagreements between a comment and the code, described
in `findings` of `PROJECT.json`. What else the models show of the code:

* Sums of `quantity_t` are not checked for overflow. `LevelTotalsExact` holds
  modulo the width and a FOK never trades in part, but `FokKilledOnlyIfShort` can
  only be stated while what rests within the limit fits the type: beyond it the
  probe may see a negative sum and kill an order that could be filled.
* Between the installation of the handlers and the first use of the stop source a
  signal may re-enter the construction of the static; `WorkersAreCovered` bounds
  the window: it is over before the first thread starts.
* `live_` keeps ids that were filled ("Cancels sample only existing resting ids",
  `order_generator.hpp:19`, holds only without fills): such a cancel is rejected as
  unknown, once, and `EveryOrderHasOneFate` shows that nothing else is off.
* A negative `--tick-size` is clamped for the grid but not for the depth of an
  order, which then lies on the wrong side of its touch; `QuotesRespectTouch`
  claims validity for it, and sides only for sizes of zero and more.
* A mid that is NaN or out of range (`--initial-mid -1`, `--mu 50`) makes the result
  of `lround` unspecified. On x86-64 it is the least `long`, every quote and both
  touches are then one tick, and an aggressive order does not pass the touch
  ("aggressive Adds cross the far touch", `order_generator.hpp:24`). Quantity, sign
  and grid hold for every such result; the sides are claimed for other mids only.
* With a capacity whose nodes fill whole pages the last node comes from the heap
  when the arena does not start on a cache line (`Tight` in `BookMemory`).

**Bounds and why they are enough.** Two prices give a best and a worse level on
each side; three ids with four allocations give lists of three with a middle, and
reuse of an id after a fill, a cancel and while it rests. Quantities 1 and 2 give
exact, partial and multi-order fills; with `QtyMax = 3` two orders overflow a
total, with 127 none does. The ring is checked at `Capacity = 4` over nine pushes.
The engine has three input lines out of four (orders that trade, rest and are cut
short, a cancel) and queues of two entries, so that one match fills the output queue
inside a handler. `engine_main` has three signals, enough for one handler nested in
another on one thread and a third on another. `signal_guard` has three guards, so that
one is moved over a second while a third holds the same signal, and a signal that
cannot be caught. `generated_book` replays five events on one profile and checks
only the draws of five odd ones; its lines are 2 units, its pages 4, and its
capacities fill a page and do not. `Longs` has one value below every tick and one
on the grid; the proof takes any. `benchmark` has five presets of at most three
orders, one override to five, up to three iterations, and a reservoir of three, so
that readings are replaced. `MaxNodes`, `MaxPush`, `MaxLines`, `MaxSignals` and
`MaxDepth` bound unbounded counters; no run depends on reaching them:
`MaxLines <= MaxNodes` and `StreamAssumption` keep the arena bound from blocking;
for the engine this is part of `EngineNeverStuck`.

**Fairness.** `OrderBook!FairSpec`: weak fairness of a handler in progress, since
the matcher thread keeps executing. `SpscQueue!FairSpec`: weak fairness of each
thread, and strong fairness of the two successful loads, because a store becomes
visible after finite time (C++ [intro.progress]) and the loops retry.
`Pipeline!ThreadSpec`: weak fairness of each thread, of noticing a stop request
and of main; nothing is assumed of standard input, so `getline` may wait for
ever. `Benchmark!FairSpec`: weak fairness of the threads and of main. The other
modules state safety only. Deadlock is checked in every run; the steps `Terminated`,
`Finished`, `Over` and `StreamOver` mark the states in which the program has ended.

## 4. Proofs

All for arbitrary constants under the named assumptions, which TLC evaluates in
the runs: `MessageAssumption`, `BookAssumption`, `QueueAssumption`,
`PipelineAssumption`, `GuardAssumption`, `MainAssumption`, `ParserAssumption`,
`MemoryAssumption`, `GeneratorAssumption`, `StreamAssumption`, `BenchmarkAssumption`,
`TradesAssumption`. They say that ids, prices, quantities and counts are of their
C++ types, that capacities and sizes are not zero, which signals, handlers and
presets there are, and that the presets have distinct names.

**The book** (`OrderBookProofs`).

* `TypeCorrect`, `NeverCrossed`. `BookNotCrossed` is inductive with `TypeOK`: the
  only step that adds a price is `FinishResting`, and there `MatchDone` says that
  the best opposite price does not cross; by the definition of best no other does.
* `ListsStayFifo`, `LookupStaysExact`, `CursorStaysLive`, `LaddersStayMatched`.
  None of these is inductive alone: unlinking is right only if the links are, the
  cursor is a live head only if the lists are, and retiring erases the right
  lookup entry only if ids are unique. Their conjunction `Structure`, with
  `NodesHaveLevels` and `NoEmptyLevels`, is. The lists are characterised without
  recursion: a list holds a set of addresses in increasing order, and every link
  points to the neighbour in that set; unlinking and appending are then lemmas
  about neighbours.
* `PriorityRespected` follows from `Structure`: what a step takes is taken at the
  cursor, which is the smallest live address of the best crossed level.
* `LevelTotals`. Every action changes what rests at a price by one share, of the
  node it appends, detaches or fills (`DepthChange`), and `total` by the same
  amount modulo the width of `quantity_t` (`WrapShift`); `Structure` says which
  node that is. The theorem is about any width, so also about totals that wrap.
* `TerminalAccounts`. The strengthening `InProgressAccounts` relates the trades
  emitted so far to `filled` and `residual` inside the handler.
* `FokIsAllOrNothing`, `FokKillsAreJustified`. The invariant `FokPromise` says that
  while a fill-or-kill order is being matched, what rests inside its limit covers
  its residual: `ProbeCovers` establishes it, since each wrapped total and each
  wrapped partial sum is at most the true one; a fill lowers both sides alike, and when
  matching ends nothing is left inside the limit, so nothing of the order is left
  either. A kill is justified where no sum wraps (`ProbeComplete`).
* `BookImplementsPriceTimeBook`: the initial states map to the empty abstract book,
  and one lemma per action shows its abstract step or stutter, under `TypeOK` and
  `Structure`. Three facts carry it. An active node is an abstract order and its
  address decides its age, so the cursor, the least live address of the best
  crossed level, is the abstract book's first candidate. The abstract supply, a sum
  over orders, is the sum over nodes of what rests inside the limit (`SumImage`,
  `SupplyIsDepth`), so the fill-or-kill probe is right where the supply can be
  counted. An id is taken in the abstract book exactly if `lookup` has it
  (`TakenIsLookup`), which decides between resting and a duplicate.
* `HandlersAreBounded`, `HandlersNeverStuck`: the two halves of `HandlerTerminates`
  that need no fairness. `StepsLeft` counts what a handler may still do, from its
  residual and its place; every step lowers it, and in every state inside a handler
  the guard of some step holds. What is left to TLC is the step from there to
  termination under weak fairness.

**Sums** (`SumsProofs`). The prover cannot use induction theorems that take an
operator, so the lemmas start from the least element of a set of naturals
(`Least`), give induction for sets of naturals (`NatInduct`) and for finite sets
(`SetInduct`), and derive how a sum changes with one element, a union or other
weights, or along a one-to-one mapping of its index set.

**The ring** (`SpscQueueProofs`). `RaceFree`, `DeliversInOrder`, `SizeIsExact`: the
invariant `QueueInv` relates the masked indices to the numbers of pushes and pops,
bounds what each thread last saw of the other, and fixes the contents of the slots
between them. The arithmetic (`IndexUnique`: counts less than a lap apart share an
index only if equal) is proved from division with remainder. `ImplementsFifo`: the
abstract queue is the sequence of values published and not yet copied out; storing
`head` is its push, copying a value out its pop, every other step a stutter.

**The engine** (`PipelineProofs`).

* `EngineRunsBook`: every engine step is a book step or leaves the book alone, so
  the book's theorems carry over (`EngineNeverCrossed`, `EngineRespectsPriority`,
  `EngineAccounts`, `EngineImplementsPriceTimeBook`).
* `InputInOrder`, `OutputInOrder`, `SentinelEndsStream`, `GracefulExit`. The
  invariant `FlowInv` describes each queue as a channel: what was taken out, then
  what is inside, is what was put in, up to one sentinel at the very end whose
  sender has stopped; each loop's place says which message it holds; and without a
  stop request nothing has been dropped. `GracefulExit` needs all of it, from the
  parser to the flush.
* `EngineNeverStuck`: until main has returned, the guard of a step of some thread, or
  of main, holds. `FlowInv` is not enough: `Places` says that the matcher is inside
  the book exactly while a handler runs, `Handovers` that a thread that ended
  without having seen a stop request has left a sentinel for the next one or the
  next one has taken it, and `NodesPaidFor` that no line costs more than one node,
  so the bound on the arena never blocks. The argument goes from the writer back: an
  empty output queue frees the matcher, an empty input queue the reader, and after a
  stop request every thread that has not seen it can.

**Main and signals** (`EngineMainProofs`). `InnermostHandler`: guards hold the chain
of previous handlers, each the handler of the next older registration of the same
signal (`GuardInv`), which move and destruction preserve under the nesting rule.
`MainKeepsGuardRule`: main obeys that rule, as a refinement of `SignalGuard`.
`WorkersCovered`, `AgentsStayPut`, `SignalsAreKept`, `MainCleansUp`: the invariant
`MainInv` ties each stage of main to the guards it holds, to the threads that exist,
to where the agents are, to the state of the stop source and to how the process can
end, and an accepted signal to a handler that is still inside or a stop that is
requested; for any number of signals.

**The parser** (`InputParserProofs`). `ParserAcceptsGrammar`: lines of any length over
any fields. `LineRead` states it of one line: the parser takes a fixed number of fields
and then asks whether anything is left, so the cases are the lengths of the grammar and
one trailing comma, and no induction over lines is needed; `Read` carries it along
`parse_stream`.

**Arena, generator and their book** (`GeneratedBookProofs`). `NodesStayApart`,
`ArenaHoldsCapacity`: `MemInv` places every node in its buffer, below the bump
pointer and at an aligned address, and counts those in the arena; rounding up is
treated in lemmas of its own. `QuotesAreSound`: each draw, whatever the profile,
the overrides and the mid. `PricesOnGrid` needs no more of `lround` than that it
returns a whole number; `OneQuote` and `QuoteFacts` give the side for mids that are
numbers. `StreamRunsBook`: what the generator draws are inputs of the book, so
`Structure` and the other theorems hold here too. `FatesAreUnique`: the property
speaks of the moments between handlers and is not inductive. `StreamInv` adds what
the generator knows (issued ids, the live list without repetition, cancelled ids);
`FateInv` says at every step inside a handler that an id issued, other than the
one being matched, was filled, was cancelled or is in `lookup`, and only one of
these, counting what the handler has just emitted; that every cancel was answered
by a cancellation or by a reject after a fill; that the live entries give the side
and price of their nodes; and that the add being matched is the last id issued.

**The benchmark** (`BenchmarkProofs`).

* `ReservoirStaysFaithful`, with `Reservoir` (samples are distinct readings among
  those counted) as the inductive invariant.
* `TotalsStayExact`, `ReadingsStayExact`. `Work` describes an iteration in progress:
  the order queue carries exactly the events between the book and the producer, then
  a sentinel; the trade counter is the sum over the measured events the book has
  seen; readings counted, queued and about to be sent add up. `HarnessInv` adds what
  main knows: which threads it has joined, and the sums of completed iterations.
  Joining in reverse order is what makes the counter final when it is read.
* `ReportsStayAsAsked`. `ReportInv` says which profiles have been reported and with
  which numbers; `ConfigAsAsked` that what `parse_config` returns is what the flags
  say, read independently of the code: `Asked` and `Place` from the selection,
  `Meant` from the help text's own pairing of flags and members (`FlagFor`,
  `Overridable`), which `FlagOfMember` shows to be the code's (`OverriddenMember`).
* `IterationsAreBounded`, `IterationsNeverStuck`: each step of a thread and each join
  lowers `IterationLeft`, which starts at four times the measured events plus
  seven, and while main joins some thread or main can go on. These are the halves of
  `PresetEnds` that need no fairness, for one iteration; the number of iterations
  and presets is finite by the configuration.

**Only model-checked.** Liveness, since fairness and `ENABLED` are outside the
prover: `HandlerTerminates`, `EveryPushIsPopped`, `ProducerGetsThrough`,
`EofEndsProcess`, `AbortStopsWorkers`, `PresetEnds`. For the first and the last,
the variant and the absence of a stuck state are proved as above, for
`EofEndsProcess` the absence of a deadlock. Every invariant, action property and
refinement that a passing run checks is also proved.

## 5. Not modelled

* Timers, latency values, Welford moments and quantiles: floating point.
* The generator's probabilities, heat and mid-price processes: only the values they
  can produce matter to the properties, and these are chosen freely.
* A `--warmup` and `--orders` whose sum exceeds `size_t` (`benchmark.hpp:191`): the
  code's sum wraps, `Total` adds them as numbers.
* Market profiles: constant records, constants of the models.
* CPU pinning (its result is ignored by the code), help texts, report layout,
  diagnostics on standard error.
* The pool behind ladders and lookup (`ladder_lookup_arena_byte_count`): allocation
  inside the standard library, unobservable but for speed.
* Memory exhaustion inside a handler (`bad_alloc` in a `noexcept` loop ends the
  process).
* `queue_source_t`, `size`-like accessors and deduction guides: no behaviour.

## 6. Plan

Done: the book with its abstract specification and structural proofs, the ring
with its proofs, the engine with formatter, main with signals and agents, guards,
parser, generator with book and arena, the benchmark from its command line to its
reports.

Proved: every invariant and action property of the passing runs, the refinements of
the abstract book by `clob_t`, of the bounded queue by the ring and of the guard
rule by main, and that handlers, engine and benchmark iterations never get stuck.

Possible next steps: a variant for the whole engine after the end of input, which
needs a sum over the queued events of what their handlers may still do; the ladder
and lookup pool, once its allocation pattern is fixed by the standard library used.

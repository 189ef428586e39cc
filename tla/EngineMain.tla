------------------------------ MODULE EngineMain ------------------------------
(***************************************************************************)
(* main of src/matching_engine.cpp around the pipeline: the command line   *)
(* (include/app/matching_engine_config.hpp), the signal guards, the global *)
(* stop_source of src/signal_handler.cpp, the agents and their threads     *)
(* (runtime/agent.hpp, runtime/agent_system.hpp), and signals at any time. *)
(*                                                                         *)
(* What a worker does between its start and its end is Pipeline's matter.  *)
(* A process-directed signal runs its handler on any thread that does not  *)
(* block it; a handler blocks its own signal on its thread.                *)
(***************************************************************************)
EXTENDS SignalGuard

CONSTANTS Argv,        \* command lines
          MaxSignals   \* bound: signals sent to the process

Agents == <<"reader", "matcher", "writer">>           \* in order of declaration
Worker == {"reader", "matcher", "writer"}
Thread == Worker \cup {"main"}
Hooked == {"SIGINT", "SIGTERM"}

ASSUME MainAssumption ==
  /\ Signum = Hooked /\ Guard = Hooked /\ Uncatchable = {}
  /\ {"SIG_DFL", "SIG_IGN", "request_stop"} = Disposition
  /\ Argv \subseteq [refused: BOOLEAN, help: BOOLEAN, capacity: Int, cpus: SUBSET Int]
  /\ MaxSignals \in Nat

VARIABLES
  argv,       \* the command line, fixed
  stage,      \* main: what it does next
  status,     \* "running"; or how the process ended: "exit0", "exit1", "killed"
              \* (default action), "terminated" (std::terminate), "hung"
  static,     \* global_stop_source()'s instance: "raw", "constructing", "ready"
  owner,      \* who constructs it: <<thread, handlers it is inside of>>
  stop,       \* stop_requested()
  inside,     \* Thread -> handlers running on it, as signals, innermost last
  where,      \* Worker -> where its agent_t is: "none", "local", "system"
  captured,   \* Worker -> the agent its thread was given: "none" before start
  running,    \* workers whose thread runs
  sent,       \* signals sent so far
  accepted    \* history: request_stop_signal_handler was entered

mainVars == <<guardVars, argv, stage, status, static, owner, stop, inside,
              where, captured, running, sent, accepted>>

engineInit ==
  /\ handler \in [Signum -> {"SIG_DFL", "SIG_IGN"}]
  /\ guardInit
  /\ argv \in Argv
  /\ stage = "parse" /\ status = "running"
  /\ static = "raw" /\ owner = <<>> /\ stop = FALSE
  /\ inside = [t \in Thread |-> <<>>]
  /\ where = [w \in Worker |-> "none"]
  /\ captured = [w \in Worker |-> "none"]
  /\ running = {}
  /\ sent = 0 /\ accepted = FALSE

(* A flag that is absent has its default, which is in range. *)
parse_config ==
  IF argv.refused THEN "parse_error"                    \* by cxxopts
  ELSE IF argv.help THEN "help_requested"
  ELSE IF argv.capacity = 0 \/ \E c \in argv.cpus : c < 0 THEN "parse_error"
  ELSE "config"

(* A step of main: its thread is in no handler. *)
MainAt(s) == status = "running" /\ stage = s /\ inside["main"] = <<>>

UnchangedBut == UNCHANGED <<argv, inside, sent, accepted>>

Parse ==
  /\ MainAt("parse")
  /\ CASE parse_config = "config"         -> stage' = "sigint" /\ status' = status
       [] parse_config = "help_requested" -> stage' = "end" /\ status' = "exit0"
       [] parse_config = "parse_error"    -> stage' = "end" /\ status' = "exit1"
  /\ UnchangedBut /\ UNCHANGED <<guardVars, static, owner, stop, where, captured, running>>

(* make_stop_source_signal_guards *)
HookSigint ==
  /\ MainAt("sigint")
  /\ Construct("SIGINT", "SIGINT", "request_stop")
  /\ stage' = "sigterm"
  /\ UnchangedBut /\ UNCHANGED <<status, static, owner, stop, where, captured, running>>

(* Mutant: only SIGINT is hooked. *)
Mut_HookSigterm ==
  /\ MainAt("sigterm")
  /\ Default("SIGTERM")
  /\ stage' = "token"
  /\ UnchangedBut /\ UNCHANGED <<status, static, owner, stop, where, captured, running>>

HookSigterm ==
  /\ MainAt("sigterm")
  /\ Construct("SIGTERM", "SIGTERM", "request_stop")
  /\ stage' = "token"
  /\ UnchangedBut /\ UNCHANGED <<status, static, owner, stop, where, captured, running>>

(* global_stop_source(), called by main and by a handler: the first caller     *)
(* constructs the instance.                                                    *)
Caller(t) == <<t, Len(inside[t])>>

BeginStatic(t) ==
  /\ static = "raw"
  /\ static' = "constructing"
  /\ owner' = Caller(t)
  /\ UNCHANGED <<guardVars, argv, stage, status, stop, inside, where, captured,
                 running, sent, accepted>>

(* Mutant: the handler that found no instance returns with one, unused. *)
Mut_EndStatic(t) ==
  /\ static = "constructing" /\ owner = Caller(t)
  /\ static' = "ready"
  /\ owner' = <<>>
  /\ inside' = [inside EXCEPT ![t] = SubSeq(@, 1, Len(@) - 1)]
  /\ UNCHANGED <<guardVars, argv, stage, status, stop, where, captured, running,
                 sent, accepted>>

EndStatic(t) ==
  /\ static = "constructing" /\ owner = Caller(t)
  /\ static' = "ready"
  /\ owner' = <<>>
  /\ UNCHANGED <<guardVars, argv, stage, status, stop, inside, where, captured,
                 running, sent, accepted>>

TokenCall == MainAt("token") /\ (BeginStatic("main") \/ EndStatic("main"))

Token ==
  /\ MainAt("token")
  /\ static = "ready"
  /\ stage' = "build"
  /\ UnchangedBut
  /\ UNCHANGED <<guardVars, status, static, owner, stop, where, captured, running>>

(* The book and the three make_agent calls. *)
Build ==
  /\ MainAt("build")
  /\ where' = [w \in Worker |-> "local"]
  /\ stage' = "compose"
  /\ UnchangedBut /\ UNCHANGED <<guardVars, status, static, owner, stop, captured, running>>

(* make_agent_system moves the agents. *)
Compose ==
  /\ MainAt("compose")
  /\ where' = [w \in Worker |-> "system"]
  /\ stage' = "start"
  /\ UnchangedBut /\ UNCHANGED <<guardVars, status, static, owner, stop, captured, running>>

(* agent_system_t::start: the next agent's thread, which keeps a pointer to    *)
(* its agent.                                                                  *)
start ==
  /\ MainAt("start")
  /\ \E i \in DOMAIN Agents :
       /\ \A j \in DOMAIN Agents : captured[Agents[j]] # "none" <=> j < i
       /\ captured' = [captured EXCEPT ![Agents[i]] = where[Agents[i]]]
       /\ running' = running \cup {Agents[i]}
       /\ stage' = IF i = Len(Agents) THEN "join" ELSE "start"
  /\ UnchangedBut /\ UNCHANGED <<guardVars, status, static, owner, stop, where>>

(* Allocation of queues or book, or creation of a thread, throws: no handler   *)
(* of main matches.                                                            *)
Throw ==
  /\ MainAt("sigint") \/ MainAt("build") \/ MainAt("start")
  /\ status' = "terminated"
  /\ UnchangedBut
  /\ UNCHANGED <<guardVars, stage, static, owner, stop, where, captured, running>>

WorkerReturns(w) ==
  /\ status = "running"
  /\ w \in running /\ inside[w] = <<>>
  /\ running' = running \ {w}
  /\ UnchangedBut
  /\ UNCHANGED <<guardVars, stage, status, static, owner, stop, where, captured>>

(* Mutant: a thread that runs on is not waited for. *)
Mut_Joined == "writer" \notin running

(* agent_system_t::join waits for each agent in turn, from the last. *)
Joined == running = {}

(* join returns and system is destroyed. *)
Unwind ==
  /\ MainAt("join")
  /\ Joined
  /\ where' = [w \in Worker |-> "none"]
  /\ stage' = "unhook"
  /\ UnchangedBut /\ UNCHANGED <<guardVars, status, static, owner, stop, captured, running>>

(* The members of signal_hooks end in reverse order; then main returns. *)
Unhook ==
  /\ MainAt("unhook")
  /\ IF guard["SIGTERM"].alive
     THEN Destroy("SIGTERM") /\ UNCHANGED <<stage, status>>
     ELSE Destroy("SIGINT") /\ stage' = "end" /\ status' = "exit0"
  /\ UnchangedBut /\ UNCHANGED <<static, owner, stop, where, captured, running>>

------------------------------------------------------------------------------
(* Signal s arrives on thread t. *)
Kill(s) ==
  /\ handler[s] = "SIG_DFL"
  /\ status' = "killed"
  /\ UNCHANGED <<inside, accepted>>

EnterHandler(s, t) ==
  /\ handler[s] = "request_stop"
  /\ \A i \in DOMAIN inside[t] : inside[t][i] # s
  /\ inside' = [inside EXCEPT ![t] = Append(@, s)]
  /\ accepted' = TRUE
  /\ UNCHANGED status

Signal(s, t) ==
  /\ status = "running" /\ sent < MaxSignals
  /\ t \in running \cup {"main"}
  /\ Kill(s) \/ EnterHandler(s, t)
  /\ sent' = sent + 1
  /\ UNCHANGED <<guardVars, argv, stage, static, owner, stop, where, captured, running>>

(* request_stop_signal_handler on thread t. *)
RequestStop(t) ==
  /\ static = "ready"
  /\ stop' = TRUE
  /\ inside' = [inside EXCEPT ![t] = SubSeq(@, 1, Len(@) - 1)]
  /\ UNCHANGED <<guardVars, argv, stage, status, static, owner, where, captured,
                 running, sent, accepted>>

(* The instance is being constructed below this handler on the same thread:    *)
(* undefined.  The guard of the static is never released, or the runtime       *)
(* notices and throws out of a noexcept function.                              *)
Reenter(t) ==
  /\ static = "constructing" /\ owner # Caller(t)
  /\ status' \in {"hung", "terminated"}
  /\ UnchangedBut
  /\ UNCHANGED <<guardVars, stage, static, owner, stop, where, captured, running>>

HandlerStep(t) ==
  /\ status = "running"
  /\ inside[t] # <<>>
  /\ BeginStatic(t) \/ EndStatic(t) \/ RequestStop(t) \/ Reenter(t)

Over == status # "running" /\ UNCHANGED mainVars

MainStep ==
  \/ Parse \/ HookSigint \/ HookSigterm \/ TokenCall \/ Token \/ Build \/ Compose
  \/ start \/ Throw \/ Unwind \/ Unhook

engineNext ==
  \/ MainStep
  \/ \E w \in Worker : WorkerReturns(w)
  \/ \E s \in Signum, t \in Thread : Signal(s, t)
  \/ \E t \in Thread : HandlerStep(t)
  \/ Over

engineSpec == engineInit /\ [][engineNext]_mainVars

------------------------------------------------------------------------------
(* While a worker exists no signal can kill the process or catch the          *)
(* stop_source half made: both signals have the handler of                    *)
(* signal_handler.cpp:14, and its static is constructed.  The process can be  *)
(* killed, or caught in the re-entered construction, only before the first    *)
(* thread is started and after the last has been joined                       *)
(* (matching_engine.cpp:33-34, 60-61).                                        *)
WorkersAreCovered ==
  running # {} =>
    /\ \A s \in Signum : handler[s] = "request_stop"
    /\ static = "ready"
    /\ status \notin {"killed", "hung"}

(* A thread's agent stays where it was when the thread took its address: the  *)
(* agents are moved before they are started, and destroyed after every thread *)
(* has been joined (agent.hpp:55, agent_system.hpp:32, matching_engine.cpp:57). *)
ThreadsUseLiveAgents ==
  status = "running" => \A w \in running : captured[w] = where[w] /\ where[w] # "none"

(* A signal that reached the handler has requested the stop by the time the   *)
(* handlers have returned, nested ones and ones that had to construct the     *)
(* stop_source themselves included (signal_handler.cpp:5-16).                 *)
SignalNotLost ==
  accepted /\ (\A t \in Thread : inside[t] = <<>>) => stop

(* When main returns, no thread runs, both signals are handled as they were   *)
(* before, and the exit code is 1 exactly when the command line was refused   *)
(* (matching_engine.cpp:62-68, matching_engine_config.hpp:65-113).            *)
MainLeavesNothing ==
  status \in {"exit0", "exit1"} =>
    /\ running = {}
    /\ handler = original
    /\ \A g \in Guard : ~guard[g].alive
    /\ status = "exit1" <=> parse_config = "parse_error"
==============================================================================

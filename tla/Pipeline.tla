------------------------------- MODULE Pipeline -------------------------------
(***************************************************************************)
(* The matching_engine process: reader, matcher and writer threads joined  *)
(* by two queues (include/matching/stream_pipeline.hpp, runtime/, and      *)
(* src/matching_engine.cpp), the order book of OrderBook inside the        *)
(* matcher, standard input and SIGINT/SIGTERM outside.                     *)
(*                                                                         *)
(* The queues are sequences of at most Room entries: SpscQueue shows that  *)
(* the ring implements exactly that.  A turn of a spin loop that finds     *)
(* nothing to do changes nothing and is no step.                           *)
(***************************************************************************)
EXTENDS OrderBook, OutputFormatter

CONSTANTS Inputs,    \* events that parse_line may return on ok
          MaxLines,  \* bound: lines on standard input
          Room       \* entries a queue holds: queue_capacity_v - 1

ASSUME PipelineAssumption ==
  /\ Inputs \subseteq AddEvent \cup CancelEvent
  /\ MaxLines \in 0 .. MaxNodes
  /\ Room \in Nat \ {0}

Shutdown == [type |-> "shutdown", tag |-> "shutdown"]     \* shutdown_t
Thread == {"reader", "matcher", "writer"}

VARIABLES
  lines,     \* lines taken from standard input so far
  fed,       \* history: events the parser handed to the reader, in order
  rpc,       \* reader: "getline", "push", "sentinel" (pushing it), "exited"
  inq,       \* reader -> matcher queue
  mpc,       \* matcher: "poll", "handle", "forward" (the sentinel), "exited"
  pushed,    \* how many of emitted the emitter has dealt with
  handled,   \* history: events the matcher popped, in order
  past,      \* history: events the book emitted for inputs it has finished
  outq,      \* matcher -> writer queue
  wpc,       \* writer: "poll", "exited"
  written,   \* lines formatted to standard output, in order
  flushed,   \* how many of them are known to have left the process
  stop,      \* stop_requested() of the global stop_source
  seen,      \* threads that have read stop_requested() as true
  joining    \* main: the thread agent_system_t::join waits for, or "exited"

reader == <<lines, fed, rpc>>
matcher == <<vars, mpc, pushed, handled, past>>
writer == <<wpc, written, flushed>>
control == <<stop, seen, joining>>
pipeVars == <<reader, inq, matcher, outq, writer, control>>

pipeInit ==
  /\ Init
  /\ lines = 0 /\ fed = <<>> /\ rpc = "getline"
  /\ inq = <<>>
  /\ mpc = "poll" /\ pushed = 0 /\ handled = <<>> /\ past = <<>>
  /\ outq = <<>>
  /\ wpc = "poll" /\ written = <<>> /\ flushed = 0
  /\ stop = FALSE /\ seen = {} /\ joining = "writer"

(* try_push succeeds on q. *)
HasRoom(q) == Len(q) < Room

------------------------------------------------------------------------------
(* The stop token.  A thread tests it before each push and each pop; between  *)
(* the test and the access the signal may arrive, and a test may still miss   *)
(* it: a thread behaves as before until a test of its own returns true.       *)

request_stop_signal_handler ==
  /\ ~stop
  /\ stop' = TRUE
  /\ UNCHANGED <<reader, inq, matcher, outq, writer, seen, joining>>

Observe(t) ==
  /\ stop
  /\ t \notin seen
  /\ seen' = seen \cup {t}
  /\ UNCHANGED <<reader, inq, matcher, outq, writer, stop, joining>>

------------------------------------------------------------------------------
(* reader_loop_t.  The reader tests the token only inside push. *)

(* getline returns a line that parse_line accepts. *)
ReadOk(e) ==
  /\ rpc = "getline"
  /\ lines < MaxLines
  /\ lines' = lines + 1
  /\ fed' = Append(fed, e)
  /\ rpc' = "push"
  /\ UNCHANGED <<inq, matcher, outq, writer, control>>

(* getline returns a blank, a comment or an ill-formed line. *)
ReadSkipped ==
  /\ rpc = "getline"
  /\ lines < MaxLines
  /\ lines' = lines + 1
  /\ UNCHANGED <<fed, rpc, inq, matcher, outq, writer, control>>

ReadEof ==
  /\ rpc = "getline"
  /\ rpc' = "sentinel"
  /\ UNCHANGED <<lines, fed, inq, matcher, outq, writer, control>>

ReaderPush ==
  /\ rpc = "push"
  /\ "reader" \notin seen
  /\ HasRoom(inq)
  /\ inq' = Append(inq, fed[Len(fed)])
  /\ rpc' = "getline"
  /\ UNCHANGED <<lines, fed, matcher, outq, writer, control>>

(* Mutant: a full queue makes push give up. *)
Mut_ReaderDrop ==
  /\ rpc = "push"
  /\ "reader" \in seen \/ ~HasRoom(inq)
  /\ rpc' = "getline"
  /\ UNCHANGED <<lines, fed, inq, matcher, outq, writer, control>>

(* push returns because of the stop request; the event is gone. *)
ReaderDrop ==
  /\ rpc = "push"
  /\ "reader" \in seen
  /\ rpc' = "getline"
  /\ UNCHANGED <<lines, fed, inq, matcher, outq, writer, control>>

(* Mutant: the sentinel goes out while reading goes on. *)
Mut_ReaderSentinel ==
  /\ rpc = "sentinel"
  /\ "reader" \notin seen
  /\ HasRoom(inq)
  /\ inq' = Append(inq, Shutdown)
  /\ rpc' = "getline"
  /\ UNCHANGED <<lines, fed, matcher, outq, writer, control>>

ReaderSentinel ==
  /\ rpc = "sentinel"
  /\ "reader" \notin seen
  /\ HasRoom(inq)
  /\ inq' = Append(inq, Shutdown)
  /\ rpc' = "exited"
  /\ UNCHANGED <<lines, fed, matcher, outq, writer, control>>

ReaderAbort ==
  /\ rpc = "sentinel"
  /\ "reader" \in seen
  /\ rpc' = "exited"
  /\ UNCHANGED <<lines, fed, inq, matcher, outq, writer, control>>

------------------------------------------------------------------------------
(* The matcher's event_loop_t with matcher_handler_t and queue_emitter_t.  The *)
(* book emits one or two events per step of OrderBook; each is pushed before   *)
(* the book goes on.                                                           *)

MatcherPop ==
  /\ mpc = "poll"
  /\ "matcher" \notin seen
  /\ inq # <<>> /\ Head(inq) # Shutdown
  /\ BookBegin(Head(inq))
  /\ handled' = Append(handled, Head(inq))
  /\ inq' = Tail(inq)
  /\ mpc' = "handle"
  /\ UNCHANGED <<pushed, past, reader, outq, writer, control>>

AllPushed == pushed = Len(emitted)

MatcherWork ==
  /\ mpc = "handle"
  /\ AllPushed
  /\ \/ EnterLevel \/ FillRestingWhole \/ FillRestingPart \/ LeaveLevel
     \/ FinishFilled \/ FinishResting \/ FinishDuplicate \/ FinishCancelled
  /\ UNCHANGED <<mpc, pushed, handled, past, reader, inq, outq, writer, control>>

(* book_(event) returns; the loop goes back to its test. *)
MatcherReturn ==
  /\ mpc = "handle"
  /\ AllPushed
  /\ Return
  /\ past' = past \o emitted
  /\ pushed' = 0
  /\ mpc' = "poll"
  /\ UNCHANGED <<handled, reader, inq, outq, writer, control>>

EmitPush ==
  /\ pushed < Len(emitted)
  /\ "matcher" \notin seen
  /\ HasRoom(outq)
  /\ outq' = Append(outq, emitted[pushed + 1])
  /\ pushed' = pushed + 1
  /\ UNCHANGED <<vars, mpc, handled, past, reader, inq, writer, control>>

(* Mutants: a full queue makes the emitter give up; the emitter spins on a *)
(* full queue without testing the token.                                   *)
Mut_EmitDrop_when_full ==
  /\ pushed < Len(emitted)
  /\ "matcher" \in seen \/ ~HasRoom(outq)
  /\ pushed' = pushed + 1
  /\ UNCHANGED <<vars, mpc, handled, past, reader, inq, outq, writer, control>>

Mut_EmitDrop_never ==
  /\ FALSE
  /\ UNCHANGED pipeVars

(* push returns because of the stop request; the event is gone. *)
EmitDrop ==
  /\ pushed < Len(emitted)
  /\ "matcher" \in seen
  /\ pushed' = pushed + 1
  /\ UNCHANGED <<vars, mpc, handled, past, reader, inq, outq, writer, control>>

MatcherSentinel ==
  /\ mpc = "poll"
  /\ "matcher" \notin seen
  /\ inq # <<>> /\ Head(inq) = Shutdown
  /\ inq' = Tail(inq)
  /\ mpc' = "forward"
  /\ UNCHANGED <<vars, pushed, handled, past, reader, outq, writer, control>>

(* Mutant: the handler returns true and forwards nothing. *)
Mut_forward_shutdown ==
  /\ mpc = "forward"
  /\ mpc' = "exited"
  /\ UNCHANGED <<vars, pushed, handled, past, reader, inq, outq, writer, control>>

forward_shutdown ==
  /\ mpc = "forward"
  /\ "matcher" \notin seen
  /\ HasRoom(outq)
  /\ outq' = Append(outq, Shutdown)
  /\ mpc' = "exited"
  /\ UNCHANGED <<vars, pushed, handled, past, reader, inq, writer, control>>

(* The loop, or forward_shutdown, ends on the stop request. *)
MatcherAbort ==
  /\ mpc \in {"poll", "forward"}
  /\ "matcher" \in seen
  /\ mpc' = "exited"
  /\ UNCHANGED <<vars, pushed, handled, past, reader, inq, outq, writer, control>>

------------------------------------------------------------------------------
(* The writer's event_loop_t with writer_handler_t. *)

WriterPop ==
  /\ wpc = "poll"
  /\ "writer" \notin seen
  /\ outq # <<>> /\ Head(outq) # Shutdown
  /\ written' = Append(written, Format(Head(outq)))
  /\ outq' = Tail(outq)
  /\ UNCHANGED <<wpc, flushed, reader, inq, matcher, control>>

(* Mutant: no flush. *)
Mut_WriterSentinel ==
  /\ wpc = "poll"
  /\ "writer" \notin seen
  /\ outq # <<>> /\ Head(outq) = Shutdown
  /\ outq' = Tail(outq)
  /\ wpc' = "exited"
  /\ UNCHANGED <<written, flushed, reader, inq, matcher, control>>

WriterSentinel ==
  /\ wpc = "poll"
  /\ "writer" \notin seen
  /\ outq # <<>> /\ Head(outq) = Shutdown
  /\ outq' = Tail(outq)
  /\ flushed' = Len(written)
  /\ wpc' = "exited"
  /\ UNCHANGED <<written, reader, inq, matcher, control>>

WriterAbort ==
  /\ wpc = "poll"
  /\ "writer" \in seen
  /\ wpc' = "exited"
  /\ UNCHANGED <<written, flushed, reader, inq, matcher, outq, control>>

------------------------------------------------------------------------------
(* agent_system_t::join: the agents in reverse order of declaration. *)
Exited(t) ==
  CASE t = "reader" -> rpc = "exited"
    [] t = "matcher" -> mpc = "exited"
    [] t = "writer" -> wpc = "exited"

join ==
  /\ joining \in Thread
  /\ Exited(joining)
  /\ joining' = CASE joining = "writer" -> "matcher"
                  [] joining = "matcher" -> "reader"
                  [] joining = "reader" -> "exited"
  /\ UNCHANGED <<reader, inq, matcher, outq, writer, stop, seen>>

(* main has returned. *)
Terminated == joining = "exited" /\ UNCHANGED pipeVars

Getline == ReadSkipped \/ ReadEof \/ \E e \in Inputs : ReadOk(e)

ReaderStep ==
  ReaderPush \/ ReaderDrop \/ ReaderSentinel \/ ReaderAbort

MatcherStep ==
  \/ MatcherPop \/ MatcherWork \/ MatcherReturn \/ EmitPush \/ EmitDrop
  \/ MatcherSentinel \/ forward_shutdown \/ MatcherAbort

WriterStep == WriterPop \/ WriterSentinel \/ WriterAbort

pipeNext ==
  \/ request_stop_signal_handler
  \/ \E t \in Thread : ~Exited(t) /\ Observe(t)
  \/ Getline \/ ReaderStep \/ MatcherStep \/ WriterStep
  \/ join \/ Terminated

pipeSpec == pipeInit /\ [][pipeNext]_pipeVars

(* Every thread keeps running and sees the stop request in the end.  Nothing *)
(* is said of standard input: getline may block for ever.                    *)
ThreadSpec ==
  /\ pipeSpec
  /\ WF_pipeVars(ReaderStep) /\ WF_pipeVars(MatcherStep) /\ WF_pipeVars(WriterStep)
  /\ \A t \in Thread : WF_pipeVars(~Exited(t) /\ Observe(t))
  /\ WF_pipeVars(join)

------------------------------------------------------------------------------
Events(q) == IF q # <<>> /\ q[Len(q)] = Shutdown THEN SubSeq(q, 1, Len(q) - 1) ELSE q

StartsWith(t, s) == Len(s) <= Len(t) /\ SubSeq(t, 1, Len(s)) = s

Unsent == IF rpc = "push" THEN 1 ELSE 0

(* What the matcher handled, then what waits in its queue, is what the parser *)
(* returned, in order and without gaps: all but the event in the reader's     *)
(* hands, and an initial part of it once the reader gave up on a stop request *)
(* (stream_pipeline.hpp:83-87).                                               *)
InputsHandledInOrder ==
  /\ StartsWith(fed, handled \o Events(inq))
  /\ "reader" \notin seen => Len(handled \o Events(inq)) = Len(fed) - Unsent

Understood == [i \in DOMAIN written |-> ReadBack(written[i])]

(* What a consumer reads off the lines written, then what waits in the        *)
(* writer's queue, is what the book emitted, in order and without gaps, a     *)
(* full queue and an abort included: an abort only cuts the output short      *)
(* (stream_pipeline.hpp:53-57, output_formatter.hpp:49-75).                   *)
OutputIsPrefix ==
  /\ StartsWith(past \o emitted, Understood \o Events(outq))
  /\ "matcher" \notin seen =>
       Len(written) + Len(Events(outq)) = Len(past) + pushed

(* Nothing ever follows the sentinel in a queue, and its sender has finished: *)
(* no stage can exit gracefully with work left upstream of it.                *)
SentinelIsLast ==
  /\ \A i \in DOMAIN inq : inq[i] = Shutdown => i = Len(inq) /\ rpc = "exited"
  /\ \A i \in DOMAIN outq :
       outq[i] = Shutdown => i = Len(outq) /\ mpc = "exited" /\ inq = <<>>

(* When main returns without a stop request, every event parsed was handled,  *)
(* every event emitted was written and flushed, and both queues are empty     *)
(* (test_engine_pipeline.cpp compares whole outputs; this is every schedule). *)
GracefulExitIsComplete ==
  joining = "exited" /\ ~stop =>
    /\ handled = fed
    /\ Understood = past /\ emitted = <<>>
    /\ flushed = Len(written)
    /\ inq = <<>> /\ outq = <<>>

(* Once getline has met the end of standard input, all three threads and main *)
(* come to their end, with or without a stop request, whatever the queues     *)
(* held at that moment (stream_pipeline.hpp:77-80, agent_system.hpp:54).      *)
EofEndsProcess == rpc = "sentinel" ~> joining = "exited"

(* A stop request makes matcher and writer exit even if the queue between     *)
(* them is full and whatever standard input does.                             *)
AbortStopsWorkers == stop ~> mpc = "exited" /\ wpc = "exited"

(* A stop request makes every loop exit ("Every agent's loop observes         *)
(* stop_requested() before its next pop and exits", agent_system.hpp:20).     *)
AbortStopsEveryone == stop ~> joining = "exited"
==============================================================================

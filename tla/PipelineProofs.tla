---------------------------- MODULE PipelineProofs ----------------------------
(***************************************************************************)
(* Proofs about Pipeline: whatever the schedule of the three threads, the  *)
(* input and the moment of a stop request, the book inside the matcher     *)
(* makes only steps of OrderBook!Spec.  So every theorem about the book    *)
(* holds in the running engine.                                            *)
(***************************************************************************)
EXTENDS Pipeline, OrderBookProofs, SequenceTheorems

(* What is read and queued are events the parser can return. *)
Traffic ==
  /\ fed \in Seq(Inputs)
  /\ rpc = "push" => fed # <<>>
  /\ inq \in Seq(Inputs \cup {Shutdown})

(* Only the reader adds to the queue, and only the matcher removes. *)
LEMMA TrafficStep == Traffic /\ [pipeNext]_pipeVars => Traffic'
<1> SUFFICES ASSUME Traffic, [pipeNext]_pipeVars PROVE Traffic'
  OBVIOUS
<1> USE DEF Traffic
<1>1. ASSUME NEW e \in Inputs, ReadOk(e) PROVE Traffic'
  <2>1. fed' = Append(fed, e) /\ inq' = inq
    BY <1>1 DEF ReadOk
  <2>2. fed' \in Seq(Inputs) /\ fed' # <<>>
    BY <2>1
  <2> QED BY <2>1, <2>2
<1>2. CASE ReadSkipped
  BY <1>2 DEF ReadSkipped
<1>3. CASE ReadEof
  BY <1>3 DEF ReadEof
<1>4. CASE ReaderPush
  <2>1. fed' = fed /\ rpc' = "getline" /\ inq' = Append(inq, fed[Len(fed)]) /\ fed # <<>>
    BY <1>4 DEF ReaderPush
  <2>2. fed[Len(fed)] \in Inputs
    BY <2>1
  <2> QED BY <2>1, <2>2
<1>5. CASE ReaderDrop
  BY <1>5 DEF ReaderDrop
<1>6. CASE ReaderSentinel
  <2>1. fed' = fed /\ rpc' = "exited" /\ inq' = Append(inq, Shutdown)
    BY <1>6 DEF ReaderSentinel
  <2> QED BY <2>1
<1>7. CASE ReaderAbort
  BY <1>7 DEF ReaderAbort
<1>8. CASE MatcherPop
  <2>1. UNCHANGED reader /\ inq # <<>> /\ inq' = Tail(inq)
    BY <1>8 DEF MatcherPop
  <2> QED BY <2>1 DEF reader
<1>9. CASE MatcherSentinel
  <2>1. UNCHANGED reader /\ inq # <<>> /\ inq' = Tail(inq)
    BY <1>9 DEF MatcherSentinel
  <2> QED BY <2>1 DEF reader
<1>10. CASE MatcherWork \/ MatcherReturn \/ EmitPush \/ EmitDrop \/ forward_shutdown \/ MatcherAbort
  <2>1. UNCHANGED <<reader, inq>>
    BY <1>10 DEF MatcherWork, MatcherReturn, EmitPush, EmitDrop, forward_shutdown, MatcherAbort
  <2> QED BY <2>1 DEF reader
<1>11. CASE WriterStep \/ join \/ request_stop_signal_handler \/ \E t \in Thread : Observe(t)
  <2>1. UNCHANGED <<reader, inq>>
    BY <1>11 DEF WriterStep, WriterPop, WriterSentinel, WriterAbort, join,
                 request_stop_signal_handler, Observe
  <2> QED BY <2>1 DEF reader
<1>12. CASE UNCHANGED pipeVars
  BY <1>12 DEF pipeVars, reader
<1> QED
  BY <1>1, <1>2, <1>3, <1>4, <1>5, <1>6, <1>7, <1>8, <1>9, <1>10, <1>11, <1>12
  DEF pipeNext, Getline, ReaderStep, MatcherStep, Terminated

(* Traffic holds throughout. *)
LEMMA TrafficHolds == pipeSpec => []Traffic
<1>1. pipeInit => Traffic
  BY DEF pipeInit, Traffic
<1> QED BY <1>1, TrafficStep, PTL DEF pipeSpec

(* A step of the engine is a step of the book or leaves the book alone. *)
LEMMA BookStepInPipeline == Traffic /\ [pipeNext]_pipeVars => [Next]_vars
<1> SUFFICES ASSUME Traffic, [pipeNext]_pipeVars PROVE [Next]_vars
  OBVIOUS
<1>1. CASE MatcherPop
  <2>1. inq # <<>> /\ Head(inq) # Shutdown /\ BookBegin(Head(inq))
    BY <1>1 DEF MatcherPop
  <2>2. Head(inq) \in Inputs
    BY <2>1 DEF Traffic
  <2>3. Head(inq) \in AddEvent \cup CancelEvent
    BY <2>2, PipelineAssumption
  <2>4. CASE Head(inq).type = "add"
    <3>1. Head(inq) \in AddEvent
      BY <2>3, <2>4 DEF CancelEvent
    <3> QED BY <2>1, <2>4, <3>1 DEF BookBegin, Next
  <2>5. CASE Head(inq).type = "cancel"
    <3>1. Head(inq) \in CancelEvent
      BY <2>3, <2>5 DEF AddEvent
    <3> QED BY <2>1, <2>5, <3>1 DEF BookBegin, Next
  <2> QED BY <2>1, <2>4, <2>5 DEF BookBegin
<1>2. CASE MatcherWork
  BY <1>2 DEF MatcherWork, Next
<1>3. CASE MatcherReturn
  BY <1>3 DEF MatcherReturn, Next
<1>4. CASE EmitPush \/ EmitDrop \/ MatcherSentinel \/ forward_shutdown \/ MatcherAbort
  BY <1>4 DEF EmitPush, EmitDrop, MatcherSentinel, forward_shutdown, MatcherAbort
<1>5. CASE Getline \/ ReaderStep
  <2>1. UNCHANGED matcher
    BY <1>5 DEF Getline, ReadOk, ReadSkipped, ReadEof, ReaderStep, ReaderPush,
                ReaderDrop, ReaderSentinel, ReaderAbort
  <2> QED BY <2>1 DEF matcher
<1>6. CASE WriterStep \/ join \/ request_stop_signal_handler \/ \E t \in Thread : Observe(t)
  <2>1. UNCHANGED matcher
    BY <1>6 DEF WriterStep, WriterPop, WriterSentinel, WriterAbort, join,
                request_stop_signal_handler, Observe
  <2> QED BY <2>1 DEF matcher
<1>7. CASE UNCHANGED pipeVars
  BY <1>7 DEF pipeVars, matcher
<1> QED
  BY <1>1, <1>2, <1>3, <1>4, <1>5, <1>6, <1>7
  DEF pipeNext, MatcherStep, Terminated

(* The engine runs the book: every behaviour of the three threads, seen from *)
(* the book's variables, is a behaviour of OrderBook (stream_pipeline.hpp:109 *)
(* calls book_(event) for one popped event at a time).                        *)
THEOREM EngineRunsBook == pipeSpec => Spec
<1>1. pipeInit => Init
  BY DEF pipeInit
<1> QED BY <1>1, TrafficHolds, BookStepInPipeline, PTL DEF pipeSpec, Spec

(* The book inside the engine is never crossed, whatever the schedule, the    *)
(* backpressure of the output queue and the moment of an abort.               *)
THEOREM EngineNeverCrossed == pipeSpec => []BookNotCrossed
BY EngineRunsBook, NeverCrossed, PTL

(* The engine matches by price and then by time, under the same conditions.   *)
THEOREM EngineRespectsPriority == pipeSpec => PriceTimePriority
BY EngineRunsBook, PriorityRespected

(* The engine implements the price-time book: what the three threads, their   *)
(* queues and their shutdown make of the handlers adds nothing to it          *)
(* (stream_pipeline.hpp:98-126, order_book.hpp:265-511).                      *)
THEOREM EngineImplementsPriceTimeBook == pipeSpec => ImplementsPriceTimeBook
BY EngineRunsBook, BookImplementsPriceTimeBook

(* Every add the engine handles is accounted for by its terminal event, and a *)
(* fill-or-kill order is filled in full or not at all, although the matcher   *)
(* may wait for the output queue between any two events of a handler          *)
(* (stream_pipeline.hpp:109, order_book.hpp:166, 264).                        *)
THEOREM EngineAccounts == pipeSpec => [](TerminalAccountsForOrder /\ FokAllOrNothing)
BY EngineRunsBook, TerminalAccounts, FokIsAllOrNothing, PTL

------------------------------------------------------------------------------
(* What flows through the queues.  A channel carries what src produces to     *)
(* done: what arrived, then what waits in q, are the first elements of src,   *)
(* and nothing follows a sentinel in q.                                       *)
HasSentinel(q) == q # <<>> /\ q[Len(q)] = Shutdown

Waiting(q) == IF HasSentinel(q) THEN Len(q) - 1 ELSE Len(q)

Channel(S, src, done, q) ==
  /\ Shutdown \notin S
  /\ src \in Seq(S) /\ done \in Seq(S) /\ q \in Seq(S \cup {Shutdown})
  /\ \A i \in 1 .. Len(q) : q[i] = Shutdown => i = Len(q)
  /\ Len(done) + Waiting(q) <= Len(src)
  /\ \A i \in 1 .. Len(done) : done[i] = src[i]
  /\ \A i \in 1 .. Waiting(q) : q[i] = src[Len(done) + i]

(* Places in a queue. *)
LEMMA QueueFacts ==
  ASSUME NEW S, NEW q \in Seq(S)
  PROVE  /\ Len(q) \in Nat /\ DOMAIN q = 1 .. Len(q) /\ Waiting(q) \in Nat
         /\ Waiting(q) <= Len(q) /\ Len(q) <= Waiting(q) + 1
         /\ HasSentinel(q) => Len(q) >= 1 /\ Waiting(q) = Len(q) - 1
         /\ ~HasSentinel(q) => Waiting(q) = Len(q)
         /\ q = <<>> <=> Len(q) = 0
<1>1. Len(q) \in Nat /\ DOMAIN q = 1 .. Len(q) /\ (q = <<>> <=> Len(q) = 0)
  BY LenProperties, EmptySeq
<1>2. HasSentinel(q) => Len(q) >= 1
  BY <1>1 DEF HasSentinel
<1>3. CASE HasSentinel(q)
  <2>1. Waiting(q) = Len(q) - 1
    BY <1>3 DEF Waiting
  <2> QED BY <1>1, <1>2, <1>3, <2>1
<1>4. CASE ~HasSentinel(q)
  <2>1. Waiting(q) = Len(q)
    BY <1>4 DEF Waiting
  <2>2. Len(q) <= Len(q) /\ Len(q) <= Len(q) + 1
    BY <1>1
  <2> QED BY <1>1, <1>4, <2>1, <2>2, Zenon
<1> QED BY <1>3, <1>4

(* A new element at the end of a queue without a sentinel. *)
LEMMA QueuePut ==
  ASSUME NEW S, NEW q \in Seq(S), NEW e \in S, ~HasSentinel(q)
  PROVE  /\ Append(q, e) \in Seq(S) /\ Len(Append(q, e)) = Len(q) + 1
         /\ \A i \in 1 .. Len(q) : Append(q, e)[i] = q[i]
         /\ Append(q, e)[Len(q) + 1] = e
         /\ e # Shutdown => ~HasSentinel(Append(q, e)) /\ Waiting(Append(q, e)) = Waiting(q) + 1
         /\ e = Shutdown => HasSentinel(Append(q, e)) /\ Waiting(Append(q, e)) = Waiting(q)
<1> DEFINE r == Append(q, e)
<1>1. /\ r \in Seq(S) /\ Len(r) = Len(q) + 1 /\ \A i \in 1 .. Len(q) : r[i] = q[i]
      /\ r[Len(q) + 1] = e /\ r # <<>>
  BY AppendProperties
<1>2. Len(q) \in Nat /\ Waiting(q) = Len(q)
  BY QueueFacts
<1> HIDE DEF r
<1>3. HasSentinel(r) <=> e = Shutdown
  BY <1>1 DEF HasSentinel
<1>4. Waiting(r) = IF e = Shutdown THEN Len(q) ELSE Len(q) + 1
  BY <1>1, <1>2, <1>3 DEF Waiting
<1> QED BY <1>1, <1>2, <1>3, <1>4 DEF r

(* The first element of a queue is taken. *)
LEMMA QueueTake ==
  ASSUME NEW S, NEW q \in Seq(S), q # <<>>,
         \A i \in 1 .. Len(q) : q[i] = Shutdown => i = Len(q)
  PROVE  /\ Head(q) = q[1] /\ Tail(q) \in Seq(S) /\ Len(Tail(q)) = Len(q) - 1
         /\ \A i \in 1 .. Len(q) - 1 : Tail(q)[i] = q[i + 1]
         /\ Head(q) # Shutdown => /\ HasSentinel(Tail(q)) <=> HasSentinel(q)
                                  /\ Waiting(q) >= 1 /\ Waiting(Tail(q)) = Waiting(q) - 1
         /\ Head(q) = Shutdown => Tail(q) = <<>> /\ Waiting(q) = 0 /\ Waiting(Tail(q)) = 0
<1> DEFINE r == Tail(q)
           n == Len(q)
<1>1. n \in Nat /\ n >= 1 /\ (HasSentinel(q) <=> q[n] = Shutdown)
  BY QueueFacts DEF HasSentinel
<1>2. /\ Head(q) = q[1] /\ r \in Seq(S) /\ Len(r) = n - 1
      /\ \A i \in 1 .. n - 1 : r[i] = q[i + 1]
  BY HeadTailProperties DEF n
<1> HIDE DEF r, n
<1>3. r = <<>> <=> n = 1
  BY <1>1, <1>2, EmptySeq
<1>4. n > 1 => n - 1 \in 1 .. n - 1 /\ r[n - 1] = q[n]
  BY <1>1, <1>2
<1>5. CASE Head(q) # Shutdown
  <2>1. HasSentinel(r) <=> HasSentinel(q)
    BY <1>1, <1>2, <1>3, <1>4, <1>5 DEF HasSentinel
  <2>2. Waiting(r) = Waiting(q) - 1
    BY <1>1, <1>2, <2>1 DEF Waiting, n
  <2>3. Waiting(q) >= 1
    BY <1>1, <1>2, <1>5 DEF Waiting, n
  <2> QED BY <1>2, <1>5, <2>1, <2>2, <2>3 DEF r, n
<1>6. CASE Head(q) = Shutdown
  <2>1. n = 1
    BY <1>1, <1>2, <1>6 DEF n
  <2>2. r = <<>> /\ HasSentinel(q)
    BY <1>1, <1>2, <1>3, <1>6, <2>1
  <2>3. Waiting(q) = 0 /\ Waiting(r) = 0
    BY <1>1, <1>2, <2>1, <2>2 DEF Waiting, HasSentinel, n
  <2> QED BY <1>2, <1>6, <2>2, <2>3 DEF r, n
<1> QED BY <1>5, <1>6

(* The next element of the source enters the channel. *)
LEMMA ChannelPut ==
  ASSUME NEW S, NEW src, NEW done, NEW q, Channel(S, src, done, q), ~HasSentinel(q),
         Len(done) + Waiting(q) < Len(src)
  PROVE  LET e == src[Len(done) + Waiting(q) + 1]
         IN  Channel(S, src, done, Append(q, e)) /\ e # Shutdown
<1> DEFINE k == Len(done) + Waiting(q)
           e == src[k + 1]
           r == Append(q, e)
           T == S \cup {Shutdown}
<1>1. /\ src \in Seq(S) /\ done \in Seq(S) /\ q \in Seq(T) /\ Shutdown \notin S
      /\ \A i \in 1 .. Len(done) : done[i] = src[i]
      /\ \A i \in 1 .. Waiting(q) : q[i] = src[Len(done) + i]
  BY DEF Channel
<1>2. Len(src) \in Nat /\ Len(done) \in Nat /\ Waiting(q) \in Nat /\ Waiting(q) = Len(q)
  BY <1>1, QueueFacts
<1>3. k \in Nat /\ k + 1 \in 1 .. Len(src)
  BY <1>2
<1>4. e \in S /\ e # Shutdown /\ e \in T
  BY <1>1, <1>3, ElementOfSeq
<1>5. /\ r \in Seq(T) /\ Len(r) = Len(q) + 1 /\ Waiting(r) = Waiting(q) + 1
      /\ \A i \in 1 .. Len(q) : r[i] = q[i]
      /\ r[Len(q) + 1] = e /\ ~HasSentinel(r)
  BY <1>1, <1>4, QueuePut
<1> HIDE DEF r, e, T
<1>6. \A i \in 1 .. Waiting(q) + 1 : r[i] = src[Len(done) + i]
  <2>1. \A i \in 1 .. Waiting(q) : r[i] = src[Len(done) + i]
    BY <1>1, <1>2, <1>5
  <2>2. r[Waiting(q) + 1] = src[Len(done) + (Waiting(q) + 1)]
    <3>1. r[Waiting(q) + 1] = src[k + 1]
      BY <1>2, <1>5 DEF e
    <3>2. k + 1 = Len(done) + (Waiting(q) + 1)
      BY <1>2
    <3> QED BY <3>1, <3>2
  <2> QED BY <1>2, <2>1, <2>2
<1>7. \A i \in 1 .. Len(r) : r[i] = Shutdown => i = Len(r)
  <2>1. \A i \in 1 .. Len(r) : i \in 1 .. Waiting(q) \/ i = Len(r)
    BY <1>2, <1>5
  <2>2. \A i \in 1 .. Waiting(q) : src[Len(done) + i] # Shutdown
    <3>1. \A i \in 1 .. Waiting(q) : Len(done) + i \in 1 .. Len(src)
      BY <1>2, <1>3
    <3> QED BY <1>1, <3>1, ElementOfSeq
  <2>3. \A i \in 1 .. Waiting(q) : r[i] # Shutdown
    BY <1>1, <1>2, <1>5, <2>2
  <2> QED BY <2>1, <2>3, Zenon
<1>8. Channel(S, src, done, r)
  BY <1>1, <1>2, <1>3, <1>5, <1>6, <1>7 DEF Channel, T
<1> QED BY <1>4, <1>8 DEF r, e

(* The sentinel enters the channel. *)
LEMMA ChannelSeal ==
  ASSUME NEW S, NEW src, NEW done, NEW q, Channel(S, src, done, q), ~HasSentinel(q)
  PROVE  Channel(S, src, done, Append(q, Shutdown))
<1> DEFINE r == Append(q, Shutdown)
<1>1. q \in Seq(S \cup {Shutdown}) /\ Len(q) \in Nat /\ Waiting(q) = Len(q)
  BY QueueFacts DEF Channel
<1>2. /\ r \in Seq(S \cup {Shutdown}) /\ Len(r) = Len(q) + 1 /\ Waiting(r) = Waiting(q)
      /\ \A i \in 1 .. Len(q) : r[i] = q[i]
  BY <1>1, QueuePut
<1> HIDE DEF r
<1>3. \A i \in 1 .. Len(q) : q[i] # Shutdown
  BY <1>1 DEF Channel, HasSentinel
<1>4. \A i \in 1 .. Len(r) : r[i] = Shutdown => i = Len(r)
  BY <1>1, <1>2, <1>3
<1>5. Channel(S, src, done, r)
  BY <1>1, <1>2, <1>4 DEF Channel
<1> QED BY <1>5 DEF r

(* The oldest element leaves the queue and arrives. *)
LEMMA ChannelTake ==
  ASSUME NEW S, NEW src, NEW done, NEW q, Channel(S, src, done, q), q # <<>>, Head(q) # Shutdown
  PROVE  /\ Channel(S, src, Append(done, Head(q)), Tail(q))
         /\ Head(q) \in S
         /\ Len(Append(done, Head(q))) + Waiting(Tail(q)) = Len(done) + Waiting(q)
         /\ HasSentinel(Tail(q)) <=> HasSentinel(q)
<1> DEFINE e == Head(q)
           r == Tail(q)
           d == Append(done, e)
<1>1. /\ src \in Seq(S) /\ done \in Seq(S) /\ q \in Seq(S \cup {Shutdown}) /\ Shutdown \notin S
      /\ \A i \in 1 .. Len(q) : q[i] = Shutdown => i = Len(q)
      /\ \A i \in 1 .. Len(done) : done[i] = src[i]
      /\ \A i \in 1 .. Waiting(q) : q[i] = src[Len(done) + i]
      /\ Len(done) + Waiting(q) <= Len(src)
  BY DEF Channel
<1>2. Len(src) \in Nat /\ Len(done) \in Nat /\ Len(q) \in Nat /\ Waiting(q) \in Nat /\ Waiting(q) <= Len(q)
  BY <1>1, QueueFacts
<1>3. /\ e = q[1] /\ r \in Seq(S \cup {Shutdown}) /\ Len(r) = Len(q) - 1
      /\ \A i \in 1 .. Len(q) - 1 : r[i] = q[i + 1]
      /\ HasSentinel(r) <=> HasSentinel(q)
      /\ Waiting(q) >= 1 /\ Waiting(r) = Waiting(q) - 1
  BY <1>1, QueueTake
<1>4. e \in S
  <2>1. 1 \in 1 .. Len(q)
    BY <1>2, <1>3
  <2>2. q[1] \in S \cup {Shutdown}
    BY <1>1, <2>1, ElementOfSeq
  <2> QED BY <1>3, <2>2
<1>5. /\ d \in Seq(S) /\ Len(d) = Len(done) + 1 /\ d[Len(done) + 1] = e
      /\ \A i \in 1 .. Len(done) : d[i] = done[i]
  BY <1>1, <1>4, AppendProperties
<1> HIDE DEF e, r, d
<1>6. \A i \in 1 .. Len(d) : d[i] = src[i]
  <2>1. \A i \in 1 .. Len(d) : i \in 1 .. Len(done) \/ i = Len(done) + 1
    BY <1>2, <1>5
  <2>2. e = src[Len(done) + 1]
    BY <1>1, <1>2, <1>3
  <2> QED BY <1>1, <1>5, <2>1, <2>2
<1>7. \A i \in 1 .. Waiting(r) : r[i] = src[Len(d) + i]
  <2> SUFFICES ASSUME NEW i \in 1 .. Waiting(r) PROVE r[i] = src[Len(d) + i]
    OBVIOUS
  <2>1. i + 1 \in 1 .. Waiting(q) /\ i \in 1 .. Len(q) - 1 /\ Len(done) + (i + 1) = Len(d) + i
    BY <1>2, <1>3, <1>5
  <2> QED BY <1>1, <1>3, <2>1
<1>8. \A i \in 1 .. Len(r) : r[i] = Shutdown => i = Len(r)
  BY <1>1, <1>2, <1>3
<1>9. Len(d) + Waiting(r) = Len(done) + Waiting(q)
  BY <1>2, <1>3, <1>5
<1>10. Channel(S, src, d, r)
  BY <1>1, <1>3, <1>5, <1>6, <1>7, <1>8, <1>9 DEF Channel
<1> QED BY <1>3, <1>4, <1>9, <1>10 DEF e, r, d

(* The source goes on. *)
LEMMA ChannelGrow ==
  ASSUME NEW S, NEW src, NEW done, NEW q, Channel(S, src, done, q),
         NEW more \in Seq(S), Len(src) <= Len(more), \A i \in 1 .. Len(src) : more[i] = src[i]
  PROVE  Channel(S, more, done, q)
<1>1. /\ src \in Seq(S) /\ done \in Seq(S) /\ q \in Seq(S \cup {Shutdown})
      /\ Len(done) + Waiting(q) <= Len(src)
      /\ \A i \in 1 .. Len(done) : done[i] = src[i]
      /\ \A i \in 1 .. Waiting(q) : q[i] = src[Len(done) + i]
  BY DEF Channel
<1>2. Len(src) \in Nat /\ Len(more) \in Nat /\ Len(done) \in Nat /\ Waiting(q) \in Nat
  BY <1>1, QueueFacts
<1>3. \A i \in 1 .. Len(done) : i \in 1 .. Len(src) /\ done[i] = more[i]
  BY <1>1, <1>2
<1>4. \A i \in 1 .. Waiting(q) : Len(done) + i \in 1 .. Len(src) /\ q[i] = more[Len(done) + i]
  BY <1>1, <1>2
<1> QED BY <1>1, <1>2, <1>3, <1>4 DEF Channel

(* What arrived, then what waits, is an initial part of the source. *)
LEMMA ChannelPrefix ==
  ASSUME NEW S, NEW src, NEW done, NEW q, Channel(S, src, done, q)
  PROVE  /\ StartsWith(src, done \o Events(q))
         /\ Len(Events(q)) = Waiting(q)
         /\ Len(done \o Events(q)) = Len(done) + Waiting(q)
<1> DEFINE ev == Events(q)
           k == Len(done)
           m == Waiting(q)
           c == done \o ev
<1>1. /\ src \in Seq(S) /\ done \in Seq(S) /\ q \in Seq(S \cup {Shutdown}) /\ Shutdown \notin S
      /\ \A i \in 1 .. Len(q) : q[i] = Shutdown => i = Len(q)
      /\ k + m <= Len(src)
      /\ \A i \in 1 .. k : done[i] = src[i]
      /\ \A i \in 1 .. m : q[i] = src[k + i]
  BY DEF Channel
<1>2. Len(src) \in Nat /\ k \in Nat /\ m \in Nat /\ Len(q) \in Nat /\ m <= Len(q)
  BY <1>1, QueueFacts
<1> HIDE DEF k, m
<1>3. \A i \in 1 .. m : q[i] \in S
  BY <1>1, <1>2, ElementOfSeq
<1>4. ev = SubSeq(q, 1, m)
  <2>1. CASE HasSentinel(q)
    BY <2>1 DEF Events, HasSentinel, Waiting, m
  <2>2. CASE ~HasSentinel(q)
    <3>1. ev = q /\ m = Len(q)
      BY <2>2 DEF Events, HasSentinel, Waiting, m
    <3> QED BY <1>1, <3>1, SubSeqFull
  <2> QED BY <2>1, <2>2
<1>5. ev \in Seq(S) /\ Len(ev) = m /\ \A i \in 1 .. m : ev[i] = q[i]
  BY <1>2, <1>3, <1>4, SubSeqProperties
<1> HIDE DEF ev
<1>6. /\ c \in Seq(S) /\ Len(c) = k + m
      /\ \A i \in 1 .. k + m : c[i] = IF i <= k THEN done[i] ELSE ev[i - k]
  <2>1. /\ c \in Seq(S) /\ Len(c) = Len(done) + Len(ev)
        /\ \A i \in 1 .. Len(done) + Len(ev) :
             c[i] = IF i <= Len(done) THEN done[i] ELSE ev[i - Len(done)]
    <3>1. done \in Seq(S) /\ ev \in Seq(S)
      BY <1>1, <1>5
    <3> QED BY <3>1, ConcatProperties, Zenon
  <2> HIDE DEF c
  <2> QED BY <1>5, <2>1 DEF k
<1> HIDE DEF c
<1>7. \A i \in 1 .. k + m : c[i] = src[i] /\ src[i] \in S
  <2> SUFFICES ASSUME NEW i \in 1 .. k + m PROVE c[i] = src[i] /\ src[i] \in S
    OBVIOUS
  <2>1. i \in 1 .. Len(src)
    BY <1>1, <1>2
  <2>2. src[i] \in S
    BY <1>1, <2>1, ElementOfSeq
  <2>3. CASE i <= k
    <3>1. c[i] = done[i]
      BY <1>6, <2>3, Zenon
    <3>2. i \in 1 .. k
      BY <1>2, <2>3
    <3> QED BY <1>1, <2>2, <3>1, <3>2, Zenon
  <2>4. CASE i > k
    <3>1. i - k \in 1 .. m /\ k + (i - k) = i
      BY <1>2, <2>4
    <3> QED BY <1>1, <1>2, <1>5, <1>6, <2>2, <2>4, <3>1
  <2> QED BY <1>2, <2>3, <2>4
<1>8. /\ SubSeq(src, 1, k + m) \in Seq(S) /\ Len(SubSeq(src, 1, k + m)) = k + m
      /\ \A i \in 1 .. k + m : SubSeq(src, 1, k + m)[i] = src[i]
  BY <1>2, <1>7, SubSeqProperties
<1>9. SubSeq(src, 1, k + m) = c
  BY <1>6, <1>7, <1>8, SeqEqual
<1>10. StartsWith(src, c)
  BY <1>1, <1>6, <1>9 DEF StartsWith
<1> QED BY <1>5, <1>6, <1>10 DEF c, ev, k, m

(* From the parser to the book. *)
InFlow ==
  /\ Channel(Inputs, fed, handled, inq)
  /\ rpc = "push" => fed # <<>>
  /\ HasSentinel(inq) => rpc = "exited"
  /\ "reader" \notin seen => Len(handled) + Waiting(inq) = Len(fed) - Unsent

(* From the book to the reader of the output. *)
OutFlow ==
  /\ emitted \in Seq(OutputEvent) /\ past \in Seq(OutputEvent)
  /\ written \in Seq({Format(ev) : ev \in OutputEvent})
  /\ Channel(OutputEvent, past \o emitted, Understood, outq)
  /\ pushed \in 0 .. Len(emitted)
  /\ mpc # "handle" => emitted = <<>>
  /\ "matcher" \notin seen => Len(written) + Waiting(outq) = Len(past) + pushed

(* Who has ended, and what an end without a stop request leaves behind. *)
Ends ==
  /\ ~stop => seen = {}
  /\ mpc = "forward" \/ HasSentinel(outq) => inq = <<>> /\ rpc = "exited"
  /\ HasSentinel(outq) => mpc = "exited"
  /\ mpc = "exited" /\ "matcher" \notin seen => inq = <<>> /\ rpc = "exited"
  /\ wpc = "exited" /\ "writer" \notin seen =>
       outq = <<>> /\ flushed = Len(written) /\ mpc = "exited"
  /\ joining \in Thread \cup {"exited"}
  /\ joining # "writer" => wpc = "exited"
  /\ joining \in {"reader", "exited"} => mpc = "exited"
  /\ joining = "exited" => rpc = "exited"

FlowInv == InFlow /\ OutFlow /\ Ends

(* A sentinel at the front is all there is. *)
LEMMA ChannelEnd ==
  ASSUME NEW S, NEW src, NEW done, NEW q, Channel(S, src, done, q), q # <<>>, Head(q) = Shutdown
  PROVE  /\ Channel(S, src, done, Tail(q))
         /\ Tail(q) = <<>> /\ Waiting(q) = 0 /\ Waiting(Tail(q)) = 0 /\ ~HasSentinel(Tail(q))
<1>1. q \in Seq(S \cup {Shutdown}) /\ \A i \in 1 .. Len(q) : q[i] = Shutdown => i = Len(q)
  BY DEF Channel
<1>2. Tail(q) = <<>> /\ Waiting(q) = 0 /\ Waiting(Tail(q)) = 0
  BY <1>1, QueueTake
<1> DEFINE r == Tail(q)
<1>3. r \in Seq(S \cup {Shutdown}) /\ Len(r) = 0
  BY <1>2, EmptySeq
<1>4. Waiting(r) = Waiting(q)
  BY <1>2
<1> HIDE DEF r
<1>5. 1 .. Len(r) = {} /\ 1 .. Waiting(r) = {}
  BY <1>2, <1>3 DEF r
<1>6. Channel(S, src, done, r)
  BY <1>3, <1>4, <1>5 DEF Channel
<1> QED BY <1>2, <1>6 DEF HasSentinel, r

(* No event is the sentinel. *)
LEMMA SentinelIsNoEvent == Shutdown \notin Inputs /\ Shutdown \notin OutputEvent
<1>1. Shutdown \notin Inputs
  <2>1. \A e \in AddEvent \cup CancelEvent : e.type \in {"add", "cancel"}
    BY DEF AddEvent, CancelEvent
  <2> QED BY <2>1, PipelineAssumption DEF Shutdown
<1>2. Shutdown \notin OutputEvent
  <2>1. \A e \in OutputEvent : e.tag \in {"TRD", "RST", "FIL", "CAN", "REJ"}
    BY DEF OutputEvent
  <2> QED BY <2>1 DEF Shutdown
<1> QED BY <1>1, <1>2

(* Reading a line by the output grammar gives back the event it was made of   *)
(* (output_formatter.hpp:49-75).                                              *)
LEMMA FormatReadsBack == ASSUME NEW ev \in OutputEvent PROVE ReadBack(Format(ev)) = ev
<1>1. CASE ev \in [tag: {"TRD"}, order_id: Int, resting_id: Int, quantity: Int]
  <2>1. Format(ev) = <<"TRD", ev.order_id, ev.resting_id, ev.quantity>>
    BY <1>1 DEF Format
  <2>2. ReadBack(Format(ev)) = TRD(ev.order_id, ev.resting_id, ev.quantity)
    BY <2>1 DEF ReadBack
  <2> QED BY <1>1, <2>2 DEF TRD
<1>2. CASE ev \in [tag: {"RST"}, order_id: Int, filled: Int, resting: Int]
  <2>1. Format(ev) = <<"RST", ev.order_id, ev.filled, ev.resting>>
    BY <1>2 DEF Format
  <2>2. ReadBack(Format(ev)) = RST(ev.order_id, ev.filled, ev.resting)
    BY <2>1 DEF ReadBack
  <2> QED BY <1>2, <2>2 DEF RST
<1>3. CASE ev \in [tag: {"FIL"}, order_id: Int, filled: Int]
  <2>1. Format(ev) = <<"FIL", ev.order_id, ev.filled>>
    BY <1>3 DEF Format
  <2>2. ReadBack(Format(ev)) = FIL(ev.order_id, ev.filled)
    BY <2>1 DEF ReadBack
  <2> QED BY <1>3, <2>2 DEF FIL
<1>4. CASE ev \in [tag: {"CAN"}, order_id: Int, filled: Int, cancelled: Int,
                   cause: {"user_request", "immediate_or_cancel", "fill_or_kill"}]
  <2> DEFINE tok == cancel_cause_token(ev.cause)
  <2>1. Format(ev) = <<"CAN", ev.order_id, ev.filled, ev.cancelled, tok>>
    BY <1>4 DEF Format
  <2>2. [USR |-> "user_request", IOC |-> "immediate_or_cancel", FOK |-> "fill_or_kill"][tok] = ev.cause
    BY <1>4 DEF cancel_cause_token
  <2> HIDE DEF tok
  <2>3. ReadBack(Format(ev)) = CAN(ev.order_id, ev.filled, ev.cancelled, ev.cause)
    BY <2>1, <2>2 DEF ReadBack
  <2> QED BY <1>4, <2>3 DEF CAN
<1>5. CASE ev \in [tag: {"REJ"}, order_id: Int,
                   code: {"duplicate_order_id", "unknown_order_id", "invalid_quantity",
                          "invalid_price", "invalid_order_id"}]
  <2> DEFINE tok == reject_code_token(ev.code)
  <2>1. Format(ev) = <<"REJ", ev.order_id, tok>>
    BY <1>5 DEF Format
  <2>2. [DUP |-> "duplicate_order_id", UNK |-> "unknown_order_id", IQT |-> "invalid_quantity",
         IPR |-> "invalid_price", IID |-> "invalid_order_id"][tok] = ev.code
    BY <1>5 DEF reject_code_token
  <2> HIDE DEF tok
  <2>3. ReadBack(Format(ev)) = REJ(ev.order_id, ev.code)
    BY <2>1, <2>2 DEF ReadBack
  <2> QED BY <1>5, <2>3 DEF REJ
<1> QED BY <1>1, <1>2, <1>3, <1>4, <1>5 DEF OutputEvent

(* What the book emits while it handles an input is only added to. *)
LEMMA BookOnlyAppends ==
  ASSUME emitted \in Seq(OutputEvent), emitted' \in Seq(OutputEvent), MatcherWork
  PROVE  /\ Len(emitted) <= Len(emitted')
         /\ \A i \in 1 .. Len(emitted) : emitted'[i] = emitted[i]
<1>1. ASSUME NEW a PROVE /\ Len(emitted) <= Len(Append(emitted, a))
                         /\ \A i \in 1 .. Len(emitted) : Append(emitted, a)[i] = emitted[i]
  OBVIOUS
<1>2. ASSUME NEW a, NEW b
      PROVE  /\ Len(emitted) <= Len(emitted \o <<a, b>>)
             /\ \A i \in 1 .. Len(emitted) : (emitted \o <<a, b>>)[i] = emitted[i]
  OBVIOUS
<1>3. CASE EnterLevel \/ LeaveLevel
  BY <1>3 DEF EnterLevel, LeaveLevel
<1>4. CASE FillRestingWhole \/ FillRestingPart
  BY <1>2, <1>4 DEF FillRestingWhole, FillRestingPart
<1>5. CASE FinishFilled \/ FinishResting \/ FinishDuplicate \/ FinishCancelled
  BY <1>1, <1>5 DEF FinishFilled, FinishResting, FinishDuplicate, FinishCancelled, Finish
<1> QED BY <1>3, <1>4, <1>5 DEF MatcherWork

(* One more line, one more event understood. *)
LEMMA UnderstoodNext ==
  ASSUME written \in Seq({Format(ev) : ev \in OutputEvent}), Understood \in Seq(OutputEvent),
         NEW e \in OutputEvent, written' = Append(written, Format(e))
  PROVE  /\ Understood' = Append(Understood, e)
         /\ written' \in Seq({Format(ev) : ev \in OutputEvent})
         /\ Len(written') = Len(written) + 1 /\ Len(Understood) = Len(written)
<1> DEFINE L == {Format(ev) : ev \in OutputEvent}
           n == Len(written)
           u == Understood
<1>1. Format(e) \in L
  OBVIOUS
<1> HIDE DEF L
<1>2. /\ written' \in Seq(L) /\ Len(written') = n + 1 /\ written'[n + 1] = Format(e)
      /\ \A i \in 1 .. n : written'[i] = written[i]
      /\ DOMAIN written' = 1 .. n + 1 /\ DOMAIN written = 1 .. n /\ n \in Nat
  BY <1>1, AppendProperties, LenProperties DEF L
<1>3. u \in Seq(OutputEvent) /\ DOMAIN u = 1 .. n /\ Len(u) = n /\ \A i \in 1 .. n : u[i] = ReadBack(written[i])
  BY <1>2 DEF Understood
<1> HIDE DEF n
<1>4. Understood' = [i \in 1 .. n + 1 |-> ReadBack(written'[i])]
  BY <1>2 DEF Understood
<1> HIDE DEF u
<1>5. /\ Append(u, e) \in Seq(OutputEvent) /\ Len(Append(u, e)) = n + 1
      /\ \A i \in 1 .. n : Append(u, e)[i] = u[i] /\ Append(u, e)[n + 1] = e
  BY <1>2, <1>3, AppendProperties
<1>6. Append(u, e) = [i \in 1 .. n + 1 |-> Append(u, e)[i]]
  BY <1>5, LenProperties
<1>7. \A i \in 1 .. n + 1 : Append(u, e)[i] = ReadBack(written'[i])
  <2>1. \A i \in 1 .. n + 1 : i \in 1 .. n \/ i = n + 1
    BY <1>2
  <2>2. Append(u, e)[n + 1] = e
    BY <1>3, AppendProperties
  <2> QED BY <1>2, <1>3, <1>5, <2>1, <2>2, FormatReadsBack
<1>8. Understood' = Append(u, e)
  BY <1>4, <1>6, <1>7
<1> QED BY <1>2, <1>3, <1>8 DEF u, L, n

(* The source of the output: what was emitted so far. *)
LEMMA SourceFacts ==
  ASSUME NEW p \in Seq(OutputEvent), NEW m \in Seq(OutputEvent)
  PROVE  /\ p \o m \in Seq(OutputEvent) /\ Len(p \o m) = Len(p) + Len(m)
         /\ Len(p) \in Nat /\ Len(m) \in Nat
         /\ \A i \in 1 .. Len(p) : (p \o m)[i] = p[i]
         /\ \A i \in 1 .. Len(m) : (p \o m)[Len(p) + i] = m[i]
<1> DEFINE c == p \o m
<1>1. /\ c \in Seq(OutputEvent) /\ Len(c) = Len(p) + Len(m)
      /\ \A i \in 1 .. Len(p) + Len(m) : c[i] = IF i <= Len(p) THEN p[i] ELSE m[i - Len(p)]
      /\ Len(p) \in Nat /\ Len(m) \in Nat
  BY ConcatProperties, LenProperties
<1> HIDE DEF c
<1>2. \A i \in 1 .. Len(p) : c[i] = p[i]
  BY <1>1
<1>3. \A i \in 1 .. Len(m) : /\ Len(p) + i \in 1 .. Len(p) + Len(m) /\ ~(Len(p) + i <= Len(p))
                             /\ (Len(p) + i) - Len(p) = i
  BY <1>1
<1>4. \A i \in 1 .. Len(m) : c[Len(p) + i] = m[i]
  BY <1>1, <1>3
<1> QED BY <1>1, <1>2, <1>4 DEF c

(* The source only grows at its end. *)
LEMMA SourceGrows ==
  ASSUME NEW p \in Seq(OutputEvent), NEW m \in Seq(OutputEvent), NEW n \in Seq(OutputEvent),
         Len(m) <= Len(n), \A i \in 1 .. Len(m) : n[i] = m[i]
  PROVE  /\ Len(p \o m) <= Len(p \o n) /\ p \o n \in Seq(OutputEvent)
         /\ \A i \in 1 .. Len(p \o m) : (p \o n)[i] = (p \o m)[i]
<1> DEFINE a == p \o m
           b == p \o n
<1>1. /\ Len(a) = Len(p) + Len(m) /\ Len(b) = Len(p) + Len(n) /\ b \in Seq(OutputEvent)
      /\ Len(p) \in Nat /\ Len(m) \in Nat /\ Len(n) \in Nat
      /\ \A i \in 1 .. Len(p) : a[i] = p[i] /\ b[i] = p[i]
      /\ \A i \in 1 .. Len(m) : a[Len(p) + i] = m[i]
      /\ \A i \in 1 .. Len(n) : b[Len(p) + i] = n[i]
  BY SourceFacts
<1> HIDE DEF a, b
<1>2. \A i \in 1 .. Len(a) : a[i] = b[i]
  <2> SUFFICES ASSUME NEW i \in 1 .. Len(a) PROVE a[i] = b[i]
    OBVIOUS
  <2>1. CASE i <= Len(p)
    BY <1>1, <2>1
  <2>2. CASE i > Len(p)
    <3>1. i - Len(p) \in 1 .. Len(m) /\ i - Len(p) \in 1 .. Len(n) /\ Len(p) + (i - Len(p)) = i
      BY <1>1, <2>2
    <3>2. a[i] = m[i - Len(p)] /\ b[i] = n[i - Len(p)]
      BY <1>1, <3>1
    <3> QED BY <3>1, <3>2
  <2> QED BY <1>1, <2>1, <2>2
<1> QED BY <1>1, <1>2 DEF a, b

(* Steps that leave a flow alone. *)
LEMMA InFlowKept ==
  ASSUME InFlow, UNCHANGED <<fed, rpc, inq, handled>>, seen \subseteq seen'
  PROVE  InFlow'
BY DEF InFlow, Unsent

(* The reader adds what it reads, in order; the matcher takes from the front. *)
LEMMA InFlowNext == FlowInv /\ [pipeNext]_pipeVars => InFlow'
<1> SUFFICES ASSUME FlowInv, [pipeNext]_pipeVars PROVE InFlow'
  OBVIOUS
<1> USE DEF FlowInv, InFlow
<1>1. /\ fed \in Seq(Inputs) /\ inq \in Seq(Inputs \cup {Shutdown}) /\ handled \in Seq(Inputs)
      /\ Len(fed) \in Nat /\ Len(handled) \in Nat /\ Waiting(inq) \in Nat
      /\ Len(handled) + Waiting(inq) <= Len(fed)
  BY QueueFacts DEF Channel
<1>2. ASSUME NEW e \in Inputs, ReadOk(e) PROVE InFlow'
  <2>1. /\ rpc = "getline" /\ rpc' = "push" /\ fed' = Append(fed, e)
        /\ UNCHANGED <<inq, handled, seen>>
    BY <1>2 DEF ReadOk, matcher, control
  <2>2. /\ fed' \in Seq(Inputs) /\ Len(fed') = Len(fed) + 1 /\ fed' # <<>>
        /\ \A i \in 1 .. Len(fed) : fed'[i] = fed[i]
    BY <1>1, <2>1, AppendProperties
  <2>3. Len(fed) <= Len(fed')
    BY <1>1, <2>2
  <2>4. Channel(Inputs, fed', handled, inq)
    BY <2>2, <2>3, ChannelGrow
  <2>5. Unsent = 0 /\ Unsent' = 1
    BY <2>1 DEF Unsent
  <2> QED BY <1>1, <2>1, <2>2, <2>4, <2>5
<1>3. CASE ReadSkipped \/ ReadEof
  <2>1. rpc = "getline" /\ rpc' \in {"getline", "sentinel"} /\ UNCHANGED <<fed, inq, handled, seen>>
    BY <1>3 DEF ReadSkipped, ReadEof, matcher, control
  <2>2. Unsent = 0 /\ Unsent' = 0
    BY <2>1 DEF Unsent
  <2> QED BY <2>1, <2>2
<1>4. CASE ReaderPush
  <2>1. /\ rpc = "push" /\ rpc' = "getline" /\ "reader" \notin seen
        /\ inq' = Append(inq, fed[Len(fed)]) /\ UNCHANGED <<fed, handled, seen>>
    BY <1>4 DEF ReaderPush, matcher, control
  <2>2. Unsent = 1 /\ Unsent' = 0 /\ ~HasSentinel(inq)
    BY <2>1 DEF Unsent
  <2>3. Len(handled) + Waiting(inq) = Len(fed) - 1 /\ Len(handled) + Waiting(inq) < Len(fed)
        /\ Len(handled) + Waiting(inq) + 1 = Len(fed)
    BY <1>1, <2>1, <2>2
  <2>4. Channel(Inputs, fed, handled, inq') /\ fed[Len(fed)] # Shutdown
    BY <2>1, <2>2, <2>3, ChannelPut
  <2>5. fed[Len(fed)] \in Inputs \cup {Shutdown}
    <3>1. Len(fed) \in 1 .. Len(fed)
      BY <1>1, <2>3
    <3> QED BY <1>1, <3>1, ElementOfSeq
  <2>6. ~HasSentinel(inq') /\ Waiting(inq') = Waiting(inq) + 1
    BY <1>1, <2>1, <2>2, <2>4, <2>5, QueuePut
  <2> QED BY <1>1, <2>1, <2>2, <2>3, <2>4, <2>6
<1>5. CASE ReaderDrop \/ ReaderAbort
  <2>1. /\ rpc \in {"push", "sentinel"} /\ rpc' \in {"getline", "exited"} /\ "reader" \in seen
        /\ UNCHANGED <<fed, inq, handled, seen>>
    BY <1>5 DEF ReaderDrop, ReaderAbort, matcher, control
  <2> QED BY <2>1
<1>6. CASE ReaderSentinel
  <2>1. /\ rpc = "sentinel" /\ rpc' = "exited" /\ inq' = Append(inq, Shutdown)
        /\ UNCHANGED <<fed, handled, seen>>
    BY <1>6 DEF ReaderSentinel, matcher, control
  <2>2. Unsent = 0 /\ Unsent' = 0 /\ ~HasSentinel(inq)
    BY <2>1 DEF Unsent
  <2>3. Channel(Inputs, fed, handled, inq')
    BY <2>1, <2>2, ChannelSeal
  <2>4. Waiting(inq') = Waiting(inq)
    BY <1>1, <2>1, <2>2, QueuePut
  <2> QED BY <2>1, <2>2, <2>3, <2>4
<1>7. CASE MatcherPop
  <2>1. /\ inq # <<>> /\ Head(inq) # Shutdown /\ inq' = Tail(inq)
        /\ handled' = Append(handled, Head(inq)) /\ UNCHANGED <<fed, rpc, seen>>
    BY <1>7 DEF MatcherPop, reader, control
  <2>2. /\ Channel(Inputs, fed, handled', inq')
        /\ Len(handled') + Waiting(inq') = Len(handled) + Waiting(inq)
        /\ HasSentinel(inq') <=> HasSentinel(inq)
    BY <2>1, ChannelTake
  <2> QED BY <2>1, <2>2 DEF Unsent
<1>8. CASE MatcherSentinel
  <2>1. /\ inq # <<>> /\ Head(inq) = Shutdown /\ inq' = Tail(inq) /\ UNCHANGED <<fed, rpc, handled, seen>>
    BY <1>8 DEF MatcherSentinel, reader, control
  <2>2. Channel(Inputs, fed, handled, inq') /\ Waiting(inq') = Waiting(inq) /\ ~HasSentinel(inq')
    BY <2>1, ChannelEnd
  <2> QED BY <2>1, <2>2 DEF Unsent
<1>9. CASE MatcherWork \/ MatcherReturn \/ EmitPush \/ EmitDrop \/ forward_shutdown \/ MatcherAbort
  <2>1. UNCHANGED <<fed, rpc, inq, handled, seen>>
    BY <1>9 DEF MatcherWork, MatcherReturn, EmitPush, EmitDrop, forward_shutdown, MatcherAbort,
                reader, control
  <2> QED BY <2>1, InFlowKept
<1>10. CASE WriterStep \/ join \/ request_stop_signal_handler \/ \E t \in Thread : Observe(t)
  <2>1. UNCHANGED <<fed, rpc, inq, handled>> /\ seen \subseteq seen'
    BY <1>10 DEF WriterStep, WriterPop, WriterSentinel, WriterAbort, join,
                 request_stop_signal_handler, Observe, reader, matcher, control
  <2> QED BY <2>1, InFlowKept
<1>11. CASE UNCHANGED pipeVars
  <2>1. UNCHANGED <<fed, rpc, inq, handled, seen>>
    BY <1>11 DEF pipeVars, reader, matcher, control
  <2> QED BY <2>1, InFlowKept
<1> QED
  BY <1>2, <1>3, <1>4, <1>5, <1>6, <1>7, <1>8, <1>9, <1>10, <1>11
  DEF pipeNext, Getline, ReaderStep, MatcherStep, Terminated

LEMMA OutFlowKept ==
  ASSUME OutFlow, UNCHANGED <<emitted, past, written, outq, pushed, mpc>>, seen \subseteq seen'
  PROVE  OutFlow'
BY DEF OutFlow, Understood

(* The emitter adds what the book emits, in order, until it drops something;  *)
(* the writer takes from the front.                                           *)
LEMMA OutFlowNext == FlowInv /\ TypeOK' /\ [pipeNext]_pipeVars => OutFlow'
<1> SUFFICES ASSUME FlowInv, TypeOK', [pipeNext]_pipeVars PROVE OutFlow'
  OBVIOUS
<1> DEFINE src == past \o emitted
<1>1. /\ emitted \in Seq(OutputEvent) /\ emitted' \in Seq(OutputEvent) /\ past \in Seq(OutputEvent)
      /\ written \in Seq({Format(ev) : ev \in OutputEvent})
      /\ Channel(OutputEvent, src, Understood, outq) /\ pushed \in 0 .. Len(emitted)
      /\ mpc # "handle" => emitted = <<>>
      /\ "matcher" \notin seen => Len(written) + Waiting(outq) = Len(past) + pushed
  BY DEF FlowInv, OutFlow, TypeOK
<1>2. /\ Len(emitted) \in Nat /\ Len(past) \in Nat /\ Len(src) = Len(past) + Len(emitted)
      /\ Len(written) \in Nat /\ pushed \in Nat
      /\ outq \in Seq(OutputEvent \cup {Shutdown}) /\ Waiting(outq) \in Nat
  BY <1>1, SourceFacts, QueueFacts, LenProperties DEF Channel
<1>3. Len(Understood) = Len(written) /\ Understood \in Seq(OutputEvent)
  <2>1. Understood \in Seq(OutputEvent) /\ DOMAIN Understood = 1 .. Len(Understood) /\ Len(Understood) \in Nat
    BY <1>1, LenProperties DEF Channel
  <2>2. DOMAIN Understood = 1 .. Len(written)
    BY <1>1, LenProperties DEF Understood
  <2> QED BY <1>2, <2>1, <2>2
<1>4. emitted = <<>> <=> Len(emitted) = 0
  BY <1>1, EmptySeq
<1>5. CASE MatcherPop
  <2>1. /\ mpc = "poll" /\ mpc' = "handle" /\ UNCHANGED <<pushed, past, outq, written, seen>>
    BY <1>5 DEF MatcherPop, writer, control
  <2>2. Len(emitted) = 0 /\ Len(emitted') \in Nat
    BY <1>1, <1>4, <2>1, LenProperties
  <2>3. /\ Len(past \o emitted) <= Len(past \o emitted') /\ past \o emitted' \in Seq(OutputEvent)
        /\ \A i \in 1 .. Len(past \o emitted) : (past \o emitted')[i] = (past \o emitted)[i]
    BY <1>1, <2>2, SourceGrows
  <2>4. Channel(OutputEvent, past \o emitted', Understood, outq)
    BY <1>1, <2>3, ChannelGrow
  <2> QED BY <1>1, <2>1, <2>2, <2>4 DEF OutFlow, Understood
<1>6. CASE MatcherWork
  <2>1. UNCHANGED <<mpc, pushed, past, outq, written, seen>> /\ mpc = "handle"
    BY <1>6 DEF MatcherWork, writer, control
  <2>2. Len(emitted) <= Len(emitted') /\ \A i \in 1 .. Len(emitted) : emitted'[i] = emitted[i]
    BY <1>1, <1>6, BookOnlyAppends
  <2>3. /\ Len(past \o emitted) <= Len(past \o emitted') /\ past \o emitted' \in Seq(OutputEvent)
        /\ \A i \in 1 .. Len(past \o emitted) : (past \o emitted')[i] = (past \o emitted)[i]
    BY <1>1, <2>2, SourceGrows
  <2>4. Channel(OutputEvent, past \o emitted', Understood, outq)
    BY <1>1, <2>3, ChannelGrow
  <2>5. pushed \in 0 .. Len(emitted')
    BY <1>1, <1>2, <2>2, LenProperties
  <2> QED BY <1>1, <2>1, <2>4, <2>5 DEF OutFlow, Understood
<1>7. CASE MatcherReturn
  <2>1. /\ mpc' = "poll" /\ pushed = Len(emitted) /\ pushed' = 0 /\ past' = past \o emitted
        /\ emitted' = <<>> /\ UNCHANGED <<outq, written, seen>>
    BY <1>7 DEF MatcherReturn, AllPushed, Return, writer, control
  <2>2. past' \in Seq(OutputEvent) /\ Len(past') = Len(past) + Len(emitted) /\ Len(emitted') = 0
    BY <1>1, <2>1, SourceFacts, EmptySeq
  <2>3. past' \o emitted' = past \o emitted
    BY <2>1, <2>2, ConcatEmptySeq
  <2> QED BY <1>1, <1>2, <2>1, <2>2, <2>3 DEF OutFlow, Understood
<1>8. CASE EmitPush
  <2>1. /\ pushed < Len(emitted) /\ "matcher" \notin seen /\ pushed' = pushed + 1
        /\ outq' = Append(outq, emitted[pushed + 1])
        /\ UNCHANGED <<emitted, mpc, past, written, seen>>
    BY <1>8 DEF EmitPush, vars, writer, control
  <2>2. mpc = "handle" /\ ~HasSentinel(outq)
    BY <1>1, <1>2, <1>4, <2>1 DEF FlowInv, Ends
  <2>3. /\ Len(Understood) + Waiting(outq) = Len(past) + pushed
        /\ Len(Understood) + Waiting(outq) < Len(src)
        /\ pushed + 1 \in 1 .. Len(emitted) /\ pushed' \in 0 .. Len(emitted)
        /\ Len(past) + (pushed + 1) = Len(Understood) + Waiting(outq) + 1
    BY <1>1, <1>2, <1>3, <2>1
  <2>4. src[Len(past) + (pushed + 1)] = emitted[pushed + 1]
    BY <1>1, <2>3, SourceFacts
  <2>5. Channel(OutputEvent, src, Understood, outq') /\ emitted[pushed + 1] # Shutdown
    BY <1>1, <2>1, <2>2, <2>3, <2>4, ChannelPut
  <2>6. emitted[pushed + 1] \in OutputEvent \cup {Shutdown}
    BY <1>1, <2>3, ElementOfSeq
  <2>7. Waiting(outq') = Waiting(outq) + 1
    BY <1>2, <2>1, <2>2, <2>5, <2>6, QueuePut
  <2> QED BY <1>1, <1>2, <1>3, <2>1, <2>2, <2>3, <2>5, <2>7 DEF OutFlow, Understood
<1>9. CASE EmitDrop
  <2>1. /\ pushed < Len(emitted) /\ "matcher" \in seen /\ pushed' = pushed + 1
        /\ UNCHANGED <<emitted, mpc, past, written, outq, seen>>
    BY <1>9 DEF EmitDrop, vars, writer, control
  <2>2. pushed' \in 0 .. Len(emitted)
    BY <1>2, <2>1
  <2> QED BY <1>1, <2>1, <2>2 DEF OutFlow, Understood
<1>10. CASE forward_shutdown
  <2>1. /\ mpc = "forward" /\ mpc' = "exited" /\ outq' = Append(outq, Shutdown)
        /\ UNCHANGED <<emitted, pushed, past, written, seen>>
    BY <1>10 DEF forward_shutdown, vars, writer, control
  <2>2. ~HasSentinel(outq)
    BY <2>1 DEF FlowInv, Ends
  <2>3. Channel(OutputEvent, src, Understood, outq')
    BY <1>1, <2>1, <2>2, ChannelSeal
  <2>4. Waiting(outq') = Waiting(outq)
    BY <1>2, <2>1, <2>2, QueuePut
  <2> QED BY <1>1, <2>1, <2>3, <2>4 DEF OutFlow, Understood
<1>11. CASE MatcherSentinel \/ MatcherAbort
  <2>1. /\ mpc \in {"poll", "forward"} /\ mpc' \in {"forward", "exited"}
        /\ UNCHANGED <<emitted, past, written, outq, pushed, seen>>
    BY <1>11 DEF MatcherSentinel, MatcherAbort, vars, writer, control
  <2> QED BY <1>1, <2>1 DEF OutFlow, Understood
<1>12. CASE WriterPop
  <2>1. /\ outq # <<>> /\ Head(outq) # Shutdown /\ outq' = Tail(outq)
        /\ written' = Append(written, Format(Head(outq)))
        /\ UNCHANGED <<emitted, past, pushed, mpc, seen>>
    BY <1>12 DEF WriterPop, matcher, vars, control
  <2>2. /\ Channel(OutputEvent, src, Append(Understood, Head(outq)), outq')
        /\ Head(outq) \in OutputEvent
        /\ Len(Append(Understood, Head(outq))) + Waiting(outq') = Len(Understood) + Waiting(outq)
    BY <1>1, <2>1, ChannelTake
  <2>3. /\ Understood' = Append(Understood, Head(outq))
        /\ written' \in Seq({Format(ev) : ev \in OutputEvent})
        /\ Len(written') = Len(written) + 1
    BY <1>1, <1>3, <2>1, <2>2, UnderstoodNext
  <2>4. Len(Append(Understood, Head(outq))) = Len(written) + 1
    BY <1>3, <2>2, AppendProperties
  <2>5. Len(written') + Waiting(outq') = Len(written) + Waiting(outq)
    BY <1>3, <2>2, <2>3, <2>4
  <2>6. Channel(OutputEvent, src, Understood', outq')
    BY <2>2, <2>3
  <2> HIDE DEF src
  <2> QED BY <1>1, <2>1, <2>3, <2>5, <2>6 DEF OutFlow, src
<1>13. CASE WriterSentinel
  <2>1. /\ outq # <<>> /\ Head(outq) = Shutdown /\ outq' = Tail(outq)
        /\ UNCHANGED <<emitted, past, pushed, mpc, written, seen>>
    BY <1>13 DEF WriterSentinel, matcher, vars, control
  <2>2. Channel(OutputEvent, src, Understood, outq') /\ Waiting(outq') = Waiting(outq)
    BY <1>1, <2>1, ChannelEnd
  <2> QED BY <1>1, <2>1, <2>2 DEF OutFlow, Understood
<1>14. CASE Getline \/ ReaderStep \/ WriterAbort \/ join \/ request_stop_signal_handler
            \/ \E t \in Thread : Observe(t)
  <2>1. UNCHANGED <<emitted, past, written, outq, pushed, mpc>> /\ seen \subseteq seen'
    BY <1>14 DEF Getline, ReadOk, ReadSkipped, ReadEof, ReaderStep, ReaderPush, ReaderDrop,
                 ReaderSentinel, ReaderAbort, WriterAbort, join, request_stop_signal_handler,
                 Observe, matcher, vars, writer, control
  <2> QED BY <2>1, OutFlowKept DEF FlowInv
<1>15. CASE UNCHANGED pipeVars
  <2>1. UNCHANGED <<emitted, past, written, outq, pushed, mpc, seen>>
    BY <1>15 DEF pipeVars, matcher, vars, writer, control
  <2> QED BY <2>1, OutFlowKept DEF FlowInv
<1> QED
  BY <1>5, <1>6, <1>7, <1>8, <1>9, <1>10, <1>11, <1>12, <1>13, <1>14, <1>15
  DEF pipeNext, MatcherStep, WriterStep, Terminated

(* Each stage ends after the one before it, or because of a stop request. *)
LEMMA EndsNext == FlowInv /\ [pipeNext]_pipeVars => Ends'
<1> SUFFICES ASSUME FlowInv, [pipeNext]_pipeVars PROVE Ends'
  OBVIOUS
<1>1. Ends /\ InFlow
  BY DEF FlowInv
<1>2. emitted \in Seq(OutputEvent) /\ pushed \in 0 .. Len(emitted) /\ (mpc # "handle" => emitted = <<>>)
  BY DEF FlowInv, OutFlow
<1>3. mpc # "handle" => ~(pushed < Len(emitted))
  <2>1. mpc # "handle" => Len(emitted) = 0
    BY <1>2, EmptySeq
  <2> QED BY <1>2, <2>1
<1>4. /\ Channel(Inputs, fed, handled, inq) /\ inq \in Seq(Inputs \cup {Shutdown})
      /\ Channel(OutputEvent, past \o emitted, Understood, outq)
      /\ outq \in Seq(OutputEvent \cup {Shutdown})
  BY DEF FlowInv, InFlow, OutFlow, Channel
<1>5. CASE Getline \/ ReaderStep
  <2>1. rpc # "exited" /\ UNCHANGED <<mpc, outq, wpc, written, flushed, stop, seen, joining>>
    BY <1>5 DEF Getline, ReadOk, ReadSkipped, ReadEof, ReaderStep, ReaderPush, ReaderDrop,
                ReaderSentinel, ReaderAbort, matcher, writer, control
  <2> QED BY <1>1, <2>1 DEF Ends
<1>6. CASE MatcherPop
  <2>1. inq # <<>> /\ mpc = "poll" /\ mpc' = "handle"
        /\ UNCHANGED <<rpc, outq, wpc, written, flushed, stop, seen, joining>>
    BY <1>6 DEF MatcherPop, reader, writer, control
  <2> QED BY <1>1, <2>1 DEF Ends
<1>7. CASE MatcherWork \/ MatcherReturn
  <2>1. mpc = "handle" /\ mpc' \in {"handle", "poll"}
        /\ UNCHANGED <<rpc, inq, outq, wpc, written, flushed, stop, seen, joining>>
    BY <1>7 DEF MatcherWork, MatcherReturn, reader, writer, control
  <2> QED BY <1>1, <2>1 DEF Ends
<1>8. CASE EmitPush
  <2>1. mpc = "handle" /\ outq' = Append(outq, emitted[pushed + 1]) /\ pushed < Len(emitted)
        /\ UNCHANGED <<rpc, inq, mpc, wpc, written, flushed, stop, seen, joining>>
    BY <1>3, <1>8 DEF EmitPush, reader, writer, control
  <2>2. emitted[pushed + 1] \in OutputEvent
    <3>1. pushed + 1 \in 1 .. Len(emitted)
      BY <1>2, <2>1, LenProperties
    <3> QED BY <1>2, <3>1, ElementOfSeq
  <2>3. emitted[pushed + 1] # Shutdown
    BY <2>2, SentinelIsNoEvent
  <2>4. ~HasSentinel(outq)
    BY <1>1, <2>1 DEF Ends
  <2>5. ~HasSentinel(outq')
    BY <1>4, <2>1, <2>2, <2>3, <2>4, QueuePut
  <2> QED BY <1>1, <2>1, <2>5 DEF Ends
<1>9. CASE EmitDrop
  <2>1. UNCHANGED <<rpc, inq, mpc, outq, wpc, written, flushed, stop, seen, joining>>
    BY <1>9 DEF EmitDrop, reader, writer, control
  <2> QED BY <1>1, <2>1 DEF Ends
<1>10. CASE MatcherSentinel
  <2>1. /\ mpc = "poll" /\ mpc' = "forward" /\ inq # <<>> /\ Head(inq) = Shutdown /\ inq' = Tail(inq)
        /\ UNCHANGED <<rpc, outq, wpc, written, flushed, stop, seen, joining>>
    BY <1>10 DEF MatcherSentinel, reader, writer, control
  <2>2. inq' = <<>> /\ Waiting(inq) = 0
    BY <1>4, <2>1, ChannelEnd
  <2>3. HasSentinel(inq)
    BY <1>4, <2>1, <2>2, QueueFacts
  <2>4. rpc = "exited"
    BY <1>1, <2>3 DEF InFlow
  <2> QED BY <1>1, <2>1, <2>2, <2>4 DEF Ends
<1>11. CASE forward_shutdown
  <2>1. /\ mpc = "forward" /\ mpc' = "exited"
        /\ UNCHANGED <<rpc, inq, wpc, written, flushed, stop, seen, joining>>
    BY <1>11 DEF forward_shutdown, reader, writer, control
  <2> QED BY <1>1, <2>1 DEF Ends
<1>12. CASE MatcherAbort
  <2>1. /\ mpc \in {"poll", "forward"} /\ mpc' = "exited" /\ "matcher" \in seen
        /\ UNCHANGED <<rpc, inq, outq, wpc, written, flushed, stop, seen, joining>>
    BY <1>12 DEF MatcherAbort, reader, writer, control
  <2> QED BY <1>1, <2>1 DEF Ends
<1>13. CASE WriterPop
  <2>1. /\ wpc = "poll" /\ outq # <<>> /\ Head(outq) # Shutdown /\ outq' = Tail(outq)
        /\ UNCHANGED <<rpc, inq, mpc, wpc, flushed, stop, seen, joining>>
    BY <1>13 DEF WriterPop, reader, matcher, control
  <2>2. HasSentinel(outq') <=> HasSentinel(outq)
    BY <1>4, <2>1, ChannelTake
  <2> QED BY <1>1, <2>1, <2>2 DEF Ends
<1>14. CASE WriterSentinel
  <2>1. /\ wpc = "poll" /\ wpc' = "exited" /\ outq # <<>> /\ Head(outq) = Shutdown
        /\ outq' = Tail(outq) /\ flushed' = Len(written)
        /\ UNCHANGED <<rpc, inq, mpc, written, stop, seen, joining>>
    BY <1>14 DEF WriterSentinel, reader, matcher, control
  <2>2. outq' = <<>> /\ Waiting(outq) = 0 /\ ~HasSentinel(outq')
    BY <1>4, <2>1, ChannelEnd
  <2>3. HasSentinel(outq)
    BY <1>4, <2>1, <2>2, QueueFacts
  <2>4. mpc = "exited"
    BY <1>1, <2>3 DEF Ends
  <2> QED BY <1>1, <2>1, <2>2, <2>4 DEF Ends
<1>15. CASE WriterAbort
  <2>1. /\ wpc = "poll" /\ wpc' = "exited" /\ "writer" \in seen
        /\ UNCHANGED <<rpc, inq, mpc, outq, written, flushed, stop, seen, joining>>
    BY <1>15 DEF WriterAbort, reader, matcher, control
  <2> QED BY <1>1, <2>1 DEF Ends
<1>16. CASE join
  <2>1. /\ Exited(joining) /\ joining \in Thread
        /\ joining' = CASE joining = "writer" -> "matcher"
                        [] joining = "matcher" -> "reader"
                        [] joining = "reader" -> "exited"
        /\ UNCHANGED <<rpc, inq, mpc, outq, wpc, written, flushed, stop, seen>>
    BY <1>16 DEF join, reader, matcher, writer
  <2>2. CASE joining = "writer"
    BY <1>1, <2>1, <2>2 DEF Ends, Exited, Thread
  <2>3. CASE joining = "matcher"
    BY <1>1, <2>1, <2>3 DEF Ends, Exited, Thread
  <2>4. CASE joining = "reader"
    BY <1>1, <2>1, <2>4 DEF Ends, Exited, Thread
  <2> QED BY <2>1, <2>2, <2>3, <2>4 DEF Thread
<1>17. CASE request_stop_signal_handler \/ \E t \in Thread : Observe(t)
  <2>1. stop' /\ seen \subseteq seen'
        /\ UNCHANGED <<rpc, inq, mpc, outq, wpc, written, flushed, joining>>
    BY <1>17 DEF request_stop_signal_handler, Observe, reader, matcher, writer
  <2> QED BY <1>1, <2>1 DEF Ends
<1>18. CASE UNCHANGED pipeVars
  BY <1>1, <1>18 DEF pipeVars, reader, matcher, writer, control, Ends
<1> QED
  BY <1>5, <1>6, <1>7, <1>8, <1>9, <1>10, <1>11, <1>12, <1>13, <1>14, <1>15, <1>16, <1>17, <1>18
  DEF pipeNext, MatcherStep, WriterStep, Terminated

(* Nothing has been read, handled or written. *)
LEMMA FlowInit == pipeInit => FlowInv
<1> SUFFICES ASSUME pipeInit PROVE FlowInv
  OBVIOUS
<1>1. /\ emitted = <<>> /\ past = <<>> /\ written = <<>> /\ outq = <<>> /\ inq = <<>>
      /\ fed = <<>> /\ handled = <<>> /\ pushed = 0 /\ rpc = "getline" /\ mpc = "poll"
      /\ wpc = "poll" /\ ~stop /\ seen = {} /\ joining = "writer"
  BY DEF pipeInit, Init
<1>2. ASSUME NEW S, Shutdown \notin S PROVE Channel(S, <<>>, <<>>, <<>>)
  <2>1. <<>> \in Seq(S) /\ <<>> \in Seq(S \cup {Shutdown}) /\ Len(<<>>) = 0 /\ Waiting(<<>>) = 0
    BY EmptySeq DEF Waiting, HasSentinel
  <2> QED BY <1>2, <2>1 DEF Channel
<1>3. Understood = <<>>
  BY <1>1 DEF Understood
<1>4. past \o emitted = <<>> /\ <<>> \in Seq(OutputEvent) /\ Len(<<>>) = 0
  BY <1>1
<1>5. ~HasSentinel(<<>>) /\ Waiting(<<>>) = 0
  BY <1>4 DEF HasSentinel, Waiting
<1>6. InFlow
  BY <1>1, <1>2, <1>4, <1>5, SentinelIsNoEvent DEF InFlow, Unsent
<1>7. OutFlow
  <2>1. Channel(OutputEvent, past \o emitted, Understood, outq)
    BY <1>1, <1>2, <1>3, <1>4, SentinelIsNoEvent
  <2>2. written \in Seq({Format(ev) : ev \in OutputEvent})
    BY <1>1
  <2> QED BY <1>1, <1>4, <1>5, <2>1, <2>2 DEF OutFlow
<1>8. Ends
  BY <1>1, <1>5 DEF Ends, Thread
<1> QED BY <1>6, <1>7, <1>8 DEF FlowInv

(* Both flows and the order of the ends, at every moment of every schedule    *)
(* (stream_pipeline.hpp:53-126, agent_system.hpp:54).                         *)
THEOREM FlowInvariant == pipeSpec => []FlowInv
<1>1. pipeSpec => []TypeOK
  BY EngineRunsBook, TypeCorrect, PTL
<1>2. FlowInv /\ TypeOK' /\ [pipeNext]_pipeVars => FlowInv'
  BY InFlowNext, OutFlowNext, EndsNext DEF FlowInv
<1> QED BY FlowInit, <1>1, <1>2, PTL DEF pipeSpec

(* No event is lost, repeated or overtaken between the parser and the book:   *)
(* a stop request can only cut the sequence short (stream_pipeline.hpp:83-87). *)
THEOREM InputInOrder == pipeSpec => []InputsHandledInOrder
<1>1. FlowInv => InputsHandledInOrder
  <2> SUFFICES ASSUME FlowInv PROVE InputsHandledInOrder
    OBVIOUS
  <2>1. InFlow
    BY DEF FlowInv
  <2>2. /\ StartsWith(fed, handled \o Events(inq))
        /\ Len(handled \o Events(inq)) = Len(handled) + Waiting(inq)
    BY <2>1, ChannelPrefix DEF InFlow
  <2> QED BY <2>1, <2>2 DEF InFlow, InputsHandledInOrder
<1> QED BY <1>1, FlowInvariant, PTL

(* What the book emitted is what a reader of the output understands, in       *)
(* order and up to a point, whatever the capacity of the queue, the pace of   *)
(* the writer and the moment of a stop request (stream_pipeline.hpp:53-57,    *)
(* output_formatter.hpp:49-75).                                               *)
THEOREM OutputInOrder == pipeSpec => []OutputIsPrefix
<1>1. FlowInv => OutputIsPrefix
  <2> SUFFICES ASSUME FlowInv PROVE OutputIsPrefix
    OBVIOUS
  <2>1. OutFlow
    BY DEF FlowInv
  <2>2. StartsWith(past \o emitted, Understood \o Events(outq)) /\ Len(Events(outq)) = Waiting(outq)
    BY <2>1, ChannelPrefix DEF OutFlow
  <2> QED BY <2>1, <2>2 DEF OutFlow, OutputIsPrefix
<1> QED BY <1>1, FlowInvariant, PTL

(* The sentinel is the last element of a queue and its sender is gone: a      *)
(* stage that pops it leaves no work behind (stream_pipeline.hpp:77-80, 113). *)
THEOREM SentinelEndsStream == pipeSpec => []SentinelIsLast
<1>1. FlowInv => SentinelIsLast
  <2> SUFFICES ASSUME FlowInv PROVE SentinelIsLast
    OBVIOUS
  <2>1. /\ inq \in Seq(Inputs \cup {Shutdown}) /\ outq \in Seq(OutputEvent \cup {Shutdown})
        /\ \A i \in 1 .. Len(inq) : inq[i] = Shutdown => i = Len(inq)
        /\ \A i \in 1 .. Len(outq) : outq[i] = Shutdown => i = Len(outq)
        /\ HasSentinel(inq) => rpc = "exited"
        /\ HasSentinel(outq) => mpc = "exited" /\ inq = <<>>
    BY DEF FlowInv, InFlow, OutFlow, Ends, Channel
  <2>2. /\ DOMAIN inq = 1 .. Len(inq) /\ Len(inq) \in Nat /\ (inq = <<>> => Len(inq) = 0)
        /\ DOMAIN outq = 1 .. Len(outq) /\ Len(outq) \in Nat /\ (outq = <<>> => Len(outq) = 0)
    BY <2>1, LenProperties, EmptySeq
  <2>3. ASSUME NEW i \in DOMAIN inq, inq[i] = Shutdown PROVE i = Len(inq) /\ rpc = "exited"
    <3>1. i \in 1 .. Len(inq) /\ Len(inq) # 0
      BY <2>2, <2>3
    <3>2. i = Len(inq) /\ inq # <<>>
      BY <2>1, <2>2, <2>3, <3>1, Zenon
    <3> QED BY <2>1, <2>3, <3>2 DEF HasSentinel
  <2>4. ASSUME NEW i \in DOMAIN outq, outq[i] = Shutdown
        PROVE  i = Len(outq) /\ mpc = "exited" /\ inq = <<>>
    <3>1. i \in 1 .. Len(outq) /\ Len(outq) # 0
      BY <2>2, <2>4
    <3>2. i = Len(outq) /\ outq # <<>>
      BY <2>1, <2>2, <2>4, <3>1, Zenon
    <3>3. HasSentinel(outq)
      BY <2>4, <3>2 DEF HasSentinel
    <3> QED BY <2>1, <3>2, <3>3
  <2> QED BY <2>3, <2>4 DEF SentinelIsLast
<1> QED BY <1>1, FlowInvariant, PTL

(* A run that ends by the end of its input has handled, written and flushed   *)
(* everything, for every input, capacity and schedule (agent_system.hpp:54,   *)
(* stream_pipeline.hpp:77-80, 113-126).                                       *)
THEOREM GracefulExit == pipeSpec => []GracefulExitIsComplete
<1>1. FlowInv => GracefulExitIsComplete
  <2> SUFFICES ASSUME FlowInv, joining = "exited", ~stop
               PROVE  /\ handled = fed
                      /\ Understood = past /\ emitted = <<>>
                      /\ flushed = Len(written)
                      /\ inq = <<>> /\ outq = <<>>
    BY DEF GracefulExitIsComplete
  <2>1. /\ seen = {} /\ wpc = "exited" /\ mpc = "exited" /\ rpc = "exited"
        /\ inq = <<>> /\ outq = <<>> /\ flushed = Len(written)
    BY DEF FlowInv, Ends
  <2>2. Waiting(<<>>) = 0
    BY EmptySeq DEF Waiting, HasSentinel
  <2>3. /\ fed \in Seq(Inputs) /\ handled \in Seq(Inputs)
        /\ \A i \in 1 .. Len(handled) : handled[i] = fed[i]
        /\ Len(handled) + Waiting(inq) = Len(fed) - Unsent
    BY <2>1 DEF FlowInv, InFlow, Channel
  <2>4. Len(handled) = Len(fed)
    <3>1. Unsent = 0 /\ Len(handled) \in Nat /\ Len(fed) \in Nat
      BY <2>1, <2>3, LenProperties DEF Unsent
    <3> QED BY <2>1, <2>2, <2>3, <3>1
  <2>5. handled = fed
    BY <2>3, <2>4, SeqEqual
  <2>6. /\ emitted = <<>> /\ past \in Seq(OutputEvent) /\ pushed \in 0 .. Len(emitted)
        /\ written \in Seq({Format(ev) : ev \in OutputEvent})
        /\ Understood \in Seq(OutputEvent)
        /\ \A i \in 1 .. Len(Understood) : Understood[i] = (past \o emitted)[i]
        /\ Len(written) + Waiting(outq) = Len(past) + pushed
    BY <2>1 DEF FlowInv, OutFlow, Channel
  <2>7. pushed = 0 /\ past \o emitted = past
    BY <2>6, EmptySeq, ConcatEmptySeq
  <2>8. Len(Understood) = Len(past)
    <3>1. /\ DOMAIN Understood = 1 .. Len(Understood) /\ DOMAIN Understood = 1 .. Len(written)
          /\ Len(Understood) \in Nat /\ Len(written) \in Nat /\ Len(past) \in Nat
      BY <2>6, LenProperties DEF Understood
    <3>2. Len(written) = Len(past)
      BY <2>1, <2>2, <2>6, <2>7, <3>1
    <3> QED BY <3>1, <3>2
  <2>9. Understood = past
    BY <2>6, <2>7, <2>8, SeqEqual
  <2> QED BY <2>1, <2>5, <2>6, <2>9
<1> QED BY <1>1, FlowInvariant, PTL

------------------------------------------------------------------------------
(* The engine never deadlocks. *)

(* Where the threads can be; a thread that ended by itself has told the next  *)
(* one; and no line costs more than one node, so that the bound MaxNodes on   *)
(* the arena never keeps an event from being handled.                         *)
Places ==
  /\ rpc \in {"getline", "push", "sentinel", "exited"}
  /\ mpc \in {"poll", "handle", "forward", "exited"}
  /\ wpc \in {"poll", "exited"}
  /\ mpc = "handle" <=> pc # "idle"
  /\ mpc # "handle" => emitted = <<>>

Handovers ==
  /\ rpc = "exited" /\ "reader" \notin seen => HasSentinel(inq) \/ mpc \in {"forward", "exited"}
  /\ mpc = "exited" /\ "matcher" \notin seen => HasSentinel(outq) \/ wpc = "exited"

Nodes == allocated + (IF pc \in {"ladder", "level"} THEN 1 ELSE 0)

NodesPaidFor ==
  /\ fed \in Seq(Inputs) /\ handled \in Seq(Inputs)
  /\ lines \in 0 .. MaxLines
  /\ Len(fed) <= lines
  /\ Nodes <= Len(handled)

(* The guard of a step of each thread, and of main. *)
ReaderCanGo ==
  \/ rpc = "getline"
  \/ rpc \in {"push", "sentinel"} /\ ("reader" \in seen \/ HasRoom(inq))

MatcherCanGo ==
  \/ mpc \in {"poll", "forward"} /\ "matcher" \in seen
  \/ mpc = "forward" /\ HasRoom(outq)
  \/ /\ mpc = "poll" /\ inq # <<>>
     /\ Head(inq) # Shutdown => pc = "idle" /\ allocated < MaxNodes
  \/ pushed < Len(emitted) /\ ("matcher" \in seen \/ HasRoom(outq))
  \/ mpc = "handle" /\ AllPushed /\ pc # "idle" /\ HandlerCanStep

WriterCanGo == wpc = "poll" /\ ("writer" \in seen \/ outq # <<>>)

MainCanGo == joining \in Thread /\ Exited(joining)

StopUnseen == stop /\ \E t \in Thread : ~Exited(t) /\ t \notin seen

EngineCanStep ==
  joining # "exited" =>
    ReaderCanGo \/ MatcherCanGo \/ WriterCanGo \/ MainCanGo \/ StopUnseen

(* What the book does in one step of the engine. *)
LEMMA BeginMoves ==
  ASSUME NEW e, BookBegin(e)
  PROVE  /\ pc = "idle" /\ pc' \in {"ladder", "done"}
         /\ allocated' = allocated
<1>1. CASE RejectAdd(e) \/ KillFok(e) \/ RejectCancel(e)
  BY <1>1 DEF RejectAdd, KillFok, RejectCancel, book
<1>2. CASE BeginMatch(e)
  BY <1>2 DEF BeginMatch, book
<1>3. CASE CancelResting(e)
  BY <1>3 DEF CancelResting
<1> QED BY <1>1, <1>2, <1>3 DEF BookBegin

LEMMA WorkMoves ==
  ASSUME \/ EnterLevel \/ FillRestingWhole \/ FillRestingPart \/ LeaveLevel
         \/ FinishFilled \/ FinishResting \/ FinishDuplicate \/ FinishCancelled
  PROVE  /\ pc \in {"ladder", "level"}
         /\ \/ pc' \in {"ladder", "level"} /\ allocated' = allocated
            \/ pc' = "done" /\ allocated' \in {allocated, allocated + 1}
<1>1. CASE EnterLevel \/ LeaveLevel
  BY <1>1 DEF EnterLevel, LeaveLevel, book
<1>2. CASE FillRestingWhole \/ FillRestingPart
  BY <1>2 DEF FillRestingWhole, FillRestingPart, Fill
<1>3. CASE FinishFilled \/ FinishCancelled
  BY <1>3 DEF FinishFilled, FinishCancelled, MatchDone, Finish, book
<1>4. CASE FinishResting \/ FinishDuplicate
  BY <1>4 DEF FinishResting, FinishDuplicate, MatchDone, Finish
<1> QED BY <1>1, <1>2, <1>3, <1>4

(* The matcher is inside the book exactly while a handler runs. *)
LEMMA PlacesNext == Places /\ [pipeNext]_pipeVars => Places'
<1> SUFFICES ASSUME Places, [pipeNext]_pipeVars PROVE Places'
  OBVIOUS
<1> USE DEF Places
<1>1. CASE Getline \/ ReaderStep
  <2>1. UNCHANGED <<mpc, wpc, pc, emitted>> /\ rpc' \in {"getline", "push", "sentinel", "exited"}
    BY <1>1 DEF Getline, ReadOk, ReadSkipped, ReadEof, ReaderStep, ReaderPush, ReaderDrop,
                ReaderSentinel, ReaderAbort, matcher, writer, vars, frame
  <2> QED BY <2>1
<1>2. CASE MatcherPop
  <2>1. BookBegin(Head(inq)) /\ mpc' = "handle" /\ UNCHANGED <<rpc, wpc>>
    BY <1>2 DEF MatcherPop, reader, writer
  <2>2. pc' # "idle"
    BY <2>1, BeginMoves
  <2> QED BY <2>1, <2>2
<1>3. CASE MatcherWork
  <2>1. mpc = "handle" /\ UNCHANGED <<rpc, wpc, mpc>>
    BY <1>3 DEF MatcherWork, reader, writer
  <2>2. pc' # "idle"
    BY <1>3, WorkMoves DEF MatcherWork
  <2> QED BY <2>1, <2>2
<1>4. CASE MatcherReturn
  <2>1. mpc' = "poll" /\ pc' = "idle" /\ emitted' = <<>> /\ UNCHANGED <<rpc, wpc>>
    BY <1>4 DEF MatcherReturn, Return, reader, writer
  <2> QED BY <2>1
<1>5. CASE EmitPush \/ EmitDrop
  <2>1. UNCHANGED <<rpc, wpc, mpc, pc, emitted>>
    BY <1>5 DEF EmitPush, EmitDrop, reader, writer, vars, frame
  <2> QED BY <2>1
<1>6. CASE MatcherSentinel \/ forward_shutdown \/ MatcherAbort
  <2>1. mpc # "handle" /\ mpc' \in {"forward", "exited"} /\ UNCHANGED <<rpc, wpc, pc, emitted>>
    BY <1>6 DEF MatcherSentinel, forward_shutdown, MatcherAbort, reader, writer, vars, frame
  <2> QED BY <2>1
<1>7. CASE WriterStep
  <2>1. wpc' \in {"poll", "exited"} /\ UNCHANGED <<rpc, mpc, pc, emitted>>
    BY <1>7 DEF WriterStep, WriterPop, WriterSentinel, WriterAbort, reader, matcher, vars, frame
  <2> QED BY <2>1
<1>8. CASE join \/ request_stop_signal_handler \/ \E t \in Thread : Observe(t)
  <2>1. UNCHANGED <<rpc, wpc, mpc, pc, emitted>>
    BY <1>8 DEF join, request_stop_signal_handler, Observe, reader, matcher, writer, vars, frame
  <2> QED BY <2>1
<1>9. CASE UNCHANGED pipeVars
  BY <1>9 DEF pipeVars, reader, matcher, writer, vars, frame
<1> QED
  BY <1>1, <1>2, <1>3, <1>4, <1>5, <1>6, <1>7, <1>8, <1>9 DEF pipeNext, MatcherStep, Terminated

(* Sealing a queue leaves a sentinel in it until the next thread takes it. *)
LEMMA SealedQueue ==
  ASSUME NEW S, NEW q \in Seq(S \cup {Shutdown})
  PROVE  HasSentinel(Append(q, Shutdown))
<1>1. Append(q, Shutdown) # <<>> /\ Len(Append(q, Shutdown)) = Len(q) + 1
      /\ Append(q, Shutdown)[Len(q) + 1] = Shutdown
  BY AppendProperties
<1> QED BY <1>1 DEF HasSentinel

LEMMA HandoversNext == FlowInv /\ Places /\ Handovers /\ [pipeNext]_pipeVars => Handovers'
<1> SUFFICES ASSUME FlowInv, Places, Handovers, [pipeNext]_pipeVars PROVE Handovers'
  OBVIOUS
<1> USE DEF Handovers
<1>1. /\ Channel(Inputs, fed, handled, inq) /\ inq \in Seq(Inputs \cup {Shutdown})
      /\ Channel(OutputEvent, past \o emitted, Understood, outq)
      /\ outq \in Seq(OutputEvent \cup {Shutdown})
  BY DEF FlowInv, InFlow, OutFlow, Channel
<1>2. Ends /\ (HasSentinel(inq) => rpc = "exited")
  BY DEF FlowInv, InFlow
<1>3. CASE Getline \/ ReaderPush \/ ReaderDrop
  <2>1. rpc' # "exited" /\ UNCHANGED <<mpc, seen, outq, wpc>>
    BY <1>3 DEF Getline, ReadOk, ReadSkipped, ReadEof, ReaderPush, ReaderDrop, matcher, control, writer
  <2> QED BY <2>1 DEF HasSentinel
<1>4. CASE ReaderSentinel
  <2>1. inq' = Append(inq, Shutdown) /\ UNCHANGED <<mpc, seen, outq, wpc>>
    BY <1>4 DEF ReaderSentinel, matcher, control, writer
  <2>2. HasSentinel(inq)'
    BY <1>1, <2>1, SealedQueue DEF HasSentinel
  <2> QED BY <2>1, <2>2 DEF HasSentinel
<1>5. CASE ReaderAbort
  <2>1. "reader" \in seen /\ UNCHANGED <<mpc, seen, outq, wpc>>
    BY <1>5 DEF ReaderAbort, matcher, control, writer
  <2> QED BY <2>1 DEF HasSentinel
<1>6. CASE MatcherPop
  <2>1. inq # <<>> /\ Head(inq) # Shutdown /\ inq' = Tail(inq) /\ mpc = "poll" /\ mpc' = "handle"
        /\ UNCHANGED <<rpc, seen>>
    BY <1>6 DEF MatcherPop, reader, control
  <2>2. HasSentinel(inq') <=> HasSentinel(inq)
    BY <1>1, <2>1, ChannelTake
  <2>3. HasSentinel(inq)' <=> HasSentinel(inq)
    BY <2>2 DEF HasSentinel
  <2> QED BY <2>1, <2>3
<1>7. CASE MatcherWork \/ MatcherReturn \/ EmitPush \/ EmitDrop
  <2>1. mpc # "exited" /\ mpc' # "exited" /\ mpc = "handle" /\ UNCHANGED <<rpc, seen, inq>>
    <3>1. CASE MatcherWork \/ MatcherReturn
      BY <3>1 DEF MatcherWork, MatcherReturn, reader, control
    <3>2. CASE EmitPush \/ EmitDrop
      <4>1. pushed < Len(emitted) /\ UNCHANGED <<mpc, rpc, seen, inq>>
        BY <3>2 DEF EmitPush, EmitDrop, reader, control
      <4>2. mpc # "handle" => pushed \in 0 .. Len(emitted) /\ Len(emitted) = 0
        BY EmptySeq DEF FlowInv, OutFlow
      <4> QED BY <4>1, <4>2
    <3> QED BY <1>7, <3>1, <3>2
  <2>2. HasSentinel(inq)' <=> HasSentinel(inq)
    BY <2>1 DEF HasSentinel
  <2>3. mpc' \in {"handle", "poll"}
    BY <1>7, <2>1 DEF MatcherWork, MatcherReturn, EmitPush, EmitDrop
  <2> QED BY <2>1, <2>2, <2>3
<1>8. CASE MatcherSentinel
  <2>1. mpc' = "forward" /\ UNCHANGED <<rpc, seen>>
    BY <1>8 DEF MatcherSentinel, reader, control
  <2> QED BY <2>1
<1>9. CASE forward_shutdown
  <2>1. mpc' = "exited" /\ outq' = Append(outq, Shutdown)
    BY <1>9 DEF forward_shutdown
  <2>2. HasSentinel(outq)'
    BY <1>1, <2>1, SealedQueue DEF HasSentinel
  <2> QED BY <2>1, <2>2
<1>10. CASE MatcherAbort
  <2>1. mpc' = "exited" /\ "matcher" \in seen /\ seen' = seen
    BY <1>10 DEF MatcherAbort, control
  <2> QED BY <2>1
<1>11. CASE WriterPop
  <2>1. outq # <<>> /\ Head(outq) # Shutdown /\ outq' = Tail(outq) /\ UNCHANGED <<rpc, seen, inq, mpc, wpc>>
    BY <1>11 DEF WriterPop, reader, control, matcher
  <2>2. HasSentinel(outq') <=> HasSentinel(outq)
    BY <1>1, <2>1, ChannelTake
  <2>3. (HasSentinel(outq)' <=> HasSentinel(outq)) /\ (HasSentinel(inq)' <=> HasSentinel(inq))
    BY <2>1, <2>2 DEF HasSentinel
  <2> QED BY <2>1, <2>3
<1>12. CASE WriterSentinel \/ WriterAbort
  <2>1. wpc' = "exited" /\ UNCHANGED <<rpc, seen, inq, mpc>>
    BY <1>12 DEF WriterSentinel, WriterAbort, reader, control, matcher
  <2>2. HasSentinel(inq)' <=> HasSentinel(inq)
    BY <2>1 DEF HasSentinel
  <2> QED BY <2>1, <2>2
<1>13. CASE join \/ request_stop_signal_handler \/ (\E t \in Thread : Observe(t)) \/ UNCHANGED pipeVars
  <2>1. seen \subseteq seen' /\ UNCHANGED <<rpc, inq, mpc, outq, wpc>>
    BY <1>13 DEF join, request_stop_signal_handler, Observe, reader, control, matcher, writer, pipeVars
  <2>2. (HasSentinel(outq)' <=> HasSentinel(outq)) /\ (HasSentinel(inq)' <=> HasSentinel(inq))
    BY <2>1 DEF HasSentinel
  <2> QED BY <2>1, <2>2
<1> QED
  BY <1>3, <1>4, <1>5, <1>6, <1>7, <1>8, <1>9, <1>10, <1>11, <1>12, <1>13
  DEF pipeNext, ReaderStep, MatcherStep, WriterStep, Terminated

(* A node is allocated only for a line that was read and handled. *)
LEMMA NodesNext ==
  FlowInv /\ TypeOK /\ NodesPaidFor /\ [pipeNext]_pipeVars => NodesPaidFor'
<1> SUFFICES ASSUME FlowInv, TypeOK, NodesPaidFor, [pipeNext]_pipeVars PROVE NodesPaidFor'
  OBVIOUS
<1>1. /\ fed \in Seq(Inputs) /\ handled \in Seq(Inputs) /\ Len(fed) \in Nat /\ Len(handled) \in Nat
      /\ lines \in 0 .. MaxLines /\ Len(fed) <= lines /\ Nodes <= Len(handled)
  BY LenProperties DEF NodesPaidFor
<1>2. allocated \in Nat /\ MaxLines \in Nat
  BY PipelineAssumption, BookAssumption DEF TypeOK
<1>3. ASSUME NEW e \in Inputs, ReadOk(e) PROVE NodesPaidFor'
  <2>1. lines < MaxLines /\ lines' = lines + 1 /\ fed' = Append(fed, e)
        /\ UNCHANGED <<handled, allocated, pc>>
    BY <1>3 DEF ReadOk, matcher, vars, book, frame
  <2>2. fed' \in Seq(Inputs) /\ Len(fed') = Len(fed) + 1
    BY <1>1, <2>1, AppendProperties
  <2> QED BY <1>1, <1>2, <2>1, <2>2 DEF NodesPaidFor, Nodes
<1>4. CASE ReadSkipped
  <2>1. lines < MaxLines /\ lines' = lines + 1 /\ UNCHANGED <<fed, handled, allocated, pc>>
    BY <1>4 DEF ReadSkipped, matcher, vars, book, frame
  <2> QED BY <1>1, <1>2, <2>1 DEF NodesPaidFor, Nodes
<1>5. CASE ReadEof \/ ReaderStep
  <2>1. UNCHANGED <<lines, fed, handled, allocated, pc>>
    BY <1>5 DEF ReadEof, ReaderStep, ReaderPush, ReaderDrop, ReaderSentinel, ReaderAbort,
                matcher, vars, book, frame
  <2> QED BY <1>1, <2>1 DEF NodesPaidFor, Nodes
<1>6. CASE MatcherPop
  <2>1. /\ inq # <<>> /\ Head(inq) # Shutdown /\ BookBegin(Head(inq))
        /\ handled' = Append(handled, Head(inq)) /\ UNCHANGED <<lines, fed>>
    BY <1>6 DEF MatcherPop, reader
  <2>2. inq \in Seq(Inputs \cup {Shutdown})
    BY DEF FlowInv, InFlow, Channel
  <2>3. Head(inq) \in Inputs
    BY <2>1, <2>2
  <2>4. handled' \in Seq(Inputs) /\ Len(handled') = Len(handled) + 1
    BY <1>1, <2>1, <2>3, AppendProperties
  <2>5. pc = "idle" /\ allocated' = allocated
    BY <2>1, BeginMoves
  <2>6. Nodes = allocated /\ Nodes' \in {allocated, allocated + 1}
    BY <1>2, <2>5 DEF Nodes
  <2> QED BY <1>1, <1>2, <2>1, <2>4, <2>6 DEF NodesPaidFor
<1>7. CASE MatcherWork
  <2>1. UNCHANGED <<lines, fed, handled>>
    BY <1>7 DEF MatcherWork, reader
  <2>2. /\ pc \in {"ladder", "level"}
        /\ \/ pc' \in {"ladder", "level"} /\ allocated' = allocated
           \/ pc' = "done" /\ allocated' \in {allocated, allocated + 1}
    BY <1>7, WorkMoves DEF MatcherWork
  <2>3. Nodes = allocated + 1 /\ Nodes' \in {allocated, allocated + 1}
    BY <1>2, <2>2 DEF Nodes
  <2> QED BY <1>1, <1>2, <2>1, <2>3 DEF NodesPaidFor
<1>8. CASE MatcherReturn
  <2>1. pc = "done" /\ pc' = "idle" /\ UNCHANGED <<lines, fed, handled, allocated>>
    BY <1>8 DEF MatcherReturn, Return, reader, book
  <2> QED BY <1>1, <2>1 DEF NodesPaidFor, Nodes
<1>9. CASE EmitPush \/ EmitDrop \/ MatcherSentinel \/ forward_shutdown \/ MatcherAbort
  <2>1. UNCHANGED <<lines, fed, handled, allocated, pc>>
    BY <1>9 DEF EmitPush, EmitDrop, MatcherSentinel, forward_shutdown, MatcherAbort,
                reader, vars, book, frame
  <2> QED BY <1>1, <2>1 DEF NodesPaidFor, Nodes
<1>10. CASE WriterStep \/ join \/ request_stop_signal_handler
            \/ (\E t \in Thread : Observe(t)) \/ UNCHANGED pipeVars
  <2>1. UNCHANGED <<lines, fed, handled, allocated, pc>>
    BY <1>10 DEF WriterStep, WriterPop, WriterSentinel, WriterAbort, join,
                 request_stop_signal_handler, Observe, reader, matcher, vars, book, frame, pipeVars
  <2> QED BY <1>1, <2>1 DEF NodesPaidFor, Nodes
<1> QED
  BY <1>3, <1>4, <1>5, <1>6, <1>7, <1>8, <1>9, <1>10
  DEF pipeNext, Getline, MatcherStep, Terminated

LEMMA AliveInit == pipeInit => Places /\ Handovers /\ NodesPaidFor
<1> SUFFICES ASSUME pipeInit PROVE Places /\ Handovers /\ NodesPaidFor
  OBVIOUS
<1>1. /\ rpc = "getline" /\ mpc = "poll" /\ wpc = "poll" /\ pc = "idle" /\ emitted = <<>>
      /\ lines = 0 /\ fed = <<>> /\ handled = <<>> /\ allocated = 0
  BY DEF pipeInit, Init
<1>2. Nodes = 0 /\ Len(<<>>) = 0 /\ <<>> \in Seq(Inputs)
  BY <1>1, EmptySeq DEF Nodes
<1>3. lines \in 0 .. MaxLines
  BY <1>1, PipelineAssumption, BookAssumption
<1> QED BY <1>1, <1>2, <1>3 DEF Places, Handovers, NodesPaidFor

(* An event that waits has a node to spare. *)
LEMMA SpareNode ==
  ASSUME FlowInv, TypeOK, Places, NodesPaidFor, mpc = "poll", inq # <<>>, Head(inq) # Shutdown
  PROVE  pc = "idle" /\ allocated < MaxNodes
<1>1. pc = "idle"
  BY DEF Places
<1>2. /\ inq \in Seq(Inputs \cup {Shutdown}) /\ Len(handled) + Waiting(inq) <= Len(fed)
      /\ \A i \in 1 .. Len(inq) : inq[i] = Shutdown => i = Len(inq)
  BY DEF FlowInv, InFlow, Channel
<1>3. Len(inq) \in Nat /\ Len(inq) > 0 /\ Head(inq) = inq[1]
  BY <1>2, EmptySeq, LenProperties
<1>4. Waiting(inq) \in Nat /\ Waiting(inq) > 0
  <2>1. CASE HasSentinel(inq)
    <3>1. Len(inq) # 1
      BY <1>3, <2>1 DEF HasSentinel
    <3>2. Waiting(inq) = Len(inq) - 1
      BY <2>1 DEF Waiting
    <3> QED BY <1>3, <3>1, <3>2
  <2>2. CASE ~HasSentinel(inq)
    <3>1. Waiting(inq) = Len(inq)
      BY <2>2 DEF Waiting
    <3> QED BY <1>3, <3>1
  <2> QED BY <2>1, <2>2
<1>5. /\ Len(fed) <= lines /\ lines \in 0 .. MaxLines /\ allocated <= Len(handled)
      /\ Len(fed) \in Nat /\ Len(handled) \in Nat
  BY <1>1, LenProperties DEF NodesPaidFor, Nodes, TypeOK
<1>6. allocated \in Nat /\ MaxLines \in Nat /\ MaxNodes \in Nat /\ MaxLines <= MaxNodes
  BY PipelineAssumption, BookAssumption DEF TypeOK
<1> QED BY <1>1, <1>2, <1>4, <1>5, <1>6

(* The engine never deadlocks: until main has returned some thread can go on. *)
(* An empty output queue unblocks the matcher, an empty input queue the       *)
(* reader; a reader or matcher that is gone has left a sentinel or a stop     *)
(* request that the others have still to see (stream_pipeline.hpp:53-87,      *)
(* 113-126, agent_system.hpp:54).  So three threads that wait in a circle,    *)
(* or for one that has ended, do not occur, for any input, capacity, schedule *)
(* or moment of a stop request; only getline may wait for something outside.  *)
THEOREM EngineNeverStuck == pipeSpec => []EngineCanStep
<1>1. ASSUME FlowInv, TypeOK, Places, Handovers, NodesPaidFor, HandlerCanStep
      PROVE  EngineCanStep
  <2> SUFFICES ASSUME joining # "exited", ~ReaderCanGo, ~MatcherCanGo, ~WriterCanGo,
                      ~MainCanGo, ~StopUnseen
               PROVE  FALSE
    BY DEF EngineCanStep
  <2>1. /\ inq \in Seq(Inputs \cup {Shutdown}) /\ outq \in Seq(OutputEvent \cup {Shutdown})
        /\ emitted \in Seq(OutputEvent) /\ pushed \in 0 .. Len(emitted)
    BY <1>1 DEF FlowInv, InFlow, OutFlow, Channel
  <2>2. (inq = <<>> => HasRoom(inq)) /\ (outq = <<>> => HasRoom(outq))
    <3>1. ASSUME NEW q, q = <<>> PROVE HasRoom(q)
      BY <3>1, EmptySeq, PipelineAssumption DEF HasRoom
    <3> QED BY <3>1
  <2>3. /\ Ends /\ joining \in Thread
        /\ rpc \in {"push", "sentinel", "exited"}
        /\ mpc \in {"poll", "handle", "forward", "exited"}
        /\ wpc \in {"poll", "exited"}
    BY <1>1 DEF FlowInv, Ends, Places, ReaderCanGo
  <2>4. /\ stop /\ rpc # "exited" => "reader" \in seen
        /\ stop /\ mpc # "exited" => "matcher" \in seen
        /\ stop /\ wpc # "exited" => "writer" \in seen
    BY DEF StopUnseen, Thread, Exited
  <2>5. mpc = "handle" => ~HasRoom(outq) /\ "matcher" \notin seen
    <3> SUFFICES ASSUME mpc = "handle" PROVE pushed < Len(emitted)
      BY DEF MatcherCanGo
    <3>1. ~AllPushed
      BY <1>1 DEF MatcherCanGo, Places
    <3>2. Len(emitted) \in Nat
      BY <2>1, LenProperties
    <3> QED BY <2>1, <3>1, <3>2 DEF AllPushed
  <2>6. mpc = "poll" => inq = <<>> /\ "matcher" \notin seen
    BY <1>1, SpareNode DEF MatcherCanGo
  <2>7. mpc = "forward" => ~HasRoom(outq) /\ "matcher" \notin seen
    BY DEF MatcherCanGo
  <2>8. rpc # "exited" => ~HasRoom(inq) /\ "reader" \notin seen
    BY <2>3 DEF ReaderCanGo
  <2>9. wpc = "poll" => outq = <<>> /\ "writer" \notin seen
    BY DEF WriterCanGo
  <2>10. CASE wpc = "poll"
    <3>1. ~stop /\ seen = {} /\ HasRoom(outq)
      BY <2>2, <2>3, <2>4, <2>9, <2>10 DEF Ends
    <3>2. mpc \in {"poll", "exited"}
      BY <2>3, <2>5, <2>7, <3>1
    <3>3. mpc # "exited"
      BY <1>1, <2>9, <2>10, <3>1 DEF Handovers, HasSentinel
    <3>4. mpc = "poll" /\ inq = <<>> /\ rpc = "exited"
      BY <2>2, <2>3, <2>6, <2>8, <3>2, <3>3
    <3> QED BY <1>1, <3>1, <3>4 DEF Handovers, HasSentinel
  <2>11. CASE wpc = "exited" /\ mpc # "exited"
    <3>1. "writer" \in seen
      BY <2>3, <2>11 DEF Ends
    <3>2. stop
      BY <2>3, <3>1 DEF Ends
    <3>3. "matcher" \in seen
      BY <2>4, <2>11, <3>2
    <3> QED BY <2>3, <2>5, <2>6, <2>7, <2>11, <3>3
  <2>12. CASE wpc = "exited" /\ mpc = "exited"
    <3>1. rpc # "exited"
      BY <2>3, <2>12 DEF MainCanGo, Thread, Exited
    <3>2. "matcher" \in seen
      BY <2>3, <2>12, <3>1 DEF Ends
    <3>3. stop
      BY <2>3, <3>2 DEF Ends
    <3> QED BY <2>4, <2>8, <3>1, <3>3
  <2> QED BY <2>3, <2>10, <2>11, <2>12
<1>2. pipeSpec => []TypeOK /\ []HandlerCanStep
  BY EngineRunsBook, TypeCorrect, HandlersNeverStuck, PTL
<1>3. /\ Places /\ Handovers /\ NodesPaidFor /\ FlowInv /\ TypeOK /\ [pipeNext]_pipeVars
      => (Places /\ Handovers /\ NodesPaidFor)'
  BY PlacesNext, HandoversNext, NodesNext
<1>4. pipeSpec => [](Places /\ Handovers /\ NodesPaidFor)
  BY AliveInit, <1>2, <1>3, FlowInvariant, PTL DEF pipeSpec
<1> QED BY <1>1, <1>2, <1>4, FlowInvariant, PTL
==============================================================================

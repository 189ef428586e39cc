----------------------------- MODULE BoundedFifo -----------------------------
(***************************************************************************)
(* What a bounded queue between one producer and one consumer promises:    *)
(* values numbered in the order they were put are taken in that order,     *)
(* none lost, none twice, and never more than Room of them inside.         *)
(***************************************************************************)
EXTENDS Integers, Sequences

CONSTANTS Room,      \* most values the queue can hold
          MaxPush    \* bound: values ever put

VARIABLES queue,     \* values inside, oldest first
          sent,      \* number of values put so far; also the next value
          last       \* the value taken last

fifoVars == <<queue, sent, last>>

fifoInit == queue = <<>> /\ sent = 0 /\ last = -1

Put ==
  /\ sent < MaxPush
  /\ Len(queue) < Room
  /\ queue' = Append(queue, sent)
  /\ sent' = sent + 1
  /\ UNCHANGED last

Take ==
  /\ queue # <<>>
  /\ last' = Head(queue)
  /\ queue' = Tail(queue)
  /\ UNCHANGED sent

fifoSpec == fifoInit /\ [][Put \/ Take]_fifoVars
==============================================================================

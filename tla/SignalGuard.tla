----------------------------- MODULE SignalGuard -----------------------------
(***************************************************************************)
(* signal_guard of include/matching/runtime/signal_handler.hpp: objects    *)
(* that install a handler with std::signal, pass the duty to restore the   *)
(* previous one on when they are moved, and restore it when they end.      *)
(*                                                                         *)
(* The owner of the guards keeps the rule of the class comment: of several *)
(* registrations for a signal, the latest is given up first.               *)
(***************************************************************************)
EXTENDS Integers, Sequences

CONSTANTS Signum,        \* signal numbers
          Uncatchable,   \* those std::signal answers with SIG_ERR
          Disposition,   \* SIG_DFL, SIG_IGN and handler functions
          Guard          \* storage for guard objects

ASSUME GuardAssumption == Uncatchable \subseteq Signum

NoSignal == "none"                                        \* signum_ of -1

VARIABLES
  handler,    \* the process's disposition of each signal
  guard,      \* Guard -> [alive, signum, previous, active]
  original,   \* dispositions before any guard, fixed
  installed   \* history: registrations in force, [guard, handler], oldest first

guardVars == <<handler, guard, original, installed>>

Idle(alive) ==
  [alive |-> alive, signum |-> NoSignal, previous |-> "SIG_DFL", active |-> FALSE]

(* Mutant: nothing is restored. *)
Mut_Released(g) == handler

(* Dispositions after release() of guard g. *)
Released(g) ==
  IF guard[g].active THEN [handler EXCEPT ![guard[g].signum] = guard[g].previous]
                     ELSE handler

(* Registrations once g has given up the latest, if that is its own. *)
GivenUp(g) ==
  [s \in Signum |->
     LET regs == installed[s]
     IN  IF regs # <<>> /\ regs[Len(regs)].guard = g
         THEN SubSeq(regs, 1, Len(regs) - 1) ELSE regs]

(* The rule: g holds no registration, or the latest of its signal. *)
Innermost(g) ==
  \A s \in Signum : \A i \in DOMAIN installed[s] :
    installed[s][i].guard = g => i = Len(installed[s])

------------------------------------------------------------------------------
guardInit ==
  /\ handler \in [Signum -> Disposition]
  /\ \A s \in Uncatchable : handler[s] = "SIG_DFL"
  /\ guard = [g \in Guard |-> Idle(FALSE)]
  /\ original = handler
  /\ installed = [s \in Signum |-> <<>>]

(* signal_guard() *)
Default(g) ==
  /\ ~guard[g].alive
  /\ guard' = [guard EXCEPT ![g] = Idle(TRUE)]
  /\ UNCHANGED <<handler, original, installed>>

(* signal_guard(s, h) *)
Construct(g, s, h) ==
  /\ ~guard[g].alive
  /\ IF s \in Uncatchable
     THEN /\ guard' = [guard EXCEPT ![g] = Idle(TRUE)]
          /\ UNCHANGED <<handler, installed>>
     ELSE /\ handler' = [handler EXCEPT ![s] = h]
          /\ guard' = [guard EXCEPT ![g] = [alive |-> TRUE, signum |-> s,
                                            previous |-> handler[s], active |-> TRUE]]
          /\ installed' = [installed EXCEPT ![s] = Append(@, [guard |-> g, handler |-> h])]
  /\ UNCHANGED original

(* Mutant: the guard moved from stays active. *)
Mut_Moved(g, o) == [guard EXCEPT ![g] = [guard[o] EXCEPT !.alive = TRUE]]

(* The guards once g has taken over from o. *)
Moved(g, o) ==
  [guard EXCEPT ![g] = [guard[o] EXCEPT !.alive = TRUE],
                ![o].active = FALSE, ![o].signum = NoSignal]

Renamed(g, o, regs) ==
  [i \in DOMAIN regs |-> IF regs[i].guard = o THEN [regs[i] EXCEPT !.guard = g] ELSE regs[i]]

(* signal_guard(std::move(o)) and operator=(std::move(o)); moving a guard onto *)
(* itself does nothing.                                                        *)
Move(g, o) ==
  /\ g # o
  /\ guard[o].alive
  /\ Innermost(g)
  /\ handler' = Released(g)
  /\ guard' = Moved(g, o)
  /\ installed' = [s \in Signum |-> Renamed(g, o, GivenUp(g)[s])]
  /\ UNCHANGED original

(* ~signal_guard() *)
Destroy(g) ==
  /\ guard[g].alive
  /\ Innermost(g)
  /\ handler' = Released(g)
  /\ guard' = [guard EXCEPT ![g] = Idle(FALSE)]
  /\ installed' = GivenUp(g)
  /\ UNCHANGED original

guardNext ==
  \E g \in Guard :
    \/ Default(g)
    \/ \E s \in Signum, h \in Disposition : Construct(g, s, h)
    \/ \E o \in Guard : Move(g, o)
    \/ Destroy(g)

guardSpec == guardInit /\ [][guardNext]_guardVars

------------------------------------------------------------------------------
(* Whatever guards are nested, moved, assigned over and destroyed, a signal   *)
(* has the handler of the latest registration still held, and the one found   *)
(* at the start when none is (signal_handler.hpp:13-16, 21-67).               *)
HandlerIsInnermost ==
  \A s \in Signum :
    handler[s] = IF installed[s] = <<>> THEN original[s]
                 ELSE installed[s][Len(installed[s])].handler
==============================================================================

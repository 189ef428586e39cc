--------------------------- MODULE EngineMainProofs ---------------------------
(***************************************************************************)
(* Proofs about SignalGuard, for any signals, handlers and number of       *)
(* guards, and about EngineMain, for any command lines and any number of   *)
(* signals, arriving anywhere.                                             *)
(***************************************************************************)
EXTENDS EngineMain, SequenceTheorems, TLAPS

Registration == [guard : Guard, handler : Disposition]
Fields == [alive : BOOLEAN, signum : Signum \cup {NoSignal},
           previous : Disposition \cup {"SIG_DFL"}, active : BOOLEAN]

(* What is known of the state before anything is said of who restores what.   *)
GuardTypes ==
  /\ handler \in [Signum -> Disposition] /\ original \in [Signum -> Disposition]
  /\ installed \in [Signum -> Seq(Registration)]
  /\ guard \in [Guard -> Fields]

(* An active guard is registered for its signal. *)
ActiveIsRegistered ==
  \A g \in Guard : guard[g].active =>
    /\ guard[g].alive
    /\ guard[g].signum \in Signum
    /\ \E i \in DOMAIN installed[guard[g].signum] :
         installed[guard[g].signum][i].guard = g

(* Whom registration i of signal s restores. *)
Below(s, i) == IF i = 1 THEN original[s] ELSE installed[s][i - 1].handler

(* The registrations of a signal are a chain: each is held by an active guard *)
(* of its own, which restores the one below it.                               *)
Chained ==
  \A s \in Signum : \A i \in DOMAIN installed[s] :
    LET g == installed[s][i].guard
    IN  guard[g].active /\ guard[g].signum = s /\ guard[g].previous = Below(s, i)

HeldOnce ==
  \A s \in Signum : \A i, j \in DOMAIN installed[s] :
    installed[s][i].guard = installed[s][j].guard => i = j

GuardInv == GuardTypes /\ ActiveIsRegistered /\ Chained /\ HeldOnce /\ HandlerIsInnermost

------------------------------------------------------------------------------
(* The registrations of a signal are a sequence. *)
LEMMA Registered ==
  ASSUME GuardTypes, NEW s \in Signum
  PROVE  /\ installed[s] \in Seq(Registration) /\ Len(installed[s]) \in Nat
         /\ DOMAIN installed[s] = 1 .. Len(installed[s])
         /\ installed[s] = <<>> <=> Len(installed[s]) = 0
         /\ \A i \in DOMAIN installed[s] :
              installed[s][i].guard \in Guard /\ installed[s][i].handler \in Disposition
<1>1. installed[s] \in Seq(Registration)
  BY DEF GuardTypes
<1>2. /\ DOMAIN installed[s] = 1 .. Len(installed[s]) /\ Len(installed[s]) \in Nat
      /\ installed[s] = <<>> <=> Len(installed[s]) = 0
  BY <1>1, LenProperties, EmptySeq
<1>3. \A i \in DOMAIN installed[s] : installed[s][i] \in Registration
  BY <1>1, <1>2, ElementOfSeq
<1> QED BY <1>1, <1>2, <1>3 DEF Registration

(* Giving up a guard's registration, its signal's latest: the others keep     *)
(* their places, and release() has put back the handler of the one below.     *)
LEMMA GivingUp ==
  ASSUME GuardInv, NEW g \in Guard, Innermost(g), NEW s \in Signum
  PROVE  LET regs == GivenUp(g)[s]
         IN  /\ regs \in Seq(Registration)
             /\ Len(regs) <= Len(installed[s])
             /\ \A i \in 1 .. Len(regs) : regs[i] = installed[s][i] /\ regs[i].guard # g
             /\ \A i \in 1 .. Len(installed[s]) :
                  installed[s][i].guard # g => i \in 1 .. Len(regs)
             /\ Released(g)[s] = IF regs = <<>> THEN original[s] ELSE regs[Len(regs)].handler
             /\ Released(g)[s] \in Disposition
<1> DEFINE old == installed[s]
           n == Len(old)
           regs == GivenUp(g)[s]
           gives == old # <<>> /\ old[n].guard = g
<1>1. /\ old \in Seq(Registration) /\ n \in Nat /\ DOMAIN old = 1 .. n
      /\ handler[s] \in Disposition /\ original[s] \in Disposition
      /\ DOMAIN handler = Signum
  BY LenProperties DEF GuardInv, GuardTypes
<1>2. regs = IF gives THEN SubSeq(old, 1, n - 1) ELSE old
  BY DEF GivenUp
<1>3. old # <<>> => n >= 1
  BY <1>1
<1>4. \A i \in 1 .. n : old[i].guard = g => i = n
  BY <1>1 DEF Innermost
<1>5. handler[s] = IF old = <<>> THEN original[s] ELSE old[n].handler
  BY DEF GuardInv, HandlerIsInnermost
<1>6. \A i \in 1 .. n : old[i] \in Registration /\ old[i].handler \in Disposition
  <2>1. \A i \in 1 .. n : old[i] \in Registration
    BY <1>1, ElementOfSeq
  <2> HIDE DEF old, n
  <2> QED BY <2>1 DEF Registration
<1>7. ASSUME gives PROVE guard[g].active /\ guard[g].signum = s /\ guard[g].previous = Below(s, n)
  BY <1>1, <1>3, <1>7 DEF GuardInv, Chained
<1>8. ASSUME gives PROVE Released(g)[s] = IF n = 1 THEN original[s] ELSE old[n - 1].handler
  BY <1>1, <1>7, <1>8 DEF Released, Below
<1>9. ASSUME ~gives PROVE \A i \in 1 .. n : old[i].guard # g
  BY <1>1, <1>3, <1>4, <1>9
<1>10. ASSUME ~gives PROVE Released(g)[s] = handler[s]
  BY <1>1, <1>9, <1>10 DEF Released, GuardInv, ActiveIsRegistered
<1> DEFINE back == Released(g)[s]
<1> HIDE DEF regs, old, n, gives, back
<1> SUFFICES /\ regs \in Seq(Registration) /\ Len(regs) <= n
             /\ \A i \in 1 .. Len(regs) : regs[i] = old[i] /\ regs[i].guard # g
             /\ \A i \in 1 .. n : old[i].guard # g => i \in 1 .. Len(regs)
             /\ back = IF regs = <<>> THEN original[s] ELSE regs[Len(regs)].handler
             /\ back \in Disposition
  BY DEF regs, old, n, back
<1>11. CASE gives
  <2>1. n \in 1 .. n /\ n - 1 \in Nat /\ n - 1 <= n
    BY <1>1, <1>3, <1>11 DEF gives
  <2>2. /\ regs \in Seq(Registration) /\ Len(regs) = n - 1
        /\ \A i \in 1 .. n - 1 : regs[i] = old[i]
    BY <1>1, <1>2, <1>11, <2>1, SubSeqProperties DEF n
  <2>3. \A i \in 1 .. n - 1 : regs[i].guard # g
    BY <1>1, <1>4, <2>2
  <2>4. \A i \in 1 .. n : old[i].guard # g => i \in 1 .. n - 1
    BY <1>1, <1>11, <2>1 DEF gives
  <2>5. back = IF n = 1 THEN original[s] ELSE regs[n - 1].handler
    BY <1>1, <1>8, <1>11, <2>1, <2>2 DEF back
  <2>6. regs = <<>> <=> n = 1
    BY <2>1, <2>2, EmptySeq
  <2>7. back \in Disposition
    BY <1>1, <1>6, <1>8, <1>11, <2>1 DEF back
  <2> QED BY <2>1, <2>2, <2>3, <2>4, <2>5, <2>6, <2>7
<1>12. CASE ~gives
  <2>1. regs = old /\ Len(regs) = n
    BY <1>2, <1>12 DEF n
  <2>2. \A i \in 1 .. n : old[i].guard # g
    BY <1>9, <1>12
  <2>3. back = IF regs = <<>> THEN original[s] ELSE regs[Len(regs)].handler
    BY <1>5, <1>10, <1>12, <2>1 DEF back
  <2>4. back \in Disposition
    BY <1>1, <1>10, <1>12 DEF back
  <2> QED BY <1>1, <2>1, <2>2, <2>3, <2>4
<1> QED BY <1>11, <1>12

(* Before any guard there is nothing to restore. *)
LEMMA GuardInit == guardInit => GuardInv
<1> SUFFICES ASSUME guardInit PROVE GuardInv
  OBVIOUS
<1>1. GuardTypes
  BY DEF guardInit, GuardTypes, Fields, Idle
<1>2. ActiveIsRegistered /\ Chained /\ HeldOnce /\ HandlerIsInnermost
  BY DEF guardInit, ActiveIsRegistered, Chained, HeldOnce, HandlerIsInnermost, Idle
<1> QED BY <1>1, <1>2 DEF GuardInv

(* An idle guard takes part in nothing. *)
LEMMA DefaultKeeps ==
  ASSUME GuardInv, NEW g \in Guard, Default(g)
  PROVE  GuardInv'
<1>1. ~guard[g].active
  BY DEF GuardInv, ActiveIsRegistered, Default
<1>2. guard' = [guard EXCEPT ![g] = Idle(TRUE)] /\ UNCHANGED <<handler, original, installed>>
  BY DEF Default
<1>3. GuardTypes'
  BY <1>2 DEF GuardInv, GuardTypes, Fields, Idle
<1>4. \A h \in Guard : h # g => guard'[h] = guard[h]
  BY <1>2 DEF GuardInv, GuardTypes
<1>5. ~guard'[g].active
  BY <1>2 DEF GuardInv, GuardTypes, Idle
<1>6. ActiveIsRegistered'
  <2> SUFFICES ASSUME NEW k \in Guard, guard'[k].active
               PROVE  /\ guard'[k].alive /\ guard'[k].signum \in Signum
                      /\ \E i \in DOMAIN installed'[guard'[k].signum] :
                           installed'[guard'[k].signum][i].guard = k
    BY DEF ActiveIsRegistered
  <2>1. guard'[k] = guard[k] /\ installed' = installed
    BY <1>2, <1>4, <1>5
  <2> QED BY <2>1 DEF GuardInv, ActiveIsRegistered
<1>7. Chained'
  <2> SUFFICES ASSUME NEW s \in Signum, NEW i \in DOMAIN installed'[s]
               PROVE  LET k == installed'[s][i].guard
                      IN  /\ guard'[k].active /\ guard'[k].signum = s
                          /\ guard'[k].previous = Below(s, i)'
    BY DEF Chained
  <2>1. installed' = installed /\ Below(s, i)' = Below(s, i)
    BY <1>2 DEF Below
  <2>2. installed[s][i].guard \in Guard
    BY <2>1, Registered DEF GuardInv
  <2>3. installed[s][i].guard # g
    BY <1>1, <2>1 DEF GuardInv, Chained
  <2> QED BY <1>4, <2>1, <2>2, <2>3 DEF GuardInv, Chained
<1> QED BY <1>2, <1>3, <1>6, <1>7 DEF GuardInv, HeldOnce, HandlerIsInnermost

(* A guard that registers restores the handler found, the innermost so far.   *)
LEMMA ConstructKeeps ==
  ASSUME GuardInv, NEW g \in Guard, NEW s \in Signum, NEW h \in Disposition,
         Construct(g, s, h)
  PROVE  GuardInv'
<1>1. CASE s \in Uncatchable
  BY <1>1, DefaultKeeps DEF Construct, Default
<1>2. CASE s \notin Uncatchable
  <2> DEFINE old == installed[s]
             n == Len(old)
             reg == [guard |-> g, handler |-> h]
             G == [alive |-> TRUE, signum |-> s, previous |-> handler[s], active |-> TRUE]
  <2>1. /\ ~guard[g].active
        /\ handler' = [handler EXCEPT ![s] = h] /\ guard' = [guard EXCEPT ![g] = G]
        /\ installed' = [installed EXCEPT ![s] = Append(old, reg)] /\ original' = original
    BY <1>2 DEF Construct, GuardInv, ActiveIsRegistered
  <2>2. /\ old \in Seq(Registration) /\ n \in Nat /\ DOMAIN old = 1 .. n /\ reg \in Registration
        /\ installed \in [Signum -> Seq(Registration)]
    BY LenProperties DEF GuardInv, GuardTypes, Registration
  <2>3. /\ installed'[s] \in Seq(Registration) /\ DOMAIN installed'[s] = 1 .. n + 1
        /\ Len(installed'[s]) = n + 1 /\ installed'[s] # <<>>
        /\ installed'[s][n + 1] = reg
        /\ \A i \in 1 .. n : installed'[s][i] = old[i]
    <3> HIDE DEF old, n, reg
    <3>1. Append(old, reg) \in Seq(Registration) /\ Len(Append(old, reg)) = n + 1
          /\ Append(old, reg)[n + 1] = reg /\ \A i \in 1 .. n : Append(old, reg)[i] = old[i]
      BY <2>2, AppendProperties DEF n
    <3>2. installed'[s] = Append(old, reg)
      BY <2>1, <2>2
    <3> DEFINE new == Append(old, reg)
    <3> HIDE DEF new
    <3>3. new \in Seq(Registration) /\ Len(new) = n + 1
      BY <3>1 DEF new
    <3>4. DOMAIN new = 1 .. n + 1
      BY <3>3, LenProperties
    <3>5. new # <<>>
      BY <2>2, <3>3, EmptySeq
    <3>6. new[n + 1] = reg /\ \A i \in 1 .. n : new[i] = old[i]
      BY <3>1 DEF new
    <3> QED BY <3>2, <3>3, <3>4, <3>5, <3>6 DEF new
  <2>4. /\ \A t \in Signum : t # s => installed'[t] = installed[t]
        /\ \A t \in Signum : \A i \in DOMAIN installed[t] :
             i \in DOMAIN installed'[t] /\ installed'[t][i] = installed[t][i]
    <3>1. \A t \in Signum : t # s => installed'[t] = installed[t]
      BY <2>1, <2>2
    <3>2. \A i \in DOMAIN installed[s] : i \in DOMAIN installed'[s] /\ installed'[s][i] = installed[s][i]
      <4> HIDE DEF n
      <4> QED BY <2>2, <2>3
    <3> QED BY <3>1, <3>2
  <2>5. \A t \in Signum : \A i \in DOMAIN installed[t] :
          installed[t][i].guard \in Guard /\ installed[t][i].guard # g
    <3> SUFFICES ASSUME NEW t \in Signum, NEW i \in DOMAIN installed[t]
                 PROVE  installed[t][i].guard \in Guard /\ installed[t][i].guard # g
      OBVIOUS
    <3> QED BY <2>1, Registered DEF GuardInv, Chained
  <2>6. guard'[g] = G /\ \A k \in Guard : k # g => guard'[k] = guard[k]
    BY <2>1 DEF GuardInv, GuardTypes
  <2>7. GuardTypes'
    <3>1. handler' \in [Signum -> Disposition] /\ original' \in [Signum -> Disposition]
      BY <2>1 DEF GuardInv, GuardTypes
    <3>2. installed' \in [Signum -> Seq(Registration)]
      BY <2>1, <2>2, <2>3
    <3>3. G \in Fields
      BY DEF GuardInv, GuardTypes, Fields
    <3> HIDE DEF G
    <3>4. guard' \in [Guard -> Fields]
      BY <2>1, <3>3 DEF GuardInv, GuardTypes
    <3> QED BY <3>1, <3>2, <3>4 DEF GuardTypes
  <2>8. ActiveIsRegistered'
    <3> SUFFICES ASSUME NEW k \in Guard, guard'[k].active
                 PROVE  /\ guard'[k].alive /\ guard'[k].signum \in Signum
                        /\ \E i \in DOMAIN installed'[guard'[k].signum] :
                             installed'[guard'[k].signum][i].guard = k
      BY DEF ActiveIsRegistered
    <3>1. CASE k = g
      <4>1. guard'[k].alive /\ guard'[k].signum = s
        BY <2>6, <3>1
      <4>2. n + 1 \in DOMAIN installed'[s] /\ installed'[s][n + 1].guard = k
        BY <2>2, <2>3, <3>1
      <4> QED BY <4>1, <4>2
    <3>2. CASE k # g
      <4>1. guard'[k] = guard[k] /\ guard[k].active /\ guard[k].alive /\ guard[k].signum \in Signum
        BY <2>6, <3>2 DEF GuardInv, ActiveIsRegistered
      <4>2. PICK i \in DOMAIN installed[guard[k].signum] : installed[guard[k].signum][i].guard = k
        BY <4>1 DEF GuardInv, ActiveIsRegistered
      <4>3. i \in DOMAIN installed'[guard[k].signum] /\ installed'[guard[k].signum][i] = installed[guard[k].signum][i]
        BY <2>4, <4>1
      <4> QED BY <4>1, <4>2, <4>3
    <3> QED BY <3>1, <3>2
  <2>9. handler[s] = IF old = <<>> THEN original[s] ELSE old[n].handler
    BY DEF GuardInv, HandlerIsInnermost
  <2>10. Chained'
    <3> SUFFICES ASSUME NEW t \in Signum, NEW i \in DOMAIN installed'[t]
                 PROVE  LET k == installed'[t][i].guard
                        IN  /\ guard'[k].active /\ guard'[k].signum = t
                            /\ guard'[k].previous = Below(t, i)'
      BY DEF Chained
    <3>1. CASE t = s /\ i = n + 1
      <4>1. installed'[t][i].guard = g
        BY <2>3, <3>1
      <4>2. Below(t, i)' = IF n = 0 THEN original[s] ELSE installed'[s][n].handler
        <5>1. (n + 1 = 1 <=> n = 0) /\ (n + 1) - 1 = n
          BY <2>2
        <5> QED BY <2>1, <3>1, <5>1 DEF Below
      <4>3. n # 0 => n \in 1 .. n /\ installed'[s][n] = old[n] /\ old # <<>>
        BY <2>2, <2>3, EmptySeq
      <4>4. n = 0 => old = <<>>
        BY <2>2, EmptySeq
      <4>5. Below(t, i)' = handler[s]
        BY <2>9, <4>2, <4>3, <4>4
      <4> QED BY <2>6, <3>1, <4>1, <4>5
    <3>2. CASE ~(t = s /\ i = n + 1)
      <4>1. i \in DOMAIN installed[t] /\ installed'[t][i] = installed[t][i]
        BY <2>2, <2>3, <2>4, <3>2
      <4>2. i # 1 => i - 1 \in DOMAIN installed[t] /\ installed'[t][i - 1] = installed[t][i - 1]
        <5>1. DOMAIN installed[t] = 1 .. Len(installed[t]) /\ Len(installed[t]) \in Nat
          BY Registered DEF GuardInv
        <5>2. i # 1 => i - 1 \in DOMAIN installed[t]
          BY <4>1, <5>1
        <5> QED BY <2>2, <2>3, <2>4, <5>2
      <4>3. Below(t, i)' = Below(t, i)
        BY <2>1, <4>2 DEF Below
      <4>4. guard'[installed[t][i].guard] = guard[installed[t][i].guard]
        BY <2>5, <2>6, <4>1
      <4> QED BY <4>1, <4>3, <4>4 DEF GuardInv, Chained
    <3> QED BY <3>1, <3>2
  <2>11. HeldOnce'
    <3> SUFFICES ASSUME NEW t \in Signum, NEW i \in DOMAIN installed'[t], NEW j \in DOMAIN installed'[t],
                        installed'[t][i].guard = installed'[t][j].guard
                 PROVE  i = j
      BY DEF HeldOnce
    <3>1. CASE t # s
      BY <2>4, <3>1 DEF GuardInv, HeldOnce
    <3>2. CASE t = s
      <4>1. \A k \in 1 .. n : installed'[s][k].guard # g
        BY <2>2, <2>3, <2>5
      <4>2. installed'[s][n + 1].guard = g
        BY <2>3
      <4>3. i \in 1 .. n + 1 /\ j \in 1 .. n + 1
        BY <2>3, <3>2
      <4>4. CASE i = n + 1 \/ j = n + 1
        BY <2>2, <3>2, <4>1, <4>2, <4>3, <4>4
      <4>5. CASE i \in 1 .. n /\ j \in 1 .. n
        BY <2>2, <2>3, <3>2, <4>5 DEF GuardInv, HeldOnce
      <4> QED BY <2>2, <4>3, <4>4, <4>5
    <3> QED BY <3>1, <3>2
  <2>12. HandlerIsInnermost'
    <3> SUFFICES ASSUME NEW t \in Signum
                 PROVE  handler'[t] = IF installed'[t] = <<>> THEN original'[t]
                                      ELSE installed'[t][Len(installed'[t])].handler
      BY DEF HandlerIsInnermost
    <3>1. CASE t = s
      BY <2>1, <2>3, <3>1 DEF GuardInv, GuardTypes
    <3>2. CASE t # s
      BY <2>1, <2>4, <3>2 DEF GuardInv, GuardTypes, HandlerIsInnermost
    <3> QED BY <3>1, <3>2
  <2> QED BY <2>7, <2>8, <2>10, <2>11, <2>12 DEF GuardInv
<1> QED BY <1>1, <1>2

(* A guard is given up and every other active guard is succeeded by its heir: *)
(* the chain goes on without it.  Destruction makes each guard its own heir,  *)
(* a move makes the guard assigned to the heir of the one moved from.         *)
LEMMA Succession ==
  ASSUME GuardInv, NEW g \in Guard, Innermost(g), NEW heir \in [Guard -> Guard],
         \A k, l \in Guard \ {g} : heir[k] = heir[l] => k = l,
         handler' = Released(g), original' = original,
         guard' \in [Guard -> Fields], installed' \in [Signum -> Seq(Registration)],
         \A s \in Signum : LET regs == GivenUp(g)[s]
           IN /\ Len(installed'[s]) = Len(regs)
              /\ \A i \in 1 .. Len(regs) : /\ installed'[s][i].guard = heir[regs[i].guard]
                                           /\ installed'[s][i].handler = regs[i].handler,
         \A k \in Guard \ {g} : guard[k].active =>
           /\ guard'[heir[k]].active /\ guard'[heir[k]].alive
           /\ guard'[heir[k]].signum = guard[k].signum
           /\ guard'[heir[k]].previous = guard[k].previous,
         \A l \in Guard : guard'[l].active => \E k \in Guard \ {g} : heir[k] = l /\ guard[k].active
  PROVE  GuardInv'
<1> DEFINE kept(s) == Len(installed'[s])
<1>1. \A s \in Signum :
        /\ kept(s) \in Nat /\ kept(s) <= Len(installed[s]) /\ DOMAIN installed'[s] = 1 .. kept(s)
        /\ DOMAIN installed[s] = 1 .. Len(installed[s]) /\ Len(installed[s]) \in Nat
        /\ installed'[s] = <<>> <=> kept(s) = 0
  BY GivingUp, Registered, LenProperties, EmptySeq DEF GuardInv
<1>2. \A s \in Signum : \A i \in 1 .. kept(s) :
        /\ i \in 1 .. Len(installed[s]) /\ i \in DOMAIN installed[s]
        /\ installed[s][i].guard \in Guard \ {g}
        /\ installed'[s][i].guard = heir[installed[s][i].guard]
        /\ installed'[s][i].handler = installed[s][i].handler
  <2> SUFFICES ASSUME NEW s \in Signum, NEW i \in 1 .. kept(s)
               PROVE  /\ i \in 1 .. Len(installed[s]) /\ i \in DOMAIN installed[s]
                      /\ installed[s][i].guard \in Guard \ {g}
                      /\ installed'[s][i].guard = heir[installed[s][i].guard]
                      /\ installed'[s][i].handler = installed[s][i].handler
    OBVIOUS
  <2> DEFINE regs == GivenUp(g)[s]
  <2>1. i \in 1 .. Len(installed[s]) /\ i \in DOMAIN installed[s]
    BY <1>1
  <2>2. regs[i] = installed[s][i] /\ regs[i].guard # g
    <3>1. i \in 1 .. Len(regs)
      OBVIOUS
    <3> QED BY <3>1, GivingUp
  <2>3. /\ installed'[s][i].guard = heir[regs[i].guard]
        /\ installed'[s][i].handler = regs[i].handler
    OBVIOUS
  <2> HIDE DEF regs
  <2> QED BY <2>1, <2>2, <2>3, Registered DEF GuardInv
<1>3. \A s \in Signum : \A i \in 1 .. Len(installed[s]) :
        installed[s][i].guard # g => i \in 1 .. kept(s)
  BY GivingUp
<1>4. \A s \in Signum : /\ handler'[s] \in Disposition
                        /\ handler'[s] = IF kept(s) = 0 THEN original[s]
                                         ELSE installed[s][kept(s)].handler
  <2> SUFFICES ASSUME NEW s \in Signum
               PROVE  /\ handler'[s] \in Disposition
                      /\ handler'[s] = IF kept(s) = 0 THEN original[s]
                                       ELSE installed[s][kept(s)].handler
    OBVIOUS
  <2> DEFINE regs == GivenUp(g)[s]
  <2>1. /\ handler'[s] = IF regs = <<>> THEN original[s] ELSE regs[Len(regs)].handler
        /\ handler'[s] \in Disposition
        /\ regs \in Seq(Registration)
        /\ Len(regs) = kept(s)
        /\ \A i \in 1 .. kept(s) : regs[i] = installed[s][i]
    BY GivingUp
  <2>2. regs = <<>> <=> kept(s) = 0
    BY <2>1, EmptySeq
  <2>3. kept(s) # 0 => kept(s) \in 1 .. kept(s)
    BY <1>1
  <2> HIDE DEF regs, kept
  <2> QED BY <2>1, <2>2, <2>3
<1> HIDE DEF kept
<1>5. GuardTypes'
  <2>1. DOMAIN handler' = Signum
    BY DEF Released, GuardInv, GuardTypes
  <2>2. handler' = [s \in Signum |-> handler'[s]]
    BY <2>1 DEF Released, GuardInv, GuardTypes
  <2>3. handler' \in [Signum -> Disposition]
    BY <1>4, <2>2
  <2> QED BY <2>3 DEF GuardTypes, GuardInv
<1>6. ActiveIsRegistered'
  <2> SUFFICES ASSUME NEW l \in Guard, guard'[l].active
               PROVE  /\ guard'[l].alive /\ guard'[l].signum \in Signum
                      /\ \E i \in DOMAIN installed'[guard'[l].signum] :
                           installed'[guard'[l].signum][i].guard = l
    BY DEF ActiveIsRegistered
  <2>1. PICK k \in Guard \ {g} : heir[k] = l /\ guard[k].active
    OBVIOUS
  <2>2. guard'[l].alive /\ guard'[l].signum = guard[k].signum
    BY <2>1
  <2> DEFINE s == guard[k].signum
  <2>3. s \in Signum /\ \E i \in DOMAIN installed[s] : installed[s][i].guard = k
    BY <2>1 DEF GuardInv, ActiveIsRegistered
  <2>4. PICK i \in DOMAIN installed[s] : installed[s][i].guard = k
    BY <2>3
  <2> HIDE DEF s
  <2>5. i \in 1 .. kept(s)
    BY <1>1, <1>3, <2>3, <2>4
  <2>6. i \in DOMAIN installed'[s] /\ installed'[s][i].guard = l
    BY <1>1, <1>2, <2>1, <2>3, <2>4, <2>5
  <2> QED BY <2>2, <2>3, <2>6 DEF s
<1>7. Chained'
  <2> SUFFICES ASSUME NEW s \in Signum, NEW i \in DOMAIN installed'[s]
               PROVE  LET l == installed'[s][i].guard
                      IN  /\ guard'[l].active /\ guard'[l].signum = s
                          /\ guard'[l].previous = Below(s, i)'
    BY DEF Chained
  <2> DEFINE k == installed[s][i].guard
  <2>1. i \in 1 .. kept(s) /\ i \in DOMAIN installed[s] /\ k \in Guard \ {g} /\ installed'[s][i].guard = heir[k]
    BY <1>1, <1>2
  <2>2. guard[k].active /\ guard[k].signum = s /\ guard[k].previous = Below(s, i)
    BY <2>1 DEF GuardInv, Chained
  <2>3. i # 1 => i - 1 \in 1 .. kept(s)
    BY <1>1, <2>1
  <2>4. Below(s, i)' = Below(s, i)
    BY <1>2, <2>3 DEF Below
  <2> HIDE DEF k
  <2> QED BY <2>1, <2>2, <2>4
<1>8. HeldOnce'
  <2> SUFFICES ASSUME NEW s \in Signum, NEW i \in DOMAIN installed'[s], NEW j \in DOMAIN installed'[s],
                      installed'[s][i].guard = installed'[s][j].guard
               PROVE  i = j
    BY DEF HeldOnce
  <2>1. i \in 1 .. kept(s) /\ j \in 1 .. kept(s)
    BY <1>1
  <2>2. installed[s][i].guard = installed[s][j].guard
    BY <1>2, <2>1
  <2> QED BY <1>2, <2>1, <2>2 DEF GuardInv, HeldOnce
<1>9. HandlerIsInnermost'
  <2> SUFFICES ASSUME NEW s \in Signum
               PROVE  handler'[s] = IF installed'[s] = <<>> THEN original'[s]
                                    ELSE installed'[s][Len(installed'[s])].handler
    BY DEF HandlerIsInnermost
  <2>1. Len(installed'[s]) = kept(s)
    BY DEF kept
  <2>2. kept(s) # 0 => kept(s) \in 1 .. kept(s)
    BY <1>1
  <2>3. kept(s) # 0 => installed'[s][kept(s)].handler = installed[s][kept(s)].handler
    BY <1>2, <2>2
  <2> QED BY <1>1, <1>4, <2>1, <2>3
<1> QED BY <1>5, <1>6, <1>7, <1>8, <1>9 DEF GuardInv

(* Destruction: every other guard stays as it is. *)
LEMMA DestroyKeeps ==
  ASSUME GuardInv, NEW g \in Guard, Destroy(g)
  PROVE  GuardInv'
<1> DEFINE heir == [k \in Guard |-> k]
<1>1. /\ Innermost(g) /\ handler' = Released(g) /\ original' = original
      /\ guard' = [guard EXCEPT ![g] = Idle(FALSE)] /\ installed' = GivenUp(g)
  BY DEF Destroy
<1>2. guard' \in [Guard -> Fields]
  BY <1>1 DEF GuardInv, GuardTypes, Fields, Idle
<1>3. installed' \in [Signum -> Seq(Registration)]
  <2>1. \A s \in Signum : installed'[s] \in Seq(Registration)
    BY <1>1, GivingUp
  <2>2. installed' = [s \in Signum |-> installed'[s]]
    BY <1>1 DEF GivenUp
  <2> QED BY <2>1, <2>2
<1>4. \A k \in Guard \ {g} : guard'[k] = guard[k]
  BY <1>1 DEF GuardInv, GuardTypes
<1>5. ~guard'[g].active
  BY <1>1 DEF GuardInv, GuardTypes, Idle
<1>6. \A s \in Signum : \A i \in 1 .. Len(GivenUp(g)[s]) : GivenUp(g)[s][i].guard \in Guard
  <2>1. \A s \in Signum : \A i \in 1 .. Len(GivenUp(g)[s]) : GivenUp(g)[s][i] \in Registration
    BY <1>1, GivingUp, ElementOfSeq
  <2> QED BY <2>1 DEF Registration
<1>7. /\ heir \in [Guard -> Guard] /\ \A k \in Guard : heir[k] = k
  OBVIOUS
<1> HIDE DEF heir
<1>8. \A k \in Guard \ {g} : guard[k].active =>
        /\ guard'[heir[k]].active /\ guard'[heir[k]].alive
        /\ guard'[heir[k]].signum = guard[k].signum
        /\ guard'[heir[k]].previous = guard[k].previous
  BY <1>4, <1>7 DEF GuardInv, ActiveIsRegistered
<1>9. \A l \in Guard : guard'[l].active => \E k \in Guard \ {g} : heir[k] = l /\ guard[k].active
  BY <1>4, <1>5, <1>7
<1>10. \A s \in Signum : LET regs == GivenUp(g)[s]
         IN /\ Len(installed'[s]) = Len(regs)
            /\ \A i \in 1 .. Len(regs) : /\ installed'[s][i].guard = heir[regs[i].guard]
                                         /\ installed'[s][i].handler = regs[i].handler
  BY <1>1, <1>6, <1>7
<1>11. \A k, l \in Guard \ {g} : heir[k] = heir[l] => k = l
  BY <1>7
<1>12. Innermost(g) /\ handler' = Released(g) /\ original' = original
  BY <1>1
<1> QED BY <1>2, <1>3, <1>7, <1>8, <1>9, <1>10, <1>11, <1>12, Succession

(* A move: what g held is released, and g succeeds o. *)
LEMMA MoveKeeps ==
  ASSUME GuardInv, NEW g \in Guard, NEW o \in Guard, Move(g, o)
  PROVE  GuardInv'
<1> DEFINE heir == [k \in Guard |-> IF k = o THEN g ELSE k]
           regs(s) == GivenUp(g)[s]
<1>1. /\ g # o /\ Innermost(g) /\ handler' = Released(g) /\ original' = original
      /\ guard' = Moved(g, o) /\ installed' = [s \in Signum |-> Renamed(g, o, regs(s))]
  BY DEF Move
<1>2. /\ guard'[g].active = guard[o].active /\ guard'[g].alive = TRUE
      /\ guard'[g].signum = guard[o].signum /\ guard'[g].previous = guard[o].previous
      /\ guard'[o].active = FALSE
      /\ \A k \in Guard \ {g, o} : guard'[k] = guard[k]
      /\ guard' \in [Guard -> Fields]
  <2>1. guard \in [Guard -> Fields] /\ guard[o] \in Fields
    BY DEF GuardInv, GuardTypes
  <2>2. /\ guard'[g] = [guard[o] EXCEPT !.alive = TRUE]
        /\ guard'[o] = [guard[o] EXCEPT !.active = FALSE, !.signum = NoSignal]
        /\ \A k \in Guard \ {g, o} : guard'[k] = guard[k]
        /\ DOMAIN guard' = Guard /\ guard' = [k \in Guard |-> guard'[k]]
    BY <1>1, <2>1 DEF Moved
  <2>3. [guard[o] EXCEPT !.alive = TRUE] \in Fields
    BY <2>1 DEF Fields
  <2>4. [guard[o] EXCEPT !.active = FALSE, !.signum = NoSignal] \in Fields
    BY <2>1 DEF Fields
  <2>5. \A k \in Guard : guard'[k] \in Fields
    BY <2>1, <2>2, <2>3, <2>4
  <2>6. guard' \in [Guard -> Fields]
    BY <2>2, <2>5
  <2>7. /\ guard'[g].active = guard[o].active /\ guard'[g].alive = TRUE
        /\ guard'[g].signum = guard[o].signum /\ guard'[g].previous = guard[o].previous
        /\ guard'[o].active = FALSE
    BY <2>1, <2>2 DEF Fields
  <2> QED BY <2>2, <2>6, <2>7
<1>3. \A s \in Signum : /\ regs(s) \in Seq(Registration)
                        /\ \A i \in 1 .. Len(regs(s)) : regs(s)[i] \in Registration
  BY <1>1, GivingUp, ElementOfSeq
<1> HIDE DEF regs
<1>4. \A s \in Signum :
        /\ installed'[s] \in Seq(Registration) /\ Len(installed'[s]) = Len(regs(s))
        /\ \A i \in 1 .. Len(regs(s)) : /\ installed'[s][i].guard = heir[regs(s)[i].guard]
                                        /\ installed'[s][i].handler = regs(s)[i].handler
  <2> SUFFICES ASSUME NEW s \in Signum
               PROVE  /\ installed'[s] \in Seq(Registration) /\ Len(installed'[s]) = Len(regs(s))
                      /\ \A i \in 1 .. Len(regs(s)) :
                           /\ installed'[s][i].guard = heir[regs(s)[i].guard]
                           /\ installed'[s][i].handler = regs(s)[i].handler
    OBVIOUS
  <2> DEFINE n == Len(regs(s))
             new(i) == IF regs(s)[i].guard = o THEN [regs(s)[i] EXCEPT !.guard = g] ELSE regs(s)[i]
  <2>1. n \in Nat /\ DOMAIN regs(s) = 1 .. n
    BY <1>3, LenProperties
  <2>2. installed'[s] = [i \in 1 .. n |-> new(i)]
    BY <1>1, <2>1 DEF Renamed
  <2>3. \A i \in 1 .. n : /\ new(i) \in Registration
                          /\ new(i).guard = heir[regs(s)[i].guard]
                          /\ new(i).handler = regs(s)[i].handler
    BY <1>3 DEF Registration
  <2> HIDE DEF n, new
  <2>4. installed'[s] \in Seq(Registration) /\ Len(installed'[s]) = n
    <3>1. installed'[s] \in [1 .. n -> Registration]
      BY <2>2, <2>3
    <3> QED BY <2>1, <3>1
  <2>5. \A i \in 1 .. n : installed'[s][i] = new(i)
    BY <2>2
  <2> QED BY <2>3, <2>4, <2>5 DEF n
<1>5. installed' \in [Signum -> Seq(Registration)]
  BY <1>1, <1>4
<1>6. /\ heir \in [Guard -> Guard] /\ heir[o] = g /\ \A k \in Guard \ {o} : heir[k] = k
  OBVIOUS
<1> HIDE DEF heir
<1>7. \A k, l \in Guard \ {g} : heir[k] = heir[l] => k = l
  BY <1>1, <1>6
<1>8. \A k \in Guard \ {g} : guard[k].active =>
        /\ guard'[heir[k]].active /\ guard'[heir[k]].alive
        /\ guard'[heir[k]].signum = guard[k].signum
        /\ guard'[heir[k]].previous = guard[k].previous
  BY <1>1, <1>2, <1>6 DEF GuardInv, ActiveIsRegistered
<1>9. \A l \in Guard : guard'[l].active => \E k \in Guard \ {g} : heir[k] = l /\ guard[k].active
  BY <1>1, <1>2, <1>6
<1> QED BY <1>1, <1>2, <1>4, <1>5, <1>6, <1>7, <1>8, <1>9, Succession DEF regs

(* Every operation on guards keeps the chain. *)
LEMMA GuardNext == GuardInv /\ [guardNext]_guardVars => GuardInv'
<1> SUFFICES ASSUME GuardInv, [guardNext]_guardVars PROVE GuardInv'
  OBVIOUS
<1>1. CASE guardNext
  BY <1>1, DefaultKeeps, ConstructKeeps, MoveKeeps, DestroyKeeps DEF guardNext
<1>2. CASE UNCHANGED guardVars
  BY <1>2 DEF guardVars, GuardInv, GuardTypes, ActiveIsRegistered, Chained, Below, HeldOnce,
              HandlerIsInnermost
<1> QED BY <1>1, <1>2

(* The chain of registrations, in every execution. *)
THEOREM GuardInvariant == guardSpec => []GuardInv
BY GuardInit, GuardNext, PTL DEF guardSpec

(* However many guards are nested, moved, assigned over and destroyed, every  *)
(* signal has the handler of the latest registration still held, and its      *)
(* original one once none is (signal_handler.hpp:21-67).                      *)
THEOREM InnermostHandler == guardSpec => []HandlerIsInnermost
<1>1. GuardInv => HandlerIsInnermost
  BY DEF GuardInv
<1> QED BY <1>1, GuardInvariant, PTL

------------------------------------------------------------------------------
(* main, its guards, its stop source and its agents. *)

(* Where main is in the life of its guards and of its agents. *)
BeforeHooks == {"parse", "sigint"}
Hooked1     == {"sigterm"}
HookedAll   == {"token", "build", "compose", "start", "join"}
AfterToken  == {"build", "compose", "start", "join", "unhook"}

MainTypes ==
  /\ argv \in Argv
  /\ stage \in BeforeHooks \cup Hooked1 \cup HookedAll \cup {"unhook", "end"}
  /\ status \in {"running", "exit0", "exit1", "killed", "terminated", "hung"}
  /\ static \in {"raw", "constructing", "ready"}
  /\ stop \in BOOLEAN /\ accepted \in BOOLEAN
  /\ inside \in [Thread -> Seq(Signum)]
  /\ where \in [Worker -> {"none", "local", "system"}]
  /\ captured \in [Worker -> {"none", "local", "system"}]
  /\ running \subseteq Worker
  /\ sent \in Nat

(* Which guards live follows from the stage. *)
GuardsByStage ==
  /\ \A g \in Guard : ~guard[g].alive \/ guard[g].active
  /\ stage \in BeforeHooks \cup {"end"} => \A g \in Guard : ~guard[g].alive
  /\ stage \in Hooked1 => guard["SIGINT"].alive /\ ~guard["SIGTERM"].alive
  /\ stage \in HookedAll => \A g \in Guard : guard[g].alive
  /\ stage = "unhook" => guard["SIGINT"].alive

(* A live guard guards the signal it is named after, with request_stop. *)
OneEach ==
  /\ \A g \in Guard : guard[g].alive => guard[g].signum = g
  /\ \A s \in Signum : \A i \in DOMAIN installed[s] :
       installed[s][i] = [guard |-> s, handler |-> "request_stop"]

StopSourceByStage == stage \in AfterToken => static = "ready"

(* Threads run only between start and join, on agents that stay where they are. *)
AgentsByStage ==
  /\ running # {} => stage \in {"start", "join"}
  /\ stage \in {"start", "join"} => \A w \in Worker : where[w] = "system"
  /\ \A w \in running : captured[w] = "system"

(* How the process can have ended. *)
EndsByStage ==
  /\ status \in {"killed", "hung"} => running = {}
  /\ status \in {"exit0", "exit1"} <=> stage = "end"
  /\ status = "exit1" => parse_config = "parse_error"
  /\ status = "exit0" => parse_config # "parse_error"
  /\ stage \notin {"parse", "end"} => parse_config = "config"

HandlerPending == accepted => stop \/ \E t \in Thread : inside[t] # <<>>

MainInv ==
  /\ MainTypes /\ GuardsByStage /\ OneEach /\ StopSourceByStage /\ AgentsByStage
  /\ EndsByStage /\ HandlerPending

------------------------------------------------------------------------------
(* The constants of main. *)
LEMMA MainConstants ==
  /\ Signum = {"SIGINT", "SIGTERM"} /\ Guard = {"SIGINT", "SIGTERM"} /\ Uncatchable = {}
  /\ "request_stop" \in Disposition
BY MainAssumption DEF Hooked

(* main's steps on its guards are operations of signal_guard; no other step   *)
(* touches a guard or a disposition.                                          *)
LEMMA MainGuardSteps == [engineNext]_mainVars => [guardNext]_guardVars
<1> SUFFICES ASSUME [engineNext]_mainVars PROVE [guardNext]_guardVars
  OBVIOUS
<1>1. CASE HookSigint
  BY <1>1, MainConstants DEF HookSigint, guardNext
<1>2. CASE HookSigterm
  BY <1>2, MainConstants DEF HookSigterm, guardNext
<1>3. CASE Unhook
  BY <1>3, MainConstants DEF Unhook, guardNext
<1>4. CASE Parse \/ TokenCall \/ Token \/ Build \/ Compose \/ start \/ Throw \/ Unwind
  BY <1>4 DEF Parse, TokenCall, BeginStatic, EndStatic, Token, Build, Compose, start,
              Throw, Unwind
<1>5. CASE (\E w \in Worker : WorkerReturns(w)) \/ (\E s \in Signum, t \in Thread : Signal(s, t))
  BY <1>5 DEF WorkerReturns, Signal
<1>6. CASE \E t \in Thread : HandlerStep(t)
  BY <1>6 DEF HandlerStep, BeginStatic, EndStatic, RequestStop, Reenter
<1>7. CASE Over \/ UNCHANGED mainVars
  BY <1>7 DEF Over, mainVars
<1> QED BY <1>1, <1>2, <1>3, <1>4, <1>5, <1>6, <1>7 DEF engineNext, MainStep

(* main uses its guards as their class asks: of the registrations for a       *)
(* signal the latest is given up first (matching_engine.cpp:33,               *)
(* signal_handler.hpp:13-16, members destroyed in reverse order).             *)
THEOREM MainKeepsGuardRule == engineSpec => guardSpec
<1>1. engineInit => guardInit
  BY DEF engineInit
<1> QED BY <1>1, MainGuardSteps, PTL DEF engineSpec, guardSpec

(* The disposition of a signal follows from whether its guard lives. *)
LEMMA HandlerFollowsGuard ==
  ASSUME MainInv, GuardInv, NEW s \in Signum
  PROVE  handler[s] = IF guard[s].alive THEN "request_stop" ELSE original[s]
<1>1. s \in Guard /\ DOMAIN installed[s] = 1 .. Len(installed[s]) /\ Len(installed[s]) \in Nat
  BY MainConstants, Registered DEF GuardInv
<1>2. handler[s] = IF installed[s] = <<>> THEN original[s] ELSE installed[s][Len(installed[s])].handler
  BY DEF GuardInv, HandlerIsInnermost
<1> DEFINE reg == [guard |-> s, handler |-> "request_stop"]
<1>0. /\ \A i \in DOMAIN installed[s] : installed[s][i] = reg
      /\ reg.guard = s /\ reg.handler = "request_stop"
  BY DEF MainInv, OneEach
<1> HIDE DEF reg
<1>3. CASE guard[s].alive
  <2>1. guard[s].active /\ guard[s].signum = s
    BY <1>1, <1>3 DEF MainInv, GuardsByStage, OneEach
  <2>2. PICK i \in DOMAIN installed[s] : TRUE
    BY <1>1, <2>1 DEF GuardInv, ActiveIsRegistered
  <2>3. Len(installed[s]) \in DOMAIN installed[s] /\ installed[s] # <<>>
    BY <1>1, <2>2
  <2> QED BY <1>0, <1>2, <1>3, <2>3
<1>4. CASE ~guard[s].alive
  <2>1. ASSUME NEW i \in DOMAIN installed[s] PROVE FALSE
    <3>1. installed[s][i].guard = s
      BY <1>0
    <3>2. guard[s].active
      BY <3>1 DEF GuardInv, Chained
    <3> QED BY <1>1, <1>4, <3>2 DEF GuardInv, ActiveIsRegistered
  <2>2. Len(installed[s]) = 0
    BY <1>1, <2>1
  <2>3. installed[s] = <<>>
    BY <2>2, Registered DEF GuardInv
  <2> QED BY <1>2, <1>4, <2>3
<1> QED BY <1>3, <1>4

(* The start of the process. *)
LEMMA MainInit == engineInit => MainInv
<1> SUFFICES ASSUME engineInit PROVE MainInv
  OBVIOUS
<1>1. guard = [g \in Guard |-> Idle(FALSE)] /\ installed = [s \in Signum |-> <<>>]
  BY DEF engineInit, guardInit
<1>2. MainTypes
  <2>1. inside \in [Thread -> Seq(Signum)]
    BY EmptySeq DEF engineInit
  <2>2. /\ where \in [Worker -> {"none", "local", "system"}]
        /\ captured \in [Worker -> {"none", "local", "system"}]
    BY DEF engineInit
  <2> QED BY <2>1, <2>2 DEF engineInit, MainTypes, BeforeHooks
<1>3. GuardsByStage /\ OneEach
  <2>1. stage = "parse" /\ \A g \in Guard : ~guard[g].alive
    BY <1>1 DEF engineInit, Idle
  <2>2. \A s \in Signum : DOMAIN installed[s] = {}
    <3>1. <<>> \in Seq({}) /\ DOMAIN <<>> = 1 .. 0
      BY EmptySeq, LenProperties
    <3>2. 1 .. 0 = {} /\ \A s \in Signum : installed[s] = <<>>
      BY <1>1
    <3> QED BY <3>1, <3>2, Zenon
  <2> QED BY <2>1, <2>2 DEF GuardsByStage, OneEach, BeforeHooks, Hooked1, HookedAll
<1>4. StopSourceByStage /\ AgentsByStage /\ EndsByStage /\ HandlerPending
  BY DEF engineInit, StopSourceByStage, AgentsByStage, EndsByStage, HandlerPending, AfterToken
<1> QED BY <1>2, <1>3, <1>4 DEF MainInv

(* A new guard: it lives, is active, and its registration is the latest. *)
LEMMA Hooking ==
  ASSUME MainInv, GuardInv, NEW g \in Guard, Construct(g, g, "request_stop")
  PROVE  /\ guard'[g].alive /\ guard'[g].active /\ guard'[g].signum = g
         /\ \A k \in Guard \ {g} : guard'[k] = guard[k]
         /\ OneEach'
<1> DEFINE reg(s) == [guard |-> s, handler |-> "request_stop"]
           G == [alive |-> TRUE, signum |-> g, previous |-> handler[g], active |-> TRUE]
<1>1. /\ g \in Signum /\ Guard = Signum
      /\ guard' = [guard EXCEPT ![g] = G]
      /\ installed' = [installed EXCEPT ![g] = Append(@, reg(g))]
  BY MainConstants DEF Construct
<1>2. guard'[g] = G /\ \A k \in Guard \ {g} : guard'[k] = guard[k]
  BY <1>1 DEF GuardInv, GuardTypes
<1>3. G.alive /\ G.active /\ G.signum = g
  OBVIOUS
<1> HIDE DEF G
<1>4. installed \in [Signum -> Seq(Registration)] /\ reg(g) \in Registration
  BY <1>1, MainConstants DEF GuardInv, GuardTypes, Registration
<1>5. \A s \in Signum : \A i \in DOMAIN installed[s] : installed[s][i] = reg(s)
  BY DEF MainInv, OneEach
<1> HIDE DEF reg
<1>6. \A i \in DOMAIN installed'[g] : installed'[g][i] = reg(g)
  <2> DEFINE old == installed[g]
  <2>1. /\ old \in Seq(Registration) /\ DOMAIN old = 1 .. Len(old) /\ Len(old) \in Nat
        /\ installed'[g] = Append(old, reg(g))
    BY <1>1, <1>4, LenProperties
  <2>2. \A i \in 1 .. Len(old) : old[i] = reg(g)
    BY <1>1, <1>5, <2>1
  <2> HIDE DEF old
  <2>3. /\ DOMAIN Append(old, reg(g)) = 1 .. Len(old) + 1
        /\ Append(old, reg(g))[Len(old) + 1] = reg(g)
        /\ \A i \in 1 .. Len(old) : Append(old, reg(g))[i] = old[i]
    BY <1>4, <2>1, AppendProperties, LenProperties
  <2> QED BY <2>1, <2>2, <2>3
<1>7. \A s \in Signum : \A i \in DOMAIN installed'[s] : installed'[s][i] = reg(s)
  BY <1>1, <1>4, <1>5, <1>6
<1>8. \A k \in Guard : guard'[k].alive => guard'[k].signum = k
  BY <1>2, <1>3 DEF MainInv, OneEach
<1> QED BY <1>2, <1>3, <1>7, <1>8 DEF OneEach, reg

(* A guard ends: the other one and the remaining registrations stay. *)
LEMMA Unhooking ==
  ASSUME MainInv, GuardInv, NEW g \in Guard, Destroy(g)
  PROVE  /\ ~guard'[g].alive
         /\ \A k \in Guard \ {g} : guard'[k] = guard[k]
         /\ OneEach'
<1> DEFINE reg(s) == [guard |-> s, handler |-> "request_stop"]
<1>1. /\ Innermost(g) /\ guard' = [guard EXCEPT ![g] = Idle(FALSE)] /\ installed' = GivenUp(g)
  BY DEF Destroy
<1>2. guard'[g] = Idle(FALSE) /\ \A k \in Guard \ {g} : guard'[k] = guard[k]
  BY <1>1 DEF GuardInv, GuardTypes
<1>3. ~guard'[g].alive
  BY <1>2 DEF Idle
<1>4. \A s \in Signum : \A i \in DOMAIN installed[s] : installed[s][i] = reg(s)
  BY DEF MainInv, OneEach
<1> HIDE DEF reg
<1>5. \A s \in Signum : \A i \in DOMAIN installed'[s] : installed'[s][i] = reg(s)
  <2> SUFFICES ASSUME NEW s \in Signum PROVE \A i \in DOMAIN installed'[s] : installed'[s][i] = reg(s)
    OBVIOUS
  <2> DEFINE regs == GivenUp(g)[s]
  <2>1. /\ regs \in Seq(Registration) /\ Len(regs) <= Len(installed[s])
        /\ \A i \in 1 .. Len(regs) : regs[i] = installed[s][i]
    BY <1>1, GivingUp
  <2>2. installed'[s] = regs
    BY <1>1
  <2> HIDE DEF regs
  <2>3. DOMAIN regs = 1 .. Len(regs) /\ Len(regs) \in Nat
    BY <2>1, LenProperties
  <2>4. DOMAIN installed[s] = 1 .. Len(installed[s]) /\ Len(installed[s]) \in Nat
    BY Registered DEF GuardInv
  <2> QED BY <1>4, <2>1, <2>2, <2>3, <2>4
<1>6. \A k \in Guard : guard'[k].alive => guard'[k].signum = k
  BY <1>2, <1>3 DEF MainInv, OneEach
<1> QED BY <1>2, <1>3, <1>5, <1>6 DEF OneEach, reg

(* Every step of main, of the workers, of the handlers and of signals         *)
(* preserves the invariant.                                                   *)
LEMMA MainNext == MainInv /\ GuardInv /\ [engineNext]_mainVars => MainInv'
<1> SUFFICES ASSUME MainInv, GuardInv, [engineNext]_mainVars PROVE MainInv'
  OBVIOUS
<1> USE DEF MainInv
<1>1. argv' = argv /\ parse_config' = parse_config
  BY DEF engineNext, MainStep, Parse, HookSigint, HookSigterm, TokenCall, BeginStatic, EndStatic,
         Token, Build, Compose, start, Throw, Unwind, Unhook, UnchangedBut, WorkerReturns, Signal,
         HandlerStep, RequestStop, Reenter, Over, mainVars, parse_config
<1>2. parse_config \in {"parse_error", "help_requested", "config"}
  BY DEF parse_config
<1>3. UNCHANGED guardVars => OneEach'
  BY DEF guardVars, OneEach
<1>4. CASE Parse
  <2>1. /\ stage = "parse" /\ status = "running"
        /\ UNCHANGED <<guard, argv, inside, sent, accepted, static, stop, where, captured, running>>
        /\ UNCHANGED guardVars
    BY <1>4 DEF Parse, MainAt, UnchangedBut, guardVars
  <2>2. /\ parse_config = "config" => stage' = "sigint" /\ status' = status
        /\ parse_config = "help_requested" => stage' = "end" /\ status' = "exit0"
        /\ parse_config = "parse_error" => stage' = "end" /\ status' = "exit1"
    BY <1>2, <1>4 DEF Parse
  <2>3. stage' \in {"sigint", "end"} /\ status' \in {"running", "exit0", "exit1"}
    BY <1>2, <2>1, <2>2
  <2>4. MainTypes'
    BY <2>1, <2>3 DEF MainTypes, BeforeHooks
  <2>5. GuardsByStage'
    BY <2>1, <2>3 DEF GuardsByStage, BeforeHooks, Hooked1, HookedAll
  <2>6. EndsByStage'
    BY <1>1, <1>2, <2>1, <2>2 DEF EndsByStage
  <2>7. StopSourceByStage' /\ AgentsByStage' /\ HandlerPending'
    BY <2>1, <2>3 DEF StopSourceByStage, AfterToken, AgentsByStage, HandlerPending
  <2> QED BY <1>3, <2>1, <2>4, <2>5, <2>6, <2>7
<1>5. CASE HookSigint
  <2>1. /\ stage = "sigint" /\ stage' = "sigterm" /\ status = "running"
        /\ UNCHANGED <<argv, inside, sent, accepted, status, static, stop, where, captured, running>>
        /\ Construct("SIGINT", "SIGINT", "request_stop")
    BY <1>5 DEF HookSigint, MainAt, UnchangedBut
  <2>2. /\ guard'["SIGINT"].alive /\ guard'["SIGINT"].active
        /\ guard'["SIGTERM"] = guard["SIGTERM"] /\ OneEach'
    BY <2>1, Hooking, MainConstants
  <2>3. GuardsByStage'
    BY <2>1, <2>2, MainConstants DEF GuardsByStage, BeforeHooks, Hooked1, HookedAll
  <2>4. MainTypes'
    BY <2>1 DEF MainTypes, BeforeHooks, Hooked1
  <2>5. StopSourceByStage' /\ AgentsByStage' /\ EndsByStage' /\ HandlerPending'
    BY <1>1, <2>1 DEF StopSourceByStage, AfterToken, AgentsByStage, EndsByStage, HandlerPending
  <2> QED BY <2>2, <2>3, <2>4, <2>5
<1>6. CASE HookSigterm
  <2>1. /\ stage = "sigterm" /\ stage' = "token" /\ status = "running"
        /\ UNCHANGED <<argv, inside, sent, accepted, status, static, stop, where, captured, running>>
        /\ Construct("SIGTERM", "SIGTERM", "request_stop")
    BY <1>6 DEF HookSigterm, MainAt, UnchangedBut
  <2>2. /\ guard'["SIGTERM"].alive /\ guard'["SIGTERM"].active
        /\ guard'["SIGINT"] = guard["SIGINT"] /\ OneEach'
    BY <2>1, Hooking, MainConstants
  <2>3. GuardsByStage'
    BY <2>1, <2>2, MainConstants DEF GuardsByStage, BeforeHooks, Hooked1, HookedAll
  <2>4. MainTypes'
    BY <2>1 DEF MainTypes, BeforeHooks, Hooked1, HookedAll
  <2>5. StopSourceByStage' /\ AgentsByStage' /\ EndsByStage' /\ HandlerPending'
    BY <1>1, <2>1 DEF StopSourceByStage, AfterToken, AgentsByStage, EndsByStage, HandlerPending
  <2> QED BY <2>2, <2>3, <2>4, <2>5
<1>7. ASSUME NEW t \in Thread, status = "running", BeginStatic(t) \/ EndStatic(t)
      PROVE  MainInv'
  <2>1. /\ UNCHANGED <<guardVars, argv, stage, status, stop, inside, where, captured, running, sent, accepted>>
        /\ UNCHANGED guard
        /\ static # "ready" /\ static' \in {"constructing", "ready"}
    BY <1>7 DEF BeginStatic, EndStatic, guardVars
  <2>2. GuardsByStage' /\ OneEach'
    BY <1>3, <2>1 DEF GuardsByStage
  <2>3. MainTypes'
    BY <2>1 DEF MainTypes
  <2>4. StopSourceByStage' /\ AgentsByStage' /\ EndsByStage' /\ HandlerPending'
    BY <1>1, <2>1 DEF StopSourceByStage, AgentsByStage, EndsByStage, HandlerPending
  <2> QED BY <2>2, <2>3, <2>4
<1>8. CASE TokenCall
  BY <1>7, <1>8 DEF TokenCall, MainAt, Thread
<1>9. CASE Token \/ Build \/ Compose
  <2>1. /\ stage \in {"token", "build", "compose"} /\ status = "running"
        /\ stage' \in {"build", "compose", "start"} /\ running = {}
        /\ stage' # "start" \/ \A w \in Worker : where'[w] = "system"
        /\ static = "ready"
        /\ where' \in [Worker -> {"none", "local", "system"}]
        /\ UNCHANGED <<guardVars, guard, argv, status, stop, inside, static, captured, running, sent, accepted>>
    BY <1>9 DEF Token, Build, Compose, MainAt, UnchangedBut, guardVars, AgentsByStage,
                StopSourceByStage, AfterToken, MainTypes
  <2>2. GuardsByStage' /\ OneEach'
    BY <1>3, <2>1 DEF GuardsByStage, BeforeHooks, Hooked1, HookedAll
  <2>3. MainTypes'
    BY <2>1 DEF MainTypes, BeforeHooks, Hooked1, HookedAll
  <2>4. StopSourceByStage' /\ AgentsByStage' /\ EndsByStage' /\ HandlerPending'
    BY <1>1, <2>1 DEF StopSourceByStage, AgentsByStage, EndsByStage, HandlerPending
  <2> QED BY <2>2, <2>3, <2>4
<1>10. CASE start
  <2>1. /\ stage = "start" /\ status = "running" /\ static = "ready"
        /\ UNCHANGED <<guardVars, guard, argv, status, stop, inside, static, where, sent, accepted>>
    BY <1>10 DEF start, MainAt, UnchangedBut, guardVars, StopSourceByStage, AfterToken
  <2>2. PICK w \in Worker : /\ captured' = [captured EXCEPT ![w] = where[w]]
                            /\ running' = running \cup {w}
                            /\ stage' \in {"start", "join"}
    <3>1. PICK i \in DOMAIN Agents : /\ captured' = [captured EXCEPT ![Agents[i]] = where[Agents[i]]]
                                     /\ running' = running \cup {Agents[i]}
                                     /\ stage' \in {"start", "join"}
      BY <1>10 DEF start
    <3>2. \A j \in DOMAIN Agents : Agents[j] \in Worker
      BY DEF Agents, Worker
    <3> QED BY <3>1, <3>2
  <2>3. captured' \in [Worker -> {"none", "local", "system"}] /\ running' \subseteq Worker
    BY <2>2 DEF MainTypes
  <2>4. \A v \in running' : captured'[v] = "system"
    BY <2>1, <2>2 DEF AgentsByStage, MainTypes
  <2>5. MainTypes'
    BY <2>1, <2>2, <2>3 DEF MainTypes, BeforeHooks, Hooked1, HookedAll
  <2>6. GuardsByStage' /\ OneEach'
    BY <1>3, <2>1, <2>2 DEF GuardsByStage, BeforeHooks, Hooked1, HookedAll
  <2>7. StopSourceByStage' /\ AgentsByStage' /\ EndsByStage' /\ HandlerPending'
    BY <1>1, <2>1, <2>2, <2>4 DEF StopSourceByStage, AgentsByStage, EndsByStage, HandlerPending
  <2> QED BY <2>5, <2>6, <2>7
<1>11. CASE Throw
  <2>1. /\ status = "running" /\ status' = "terminated" /\ stage # "end"
        /\ UNCHANGED <<guardVars, guard, argv, stage, stop, inside, static, where, captured, running, sent, accepted>>
    BY <1>11 DEF Throw, MainAt, UnchangedBut, guardVars
  <2>2. MainTypes'
    BY <2>1 DEF MainTypes
  <2>3. GuardsByStage' /\ OneEach'
    BY <1>3, <2>1 DEF GuardsByStage
  <2>4. StopSourceByStage' /\ AgentsByStage' /\ EndsByStage' /\ HandlerPending'
    BY <1>1, <2>1 DEF StopSourceByStage, AgentsByStage, EndsByStage, HandlerPending
  <2> QED BY <2>2, <2>3, <2>4
<1>12. CASE Unwind
  <2>1. /\ stage = "join" /\ stage' = "unhook" /\ status = "running" /\ running = {} /\ static = "ready"
        /\ where' \in [Worker -> {"none", "local", "system"}]
        /\ UNCHANGED <<guardVars, guard, argv, status, stop, inside, static, captured, running, sent, accepted>>
    BY <1>12 DEF Unwind, Joined, MainAt, UnchangedBut, guardVars, StopSourceByStage, AfterToken
  <2>2. MainTypes'
    BY <2>1 DEF MainTypes
  <2>3. GuardsByStage' /\ OneEach'
    BY <1>3, <2>1, MainConstants DEF GuardsByStage, BeforeHooks, Hooked1, HookedAll
  <2>4. StopSourceByStage' /\ AgentsByStage' /\ EndsByStage' /\ HandlerPending'
    BY <1>1, <2>1 DEF StopSourceByStage, AgentsByStage, EndsByStage, HandlerPending
  <2> QED BY <2>2, <2>3, <2>4
<1>13. CASE Unhook
  <2>1. /\ stage = "unhook" /\ status = "running" /\ running = {} /\ static = "ready"
        /\ guard["SIGINT"].alive
        /\ UNCHANGED <<argv, stop, inside, static, where, captured, running, sent, accepted>>
    BY <1>13 DEF Unhook, MainAt, UnchangedBut, StopSourceByStage, AfterToken, AgentsByStage, GuardsByStage
  <2>2. \/ Destroy("SIGTERM") /\ UNCHANGED <<stage, status>>
        \/ ~guard["SIGTERM"].alive /\ Destroy("SIGINT") /\ stage' = "end" /\ status' = "exit0"
    BY <1>13 DEF Unhook
  <2>3. OneEach'
    BY <2>2, Unhooking, MainConstants
  <2>4. GuardsByStage'
    <3>1. CASE Destroy("SIGTERM") /\ UNCHANGED <<stage, status>>
      <4>1. ~guard'["SIGTERM"].alive /\ guard'["SIGINT"] = guard["SIGINT"]
        BY <3>1, Unhooking, MainConstants
      <4> QED BY <2>1, <3>1, <4>1, MainConstants DEF GuardsByStage, BeforeHooks, Hooked1, HookedAll
    <3>2. CASE ~guard["SIGTERM"].alive /\ Destroy("SIGINT") /\ stage' = "end" /\ status' = "exit0"
      <4>1. ~guard'["SIGINT"].alive /\ guard'["SIGTERM"] = guard["SIGTERM"]
        BY <3>2, Unhooking, MainConstants
      <4> QED BY <3>2, <4>1, MainConstants DEF GuardsByStage, BeforeHooks, Hooked1, HookedAll
    <3> QED BY <2>2, <3>1, <3>2
  <2>5. stage' \in {"unhook", "end"} /\ status' \in {"running", "exit0"}
        /\ (stage' = "end" <=> status' = "exit0")
    BY <2>1, <2>2
  <2>6. MainTypes'
    BY <2>1, <2>5 DEF MainTypes
  <2>7. StopSourceByStage' /\ AgentsByStage' /\ EndsByStage' /\ HandlerPending'
    BY <1>1, <2>1, <2>5 DEF StopSourceByStage, AfterToken, AgentsByStage, EndsByStage, HandlerPending
  <2> QED BY <2>3, <2>4, <2>6, <2>7
<1>14. CASE \E w \in Worker : WorkerReturns(w)
  <2>1. /\ running' \subseteq running
        /\ UNCHANGED <<guardVars, guard, argv, stage, status, stop, inside, static, where, captured, sent, accepted>>
    BY <1>14 DEF WorkerReturns, UnchangedBut, guardVars
  <2>2. MainTypes'
    BY <2>1 DEF MainTypes
  <2>3. GuardsByStage' /\ OneEach'
    BY <1>3, <2>1 DEF GuardsByStage
  <2>4. StopSourceByStage' /\ AgentsByStage' /\ EndsByStage' /\ HandlerPending'
    BY <1>1, <2>1 DEF StopSourceByStage, AgentsByStage, EndsByStage, HandlerPending
  <2> QED BY <2>2, <2>3, <2>4
<1>15. ASSUME NEW s \in Signum, NEW t \in Thread, Signal(s, t) PROVE MainInv'
  <2>1. /\ status = "running" /\ sent' = sent + 1
        /\ UNCHANGED <<guardVars, guard, argv, stage, stop, static, where, captured, running>>
    BY <1>15 DEF Signal, guardVars
  <2>2. GuardsByStage' /\ OneEach'
    BY <1>3, <2>1 DEF GuardsByStage
  <2>3. CASE Kill(s)
    <3>1. handler[s] = "SIG_DFL" /\ status' = "killed" /\ UNCHANGED <<inside, accepted>>
      BY <2>3 DEF Kill
    <3>2. running = {}
      <4>1. ~guard[s].alive
        BY <3>1, HandlerFollowsGuard
      <4> QED BY <4>1, MainConstants DEF GuardsByStage, AgentsByStage, HookedAll
    <3>3. MainTypes'
      BY <2>1, <3>1 DEF MainTypes
    <3>4. StopSourceByStage' /\ AgentsByStage' /\ EndsByStage' /\ HandlerPending'
      BY <1>1, <2>1, <3>1, <3>2 DEF StopSourceByStage, AgentsByStage, EndsByStage, HandlerPending
    <3> QED BY <2>2, <3>3, <3>4
  <2>4. CASE EnterHandler(s, t)
    <3>1. inside' = [inside EXCEPT ![t] = Append(@, s)] /\ accepted' = TRUE /\ UNCHANGED status
      BY <2>4 DEF EnterHandler
    <3>2. inside[t] \in Seq(Signum)
      BY DEF MainTypes
    <3>3. Append(inside[t], s) \in Seq(Signum) /\ Append(inside[t], s) # <<>>
      BY <3>2, AppendProperties
    <3>4. inside' \in [Thread -> Seq(Signum)] /\ inside'[t] # <<>>
      BY <3>1, <3>3 DEF MainTypes
    <3>5. MainTypes'
      BY <2>1, <3>1, <3>4 DEF MainTypes
    <3>6. StopSourceByStage' /\ AgentsByStage' /\ EndsByStage' /\ HandlerPending'
      BY <1>1, <2>1, <3>1, <3>4 DEF StopSourceByStage, AgentsByStage, EndsByStage, HandlerPending
    <3> QED BY <2>2, <3>5, <3>6
  <2> QED BY <1>15, <2>3, <2>4 DEF Signal
<1>16. ASSUME NEW t \in Thread, HandlerStep(t) PROVE MainInv'
  <2>1. status = "running" /\ inside[t] # <<>>
    BY <1>16 DEF HandlerStep
  <2>2. CASE BeginStatic(t) \/ EndStatic(t)
    BY <1>7, <2>1, <2>2
  <2>3. CASE RequestStop(t)
    <3>1. /\ stop' = TRUE /\ inside' = [inside EXCEPT ![t] = SubSeq(@, 1, Len(@) - 1)]
          /\ UNCHANGED <<guardVars, guard, argv, stage, status, static, where, captured, running, sent, accepted>>
      BY <2>3 DEF RequestStop, guardVars
    <3>2. SubSeq(inside[t], 1, Len(inside[t]) - 1) \in Seq(Signum)
      BY <2>1 DEF MainTypes
    <3>3. MainTypes'
      BY <3>1, <3>2 DEF MainTypes
    <3>4. GuardsByStage' /\ OneEach'
      BY <1>3, <3>1 DEF GuardsByStage
    <3>5. StopSourceByStage' /\ AgentsByStage' /\ EndsByStage' /\ HandlerPending'
      BY <1>1, <3>1 DEF StopSourceByStage, AgentsByStage, EndsByStage, HandlerPending
    <3> QED BY <3>3, <3>4, <3>5
  <2>4. CASE Reenter(t)
    <3>1. /\ static = "constructing" /\ status' \in {"hung", "terminated"}
          /\ UNCHANGED <<guardVars, guard, argv, stage, stop, inside, static, where, captured, running, sent, accepted>>
      BY <2>4 DEF Reenter, UnchangedBut, guardVars
    <3>2. running = {}
      BY <3>1 DEF StopSourceByStage, AfterToken, AgentsByStage
    <3>3. MainTypes'
      BY <3>1 DEF MainTypes
    <3>4. GuardsByStage' /\ OneEach'
      BY <1>3, <3>1 DEF GuardsByStage
    <3>5. StopSourceByStage' /\ AgentsByStage' /\ EndsByStage' /\ HandlerPending'
      BY <1>1, <2>1, <3>1, <3>2 DEF StopSourceByStage, AgentsByStage, EndsByStage, HandlerPending
    <3> QED BY <3>3, <3>4, <3>5
  <2> QED BY <1>16, <2>2, <2>3, <2>4 DEF HandlerStep
<1>17. CASE Over \/ UNCHANGED mainVars
  <2>1. UNCHANGED <<guardVars, guard, argv, stage, status, stop, inside, static, where, captured, running, sent, accepted>>
    BY <1>17 DEF Over, mainVars, guardVars
  <2> QED BY <1>1, <1>3, <2>1 DEF MainTypes, GuardsByStage, StopSourceByStage, AgentsByStage, EndsByStage,
                            HandlerPending
<1> QED BY <1>4, <1>5, <1>6, <1>8, <1>9, <1>10, <1>11, <1>12, <1>13, <1>14, <1>15, <1>16, <1>17
        DEF engineNext, MainStep

(* main, its guards and its agents, in every execution. *)
THEOREM MainInvariant == engineSpec => [](MainInv /\ GuardInv)
<1>1. engineSpec => []GuardInv
  BY MainKeepsGuardRule, GuardInvariant, PTL
<1>2. engineSpec => []MainInv
  BY <1>1, MainInit, MainNext, PTL DEF engineSpec
<1> QED BY <1>1, <1>2, PTL

(* While a worker exists no signal kills the process and none finds the       *)
(* stop_source half made, whatever signals arrive                             *)
(* (matching_engine.cpp:33-34, 60-61, signal_handler.cpp:5-16).               *)
THEOREM WorkersCovered == engineSpec => []WorkersAreCovered
<1>1. MainInv /\ GuardInv => WorkersAreCovered
  <2> SUFFICES ASSUME MainInv, GuardInv, running # {}
               PROVE  /\ \A s \in Signum : handler[s] = "request_stop"
                      /\ static = "ready" /\ status \notin {"killed", "hung"}
    BY DEF WorkersAreCovered
  <2>1. stage \in {"start", "join"}
    BY DEF MainInv, AgentsByStage
  <2>2. \A s \in Signum : guard[s].alive
    BY <2>1, MainConstants DEF MainInv, GuardsByStage, HookedAll
  <2>3. \A s \in Signum : handler[s] = "request_stop"
    BY <2>2, HandlerFollowsGuard
  <2> QED BY <2>1, <2>3 DEF MainInv, StopSourceByStage, AfterToken, EndsByStage
<1> QED BY <1>1, MainInvariant, PTL

(* No thread uses an agent that has been moved or destroyed                   *)
(* (agent.hpp:55, agent_system.hpp:32, matching_engine.cpp:57).               *)
THEOREM AgentsStayPut == engineSpec => []ThreadsUseLiveAgents
<1>1. MainInv => ThreadsUseLiveAgents
  BY DEF MainInv, MainTypes, AgentsByStage, ThreadsUseLiveAgents
<1> QED BY <1>1, MainInvariant, PTL

(* A signal accepted has requested the stop once the handlers have returned   *)
(* (signal_handler.cpp:5-16).                                                 *)
THEOREM SignalsAreKept == engineSpec => []SignalNotLost
<1>1. MainInv => SignalNotLost
  BY DEF MainInv, HandlerPending, SignalNotLost
<1> QED BY <1>1, MainInvariant, PTL

(* When main has returned the dispositions are the original ones, no guard    *)
(* and no thread is left, and the exit code tells a refused command line      *)
(* (matching_engine.cpp:62-68, matching_engine_config.hpp:65-113).            *)
THEOREM MainCleansUp == engineSpec => []MainLeavesNothing
<1>1. MainInv /\ GuardInv => MainLeavesNothing
  <2> SUFFICES ASSUME MainInv, GuardInv, status \in {"exit0", "exit1"}
               PROVE  /\ running = {} /\ handler = original
                      /\ \A g \in Guard : ~guard[g].alive
                      /\ status = "exit1" <=> parse_config = "parse_error"
    BY DEF MainLeavesNothing
  <2>1. stage = "end"
    BY DEF MainInv, EndsByStage
  <2>2. running = {} /\ \A g \in Guard : ~guard[g].alive
    BY <2>1 DEF MainInv, AgentsByStage, GuardsByStage
  <2>3. \A s \in Signum : handler[s] = original[s]
    BY <2>2, HandlerFollowsGuard, MainConstants
  <2>4. handler = original
    BY <2>3 DEF GuardInv, GuardTypes
  <2> QED BY <2>2, <2>4 DEF MainInv, EndsByStage
<1> QED BY <1>1, MainInvariant, PTL
==============================================================================

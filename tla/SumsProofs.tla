------------------------------ MODULE SumsProofs ------------------------------
(***************************************************************************)
(* What the proofs need of finite sums.  The induction principles are      *)
(* stated with a set in place of a predicate: the provers can instantiate  *)
(* a set.                                                                  *)
(***************************************************************************)
EXTENDS Sums, FiniteSetTheorems, TLAPS

(* A set of naturals that is not empty has a least element. *)
LEMMA Least ==
  ASSUME NEW T \in SUBSET Nat, T # {}
  PROVE  \E x \in T : \A y \in T : x <= y
<1>1. PICK x \in T : \A y \in T : ~(<<y, x>> \in OpToRel(<, Nat))
  BY NatLessThanWellFounded, WFMin, Zenon
<1>2. \A y \in T : ~(y < x)
  BY <1>1 DEF OpToRel
<1> QED BY <1>2

(* Induction over the naturals. *)
LEMMA NatInduct ==
  ASSUME NEW G, 0 \in G, \A n \in Nat : n \in G => n + 1 \in G
  PROVE  Nat \subseteq G
<1> DEFINE Bad == {n \in Nat : n \notin G}
<1>1. SUFFICES ASSUME Bad # {} PROVE FALSE
  OBVIOUS
<1>2. PICK m \in Bad : \A y \in Bad : m <= y
  BY <1>1, Least
<1>3. m \in Nat /\ m \notin G /\ m # 0
  OBVIOUS
<1>4. m - 1 \in Nat /\ m - 1 \in G
  BY <1>2, <1>3
<1> QED BY <1>3, <1>4

(* Induction over the subsets of a finite set. *)
LEMMA SetInduct ==
  ASSUME NEW S, IsFiniteSet(S), NEW G,
         {} \in G, \A T \in SUBSET S : T # {} /\ (\A x \in T : T \ {x} \in G) => T \in G
  PROVE  S \in G
<1> DEFINE H == {n \in Nat : \A T \in SUBSET S : Cardinality(T) = n => T \in G}
<1>1. \A T \in SUBSET S : IsFiniteSet(T) /\ Cardinality(T) \in Nat
  BY FS_Subset, FS_CardinalityType
<1>2. 0 \in H
  BY <1>1, FS_EmptySet
<1>3. \A n \in Nat : n \in H => n + 1 \in H
  <2> SUFFICES ASSUME NEW n \in Nat, n \in H, NEW T \in SUBSET S, Cardinality(T) = n + 1
               PROVE  T \in G
    OBVIOUS
  <2>1. T # {}
    BY FS_EmptySet
  <2>2. ASSUME NEW x \in T PROVE T \ {x} \in G
    <3>1. T \ {x} \in SUBSET S /\ Cardinality(T \ {x}) = n
      BY <1>1, FS_RemoveElement
    <3> QED BY <3>1
  <2> QED BY <2>1, <2>2
<1> HIDE DEF H
<1>4. Nat \subseteq H
  BY <1>2, <1>3, NatInduct
<1>5. Cardinality(S) \in H /\ S \in SUBSET S
  BY <1>1, <1>4
<1> QED BY <1>5 DEF H

------------------------------------------------------------------------------
(* The recursion behind MapThenSumSet. *)
Pick(T) == CHOOSE x \in T : TRUE
Solves(f, w, S) ==
  f = [s \in SUBSET S |-> IF s = {} THEN 0 ELSE w[Pick(s)] + f[s \ {Pick(s)}]]
Partial(w, S) == CHOOSE iter : Solves(iter, w, S)

LEMMA SumIsPartial == ASSUME NEW w, NEW S PROVE SumOver(w, S) = Partial(w, S)[S]
BY DEF SumOver, MapThenSumSet, MapThenFoldSet, Partial, Solves, Pick

LEMMA Picked == ASSUME NEW T, T # {} PROVE Pick(T) \in T
BY DEF Pick

(* f obeys the recursion of the sum of w on the subsets of S that have at     *)
(* most n elements.                                                           *)
Obeys(f, w, S, n) ==
  \A T \in SUBSET S : Cardinality(T) <= n =>
    f[T] = IF T = {} THEN 0 ELSE w[Pick(T)] + f[T \ {Pick(T)}]

(* The recursion has a solution. *)
LEMMA Solvable ==
  ASSUME NEW S, IsFiniteSet(S), NEW w
  PROVE  \E f : Solves(f, w, S)
<1> DEFINE Fcn(f) == f = [T \in SUBSET S |-> f[T]]
           G == {n \in Nat : \E f : Fcn(f) /\ Obeys(f, w, S, n)}
<1>1. \A T \in SUBSET S : /\ IsFiniteSet(T) /\ Cardinality(T) \in Nat
                          /\ Cardinality(T) <= Cardinality(S)
                          /\ (Cardinality(T) = 0 => T = {})
  BY FS_Subset, FS_CardinalityType, FS_EmptySet
<1>2. 0 \in G
  <2> DEFINE f == [T \in SUBSET S |-> 0]
  <2>1. Obeys(f, w, S, 0)
    BY <1>1 DEF Obeys
  <2>2. Fcn(f)
    OBVIOUS
  <2> QED BY <2>1, <2>2
<1>3. \A n \in Nat : n \in G => n + 1 \in G
  <2> SUFFICES ASSUME NEW n \in Nat, NEW f, Obeys(f, w, S, n) PROVE n + 1 \in G
    OBVIOUS
  <2> DEFINE h == [T \in SUBSET S |-> IF T = {} THEN 0 ELSE w[Pick(T)] + f[T \ {Pick(T)}]]
  <2>1. Fcn(h)
    OBVIOUS
  <2>2. Obeys(h, w, S, n + 1)
    <3> SUFFICES ASSUME NEW T \in SUBSET S, Cardinality(T) <= n + 1, T # {}
                 PROVE  h[T] = w[Pick(T)] + h[T \ {Pick(T)}]
      BY DEF Obeys
    <3> DEFINE U == T \ {Pick(T)}
    <3>1. U \in SUBSET S /\ Cardinality(U) = Cardinality(T) - 1
      BY <1>1, Picked, FS_RemoveElement
    <3>2. Cardinality(U) <= n
      BY <1>1, <3>1
    <3>3. f[U] = h[U]
      BY <3>1, <3>2 DEF Obeys
    <3> QED BY <3>3
  <2> HIDE DEF h
  <2> QED BY <2>1, <2>2
<1> HIDE DEF G
<1>4. Cardinality(S) \in G
  <2>1. Nat \subseteq G
    BY <1>2, <1>3, NatInduct
  <2> QED BY <1>1, <2>1
<1>5. PICK f : Fcn(f) /\ Obeys(f, w, S, Cardinality(S))
  BY <1>4 DEF G
<1>6. \A T \in SUBSET S : f[T] = IF T = {} THEN 0 ELSE w[Pick(T)] + f[T \ {Pick(T)}]
  BY <1>1, <1>5 DEF Obeys
<1>7. Solves(f, w, S)
  BY <1>5, <1>6 DEF Solves
<1> QED BY <1>7

LEMMA PartialRule ==
  ASSUME NEW S, IsFiniteSet(S), NEW w
  PROVE  \A T \in SUBSET S :
           Partial(w, S)[T] = IF T = {} THEN 0
                              ELSE w[Pick(T)] + Partial(w, S)[T \ {Pick(T)}]
<1> DEFINE p == Partial(w, S)
<1>1. Solves(p, w, S)
  BY Solvable, Zenon DEF Partial
<1> HIDE DEF p
<1>2. \A T \in SUBSET S : p[T] = IF T = {} THEN 0 ELSE w[Pick(T)] + p[T \ {Pick(T)}]
  BY <1>1 DEF Solves
<1> QED BY <1>2 DEF p

(* A part of the recursion for S is the recursion for that part. *)
LEMMA PartialOfPart ==
  ASSUME NEW S, IsFiniteSet(S), NEW w, NEW U \in SUBSET S
  PROVE  Partial(w, S)[U] = SumOver(w, U)
<1> DEFINE p == Partial(w, S)
           q == Partial(w, U)
           G == {T \in SUBSET U : p[T] = q[T]}
<1>1. IsFiniteSet(U)
  BY FS_Subset
<1>2. \A T \in SUBSET S : p[T] = IF T = {} THEN 0 ELSE w[Pick(T)] + p[T \ {Pick(T)}]
  BY PartialRule
<1>3. \A T \in SUBSET U : q[T] = IF T = {} THEN 0 ELSE w[Pick(T)] + q[T \ {Pick(T)}]
  BY <1>1, PartialRule
<1> HIDE DEF p, q
<1>4. {} \in G
  BY <1>2, <1>3
<1>5. \A T \in SUBSET U : T # {} /\ (\A x \in T : T \ {x} \in G) => T \in G
  <2> SUFFICES ASSUME NEW T \in SUBSET U, T # {}, \A x \in T : T \ {x} \in G
               PROVE  p[T] = q[T]
    OBVIOUS
  <2>1. p[T \ {Pick(T)}] = q[T \ {Pick(T)}]
    BY Picked
  <2> QED BY <1>2, <1>3, <2>1
<1> HIDE DEF G
<1>6. U \in G
  BY <1>1, <1>4, <1>5, SetInduct
<1> QED BY <1>6, SumIsPartial DEF p, q, G

(* A sum, one element taken out, whichever the fold takes. *)
LEMMA SumPick ==
  ASSUME NEW S, IsFiniteSet(S), NEW w
  PROVE  SumOver(w, S) = IF S = {} THEN 0
                         ELSE w[Pick(S)] + SumOver(w, S \ {Pick(S)})
<1>1. S \in SUBSET S /\ S \ {Pick(S)} \in SUBSET S
  OBVIOUS
<1>2. SumOver(w, S) = Partial(w, S)[S]
  BY SumIsPartial
<1>3. Partial(w, S)[S] = IF S = {} THEN 0 ELSE w[Pick(S)] + Partial(w, S)[S \ {Pick(S)}]
  BY <1>1, PartialRule
<1>4. Partial(w, S)[S \ {Pick(S)}] = SumOver(w, S \ {Pick(S)})
  BY <1>1, PartialOfPart
<1> QED BY <1>2, <1>3, <1>4, Zenon

LEMMA SumEmpty == ASSUME NEW w PROVE SumOver(w, {}) = 0
BY FS_EmptySet, SumPick

(* A sum of integers is an integer. *)
LEMMA SumInt ==
  ASSUME NEW S, IsFiniteSet(S), NEW w, \A x \in S : w[x] \in Int
  PROVE  SumOver(w, S) \in Int
<1> DEFINE G == {T \in SUBSET S : SumOver(w, T) \in Int}
<1>1. \A T \in SUBSET S : IsFiniteSet(T)
  BY FS_Subset
<1>2. {} \in G
  BY SumEmpty
<1>3. \A T \in SUBSET S : T # {} /\ (\A x \in T : T \ {x} \in G) => T \in G
  <2> SUFFICES ASSUME NEW T \in SUBSET S, T # {}, \A x \in T : T \ {x} \in G
               PROVE  SumOver(w, T) \in Int
    OBVIOUS
  <2>1. Pick(T) \in T /\ SumOver(w, T) = w[Pick(T)] + SumOver(w, T \ {Pick(T)})
    BY <1>1, Picked, SumPick
  <2> QED BY <2>1
<1> HIDE DEF G
<1>4. S \in G
  BY <1>2, <1>3, SetInduct
<1> QED BY <1>4 DEF G

(* The order of summation does not matter: any element can be taken out. *)
LEMMA SumRemove ==
  ASSUME NEW S, IsFiniteSet(S), NEW w, \A x \in S : w[x] \in Int, NEW y \in S
  PROVE  SumOver(w, S) = w[y] + SumOver(w, S \ {y})
<1> DEFINE G == {T \in SUBSET S : \A z \in T : SumOver(w, T) = w[z] + SumOver(w, T \ {z})}
<1>1. \A T \in SUBSET S : IsFiniteSet(T) /\ SumOver(w, T) \in Int
  BY FS_Subset, SumInt
<1>2. {} \in G
  OBVIOUS
<1>3. \A T \in SUBSET S : T # {} /\ (\A x \in T : T \ {x} \in G) => T \in G
  <2> SUFFICES ASSUME NEW T \in SUBSET S, T # {}, \A x \in T : T \ {x} \in G, NEW z \in T
               PROVE  SumOver(w, T) = w[z] + SumOver(w, T \ {z})
    OBVIOUS
  <2> DEFINE p == Pick(T)
  <2>1. p \in T /\ SumOver(w, T) = w[p] + SumOver(w, T \ {p})
    BY <1>1, Picked, SumPick
  <2> HIDE DEF p
  <2>2. CASE z = p
    BY <2>1, <2>2
  <2>3. CASE z # p
    <3>1. z \in T \ {p} /\ p \in T \ {z} /\ (T \ {p}) \ {z} = (T \ {z}) \ {p}
      BY <2>1, <2>3
    <3>2. SumOver(w, T \ {p}) = w[z] + SumOver(w, (T \ {p}) \ {z})
      BY <2>1, <3>1
    <3>3. SumOver(w, T \ {z}) = w[p] + SumOver(w, (T \ {z}) \ {p})
      BY <2>1, <3>1
    <3> DEFINE r == SumOver(w, (T \ {z}) \ {p})
    <3>4. w[p] \in Int /\ w[z] \in Int /\ r \in Int
      BY <1>1, <2>1
    <3>5. SumOver(w, T) = w[p] + (w[z] + r)
      BY <2>1, <3>1, <3>2
    <3> HIDE DEF r
    <3>6. w[p] + (w[z] + r) = w[z] + (w[p] + r)
      BY <3>4
    <3> QED BY <3>3, <3>5, <3>6 DEF r
  <2> QED BY <2>2, <2>3
<1> HIDE DEF G
<1>4. S \in G
  BY <1>2, <1>3, SetInduct
<1> QED BY <1>4 DEF G

LEMMA SumAdd ==
  ASSUME NEW S, IsFiniteSet(S), NEW w, \A x \in S : w[x] \in Int,
         NEW y, y \notin S, w[y] \in Int
  PROVE  SumOver(w, S \cup {y}) = SumOver(w, S) + w[y]
<1>1. IsFiniteSet(S \cup {y}) /\ (S \cup {y}) \ {y} = S
  BY FS_AddElement
<1>2. SumOver(w, S \cup {y}) = w[y] + SumOver(w, S)
  BY <1>1, SumRemove
<1> QED BY <1>2, SumInt

(* A sum depends only on the weights summed. *)
LEMMA SumSame ==
  ASSUME NEW S, IsFiniteSet(S), NEW w, NEW v, \A x \in S : w[x] = v[x]
  PROVE  SumOver(w, S) = SumOver(v, S)
<1> DEFINE G == {T \in SUBSET S : SumOver(w, T) = SumOver(v, T)}
<1>1. \A T \in SUBSET S : IsFiniteSet(T)
  BY FS_Subset
<1>2. {} \in G
  BY SumEmpty
<1>3. \A T \in SUBSET S : T # {} /\ (\A x \in T : T \ {x} \in G) => T \in G
  <2> SUFFICES ASSUME NEW T \in SUBSET S, T # {}, \A x \in T : T \ {x} \in G
               PROVE  SumOver(w, T) = SumOver(v, T)
    OBVIOUS
  <2>1. Pick(T) \in T
    BY Picked
  <2>2. SumOver(w, T) = w[Pick(T)] + SumOver(w, T \ {Pick(T)})
    BY <1>1, SumPick
  <2>3. SumOver(v, T) = v[Pick(T)] + SumOver(v, T \ {Pick(T)})
    BY <1>1, SumPick
  <2>4. w[Pick(T)] = v[Pick(T)] /\ SumOver(w, T \ {Pick(T)}) = SumOver(v, T \ {Pick(T)})
    BY <2>1
  <2> QED BY <2>2, <2>3, <2>4
<1> HIDE DEF G
<1>4. S \in G
  BY <1>2, <1>3, SetInduct
<1> QED BY <1>4 DEF G

(* A sum of naturals is one, and no term exceeds it. *)
LEMMA SumNat ==
  ASSUME NEW S, IsFiniteSet(S), NEW w, \A x \in S : w[x] \in Nat
  PROVE  SumOver(w, S) \in Nat
<1> DEFINE G == {T \in SUBSET S : SumOver(w, T) \in Nat}
<1>1. \A T \in SUBSET S : IsFiniteSet(T)
  BY FS_Subset
<1>2. {} \in G
  BY SumEmpty
<1>3. \A T \in SUBSET S : T # {} /\ (\A x \in T : T \ {x} \in G) => T \in G
  <2> SUFFICES ASSUME NEW T \in SUBSET S, T # {}, \A x \in T : T \ {x} \in G
               PROVE  SumOver(w, T) \in Nat
    OBVIOUS
  <2>1. Pick(T) \in T /\ SumOver(w, T) = w[Pick(T)] + SumOver(w, T \ {Pick(T)})
    BY <1>1, Picked, SumPick
  <2> QED BY <2>1
<1> HIDE DEF G
<1>4. S \in G
  BY <1>2, <1>3, SetInduct
<1> QED BY <1>4 DEF G

(* The sum over two disjoint sets. *)
LEMMA SumUnion ==
  ASSUME NEW S, NEW T, IsFiniteSet(S), IsFiniteSet(T), S \cap T = {},
         NEW w, \A x \in S \cup T : w[x] \in Int
  PROVE  SumOver(w, S \cup T) = SumOver(w, S) + SumOver(w, T)
<1> DEFINE G == {U \in SUBSET T : SumOver(w, S \cup U) = SumOver(w, S) + SumOver(w, U)}
<1>1. \A U \in SUBSET T : IsFiniteSet(U) /\ SumOver(w, U) \in Int
  BY FS_Subset, SumInt
<1>2. SumOver(w, S) \in Int
  BY SumInt
<1>3. {} \in G
  <2>1. S \cup {} = S
    OBVIOUS
  <2> QED BY <1>2, <2>1, SumEmpty
<1>4. \A U \in SUBSET T : U # {} /\ (\A x \in U : U \ {x} \in G) => U \in G
  <2> SUFFICES ASSUME NEW U \in SUBSET T, U # {}, \A x \in U : U \ {x} \in G
               PROVE  SumOver(w, S \cup U) = SumOver(w, S) + SumOver(w, U)
    OBVIOUS
  <2>1. PICK x \in U : TRUE
    OBVIOUS
  <2> DEFINE V == U \ {x}
  <2>2. /\ V \in SUBSET T /\ SumOver(w, S \cup V) = SumOver(w, S) + SumOver(w, V)
        /\ x \notin V /\ x \notin S \cup V /\ w[x] \in Int
        /\ U = V \cup {x} /\ S \cup U = (S \cup V) \cup {x}
        /\ \A y \in S \cup V : w[y] \in Int
    OBVIOUS
  <2> HIDE DEF V
  <2>3. IsFiniteSet(V) /\ IsFiniteSet(S \cup V)
    <3>1. IsFiniteSet(V)
      BY <1>1, <2>2
    <3> QED BY <3>1, FS_Union, Zenon
  <2>4. SumOver(w, U) = SumOver(w, V) + w[x]
    BY <2>2, <2>3, SumAdd
  <2>5. SumOver(w, S \cup U) = SumOver(w, S \cup V) + w[x]
    <3> DEFINE X == S \cup V
    <3>1. IsFiniteSet(X) /\ x \notin X /\ S \cup U = X \cup {x} /\ \A y \in X : w[y] \in Int
      BY <2>2, <2>3
    <3> HIDE DEF X
    <3>2. SumOver(w, X \cup {x}) = SumOver(w, X) + w[x]
      BY <2>2, <3>1, SumAdd
    <3> QED BY <3>1, <3>2 DEF X
  <2> QED BY <1>1, <1>2, <2>2, <2>4, <2>5
<1> HIDE DEF G
<1>5. T \in G
  BY <1>3, <1>4, SetInduct
<1> QED BY <1>5 DEF G

(* A sum may be taken over the images of its elements. *)
LEMMA SumImage ==
  ASSUME NEW S, IsFiniteSet(S), NEW f, NEW w, NEW v,
         \A x \in S : w[x] \in Int /\ v[f[x]] = w[x],
         \A x, y \in S : f[x] = f[y] => x = y
  PROVE  SumOver(v, {f[x] : x \in S}) = SumOver(w, S)
<1> DEFINE I(T) == {f[x] : x \in T}
           G == {T \in SUBSET S : IsFiniteSet(I(T)) /\ SumOver(v, I(T)) = SumOver(w, T)}
<1>1. {} \in G
  <2>1. I({}) = {}
    OBVIOUS
  <2> QED BY <2>1, SumEmpty, FS_EmptySet
<1>2. \A T \in SUBSET S : T # {} /\ (\A x \in T : T \ {x} \in G) => T \in G
  <2> SUFFICES ASSUME NEW T \in SUBSET S, T # {}, \A x \in T : T \ {x} \in G
               PROVE  IsFiniteSet(I(T)) /\ SumOver(v, I(T)) = SumOver(w, T)
    OBVIOUS
  <2>1. PICK x \in T : TRUE
    OBVIOUS
  <2> DEFINE U == T \ {x}
             J == I(U)
  <2>2. /\ U \in SUBSET S /\ IsFiniteSet(J) /\ SumOver(v, J) = SumOver(w, U)
        /\ T = U \cup {x} /\ x \notin U
    OBVIOUS
  <2>3. I(T) = J \cup {f[x]} /\ f[x] \notin J
    OBVIOUS
  <2>4. \A y \in J : v[y] \in Int
    OBVIOUS
  <2>5. v[f[x]] = w[x] /\ w[x] \in Int /\ \A y \in U : w[y] \in Int
    OBVIOUS
  <2>6. IsFiniteSet(U)
    BY <2>2, FS_Subset
  <2> HIDE DEF U, J
  <2>7. SumOver(w, T) = SumOver(w, U) + w[x]
    BY <2>2, <2>5, <2>6, SumAdd
  <2>8. SumOver(v, J \cup {f[x]}) = SumOver(v, J) + v[f[x]]
    BY <2>2, <2>3, <2>4, <2>5, SumAdd
  <2>9. IsFiniteSet(J \cup {f[x]})
    BY <2>2, FS_AddElement
  <2> QED BY <2>2, <2>3, <2>5, <2>7, <2>8, <2>9
<1> HIDE DEF G
<1>3. S \in G
  BY <1>1, <1>2, SetInduct
<1> QED BY <1>3 DEF G
===============================================================================

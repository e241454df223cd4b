---------------------------- MODULE SumTheorems ----------------------------
EXTENDS Integers, FiniteSets, Functions, FiniteSetTheorems, WellFoundedInduction, TLAPS

(* Induction, for a set of numbers. *)
LEMMA InductiveSet ==
    ASSUME NEW P \in SUBSET Nat, 0 \in P, \A n \in P : n + 1 \in P
    PROVE  P = Nat
<1> DEFINE rest == Nat \ P
           less == OpToRel(<, Nat)
<1> SUFFICES ASSUME rest # {} PROVE FALSE
  OBVIOUS
<1>1. PICK m \in rest : \A n \in rest : ~(<<n, m>> \in less)
  <2>1. rest \subseteq Nat
    OBVIOUS
  <2> HIDE DEF rest
  <2> QED BY <2>1, NatLessThanWellFounded, WFMin
<1>2. m \in Nat /\ m # 0
  OBVIOUS
<1>3. m - 1 \in Nat /\ <<m - 1, m>> \in less
  BY <1>2 DEF OpToRel
<1>4. m - 1 \in P
  <2> HIDE DEF less
  <2> QED BY <1>1, <1>3
<1>5. m = (m - 1) + 1
  BY <1>2
<1> QED BY <1>4, <1>5

\* One step of the fold: the term of some element, and what g says of the rest.
FoldStep(f, g, s) ==
    IF s = {} THEN 0 ELSE f[CHOOSE x \in s : TRUE] + g[s \ {CHOOSE x \in s : TRUE}]

\* The recursive function of the fold.
FoldOver(f, S) == CHOOSE iter : iter = [s \in SUBSET S |-> FoldStep(f, iter, s)]

(* SumFunctionOnSet is that fold. *)
LEMMA Unfold ==
    ASSUME NEW f, NEW S
    PROVE  SumFunctionOnSet(f, S) = FoldOver(f, S)[S]
BY DEF SumFunctionOnSet, FoldFunctionOnSet, MapThenFoldSet, FoldOver, FoldStep

(* The fold is defined: the equation it is chosen by has a solution. *)
LEMMA SumsDefined ==
    ASSUME NEW f, NEW S, IsFiniteSet(S)
    PROVE  \A s \in SUBSET S : FoldOver(f, S)[s] = FoldStep(f, FoldOver(f, S), s)
<1> DEFINE upto(g, n) == \A s \in SUBSET S : Cardinality(s) <= n => g[s] = FoldStep(f, g, s)
           P == {n \in Nat : \E g : upto(g, n)}
<1>1. \A s \in SUBSET S : IsFiniteSet(s) /\ Cardinality(s) \in Nat /\ Cardinality(s) <= Cardinality(S)
  BY FS_Subset, FS_CardinalityType
<1>2. \A s \in SUBSET S : Cardinality(s) = 0 => s = {}
  BY <1>1, FS_EmptySet
<1>3. \A s \in SUBSET S : s # {} =>
         /\ s \ {CHOOSE x \in s : TRUE} \in SUBSET S
         /\ Cardinality(s \ {CHOOSE x \in s : TRUE}) = Cardinality(s) - 1
  BY <1>1, FS_RemoveElement
<1>4. 0 \in P
  <2>1. upto([s \in SUBSET S |-> 0], 0)
    BY <1>1, <1>2 DEF FoldStep
  <2> QED BY <2>1
<1>5. ASSUME NEW n \in P
      PROVE  n + 1 \in P
  <2>1. PICK g : upto(g, n)
    OBVIOUS
  <2> DEFINE h == [s \in SUBSET S |-> FoldStep(f, g, s)]
  <2>2. ASSUME NEW s \in SUBSET S, Cardinality(s) <= n + 1
        PROVE  h[s] = FoldStep(f, h, s)
    <3>1. CASE s = {}
      BY <3>1 DEF FoldStep
    <3>2. CASE s # {}
      <4> DEFINE t == s \ {CHOOSE x \in s : TRUE}
      <4>1. t \in SUBSET S /\ Cardinality(t) <= n
        BY <1>1, <1>3, <2>2, <3>2
      <4>2. g[t] = FoldStep(f, g, t) /\ h[t] = FoldStep(f, g, t)
        BY <2>1, <4>1
      <4>3. h[s] = f[CHOOSE x \in s : TRUE] + g[t]
        BY <3>2 DEF FoldStep
      <4> HIDE DEF h
      <4>4. FoldStep(f, h, s) = f[CHOOSE x \in s : TRUE] + h[t]
        BY <3>2 DEF FoldStep
      <4> QED BY <4>2, <4>3, <4>4
    <3> QED BY <3>1, <3>2
  <2> HIDE DEF h
  <2>3. upto(h, n + 1)
    BY <2>2
  <2> QED BY <2>3
<1>6. P = Nat
  <2> HIDE DEF P
  <2>1. P \in SUBSET Nat
    BY DEF P
  <2> QED BY <1>4, <1>5, <2>1, InductiveSet
<1>7. PICK g : upto(g, Cardinality(S))
  <2>1. Cardinality(S) \in P
    BY <1>1, <1>6
  <2> QED BY <2>1
<1>8. \A s \in SUBSET S : g[s] = FoldStep(f, g, s)
  BY <1>1, <1>7
<1> DEFINE h == [s \in SUBSET S |-> g[s]]
<1>9. h = [s \in SUBSET S |-> FoldStep(f, h, s)]
  <2>1. ASSUME NEW s \in SUBSET S
        PROVE  h[s] = FoldStep(f, h, s)
    BY <1>3, <1>8 DEF FoldStep
  <2> HIDE DEF h
  <2>2. h = [s \in SUBSET S |-> h[s]]
    BY DEF h
  <2> QED BY <2>1, <2>2
<1> HIDE DEF h
<1> DEFINE sums == FoldOver(f, S)
<1>10. sums = [s \in SUBSET S |-> FoldStep(f, sums, s)]
  BY <1>9 DEF FoldOver
<1> HIDE DEF sums
<1>11. \A s \in SUBSET S : sums[s] = FoldStep(f, sums, s)
  BY <1>10
<1> QED BY <1>11 DEF sums

(* Induction over the subsets of a finite set. *)
LEMMA InductiveFamily ==
    ASSUME NEW S, IsFiniteSet(S), NEW P \in SUBSET (SUBSET S),
           \A T \in SUBSET S : (\A x \in T : T \ {x} \in P) => T \in P
    PROVE  P = SUBSET S
<1> DEFINE sizes == {n \in Nat : \A T \in SUBSET S : Cardinality(T) = n => T \in P}
<1>1. \A T \in SUBSET S : IsFiniteSet(T) /\ Cardinality(T) \in Nat
  BY FS_Subset, FS_CardinalityType
<1>2. 0 \in sizes
  BY <1>1, FS_EmptySet
<1>3. ASSUME NEW n \in sizes
      PROVE  n + 1 \in sizes
  <2> SUFFICES ASSUME NEW T \in SUBSET S, Cardinality(T) = n + 1
               PROVE  T \in P
    OBVIOUS
  <2>1. \A x \in T : T \ {x} \in SUBSET S /\ Cardinality(T \ {x}) = n
    BY <1>1, FS_RemoveElement
  <2> QED BY <2>1
<1>4. sizes = Nat
  <2>1. sizes \in SUBSET Nat
    OBVIOUS
  <2> HIDE DEF sizes
  <2> QED BY <1>2, <1>3, <2>1, InductiveSet
<1> QED BY <1>1, <1>4

(* The sum over a subset is the same fold as the one inside a larger sum. *)
LEMMA SumsAgree ==
    ASSUME NEW f, NEW S, IsFiniteSet(S), NEW T \in SUBSET S
    PROVE  FoldOver(f, S)[T] = SumFunctionOnSet(f, T)
<1> DEFINE P == {U \in SUBSET T : FoldOver(f, S)[U] = FoldOver(f, T)[U]}
<1>1. IsFiniteSet(T)
  BY FS_Subset
<1>2. /\ \A U \in SUBSET S : FoldOver(f, S)[U] = FoldStep(f, FoldOver(f, S), U)
      /\ \A U \in SUBSET T : FoldOver(f, T)[U] = FoldStep(f, FoldOver(f, T), U)
  BY <1>1, SumsDefined
<1>3. ASSUME NEW U \in SUBSET T, \A x \in U : U \ {x} \in P
      PROVE  U \in P
  <2>1. CASE U = {}
    BY <1>2, <2>1 DEF FoldStep
  <2>2. CASE U # {}
    <3>1. U \ {CHOOSE x \in U : TRUE} \in P
      BY <1>3, <2>2
    <3> QED BY <1>2, <2>2, <3>1 DEF FoldStep
  <2> QED BY <2>1, <2>2
<1>4. P = SUBSET T
  <2>1. P \in SUBSET (SUBSET T)
    OBVIOUS
  <2> HIDE DEF P
  <2> QED BY <1>1, <1>3, <2>1, InductiveFamily
<1> QED BY <1>4, Unfold

(* A sum without one of its terms, whatever the order of the fold. *)
LEMMA SumRecursion ==
    ASSUME NEW f, NEW S, IsFiniteSet(S), \A x \in S : f[x] \in Int
    PROVE  /\ SumFunctionOnSet(f, {}) = 0
           /\ SumFunctionOnSet(f, S) \in Int
           /\ \A x \in S : SumFunctionOnSet(f, S) = f[x] + SumFunctionOnSet(f, S \ {x})
<1> DEFINE sum(U) == SumFunctionOnSet(f, U)
           P == {U \in SUBSET S : sum(U) \in Int /\ \A x \in U : sum(U) = f[x] + sum(U \ {x})}
<1>1. sum({}) = 0
  <2>1. IsFiniteSet({}) /\ {} \in SUBSET {}
    BY FS_EmptySet
  <2>2. FoldOver(f, {})[{}] = FoldStep(f, FoldOver(f, {}), {})
    BY <2>1, SumsDefined
  <2> QED BY <2>2, Unfold DEF FoldStep
<1>2. ASSUME NEW U \in SUBSET S, U # {}
      PROVE  sum(U) = f[CHOOSE x \in U : TRUE] + sum(U \ {CHOOSE x \in U : TRUE})
  <2> DEFINE c == CHOOSE x \in U : TRUE
  <2>1. IsFiniteSet(U) /\ U \ {c} \in SUBSET U
    BY FS_Subset
  <2>2. FoldOver(f, U)[U] = FoldStep(f, FoldOver(f, U), U)
    BY <2>1, SumsDefined
  <2>3. FoldOver(f, U)[U \ {c}] = sum(U \ {c})
    BY <2>1, SumsAgree
  <2> QED BY <1>2, <2>2, <2>3, Unfold DEF FoldStep
<1>3. \A U \in SUBSET S : sum(U) \in Int
  <2> DEFINE I == {U \in SUBSET S : sum(U) \in Int}
  <2> HIDE DEF sum
  <2>1. ASSUME NEW U \in SUBSET S, \A x \in U : U \ {x} \in I
        PROVE  U \in I
    <3>1. CASE U = {}
      BY <1>1, <3>1
    <3>2. CASE U # {}
      <4> DEFINE c == CHOOSE x \in U : TRUE
      <4>1. c \in U /\ sum(U) = f[c] + sum(U \ {c})
        BY <1>2, <3>2
      <4> HIDE DEF c
      <4>2. f[c] \in Int /\ sum(U \ {c}) \in Int
        BY <2>1, <4>1
      <4> QED BY <4>1, <4>2
    <3> QED BY <3>1, <3>2
  <2>2. I = SUBSET S
    <3>1. I \in SUBSET (SUBSET S)
      OBVIOUS
    <3> HIDE DEF I
    <3> QED BY <2>1, <3>1, InductiveFamily
  <2> QED BY <2>2
<1> HIDE DEF sum
<1>4. ASSUME NEW U \in SUBSET S, \A x \in U : U \ {x} \in P,
             NEW x \in U
      PROVE  sum(U) = f[x] + sum(U \ {x})
  <2> DEFINE c == CHOOSE y \in U : TRUE
  <2>1. c \in U /\ sum(U) = f[c] + sum(U \ {c})
    BY <1>2
  <2> HIDE DEF c
  <2>2. CASE x = c
    BY <2>1, <2>2
  <2>3. CASE x # c
    <3>1. U \ {x} \in P /\ U \ {c} \in P /\ c \in U \ {x} /\ x \in U \ {c}
      BY <1>4, <2>1, <2>3
    <3>2. sum(U \ {c}) = f[x] + sum((U \ {c}) \ {x})
      BY <3>1
    <3>3. sum(U \ {x}) = f[c] + sum((U \ {x}) \ {c})
      BY <3>1
    <3>4. sum((U \ {c}) \ {x}) = sum((U \ {x}) \ {c})
      <4>1. (U \ {c}) \ {x} = (U \ {x}) \ {c}
        OBVIOUS
      <4> QED BY <4>1, Zenon
    <3>5. f[x] \in Int /\ f[c] \in Int /\ sum((U \ {c}) \ {x}) \in Int
      BY <1>3, <2>1
    <3> HIDE DEF P
    <3> QED BY <2>1, <3>2, <3>3, <3>4, <3>5
  <2> QED BY <2>2, <2>3
<1>5. P = SUBSET S
  <2>1. P \in SUBSET (SUBSET S)
    OBVIOUS
  <2>2. \A U \in SUBSET S : (\A x \in U : U \ {x} \in P) => U \in P
    BY <1>3, <1>4
  <2> HIDE DEF P
  <2> QED BY <2>1, <2>2, InductiveFamily
<1>6. S \in P
  BY <1>5
<1> QED BY <1>1, <1>6 DEF sum

(* The same for every part of the set. *)
LEMMA SumOfParts ==
    ASSUME NEW f, NEW S, IsFiniteSet(S), \A x \in S : f[x] \in Int
    PROVE  /\ SumFunctionOnSet(f, {}) = 0
           /\ \A U \in SUBSET S :
                 /\ SumFunctionOnSet(f, U) \in Int
                 /\ \A x \in U : SumFunctionOnSet(f, U) = f[x] + SumFunctionOnSet(f, U \ {x})
<1>1. ASSUME NEW U \in SUBSET S
      PROVE  IsFiniteSet(U) /\ \A x \in U : f[x] \in Int
  BY FS_Subset
<1> QED BY <1>1, SumRecursion

-----------------------------------------------------------------------------
(* Term by term, the sum of two functions is the sum of their sums. *)
THEOREM SumAdd ==
    ASSUME NEW S, IsFiniteSet(S), NEW f, NEW g, NEW h,
           \A x \in S : f[x] \in Int /\ g[x] \in Int /\ h[x] = f[x] + g[x]
    PROVE  SumFunctionOnSet(h, S) = SumFunctionOnSet(f, S) + SumFunctionOnSet(g, S)
<1> DEFINE sf(U) == SumFunctionOnSet(f, U)
           sg(U) == SumFunctionOnSet(g, U)
           sh(U) == SumFunctionOnSet(h, U)
           P == {U \in SUBSET S : sh(U) = sf(U) + sg(U)}
<1>1. ASSUME NEW U \in SUBSET S
      PROVE  /\ sf({}) = 0 /\ sg({}) = 0 /\ sh({}) = 0
             /\ sf(U) \in Int /\ sg(U) \in Int /\ sh(U) \in Int
             /\ \A x \in U : /\ sf(U) = f[x] + sf(U \ {x})
                            /\ sg(U) = g[x] + sg(U \ {x})
                            /\ sh(U) = h[x] + sh(U \ {x})
  <2>1. /\ SumFunctionOnSet(f, {}) = 0
        /\ \A V \in SUBSET S :
              /\ SumFunctionOnSet(f, V) \in Int
              /\ \A x \in V : SumFunctionOnSet(f, V) = f[x] + SumFunctionOnSet(f, V \ {x})
    <3>1. \A x \in S : f[x] \in Int
      OBVIOUS
    <3> QED BY ONLY <3>1, IsFiniteSet(S), SumOfParts, Zenon
  <2>2. /\ SumFunctionOnSet(g, {}) = 0
        /\ \A V \in SUBSET S :
              /\ SumFunctionOnSet(g, V) \in Int
              /\ \A x \in V : SumFunctionOnSet(g, V) = g[x] + SumFunctionOnSet(g, V \ {x})
    <3>1. \A x \in S : g[x] \in Int
      OBVIOUS
    <3> QED BY ONLY <3>1, IsFiniteSet(S), SumOfParts, Zenon
  <2>3. /\ SumFunctionOnSet(h, {}) = 0
        /\ \A V \in SUBSET S :
              /\ SumFunctionOnSet(h, V) \in Int
              /\ \A x \in V : SumFunctionOnSet(h, V) = h[x] + SumFunctionOnSet(h, V \ {x})
    <3>1. \A x \in S : h[x] \in Int
      OBVIOUS
    <3> QED BY ONLY <3>1, IsFiniteSet(S), SumOfParts, Zenon
  <2> QED BY <2>1, <2>2, <2>3
<1> HIDE DEF sf, sg, sh
<1>2. ASSUME NEW U \in SUBSET S, \A x \in U : U \ {x} \in P
      PROVE  U \in P
  <2>1. CASE U = {}
    BY <1>1, <2>1
  <2>2. CASE U # {}
    <3>1. PICK x : x \in U
      BY <2>2
    <3>2. U \ {x} \in P /\ sf(U \ {x}) \in Int /\ sg(U \ {x}) \in Int
      BY <1>1, <1>2, <3>1
    <3>3. sf(U) = f[x] + sf(U \ {x}) /\ sg(U) = g[x] + sg(U \ {x}) /\ sh(U) = h[x] + sh(U \ {x})
      BY <1>1, <3>1
    <3>4. f[x] \in Int /\ g[x] \in Int /\ h[x] = f[x] + g[x]
      BY <3>1
    <3> QED BY <3>2, <3>3, <3>4
  <2> QED BY <2>1, <2>2
<1>3. P = SUBSET S
  <2>1. P \in SUBSET (SUBSET S)
    OBVIOUS
  <2> HIDE DEF P
  <2> QED BY <1>2, <2>1, InductiveFamily
<1>4. S \in P
  BY <1>3
<1> QED BY <1>4 DEF sf, sg, sh

(* A sum of smaller terms is smaller. *)
THEOREM SumLeq ==
    ASSUME NEW S, IsFiniteSet(S), NEW f, NEW g,
           \A x \in S : f[x] \in Int /\ g[x] \in Int /\ f[x] <= g[x]
    PROVE  SumFunctionOnSet(f, S) <= SumFunctionOnSet(g, S)
<1> DEFINE sf(U) == SumFunctionOnSet(f, U)
           sg(U) == SumFunctionOnSet(g, U)
           P == {U \in SUBSET S : sf(U) <= sg(U)}
<1>1. ASSUME NEW U \in SUBSET S
      PROVE  /\ sf({}) = 0 /\ sg({}) = 0
             /\ sf(U) \in Int /\ sg(U) \in Int
             /\ \A x \in U : /\ sf(U) = f[x] + sf(U \ {x})
                            /\ sg(U) = g[x] + sg(U \ {x})
  <2>1. /\ SumFunctionOnSet(f, {}) = 0
        /\ \A V \in SUBSET S :
              /\ SumFunctionOnSet(f, V) \in Int
              /\ \A x \in V : SumFunctionOnSet(f, V) = f[x] + SumFunctionOnSet(f, V \ {x})
    <3>1. \A x \in S : f[x] \in Int
      OBVIOUS
    <3> QED BY ONLY <3>1, IsFiniteSet(S), SumOfParts, Zenon
  <2>2. /\ SumFunctionOnSet(g, {}) = 0
        /\ \A V \in SUBSET S :
              /\ SumFunctionOnSet(g, V) \in Int
              /\ \A x \in V : SumFunctionOnSet(g, V) = g[x] + SumFunctionOnSet(g, V \ {x})
    <3>1. \A x \in S : g[x] \in Int
      OBVIOUS
    <3> QED BY ONLY <3>1, IsFiniteSet(S), SumOfParts, Zenon
  <2> QED BY <2>1, <2>2
<1> HIDE DEF sf, sg
<1>2. ASSUME NEW U \in SUBSET S, \A x \in U : U \ {x} \in P
      PROVE  U \in P
  <2>1. CASE U = {}
    BY <1>1, <2>1
  <2>2. CASE U # {}
    <3>1. PICK x : x \in U
      BY <2>2
    <3>2. U \ {x} \in P /\ sf(U \ {x}) \in Int /\ sg(U \ {x}) \in Int
      BY <1>1, <1>2, <3>1
    <3>3. sf(U) = f[x] + sf(U \ {x}) /\ sg(U) = g[x] + sg(U \ {x})
      BY <1>1, <3>1
    <3>4. f[x] \in Int /\ g[x] \in Int /\ f[x] <= g[x]
      BY <3>1
    <3> QED BY <3>2, <3>3, <3>4
  <2> QED BY <2>1, <2>2
<1>3. P = SUBSET S
  <2>1. P \in SUBSET (SUBSET S)
    OBVIOUS
  <2> HIDE DEF P
  <2> QED BY <1>2, <2>1, InductiveFamily
<1>4. S \in P
  BY <1>3
<1> QED BY <1>4 DEF sf, sg

(* A sum is decided by its terms. *)
THEOREM SumEqual ==
    ASSUME NEW S, IsFiniteSet(S), NEW f, NEW g,
           \A x \in S : f[x] \in Int /\ f[x] = g[x]
    PROVE  SumFunctionOnSet(f, S) = SumFunctionOnSet(g, S)
<1>1. SumFunctionOnSet(f, S) \in Int /\ SumFunctionOnSet(g, S) \in Int
  BY SumRecursion
<1>2. /\ SumFunctionOnSet(f, S) <= SumFunctionOnSet(g, S)
      /\ SumFunctionOnSet(g, S) <= SumFunctionOnSet(f, S)
  BY SumLeq
<1> QED BY <1>1, <1>2

(* One term changes. *)
THEOREM SumUpdate ==
    ASSUME NEW S, IsFiniteSet(S), NEW f, NEW g, NEW x \in S,
           \A y \in S : f[y] \in Int /\ g[y] \in Int,
           \A y \in S \ {x} : f[y] = g[y]
    PROVE  SumFunctionOnSet(g, S) = SumFunctionOnSet(f, S) + g[x] - f[x]
<1>1. IsFiniteSet(S \ {x})
  BY FS_RemoveElement
<1>2. SumFunctionOnSet(f, S \ {x}) = SumFunctionOnSet(g, S \ {x})
  BY <1>1, SumEqual
<1>3. /\ SumFunctionOnSet(f, S) = f[x] + SumFunctionOnSet(f, S \ {x})
      /\ SumFunctionOnSet(g, S) = g[x] + SumFunctionOnSet(g, S \ {x})
      /\ SumFunctionOnSet(f, S) \in Int /\ SumFunctionOnSet(g, S) \in Int
  BY SumRecursion
<1>4. SumFunctionOnSet(f, S \ {x}) \in Int /\ SumFunctionOnSet(g, S \ {x}) \in Int
  BY <1>1, SumRecursion
<1> QED BY <1>2, <1>3, <1>4

(* Terms of zero do not count. *)
THEOREM SumSupport ==
    ASSUME NEW S, IsFiniteSet(S), NEW T \in SUBSET S, NEW f,
           \A x \in S : f[x] \in Int,
           \A x \in S \ T : f[x] = 0
    PROVE  SumFunctionOnSet(f, S) = SumFunctionOnSet(f, T)
<1> DEFINE sum(U) == SumFunctionOnSet(f, U)
           P == {U \in SUBSET S : sum(U) = sum(U \cap T)}
<1>1. ASSUME NEW U \in SUBSET S
      PROVE  /\ sum({}) = 0
             /\ sum(U) \in Int
             /\ \A x \in U : sum(U) = f[x] + sum(U \ {x})
  BY SumOfParts
<1>2. ASSUME NEW U \in SUBSET S, \A x \in U : U \ {x} \in P
      PROVE  U \in P
  <2> HIDE DEF sum
  <2>1. CASE U \subseteq T
    <3>1. U \cap T = U
      BY <2>1
    <3>2. sum(U) = sum(U \cap T)
      BY <3>1, Zenon
    <3> QED BY <3>2
  <2>2. ASSUME NEW x \in U \ T
        PROVE  sum(U) = sum(U \cap T)
    <3>1. sum(U) = f[x] + sum(U \ {x}) /\ f[x] = 0 /\ sum(U \ {x}) \in Int
      BY <1>1, <2>2
    <3>2. sum(U \ {x}) = sum((U \ {x}) \cap T)
      BY <1>2, <2>2
    <3>3. (U \ {x}) \cap T = U \cap T
      BY <2>2
    <3>4. sum((U \ {x}) \cap T) = sum(U \cap T)
      BY <3>3, Zenon
    <3> QED BY <3>1, <3>2, <3>4
  <2> QED BY <2>1, <2>2
<1>3. P = SUBSET S
  <2>1. P \in SUBSET (SUBSET S)
    OBVIOUS
  <2> HIDE DEF P
  <2> QED BY <1>2, <2>1, InductiveFamily
<1>4. S \in P
  BY <1>3
<1>5. S \cap T = T
  OBVIOUS
<1>6. sum(S \cap T) = sum(T)
  <2> HIDE DEF sum
  <2> QED BY <1>5, Zenon
<1> QED BY <1>4, <1>6

(* A sum of zeros is zero. *)
THEOREM SumOfZeros ==
    ASSUME NEW S, IsFiniteSet(S), NEW f, \A x \in S : f[x] = 0
    PROVE  SumFunctionOnSet(f, S) = 0
<1>1. SumFunctionOnSet(f, S) = SumFunctionOnSet(f, {})
  BY SumSupport
<1>2. SumFunctionOnSet(f, {}) = 0
  <2>1. \A x \in S : f[x] \in Int
    OBVIOUS
  <2> QED BY <2>1, SumRecursion
<1> QED BY <1>1, <1>2

(* Two sets without a common element. *)
THEOREM SumUnion ==
    ASSUME NEW S, IsFiniteSet(S), NEW T, IsFiniteSet(T), S \cap T = {}, NEW f,
           \A x \in S \cup T : f[x] \in Int
    PROVE  SumFunctionOnSet(f, S \cup T) = SumFunctionOnSet(f, S) + SumFunctionOnSet(f, T)
<1> DEFINE all == S \cup T
           first  == [x \in all |-> IF x \in S THEN f[x] ELSE 0]
           second == [x \in all |-> IF x \in T THEN f[x] ELSE 0]
<1>1. IsFiniteSet(all)
  BY FS_Union
<1>2. \A x \in all : first[x] \in Int /\ second[x] \in Int /\ f[x] = first[x] + second[x]
  OBVIOUS
<1>3. /\ S \in SUBSET all /\ \A x \in all \ S : first[x] = 0
      /\ T \in SUBSET all /\ \A x \in all \ T : second[x] = 0
  OBVIOUS
<1>4. /\ \A x \in S : first[x] \in Int /\ first[x] = f[x]
      /\ \A x \in T : second[x] \in Int /\ second[x] = f[x]
  OBVIOUS
<1> HIDE DEF all, first, second
<1>5. SumFunctionOnSet(f, all) = SumFunctionOnSet(first, all) + SumFunctionOnSet(second, all)
  BY <1>1, <1>2, SumAdd
<1>6. /\ SumFunctionOnSet(first, all) = SumFunctionOnSet(first, S)
      /\ SumFunctionOnSet(second, all) = SumFunctionOnSet(second, T)
  BY <1>1, <1>2, <1>3, SumSupport
<1>7. /\ SumFunctionOnSet(first, S) = SumFunctionOnSet(f, S)
      /\ SumFunctionOnSet(second, T) = SumFunctionOnSet(f, T)
  BY <1>4, SumEqual
<1> QED BY <1>5, <1>6, <1>7 DEF all

(* Fewer terms, none of them negative. *)
THEOREM SumSubset ==
    ASSUME NEW S, IsFiniteSet(S), NEW T \in SUBSET S, NEW f,
           \A x \in S : f[x] \in Int /\ f[x] >= 0
    PROVE  0 <= SumFunctionOnSet(f, T) /\ SumFunctionOnSet(f, T) <= SumFunctionOnSet(f, S)
<1> DEFINE part == [x \in S |-> IF x \in T THEN f[x] ELSE 0]
           none == [x \in S |-> 0]
<1>1. /\ \A x \in S : part[x] \in Int /\ none[x] \in Int
      /\ \A x \in S : none[x] <= part[x] /\ part[x] <= f[x]
      /\ \A x \in S \ T : part[x] = 0
      /\ \A x \in S : none[x] = 0
      /\ \A x \in T : part[x] \in Int /\ part[x] = f[x]
  OBVIOUS
<1> HIDE DEF part, none
<1>2. IsFiniteSet(T)
  BY FS_Subset
<1>3. SumFunctionOnSet(part, S) = SumFunctionOnSet(part, T)
  BY <1>1, SumSupport
<1>4. SumFunctionOnSet(part, T) = SumFunctionOnSet(f, T)
  BY <1>1, <1>2, SumEqual
<1>5. /\ SumFunctionOnSet(part, S) <= SumFunctionOnSet(f, S)
      /\ SumFunctionOnSet(none, S) <= SumFunctionOnSet(part, S)
  BY <1>1, SumLeq
<1>6. SumFunctionOnSet(none, S) = 0
  BY <1>1, SumOfZeros
<1> QED BY <1>3, <1>4, <1>5, <1>6

\* The classes of K part S.
Splits(class, K, S) ==
    /\ \A k \in K : class[k] \subseteq S
    /\ \A e \in S : \E k \in K : e \in class[k]
    /\ \A k, l \in K : k # l => class[k] \cap class[l] = {}

(* A finite set counted part by part: the classes' sizes add up to its.    *)
THEOREM SumOfCounts ==
    ASSUME NEW S, IsFiniteSet(S), NEW K, IsFiniteSet(K), NEW class, Splits(class, K, S),
           NEW f, \A k \in K : f[k] = Cardinality(class[k])
    PROVE  SumFunctionOnSet(f, K) = Cardinality(S)
<1> DEFINE sum(U)  == SumFunctionOnSet(f, U)
           part(U) == {e \in S : \E k \in U : e \in class[k]}
           P == {U \in SUBSET K : sum(U) = Cardinality(part(U))}
<1>1. \A U \in SUBSET K : IsFiniteSet(part(U)) /\ Cardinality(part(U)) \in Nat
  BY FS_Subset, FS_CardinalityType
<1>2. \A k \in K : f[k] \in Int
  <2> TAKE k \in K
  <2>1. IsFiniteSet(class[k])
    BY FS_Subset DEF Splits
  <2> QED BY <2>1, FS_CardinalityType
<1>3. ASSUME NEW U \in SUBSET K
      PROVE  /\ sum({}) = 0
             /\ sum(U) \in Int
             /\ \A x \in U : sum(U) = f[x] + sum(U \ {x})
  <2>1. /\ SumFunctionOnSet(f, {}) = 0
        /\ \A V \in SUBSET K :
              /\ SumFunctionOnSet(f, V) \in Int
              /\ \A x \in V : SumFunctionOnSet(f, V) = f[x] + SumFunctionOnSet(f, V \ {x})
    <3> HIDE DEF part, P, sum
    <3> QED BY <1>2, SumOfParts
  <2> QED BY <2>1
<1>4. ASSUME NEW U \in SUBSET K, \A x \in U : U \ {x} \in P
      PROVE  U \in P
  <2>1. CASE U = {}
    <3>1. part(U) = {}
      BY <2>1
    <3>2. Cardinality(part(U)) = 0
      BY <3>1, FS_EmptySet
    <3> QED BY <1>3, <2>1, <3>2
  <2>2. ASSUME NEW x \in U
        PROVE  sum(U) = Cardinality(part(U))
    <3> DEFINE own == class[x]
    <3>1. sum(U) = f[x] + sum(U \ {x}) /\ f[x] = Cardinality(own)
      BY <1>3, <2>2
    <3>2. sum(U \ {x}) = Cardinality(part(U \ {x}))
      BY <1>4, <2>2
    <3>3. part(U) = own \cup part(U \ {x}) /\ own \cap part(U \ {x}) = {}
      BY <2>2 DEF Splits
    <3>4. IsFiniteSet(own) /\ IsFiniteSet(part(U \ {x}))
      BY <1>1, FS_Subset DEF Splits
    <3> HIDE DEF sum, part, own
    <3>5. Cardinality(own \cup part(U \ {x})) = Cardinality(own) + Cardinality(part(U \ {x})) - Cardinality(own \cap part(U \ {x}))
      BY <3>4, FS_Union
    <3>6. Cardinality({}) = 0
      BY FS_EmptySet
    <3>7. Cardinality(own) \in Nat /\ Cardinality(part(U \ {x})) \in Nat
      BY <3>4, FS_CardinalityType
    <3>8. /\ Cardinality(part(U)) = Cardinality(own \cup part(U \ {x}))
          /\ Cardinality(own \cap part(U \ {x})) = 0
      BY <3>3, <3>6, Zenon
    <3> QED BY <3>1, <3>2, <3>5, <3>7, <3>8
  <2> QED BY <2>1, <2>2
<1>5. P = SUBSET K
  <2>1. P \in SUBSET (SUBSET K)
    OBVIOUS
  <2> HIDE DEF P
  <2> QED BY <1>4, <2>1, InductiveFamily
<1>6. K \in P /\ part(K) = S
  BY <1>5 DEF Splits
<1> QED BY <1>6

(* A set of numbers that is not empty has a least one. *)
THEOREM LeastNumber ==
    ASSUME NEW S \in SUBSET Nat, S # {}
    PROVE  \E m \in S : \A x \in S : m <= x
<1> DEFINE less == OpToRel(<, Nat)
<1>1. PICK m \in S : \A x \in S : ~(<<x, m>> \in less)
  BY NatLessThanWellFounded, WFMin
<1>2. \A x \in S : ~(x < m)
  BY <1>1 DEF OpToRel
<1> QED BY <1>2

-----------------------------------------------------------------------------
(* Integer division rounds down. *)
LEMMA Quotient ==
    ASSUME NEW a \in Int, NEW b \in Nat \ {0}
    PROVE  a \div b \in Int /\ b * (a \div b) <= a /\ a < b * (a \div b) + b
OBVIOUS

LEMMA QuotientAtMost ==
    ASSUME NEW a \in Int, NEW b \in Nat \ {0}, NEW k \in Int
    PROVE  a \div b <= k <=> a < b * k + b
<1> DEFINE q == a \div b
<1>1. q \in Int /\ b * q <= a /\ a < b * q + b
  BY Quotient
<1> HIDE DEF q
<1>2. ASSUME q <= k PROVE a < b * k + b
  <2>1. b * q <= b * k
    BY <1>1, <1>2
  <2> QED BY <1>1, <2>1
<1>3. ASSUME q >= k + 1 PROVE a >= b * k + b
  <2>1. b * q >= b * (k + 1)
    BY <1>1, <1>3
  <2> QED BY <1>1, <2>1
<1> QED BY <1>1, <1>2, <1>3 DEF q

LEMMA QuotientBetween ==
    ASSUME NEW a \in Int, NEW b \in Nat \ {0}, NEW low \in Int, NEW high \in Int,
           b * low <= a, a <= b * high
    PROVE  a \div b \in Int /\ low <= a \div b /\ a \div b <= high
<1>1. a \div b \in Int
  BY Quotient
<1>2. a \div b <= high
  <2>1. b * high \in Int /\ a < b * high + b
    OBVIOUS
  <2> QED BY <2>1, QuotientAtMost
<1>3. ~(a \div b <= low - 1)
  <2>1. b * (low - 1) + b = b * low
    OBVIOUS
  <2>2. b * low \in Int /\ ~(a < b * (low - 1) + b)
    BY <2>1
  <2> QED BY <2>2, QuotientAtMost
<1> QED BY <1>1, <1>2, <1>3

LEMMA QuotientMonotone ==
    ASSUME NEW a \in Int, NEW b \in Int, a <= b, NEW d \in Nat \ {0}
    PROVE  a \div d \in Int /\ b \div d \in Int /\ a \div d <= b \div d
<1> DEFINE k == b \div d
<1>1. k \in Int /\ b < d * k + d /\ a \div d \in Int
  BY Quotient
<1> HIDE DEF k
<1>2. a < d * k + d
  BY <1>1
<1> QED BY <1>1, <1>2, QuotientAtMost DEF k
=============================================================================

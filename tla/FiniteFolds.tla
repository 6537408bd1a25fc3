----------------------------- MODULE FiniteFolds -----------------------------
(***************************************************************************)
(* Lemmas the proofs about the components share: induction and recursion    *)
(* over the subsets of a finite set, and with them what the folds and sums  *)
(* of the community modules compute.                                        *)
(*                                                                         *)
(* The induction is stated with a set of subsets in place of a predicate:   *)
(* it is the least counterexample to it, which exists by the                *)
(* well-foundedness of strict inclusion.                                    *)
(***************************************************************************)
EXTENDS Integers, Sequences, FiniteSets, SequencesExt, FiniteSetsExt, Functions,
        FiniteSetTheorems, SequenceTheorems, TLAPS

LEMMA SubsetInduction ==
    ASSUME NEW S, IsFiniteSet(S), NEW P,
           \A T \in SUBSET S : (\A U \in SUBSET T : U # T => U \in P) => T \in P
    PROVE  \A T \in SUBSET S : T \in P
<1> DEFINE Bad == {T \in SUBSET S : T \notin P}
<1>1. SUFFICES ASSUME Bad # {} PROVE FALSE
  OBVIOUS
<1>2. Bad \subseteq FiniteSubsetsOf(S)
  BY FS_Subset DEF FiniteSubsetsOf
<1>3. PICK T \in Bad : \A U \in Bad : ~(<<U, T>> \in StrictSubsetOrdering(S))
  <2>1. IsWellFoundedOn(StrictSubsetOrdering(S), FiniteSubsetsOf(S))
    BY FS_StrictSubsetOrderingWellFounded
  <2> HIDE DEF Bad
  <2> QED BY <1>1, <1>2, <2>1, WFMin
<1>4. ASSUME NEW U \in SUBSET T, U # T PROVE U \in P
  <2>1. U \in SUBSET S /\ <<U, T>> \in StrictSubsetOrdering(S)
    BY <1>4 DEF StrictSubsetOrdering
  <2> QED BY <1>3, <2>1
<1> QED BY <1>3, <1>4

(* A set with all of its elements put in one by one.                       *)
LEMMA ElementInduction ==
    ASSUME NEW S, IsFiniteSet(S), NEW P, {} \in P,
           \A T \in SUBSET S : \A x \in T : T \ {x} \in P => T \in P
    PROVE  \A T \in SUBSET S : T \in P
<1>1. ASSUME NEW T \in SUBSET S, \A U \in SUBSET T : U # T => U \in P PROVE T \in P
  <2>1. CASE T = {}
    BY <2>1
  <2>2. CASE T # {}
    <3>1. PICK x \in T : TRUE
      BY <2>2
    <3>2. T \ {x} \in SUBSET T /\ T \ {x} # T
      OBVIOUS
    <3> QED BY <1>1, <3>1, <3>2
  <2> QED BY <2>1, <2>2
<1> QED BY <1>1, SubsetInduction

(* Two functions that agree on a set when they do on the smaller ones.     *)
LEMMA SameByParts ==
    ASSUME NEW S, IsFiniteSet(S), NEW f, NEW g,
           \A T \in SUBSET S : (\A U \in SUBSET T : U # T => f[U] = g[U]) => f[T] = g[T]
    PROVE  f[S] = g[S]
<1> DEFINE P == {T \in SUBSET S : f[T] = g[T]}
<1>1. ASSUME NEW T \in SUBSET S, \A U \in SUBSET T : U # T => U \in P PROVE T \in P
  BY <1>1
<1>2. \A T \in SUBSET S : T \in P
  <2> HIDE DEF P
  <2> QED BY <1>1, SubsetInduction
<1> QED BY <1>2

(* The equation of a function that takes the element h[T] off each T.      *)
Recursive(f, S, base, h, G) ==
    \A T \in SUBSET S : f[T] = IF T = {} THEN base ELSE G[<<h[T], f[T \ {h[T]}]>>]

LEMMA RecursionUnique ==
    ASSUME NEW S, IsFiniteSet(S), NEW base, NEW h, NEW G,
           \A T \in SUBSET S : T # {} => h[T] \in T,
           NEW A \in SUBSET S, NEW B \in SUBSET S, NEW f, NEW g,
           Recursive(f, A, base, h, G), Recursive(g, B, base, h, G)
    PROVE  \A T \in SUBSET S : T \subseteq A /\ T \subseteq B => f[T] = g[T]
<1> DEFINE P == {T \in SUBSET S : T \subseteq A /\ T \subseteq B => f[T] = g[T]}
<1>1. ASSUME NEW T \in SUBSET S, \A U \in SUBSET T : U # T => U \in P PROVE T \in P
  <2>1. SUFFICES ASSUME T \subseteq A, T \subseteq B PROVE f[T] = g[T]
    OBVIOUS
  <2>2. CASE T = {}
    BY <2>1, <2>2 DEF Recursive
  <2>3. CASE T # {}
    <3> DEFINE U == T \ {h[T]}
    <3>1. U \in SUBSET T /\ U # T
      BY <2>3
    <3>2. f[U] = g[U]
      BY <1>1, <2>1, <3>1
    <3>3. f[T] = G[<<h[T], f[U]>>] /\ g[T] = G[<<h[T], g[U]>>]
      BY <2>1, <2>3 DEF Recursive
    <3> QED BY <3>2, <3>3
  <2> QED BY <2>2, <2>3
<1>2. \A T \in SUBSET S : T \in P
  <2> HIDE DEF P
  <2> QED BY <1>1, SubsetInduction
<1> QED BY <1>2

(* Such a function exists, and its values are where base and G put them.   *)
LEMMA RecursionExists ==
    ASSUME NEW S, IsFiniteSet(S), NEW V, NEW base \in V, NEW h, NEW G,
           \A T \in SUBSET S : T # {} => h[T] \in T,
           \A x \in S, v \in V : G[<<x, v>>] \in V
    PROVE  \E f \in [SUBSET S -> V] : Recursive(f, S, base, h, G)
<1> DEFINE Solves(T, f) == f \in [SUBSET T -> V] /\ Recursive(f, T, base, h, G)
           P == {T \in SUBSET S : \E f \in [SUBSET T -> V] : Recursive(f, T, base, h, G)}
<1>1. ASSUME NEW T \in SUBSET S, \A U \in SUBSET T : U # T => U \in P PROVE T \in P
  <2> DEFINE g(U) == CHOOSE f : Solves(U, f)
             U0 == T \ {h[T]}
             top == IF T = {} THEN base ELSE G[<<h[T], g(U0)[U0]>>]
             f == [U \in SUBSET T |-> IF U = T THEN top ELSE g(U)[U]]
  <2>1. ASSUME NEW U \in SUBSET T, U # T PROVE Solves(U, g(U))
    <3>1. \E e : Solves(U, e)
      BY <1>1, <2>1
    <3> HIDE DEF Solves
    <3> QED BY <3>1
  <2> HIDE DEF g
  <2>2. T # {} => U0 \in SUBSET T /\ U0 # T /\ h[T] \in T
    OBVIOUS
  <2>3. top \in V
    <3>1. CASE T = {}
      BY <3>1
    <3>2. CASE T # {}
      <4>1. g(U0)[U0] \in V
        <5>1. U0 \in SUBSET U0 /\ g(U0) \in [SUBSET U0 -> V]
          BY <2>1, <2>2, <3>2
        <5> HIDE DEF U0
        <5> QED BY <5>1
      <4> QED BY <2>2, <3>2, <4>1
    <3> QED BY <3>1, <3>2
  <2> HIDE DEF top
  <2>4. f \in [SUBSET T -> V]
    <3>1. \A U \in SUBSET T : U # T => g(U)[U] \in V
      BY <2>1
    <3> QED BY <2>3, <3>1
  <2>5. ASSUME NEW U \in SUBSET T
        PROVE  f[U] = IF U = {} THEN base ELSE G[<<h[U], f[U \ {h[U]}]>>]
    <3> DEFINE W == U \ {h[U]}
    <3>1. CASE U = {} /\ U = T
      BY <3>1 DEF top
    <3>2. CASE U = {} /\ U # T
      BY <2>1, <3>2 DEF Recursive
    <3>3. CASE U # {} /\ U = T
      <4>1. f[U0] = g(U0)[U0]
        BY <2>2, <3>3
      <4>2. f[T] = top
        OBVIOUS
      <4> QED BY <3>3, <4>1, <4>2 DEF top
    <3>4. CASE U # {} /\ U # T
      <4>1. W \in SUBSET U /\ W \in SUBSET T /\ W # T /\ h[U] \in U
        BY <3>4
      <4>2. Recursive(g(U), U, base, h, G) /\ Recursive(g(W), W, base, h, G)
        BY <2>1, <3>4, <4>1
      <4>3. g(W)[W] = g(U)[W]
        <5>1. U \in SUBSET S /\ W \in SUBSET S /\ W \subseteq U
          BY <4>1
        <5> HIDE DEF W
        <5> QED BY <4>2, <5>1, RecursionUnique
      <4>4. f[U] = g(U)[U] /\ f[W] = g(W)[W]
        BY <3>4, <4>1
      <4>5. g(U)[U] = G[<<h[U], g(U)[W]>>]
        BY <3>4, <4>2 DEF Recursive
      <4> QED BY <3>4, <4>3, <4>4, <4>5
    <3> QED BY <3>1, <3>2, <3>3, <3>4
  <2> HIDE DEF f
  <2>6. Recursive(f, T, base, h, G)
    BY <2>5 DEF Recursive
  <2> QED BY <2>4, <2>6
<1>2. \A T \in SUBSET S : T \in P
  <2> HIDE DEF P
  <2> QED BY <1>1, SubsetInduction
<1> QED BY <1>2

----------------------------------------------------------------------------
(* Sums over finite sets.                                                  *)

One(T) == CHOOSE x \in T : TRUE

(* The partial sums of the fold that SumFunctionOnSet is.                  *)
LEMMA SumUnfolds ==
    ASSUME NEW S, IsFiniteSet(S), NEW fun, \A x \in S : fun[x] \in Int
    PROVE  \E f \in [SUBSET S -> Int] :
              /\ f[S] = SumFunctionOnSet(fun, S)
              /\ \A T \in SUBSET S :
                    f[T] = IF T = {} THEN 0 ELSE fun[One(T)] + f[T \ {One(T)}]
<1> DEFINE h == [T \in SUBSET S |-> One(T)]
           G == [xv \in S \X Int |-> fun[xv[1]] + xv[2]]
           Eq(f) == f = [s \in SUBSET S |->
                           IF s = {} THEN 0 ELSE fun[One(s)] + f[s \ {One(s)}]]
           iter == CHOOSE f : Eq(f)
<1>1. \A T \in SUBSET S : T # {} => h[T] = One(T) /\ One(T) \in T
  BY DEF One
<1>2. \A x \in S, v \in Int : G[<<x, v>>] = fun[x] + v /\ G[<<x, v>>] \in Int
  OBVIOUS
<1> HIDE DEF h, G
<1>3. PICK f \in [SUBSET S -> Int] : Recursive(f, S, 0, h, G)
  <2>1. IsFiniteSet(S) /\ 0 \in Int
    OBVIOUS
  <2>2. \A T \in SUBSET S : T # {} => h[T] \in T
    BY <1>1
  <2>3. \A x \in S, v \in Int : G[<<x, v>>] \in Int
    BY <1>2
  <2> QED BY ONLY <2>1, <2>2, <2>3, RecursionExists
<1>4. ASSUME NEW T \in SUBSET S
      PROVE  f[T] = IF T = {} THEN 0 ELSE fun[One(T)] + f[T \ {One(T)}]
  <2>1. CASE T = {}
    BY <1>3, <2>1 DEF Recursive
  <2>2. CASE T # {}
    <3>1. One(T) \in S /\ f[T \ {One(T)}] \in Int
      BY <1>1, <1>3, <2>2
    <3>2. f[T] = G[<<One(T), f[T \ {One(T)}]>>]
      BY <1>1, <1>3, <2>2 DEF Recursive
    <3> QED BY <1>2, <2>2, <3>1, <3>2
  <2> QED BY <2>1, <2>2
<1>5. Eq(f)
  BY <1>3, <1>4
<1>6. Eq(iter)
  <2> HIDE DEF Eq
  <2> QED BY <1>5
<1>7. SumFunctionOnSet(fun, S) = iter[S]
  BY Zenon DEF SumFunctionOnSet, FoldFunctionOnSet, MapThenFoldSet, One
<1> HIDE DEF iter
<1>8. ASSUME NEW T \in SUBSET S
      PROVE  iter[T] = IF T = {} THEN 0 ELSE fun[One(T)] + iter[T \ {One(T)}]
  BY <1>6
<1>9. ASSUME NEW T \in SUBSET S PROVE iter[T] = f[T]
  <2> DEFINE P == {U \in SUBSET S : iter[U] = f[U]}
  <2>1. ASSUME NEW U \in SUBSET S, \A W \in SUBSET U : W # U => W \in P PROVE U \in P
    <3>1. CASE U = {}
      BY <1>4, <1>8, <3>1
    <3>2. CASE U # {}
      <4> DEFINE W == U \ {One(U)}
      <4>1. W \in SUBSET U /\ W # U
        BY <1>1, <3>2
      <4>2. iter[W] = f[W]
        BY <2>1, <4>1
      <4>3. iter[U] = fun[One(U)] + iter[W] /\ f[U] = fun[One(U)] + f[W]
        BY <1>4, <1>8, <3>2
      <4> QED BY <4>2, <4>3
    <3> QED BY <3>1, <3>2
  <2>2. \A U \in SUBSET S : U \in P
    <3> HIDE DEF P
    <3> QED BY <2>1, SubsetInduction
  <2> QED BY <2>2
<1>10. f[S] = SumFunctionOnSet(fun, S)
  BY <1>7, <1>9
<1> QED BY <1>4, <1>10

(* Any element may be taken off first.                                     *)
LEMMA SumRecursion ==
    ASSUME NEW S, IsFiniteSet(S), NEW fun, \A x \in S : fun[x] \in Int
    PROVE  \A T \in SUBSET S :
              /\ SumFunctionOnSet(fun, T) \in Int
              /\ SumFunctionOnSet(fun, T) =
                    IF T = {} THEN 0
                    ELSE fun[One(T)] + SumFunctionOnSet(fun, T \ {One(T)})
<1> DEFINE Sums(f, T) ==
             /\ f \in [SUBSET T -> Int]
             /\ \A U \in SUBSET T : f[U] = IF U = {} THEN 0 ELSE fun[One(U)] + f[U \ {One(U)}]
<1>1. ASSUME NEW T \in SUBSET S
      PROVE  \E f : Sums(f, T) /\ f[T] = SumFunctionOnSet(fun, T)
  <2>1. IsFiniteSet(T) /\ \A x \in T : fun[x] \in Int
    BY FS_Subset
  <2> QED BY <2>1, SumUnfolds
<1>2. ASSUME NEW T \in SUBSET S, T # {} PROVE One(T) \in T
  BY <1>2 DEF One
<1>3. ASSUME NEW T \in SUBSET S, NEW f, Sums(f, T), NEW V \in SUBSET T, NEW g, Sums(g, V)
      PROVE  f[V] = g[V]
  <2> DEFINE P == {U \in SUBSET V : f[U] = g[U]}
  <2>1. IsFiniteSet(V)
    BY FS_Subset
  <2>2. ASSUME NEW U \in SUBSET V, \A W \in SUBSET U : W # U => W \in P PROVE U \in P
    <3>1. CASE U = {}
      BY <1>3, <3>1
    <3>2. CASE U # {}
      <4> DEFINE W == U \ {One(U)}
      <4>1. W \in SUBSET U /\ W # U
        BY <1>2, <3>2
      <4>2. f[W] = g[W]
        BY <2>2, <4>1
      <4>3. f[U] = fun[One(U)] + f[W] /\ g[U] = fun[One(U)] + g[W]
        BY <1>3, <3>2
      <4> QED BY <4>2, <4>3
    <3> QED BY <3>1, <3>2
  <2>3. \A U \in SUBSET V : U \in P
    <3> HIDE DEF P
    <3> QED BY <2>1, <2>2, SubsetInduction
  <2> QED BY <2>3
<1>4. ASSUME NEW T \in SUBSET S
      PROVE  /\ SumFunctionOnSet(fun, T) \in Int
             /\ SumFunctionOnSet(fun, T) =
                    IF T = {} THEN 0
                    ELSE fun[One(T)] + SumFunctionOnSet(fun, T \ {One(T)})
  <2>1. PICK f : Sums(f, T) /\ f[T] = SumFunctionOnSet(fun, T)
    BY <1>1
  <2>2. SumFunctionOnSet(fun, T) \in Int
    BY <2>1
  <2>3. CASE T = {}
    <3>1. f[T] = 0
      BY <2>1, <2>3
    <3>2. SumFunctionOnSet(fun, T) = 0
      BY <2>1, <3>1
    <3> HIDE DEF Sums
    <3> QED BY <2>2, <2>3, <3>2
  <2>4. CASE T # {}
    <3> DEFINE U == T \ {One(T)}
    <3>1. U \in SUBSET T /\ U \in SUBSET S
      OBVIOUS
    <3>2. PICK g : Sums(g, U) /\ g[U] = SumFunctionOnSet(fun, U)
      BY <1>1, <3>1
    <3>3. f[U] = g[U]
      <4> HIDE DEF Sums, U
      <4> QED BY <1>3, <2>1, <3>1, <3>2
    <3>4. f[T] = fun[One(T)] + f[U]
      BY <2>1, <2>4
    <3> HIDE DEF Sums
    <3> QED BY <2>1, <2>2, <2>4, <3>2, <3>3, <3>4
  <2> QED BY <2>2, <2>3, <2>4
<1> QED BY <1>4

LEMMA SumSplit ==
    ASSUME NEW S, IsFiniteSet(S), NEW fun, \A x \in S : fun[x] \in Int, NEW x \in S
    PROVE  /\ SumFunctionOnSet(fun, S) \in Int /\ SumFunctionOnSet(fun, S \ {x}) \in Int
           /\ SumFunctionOnSet(fun, S) = fun[x] + SumFunctionOnSet(fun, S \ {x})
<1> DEFINE Sum(T) == SumFunctionOnSet(fun, T)
           P == {T \in SUBSET S : \A y \in T : Sum(T) = fun[y] + Sum(T \ {y})}
<1>1. \A T \in SUBSET S :
         Sum(T) \in Int /\ Sum(T) = IF T = {} THEN 0 ELSE fun[One(T)] + Sum(T \ {One(T)})
  BY SumRecursion
<1> HIDE DEF Sum
<1>2. ASSUME NEW T \in SUBSET S, \A U \in SUBSET T : U # T => U \in P PROVE T \in P
  <2>1. ASSUME NEW y \in T PROVE Sum(T) = fun[y] + Sum(T \ {y})
    <3>1. One(T) \in T
      BY DEF One
    <3>2. CASE y = One(T)
      BY <1>1, <3>2
    <3>3. CASE y # One(T)
      <4> DEFINE A == T \ {One(T)}
                 B == T \ {y}
                 C == A \ {y}
      <4>1. A \in SUBSET T /\ A # T /\ y \in A /\ B \in SUBSET T /\ B # T /\ One(T) \in B
        BY <3>1, <3>3
      <4>2. C = B \ {One(T)} /\ C \in SUBSET S
        OBVIOUS
      <4>3. Sum(A) = fun[y] + Sum(C)
        BY <1>2, <4>1
      <4>4. Sum(B) = fun[One(T)] + Sum(C)
        BY <1>2, <4>1, <4>2
      <4>5. Sum(T) = fun[One(T)] + Sum(A)
        BY <1>1
      <4>6. fun[y] \in Int /\ fun[One(T)] \in Int /\ Sum(C) \in Int
        BY <1>1, <3>1, <4>2
      <4> HIDE DEF A, B, C
      <4>7. Sum(T) = fun[y] + Sum(B)
        BY <4>3, <4>4, <4>5, <4>6
      <4> QED BY <4>7 DEF B
    <3> QED BY <3>2, <3>3
  <2> QED BY <2>1
<1>3. \A T \in SUBSET S : T \in P
  <2> HIDE DEF P
  <2> QED BY <1>2, SubsetInduction
<1>4. Sum(S) = fun[x] + Sum(S \ {x}) /\ Sum(S) \in Int /\ Sum(S \ {x}) \in Int
  BY <1>1, <1>3
<1> QED BY <1>4 DEF Sum

LEMMA SumOfNone ==
    ASSUME NEW fun
    PROVE  SumFunctionOnSet(fun, {}) = 0
<1> DEFINE S == {}
<1>1. IsFiniteSet(S) /\ (\A x \in S : fun[x] \in Int) /\ S \in SUBSET S
  BY FS_EmptySet
<1> HIDE DEF S
<1>2. SumFunctionOnSet(fun, S) =
         IF S = {} THEN 0 ELSE fun[One(S)] + SumFunctionOnSet(fun, S \ {One(S)})
  BY <1>1, SumRecursion
<1>3. SumFunctionOnSet(fun, S) = 0
  BY <1>2 DEF S
<1> QED BY <1>3 DEF S

LEMMA SumIsInt ==
    ASSUME NEW S, IsFiniteSet(S), NEW fun, \A x \in S : fun[x] \in Int
    PROVE  SumFunctionOnSet(fun, S) \in Int
BY SumRecursion

(* Term by term.                                                           *)
LEMMA SumSame ==
    ASSUME NEW S, IsFiniteSet(S), NEW f, NEW g,
           \A x \in S : f[x] \in Int /\ g[x] = f[x]
    PROVE  SumFunctionOnSet(g, S) = SumFunctionOnSet(f, S)
<1> DEFINE F(T) == SumFunctionOnSet(f, T)
           G(T) == SumFunctionOnSet(g, T)
           P == {T \in SUBSET S : F(T) = G(T)}
<1>1. \A T \in SUBSET S : F(T) = IF T = {} THEN 0 ELSE f[One(T)] + F(T \ {One(T)})
  BY SumRecursion
<1>2. \A T \in SUBSET S : G(T) = IF T = {} THEN 0 ELSE g[One(T)] + G(T \ {One(T)})
  <2>1. \A x \in S : g[x] \in Int
    OBVIOUS
  <2> QED BY <2>1, SumRecursion
<1> HIDE DEF F, G
<1>3. ASSUME NEW T \in SUBSET S, \A U \in SUBSET T : U # T => U \in P PROVE T \in P
  <2>1. CASE T = {}
    BY <1>1, <1>2, <2>1
  <2>2. CASE T # {}
    <3> DEFINE U == T \ {One(T)}
    <3>1. One(T) \in T
      BY <2>2 DEF One
    <3>2. U \in SUBSET T /\ U # T
      BY <3>1
    <3>3. F(U) = G(U)
      BY <1>3, <3>2
    <3>4. F(T) = f[One(T)] + F(U) /\ G(T) = g[One(T)] + G(U) /\ f[One(T)] = g[One(T)]
      BY <1>1, <1>2, <2>2, <3>1
    <3> QED BY <3>3, <3>4
  <2> QED BY <2>1, <2>2
<1>4. \A T \in SUBSET S : T \in P
  <2> HIDE DEF P
  <2> QED BY <1>3, SubsetInduction
<1> QED BY <1>4 DEF F, G

(* One term changes.                                                       *)
LEMMA SumChange ==
    ASSUME NEW S, IsFiniteSet(S), NEW f, NEW g, NEW x \in S,
           \A y \in S : f[y] \in Int /\ g[y] \in Int,
           \A y \in S : y # x => g[y] = f[y]
    PROVE  SumFunctionOnSet(g, S) = SumFunctionOnSet(f, S) - f[x] + g[x]
<1> DEFINE R == S \ {x}
<1>1. IsFiniteSet(R) /\ \A y \in R : f[y] \in Int /\ g[y] = f[y]
  BY FS_Subset
<1>2. SumFunctionOnSet(g, R) = SumFunctionOnSet(f, R)
  <2> HIDE DEF R
  <2> QED BY <1>1, SumSame
<1>3. /\ SumFunctionOnSet(f, R) \in Int
      /\ SumFunctionOnSet(f, S) = f[x] + SumFunctionOnSet(f, R)
      /\ SumFunctionOnSet(g, S) = g[x] + SumFunctionOnSet(g, R)
  BY SumSplit
<1> QED BY <1>2, <1>3

(* Bounds on a sum of natural numbers.                                     *)
LEMMA SumWithin ==
    ASSUME NEW S, IsFiniteSet(S), NEW fun, NEW b \in Nat,
           \A x \in S : fun[x] \in Nat /\ fun[x] <= b
    PROVE  /\ SumFunctionOnSet(fun, S) \in Nat
           /\ SumFunctionOnSet(fun, S) <= Cardinality(S) * b
<1> DEFINE Sum(T) == SumFunctionOnSet(fun, T)
           P == {T \in SUBSET S : Sum(T) \in Nat /\ Sum(T) <= Cardinality(T) * b}
<1>1. \A T \in SUBSET S :
         /\ Sum(T) \in Int
         /\ \A x \in T : Sum(T) = fun[x] + Sum(T \ {x})
  <2>1. ASSUME NEW T \in SUBSET S
        PROVE  Sum(T) \in Int /\ \A x \in T : Sum(T) = fun[x] + Sum(T \ {x})
    <3>1. IsFiniteSet(T) /\ \A x \in T : fun[x] \in Int
      BY FS_Subset
    <3> QED BY <3>1, SumSplit, SumIsInt
  <2> QED BY <2>1
<1>2. Sum({}) = 0
  BY SumOfNone
<1> HIDE DEF Sum
<1>3. {} \in P
  BY <1>2, FS_EmptySet
<1>4. ASSUME NEW T \in SUBSET S, NEW x \in T, T \ {x} \in P PROVE T \in P
  <2> DEFINE U == T \ {x}
             n == Cardinality(U)
  <2>1. Sum(T) = fun[x] + Sum(U) /\ Sum(U) \in Nat /\ Sum(U) <= n * b /\ fun[x] \in 0..b
    BY <1>1, <1>4
  <2>2. IsFiniteSet(T) /\ IsFiniteSet(U)
    BY FS_Subset
  <2>3. Cardinality(T) = n + 1 /\ n \in Nat
    <3>1. n \in Nat
      BY <2>2, FS_CardinalityType
    <3>2. Cardinality(U) = Cardinality(T) - 1 /\ Cardinality(T) \in Nat
      BY <2>2, FS_RemoveElement, FS_CardinalityType
    <3> QED BY <3>1, <3>2
  <2> HIDE DEF n, U
  <2>4. (n + 1) * b = n * b + b /\ n * b \in Nat
    BY <2>3
  <2>5. Sum(T) \in Nat /\ Sum(T) <= (n + 1) * b
    <3> DEFINE m == n * b
    <3>1. m \in Nat /\ Sum(U) <= m
      BY <2>1, <2>4
    <3> HIDE DEF m
    <3>2. Sum(T) \in Nat /\ Sum(T) <= m + b
      BY <2>1, <3>1
    <3> QED BY <2>4, <3>2 DEF m
  <2> QED BY <2>3, <2>5
<1>5. \A T \in SUBSET S : T \in P
  <2> HIDE DEF P
  <2> QED BY <1>3, <1>4, ElementInduction
<1> QED BY <1>5 DEF Sum

LEMMA SumGrows ==
    ASSUME NEW S, IsFiniteSet(S), NEW fun, \A x \in S : fun[x] \in Nat,
           NEW T \in SUBSET S
    PROVE  /\ SumFunctionOnSet(fun, T) \in Nat /\ SumFunctionOnSet(fun, S) \in Nat
           /\ SumFunctionOnSet(fun, T) <= SumFunctionOnSet(fun, S)
<1> DEFINE Sum(U) == SumFunctionOnSet(fun, U)
           D == S \ T
           P == {U \in SUBSET D : Sum(T \cup U) \in Nat /\ Sum(T) <= Sum(T \cup U)}
           Q == {U \in SUBSET S : Sum(U) \in Nat}
<1>1. \A U \in SUBSET S :
         /\ Sum(U) \in Int
         /\ \A x \in U : Sum(U) = fun[x] + Sum(U \ {x})
  <2>1. ASSUME NEW U \in SUBSET S
        PROVE  Sum(U) \in Int /\ \A x \in U : Sum(U) = fun[x] + Sum(U \ {x})
    <3>1. IsFiniteSet(U) /\ \A x \in U : fun[x] \in Int
      BY FS_Subset
    <3> QED BY <3>1, SumSplit, SumIsInt
  <2> QED BY <2>1
<1>2. Sum({}) = 0
  BY SumOfNone
<1> HIDE DEF Sum
<1>3. \A U \in SUBSET S : U \in Q
  <2>1. {} \in Q
    BY <1>2
  <2>2. ASSUME NEW U \in SUBSET S, NEW x \in U, U \ {x} \in Q PROVE U \in Q
    BY <1>1, <2>2
  <2> HIDE DEF Q
  <2> QED BY <2>1, <2>2, ElementInduction
<1>4. Sum(T) \in Nat
  BY <1>3
<1>5. IsFiniteSet(D)
  BY FS_Subset
<1>6. {} \in P
  BY <1>4
<1>7. ASSUME NEW U \in SUBSET D, NEW x \in U, U \ {x} \in P PROVE U \in P
  <2> DEFINE A == T \cup U
             B == T \cup (U \ {x})
  <2>1. A \in SUBSET S /\ x \in A /\ A \ {x} = B /\ fun[x] \in Nat
    OBVIOUS
  <2>2. Sum(A) = fun[x] + Sum(B)
    <3> HIDE DEF A, B
    <3> QED BY <1>1, <2>1
  <2>3. Sum(B) \in Nat /\ Sum(T) <= Sum(B)
    BY <1>7
  <2>4. Sum(A) \in Nat /\ Sum(T) <= Sum(A)
    <3> HIDE DEF A, B
    <3> QED BY <1>4, <2>1, <2>2, <2>3
  <2> QED BY <2>4
<1>8. \A U \in SUBSET D : U \in P
  <2> HIDE DEF P, D
  <2> QED BY <1>5, <1>6, <1>7, ElementInduction
<1>9. T \cup D = S
  OBVIOUS
<1>10. Sum(S) \in Nat /\ Sum(T) <= Sum(S)
  BY <1>8, <1>9
<1> QED BY <1>4, <1>10 DEF Sum

----------------------------------------------------------------------------
(* Extreme elements, and folds over sequences.                             *)

LEMMA LeastOf ==
    ASSUME NEW T, T \subseteq Nat, T # {}
    PROVE  \E m \in T : \A n \in T : m <= n
<1> DEFINE U == {1..n : n \in T}
<1>1. U \subseteq FiniteSubsetsOf(Nat) /\ U # {}
  <2>1. \A n \in T : IsFiniteSet(1..n) /\ 1..n \subseteq Nat
    BY FS_Interval
  <2> QED BY <2>1 DEF FiniteSubsetsOf
<1>2. PICK x \in U : \A y \in U : ~(<<y, x>> \in StrictSubsetOrdering(Nat))
  BY <1>1, FS_StrictSubsetOrderingWellFounded, WFMin
<1>3. PICK m \in T : x = 1..m
  BY <1>2
<1>4. ASSUME NEW n \in T, n < m PROVE FALSE
  <2>1. m \in 1..m /\ m \notin 1..n /\ 1..n \subseteq 1..m
    BY <1>4
  <2>2. 1..n \in SUBSET Nat /\ 1..m \in SUBSET Nat /\ 1..n # 1..m
    BY <2>1
  <2>3. <<1..n, 1..m>> \in StrictSubsetOrdering(Nat)
    BY <2>1, <2>2 DEF StrictSubsetOrdering
  <2> QED BY <1>2, <1>3, <2>3
<1> QED BY <1>4

LEMMA LargestOf ==
    ASSUME NEW n \in Nat, NEW S, S \subseteq 1..n, S # {}
    PROVE  Max(S) \in S /\ \A m \in S : m <= Max(S)
<1> DEFINE T == {n - m : m \in S}
<1>1. T \subseteq Nat /\ T # {}
  OBVIOUS
<1>2. PICK d \in T : \A c \in T : d <= c
  BY <1>1, LeastOf
<1>3. PICK x \in S : d = n - x
  BY <1>2
<1>4. ASSUME NEW m \in S PROVE x >= m
  <2>1. n - m \in T /\ x \in 1..n /\ m \in 1..n
    OBVIOUS
  <2> HIDE DEF T
  <2> QED BY <1>2, <1>3, <2>1
<1>5. Max(S) \in S /\ \A m \in S : Max(S) >= m
  BY <1>4, Zenon DEF Max
<1>6. \A m \in S : m \in Int
  OBVIOUS
<1> QED BY <1>5, <1>6

(* The states of a fold that takes the last element off first: g[i] is what *)
(* the first i elements come to.                                            *)
LastOf(n) == [T \in SUBSET (1..n) |-> Max(T)]

StepsIn(n, V, G) == \A i \in 1..n, v \in V : G[<<i, v>>] \in V

FoldRuns(f, g, n, V, base, G) ==
    /\ f \in [SUBSET (1..n) -> V] /\ Recursive(f, 1..n, base, LastOf(n), G)
    /\ g \in [0..n -> V] /\ g[0] = base /\ \A i \in 1..n : g[i] = G[<<i, g[i - 1]>>]
    /\ f[1..n] = g[n]

LEMMA FoldsLeft ==
    ASSUME NEW n \in Nat, NEW V, NEW base \in V, NEW G, StepsIn(n, V, G)
    PROVE  \E f, g : FoldRuns(f, g, n, V, base, G)
<1> DEFINE S == 1..n
           last == LastOf(n)
<1>1. IsFiniteSet(S) /\ S \in SUBSET S
  BY FS_Interval
<1>2. \A T \in SUBSET S : T # {} => last[T] \in T
  BY LargestOf DEF LastOf
<1>3. \A x \in S, v \in V : G[<<x, v>>] \in V
  BY DEF StepsIn
<1>4. \A i \in 1..n : last[1..i] = i
  <2>1. ASSUME NEW i \in 1..n PROVE last[1..i] = i
    <3>1. 1..i \subseteq 1..n /\ 1..i # {} /\ i \in 1..i
      OBVIOUS
    <3>2. Max(1..i) \in 1..i /\ i <= Max(1..i)
      BY <3>1, LargestOf
    <3> QED BY <3>1, <3>2 DEF LastOf
  <2> QED BY <2>1
<1>5. \A i \in 1..n : /\ 1..i \in SUBSET S /\ 1..i # {} /\ (1..i) \ {i} = 1..i - 1
                      /\ i - 1 \in 0..n
  OBVIOUS
<1>6. 1..0 = {} /\ \A i \in 0..n : 1..i \in SUBSET S
  OBVIOUS
<1> HIDE DEF last
<1>7. PICK f \in [SUBSET S -> V] : Recursive(f, S, base, last, G)
  <2> HIDE DEF S
  <2> QED BY <1>1, <1>2, <1>3, RecursionExists
<1> DEFINE g == [i \in 0..n |-> f[1..i]]
<1>8. g \in [0..n -> V]
  BY <1>6, <1>7
<1>9. g[0] = base
  <2>1. f[{}] = base
    BY <1>7 DEF Recursive
  <2>2. g[0] = f[1..0]
    OBVIOUS
  <2> QED BY <1>6, <2>1, <2>2
<1>10. ASSUME NEW i \in 1..n PROVE g[i] = G[<<i, g[i - 1]>>]
  <2>1. f[1..i] = G[<<i, f[1..i - 1]>>]
    BY <1>4, <1>5, <1>7 DEF Recursive
  <2>2. g[i] = f[1..i] /\ g[i - 1] = f[1..i - 1]
    BY <1>5
  <2> QED BY <2>1, <2>2
<1>11. f[S] = g[n]
  OBVIOUS
<1> HIDE DEF g
<1>12. f \in [SUBSET S -> V] /\ Recursive(f, S, base, last, G)
  BY <1>7
<1> QED BY <1>8, <1>9, <1>10, <1>11, <1>12 DEF FoldRuns, last

(* A function that runs from a base by a step exists.                      *)
Run(g, n, V, base, G) ==
    g \in [0..n -> V] /\ g[0] = base /\ \A i \in 1..n : g[i] = G[<<i, g[i - 1]>>]

LEMMA RunExists ==
    ASSUME NEW n \in Nat, NEW V, NEW base \in V, NEW G, StepsIn(n, V, G)
    PROVE  \E g : Run(g, n, V, base, G)
<1>1. PICK f, g : FoldRuns(f, g, n, V, base, G)
  BY FoldsLeft
<1> QED BY <1>1 DEF FoldRuns, Run

(* What a left fold keeps, it keeps up to the end.                          *)
LEMMA StepsReach ==
    ASSUME NEW n \in Nat, NEW P, 0 \in P,
           \A i \in 1..n : i - 1 \in P => i \in P
    PROVE  \A i \in 0..n : i \in P
<1> SUFFICES ASSUME NEW j \in 0..n, j \notin P PROVE FALSE
  OBVIOUS
<1> DEFINE Bad == {i \in 0..n : i \notin P}
<1>1. Bad \subseteq Nat /\ Bad # {}
  OBVIOUS
<1>2. PICK m \in Bad : \A i \in Bad : m <= i
  <2> HIDE DEF Bad
  <2> QED BY <1>1, LeastOf
<1>3. m \in 1..n /\ m - 1 \in 0..n /\ m - 1 \notin Bad
  BY <1>2
<1> QED BY <1>2, <1>3

(* SetToSeq lists a finite set.                                            *)
LEMMA SetToSeqLists ==
    ASSUME NEW S, IsFiniteSet(S)
    PROVE  SetToSeq(S) \in Seq(S) /\ ToSet(SetToSeq(S)) = S
<1> DEFINE n == Cardinality(S)
           f == SetToSeq(S)
<1>1. n \in Nat /\ ExistsBijection(1..n, S)
  BY FS_CardinalityType
<1>2. PICK g \in Injection(1..n, S) : TRUE
  BY <1>1 DEF ExistsBijection, Bijection
<1>3. g \in [1..n -> S] /\ IsInjective(g)
  BY <1>2 DEF Injection
<1>4. f \in [1..n -> S] /\ IsInjective(f)
  BY <1>3, Zenon DEF SetToSeq
<1> HIDE DEF f
<1>5. f \in Injection(1..n, S)
  BY <1>4 DEF Injection
<1>6. Cardinality(1..n) = n
  BY <1>1, FS_Interval
<1>7. f \in Surjection(1..n, S)
  BY <1>5, <1>6, FS_Injection
<1>8. ToSet(f) = S
  BY <1>4, <1>7 DEF ToSet, Surjection
<1>9. f \in Seq(S)
  BY <1>1, <1>4, SeqDef
<1> QED BY <1>8, <1>9 DEF f

(* Each of the listings of a finite set has all of it.                     *)
LEMMA SetToSeqsList ==
    ASSUME NEW S, IsFiniteSet(S), NEW f \in SetToSeqs(S)
    PROVE  f \in [1..Cardinality(S) -> S] /\ f \in Seq(S)
           /\ Len(f) = Cardinality(S) /\ \A x \in S : \E i \in 1..Len(f) : f[i] = x
<1> DEFINE n == Cardinality(S)
<1>1. n \in Nat
  BY FS_CardinalityType
<1>2. f \in [1..n -> S] /\ \A i, j \in 1..n : i # j => f[i] # f[j]
  BY DEF SetToSeqs
<1>3. f \in Injection(1..n, S)
  BY <1>2 DEF Injection, IsInjective
<1>4. Cardinality(1..n) = n
  BY <1>1, FS_Interval
<1>5. f \in Surjection(1..n, S)
  BY <1>3, <1>4, FS_Injection
<1> HIDE DEF n
<1>6. f \in Seq(S)
  BY <1>1, <1>2, SeqDef
<1>7. Len(f) = n
  BY <1>1, <1>2, <1>6, LenProperties
<1>8. \A x \in S : \E i \in 1..n : f[i] = x
  BY <1>2, <1>5 DEF Surjection
<1> QED BY <1>2, <1>6, <1>7, <1>8 DEF n

=============================================================================

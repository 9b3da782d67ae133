----------------------------- MODULE FoldTheorems -----------------------------
(***************************************************************************)
(* Facts about the folds the models compute with: a bag of bytes or of     *)
(* attempts that is added up, and a text whose names are taken in order.   *)
(*                                                                         *)
(* MapThenFoldSet is a recursive function on the subsets of a set.  That   *)
(* there is such a function is FoldExists; whatever it computes is proved  *)
(* by looking at a smallest set where it would not hold.                   *)
(***************************************************************************)
EXTENDS Integers, FiniteSetsExt, FiniteSetTheorems, WellFoundedInduction, TLAPS

(* A nonempty set of subsets of a finite set has one with none inside it. *)
LEMMA SmallestSubset ==
    ASSUME NEW S, IsFiniteSet(S), NEW D, D \subseteq SUBSET S, D # {}
    PROVE  \E T \in D : \A U \in D : U \subseteq T => U = T
<1>1. IsWellFoundedOn(StrictSubsetOrdering(S), SUBSET S)
  <2>1. FiniteSubsetsOf(S) = SUBSET S
    BY FS_FiniteSubsetsOfFinite
  <2>2. IsWellFoundedOn(StrictSubsetOrdering(S), FiniteSubsetsOf(S))
    BY FS_StrictSubsetOrderingWellFounded
  <2> QED BY <2>1, <2>2
<1>2. PICK T \in D : \A U \in D : ~(<<U, T>> \in StrictSubsetOrdering(S))
  BY <1>1, WFMin
<1>3. ASSUME NEW U \in D, U \subseteq T, U # T PROVE FALSE
  <2>1. <<U, T>> \in StrictSubsetOrdering(S)
    BY <1>3 DEF StrictSubsetOrdering
  <2> QED BY <1>2, <2>1
<1> QED BY <1>3

(* A nonempty set of natural numbers has a least one. *)
LEMMA LeastNumber ==
    ASSUME NEW D, D \subseteq Nat, D # {}
    PROVE  \E n \in D : \A m \in D : n <= m
<1>1. PICK n \in D : \A m \in D : ~(<<m, n>> \in OpToRel(<, Nat))
  BY NatLessThanWellFounded, WFMin
<1>2. ASSUME NEW m \in D, m < n PROVE FALSE
  BY <1>1, <1>2 DEF OpToRel
<1> QED BY <1>2

(* The recursive function of a fold: base for the empty set, else a step with *)
(* the element picked and the value of the set without it.                    *)
IsFold(g, S, V, base, pick, step) ==
    /\ g \in [SUBSET S -> V]
    /\ \A T \in SUBSET S :
        g[T] = IF T = {} THEN base ELSE step[<<pick[T], g[T \ {pick[T]}]>>]

(* There is such a function. *)
LEMMA FoldExists ==
    ASSUME NEW S, IsFiniteSet(S), NEW V, NEW base \in V,
           NEW pick, \A T \in SUBSET S : T # {} => pick[T] \in T,
           NEW step \in [S \X V -> V]
    PROVE  \E g : IsFold(g, S, V, base, pick, step)
<1> DEFINE Small(n) == {T \in SUBSET S : Cardinality(T) <= n}
           Value(g, T) == IF T = {} THEN base ELSE step[<<pick[T], g[T \ {pick[T]}]>>]
           Solves(g, n) == g \in [Small(n) -> V] /\ \A T \in Small(n) : g[T] = Value(g, T)
           Unsolved == {n \in Nat : ~\E g : Solves(g, n)}
<1>s. \A T \in SUBSET S :
        /\ IsFiniteSet(T) /\ Cardinality(T) \in Nat
        /\ Cardinality(T) = 0 => T = {}
        /\ T # {} => T \ {pick[T]} \in SUBSET S
                     /\ Cardinality(T \ {pick[T]}) = Cardinality(T) - 1
        /\ Cardinality(T) <= Cardinality(S)
  BY FS_Subset, FS_CardinalityType, FS_EmptySet, FS_RemoveElement
<1>1. \E g : Solves(g, 0)
  <2> DEFINE g == [T \in Small(0) |-> base]
  <2>1. ASSUME NEW T \in Small(0) PROVE T = {} /\ g[T] = Value(g, T)
    <3>1. T \in SUBSET S /\ Cardinality(T) <= 0 /\ Cardinality(T) \in Nat
      BY <1>s
    <3>2. T = {}
      <4>1. Cardinality(T) = 0
        BY <3>1
      <4> QED BY <1>s, <3>1, <4>1
    <3> QED BY <3>2
  <2>2. g \in [Small(0) -> V]
    OBVIOUS
  <2>3. Solves(g, 0)
    BY <2>1, <2>2
  <2> QED BY <2>3
<1>2. ASSUME NEW n \in Nat, NEW g, Solves(g, n) PROVE \E h : Solves(h, n + 1)
  <2> DEFINE h == [T \in Small(n + 1) |-> Value(g, T)]
  <2>0. g \in [Small(n) -> V] /\ \A T \in Small(n) : g[T] = Value(g, T)
    BY <1>2
  <2>1. ASSUME NEW T \in Small(n + 1), T # {} PROVE pick[T] \in S /\ T \ {pick[T]} \in Small(n)
    <3>1. T \in SUBSET S /\ Cardinality(T) <= n + 1 /\ Cardinality(T) \in Nat
      BY <1>s
    <3>2. Cardinality(T \ {pick[T]}) <= n /\ T \ {pick[T]} \in SUBSET S
      BY <1>s, <2>1, <3>1
    <3> QED BY <2>1, <3>1, <3>2
  <2>2. ASSUME NEW T \in Small(n + 1) PROVE Value(g, T) \in V
    <3>1. CASE T = {}
      BY <3>1
    <3>2. CASE T # {}
      <4>1. pick[T] \in S /\ g[T \ {pick[T]}] \in V
        BY <2>0, <2>1, <3>2
      <4> QED BY <3>2, <4>1
    <3> QED BY <3>1, <3>2
  <2>3. ASSUME NEW T \in Small(n) PROVE T \in Small(n + 1) /\ h[T] = g[T]
    <3>1. T \in SUBSET S /\ Cardinality(T) <= n /\ Cardinality(T) \in Nat
      BY <1>s
    <3>2. T \in Small(n + 1)
      BY <3>1
    <3> QED BY <2>0, <3>2
  <2>4. ASSUME NEW T \in Small(n + 1) PROVE h[T] = Value(h, T)
    <3>1. CASE T = {}
      BY <3>1
    <3>2. CASE T # {}
      <4>1. h[T \ {pick[T]}] = g[T \ {pick[T]}]
        BY <2>1, <2>3, <3>2
      <4>2. h[T] = step[<<pick[T], g[T \ {pick[T]}]>>]
        BY <3>2
      <4> QED BY <3>2, <4>1, <4>2
    <3> QED BY <3>1, <3>2
  <2>5. h \in [Small(n + 1) -> V]
    BY <2>2
  <2>6. Solves(h, n + 1)
    BY <2>4, <2>5
  <2> QED BY <2>6
<1>3. Unsolved = {}
  <2> SUFFICES ASSUME Unsolved # {} PROVE FALSE
    OBVIOUS
  <2>1. PICK n \in Unsolved : \A m \in Unsolved : n <= m
    <3> HIDE DEF Solves
    <3> QED BY LeastNumber
  <2> HIDE DEF Solves
  <2>2. n # 0 /\ n - 1 \in Nat /\ n - 1 \notin Unsolved
    BY <1>1, <2>1
  <2>3. PICK g : Solves(g, n - 1)
    BY <2>2
  <2>4. \E h : Solves(h, n)
    BY <1>2, <2>2, <2>3
  <2> QED BY <2>1, <2>4
<1>4. PICK g : Solves(g, Cardinality(S))
  <2> HIDE DEF Solves
  <2> QED BY <1>3, <1>s
<1>5. Small(Cardinality(S)) = SUBSET S
  BY <1>s
<1> QED BY <1>4, <1>5 DEF IsFold

-----------------------------------------------------------------------------
(* Sums: MapThenSumSet, which takes the elements in an order of its own. *)

SumOf(f, S) == MapThenSumSet(LAMBDA x : f[x], S)

Pick(T) == CHOOSE x \in T : TRUE

(* The recursive function behind a sum. *)
SumsUp(f, S, g) ==
    /\ g \in [SUBSET S -> Nat]
    /\ \A T \in SUBSET S : g[T] = IF T = {} THEN 0 ELSE f[Pick(T)] + g[T \ {Pick(T)}]

(* There is one, and the sum is its value. *)
LEMMA SumFold ==
    ASSUME NEW S, IsFiniteSet(S), NEW f, \A x \in S : f[x] \in Nat
    PROVE  \E g : SumsUp(f, S, g) /\ SumOf(f, S) = g[S]
<1> DEFINE pick == [T \in SUBSET S |-> Pick(T)]
           step == [p \in S \X Nat |-> f[p[1]] + p[2]]
           Sums(g) == g = [T \in SUBSET S |-> IF T = {} THEN 0
                                              ELSE f[Pick(T)] + g[T \ {Pick(T)}]]
<1>1. \A T \in SUBSET S : T # {} => Pick(T) \in T
  BY DEF Pick
<1>2. \E g : IsFold(g, S, Nat, 0, pick, step)
  <2>1. \A T \in SUBSET S : T # {} => pick[T] \in T
    BY <1>1
  <2>2. step \in [S \X Nat -> Nat] /\ 0 \in Nat
    OBVIOUS
  <2> HIDE DEF pick, step
  <2> QED BY <2>1, <2>2, FoldExists
<1>3. PICK g \in [SUBSET S -> Nat] : \A T \in SUBSET S :
        g[T] = IF T = {} THEN 0 ELSE step[<<pick[T], g[T \ {pick[T]}]>>]
  BY <1>2 DEF IsFold
<1>4. ASSUME NEW T \in SUBSET S
      PROVE  g[T] = IF T = {} THEN 0 ELSE f[Pick(T)] + g[T \ {Pick(T)}]
  <2>1. T # {} => Pick(T) \in S /\ g[T \ {Pick(T)}] \in Nat
    BY <1>1
  <2> QED BY <1>3, <2>1
<1>5. Sums(g)
  BY <1>4
<1>6. DEFINE it == CHOOSE it : Sums(it)
<1>7. Sums(it)
  <2> HIDE DEF Sums
  <2> QED BY <1>5
<1>8. SumOf(f, S) = it[S]
  BY DEF SumOf, MapThenSumSet, MapThenFoldSet, Pick
<1> HIDE DEF it
<1>9. \A T \in SUBSET S : it[T] = IF T = {} THEN 0 ELSE f[Pick(T)] + it[T \ {Pick(T)}]
  BY <1>7
<1>10. \A T \in SUBSET S : it[T] = g[T]
  <2> DEFINE D == {T \in SUBSET S : it[T] # g[T]}
  <2> SUFFICES ASSUME D # {} PROVE FALSE
    OBVIOUS
  <2>1. PICK T \in D : \A U \in D : U \subseteq T => U = T
    <3>1. D \subseteq SUBSET S
      OBVIOUS
    <3> HIDE DEF D
    <3> QED BY <3>1, SmallestSubset
  <2>2. T # {} /\ Pick(T) \in T
    BY <1>1, <1>4, <1>9
  <2>3. it[T \ {Pick(T)}] = g[T \ {Pick(T)}]
    BY <2>1, <2>2
  <2> QED BY <1>4, <1>9, <2>2, <2>3
<1>11. SumsUp(f, S, it)
  <2>1. it \in [SUBSET S -> Nat]
    BY <1>7, <1>10
  <2> QED BY <2>1, <1>9 DEF SumsUp
<1> QED BY <1>8, <1>11

(* What a sum over a set computes for a smaller one is the sum over it. *)
LEMMA SumsAgree ==
    ASSUME NEW S, IsFiniteSet(S), NEW f, NEW g, SumsUp(f, S, g), \A x \in S : f[x] \in Nat
    PROVE  \A T \in SUBSET S : SumOf(f, T) = g[T]
<1> SUFFICES ASSUME NEW T \in SUBSET S PROVE SumOf(f, T) = g[T]
  OBVIOUS
<1>1. IsFiniteSet(T)
  BY FS_Subset
<1>2. PICK h : SumsUp(f, T, h) /\ SumOf(f, T) = h[T]
  BY <1>1, SumFold
<1> DEFINE D == {U \in SUBSET T : h[U] # g[U]}
<1>3. D = {}
  <2> SUFFICES ASSUME D # {} PROVE FALSE
    OBVIOUS
  <2>1. PICK U \in D : \A W \in D : W \subseteq U => W = U
    <3>1. D \subseteq SUBSET T
      OBVIOUS
    <3> HIDE DEF D
    <3> QED BY <1>1, <3>1, SmallestSubset
  <2>2. U \in SUBSET T /\ U \in SUBSET S /\ h[U] # g[U]
    OBVIOUS
  <2>3. U # {} /\ Pick(U) \in U
    BY <1>2, <2>2 DEF SumsUp, Pick
  <2>4. h[U \ {Pick(U)}] = g[U \ {Pick(U)}]
    BY <2>1, <2>2, <2>3
  <2> QED BY <1>2, <2>2, <2>3, <2>4 DEF SumsUp
<1> QED BY <1>2, <1>3

(* A sum may begin with any element. *)
LEMMA SumRemove ==
    ASSUME NEW S, IsFiniteSet(S), NEW f, \A x \in S : f[x] \in Nat, NEW x \in S
    PROVE  SumOf(f, S) = f[x] + SumOf(f, S \ {x})
<1>1. PICK g : SumsUp(f, S, g)
  BY SumFold
<1>2. \A T \in SUBSET S : SumOf(f, T) = g[T]
  BY <1>1, SumsAgree
<1> DEFINE Begins(T) == \A z \in T : g[T] = f[z] + g[T \ {z}]
           D == {T \in SUBSET S : ~Begins(T)}
<1>3. D = {}
  <2> SUFFICES ASSUME D # {} PROVE FALSE
    OBVIOUS
  <2>1. PICK T \in D : \A U \in D : U \subseteq T => U = T
    <3>1. D \subseteq SUBSET S
      OBVIOUS
    <3> HIDE DEF D
    <3> QED BY <3>1, SmallestSubset
  <2>2. PICK z \in T : g[T] # f[z] + g[T \ {z}]
    BY <2>1
  <2> DEFINE y == Pick(T)
  <2>3. T \in SUBSET S /\ y \in T /\ g[T] = f[y] + g[T \ {y}]
    BY <1>1, <2>2 DEF SumsUp, Pick
  <2>4. z # y
    BY <2>2, <2>3
  <2> HIDE DEF y
  <2>5. Begins(T \ {y}) /\ Begins(T \ {z})
    <3>1. T \ {y} \in SUBSET S /\ T \ {z} \in SUBSET S /\ T \ {y} # T /\ T \ {z} # T
      BY <2>2, <2>3
    <3> HIDE DEF Begins
    <3> QED BY <2>1, <3>1
  <2>6. g[T \ {y}] = f[z] + g[(T \ {y}) \ {z}]
    BY <2>2, <2>4, <2>5
  <2>7. g[T \ {z}] = f[y] + g[(T \ {z}) \ {y}]
    BY <2>3, <2>4, <2>5
  <2>8. (T \ {y}) \ {z} = (T \ {z}) \ {y}
    OBVIOUS
  <2>9. f[y] \in Nat /\ f[z] \in Nat /\ g[(T \ {z}) \ {y}] \in Nat
    BY <1>1, <2>2, <2>3 DEF SumsUp
  <2> QED BY <2>2, <2>3, <2>6, <2>7, <2>8, <2>9
<1>4. Begins(S)
  BY <1>3
<1> QED BY <1>2, <1>4

(* The sum over nothing is 0, and a sum of natural numbers is one. *)
LEMMA SumNat ==
    ASSUME NEW S, IsFiniteSet(S), NEW f, \A x \in S : f[x] \in Nat
    PROVE  SumOf(f, S) \in Nat /\ SumOf(f, {}) = 0
<1>1. PICK g : SumsUp(f, S, g)
  BY SumFold
<1>2. \A T \in SUBSET S : SumOf(f, T) = g[T]
  BY <1>1, SumsAgree
<1> QED BY <1>1, <1>2 DEF SumsUp

(* A sum of zeros is 0. *)
LEMMA SumZero ==
    ASSUME NEW S, IsFiniteSet(S), NEW f, \A x \in S : f[x] = 0
    PROVE  SumOf(f, S) = 0
<1>1. PICK g : SumsUp(f, S, g) /\ SumOf(f, S) = g[S]
  BY SumFold
<1> DEFINE D == {T \in SUBSET S : g[T] # 0}
<1> SUFFICES ASSUME D # {} PROVE FALSE
  BY <1>1
<1>2. PICK T \in D : \A U \in D : U \subseteq T => U = T
  <2>1. D \subseteq SUBSET S
    OBVIOUS
  <2> HIDE DEF D
  <2> QED BY <2>1, SmallestSubset
<1>3. T # {} /\ Pick(T) \in T
  BY <1>1, <1>2 DEF SumsUp, Pick
<1>4. g[T \ {Pick(T)}] = 0
  BY <1>2, <1>3
<1> QED BY <1>1, <1>2, <1>3, <1>4 DEF SumsUp

(* Equal values have equal sums. *)
LEMMA SumEqual ==
    ASSUME NEW S, IsFiniteSet(S), NEW f, NEW g,
           \A x \in S : f[x] \in Nat /\ g[x] = f[x]
    PROVE  SumOf(g, S) = SumOf(f, S)
<1> DEFINE D == {T \in SUBSET S : SumOf(g, T) # SumOf(f, T)}
<1> SUFFICES ASSUME D # {} PROVE FALSE
  OBVIOUS
<1>1. PICK T \in D : \A U \in D : U \subseteq T => U = T
  <2>1. D \subseteq SUBSET S
    OBVIOUS
  <2> HIDE DEF D
  <2> QED BY <2>1, SmallestSubset
<1>2. T \in SUBSET S /\ SumOf(g, T) # SumOf(f, T) /\ IsFiniteSet(T)
  BY FS_Subset
<1>3. T # {}
  BY <1>2, SumNat
<1>4. PICK x \in T : TRUE
  BY <1>3
<1>5. SumOf(g, T \ {x}) = SumOf(f, T \ {x})
  BY <1>1, <1>2, <1>4
<1>6. SumOf(f, T) = f[x] + SumOf(f, T \ {x}) /\ SumOf(g, T) = g[x] + SumOf(g, T \ {x})
  BY <1>2, SumRemove
<1> QED BY <1>2, <1>5, <1>6

(* A sum over two sets is at most the sum of the sums. *)
LEMMA SumUnion ==
    ASSUME NEW S, NEW T, IsFiniteSet(S), IsFiniteSet(T), NEW f, \A x \in S \cup T : f[x] \in Nat
    PROVE  SumOf(f, S \cup T) <= SumOf(f, S) + SumOf(f, T)
<1> DEFINE D == {U \in SUBSET T : ~(SumOf(f, S \cup U) <= SumOf(f, S) + SumOf(f, U))}
<1> SUFFICES ASSUME D # {} PROVE FALSE
  OBVIOUS
<1>1. PICK U \in D : \A W \in D : W \subseteq U => W = U
  <2>1. D \subseteq SUBSET T
    OBVIOUS
  <2> HIDE DEF D
  <2> QED BY <2>1, SmallestSubset
<1>2. /\ U \in SUBSET T /\ ~(SumOf(f, S \cup U) <= SumOf(f, S) + SumOf(f, U))
      /\ IsFiniteSet(U) /\ IsFiniteSet(S \cup U)
  <2>1. IsFiniteSet(U)
    BY FS_Subset
  <2> QED BY <2>1, FS_Union
<1>3. SumOf(f, S) \in Nat /\ SumOf(f, U) \in Nat /\ SumOf(f, {}) = 0
  BY <1>2, SumNat
<1>4. PICK x \in U : x \notin S
  <2>1. CASE U \subseteq S
    <3>1. S \cup U = S
      BY <2>1
    <3>2. SumOf(f, S \cup U) = SumOf(f, S)
      BY <3>1
    <3> HIDE DEF D
    <3> QED BY <1>2, <1>3, <3>2
  <2> QED BY <2>1
<1>5. SumOf(f, S \cup (U \ {x})) <= SumOf(f, S) + SumOf(f, U \ {x})
  <2>1. U \ {x} \in SUBSET T /\ U \ {x} # U /\ U \ {x} \subseteq U
    BY <1>2, <1>4
  <2> QED BY <1>1, <2>1
<1>6. SumOf(f, U) = f[x] + SumOf(f, U \ {x})
  BY <1>2, <1>4, SumRemove
<1>7. SumOf(f, S \cup U) = f[x] + SumOf(f, S \cup (U \ {x}))
  <2>1. (S \cup U) \ {x} = S \cup (U \ {x})
    BY <1>4
  <2>2. SumOf(f, S \cup U) = f[x] + SumOf(f, (S \cup U) \ {x})
    <3>1. x \in S \cup U /\ \A y \in S \cup U : f[y] \in Nat
      BY <1>2, <1>4
    <3> DEFINE Both == S \cup U
    <3>2. IsFiniteSet(Both)
      BY <1>2
    <3> HIDE DEF Both
    <3>3. SumOf(f, Both) = f[x] + SumOf(f, Both \ {x})
      BY <3>1, <3>2, SumRemove DEF Both
    <3> QED BY <3>3 DEF Both
  <2> QED BY <2>1, <2>2
<1>8. /\ f[x] \in Nat /\ SumOf(f, U \ {x}) \in Nat
      /\ SumOf(f, S \cup (U \ {x})) \in Nat
  <2>1. IsFiniteSet(U \ {x}) /\ IsFiniteSet(S \cup (U \ {x}))
    BY <1>2, FS_RemoveElement, FS_Union
  <2> QED BY <1>2, <1>4, <2>1, SumNat
<1> QED BY <1>2, <1>3, <1>5, <1>6, <1>7, <1>8

(* A sum over fewer elements is no larger. *)
LEMMA SumMonotone ==
    ASSUME NEW S, IsFiniteSet(S), NEW f, \A x \in S : f[x] \in Nat, NEW T \in SUBSET S
    PROVE  SumOf(f, T) <= SumOf(f, S)
<1> DEFINE D == {U \in SUBSET S : T \subseteq U /\ ~(SumOf(f, T) <= SumOf(f, U))}
<1> SUFFICES ASSUME D # {} PROVE FALSE
  OBVIOUS
<1>1. PICK U \in D : \A W \in D : W \subseteq U => W = U
  <2>1. D \subseteq SUBSET S
    OBVIOUS
  <2> HIDE DEF D
  <2> QED BY <2>1, SmallestSubset
<1>2. /\ U \in SUBSET S /\ T \subseteq U /\ ~(SumOf(f, T) <= SumOf(f, U))
      /\ IsFiniteSet(U) /\ IsFiniteSet(T)
  BY FS_Subset
<1>3. SumOf(f, T) \in Nat
  BY <1>2, SumNat
<1>4. PICK x \in U : x \notin T
  BY <1>2, <1>3
<1>5. SumOf(f, T) <= SumOf(f, U \ {x})
  <2>1. U \ {x} \in SUBSET S /\ U \ {x} # U /\ T \subseteq U \ {x}
    BY <1>2, <1>4
  <2> QED BY <1>1, <2>1
<1>6. SumOf(f, U) = f[x] + SumOf(f, U \ {x})
  BY <1>2, <1>4, SumRemove
<1>7. f[x] \in Nat /\ SumOf(f, U \ {x}) \in Nat
  BY <1>2, <1>4, FS_RemoveElement, SumNat
<1> QED BY <1>2, <1>3, <1>5, <1>6, <1>7

(* g is f with one more at x. *)
OneMore(f, g, x, S) ==
    \A y \in S : f[y] \in Nat /\ g[y] = IF y = x THEN f[y] + 1 ELSE f[y]

(* One more of one element is one more of the sum. *)
LEMMA SumOneMore ==
    ASSUME NEW S, IsFiniteSet(S), NEW f, NEW g, NEW x, OneMore(f, g, x, S)
    PROVE  SumOf(g, S) = IF x \in S THEN SumOf(f, S) + 1 ELSE SumOf(f, S)
<1> USE DEF OneMore
<1>1. CASE x \notin S
  BY <1>1, SumEqual
<1>2. CASE x \in S
  <2>1. SumOf(f, S) = f[x] + SumOf(f, S \ {x})
    BY <1>2, SumRemove
  <2>2. \A y \in S : g[y] \in Nat
    OBVIOUS
  <2>3. SumOf(g, S) = g[x] + SumOf(g, S \ {x})
    BY <1>2, <2>2, SumRemove
  <2>4. SumOf(g, S \ {x}) = SumOf(f, S \ {x}) /\ SumOf(f, S \ {x}) \in Nat
    BY FS_RemoveElement, SumEqual, SumNat
  <2> QED BY <1>2, <2>1, <2>3, <2>4
<1> QED BY <1>1, <1>2
=============================================================================

---------------------------- MODULE SumTheorems ----------------------------
(***************************************************************************)
(* Sums over finite sets: Functions' SumFunction and SumFunctionOnSet, for *)
(* any finite set and any values; and the greatest and least of a finite   *)
(* set of integers.                                                        *)
(*                                                                         *)
(* The inductions are over sets, not operators: a set of naturals that has *)
(* 0 and with n has n + 1 has them all, by well-foundedness of <.          *)
(***************************************************************************)
EXTENDS Functions, FiniteSetsExt, Integers, FiniteSetTheorems,
        WellFoundedInduction, TLAPS

(* Induction over the naturals, for a set of them. *)
LEMMA FromZeroUp ==
  ASSUME NEW G, 0 \in G, \A n \in Nat : n \in G => n + 1 \in G
  PROVE  \A n \in Nat : n \in G
<1> DEFINE B == Nat \ G
<1>1. IsWellFoundedOn(OpToRel(<, Nat), Nat)
  BY NatLessThanWellFounded
<1>2. OpToRel(<, Nat) = {p \in Nat \X Nat : p[1] < p[2]}
  BY DEF OpToRel
<1>3. IsWellFoundedOn({p \in Nat \X Nat : p[1] < p[2]}, Nat)
  BY <1>1, <1>2
<1>4. SUFFICES ASSUME B # {} PROVE FALSE
  OBVIOUS
<1>5. B \subseteq Nat
  OBVIOUS
<1> HIDE DEF B
<1>6. \E x \in B : \A y \in B : ~ (<<y, x>> \in {p \in Nat \X Nat : p[1] < p[2]})
  BY <1>3, <1>4, <1>5, WFMin, Zenon
<1>7. PICK x \in B : \A y \in B : ~ (y < x)
  BY <1>5, <1>6
<1>8. x # 0
  BY DEF B
<1>9. x - 1 \in Nat /\ x - 1 \notin B
  BY <1>5, <1>7, <1>8
<1> QED
  BY <1>5, <1>9 DEF B

(* The element a fold takes out of a set, and what is left. *)
First(T) == CHOOSE x \in T : TRUE

Rest(T) == T \ {First(T)}

LEMMA FirstIn == ASSUME NEW T, T # {} PROVE First(T) \in T
  BY DEF First

LEMMA RestSmaller ==
  ASSUME NEW S, IsFiniteSet(S), NEW T \in SUBSET S
  PROVE  /\ Cardinality(T) \in Nat
         /\ Cardinality(T) = 0 => T = {}
         /\ T # {} => /\ Rest(T) \in SUBSET S
                      /\ Cardinality(Rest(T)) = Cardinality(T) - 1
<1>1. IsFiniteSet(T)
  BY FS_Subset
<1>2. Cardinality(T) \in Nat /\ (Cardinality(T) = 0 => T = {})
  BY <1>1, FS_CardinalityType, FS_EmptySet
<1>3. T # {} => Cardinality(T \ {First(T)}) = Cardinality(T) - 1
  BY <1>1, FirstIn, FS_RemoveElement
<1> QED
  BY <1>2, <1>3 DEF Rest

(* Induction over the subsets of a finite set, an element at a time. *)
LEMMA FromEmptyUp ==
  ASSUME NEW S, IsFiniteSet(S), NEW G, {} \in G,
         \A T \in SUBSET S : T # {} /\ Rest(T) \in G => T \in G
  PROVE  \A T \in SUBSET S : T \in G
<1> DEFINE N == {n \in Nat : \A T \in SUBSET S : Cardinality(T) = n => T \in G}
<1>1. 0 \in N
  BY RestSmaller
<1>2. ASSUME NEW n \in Nat, n \in N
      PROVE  n + 1 \in N
  <2>1. ASSUME NEW T \in SUBSET S, Cardinality(T) = n + 1
        PROVE  T \in G
    <3>1. T # {}
      BY <2>1, FS_EmptySet
    <3>2. Cardinality(Rest(T)) = n /\ Rest(T) \in SUBSET S
      BY <2>1, <3>1, RestSmaller
    <3> QED
      BY <1>2, <3>1, <3>2
  <2> QED
    BY <2>1
<1>3. \A n \in Nat : n \in N
  <2> HIDE DEF N
  <2> QED
    BY <1>1, <1>2, FromZeroUp
<1> QED
  BY <1>3, RestSmaller

(* One step of the fold that sums f, g being its table. *)
SumStep(f, g, T) == IF T = {} THEN 0 ELSE f[First(T)] + g[Rest(T)]

LEMMA TableExists ==
  ASSUME NEW S, IsFiniteSet(S), NEW f
  PROVE  \E g : g = [T \in SUBSET S |-> SumStep(f, g, T)]
<1> DEFINE Upto(g, n) == /\ g = [T \in SUBSET S |-> g[T]]
                         /\ \A T \in SUBSET S : Cardinality(T) <= n => g[T] = SumStep(f, g, T)
<1> DEFINE N == {n \in Nat : \E g : Upto(g, n)}
<1>1. 0 \in N
  <2> DEFINE g == [T \in SUBSET S |-> 0]
  <2>1. ASSUME NEW T \in SUBSET S, Cardinality(T) <= 0
        PROVE  T = {}
    BY <2>1, RestSmaller
  <2>2. Upto(g, 0)
    BY <2>1 DEF SumStep
  <2> QED
    BY <2>2
<1>2. ASSUME NEW n \in Nat, n \in N
      PROVE  n + 1 \in N
  <2>1. PICK g : Upto(g, n)
    BY <1>2
  <2>2. PICK h : h = [T \in SUBSET S |-> IF Cardinality(T) <= n THEN g[T] ELSE SumStep(f, g, T)]
    OBVIOUS
  <2>3. ASSUME NEW T \in SUBSET S, Cardinality(T) <= n + 1
        PROVE  h[T] = SumStep(f, h, T)
    <3>1. h[T] = SumStep(f, g, T)
      BY <2>1, <2>2
    <3>2. T # {} => h[Rest(T)] = g[Rest(T)]
      <4>1. T # {} => Rest(T) \in SUBSET S /\ Cardinality(Rest(T)) <= n
        BY <2>3, RestSmaller
      <4> QED
        BY <2>2, <4>1
    <3> QED
      BY <3>1, <3>2 DEF SumStep
  <2>4. h = [T \in SUBSET S |-> h[T]]
    BY <2>2
  <2>5. Upto(h, n + 1)
    BY <2>3, <2>4
  <2> HIDE DEF Upto
  <2>6. \E k : Upto(k, n + 1)
    BY <2>5
  <2> QED
    BY <2>6
<1>3. \A n \in Nat : n \in N
  <2> HIDE DEF N
  <2> QED
    BY <1>1, <1>2, FromZeroUp
<1>4. Cardinality(S) \in N
  BY <1>3, RestSmaller
<1>5. PICK g : Upto(g, Cardinality(S))
  BY <1>4
<1>6. \A T \in SUBSET S : Cardinality(T) <= Cardinality(S)
  BY FS_Subset
<1>7. \A T \in SUBSET S : g[T] = SumStep(f, g, T)
  BY <1>5, <1>6
<1> QED
  BY <1>5, <1>7

(* The table of the sum of f over the subsets of S. *)
SumTable(f, S) == CHOOSE g : g = [T \in SUBSET S |-> SumStep(f, g, T)]

LEMMA SumIs ==
  ASSUME NEW S, IsFiniteSet(S), NEW f
  PROVE  /\ SumFunctionOnSet(f, S) = SumTable(f, S)[S]
         /\ \A T \in SUBSET S : SumTable(f, S)[T] = SumStep(f, SumTable(f, S), T)
<1>1. SumFunctionOnSet(f, S) = SumTable(f, S)[S]
  BY DEF SumFunctionOnSet, FoldFunctionOnSet, MapThenFoldSet, SumTable, SumStep, First, Rest
<1>2. SumTable(f, S) = [T \in SUBSET S |-> SumStep(f, SumTable(f, S), T)]
  BY TableExists DEF SumTable
<1> QED
  BY <1>1, <1>2

(* A sum of naturals is one, of integers one, of zeros zero. *)
LEMMA SumWithin ==
  ASSUME NEW S, IsFiniteSet(S), NEW V, 0 \in V, V \subseteq Int,
         \A x, y \in V : x + y \in V,
         NEW f \in [S -> V]
  PROVE  SumFunction(f) \in V
<1> DEFINE G == {T \in SUBSET S : SumTable(f, S)[T] \in V}
<1>1. {} \in G
  BY SumIs DEF SumStep
<1>2. ASSUME NEW T \in SUBSET S, T # {}, Rest(T) \in G
      PROVE  T \in G
  <2>1. First(T) \in S
    BY <1>2, FirstIn
  <2>2. SumTable(f, S)[T] = f[First(T)] + SumTable(f, S)[Rest(T)]
    BY <1>2, SumIs DEF SumStep
  <2>3. f[First(T)] \in V /\ SumTable(f, S)[Rest(T)] \in V
    BY <1>2, <2>1
  <2>4. SumTable(f, S)[T] \in V
    BY <2>2, <2>3
  <2> QED
    BY <2>4
<1>3. S \in G
  <2> HIDE DEF G
  <2> QED
    BY <1>1, <1>2, FromEmptyUp
<1> QED
  BY <1>3, SumIs DEF SumFunction

LEMMA SumIsNat ==
  ASSUME NEW S, IsFiniteSet(S), NEW f \in [S -> Nat]
  PROVE  SumFunction(f) \in Nat
<1>1. 0 \in Nat /\ Nat \subseteq Int /\ \A x, y \in Nat : x + y \in Nat
  OBVIOUS
<1> QED
  BY <1>1, SumWithin, Zenon

LEMMA SumOfZeros ==
  ASSUME NEW S, IsFiniteSet(S)
  PROVE  SumFunction([x \in S |-> 0]) = 0
<1>1. [x \in S |-> 0] \in [S -> {0}]
  OBVIOUS
<1>2. 0 \in {0} /\ {0} \subseteq Int /\ \A x, y \in {0} : x + y \in {0}
  OBVIOUS
<1>3. SumFunction([x \in S |-> 0]) \in {0}
  BY <1>1, <1>2, SumWithin, Zenon
<1> QED
  BY <1>3

(* A sum moves with the one value that does. *)
LEMMA SumMoves ==
  ASSUME NEW S, IsFiniteSet(S), NEW f \in [S -> Int], NEW g \in [S -> Int],
         NEW x \in S, \A y \in S \ {x} : g[y] = f[y]
  PROVE  SumFunction(g) = SumFunction(f) + g[x] - f[x]
<1> DEFINE F(T) == SumTable(f, S)[T]
<1> DEFINE H(T) == SumTable(g, S)[T]
<1> DEFINE G == {T \in SUBSET S : /\ F(T) \in Int /\ H(T) \in Int
                                  /\ H(T) = IF x \in T THEN F(T) + (g[x] - f[x]) ELSE F(T)}
<1>0. F({}) = 0 /\ H({}) = 0
  BY SumIs DEF SumStep
<1>1. {} \in G
  BY <1>0
<1>2. ASSUME NEW T \in SUBSET S, T # {}, Rest(T) \in G
      PROVE  T \in G
  <2>1. First(T) \in S /\ First(T) \in T
    BY <1>2, FirstIn
  <2>2. F(T) = f[First(T)] + F(Rest(T)) /\ H(T) = g[First(T)] + H(Rest(T))
    BY <1>2, SumIs DEF SumStep
  <2>3. F(T) \in Int /\ H(T) \in Int
    BY <1>2, <2>1, <2>2
  <2> HIDE DEF F, H
  <2>4. CASE First(T) = x
    <3>1. x \notin Rest(T) /\ x \in T
      BY <2>1, <2>4 DEF Rest
    <3> QED
      BY <1>2, <2>2, <2>3, <2>4, <3>1
  <2>5. CASE First(T) # x
    <3>1. g[First(T)] = f[First(T)]
      BY <2>1, <2>5
    <3>2. x \in T <=> x \in Rest(T)
      BY <2>5 DEF Rest
    <3>3. f[First(T)] \in Int /\ f[x] \in Int /\ g[x] \in Int
      BY <2>1
    <3> QED
      BY <1>2, <2>2, <2>3, <3>1, <3>2, <3>3
  <2> QED
    BY <2>4, <2>5
<1>3. S \in G
  <2> HIDE DEF G
  <2> QED
    BY <1>1, <1>2, FromEmptyUp
<1>4. SumFunction(f) = F(S) /\ SumFunction(g) = H(S)
  BY SumIs DEF SumFunction
<1>5. f[x] \in Int /\ g[x] \in Int
  OBVIOUS
<1> HIDE DEF F, H
<1>6. F(S) \in Int /\ H(S) = F(S) + (g[x] - f[x])
  BY <1>3
<1> QED
  BY <1>4, <1>5, <1>6

-----------------------------------------------------------------------------
(* The same sums over a part of the domain, a part that varies. *)

LEMMA SumRest ==
  ASSUME NEW S, IsFiniteSet(S), NEW f
  PROVE  /\ SumFunctionOnSet(f, {}) = 0
         /\ S # {} => SumFunctionOnSet(f, S) = f[First(S)] + SumFunctionOnSet(f, Rest(S))
<1>1. SumFunctionOnSet(f, {}) = 0
  <2>1. IsFiniteSet({})
    BY FS_EmptySet
  <2> QED
    BY <2>1, SumIs DEF SumStep
<1>2. ASSUME NEW T \in SUBSET S
      PROVE  SumFunctionOnSet(f, T) = SumTable(f, S)[T]
  <2> DEFINE G == {U \in SUBSET T : SumTable(f, T)[U] = SumTable(f, S)[U]}
  <2>1. IsFiniteSet(T)
    BY FS_Subset
  <2>2. /\ \A U \in SUBSET T : SumTable(f, T)[U] = SumStep(f, SumTable(f, T), U)
        /\ \A U \in SUBSET T : SumTable(f, S)[U] = SumStep(f, SumTable(f, S), U)
        /\ SumFunctionOnSet(f, T) = SumTable(f, T)[T]
    BY <2>1, SumIs
  <2>3. {} \in G
    BY <2>2 DEF SumStep
  <2>4. ASSUME NEW U \in SUBSET T, U # {}, Rest(U) \in G
        PROVE  U \in G
    BY <2>2, <2>4 DEF SumStep
  <2>5. T \in G
    <3> HIDE DEF G
    <3> QED
      BY <2>1, <2>3, <2>4, FromEmptyUp
  <2> QED
    BY <2>2, <2>5
<1>3. S # {} => Rest(S) \in SUBSET S
  BY DEF Rest
<1>4. SumTable(f, S)[S] = SumStep(f, SumTable(f, S), S)
  BY SumIs
<1> QED
  BY <1>1, <1>2, <1>3, <1>4 DEF SumStep

LEMMA SumOnWithin ==
  ASSUME NEW S, IsFiniteSet(S), NEW V, 0 \in V, V \subseteq Int,
         \A x, y \in V : x + y \in V,
         NEW f, \A x \in S : f[x] \in V
  PROVE  SumFunctionOnSet(f, S) \in V
<1> DEFINE G == {T \in SUBSET S : SumFunctionOnSet(f, T) \in V}
<1>1. {} \in G
  BY SumRest
<1>2. ASSUME NEW T \in SUBSET S, T # {}, Rest(T) \in G
      PROVE  T \in G
  <2>1. First(T) \in S
    BY <1>2, FirstIn
  <2>2. IsFiniteSet(T)
    BY FS_Subset
  <2>3. SumFunctionOnSet(f, T) = f[First(T)] + SumFunctionOnSet(f, Rest(T))
    BY <1>2, <2>2, SumRest
  <2>4. f[First(T)] \in V /\ SumFunctionOnSet(f, Rest(T)) \in V
    BY <1>2, <2>1
  <2>5. SumFunctionOnSet(f, T) \in V
    BY <2>3, <2>4
  <2> QED
    BY <2>5
<1>3. S \in G
  <2> HIDE DEF G
  <2> QED
    BY <1>1, <1>2, FromEmptyUp
<1> QED
  BY <1>3

LEMMA SumOnIsInt ==
  ASSUME NEW S, IsFiniteSet(S), NEW f, \A x \in S : f[x] \in Int
  PROVE  SumFunctionOnSet(f, S) \in Int
<1>1. 0 \in Int /\ Int \subseteq Int /\ \A x, y \in Int : x + y \in Int
  OBVIOUS
<1> QED
  BY <1>1, SumOnWithin, Zenon

LEMMA SumOnIsNat ==
  ASSUME NEW S, IsFiniteSet(S), NEW f, \A x \in S : f[x] \in Nat
  PROVE  SumFunctionOnSet(f, S) \in Nat
<1>1. 0 \in Nat /\ Nat \subseteq Int /\ \A x, y \in Nat : x + y \in Nat
  OBVIOUS
<1> QED
  BY <1>1, SumOnWithin, Zenon

(* Any element may be the one taken out. *)
LEMMA SumRemove ==
  ASSUME NEW S, IsFiniteSet(S), NEW f, \A x \in S : f[x] \in Int,
         NEW a \in S
  PROVE  SumFunctionOnSet(f, S) = f[a] + SumFunctionOnSet(f, S \ {a})
<1> DEFINE F(T) == SumFunctionOnSet(f, T)
<1> DEFINE N == {n \in Nat : \A T \in SUBSET S : Cardinality(T) = n =>
                                 \A x \in T : F(T) = f[x] + F(T \ {x})}
<1>1. ASSUME NEW T \in SUBSET S
      PROVE  /\ IsFiniteSet(T) /\ F(T) \in Int
             /\ T # {} => First(T) \in T /\ F(T) = f[First(T)] + F(T \ {First(T)})
  <2>1. IsFiniteSet(T)
    BY FS_Subset
  <2> QED
    BY <2>1, FirstIn, SumRest, SumOnIsInt DEF Rest
<1>2. 0 \in N
  BY RestSmaller
<1>3. ASSUME NEW n \in Nat, n \in N
      PROVE  n + 1 \in N
  <2>1. ASSUME NEW T \in SUBSET S, Cardinality(T) = n + 1, NEW x \in T
        PROVE  F(T) = f[x] + F(T \ {x})
    <3> DEFINE y == First(T)
    <3>1. y \in T /\ F(T) = f[y] + F(T \ {y})
      BY <1>1, <2>1
    <3> HIDE DEF y
    <3>2. CASE x = y
      BY <3>1, <3>2
    <3>3. CASE x # y
      <4>1. Cardinality(T \ {x}) = n /\ Cardinality(T \ {y}) = n
        <5>1. IsFiniteSet(T)
          BY <1>1
        <5>2. \A z \in T : Cardinality(T \ {z}) = Cardinality(T) - 1
          BY <5>1, FS_RemoveElement
        <5> QED
          BY <2>1, <3>1, <5>2
      <4>2. /\ x \in T \ {y} /\ y \in T \ {x}
            /\ T \ {x} \in SUBSET S /\ T \ {y} \in SUBSET S
            /\ (T \ {x}) \ {y} = (T \ {y}) \ {x}
        BY <3>1, <3>3
      <4>3. /\ F(T \ {y}) = f[x] + F((T \ {y}) \ {x})
            /\ F(T \ {x}) = f[y] + F((T \ {x}) \ {y})
        BY <1>3, <4>1, <4>2
      <4>4. f[x] \in Int /\ f[y] \in Int /\ F((T \ {y}) \ {x}) \in Int
        BY <1>1, <3>1, <4>2
      <4>5. PICK r : r = F((T \ {y}) \ {x})
        OBVIOUS
      <4>6. F(T) = f[y] + (f[x] + r) /\ F(T \ {x}) = f[y] + r
        BY <3>1, <4>2, <4>3, <4>5
      <4> QED
        BY <4>4, <4>5, <4>6
    <3> QED
      BY <3>2, <3>3
  <2> QED
    BY <2>1
<1>4. \A n \in Nat : n \in N
  <2> HIDE DEF N
  <2> QED
    BY <1>2, <1>3, FromZeroUp
<1>5. Cardinality(S) \in N
  BY <1>4, RestSmaller
<1> QED
  BY <1>5

(* A part of a smaller bag sums to no more. *)
LEMMA SumSmaller ==
  ASSUME NEW S, IsFiniteSet(S), NEW f, NEW g,
         \A x \in S : f[x] \in Nat /\ g[x] \in Nat /\ g[x] <= f[x],
         NEW R \in SUBSET S
  PROVE  SumFunctionOnSet(g, R) <= SumFunctionOnSet(f, S)
<1> DEFINE G == {T \in SUBSET S : \A U \in SUBSET T :
                     SumFunctionOnSet(g, U) <= SumFunctionOnSet(f, T)}
<1>1. {} \in G
  <2>1. SumFunctionOnSet(f, {}) = 0 /\ SumFunctionOnSet(g, {}) = 0
    BY SumRest
  <2>2. \A U \in SUBSET {} : U = {}
    OBVIOUS
  <2> QED
    BY <2>1, <2>2
<1>2. ASSUME NEW T \in SUBSET S, T # {}, Rest(T) \in G
      PROVE  T \in G
  <2>1. PICK x : x = First(T)
    OBVIOUS
  <2>2. x \in T /\ x \in S /\ Rest(T) = T \ {x} /\ T \ {x} \in SUBSET S
    BY <1>2, <2>1, FirstIn DEF Rest
  <2>3. IsFiniteSet(T) /\ IsFiniteSet(T \ {x})
    BY <2>2, FS_Subset
  <2>4. /\ SumFunctionOnSet(f, T) = f[x] + SumFunctionOnSet(f, T \ {x})
        /\ SumFunctionOnSet(f, T \ {x}) \in Nat
    BY <1>2, <2>1, <2>2, <2>3, SumRest, SumOnIsNat
  <2>5. ASSUME NEW U \in SUBSET T
        PROVE  SumFunctionOnSet(g, U) <= SumFunctionOnSet(f, T)
    <3>1. IsFiniteSet(U) /\ U \ {x} \in SUBSET (T \ {x}) /\ IsFiniteSet(U \ {x})
      BY <2>3, FS_Subset
    <3>2. SumFunctionOnSet(g, U \ {x}) <= SumFunctionOnSet(f, T \ {x})
      BY <1>2, <2>2, <3>1
    <3>3. SumFunctionOnSet(g, U \ {x}) \in Nat
      BY <3>1, SumOnIsNat
    <3>4. CASE x \in U
      <4>1. SumFunctionOnSet(g, U) = g[x] + SumFunctionOnSet(g, U \ {x})
        BY <3>1, <3>4, SumRemove
      <4> QED
        BY <2>2, <2>4, <3>2, <3>3, <4>1
    <3>5. CASE x \notin U
      <4>1. U \ {x} = U
        BY <3>5
      <4> QED
        BY <2>2, <2>4, <3>2, <3>3, <4>1
    <3> QED
      BY <3>4, <3>5
  <2> QED
    BY <2>5
<1>3. S \in G
  <2> HIDE DEF G
  <2> QED
    BY <1>1, <1>2, FromEmptyUp
<1> QED
  BY <1>3

-----------------------------------------------------------------------------
(* The greatest and the least. *)

LEMMA MaxIs ==
  ASSUME NEW S, IsFiniteSet(S), S # {}, S \subseteq Int
  PROVE  Max(S) \in S /\ \A y \in S : Max(S) >= y
<1> DEFINE G == {T \in SUBSET S : T # {} => \E x \in T : \A y \in T : x >= y}
<1>1. {} \in G
  OBVIOUS
<1>2. ASSUME NEW T \in SUBSET S, T # {}, Rest(T) \in G
      PROVE  T \in G
  <2>1. First(T) \in T /\ First(T) \in Int
    BY <1>2, FirstIn
  <2>2. CASE Rest(T) = {}
    <3>1. \A y \in T : First(T) >= y
      BY <2>1, <2>2 DEF Rest
    <3> QED
      BY <2>1, <3>1
  <2>3. CASE Rest(T) # {}
    <3>1. PICK x \in Rest(T) : \A y \in Rest(T) : x >= y
      BY <1>2, <2>3
    <3>2. x \in T /\ x \in Int /\ \A y \in T : y \in Rest(T) \/ y = First(T)
      BY DEF Rest
    <3>3. CASE x >= First(T)
      BY <3>1, <3>2, <3>3
    <3>4. CASE First(T) >= x
      <4>1. \A y \in T : y \in Int /\ (y = First(T) \/ x >= y)
        BY <3>1, <3>2
      <4>2. \A y \in T : First(T) >= y
        BY <2>1, <3>2, <3>4, <4>1
      <4> QED
        BY <2>1, <4>2
    <3> QED
      BY <2>1, <3>2, <3>3, <3>4
  <2> QED
    BY <2>2, <2>3
<1>3. S \in G
  <2> HIDE DEF G
  <2> QED
    BY <1>1, <1>2, FromEmptyUp
<1>4. \E x \in S : \A y \in S : x >= y
  BY <1>3
<1> QED
  BY <1>4 DEF Max

LEMMA MinIs ==
  ASSUME NEW S, IsFiniteSet(S), S # {}, S \subseteq Int
  PROVE  Min(S) \in S /\ \A y \in S : Min(S) <= y
<1> DEFINE G == {T \in SUBSET S : T # {} => \E x \in T : \A y \in T : x <= y}
<1>1. {} \in G
  OBVIOUS
<1>2. ASSUME NEW T \in SUBSET S, T # {}, Rest(T) \in G
      PROVE  T \in G
  <2>1. First(T) \in T /\ First(T) \in Int
    BY <1>2, FirstIn
  <2>2. CASE Rest(T) = {}
    <3>1. \A y \in T : First(T) <= y
      BY <2>1, <2>2 DEF Rest
    <3> QED
      BY <2>1, <3>1
  <2>3. CASE Rest(T) # {}
    <3>1. PICK x \in Rest(T) : \A y \in Rest(T) : x <= y
      BY <1>2, <2>3
    <3>2. x \in T /\ x \in Int /\ \A y \in T : y \in Rest(T) \/ y = First(T)
      BY DEF Rest
    <3>3. CASE x <= First(T)
      BY <3>1, <3>2, <3>3
    <3>4. CASE First(T) <= x
      <4>1. \A y \in T : y \in Int /\ (y = First(T) \/ x <= y)
        BY <3>1, <3>2
      <4>2. \A y \in T : First(T) <= y
        BY <2>1, <3>2, <3>4, <4>1
      <4> QED
        BY <2>1, <4>2
    <3> QED
      BY <2>1, <3>2, <3>3, <3>4
  <2> QED
    BY <2>2, <2>3
<1>3. S \in G
  <2> HIDE DEF G
  <2> QED
    BY <1>1, <1>2, FromEmptyUp
<1>4. \E x \in S : \A y \in S : x <= y
  BY <1>3
<1> QED
  BY <1>4 DEF Min

LEMMA ImageFinite ==
  ASSUME NEW S, IsFiniteSet(S), NEW f
  PROVE  IsFiniteSet({f[x] : x \in S})
<1> DEFINE g == [x \in S |-> f[x]]
<1>1. g \in Surjection(S, {f[x] : x \in S})
  BY DEF Surjection
<1> QED
  BY <1>1, FS_Surjection, Zenon

=============================================================================

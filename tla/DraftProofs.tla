---------------------------- MODULE DraftProofs ----------------------------
(***************************************************************************)
(* The draft, for any cards, identities, shelf and number of players: no   *)
(* copy is made or lost, what is on the table can be taken, a deck nobody  *)
(* stopped short is legal, and the decks are saved once.                   *)
(***************************************************************************)
EXTENDS Draft, SumTheorems

-----------------------------------------------------------------------------
(* Bags of cards. *)

Bag == [Card -> Nat]

LEMMA CardsFinite ==
  /\ IsFiniteSet(Card)
  /\ \A S \in SUBSET Card : IsFiniteSet(S)
<1>1. IsFiniteSet(Card)
  BY CardsAssumption
<1> QED
  BY <1>1, FS_Subset

LEMMA NoCardsBag == NoCards \in Bag /\ \A c \in Card : NoCards[c] = 0
  BY DEF NoCards, Bag

LEMMA TotalNat ==
  ASSUME NEW bag \in Bag, NEW S \in SUBSET Card
  PROVE  Total(bag, S) \in Nat
<1>1. IsFiniteSet(S)
  BY CardsFinite
<1>2. \A c \in S : bag[c] \in Nat
  BY DEF Bag
<1> QED
  BY <1>1, <1>2, SumOnIsNat DEF Total

(* A part of a smaller bag holds no more. *)
LEMMA TotalSmaller ==
  ASSUME NEW bag \in Bag, NEW less \in Bag,
         \A c \in Card : less[c] <= bag[c],
         NEW S \in SUBSET Card, NEW R \in SUBSET S
  PROVE  Total(less, R) <= Total(bag, S)
<1>1. IsFiniteSet(S)
  BY CardsFinite
<1>2. \A c \in S : bag[c] \in Nat /\ less[c] \in Nat /\ less[c] <= bag[c]
  BY DEF Bag
<1> QED
  BY <1>1, <1>2, SumSmaller DEF Total

LEMMA TotalNoCards ==
  ASSUME NEW S \in SUBSET Card
  PROVE  Total(NoCards, S) = 0
<1>1. IsFiniteSet(S)
  BY CardsFinite
<1>2. 0 \in {0} /\ {0} \subseteq Int /\ \A x, y \in {0} : x + y \in {0}
  OBVIOUS
<1>3. \A c \in S : NoCards[c] \in {0}
  BY DEF NoCards
<1>4. SumFunctionOnSet(NoCards, S) \in {0}
  BY <1>1, <1>2, <1>3, SumOnWithin, Zenon
<1> QED
  BY <1>4 DEF Total

(* What one copy does to the total of the cards of S. *)
LEMMA TotalMoves ==
  ASSUME NEW bag \in Bag, NEW other \in Bag, NEW c \in Card,
         \A x \in Card \ {c} : other[x] = bag[x],
         NEW S \in SUBSET Card
  PROVE  Total(other, S) = IF c \in S THEN Total(bag, S) + other[c] - bag[c]
                           ELSE Total(bag, S)
<1> DEFINE f == [x \in S |-> bag[x]]
<1> DEFINE g == [x \in S |-> other[x]]
<1>1. IsFiniteSet(S)
  BY CardsFinite
<1>2. /\ \A x \in S : bag[x] \in Int /\ other[x] \in Int
      /\ \A x \in S \ {c} : bag[x] \in Int /\ other[x] \in Int /\ other[x] = bag[x]
  BY DEF Bag
<1>3. SumFunctionOnSet(bag, S) \in Int /\ SumFunctionOnSet(other, S) \in Int
  BY <1>1, <1>2, SumOnIsInt
<1>4. ASSUME NEW R \in SUBSET S, c \notin R
      PROVE  SumFunctionOnSet(bag, R) = SumFunctionOnSet(other, R)
  <2> DEFINE G == {T \in SUBSET R : SumFunctionOnSet(bag, T) = SumFunctionOnSet(other, T)}
  <2>1. IsFiniteSet(R)
    BY <1>1, FS_Subset
  <2>2. {} \in G
    BY <1>1, SumRest
  <2>3. ASSUME NEW T \in SUBSET R, T # {}, Rest(T) \in G
        PROVE  T \in G
    <3>1. IsFiniteSet(T)
      BY <2>1, FS_Subset
    <3>2. First(T) \in T /\ bag[First(T)] = other[First(T)]
      BY <1>2, <1>4, <2>3, FirstIn
    <3> QED
      BY <2>3, <3>1, <3>2, SumRest
  <2>4. R \in G
    <3> HIDE DEF G
    <3> QED
      BY <2>1, <2>2, <2>3, FromEmptyUp
  <2> QED
    BY <2>4
<1>5. CASE c \notin S
  BY <1>4, <1>5 DEF Total
<1>6. CASE c \in S
  <2>1. /\ SumFunctionOnSet(bag, S) = bag[c] + SumFunctionOnSet(bag, S \ {c})
        /\ SumFunctionOnSet(other, S) = other[c] + SumFunctionOnSet(other, S \ {c})
    BY <1>1, <1>2, <1>6, SumRemove
  <2>2. SumFunctionOnSet(bag, S \ {c}) = SumFunctionOnSet(other, S \ {c})
    BY <1>4
  <2>3. IsFiniteSet(S \ {c})
    BY <1>1, FS_Subset
  <2>4. SumFunctionOnSet(bag, S \ {c}) \in Int
    BY <1>2, <2>3, SumOnIsInt
  <2>5. bag[c] \in Int /\ other[c] \in Int
    BY <1>2, <1>6
  <2> QED
    BY <1>6, <2>1, <2>2, <2>4, <2>5 DEF Total
<1> QED
  BY <1>5, <1>6

LEMMA PlusMinus ==
  ASSUME NEW bag \in Bag, NEW c \in Card
  PROVE  /\ Plus(bag, c) \in Bag /\ Plus(bag, c)[c] = bag[c] + 1
         /\ \A x \in Card \ {c} : Plus(bag, c)[x] = bag[x]
         /\ \A S \in SUBSET Card : Total(Plus(bag, c), S)
                                      = Total(bag, S) + (IF c \in S THEN 1 ELSE 0)
         /\ bag[c] > 0 => /\ Minus(bag, c) \in Bag /\ Minus(bag, c)[c] = bag[c] - 1
                          /\ \A x \in Card \ {c} : Minus(bag, c)[x] = bag[x]
                          /\ \A S \in SUBSET Card : Total(Minus(bag, c), S)
                                      = Total(bag, S) - (IF c \in S THEN 1 ELSE 0)
<1>0. bag[c] \in Nat
  BY DEF Bag
<1>1. /\ Plus(bag, c) \in Bag /\ Plus(bag, c)[c] = bag[c] + 1
      /\ \A x \in Card \ {c} : Plus(bag, c)[x] = bag[x]
  BY DEF Bag, Plus
<1>2. bag[c] > 0 => /\ Minus(bag, c) \in Bag /\ Minus(bag, c)[c] = bag[c] - 1
                    /\ \A x \in Card \ {c} : Minus(bag, c)[x] = bag[x]
  BY DEF Bag, Minus
<1>3. ASSUME NEW S \in SUBSET Card
      PROVE  Total(Plus(bag, c), S) = Total(bag, S) + (IF c \in S THEN 1 ELSE 0)
  <2>1. Total(bag, S) \in Nat
    BY TotalNat
  <2>2. Total(Plus(bag, c), S) = IF c \in S THEN Total(bag, S) + Plus(bag, c)[c] - bag[c]
                                 ELSE Total(bag, S)
    BY <1>1, TotalMoves
  <2> QED
    BY <1>0, <1>1, <2>1, <2>2
<1>4. ASSUME NEW S \in SUBSET Card, bag[c] > 0
      PROVE  Total(Minus(bag, c), S) = Total(bag, S) - (IF c \in S THEN 1 ELSE 0)
  <2>1. Total(bag, S) \in Nat
    BY TotalNat
  <2>2. Total(Minus(bag, c), S) = IF c \in S THEN Total(bag, S) + Minus(bag, c)[c] - bag[c]
                                  ELSE Total(bag, S)
    BY <1>2, <1>4, TotalMoves
  <2> QED
    BY <1>0, <1>2, <1>4, <2>1, <2>2
<1> QED
  BY <1>1, <1>2, <1>3, <1>4

-----------------------------------------------------------------------------
(* Decks. *)

LEMMA LimitNat ==
  ASSUME NEW h \in Hero, NEW c \in Card
  PROVE  LimitOf(h, c) \in Nat
<1>1. DeckLimit[c] \in Nat /\ LimitOverride[h] \in Nat \cup {None}
  BY CardsAssumption
<1> QED
  BY <1>1 DEF LimitOf

LEMMA LimitsHaveMin ==
  ASSUME NEW h \in Hero, NEW S \in SUBSET Card, S # {}
  PROVE  LET L == {LimitOf(h, c) : c \in S} IN
         Min(L) \in L /\ L \subseteq Nat /\ \A y \in L : Min(L) <= y
<1> DEFINE L == {LimitOf(h, c) : c \in S}
<1> DEFINE f == [c \in S |-> LimitOf(h, c)]
<1>1. IsFiniteSet(S)
  BY CardsFinite
<1>2. L = {f[c] : c \in S}
  OBVIOUS
<1>3. IsFiniteSet(L)
  <2> HIDE DEF f, L
  <2> QED
    BY <1>1, <1>2, ImageFinite
<1>4. L # {} /\ L \subseteq Nat
  BY LimitNat
<1>5. L \subseteq Int
  BY <1>4
<1> HIDE DEF L
<1>6. Min(L) \in L /\ \A y \in L : Min(L) <= y
  BY <1>3, <1>4, <1>5, MinIs
<1> QED
  BY <1>4, <1>6 DEF L

(* With fewer copies of some cards, a legal deck stays legal. *)
LEMMA LessWithinLimits ==
  ASSUME NEW h \in Hero, NEW bag \in Bag, NEW less \in Bag,
         \A c \in Card : less[c] <= bag[c], WithinLimits(h, bag)
  PROVE  WithinLimits(h, less)
<1> DEFINE held == Held(bag) \ Unique
<1> DEFINE kept == Held(less) \ Unique
<1>1. kept \subseteq held /\ held \subseteq Card
  BY DEF Held, Bag
<1> SUFFICES ASSUME NEW t \in Titles(kept)
             PROVE  Total(less, Printings(kept, t))
                       <= Min({LimitOf(h, c) : c \in Printings(kept, t)})
  BY DEF WithinLimits
<1>2. t \in Titles(held)
  BY <1>1 DEF Titles
<1>3. Total(bag, Printings(held, t)) <= Min({LimitOf(h, c) : c \in Printings(held, t)})
  BY <1>2 DEF WithinLimits
<1> HIDE DEF held, kept
<1>4. PICK P : P = Printings(held, t)
  OBVIOUS
<1>5. PICK Q : Q = Printings(kept, t)
  OBVIOUS
<1>6. Q \subseteq P /\ P \subseteq Card /\ Q # {} /\ P # {} /\ Q \in SUBSET P /\ Q \subseteq Card
  BY <1>1, <1>4, <1>5 DEF Printings, Titles
<1>7. Total(less, Q) <= Total(bag, P) /\ Total(bag, P) \in Nat /\ Total(less, Q) \in Nat
  BY <1>6, TotalSmaller, TotalNat
<1>8. PICK m : m = Min({LimitOf(h, c) : c \in P})
  OBVIOUS
<1>9. PICK k : k = Min({LimitOf(h, c) : c \in Q})
  OBVIOUS
<1>10. m \in Nat /\ \A y \in {LimitOf(h, c) : c \in P} : m <= y
  BY <1>6, <1>8, LimitsHaveMin
<1>11. k \in {LimitOf(h, c) : c \in Q} /\ k \in Nat
  BY <1>6, <1>9, LimitsHaveMin
<1>12. k \in {LimitOf(h, c) : c \in P}
  BY <1>6, <1>11
<1>13. m <= k /\ Total(bag, P) <= m
  BY <1>3, <1>4, <1>8, <1>10, <1>12
<1>14. Total(less, Q) <= k
  BY <1>7, <1>10, <1>11, <1>13
<1> QED
  BY <1>5, <1>9, <1>14

LEMMA LessUniquesOnce ==
  ASSUME NEW h \in Hero, NEW bag \in Bag, NEW less \in Bag,
         \A c \in Card : less[c] <= bag[c], UniquesOnce(h, bag)
  PROVE  UniquesOnce(h, less)
<1> DEFINE held == Held(bag) \cap Unique
<1> DEFINE kept == Held(less) \cap Unique
<1>1. kept \subseteq held /\ held \subseteq Card
  BY DEF Held, Bag
<1> SUFFICES ASSUME NEW t \in Titles(kept)
             PROVE  Total(less, Printings(kept, t))
                       + (IF t = TitleOfHero[h] THEN 1 ELSE 0) <= 1
  BY DEF UniquesOnce
<1>2. t \in Titles(held)
  BY <1>1 DEF Titles
<1>3. Total(bag, Printings(held, t)) + (IF t = TitleOfHero[h] THEN 1 ELSE 0) <= 1
  BY <1>2 DEF UniquesOnce
<1> HIDE DEF held, kept
<1>4. Printings(kept, t) \in SUBSET Printings(held, t) /\ Printings(held, t) \in SUBSET Card
      /\ Printings(kept, t) \in SUBSET Card
  BY <1>1 DEF Printings
<1>5. /\ Total(less, Printings(kept, t)) <= Total(bag, Printings(held, t))
      /\ Total(bag, Printings(held, t)) \in Nat /\ Total(less, Printings(kept, t)) \in Nat
  BY <1>4, TotalSmaller, TotalNat
<1> QED
  BY <1>3, <1>5

LEMMA LessBlocksNothing ==
  ASSUME NEW p \in Player, p.hero \in Hero, NEW bag \in Bag, NEW less \in Bag,
         \A c \in Card : less[c] <= bag[c], NothingBlocks(p, bag)
  PROVE  NothingBlocks(p, less)
<1>1. PICK h \in Hero : h = p.hero
  OBVIOUS
<1>2. WithinLimits(h, less) /\ UniquesOnce(h, less)
  BY <1>1, LessWithinLimits, LessUniquesOnce DEF NothingBlocks
<1>3. SignatureCount[h] + Total(less, Card) <= MaxDeck
  <2>1. SignatureCount[h] \in Nat /\ MaxDeck \in Nat
    BY CardsAssumption, SizesAssumption
  <2>2. Total(less, Card) <= Total(bag, Card) /\ Total(bag, Card) \in Nat
        /\ Total(less, Card) \in Nat
    BY TotalSmaller, TotalNat
  <2>3. SignatureCount[h] + Total(bag, Card) <= MaxDeck
    BY <1>1 DEF NothingBlocks
  <2> QED
    BY <2>1, <2>2, <2>3
<1>4. AspectsAllow(p, less)
  <2>1. OffAspect(p, less) \in SUBSET OffAspect(p, bag) /\ OffAspect(p, bag) \in SUBSET Card
        /\ OffAspect(p, less) \in SUBSET Card
    BY DEF OffAspect, Held, Bag
  <2>2. OffAspect(p, bag) \subseteq Own[h] /\ Total(bag, OffAspect(p, bag)) <= OwnLimit[h]
    BY <1>1 DEF NothingBlocks, AspectsAllow
  <2>3. OwnLimit[h] \in Nat
    BY CardsAssumption
  <2>4. /\ Total(less, OffAspect(p, less)) <= Total(bag, OffAspect(p, bag))
        /\ Total(bag, OffAspect(p, bag)) \in Nat /\ Total(less, OffAspect(p, less)) \in Nat
    BY <2>1, TotalSmaller, TotalNat
  <2> QED
    BY <1>1, <2>1, <2>2, <2>3, <2>4 DEF AspectsAllow
<1> QED
  BY <1>1, <1>2, <1>3, <1>4 DEF NothingBlocks

(* A deck without a card is legal but for its size. *)
LEMMA EmptyBlocksNothing ==
  ASSUME NEW p \in Player, p.hero \in Hero,
         Cardinality(p.aspects) = AspectCount[p.hero]
  PROVE  NothingBlocks(p, NoCards)
<1>1. PICK h \in Hero : h = p.hero
  OBVIOUS
<1>2. Held(NoCards) = {}
  BY NoCardsBag DEF Held
<1>3. WithinLimits(h, NoCards) /\ UniquesOnce(h, NoCards)
  BY <1>2 DEF WithinLimits, UniquesOnce, Titles
<1>4. SignatureCount[h] + Total(NoCards, Card) <= MaxDeck
  <2>1. SignatureCount[h] \in 0 .. MaxDeck /\ MaxDeck \in Nat
    BY CardsAssumption, SizesAssumption
  <2>2. Total(NoCards, Card) = 0
    BY TotalNoCards
  <2> QED
    BY <2>1, <2>2
<1>5. AspectsAllow(p, NoCards)
  <2>1. OffAspect(p, NoCards) = {}
    BY <1>2 DEF OffAspect
  <2>2. Total(NoCards, {}) = 0 /\ OwnLimit[h] \in Nat
    BY TotalNoCards, CardsAssumption
  <2> QED
    BY <1>1, <2>1, <2>2 DEF AspectsAllow
<1> QED
  BY <1>1, <1>3, <1>4, <1>5 DEF NothingBlocks

-----------------------------------------------------------------------------
(* Balance between the aspects. *)

LEMMA AspectsFinite == \A A \in SUBSET Aspect : IsFiniteSet(A)
<1>1. IsFiniteSet(Aspect)
  BY CardsAssumption
<1> QED
  BY <1>1, FS_Subset

LEMMA OfAspectNat ==
  ASSUME NEW bag \in Bag, NEW a
  PROVE  OfAspect(bag, a) \in Nat
<1>1. {c \in Card : FactionOf[c] = a} \in SUBSET Card
  OBVIOUS
<1> QED
  BY <1>1, TotalNat DEF OfAspect

LEMMA MostIs ==
  ASSUME NEW p \in Player, NEW bag \in Bag, p.aspects # {}
  PROVE  /\ MostOf(p, bag) \in {OfAspect(bag, a) : a \in p.aspects}
         /\ MostOf(p, bag) \in Nat
         /\ \A a \in p.aspects : OfAspect(bag, a) <= MostOf(p, bag)
<1> DEFINE S == {OfAspect(bag, a) : a \in p.aspects}
<1> DEFINE f == [a \in p.aspects |-> OfAspect(bag, a)]
<1>1. IsFiniteSet(p.aspects)
  BY AspectsFinite DEF Player
<1>2. S = {f[a] : a \in p.aspects}
  OBVIOUS
<1>3. IsFiniteSet(S)
  <2> HIDE DEF f, S
  <2> QED
    BY <1>1, <1>2, ImageFinite
<1>4. S # {} /\ S \subseteq Nat
  BY OfAspectNat
<1>5. S \subseteq Int
  BY <1>4
<1>6. MostOf(p, bag) = Max(S)
  BY DEF MostOf
<1> HIDE DEF S
<1>7. Max(S) \in S /\ \A y \in S : Max(S) >= y
  BY <1>3, <1>4, <1>5, MaxIs
<1>8. \A a \in p.aspects : OfAspect(bag, a) \in S
  BY DEF S
<1>9. MostOf(p, bag) \in S /\ MostOf(p, bag) \in Nat
  BY <1>4, <1>6, <1>7
<1>10. \A a \in p.aspects : OfAspect(bag, a) <= MostOf(p, bag)
  BY <1>4, <1>6, <1>7, <1>8, <1>9
<1> QED
  BY <1>9, <1>10 DEF S

Lack(p, bag) == [a \in p.aspects |-> MostOf(p, bag) - OfAspect(bag, a)]

LEMMA LackIs ==
  ASSUME NEW p \in Player, NEW bag \in Bag
  PROVE  /\ Deficit(p, bag) = SumFunction(Lack(p, bag))
         /\ Lack(p, bag) \in [p.aspects -> Nat]
         /\ Deficit(p, bag) \in Nat
<1>1. Deficit(p, bag) = SumFunction(Lack(p, bag))
  BY DEF Deficit, Lack
<1>2. Lack(p, bag) \in [p.aspects -> Nat]
  <2> SUFFICES ASSUME NEW a \in p.aspects
               PROVE  MostOf(p, bag) - OfAspect(bag, a) \in Nat
    BY DEF Lack
  <2>1. OfAspect(bag, a) \in Nat
    BY OfAspectNat
  <2>2. MostOf(p, bag) \in Nat /\ OfAspect(bag, a) <= MostOf(p, bag)
    BY MostIs
  <2> QED
    BY <2>1, <2>2
<1>3. IsFiniteSet(p.aspects)
  BY AspectsFinite DEF Player
<1>4. SumFunction(Lack(p, bag)) \in Nat
  BY <1>2, <1>3, SumIsNat
<1> QED
  BY <1>1, <1>2, <1>4

LEMMA EmptyIsBalanced ==
  ASSUME NEW p \in Player
  PROVE  Deficit(p, NoCards) = 0
<1>0. NoCards \in Bag
  BY NoCardsBag
<1>1. \A a : OfAspect(NoCards, a) = 0
  <2> SUFFICES ASSUME NEW a PROVE OfAspect(NoCards, a) = 0
    OBVIOUS
  <2>1. {c \in Card : FactionOf[c] = a} \in SUBSET Card
    OBVIOUS
  <2> QED
    BY <2>1, TotalNoCards DEF OfAspect
<1>2. Lack(p, NoCards) = [a \in p.aspects |-> 0]
  <2> SUFFICES ASSUME NEW a \in p.aspects
               PROVE  MostOf(p, NoCards) - OfAspect(NoCards, a) = 0
    BY DEF Lack
  <2>1. MostOf(p, NoCards) = 0
    BY <1>0, <1>1, MostIs
  <2> QED
    BY <1>1, <2>1
<1>3. IsFiniteSet(p.aspects)
  BY AspectsFinite DEF Player
<1> QED
  BY <1>0, <1>2, <1>3, LackIs, SumOfZeros

(* A copy taken back leaves at most one more to make up. *)
LEMMA DeficitAfterMinus ==
  ASSUME NEW p \in Player, NEW bag \in Bag, NEW c \in Card, bag[c] > 0
  PROVE  Deficit(p, Minus(bag, c)) <= Deficit(p, bag) + 1
<1> DEFINE f == Lack(p, bag)
<1> DEFINE g == Lack(p, Minus(bag, c))
<1>1. PICK z : z = FactionOf[c]
  OBVIOUS
<1> DEFINE h == [a \in p.aspects |-> IF a = z THEN f[a] + 1 ELSE f[a]]
<1>2. PICK less \in Bag : less = Minus(bag, c)
  BY PlusMinus
<1>3. IsFiniteSet(p.aspects)
  BY AspectsFinite DEF Player
<1>4. /\ f \in [p.aspects -> Nat] /\ Deficit(p, bag) = SumFunction(f)
      /\ Deficit(p, bag) \in Nat
  BY LackIs
<1>5. g \in [p.aspects -> Nat] /\ Deficit(p, less) = SumFunction(g)
  BY <1>2, LackIs
<1>6. h \in [p.aspects -> Nat]
  <2> HIDE DEF f
  <2> QED
    BY <1>4
<1>7. \A a : OfAspect(less, a) = OfAspect(bag, a) - (IF a = z THEN 1 ELSE 0)
  <2> SUFFICES ASSUME NEW a
               PROVE  OfAspect(less, a) = OfAspect(bag, a) - (IF a = z THEN 1 ELSE 0)
    OBVIOUS
  <2>1. PICK S \in SUBSET Card : S = {x \in Card : FactionOf[x] = a}
    OBVIOUS
  <2>2. Total(less, S) = Total(bag, S) - (IF c \in S THEN 1 ELSE 0)
    BY <1>2, PlusMinus
  <2>3. c \in S <=> a = z
    BY <1>1, <2>1
  <2> QED
    BY <2>1, <2>2, <2>3 DEF OfAspect
<1>8. \A a \in p.aspects : g[a] <= h[a]
  <2> SUFFICES ASSUME NEW a \in p.aspects PROVE g[a] <= h[a]
    OBVIOUS
  <2>1. /\ MostOf(p, bag) \in Nat /\ \A b \in p.aspects : OfAspect(bag, b) <= MostOf(p, bag)
        /\ MostOf(p, less) \in Nat
    BY MostIs
  <2>2. PICK b \in p.aspects : MostOf(p, less) = OfAspect(less, b)
    BY MostIs
  <2>3. \A x : OfAspect(bag, x) \in Nat /\ OfAspect(less, x) \in Nat
    BY OfAspectNat
  <2>4. MostOf(p, less) <= MostOf(p, bag)
    BY <1>7, <2>1, <2>2, <2>3
  <2>5. /\ f[a] = MostOf(p, bag) - OfAspect(bag, a)
        /\ g[a] = MostOf(p, less) - OfAspect(less, a)
    BY <1>2 DEF Lack
  <2> HIDE DEF f, g
  <2>6. h[a] = IF a = z THEN f[a] + 1 ELSE f[a]
    OBVIOUS
  <2> HIDE DEF h
  <2> QED
    BY <1>7, <2>1, <2>3, <2>4, <2>5, <2>6
<1>9. SumFunction(g) <= SumFunction(h)
  <2>1. DOMAIN g = p.aspects /\ DOMAIN h = p.aspects
    BY DEF Lack
  <2>2. \A a \in p.aspects : h[a] \in Nat /\ g[a] \in Nat /\ g[a] <= h[a]
    BY <1>5, <1>6, <1>8
  <2> HIDE DEF f, g, h
  <2>3. SumFunctionOnSet(g, p.aspects) <= SumFunctionOnSet(h, p.aspects)
    BY <1>3, <2>2, SumSmaller
  <2> QED
    BY <2>1, <2>3 DEF SumFunction
<1>10. SumFunction(h) <= SumFunction(f) + 1
  <2>1. CASE z \in p.aspects
    <3>1. f \in [p.aspects -> Int] /\ h \in [p.aspects -> Int]
      BY <1>4, <1>6
    <3>2. \A a \in p.aspects \ {z} : h[a] = f[a]
      OBVIOUS
    <3>3. h[z] = f[z] + 1 /\ f[z] \in Nat
      BY <1>4, <2>1
    <3> HIDE DEF f, h
    <3>4. SumFunction(h) = SumFunction(f) + h[z] - f[z]
      BY <1>3, <2>1, <3>1, <3>2, SumMoves
    <3> QED
      BY <1>4, <3>3, <3>4
  <2>2. CASE z \notin p.aspects
    <3>1. h = [a \in p.aspects |-> f[a]]
      BY <2>2
    <3> HIDE DEF f
    <3>2. h = f
      BY <1>4, <3>1
    <3> HIDE DEF h
    <3> QED
      BY <1>4, <3>2
  <2> QED
    BY <2>1, <2>2
<1>11. SumFunction(g) \in Nat /\ SumFunction(h) \in Nat
  <2> HIDE DEF f, g, h
  <2> QED
    BY <1>3, <1>5, <1>6, SumIsNat
<1> HIDE DEF f, g, h
<1> QED
  BY <1>2, <1>4, <1>5, <1>9, <1>10, <1>11

LEMMA CountNat ==
  ASSUME NEW p \in Player
  PROVE  CardCount(p) \in Nat
<1>1. p.picks \in Bag /\ p.hero \in Hero \cup {NoHero}
  BY DEF Player, Bag
<1>2. Total(p.picks, Card) \in Nat
  BY <1>1, TotalNat
<1>3. p.hero \in Hero => SignatureCount[p.hero] \in Nat
  BY CardsAssumption, SizesAssumption
<1> QED
  BY <1>1, <1>2, <1>3 DEF CardCount

-----------------------------------------------------------------------------
(* Packs: the copies of a card in a queue of them. *)

InPacks(q, c) == Cardinality({k \in DOMAIN q : c \in q[k]})

LEMMA PacksFinite ==
  ASSUME NEW X, NEW q \in Seq(X), NEW c
  PROVE  /\ IsFiniteSet({k \in DOMAIN q : c \in q[k]})
         /\ InPacks(q, c) \in Nat
<1>1. PICK S : S = {k \in DOMAIN q : c \in q[k]}
  OBVIOUS
<1>2. S \in SUBSET Nat /\ \A s \in S : s <= Len(q)
  BY <1>1
<1>3. Len(q) \in Nat
  OBVIOUS
<1>4. IsFiniteSet(S)
  BY <1>2, <1>3, FS_BoundedSetOfNaturals
<1>5. Cardinality(S) \in Nat
  BY <1>4, FS_CardinalityType
<1> QED
  BY <1>1, <1>4, <1>5 DEF InPacks

LEMMA NoPacks == ASSUME NEW c PROVE InPacks(<<>>, c) = 0
<1>1. {k \in DOMAIN <<>> : c \in <<>>[k]} = {}
  OBVIOUS
<1> QED
  BY <1>1, FS_EmptySet DEF InPacks

LEMMA PackHolds ==
  ASSUME NEW X, NEW q \in Seq(X), NEW k \in DOMAIN q, NEW c \in q[k]
  PROVE  InPacks(q, c) >= 1
<1>1. PICK S : S = {j \in DOMAIN q : c \in q[j]}
  OBVIOUS
<1>2. IsFiniteSet(S) /\ S # {} /\ Cardinality(S) \in Nat
  BY <1>1, PacksFinite DEF InPacks
<1>3. Cardinality(S) # 0
  BY <1>2, FS_EmptySet
<1> QED
  BY <1>1, <1>2, <1>3 DEF InPacks

LEMMA PackAdded ==
  ASSUME NEW X, NEW q \in Seq(X), NEW e \in X, NEW c
  PROVE  InPacks(Append(q, e), c) = InPacks(q, c) + (IF c \in e THEN 1 ELSE 0)
<1>1. PICK S : S = {k \in DOMAIN q : c \in q[k]}
  OBVIOUS
<1>2. IsFiniteSet(S) /\ Cardinality(S) \in Nat /\ Cardinality(S) = InPacks(q, c)
  BY <1>1, PacksFinite DEF InPacks
<1>3. PICK m \in Nat : m = Len(q)
  OBVIOUS
<1>4. DOMAIN q = 1 .. m /\ DOMAIN Append(q, e) = 1 .. m + 1
      /\ Append(q, e)[m + 1] = e /\ \A k \in 1 .. m : Append(q, e)[k] = q[k]
  BY <1>3
<1>5. {k \in DOMAIN Append(q, e) : c \in Append(q, e)[k]} =
          IF c \in e THEN S \cup {m + 1} ELSE S
  BY <1>1, <1>4
<1>6. m + 1 \notin S
  BY <1>1, <1>4
<1>7. Cardinality(S \cup {m + 1}) = Cardinality(S) + 1
  BY <1>2, <1>6, FS_AddElement
<1>8. CASE c \in e
  <2>1. InPacks(Append(q, e), c) = Cardinality(S \cup {m + 1})
    BY <1>5, <1>8 DEF InPacks
  <2> QED
    BY <1>2, <1>7, <1>8, <2>1
<1>9. CASE c \notin e
  <2>1. InPacks(Append(q, e), c) = Cardinality(S)
    BY <1>5, <1>9 DEF InPacks
  <2> QED
    BY <1>2, <1>9, <2>1
<1> QED
  BY <1>8, <1>9

LEMMA OnePack ==
  ASSUME NEW e, NEW c
  PROVE  InPacks(<<e>>, c) = IF c \in e THEN 1 ELSE 0
<1>1. PICK X : X = {e}
  OBVIOUS
<1>2. PICK q : q = <<>>
  OBVIOUS
<1>3. q \in Seq(X) /\ e \in X /\ <<e>> = Append(q, e)
  BY <1>1, <1>2
<1>4. PICK v \in Nat : v = IF c \in e THEN 1 ELSE 0
  OBVIOUS
<1>5. InPacks(Append(q, e), c) = InPacks(q, c) + v
  BY <1>3, <1>4, PackAdded
<1>6. InPacks(q, c) = 0
  BY <1>2, NoPacks
<1>7. InPacks(<<e>>, c) = 0 + v
  BY <1>3, <1>5, <1>6
<1> QED
  BY <1>4, <1>7

LEMMA PacksSplit ==
  ASSUME NEW X, NEW q \in Seq(X), NEW u \in 0 .. Len(q), NEW c
  PROVE  /\ SubSeq(q, 1, u) \in Seq(X) /\ SubSeq(q, u + 1, Len(q)) \in Seq(X)
         /\ InPacks(SubSeq(q, 1, u), c) + InPacks(SubSeq(q, u + 1, Len(q)), c) = InPacks(q, c)
<1>1. PICK m \in Nat : m = Len(q)
  OBVIOUS
<1>2. PICK a : a = SubSeq(q, 1, u)
  OBVIOUS
<1>3. PICK b : b = SubSeq(q, u + 1, m)
  OBVIOUS
<1>4. a \in Seq(X) /\ Len(a) = u /\ \A k \in 1 .. u : a[k] = q[k]
  BY <1>1, <1>2
<1>5. b \in Seq(X) /\ Len(b) = m - u /\ \A k \in 1 .. m - u : b[k] = q[k + u]
  BY <1>1, <1>3
<1>6. PICK A : A = {k \in DOMAIN a : c \in a[k]}
  OBVIOUS
<1>7. PICK B : B = {k \in DOMAIN b : c \in b[k]}
  OBVIOUS
<1>8. PICK Z : Z = {k \in u + 1 .. m : c \in q[k]}
  OBVIOUS
<1>9. IsFiniteSet(A) /\ IsFiniteSet(B) /\ Cardinality(A) = InPacks(a, c)
      /\ Cardinality(B) = InPacks(b, c) /\ Cardinality(A) \in Nat /\ Cardinality(B) \in Nat
  BY <1>4, <1>5, <1>6, <1>7, PacksFinite DEF InPacks
<1>10. DOMAIN a = 1 .. u /\ DOMAIN b = 1 .. m - u /\ DOMAIN q = 1 .. m
  BY <1>1, <1>4, <1>5
<1>11. IsFiniteSet(Z) /\ Cardinality(Z) = Cardinality(B)
  <2> DEFINE f == [k \in B |-> k + u]
  <2>1. \A k \in B : f[k] \in Z
    BY <1>5, <1>7, <1>8, <1>10
  <2>2. \A k \in Z : k - u \in B /\ f[k - u] = k
    BY <1>5, <1>7, <1>8, <1>10
  <2>3. \A j, k \in B : f[j] = f[k] => j = k
    BY <1>7, <1>10
  <2>4. f \in [B -> Z]
    BY <2>1
  <2>5. f \in Bijection(B, Z)
    <3> HIDE DEF f
    <3> QED
      BY <2>2, <2>3, <2>4 DEF Bijection, Injection, Surjection, IsInjective
  <2>6. ExistsBijection(B, Z)
    BY <2>5 DEF ExistsBijection
  <2> QED
    BY <1>9, <2>6, FS_Bijection
<1>12. A \cap Z = {} /\ A \cup Z = {k \in DOMAIN q : c \in q[k]}
  BY <1>4, <1>6, <1>8, <1>10
<1>13. Cardinality(A \cup Z) = Cardinality(A) + Cardinality(Z) - Cardinality(A \cap Z)
  BY <1>9, <1>11, FS_Union
<1>14. Cardinality(A \cup Z) = Cardinality(A) + Cardinality(Z)
  <2>1. Cardinality(A \cap Z) = 0
    BY <1>12, FS_EmptySet
  <2> QED
    BY <1>9, <1>11, <1>13, <2>1
<1> QED
  BY <1>1, <1>2, <1>3, <1>4, <1>5, <1>9, <1>11, <1>12, <1>14 DEF InPacks

LEMMA ReturnedIs ==
  ASSUME NEW X, NEW q \in Seq(X), NEW shelf \in Bag
  PROVE  /\ Returned(shelf, q) \in Bag
         /\ \A c \in Card : Returned(shelf, q)[c] = shelf[c] + InPacks(q, c)
<1>1. \A c \in Card : InPacks(q, c) \in Nat /\ shelf[c] \in Nat
  BY PacksFinite DEF Bag
<1>2. \A c \in Card : Returned(shelf, q)[c] = shelf[c] + InPacks(q, c)
  BY DEF Returned, InPacks
<1>3. Returned(shelf, q) = [c \in Card |-> shelf[c] + InPacks(q, c)]
  BY DEF Returned, InPacks
<1> QED
  BY <1>1, <1>2, <1>3 DEF Bag

OnTable(offer, c) == IF c \in offer THEN 1 ELSE 0

LEMMA WithoutIs ==
  ASSUME NEW shelf \in Bag, NEW pack, \A c \in Card : c \in pack => shelf[c] > 0
  PROVE  /\ Without(shelf, pack) \in Bag
         /\ \A c \in Card : /\ Without(shelf, pack)[c] = shelf[c] - OnTable(pack, c)
                           /\ OnTable(pack, c) \in Nat
<1>1. \A c \in Card : shelf[c] \in Nat
  BY DEF Bag
<1> QED
  BY <1>1 DEF Without, Bag, OnTable

-----------------------------------------------------------------------------
(* A draft at a table of these seats. *)

PackSet == kSubset(OfferSize, Card)

LEMMA InPack == ASSUME NEW e \in PackSet PROVE e \subseteq Card
  BY DEF PackSet, kSubset

Queue == Seq(PackSet)

Queues(S) == [S -> Queue]

Players(S) == [S -> Player]

Drafts(S) ==
    [id : 1 .. MaxDrafts, format : Format, mode : Mode, collection : Collection,
     players : Players(S), phase : {"identity", "pick", "finish"},
     current : S, stock : Bag, packs : Queues(S), offer : SUBSET Card,
     pools : [S -> Bag], opened : [S -> 0 .. BoosterCount],
     building : [S -> BOOLEAN], short : SUBSET S]

Shape(S, d) == d \in Drafts(S)

LEMMA ShapeIs ==
  ASSUME NEW S, NEW d, Shape(S, d)
  PROVE  /\ d.players \in Players(S) /\ d.packs \in Queues(S)
         /\ d.current \in S /\ d.stock \in Bag /\ d.offer \in SUBSET Card
         /\ d.collection \in Bag /\ d.pools \in [S -> Bag]
         /\ d.short \in SUBSET S
         /\ d.phase \in {"identity", "pick", "finish"}
         /\ Seats(d) = S /\ Current(d) = d.players[d.current]
         /\ Current(d) \in Player
<1>1. d.collection \in Bag
  BY TableAssumption DEF Shape, Drafts, Bag
<1> QED
  BY <1>1 DEF Shape, Drafts, Seats, Current, Players

PacksHeld(packs, c) == SumFunction([i \in DOMAIN packs |-> InPacks(packs[i], c)])

PicksHeld(players, c) == SumFunction([i \in DOMAIN players |-> players[i].picks[c]])

LEMMA PacksHeldMove ==
  ASSUME NEW S, IsFiniteSet(S), NEW packs \in Queues(S), NEW other \in Queues(S), NEW s \in S,
         \A i \in S \ {s} : other[i] = packs[i], NEW c
  PROVE  PacksHeld(other, c) = PacksHeld(packs, c) + InPacks(other[s], c) - InPacks(packs[s], c)
<1> DEFINE f == [i \in S |-> InPacks(packs[i], c)]
<1> DEFINE g == [i \in S |-> InPacks(other[i], c)]
<1>1. f \in [S -> Int] /\ g \in [S -> Int]
  <2>1. \A i \in S : packs[i] \in Queue /\ other[i] \in Queue
    BY DEF Queues
  <2>2. \A q \in Queue : InPacks(q, c) \in Nat
    BY PacksFinite DEF Queue
  <2>3. \A i \in S : InPacks(packs[i], c) \in Int /\ InPacks(other[i], c) \in Int
    BY <2>1, <2>2
  <2> QED
    BY <2>3
<1>2. PacksHeld(packs, c) = SumFunction(f) /\ PacksHeld(other, c) = SumFunction(g)
  BY DEF PacksHeld, Queues
<1>3. \A i \in S \ {s} : g[i] = f[i]
  OBVIOUS
<1>4. f[s] = InPacks(packs[s], c) /\ g[s] = InPacks(other[s], c)
  OBVIOUS
<1> HIDE DEF f, g
<1>5. SumFunction(g) = SumFunction(f) + g[s] - f[s]
  BY <1>1, <1>3, SumMoves
<1> QED
  BY <1>2, <1>4, <1>5

LEMMA PicksHeldMove ==
  ASSUME NEW S, IsFiniteSet(S), NEW players \in Players(S), NEW other \in Players(S),
         NEW s \in S, \A i \in S \ {s} : other[i] = players[i], NEW c \in Card
  PROVE  PicksHeld(other, c) = PicksHeld(players, c) + other[s].picks[c] - players[s].picks[c]
<1> DEFINE f == [i \in S |-> players[i].picks[c]]
<1> DEFINE g == [i \in S |-> other[i].picks[c]]
<1>1. f \in [S -> Int] /\ g \in [S -> Int]
  <2>1. \A i \in S : players[i] \in Player /\ other[i] \in Player
    BY DEF Players
  <2>2. \A i \in S : players[i].picks[c] \in Int /\ other[i].picks[c] \in Int
    BY <2>1 DEF Player
  <2> QED
    BY <2>2
<1>2. PicksHeld(players, c) = SumFunction(f) /\ PicksHeld(other, c) = SumFunction(g)
  BY DEF PicksHeld, Players
<1>3. \A i \in S \ {s} : g[i] = f[i]
  OBVIOUS
<1>4. f[s] = players[s].picks[c] /\ g[s] = other[s].picks[c]
  OBVIOUS
<1> HIDE DEF f, g
<1>5. SumFunction(g) = SumFunction(f) + g[s] - f[s]
  BY <1>1, <1>3, SumMoves
<1> QED
  BY <1>2, <1>4, <1>5

LEMMA HeldNat ==
  ASSUME NEW S, IsFiniteSet(S), NEW c \in Card
  PROVE  /\ \A players \in Players(S) : PicksHeld(players, c) \in Nat
         /\ \A packs \in Queues(S) : PacksHeld(packs, c) \in Nat
<1>1. ASSUME NEW players \in Players(S) PROVE PicksHeld(players, c) \in Nat
  <2> DEFINE f == [i \in S |-> players[i].picks[c]]
  <2>1. \A i \in S : players[i] \in Player
    BY DEF Players
  <2>2. f \in [S -> Nat] /\ PicksHeld(players, c) = SumFunction(f)
    BY <2>1 DEF PicksHeld, Players, Player
  <2> HIDE DEF f
  <2> QED
    BY <2>2, SumIsNat
<1>2. ASSUME NEW packs \in Queues(S) PROVE PacksHeld(packs, c) \in Nat
  <2> DEFINE f == [i \in S |-> InPacks(packs[i], c)]
  <2>1. \A i \in S : packs[i] \in Queue
    BY DEF Queues
  <2>2. \A i \in S : InPacks(packs[i], c) \in Nat
    BY <2>1, PacksFinite DEF Queue
  <2>3. f \in [S -> Nat] /\ PacksHeld(packs, c) = SumFunction(f)
    BY <2>2 DEF PacksHeld, Queues
  <2> HIDE DEF f
  <2> QED
    BY <2>3, SumIsNat
<1> QED
  BY <1>1, <1>2

(* The copies of a card in a draft: on the shelf, in decks, in packs and on *)
(* the table.                                                               *)
Outside(stock, packs, offer, c) ==
    stock[c] + PacksHeld(packs, c) + OnTable(offer, c)

DraftCopies(d, c) ==
    PicksHeld(d.players, c) + Outside(d.stock, d.packs, d.offer, c)

(* What opening and building packs leaves alone, and what it may not lose. *)
Kept(d, e) ==
    /\ e.id = d.id /\ e.format = d.format /\ e.mode = d.mode
    /\ e.collection = d.collection /\ e.players = d.players /\ e.pools = d.pools
    /\ e.opened = d.opened /\ e.building = d.building /\ e.short = d.short

Deals(S, d, e) ==
    /\ Shape(S, e) /\ Kept(d, e) /\ e.phase = d.phase /\ e.current = d.current
    /\ \A c \in Card : DraftCopies(e, c) = DraftCopies(d, c)

LEMMA DealsOn ==
  ASSUME NEW S, NEW d, NEW e, NEW g, Deals(S, d, e), Deals(S, e, g)
  PROVE  Deals(S, d, g)
  BY DEF Deals, Kept

(* The record that opening or building packs makes of d. *)
Redeal(d, stock, packs, offer) ==
    [d EXCEPT !.stock = stock, !.packs = packs, !.offer = offer]

LEMMA Redealt ==
  ASSUME NEW S, IsFiniteSet(S), NEW d, Shape(S, d), NEW stock \in Bag,
         NEW packs \in Queues(S), NEW offer \in SUBSET Card,
         \A c \in Card : Outside(stock, packs, offer, c)
                            = Outside(d.stock, d.packs, d.offer, c)
  PROVE  LET e == Redeal(d, stock, packs, offer) IN
         /\ Deals(S, d, e)
         /\ e.stock = stock /\ e.packs = packs /\ e.offer = offer
<1>1. PICK e : e = Redeal(d, stock, packs, offer)
  OBVIOUS
<1>2. Shape(S, e) /\ e.stock = stock /\ e.packs = packs /\ e.offer = offer
  BY <1>1 DEF Shape, Drafts, Redeal
<1>3. Kept(d, e) /\ e.phase = d.phase /\ e.current = d.current
  BY <1>1 DEF Shape, Drafts, Kept, Redeal
<1>4. Deals(S, d, e)
  BY <1>2, <1>3 DEF Deals, DraftCopies, Kept
<1> QED
  BY <1>1, <1>2, <1>4

QueuePut(packs, s, rest) == [packs EXCEPT ![s] = rest]

LEMMA QueueChanged ==
  ASSUME NEW S, IsFiniteSet(S), NEW packs \in Queues(S), NEW s \in S,
         NEW rest \in Queue
  PROVE  /\ packs[s] \in Queue
         /\ QueuePut(packs, s, rest) \in Queues(S)
         /\ QueuePut(packs, s, rest)[s] = rest
         /\ \A i \in S \ {s} : QueuePut(packs, s, rest)[i] = packs[i]
         /\ \A c \in Card : PacksHeld(QueuePut(packs, s, rest), c)
                             = PacksHeld(packs, c) + InPacks(rest, c) - InPacks(packs[s], c)
<1>1. packs[s] \in Queue /\ QueuePut(packs, s, rest) \in Queues(S)
  BY DEF Queues, QueuePut
<1>2. PICK other : other = QueuePut(packs, s, rest)
  OBVIOUS
<1>3. other[s] = rest /\ \A i \in S \ {s} : other[i] = packs[i]
  BY <1>2 DEF Queues, QueuePut
<1>4. \A c \in Card : PacksHeld(other, c)
                       = PacksHeld(packs, c) + InPacks(other[s], c) - InPacks(packs[s], c)
  <2>1. other \in Queues(S)
    BY <1>1, <1>2
  <2> QED
    BY <1>3, <2>1, PacksHeldMove
<1> QED
  BY <1>1, <1>2, <1>3, <1>4

(* The packs a player opens are the first of the queue. *)
LEMMA FrontOf ==
  ASSUME NEW q \in Queue, NEW u \in 0 .. Len(q), NEW legal,
         legal # {} => u \in DOMAIN q /\ legal \subseteq q[u]
  PROVE  /\ SubSeq(q, 1, u) \in Queue /\ SubSeq(q, u + 1, Len(q)) \in Queue
         /\ legal \subseteq Card
         /\ \A c \in legal : InPacks(SubSeq(q, 1, u), c) >= 1
<1>1. SubSeq(q, 1, u) \in Queue /\ SubSeq(q, u + 1, Len(q)) \in Queue
  BY PacksSplit DEF Queue
<1>2. legal \subseteq Card
  <2>1. CASE legal = {}
    BY <2>1
  <2>2. CASE legal # {}
    <3>1. q[u] \in PackSet
      BY <2>2 DEF Queue
    <3> QED
      BY <2>2, <3>1, InPack
  <2> QED
    BY <2>1, <2>2
<1>3. ASSUME NEW c \in legal
      PROVE  InPacks(SubSeq(q, 1, u), c) >= 1
  <2>1. u \in DOMAIN q /\ c \in q[u]
    BY <1>3
  <2>2. PICK front : front = SubSeq(q, 1, u)
    OBVIOUS
  <2>3. u \in DOMAIN front /\ front[u] = q[u]
    BY <2>1, <2>2
  <2>4. front \in Queue /\ c \in front[u]
    BY <1>1, <2>1, <2>2, <2>3
  <2> QED
    BY <2>2, <2>3, <2>4, PackHolds DEF Queue
<1> QED
  BY <1>1, <1>2, <1>3

LEMMA OpenedAdds ==
  ASSUME NEW S, IsFiniteSet(S), NEW packs \in Queues(S), NEW packs2 \in Queues(S),
         NEW stock \in Bag, NEW stock2 \in Bag, NEW q \in Queue,
         NEW front \in Queue, NEW rest \in Queue, NEW legal, NEW c \in Card,
         InPacks(front, c) + InPacks(rest, c) = InPacks(q, c),
         PacksHeld(packs2, c) = PacksHeld(packs, c) + InPacks(rest, c) - InPacks(q, c),
         stock2[c] = stock[c] + InPacks(front, c) - OnTable(legal, c)
  PROVE  Outside(stock2, packs2, legal, c) = Outside(stock, packs, {}, c)
<1>1. stock[c] \in Nat /\ stock2[c] \in Nat
  BY DEF Bag
<1>2. InPacks(front, c) \in Nat /\ InPacks(rest, c) \in Nat /\ InPacks(q, c) \in Nat
  BY PacksFinite DEF Queue
<1>3. PacksHeld(packs, c) \in Nat /\ PacksHeld(packs2, c) \in Nat
  BY HeldNat
<1>4. OnTable(legal, c) \in Nat /\ OnTable({}, c) = 0
  BY DEF OnTable
<1>5. stock2[c] + PacksHeld(packs2, c) + OnTable(legal, c) = stock[c] + PacksHeld(packs, c) + 0
  BY <1>1, <1>2, <1>3, <1>4
<1> QED
  BY <1>4, <1>5 DEF Outside

(* The shelf and the packs after the first u of a queue were opened. *)
ShelfOpened(stock, q, u, legal) == Without(Returned(stock, SubSeq(q, 1, u)), legal)

QueuesOpened(packs, s, u) == QueuePut(packs, s, SubSeq(packs[s], u + 1, Len(packs[s])))

MayShow(q, u, legal) ==
    u \in 0 .. Len(q) /\ (legal # {} => u \in DOMAIN q /\ legal \subseteq q[u])

OpenedWell(S, packs, s, stock, u, legal) ==
    LET other == QueuesOpened(packs, s, u)
        left == ShelfOpened(stock, packs[s], u, legal)
    IN  /\ other \in Queues(S) /\ left \in Bag /\ legal \subseteq Card
        /\ \A c \in Card : Outside(left, other, legal, c) = Outside(stock, packs, {}, c)

LEMMA OpenedCopies ==
  ASSUME NEW S, IsFiniteSet(S), NEW packs \in Queues(S), NEW s \in S, NEW stock \in Bag,
         NEW u, NEW legal, MayShow(packs[s], u, legal)
  PROVE  OpenedWell(S, packs, s, stock, u, legal)
<1>1. PICK q \in Queue : q = packs[s]
  BY DEF Queues
<1>2. u \in 0 .. Len(q) /\ (legal # {} => u \in DOMAIN q /\ legal \subseteq q[u])
  BY <1>1 DEF MayShow
<1>3. PICK front : front = SubSeq(q, 1, u)
  OBVIOUS
<1>4. PICK rest : rest = SubSeq(q, u + 1, Len(q))
  OBVIOUS
<1>5. front \in Queue /\ rest \in Queue /\ legal \subseteq Card
      /\ \A c \in legal : InPacks(front, c) >= 1
  BY <1>2, <1>3, <1>4, FrontOf
<1>6. PICK shelf : shelf = Returned(stock, front)
  OBVIOUS
<1>7. shelf \in Bag /\ \A c \in Card : shelf[c] = stock[c] + InPacks(front, c)
  BY <1>5, <1>6, ReturnedIs DEF Queue
<1>8. \A c \in Card : stock[c] \in Nat /\ InPacks(front, c) \in Nat
  <2>1. \A x \in Queue : \A c \in Card : InPacks(x, c) \in Nat
    BY PacksFinite DEF Queue
  <2> QED
    BY <1>5, <2>1 DEF Bag
<1>9. \A c \in Card : c \in legal => shelf[c] > 0
  BY <1>5, <1>7, <1>8
<1>10. PICK left : left = Without(shelf, legal)
  OBVIOUS
<1>11. left \in Bag /\ \A c \in Card : left[c] = shelf[c] - OnTable(legal, c)
  BY <1>7, <1>9, <1>10, WithoutIs
<1>12. PICK other : other = QueuePut(packs, s, rest)
  OBVIOUS
<1>13. other \in Queues(S)
       /\ \A c \in Card : PacksHeld(other, c)
                           = PacksHeld(packs, c) + InPacks(rest, c) - InPacks(packs[s], c)
  BY <1>5, <1>12, QueueChanged
<1>14. ASSUME NEW c \in Card
       PROVE  Outside(left, other, legal, c) = Outside(stock, packs, {}, c)
  <2>1. InPacks(front, c) + InPacks(rest, c) = InPacks(q, c)
    BY <1>2, <1>3, <1>4, PacksSplit DEF Queue
  <2>2. PacksHeld(other, c) = PacksHeld(packs, c) + InPacks(rest, c) - InPacks(q, c)
    BY <1>1, <1>13
  <2>3. left[c] = stock[c] + InPacks(front, c) - OnTable(legal, c)
    <3>1. left[c] = shelf[c] - OnTable(legal, c) /\ OnTable(legal, c) \in Nat
      BY <1>7, <1>9, <1>10, <1>11, WithoutIs
    <3>2. shelf[c] = stock[c] + InPacks(front, c)
      BY <1>7
    <3>3. stock[c] \in Nat /\ InPacks(front, c) \in Nat
      BY <1>8
    <3> QED
      BY <3>1, <3>2, <3>3
  <2> QED
    BY <1>5, <1>11, <1>13, <2>1, <2>2, <2>3, OpenedAdds
<1>15. left = ShelfOpened(stock, packs[s], u, legal) /\ other = QueuesOpened(packs, s, u)
  BY <1>1, <1>3, <1>4, <1>6, <1>10, <1>12 DEF ShelfOpened, QueuesOpened
<1> QED
  BY <1>5, <1>11, <1>13, <1>14, <1>15 DEF OpenedWell

AfterOpening(d, u, legal) ==
    Redeal(d, ShelfOpened(d.stock, d.packs[d.current], u, legal),
           QueuesOpened(d.packs, d.current, u), legal)

LEMMA Opened ==
  ASSUME NEW S, IsFiniteSet(S), NEW d, Shape(S, d), d.offer = {},
         NEW u, NEW legal, MayShow(d.packs[d.current], u, legal)
  PROVE  Deals(S, d, AfterOpening(d, u, legal)) /\ AfterOpening(d, u, legal).offer = legal
<1>1. d.packs \in Queues(S) /\ d.current \in S /\ d.stock \in Bag
  BY ShapeIs
<1>2. PICK other : other = QueuesOpened(d.packs, d.current, u)
  OBVIOUS
<1>3. PICK left : left = ShelfOpened(d.stock, d.packs[d.current], u, legal)
  OBVIOUS
<1>4. OpenedWell(S, d.packs, d.current, d.stock, u, legal)
  BY <1>1, OpenedCopies
<1>5. /\ other \in Queues(S) /\ left \in Bag /\ legal \in SUBSET Card
      /\ \A c \in Card : Outside(left, other, legal, c) = Outside(d.stock, d.packs, d.offer, c)
  BY <1>2, <1>3, <1>4 DEF OpenedWell
<1>6. AfterOpening(d, u, legal) = Redeal(d, left, other, legal)
  BY <1>2, <1>3 DEF AfterOpening
<1> QED
  BY <1>5, <1>6, Redealt

LEMMA OpenFrontDeals ==
  ASSUME NEW S, IsFiniteSet(S), NEW d, Shape(S, d), d.offer = {}
  PROVE  /\ Deals(S, d, OpenFront(d))
         /\ \A c \in OpenFront(d).offer : CanTake(Current(d), c)
<1>1. d.packs[d.current] \in Queue
  BY ShapeIs DEF Queues
<1>2. PICK q : q = d.packs[d.current]
  OBVIOUS
<1>3. PICK alive : alive = {k \in DOMAIN q : Takeable(d, q[k]) # {}}
  OBVIOUS
<1>4. PICK u : u = IF alive = {} THEN Len(q) ELSE Min(alive)
  OBVIOUS
<1>5. PICK legal : legal = IF alive = {} THEN {} ELSE Takeable(d, q[u])
  OBVIOUS
<1>6. Len(q) \in Nat /\ DOMAIN q = 1 .. Len(q)
  BY <1>1, <1>2
<1>7. alive # {} => u \in alive
  <2>1. alive \in SUBSET Nat /\ \A k \in alive : k <= Len(q)
    BY <1>3, <1>6
  <2>2. IsFiniteSet(alive)
    BY <1>6, <2>1, FS_BoundedSetOfNaturals
  <2>3. alive \subseteq Int
    BY <2>1
  <2> QED
    BY <1>4, <2>2, <2>3, MinIs
<1>8. u \in 0 .. Len(q)
  <2>1. CASE alive = {}
    BY <1>4, <1>6, <2>1
  <2>2. CASE alive # {}
    <3>1. u \in 1 .. Len(q)
      BY <1>3, <1>6, <1>7, <2>2
    <3> QED
      BY <1>6, <3>1
  <2> QED
    BY <2>1, <2>2
<1>9. legal # {} => u \in DOMAIN q /\ legal \subseteq q[u]
  BY <1>3, <1>5, <1>7 DEF Takeable
<1>10. \A c \in legal : CanTake(Current(d), c)
  BY <1>5 DEF Takeable
<1>11. PICK e : e = OpenFront(d)
  OBVIOUS
<1>12. e = AfterOpening(d, u, legal)
  BY <1>2, <1>3, <1>4, <1>5, <1>11
     DEF OpenFront, AfterOpening, Redeal, QueuesOpened, QueuePut, ShelfOpened
<1>13. MayShow(d.packs[d.current], u, legal)
  BY <1>2, <1>8, <1>9 DEF MayShow
<1>14. Deals(S, d, e) /\ e.offer = legal
  BY <1>12, <1>13, Opened
<1> QED
  BY <1>10, <1>11, <1>14

(* The seats of a table of n players. *)
Places(S) == \E n \in Nat \ {0} : S = 0 .. n - 1

LEMMA SeatsFinite ==
  ASSUME NEW n \in Nat
  PROVE  IsFiniteSet(0 .. n - 1) /\ Cardinality(0 .. n - 1) = n
<1>1. PICK S : S = 0 .. n - 1
  OBVIOUS
<1>2. S \in SUBSET Nat /\ \A s \in S : s <= n
  BY <1>1
<1>3. IsFiniteSet(S)
  BY <1>2, FS_BoundedSetOfNaturals
<1>4. Cardinality(S) = n
  <2> DEFINE f == [k \in 1 .. n |-> k - 1]
  <2>1. f \in [1 .. n -> S]
    BY <1>1
  <2>2. \A s \in S : s + 1 \in 1 .. n /\ f[s + 1] = s
    BY <1>1
  <2>3. \A j, k \in 1 .. n : f[j] = f[k] => j = k
    OBVIOUS
  <2>4. f \in Bijection(1 .. n, S)
    <3> HIDE DEF f
    <3> QED
      BY <2>1, <2>2, <2>3 DEF Bijection, Injection, Surjection, IsInjective
  <2>5. ExistsBijection(1 .. n, S)
    BY <2>4 DEF ExistsBijection
  <2> QED
    BY <2>5, FS_CountingElements
<1> QED
  BY <1>1, <1>3, <1>4

LEMMA PlacesAre ==
  ASSUME NEW S, Places(S)
  PROVE  /\ IsFiniteSet(S) /\ S # {} /\ S \subseteq Nat /\ 0 \in S
         /\ Cardinality(S) \in Nat \ {0} /\ S = 0 .. Cardinality(S) - 1
         /\ \A k \in Int : k % Cardinality(S) \in S
<1>1. PICK n \in Nat \ {0} : S = 0 .. n - 1
  BY DEF Places
<1>2. IsFiniteSet(S) /\ Cardinality(S) = n
  BY <1>1, SeatsFinite
<1>3. \A k \in Int : k % n \in 0 .. n - 1
  OBVIOUS
<1>4. \A k \in Int : k % Cardinality(S) \in S
  BY <1>1, <1>2, <1>3
<1>5. 0 \in S /\ S \subseteq Nat /\ S # {}
  BY <1>1
<1> QED
  BY <1>1, <1>2, <1>4, <1>5

LEMMA NotNegative ==
  ASSUME NEW x \in Int
  PROVE  Max({0, x}) \in Nat /\ Max({0, x}) >= x /\ (x <= 0 => Max({0, x}) = 0)
<1>1. PICK T : T = {0, x}
  OBVIOUS
<1>2. IsFiniteSet(T) /\ T # {} /\ T \subseteq Int
  <2>1. IsFiniteSet({0}) /\ IsFiniteSet({x})
    BY FS_Singleton
  <2>2. IsFiniteSet({0} \cup {x})
    BY <2>1, FS_Union
  <2>3. T = {0} \cup {x}
    BY <1>1
  <2> QED
    BY <1>1, <2>2, <2>3
<1>3. Max(T) \in T /\ \A y \in T : Max(T) >= y
  BY <1>2, MaxIs
<1> QED
  BY <1>1, <1>3

LEMMA RemainingNat ==
  ASSUME NEW p \in Player
  PROVE  Remaining(p) \in Nat
<1>1. p.size - CardCount(p) \in Int
  <2>1. p.size \in Int
    BY SizesAssumption DEF Player
  <2> QED
    BY <2>1, CountNat
<1> QED
  BY <1>1, NotNegative DEF Remaining

(* buildPacks, its parts named. *)
Takers(d) == [i \in Seats(d) |-> {c \in PlayerPool(d.collection, d.players[i]) :
                                      CanTake(d.players[i], c)}]

Needed(d, wanted) ==
    [i \in Seats(d) |-> IF i \in wanted
                          THEN Max({0, Remaining(d.players[i]) - Len(d.packs[i])}) ELSE 0]

BuildTurns(d, wanted) == Max({Needed(d, wanted)[i] : i \in Seats(d)}) * Seated(d)

BuildStart(d, wanted) ==
    [stock |-> d.stock, packs |-> d.packs, needed |-> Needed(d, wanted), once |-> {},
     mine |-> [i \in Seats(d) |-> NoCards]]

BuildTurn(d, B, k) ==
    UNION {PackFor(d, Takers(d), b, (k - 1) \div Seated(d), (k - 1) % Seated(d)) : b \in B}

BuildStep(d, wanted, f, k) ==
    IF k = 0 THEN {BuildStart(d, wanted)} ELSE BuildTurn(d, f[k - 1], k)

BuildTable(d, wanted) ==
    CHOOSE f : f = [k \in 0 .. BuildTurns(d, wanted) |-> BuildStep(d, wanted, f, k)]

LEMMA BuildPacksIs ==
  ASSUME NEW d, NEW wanted
  PROVE  BuildPacks(d, wanted) = {[d EXCEPT !.stock = b.stock, !.packs = b.packs] :
                                     b \in BuildTable(d, wanted)[BuildTurns(d, wanted)]}
  BY DEF BuildPacks, BuildTable, BuildStep, BuildTurn, BuildStart, BuildTurns, Needed, Takers

LEMMA BuildTableExists ==
  ASSUME NEW d, NEW wanted, NEW m \in Nat
  PROVE  \E f : f = [k \in 0 .. m |-> BuildStep(d, wanted, f, k)]
<1> DEFINE N == {j \in Nat : \E f : f = [k \in 0 .. j |-> BuildStep(d, wanted, f, k)]}
<1>1. 0 \in N
  <2> DEFINE f == [k \in 0 .. 0 |-> {BuildStart(d, wanted)}]
  <2>1. \A k \in 0 .. 0 : BuildStep(d, wanted, f, k) = {BuildStart(d, wanted)}
    BY DEF BuildStep
  <2>2. f = [k \in 0 .. 0 |-> BuildStep(d, wanted, f, k)]
    BY <2>1
  <2> QED
    BY <2>2
<1>2. ASSUME NEW j \in Nat, j \in N
      PROVE  j + 1 \in N
  <2>1. PICK f : f = [k \in 0 .. j |-> BuildStep(d, wanted, f, k)]
    BY <1>2
  <2>2. PICK B : B = BuildTurn(d, f[j], j + 1)
    OBVIOUS
  <2> DEFINE g == [k \in 0 .. j + 1 |-> IF k = j + 1 THEN B ELSE f[k]]
  <2>3. \A k \in 0 .. j : g[k] = f[k]
    OBVIOUS
  <2>4. g[j + 1] = B
    OBVIOUS
  <2>5. ASSUME NEW k \in 0 .. j + 1
        PROVE  g[k] = BuildStep(d, wanted, g, k)
    <3>1. CASE k = 0
      <4>1. f[0] = BuildStep(d, wanted, f, 0)
        BY <2>1
      <4>2. f[0] = {BuildStart(d, wanted)}
        BY <4>1 DEF BuildStep
      <4>3. BuildStep(d, wanted, g, k) = {BuildStart(d, wanted)}
        BY <3>1 DEF BuildStep
      <4>4. g[k] = f[0]
        BY <2>3, <3>1
      <4> QED
        BY <4>2, <4>3, <4>4
    <3>2. CASE k \in 1 .. j
      <4>1. f[k] = BuildStep(d, wanted, f, k)
        BY <2>1, <3>2
      <4>2. k # 0 /\ k - 1 \in 0 .. j /\ k \in 0 .. j
        BY <3>2
      <4>3. g[k - 1] = f[k - 1] /\ g[k] = f[k]
        BY <2>3, <4>2
      <4> HIDE DEF g
      <4> QED
        BY <4>1, <4>2, <4>3 DEF BuildStep
    <3>3. CASE k = j + 1
      <4>1. k # 0 /\ k - 1 = j /\ j \in 0 .. j
        BY <3>3
      <4>2. g[k - 1] = f[j] /\ g[k] = B
        BY <2>3, <2>4, <3>3, <4>1
      <4> HIDE DEF g
      <4> QED
        BY <2>2, <3>3, <4>1, <4>2 DEF BuildStep
    <3> QED
      BY <3>1, <3>2, <3>3
  <2>6. g = [k \in 0 .. j + 1 |-> BuildStep(d, wanted, g, k)]
    <3>1. g = [k \in 0 .. j + 1 |-> g[k]]
      OBVIOUS
    <3> HIDE DEF g
    <3> QED
      BY <2>5, <3>1
  <2>7. \E h : h = [k \in 0 .. j + 1 |-> BuildStep(d, wanted, h, k)]
    <3> HIDE DEF g
    <3> QED
      BY <2>6
  <2> QED
    BY <2>7
<1> HIDE DEF N
<1>3. m \in N
  BY <1>1, <1>2, FromZeroUp
<1> QED
  BY <1>3 DEF N

(* A building of packs that has lost no copy of the draft's. *)
Builds(S, d, b) ==
    /\ b = [stock |-> b.stock, packs |-> b.packs, needed |-> b.needed, once |-> b.once,
            mine |-> b.mine]
    /\ b.stock \in Bag /\ b.packs \in Queues(S)
    /\ \A c \in Card : Outside(b.stock, b.packs, d.offer, c)
                         = Outside(d.stock, d.packs, d.offer, c)

(* A full pack of these cards, each still on the shelf, goes into a queue. *)
LEMMA PackBuilt ==
  ASSUME NEW S, IsFiniteSet(S), NEW packs \in Queues(S), NEW s \in S, NEW stock \in Bag,
         NEW pack \in PackSet, \A c \in pack : stock[c] > 0, NEW offer
  PROVE  LET other == QueuePut(packs, s, Append(packs[s], pack))
             left == Without(stock, pack)
         IN  /\ other \in Queues(S) /\ left \in Bag
             /\ \A c \in Card : Outside(left, other, offer, c) = Outside(stock, packs, offer, c)
<1>1. PICK q \in Queue : q = packs[s]
  BY DEF Queues
<1>2. PICK longer : longer = Append(q, pack)
  OBVIOUS
<1>3. longer \in Queue
  BY <1>2 DEF Queue
<1>4. \A c \in Card : InPacks(longer, c) = InPacks(q, c) + OnTable(pack, c)
  BY <1>2, PackAdded DEF Queue, OnTable
<1>5. PICK other : other = QueuePut(packs, s, longer)
  OBVIOUS
<1>6. other \in Queues(S)
       /\ \A c \in Card : PacksHeld(other, c)
                           = PacksHeld(packs, c) + InPacks(longer, c) - InPacks(packs[s], c)
  BY <1>3, <1>5, QueueChanged
<1>7. PICK left : left = Without(stock, pack)
  OBVIOUS
<1>8. left \in Bag /\ \A c \in Card : /\ left[c] = stock[c] - OnTable(pack, c)
                                      /\ OnTable(pack, c) \in Nat
  BY <1>7, WithoutIs
<1>9. ASSUME NEW c \in Card
      PROVE  Outside(left, other, offer, c) = Outside(stock, packs, offer, c)
  <2>1. PICK f \in Nat : f = InPacks(q, c)
    BY <1>1, PacksFinite DEF Queue
  <2>2. PICK h \in Nat : h = PacksHeld(packs, c)
    BY HeldNat
  <2>3. PICK o \in Nat : o = OnTable(pack, c)
    BY <1>8
  <2>4. PICK t \in Nat : t = stock[c]
    BY DEF Bag
  <2>5. PICK v \in Nat : v = OnTable(offer, c)
    BY DEF OnTable
  <2>6. left[c] = t - o
    BY <1>8, <2>3, <2>4
  <2>7. PacksHeld(other, c) = h + (f + o) - f
    BY <1>1, <1>4, <1>6, <2>1, <2>2, <2>3
  <2>8. left[c] + PacksHeld(other, c) = t + h
    BY <2>6, <2>7
  <2>9. left[c] \in Int /\ PacksHeld(other, c) \in Int
    BY <2>6, <2>7
  <2>10. left[c] + PacksHeld(other, c) + v = t + h + v
    BY <2>8, <2>9
  <2> QED
    BY <2>2, <2>4, <2>5, <2>10 DEF Outside
<1> QED
  BY <1>1, <1>2, <1>5, <1>6, <1>7, <1>8, <1>9

LEMMA TakersAre ==
  ASSUME NEW S, NEW d, Shape(S, d), NEW i \in S
  PROVE  Takers(d)[i] \subseteq Card
<1>1. d.players[i] \in Player /\ i \in Seats(d)
  BY ShapeIs DEF Players
<1>2. PlayerPool(d.collection, d.players[i]) \subseteq Card
  BY <1>1, CardsAssumption DEF PlayerPool, Player
<1> QED
  BY <1>1, <1>2 DEF Takers

LEMMA ShuffledIs ==
  ASSUME NEW pool, IsFiniteSet(pool), NEW x \in Shuffled(pool)
  PROVE  /\ x \subseteq pool
         /\ FullPack(pool) => Cardinality(x) = OfferSize
         /\ pool # {} => x # {}
<1>1. OfferSize \in Nat /\ OfferSize > 0 /\ Cardinality(pool) \in Nat
  BY SizesAssumption, FS_CardinalityType
<1>2. PICK T : T = {OfferSize, Cardinality(pool)}
  OBVIOUS
<1>3. IsFiniteSet(T) /\ T # {} /\ T \subseteq Int
  <2>1. IsFiniteSet({OfferSize}) /\ IsFiniteSet({Cardinality(pool)})
    BY FS_Singleton
  <2>2. IsFiniteSet({OfferSize} \cup {Cardinality(pool)})
    BY <2>1, FS_Union
  <2>3. T = {OfferSize} \cup {Cardinality(pool)}
    BY <1>2
  <2> QED
    BY <1>1, <1>2, <2>2, <2>3
<1>4. Min(T) \in T /\ \A y \in T : Min(T) <= y
  BY <1>3, MinIs
<1>5. x \subseteq pool /\ Cardinality(x) = Min(T)
  BY <1>2 DEF Shuffled, kSubset
<1>6. FullPack(pool) => Cardinality(x) = OfferSize
  BY <1>1, <1>2, <1>4, <1>5 DEF FullPack
<1>7. pool # {} => x # {}
  <2>1. pool # {} => Cardinality(pool) # 0
    BY FS_EmptySet
  <2>2. pool # {} => Cardinality(x) # 0
    BY <1>1, <1>2, <1>4, <1>5, <2>1
  <2>3. Cardinality({}) = 0
    BY FS_EmptySet
  <2> QED
    BY <2>2, <2>3
<1> QED
  BY <1>5, <1>6, <1>7

LEMMA PackForBuilds ==
  ASSUME NEW S, IsFiniteSet(S), NEW d, Shape(S, d), NEW b, Builds(S, d, b),
         NEW r, NEW i \in S, NEW e \in PackFor(d, Takers(d), b, r, i)
  PROVE  Builds(S, d, e)
<1> DEFINE pool == {c \in Takers(d)[i] :
                      /\ b.stock[c] > 0
                      /\ ~ (HoldsOnce(c) /\ c \in b.once)
                      /\ b.mine[i][c] < CopiesLeftFor(d.players[i], c)}
<1>1. b.stock \in Bag /\ b.packs \in Queues(S)
      /\ b = [stock |-> b.stock, packs |-> b.packs, needed |-> b.needed, once |-> b.once,
              mine |-> b.mine]
  BY DEF Builds
<1>2. CASE e = b
  BY <1>2
<1>3. CASE e = [b EXCEPT !.needed[i] = 0]
  <2>1. PICK w : w = [b.needed EXCEPT ![i] = 0]
    OBVIOUS
  <2>2. e = [b EXCEPT !.needed = w]
    BY <1>3, <2>1
  <2>3. e = [stock |-> b.stock, packs |-> b.packs, needed |-> w, once |-> b.once,
             mine |-> b.mine]
    BY <1>1, <2>2
  <2>4. e.stock = b.stock /\ e.packs = b.packs /\ e.needed = w /\ e.once = b.once
        /\ e.mine = b.mine
    BY <2>3
  <2> QED
    BY <2>3, <2>4 DEF Builds
<1>4. CASE /\ FullPack(pool)
           /\ \E pack \in Shuffled(pool) :
                 e = [b EXCEPT !.stock = Without(@, pack),
                               !.mine[i] = Returned(@, <<pack>>),
                               !.once = @ \cup {c \in pack : HoldsOnce(c)},
                               !.packs[i] = Append(@, pack)]
  <2>1. PICK pack \in Shuffled(pool) :
                 e = [b EXCEPT !.stock = Without(@, pack),
                               !.mine[i] = Returned(@, <<pack>>),
                               !.once = @ \cup {c \in pack : HoldsOnce(c)},
                               !.packs[i] = Append(@, pack)]
    BY <1>4
  <2>2. pool \subseteq Card /\ IsFiniteSet(pool)
    BY TakersAre, CardsFinite
  <2>3. \A c \in pool : b.stock[c] > 0
    OBVIOUS
  <2>4. FullPack(pool)
    BY <1>4
  <2> HIDE DEF pool
  <2>5. pack \subseteq pool /\ Cardinality(pack) = OfferSize
    BY <2>2, <2>4, ShuffledIs
  <2>6. pack \in PackSet /\ \A c \in pack : b.stock[c] > 0
    BY <2>2, <2>3, <2>5 DEF PackSet, kSubset
  <2>7. PICK left : left = Without(b.stock, pack)
    OBVIOUS
  <2>8. PICK other : other = QueuePut(b.packs, i, Append(b.packs[i], pack))
    OBVIOUS
  <2>9. /\ other \in Queues(S) /\ left \in Bag
        /\ \A c \in Card : Outside(left, other, d.offer, c) = Outside(b.stock, b.packs, d.offer, c)
    BY <1>1, <2>6, <2>7, <2>8, PackBuilt
  <2>10. PICK mine : mine = [b.mine EXCEPT ![i] = Returned(b.mine[i], <<pack>>)]
    OBVIOUS
  <2>11. PICK once : once = b.once \cup {c \in pack : HoldsOnce(c)}
    OBVIOUS
  <2>12. e = [b EXCEPT !.stock = left, !.mine = mine, !.once = once, !.packs = other]
    BY <2>1, <2>7, <2>8, <2>10, <2>11 DEF QueuePut
  <2>13. e = [stock |-> left, packs |-> other, needed |-> b.needed, once |-> once,
              mine |-> mine]
    BY <1>1, <2>12
  <2>14. e.stock = left /\ e.packs = other /\ e.needed = b.needed /\ e.once = once
         /\ e.mine = mine
    BY <2>13
  <2> QED
    BY <2>9, <2>13, <2>14 DEF Builds
<1> QED
  BY <1>2, <1>3, <1>4 DEF PackFor

LEMMA BuildTurnsNat ==
  ASSUME NEW S, Places(S), NEW d, Shape(S, d), NEW wanted
  PROVE  BuildTurns(d, wanted) \in Nat
<1>1. Seats(d) = S /\ d.players \in Players(S) /\ d.packs \in Queues(S)
  BY ShapeIs
<1>2. IsFiniteSet(S) /\ S # {} /\ Cardinality(S) \in Nat
  BY PlacesAre
<1>3. PICK f : f = Needed(d, wanted)
  OBVIOUS
<1>4. ASSUME NEW i \in S PROVE f[i] \in Nat
  <2>1. d.players[i] \in Player /\ d.packs[i] \in Queue
    BY <1>1 DEF Players, Queues
  <2>2. Remaining(d.players[i]) \in Nat
    BY <2>1, RemainingNat
  <2>3. Len(d.packs[i]) \in Nat
    BY <2>1 DEF Queue
  <2>4. Remaining(d.players[i]) - Len(d.packs[i]) \in Int
    BY <2>2, <2>3
  <2>5. Max({0, Remaining(d.players[i]) - Len(d.packs[i])}) \in Nat
    BY <2>4, NotNegative
  <2> QED
    BY <1>1, <1>3, <2>5 DEF Needed
<1>5. PICK T : T = {f[i] : i \in S}
  OBVIOUS
<1>6. IsFiniteSet(T)
  BY <1>2, <1>5, ImageFinite
<1>7. T # {} /\ T \subseteq Nat /\ T \subseteq Int
  BY <1>2, <1>4, <1>5
<1>8. Max(T) \in Nat
  BY <1>6, <1>7, MaxIs
<1>9. BuildTurns(d, wanted) = Max(T) * Cardinality(S)
  BY <1>1, <1>3, <1>5 DEF BuildTurns, Seated
<1> QED
  BY <1>2, <1>8, <1>9

LEMMA BuildDeals ==
  ASSUME NEW S, Places(S), NEW d, Shape(S, d), NEW wanted, NEW e \in BuildPacks(d, wanted)
  PROVE  Deals(S, d, e) /\ e.offer = d.offer
<1>1. IsFiniteSet(S) /\ Seats(d) = S /\ d.stock \in Bag /\ d.packs \in Queues(S)
      /\ d.offer \in SUBSET Card
  BY PlacesAre, ShapeIs
<1>2. PICK m \in Nat : m = BuildTurns(d, wanted)
  BY BuildTurnsNat
<1>3. PICK f : f = BuildTable(d, wanted)
  OBVIOUS
<1>4. f = [k \in 0 .. m |-> BuildStep(d, wanted, f, k)]
  <2>1. \E g : g = [k \in 0 .. m |-> BuildStep(d, wanted, g, k)]
    BY BuildTableExists
  <2> QED
    BY <1>2, <1>3, <2>1 DEF BuildTable
<1>5. \A k \in 0 .. m : f[k] = BuildStep(d, wanted, f, k)
  BY <1>4
<1> DEFINE N == {k \in Nat : k <= m => \A b \in f[k] : Builds(S, d, b)}
<1>6. 0 \in N
  <2>1. f[0] = {BuildStart(d, wanted)}
    BY <1>5 DEF BuildStep
  <2>2. Builds(S, d, BuildStart(d, wanted))
    BY <1>1 DEF Builds, BuildStart
  <2> QED
    BY <2>1, <2>2
<1>7. ASSUME NEW k \in Nat, k \in N
      PROVE  k + 1 \in N
  <2> SUFFICES ASSUME k + 1 <= m, NEW x \in f[k + 1]
               PROVE  Builds(S, d, x)
    OBVIOUS
  <2>1. k + 1 \in 0 .. m /\ k + 1 # 0 /\ k \in 0 .. m /\ (k + 1) - 1 = k
    BY <1>2
  <2>2. f[k + 1] = BuildTurn(d, f[k], k + 1)
    BY <1>5, <2>1 DEF BuildStep
  <2>3. PICK b \in f[k] : x \in PackFor(d, Takers(d), b, k \div Seated(d), k % Seated(d))
    BY <2>1, <2>2 DEF BuildTurn
  <2>4. Builds(S, d, b)
    BY <1>7, <2>1
  <2>5. k % Seated(d) \in S
    BY <1>1, PlacesAre DEF Seated
  <2> HIDE DEF N
  <2> QED
    BY <1>1, <2>3, <2>4, <2>5, PackForBuilds
<1>8. m \in N
  <2> HIDE DEF N
  <2> QED
    BY <1>6, <1>7, FromZeroUp
<1>9. \A b \in f[m] : Builds(S, d, b)
  BY <1>8
<1>10. PICK b \in f[m] : e = [d EXCEPT !.stock = b.stock, !.packs = b.packs]
  BY <1>2, <1>3, BuildPacksIs
<1>11. Builds(S, d, b)
  BY <1>9
<1>12. PICK stock : stock = b.stock
  OBVIOUS
<1>13. PICK packs : packs = b.packs
  OBVIOUS
<1>14. stock \in Bag /\ packs \in Queues(S)
       /\ \A c \in Card : Outside(stock, packs, d.offer, c)
                            = Outside(d.stock, d.packs, d.offer, c)
  BY <1>11, <1>12, <1>13 DEF Builds
<1>15. e = Redeal(d, stock, packs, d.offer)
  BY <1>10, <1>12, <1>13 DEF Redeal, Shape, Drafts
<1> QED
  BY <1>1, <1>14, <1>15, Redealt

-----------------------------------------------------------------------------
(* What a player is shown. *)
Offering(d) ==
    /\ ~ IsFull(Current(d))
    /\ \A c \in d.offer : CanTake(Current(d), c)
    /\ d.offer = {} => LegalOffers(d) = {}

LEMMA SameCurrent ==
  ASSUME NEW S, NEW d, Shape(S, d), NEW e, Deals(S, d, e)
  PROVE  Shape(S, e) /\ Current(e) = Current(d) /\ e.current = d.current
  BY DEF Deals, Kept, Current

LEMMA OffersAre ==
  ASSUME NEW S, NEW d, Shape(S, d)
  PROVE  /\ LegalOffers(d) \in SUBSET Card /\ IsFiniteSet(LegalOffers(d))
         /\ \A c \in LegalOffers(d) : d.stock[c] > 0 /\ CanTake(Current(d), c)
<1>1. Current(d) \in Player
  BY ShapeIs
<1>2. PlayerPool(d.stock, Current(d)) \in SUBSET Card
      /\ \A c \in PlayerPool(d.stock, Current(d)) : d.stock[c] > 0
  BY <1>1, CardsAssumption DEF PlayerPool, Player
<1> QED
  BY <1>2, CardsFinite DEF LegalOffers

LEMMA LastPacksShow ==
  ASSUME NEW S, IsFiniteSet(S), NEW d, Shape(S, d), d.offer = {}, ~ IsFull(Current(d)),
         NEW e \in LastPacks(d)
  PROVE  Deals(S, d, e) /\ Offering(e)
<1>1. d.stock \in Bag /\ d.packs \in Queues(S)
  BY ShapeIs
<1>2. PICK last \in Shuffled(LegalOffers(d)) :
         e = [d EXCEPT !.stock = Without(@, last), !.offer = last]
  BY DEF LastPacks
<1>3. /\ last \subseteq LegalOffers(d) /\ last \in SUBSET Card
      /\ LegalOffers(d) # {} => last # {}
      /\ \A c \in last : d.stock[c] > 0 /\ CanTake(Current(d), c)
  BY OffersAre, ShuffledIs
<1>4. PICK left : left = Without(d.stock, last)
  OBVIOUS
<1>5. left \in Bag /\ \A c \in Card : /\ left[c] = d.stock[c] - OnTable(last, c)
                                      /\ OnTable(last, c) \in Nat
  BY <1>1, <1>3, <1>4, WithoutIs
<1>6. ASSUME NEW c \in Card
      PROVE  Outside(left, d.packs, last, c) = Outside(d.stock, d.packs, d.offer, c)
  <2>1. PICK h \in Nat : h = PacksHeld(d.packs, c)
    BY <1>1, HeldNat
  <2>2. PICK o \in Nat : o = OnTable(last, c)
    BY <1>5
  <2>3. PICK t \in Nat : t = d.stock[c]
    BY <1>1 DEF Bag
  <2>4. left[c] = t - o
    BY <1>5, <2>2, <2>3
  <2>5. OnTable(d.offer, c) = 0
    BY DEF OnTable
  <2>6. left[c] + h + o = t + h + 0
    BY <2>4
  <2> QED
    BY <2>1, <2>2, <2>3, <2>5, <2>6 DEF Outside
<1>7. PICK packs \in Queues(S) : packs = d.packs
  BY <1>1
<1>8. Deals(S, d, e) /\ e.stock = left /\ e.offer = last
  <2>1. e = Redeal(d, left, packs, last)
    BY <1>2, <1>4, <1>7 DEF Redeal, Shape, Drafts
  <2>2. left \in Bag
    BY <1>5
  <2>3. \A c \in Card : Outside(left, packs, last, c) = Outside(d.stock, d.packs, d.offer, c)
    BY <1>6, <1>7
  <2>4. last \in SUBSET Card
    BY <1>3
  <2> HIDE <1>2, <1>4
  <2> QED
    BY <2>1, <2>2, <2>3, <2>4, Redealt
<1>9. Current(e) = Current(d)
  BY <1>8, SameCurrent
<1>10. last = {} => LegalOffers(e) = {}
  <2> SUFFICES ASSUME last = {} PROVE LegalOffers(e) = {}
    OBVIOUS
  <2>1. LegalOffers(d) = {}
    BY <1>3
  <2>2. \A c \in Card : left[c] = d.stock[c]
    BY <1>1, <1>5 DEF OnTable, Bag
  <2>3. left = d.stock
    BY <1>1, <1>5, <2>2 DEF Bag
  <2> QED
    BY <1>8, <1>9, <2>1, <2>3 DEF LegalOffers
<1> QED
  BY <1>3, <1>8, <1>9, <1>10 DEF Offering

LEMMA OpenPackShows ==
  ASSUME NEW S, Places(S), NEW d, Shape(S, d), d.offer = {}, ~ IsFull(Current(d)),
         NEW e \in OpenPack(d)
  PROVE  Deals(S, d, e) /\ Offering(e)
<1>1. IsFiniteSet(S)
  BY PlacesAre
<1>2. PICK o : o = OpenFront(d)
  OBVIOUS
<1>3. Deals(S, d, o) /\ \A c \in o.offer : CanTake(Current(d), c)
  BY <1>1, <1>2, OpenFrontDeals
<1>4. Shape(S, o) /\ Current(o) = Current(d)
  BY <1>3, SameCurrent
<1>5. CASE o.offer # {}
  <2>1. e = o
    BY <1>2, <1>5 DEF OpenPack
  <2> QED
    BY <1>3, <1>4, <1>5, <2>1 DEF Offering
<1>6. CASE o.offer = {}
  <2>1. PICK b \in BuildPacks(o, {d.current}) :
            e \in IF OpenFront(b).offer # {} THEN {OpenFront(b)} ELSE LastPacks(OpenFront(b))
    BY <1>2, <1>6 DEF OpenPack
  <2>2. Deals(S, o, b) /\ b.offer = {}
    BY <1>4, <1>6, BuildDeals
  <2>3. Shape(S, b) /\ Current(b) = Current(d)
    BY <1>4, <2>2, SameCurrent
  <2>4. PICK r : r = OpenFront(b)
    OBVIOUS
  <2>5. Deals(S, b, r) /\ \A c \in r.offer : CanTake(Current(b), c)
    BY <1>1, <2>2, <2>3, <2>4, OpenFrontDeals
  <2>6. Shape(S, r) /\ Current(r) = Current(d)
    BY <2>3, <2>5, SameCurrent
  <2>7. Deals(S, d, r)
    BY <1>3, <2>2, <2>5, DealsOn
  <2>8. CASE r.offer # {}
    <3>1. e = r
      BY <2>1, <2>4, <2>8
    <3> QED
      BY <2>3, <2>5, <2>6, <2>7, <2>8, <3>1 DEF Offering
  <2>9. CASE r.offer = {}
    <3>1. e \in LastPacks(r)
      BY <2>1, <2>4, <2>9
    <3>2. Deals(S, r, e) /\ Offering(e)
      BY <1>1, <2>6, <2>9, <3>1, LastPacksShow
    <3> QED
      BY <2>7, <3>2, DealsOn
  <2> QED
    BY <2>8, <2>9
<1> QED
  BY <1>5, <1>6

(* The turn has passed: somebody is shown something, or every deck is full. *)
Turned(S, d, e) ==
    /\ Shape(S, e) /\ Kept(d, e)
    /\ \A c \in Card : DraftCopies(e, c) = DraftCopies(d, c)
    /\ e.phase \in {"pick", "finish"}
    /\ e.phase = "pick" => Offering(e)
    /\ e.phase = "finish" => EveryoneFull(e)

LEMMA RoundTheTable ==
  ASSUME NEW n \in Nat \ {0}, NEW i \in 0 .. n - 1, NEW c \in 0 .. n - 1
  PROVE  \E k \in 1 .. n : (c + k) % n = i
<1>1. CASE i > c
  <2>1. c + (i - c) = i /\ i - c \in 1 .. n /\ i % n = i
    BY <1>1
  <2> QED
    BY <2>1
<1>2. CASE i <= c
  <2>1. c + (i - c + n) = i + n /\ i - c + n \in 1 .. n /\ (i + n) % n = i
    BY <1>2
  <2> QED
    BY <2>1
<1> QED
  BY <1>1, <1>2

LEMMA ShownAt ==
  ASSUME NEW S, Places(S), NEW d, Shape(S, d), d.offer = {}, NEW i \in S,
         ~ IsFull(d.players[i]), NEW o \in OpenPack([d EXCEPT !.current = i]),
         NEW e, e = [o EXCEPT !.phase = "pick"]
  PROVE  Turned(S, d, e)
<1>1. PICK x : x = [d EXCEPT !.current = i]
  OBVIOUS
<1>2. Shape(S, x) /\ Kept(d, x) /\ x.offer = {} /\ x.current = i
      /\ x.stock = d.stock /\ x.packs = d.packs /\ x.players = d.players
      /\ x.offer = d.offer
  BY <1>1 DEF Shape, Drafts, Kept
<1>3. ~ IsFull(Current(x)) /\ o \in OpenPack(x)
  BY <1>1, <1>2 DEF Current
<1>4. Deals(S, x, o) /\ Offering(o)
  BY <1>2, <1>3, OpenPackShows
<1>5. Shape(S, o)
  BY <1>4 DEF Deals
<1>6. Shape(S, e) /\ Kept(o, e) /\ e.phase = "pick" /\ e.current = o.current
      /\ e.stock = o.stock /\ e.packs = o.packs /\ e.players = o.players
      /\ e.offer = o.offer
  <2>1. e = [o EXCEPT !.phase = "pick"]
    OBVIOUS
  <2> QED
    BY <1>5, <2>1 DEF Shape, Drafts, Kept
<1>7. Offering(e)
  <2>1. Current(e) = Current(o)
    BY <1>6 DEF Current
  <2>2. LegalOffers(e) = LegalOffers(o)
    BY <1>6, <2>1 DEF LegalOffers
  <2> QED
    BY <1>4, <1>6, <2>1, <2>2 DEF Offering
<1>8. Kept(d, e)
  BY <1>2, <1>4, <1>6 DEF Deals, Kept
<1>9. \A c \in Card : DraftCopies(e, c) = DraftCopies(d, c)
  <2> SUFFICES ASSUME NEW c \in Card PROVE DraftCopies(e, c) = DraftCopies(d, c)
    OBVIOUS
  <2>1. DraftCopies(e, c) = DraftCopies(o, c) /\ DraftCopies(x, c) = DraftCopies(d, c)
    BY <1>2, <1>6 DEF DraftCopies
  <2>2. DraftCopies(o, c) = DraftCopies(x, c)
    BY <1>4 DEF Deals
  <2> QED
    BY <2>1, <2>2
<1> QED
  BY <1>6, <1>7, <1>8, <1>9 DEF Turned

(* The table goes to the finish page with these decks. *)
LEMMA FinishedAt ==
  ASSUME NEW S, Places(S), NEW d, Shape(S, d), d.offer = {}, EveryoneFull(d),
         NEW e, e = [d EXCEPT !.phase = "finish", !.current = 0, !.offer = {}]
  PROVE  Turned(S, d, e)
<1>1. 0 \in S
  BY PlacesAre
<1>2. Shape(S, e) /\ Kept(d, e) /\ e.phase = "finish" /\ e.players = d.players
      /\ e.stock = d.stock /\ e.packs = d.packs /\ e.offer = d.offer
  <2>1. Shape(S, e)
    BY <1>1 DEF Shape, Drafts
  <2>2. Kept(d, e)
    BY DEF Shape, Drafts, Kept
  <2>3. e.phase = "finish" /\ e.players = d.players /\ e.stock = d.stock
        /\ e.packs = d.packs /\ e.offer = d.offer
    BY DEF Shape, Drafts
  <2> QED
    BY <2>1, <2>2, <2>3
<1>3. EveryoneFull(e)
  BY <1>2 DEF EveryoneFull, Seats
<1>4. \A c \in Card : DraftCopies(e, c) = DraftCopies(d, c)
  BY <1>2 DEF DraftCopies
<1> QED
  BY <1>2, <1>3, <1>4 DEF Turned

LEMMA NextTurnTurns ==
  ASSUME NEW S, Places(S), NEW d, Shape(S, d), d.offer = {}, NEW e \in NextTurn(d)
  PROVE  Turned(S, d, e)
<1>1. CASE EveryoneFull(d)
  <2>1. e = [d EXCEPT !.phase = "finish", !.current = 0, !.offer = {}]
    BY <1>1 DEF NextTurn
  <2> QED
    BY <1>1, <2>1, FinishedAt
<1>2. CASE ~ EveryoneFull(d)
  <2>1. PICK n : n = Seated(d)
    OBVIOUS
  <2>2. Seats(d) = S /\ d.current \in S
    BY ShapeIs
  <2>3. n \in Nat \ {0} /\ S = 0 .. n - 1 /\ \A k \in Int : k % n \in S
    BY <2>1, <2>2, PlacesAre DEF Seated
  <2>4. PICK K : K = {k \in 1 .. n : ~ IsFull(d.players[(d.current + k) % n])}
    OBVIOUS
  <2>5. K # {}
    <3>1. PICK i \in S : ~ IsFull(d.players[i])
      BY <1>2, <2>2 DEF EveryoneFull
    <3>2. \E k \in 1 .. n : (d.current + k) % n = i
      BY <2>2, <2>3, <3>1, RoundTheTable
    <3> QED
      BY <2>4, <3>1, <3>2
  <2>6. IsFiniteSet(K) /\ K \subseteq Int
    <3>1. K \in SUBSET Nat /\ \A k \in K : k <= n
      BY <2>3, <2>4
    <3>2. IsFiniteSet(K)
      BY <2>3, <3>1, FS_BoundedSetOfNaturals
    <3> QED
      BY <3>1, <3>2
  <2>7. Min(K) \in K
    BY <2>5, <2>6, MinIs
  <2>8. PICK k \in K : k = Min(K)
    BY <2>7
  <2>9. PICK i : i = (d.current + k) % n
    OBVIOUS
  <2>10. i \in S /\ ~ IsFull(d.players[i])
    <3>1. k \in 1 .. n /\ ~ IsFull(d.players[(d.current + k) % n])
      BY <2>4
    <3>2. S \subseteq Int
      BY PlacesAre
    <3>3. PICK c \in Int : c = d.current
      BY <2>2, <3>2
    <3>4. k \in Int
      BY <3>1
    <3>5. c + k \in Int
      BY <3>4
    <3> QED
      BY <2>3, <2>9, <3>1, <3>3, <3>5
  <2>11. PICK o \in OpenPack([d EXCEPT !.current = i]) : e = [o EXCEPT !.phase = "pick"]
    BY <1>2, <2>1, <2>4, <2>8, <2>9 DEF NextTurn
  <2> QED
    BY <2>10, <2>11, ShownAt
<1> QED
  BY <1>1, <1>2

LEMMA StartTurns ==
  ASSUME NEW S, Places(S), NEW d, Shape(S, d), d.offer = {}, NEW e \in Start(d)
  PROVE  Turned(S, d, e)
<1>1. Seats(d) = S /\ IsFiniteSet(S) /\ S \subseteq Nat
  BY ShapeIs, PlacesAre
<1>2. PICK free : free = {i \in S : ~ IsFull(d.players[i])}
  OBVIOUS
<1>3. CASE free = {}
  <2>1. EveryoneFull(d)
    BY <1>1, <1>2, <1>3 DEF EveryoneFull
  <2>2. e = [d EXCEPT !.phase = "finish", !.current = 0]
    BY <1>1, <1>2, <1>3 DEF Start
  <2>3. e = [d EXCEPT !.phase = "finish", !.current = 0, !.offer = {}]
    BY <2>2 DEF Shape, Drafts
  <2> QED
    BY <2>1, <2>3, FinishedAt
<1>4. CASE free # {}
  <2>1. PICK b \in BuildPacks(d, S) :
            \E o \in OpenPack([b EXCEPT !.current = Min(free)]) : e = [o EXCEPT !.phase = "pick"]
    BY <1>1, <1>2, <1>4 DEF Start
  <2>2. PICK i : i = Min(free)
    OBVIOUS
  <2>3. IsFiniteSet(free) /\ free \subseteq Int
    <3>1. free \in SUBSET S /\ S \subseteq Int
      BY <1>1, <1>2
    <3> QED
      BY <1>1, <3>1, FS_Subset
  <2>4. i \in S /\ ~ IsFull(d.players[i])
    BY <1>2, <1>4, <2>2, <2>3, MinIs
  <2>5. PICK o \in OpenPack([b EXCEPT !.current = i]) : e = [o EXCEPT !.phase = "pick"]
    BY <2>1, <2>2
  <2>6. Deals(S, d, b) /\ b.offer = {}
    BY BuildDeals
  <2>7. Shape(S, b) /\ b.players = d.players
    BY <2>6 DEF Deals, Kept
  <2>8. Turned(S, b, e)
    BY <2>4, <2>5, <2>6, <2>7, ShownAt
  <2>9. Kept(d, e)
    BY <2>6, <2>8 DEF Turned, Deals, Kept
  <2>10. \A c \in Card : DraftCopies(e, c) = DraftCopies(d, c)
    BY <2>6, <2>8 DEF Turned, Deals
  <2> QED
    BY <2>8, <2>9, <2>10 DEF Turned
<1> QED
  BY <1>3, <1>4

-----------------------------------------------------------------------------
(* The inductive invariant of a draft, phase by phase. *)

(* No identity sits at two seats. *)
Seating(d) ==
    \A i, j \in Seats(d) : i # j /\ d.players[i].hero # NoHero =>
                               d.players[i].hero # d.players[j].hero

(* Before the table is set: nothing dealt yet, the earlier seats ready. *)
Waiting(d) ==
    /\ d.offer = {} /\ d.short = {}
    /\ \A i \in Seats(d) : /\ d.players[i].picks = NoCards
                           /\ d.players[i].size >= MinDeck
                           /\ d.packs[i] = <<>>
                           /\ i < d.current => IdentityReady(d.players[i])

(* The picks left can still even the aspects out. *)
BalanceOpen(p) ==
    p.hero \in Balanced =>
        p.picks = NoCards \/ p.size - CardCount(p) >= Deficit(p, p.picks)

Sound(p) == IdentityReady(p) /\ NothingBlocks(p, p.picks)

Whole(p) == p.size >= MinDeck /\ BalanceOpen(p)

DecksSound(d) ==
    \A i \in Seats(d) : Sound(d.players[i]) /\ (i \notin d.short => Whole(d.players[i]))

Drafted(d) ==
    /\ \A c \in Card : DraftCopies(d, c) = d.collection[c]
    /\ d.phase = "pick" => Offering(d)
    /\ d.phase = "finish" => EveryoneFull(d)

PoolsHeld(pools, c) == SumFunction([i \in DOMAIN pools |-> pools[i][c]])

Pooled(d) ==
    /\ \A c \in Card : d.stock[c] + PoolsHeld(d.pools, c) = d.collection[c]
    /\ \A i \in Seats(d), c \in Card : d.players[i].picks[c] <= d.pools[i][c]
    /\ d.short = {}
    /\ d.phase = "pick" => \A i \in Seats(d) : i < d.current => IsFull(d.players[i])
    /\ d.phase = "finish" => EveryoneFull(d)

GoodAt(S, d) ==
    /\ Shape(S, d) /\ Seating(d)
    /\ d.phase = "identity" => Waiting(d)
    /\ d.phase # "identity" => DecksSound(d)
    /\ d.phase # "identity" /\ d.format = "draft" => Drafted(d)
    /\ d.phase # "identity" /\ d.format = "sealed" => Pooled(d)

Good(d) == \E n \in TableSize : GoodAt(0 .. n - 1, d)

LEMMA TableSeats ==
  ASSUME NEW n \in TableSize
  PROVE  Places(0 .. n - 1)
  BY TableAssumption DEF Places

-----------------------------------------------------------------------------
(* The identity pages. *)

(* The draft with this player in the current seat. *)
Seat(d, p) == [d EXCEPT !.players[d.current] = p]

LEMMA SeatIs ==
  ASSUME NEW S, NEW d, Shape(S, d), NEW p \in Player
  PROVE  LET e == Seat(d, p) IN
         /\ Shape(S, e) /\ e.id = d.id /\ e.phase = d.phase /\ e.format = d.format
         /\ e.stock = d.stock /\ e.packs = d.packs /\ e.offer = d.offer
         /\ e.pools = d.pools /\ e.collection = d.collection /\ e.short = d.short
         /\ e.current = d.current
         /\ e.players[d.current] = p /\ Current(e) = p
         /\ \A i \in S \ {d.current} : e.players[i] = d.players[i]
<1>1. d.players \in Players(S) /\ d.current \in S
  BY ShapeIs
<1>2. PICK players : players = [d.players EXCEPT ![d.current] = p]
  OBVIOUS
<1>3. players \in Players(S) /\ players[d.current] = p
      /\ \A i \in S \ {d.current} : players[i] = d.players[i]
  BY <1>1, <1>2 DEF Players
<1>4. PICK e : e = Seat(d, p)
  OBVIOUS
<1>5. e = [d EXCEPT !.players = players]
  BY <1>2, <1>4 DEF Seat
<1>6. Shape(S, e)
  BY <1>3, <1>5 DEF Shape, Drafts
<1>7. /\ e.id = d.id /\ e.phase = d.phase /\ e.format = d.format
      /\ e.stock = d.stock /\ e.packs = d.packs /\ e.offer = d.offer
      /\ e.pools = d.pools /\ e.collection = d.collection /\ e.short = d.short
      /\ e.current = d.current /\ e.players = players
  BY <1>5 DEF Shape, Drafts
<1> QED
  BY <1>3, <1>4, <1>6, <1>7 DEF Current

(* A player still without a card, whose identity nobody else has. *)
Newcomer(d, p) ==
    /\ p \in Player /\ p.picks = NoCards /\ p.size >= MinDeck
    /\ p.hero # NoHero => \A i \in Seats(d) \ {d.current} : d.players[i].hero # p.hero

LEMMA SeatedGood ==
  ASSUME NEW S, Places(S), NEW d, GoodAt(S, d), d.phase = "identity",
         NEW p, Newcomer(d, p)
  PROVE  /\ GoodAt(S, Seat(d, p)) /\ Seat(d, p).id = d.id /\ Seat(d, p).phase = d.phase
<1>1. Shape(S, d) /\ Seats(d) = S /\ Waiting(d) /\ Seating(d) /\ p \in Player
      /\ d.current \in S
  BY ShapeIs DEF GoodAt, Newcomer
<1>2. PICK e : e = Seat(d, p)
  OBVIOUS
<1>3. /\ Shape(S, e) /\ e.id = d.id /\ e.phase = d.phase /\ e.format = d.format
      /\ e.packs = d.packs /\ e.offer = d.offer /\ e.short = d.short
      /\ e.current = d.current
      /\ e.players[d.current] = p
      /\ \A i \in S \ {d.current} : e.players[i] = d.players[i]
  BY <1>1, <1>2, SeatIs
<1>4. Seats(e) = S
  BY <1>3, ShapeIs
<1>5. Seating(e)
  <2> SUFFICES ASSUME NEW i \in S, NEW j \in S, i # j, e.players[i].hero # NoHero
               PROVE  e.players[i].hero # e.players[j].hero
    BY <1>4 DEF Seating
  <2>1. CASE i = d.current
    BY <1>1, <1>3, <2>1 DEF Newcomer
  <2>2. CASE j = d.current
    BY <1>1, <1>3, <2>2 DEF Newcomer
  <2>3. CASE i # d.current /\ j # d.current
    BY <1>1, <1>3, <2>3 DEF Seating
  <2> QED
    BY <2>1, <2>2, <2>3
<1>6. Waiting(e)
  <2>1. ASSUME NEW i \in S
        PROVE  /\ e.players[i].picks = NoCards
               /\ e.players[i].size >= MinDeck
               /\ e.packs[i] = <<>>
               /\ i < e.current => IdentityReady(e.players[i])
    <3>1. CASE i = d.current
      <4>1. ~ (i < d.current)
        <5>1. i \in Nat
          BY PlacesAre
        <5> QED
          BY <3>1, <5>1
      <4> QED
        BY <1>1, <1>3, <3>1, <4>1 DEF Newcomer, Waiting
    <3>2. CASE i # d.current
      BY <1>1, <1>3, <3>2 DEF Waiting
    <3> QED
      BY <3>1, <3>2
  <2> QED
    BY <1>1, <1>3, <1>4, <2>1 DEF Waiting
<1> QED
  BY <1>2, <1>3, <1>5, <1>6 DEF GoodAt

LEMMA HeroGiven ==
  ASSUME NEW S, Places(S), NEW d, GoodAt(S, d), d.phase = "identity",
         NEW h \in AvailableHeroes(d) \cup ({Current(d).hero} \ {NoHero})
  PROVE  /\ GoodAt(S, WithHero(d, h)) /\ WithHero(d, h).id = d.id
<1>1. Seats(d) = S /\ Waiting(d) /\ Seating(d) /\ Current(d) \in Player
      /\ Current(d) = d.players[d.current] /\ d.current \in S
  BY ShapeIs DEF GoodAt
<1>2. h \in Hero
  BY <1>1 DEF AvailableHeroes, Player
<1>3. PICK A : A = IF ImposedAspects(h) THEN Aspect ELSE {}
  OBVIOUS
<1>4. PICK p : p = [Current(d) EXCEPT !.hero = h, !.aspects = A]
  OBVIOUS
<1>5. A \in SUBSET Aspect
  BY <1>3
<1>6. p \in Player /\ p.picks = Current(d).picks /\ p.size = Current(d).size /\ p.hero = h
  BY <1>1, <1>2, <1>4, <1>5 DEF Player
<1>7. \A i \in S \ {d.current} : d.players[i].hero # h
  BY <1>1 DEF AvailableHeroes, Seating
<1>8. Newcomer(d, p)
  BY <1>1, <1>6, <1>7 DEF Newcomer, Waiting
<1>9. WithHero(d, h) = Seat(d, p)
  BY <1>3, <1>4 DEF WithHero, Seat
<1> QED
  BY <1>8, <1>9, SeatedGood

LEMMA PreparedGood ==
  ASSUME NEW S, Places(S), NEW d, GoodAt(S, d), d.phase = "identity",
         NEW e \in PrepareIdentity(d)
  PROVE  GoodAt(S, e) /\ e.id = d.id
<1>1. CASE e = d
  BY <1>1
<1>2. CASE \E h \in AvailableHeroes(d) : e = WithHero(d, h)
  BY <1>2, HeroGiven
<1> QED
  BY <1>1, <1>2 DEF PrepareIdentity

LEMMA FreshGood ==
  ASSUME NEW id \in 1 .. MaxDrafts, NEW f \in Format, NEW m \in Mode, NEW n \in TableSize,
         NEW s \in Collection
  PROVE  LET d == Fresh(id, f, m, n, s) IN
         GoodAt(0 .. n - 1, d) /\ d.phase = "identity" /\ d.id = id
<1>1. PICK S : S = 0 .. n - 1
  OBVIOUS
<1>2. Places(S) /\ 0 \in S /\ S \subseteq Nat
  BY <1>1, TableSeats, PlacesAre
<1>3. PICK d : d = Fresh(id, f, m, n, s)
  OBVIOUS
<1>4. EmptyPlayer \in Player /\ NoCards \in Bag
  BY NoCardsBag, SizesAssumption DEF EmptyPlayer, Player, Bag
<1>5. BoosterCount \in Nat
  BY SizesAssumption DEF BoosterCount
<1>6. d = [id |-> id, format |-> f, mode |-> m, collection |-> s,
           players |-> [i \in S |-> EmptyPlayer], phase |-> "identity", current |-> 0,
           stock |-> NoCards, packs |-> [i \in S |-> <<>>], offer |-> {},
           pools |-> [i \in S |-> NoCards], opened |-> [i \in S |-> 0],
           building |-> [i \in S |-> FALSE], short |-> {}]
  BY <1>1, <1>3 DEF Fresh
<1>7. /\ [i \in S |-> EmptyPlayer] \in Players(S) /\ [i \in S |-> <<>>] \in Queues(S)
      /\ [i \in S |-> NoCards] \in [S -> Bag] /\ [i \in S |-> 0] \in [S -> 0 .. BoosterCount]
      /\ [i \in S |-> FALSE] \in [S -> BOOLEAN]
  BY <1>4, <1>5 DEF Players, Queues, Queue
<1>8. Shape(S, d)
  BY <1>2, <1>4, <1>6, <1>7 DEF Shape, Drafts
<1>9. /\ d.phase = "identity" /\ d.id = id /\ d.players = [i \in S |-> EmptyPlayer]
      /\ d.packs = [i \in S |-> <<>>] /\ d.offer = {} /\ d.short = {} /\ d.current = 0
  BY <1>6
<1>10. Seats(d) = S
  BY <1>9 DEF Seats
<1>11. Seating(d)
  BY <1>9, <1>10 DEF Seating, EmptyPlayer
<1>12. Waiting(d)
  <2>1. MinDeck >= MinDeck
    BY SizesAssumption
  <2>2. \A i \in S : ~ (i < 0)
    BY <1>2
  <2> QED
    BY <1>9, <1>10, <2>1, <2>2 DEF Waiting, EmptyPlayer
<1> QED
  BY <1>1, <1>3, <1>8, <1>9, <1>11, <1>12 DEF GoodAt

LEMMA RedrawnGood ==
  ASSUME NEW S, Places(S), NEW d, GoodAt(S, d), d.phase = "identity",
         NEW e \in PrepareIdentity([d EXCEPT !.players[d.current] =
                                    [Current(d) EXCEPT !.hero = NoHero, !.aspects = {}]])
  PROVE  GoodAt(S, e) /\ e.id = d.id
<1>1. Waiting(d) /\ Current(d) \in Player /\ Current(d) = d.players[d.current]
      /\ d.current \in Seats(d)
  BY ShapeIs DEF GoodAt
<1>2. PICK p : p = [Current(d) EXCEPT !.hero = NoHero, !.aspects = {}]
  OBVIOUS
<1>3. p \in Player /\ p.picks = Current(d).picks /\ p.size = Current(d).size /\ p.hero = NoHero
  BY <1>1, <1>2 DEF Player
<1>4. Newcomer(d, p)
  BY <1>1, <1>3 DEF Newcomer, Waiting
<1>5. PICK x : x = Seat(d, p)
  OBVIOUS
<1>6. GoodAt(S, x) /\ x.id = d.id /\ x.phase = "identity"
  BY <1>4, <1>5, SeatedGood
<1>7. e \in PrepareIdentity(x)
  BY <1>2, <1>5 DEF Seat
<1> QED
  BY <1>6, <1>7, PreparedGood

LEMMA AspectsChosenGood ==
  ASSUME NEW S, Places(S), NEW d, GoodAt(S, d), d.phase = "identity",
         NEW A \in SUBSET Aspect
  PROVE  LET e == [d EXCEPT !.players[d.current] = [Current(d) EXCEPT !.aspects = A]]
         IN  GoodAt(S, e) /\ e.id = d.id
<1>1. Waiting(d) /\ Seating(d) /\ Current(d) \in Player /\ Current(d) = d.players[d.current]
      /\ d.current \in Seats(d)
  BY ShapeIs DEF GoodAt
<1>2. PICK p : p = [Current(d) EXCEPT !.aspects = A]
  OBVIOUS
<1>3. p \in Player /\ p.picks = Current(d).picks /\ p.size = Current(d).size
      /\ p.hero = Current(d).hero
  BY <1>1, <1>2 DEF Player
<1>4. Newcomer(d, p)
  BY <1>1, <1>3 DEF Newcomer, Waiting, Seating
<1> QED
  BY <1>2, <1>4, SeatedGood DEF Seat

LEMMA SizeChosenGood ==
  ASSUME NEW S, Places(S), NEW d, GoodAt(S, d), d.phase = "identity", NEW k \in DeckSize
  PROVE  LET e == [d EXCEPT !.players[d.current] = [Current(d) EXCEPT !.size = k]]
         IN  GoodAt(S, e) /\ e.id = d.id
<1>1. Waiting(d) /\ Seating(d) /\ Current(d) \in Player /\ Current(d) = d.players[d.current]
      /\ d.current \in Seats(d)
  BY ShapeIs DEF GoodAt
<1>2. PICK p : p = [Current(d) EXCEPT !.size = k]
  OBVIOUS
<1>3. k \in 0 .. MaxDeck /\ k >= MinDeck
  BY TableAssumption, SizesAssumption
<1>4. p \in Player /\ p.picks = Current(d).picks /\ p.size = k /\ p.hero = Current(d).hero
  BY <1>1, <1>2, <1>3 DEF Player
<1>5. Newcomer(d, p)
  BY <1>1, <1>3, <1>4 DEF Newcomer, Waiting, Seating
<1> QED
  BY <1>2, <1>5, SeatedGood DEF Seat

LEMMA ShelfChosenGood ==
  ASSUME NEW S, NEW d, GoodAt(S, d), d.phase = "identity", NEW s \in Collection
  PROVE  LET e == [d EXCEPT !.collection = s] IN GoodAt(S, e) /\ e.id = d.id
<1>1. PICK e : e = [d EXCEPT !.collection = s]
  OBVIOUS
<1>2. Shape(S, d) /\ Waiting(d) /\ Seating(d)
  BY DEF GoodAt
<1>3. Shape(S, e)
  BY <1>1, <1>2 DEF Shape, Drafts
<1>4. /\ e.id = d.id /\ e.phase = d.phase /\ e.players = d.players /\ e.packs = d.packs
      /\ e.offer = d.offer /\ e.short = d.short /\ e.current = d.current
  BY <1>1, <1>2 DEF Shape, Drafts
<1>5. Seating(e) /\ Waiting(e)
  BY <1>2, <1>4 DEF Seating, Waiting, Seats
<1> QED
  BY <1>1, <1>3, <1>4, <1>5 DEF GoodAt

LEMMA NextSeat ==
  ASSUME NEW S, Places(S), NEW d, Shape(S, d), d.current < Seated(d) - 1
  PROVE  d.current + 1 \in S /\ \A i \in S : i < d.current + 1 => i < d.current \/ i = d.current
<1>1. PICK n \in Nat \ {0} : S = 0 .. n - 1
  BY DEF Places
<1>2. Seated(d) = n /\ d.current \in S
  BY <1>1, ShapeIs, SeatsFinite DEF Seated
<1>3. PICK c \in 0 .. n - 1 : c = d.current
  BY <1>1, <1>2
<1>4. c + 1 \in 0 .. n - 1
  BY <1>2, <1>3
<1>5. \A i \in 0 .. n - 1 : i < c + 1 => i < c \/ i = c
  OBVIOUS
<1> QED
  BY <1>1, <1>3, <1>4, <1>5

LEMMA LastSeat ==
  ASSUME NEW S, Places(S), NEW d, Shape(S, d), d.current = Seated(d) - 1
  PROVE  \A i \in S : i < d.current \/ i = d.current
<1>1. PICK n \in Nat \ {0} : S = 0 .. n - 1
  BY DEF Places
<1>2. Seated(d) = n
  BY <1>1, ShapeIs, SeatsFinite DEF Seated
<1>3. \A i \in 0 .. n - 1 : i < n - 1 \/ i = n - 1
  OBVIOUS
<1> QED
  BY <1>1, <1>2, <1>3

LEMMA PassedOnGood ==
  ASSUME NEW S, Places(S), NEW d, GoodAt(S, d), d.phase = "identity",
         IdentityReady(Current(d)), d.current < Seated(d) - 1,
         NEW e \in PrepareIdentity([d EXCEPT !.current = d.current + 1])
  PROVE  GoodAt(S, e) /\ e.id = d.id
<1>1. Shape(S, d) /\ Waiting(d) /\ Seating(d) /\ Seats(d) = S
      /\ Current(d) = d.players[d.current]
  BY ShapeIs DEF GoodAt
<1>2. PICK k : k = d.current + 1
  OBVIOUS
<1>3. k \in S /\ \A i \in S : i < k => i < d.current \/ i = d.current
  BY <1>1, <1>2, NextSeat
<1>4. PICK x : x = [d EXCEPT !.current = k]
  OBVIOUS
<1>5. Shape(S, x)
  BY <1>1, <1>3, <1>4 DEF Shape, Drafts
<1>6. /\ x.id = d.id /\ x.phase = d.phase /\ x.players = d.players /\ x.packs = d.packs
      /\ x.offer = d.offer /\ x.short = d.short /\ x.current = k
  BY <1>1, <1>4 DEF Shape, Drafts
<1>7. Seats(x) = S
  BY <1>1, <1>6 DEF Seats
<1>8. Seating(x)
  BY <1>1, <1>6, <1>7 DEF Seating
<1>9. Waiting(x)
  BY <1>1, <1>3, <1>6, <1>7 DEF Waiting
<1>10. GoodAt(S, x)
  BY <1>5, <1>6, <1>8, <1>9 DEF GoodAt
<1>11. e \in PrepareIdentity(x)
  BY <1>2, <1>4
<1> QED
  BY <1>6, <1>10, <1>11, PreparedGood

(* Every seat is ready when the last one is. *)
LEMMA AllReady ==
  ASSUME NEW S, Places(S), NEW d, GoodAt(S, d), d.phase = "identity",
         IdentityReady(Current(d)), d.current = Seated(d) - 1
  PROVE  \A i \in S : /\ Sound(d.players[i]) /\ Whole(d.players[i])
                      /\ d.players[i].picks = NoCards /\ d.packs[i] = <<>>
<1>1. Shape(S, d) /\ Waiting(d) /\ Seats(d) = S /\ d.players \in Players(S)
      /\ Current(d) = d.players[d.current]
  BY ShapeIs DEF GoodAt
<1>2. ASSUME NEW i \in S
      PROVE  /\ Sound(d.players[i]) /\ Whole(d.players[i])
             /\ d.players[i].picks = NoCards /\ d.packs[i] = <<>>
  <2>1. PICK p \in Player : p = d.players[i]
    BY <1>1 DEF Players
  <2>2. IdentityReady(p)
    <3>1. i < d.current \/ i = d.current
      BY <1>1, LastSeat
    <3> QED
      BY <1>1, <2>1, <3>1 DEF Waiting
  <2>3. p.picks = NoCards /\ p.size >= MinDeck /\ d.packs[i] = <<>>
    BY <1>1, <2>1 DEF Waiting
  <2>4. p.hero \in Hero /\ Cardinality(p.aspects) = AspectCount[p.hero]
    BY <2>2 DEF IdentityReady, Player
  <2>5. NothingBlocks(p, NoCards)
    BY <2>4, EmptyBlocksNothing
  <2> QED
    BY <2>1, <2>2, <2>3, <2>5 DEF Sound, Whole, BalanceOpen
<1> QED
  BY <1>2

LEMMA TurnedGood ==
  ASSUME NEW S, NEW d, Shape(S, d), Seating(d), DecksSound(d), d.format = "draft",
         \A c \in Card : DraftCopies(d, c) = d.collection[c],
         NEW e, Turned(S, d, e)
  PROVE  GoodAt(S, e) /\ e.id = d.id
<1>1. Shape(S, e) /\ Kept(d, e) /\ e.phase # "identity" /\ e.format = "draft"
      /\ e.id = d.id /\ e.players = d.players /\ e.short = d.short
      /\ e.collection = d.collection
  BY DEF Turned, Kept
<1>2. Seats(e) = Seats(d)
  BY <1>1 DEF Seats
<1>3. Seating(e) /\ DecksSound(e)
  BY <1>1, <1>2 DEF Seating, DecksSound
<1>4. Drafted(e)
  BY <1>1 DEF Drafted, Turned
<1> QED
  BY <1>1, <1>3, <1>4 DEF GoodAt

LEMMA StartedGood ==
  ASSUME NEW S, Places(S), NEW d, GoodAt(S, d), d.phase = "identity", d.format = "draft",
         IdentityReady(Current(d)), d.current = Seated(d) - 1,
         NEW e \in Start([d EXCEPT !.stock = d.collection])
  PROVE  GoodAt(S, e) /\ e.id = d.id
<1>1. Shape(S, d) /\ Waiting(d) /\ Seating(d) /\ Seats(d) = S /\ d.players \in Players(S)
      /\ d.collection \in Bag /\ d.packs \in Queues(S) /\ d.offer = {}
  BY ShapeIs DEF GoodAt, Waiting
<1>2. PICK x : x = [d EXCEPT !.stock = d.collection]
  OBVIOUS
<1>3. Shape(S, x)
  BY <1>1, <1>2 DEF Shape, Drafts
<1>4. /\ x.id = d.id /\ x.players = d.players /\ x.packs = d.packs /\ x.offer = {}
      /\ x.short = d.short /\ x.format = "draft" /\ x.collection = d.collection
      /\ x.stock = d.collection
  BY <1>1, <1>2 DEF Shape, Drafts
<1>5. Seats(x) = S
  BY <1>1, <1>4 DEF Seats
<1>6. Seating(x)
  BY <1>1, <1>4, <1>5 DEF Seating
<1>7. DecksSound(x)
  BY <1>1, <1>4, <1>5, AllReady DEF DecksSound
<1>8. ASSUME NEW c \in Card
      PROVE  DraftCopies(x, c) = x.collection[c]
  <2>1. IsFiniteSet(S)
    BY PlacesAre
  <2>2. PicksHeld(d.players, c) = 0
    <3>1. DOMAIN d.players = S
      BY <1>1 DEF Players
    <3>2. \A i \in S : d.players[i].picks[c] = 0
      BY AllReady, NoCardsBag
    <3>3. [i \in DOMAIN d.players |-> d.players[i].picks[c]] = [i \in S |-> 0]
      BY <3>1, <3>2
    <3> QED
      BY <2>1, <3>3, SumOfZeros DEF PicksHeld
  <2>3. PacksHeld(d.packs, c) = 0
    <3>1. DOMAIN d.packs = S
      BY <1>1 DEF Queues
    <3>2. \A i \in S : d.packs[i] = <<>>
      BY AllReady
    <3>3. [i \in DOMAIN d.packs |-> InPacks(d.packs[i], c)] = [i \in S |-> 0]
      BY <3>1, <3>2, NoPacks
    <3> QED
      BY <2>1, <3>3, SumOfZeros DEF PacksHeld
  <2>4. OnTable({}, c) = 0
    BY DEF OnTable
  <2>5. PICK t \in Nat : t = d.collection[c]
    BY <1>1 DEF Bag
  <2>6. DraftCopies(x, c) = 0 + (t + 0 + 0)
    BY <1>4, <2>2, <2>3, <2>4, <2>5 DEF DraftCopies, Outside
  <2> QED
    BY <1>4, <2>5, <2>6
<1>9. e \in Start(x)
  BY <1>2
<1>10. Turned(S, x, e)
  BY <1>3, <1>4, <1>9, StartTurns
<1>11. GoodAt(S, e) /\ e.id = x.id
  BY <1>3, <1>4, <1>6, <1>7, <1>8, <1>10, TurnedGood
<1> QED
  BY <1>4, <1>11

-----------------------------------------------------------------------------
(* dealSealed, its parts named. *)
Eligible(d) == [i \in Seats(d) |-> {c \in PlayerPool(d.stock, d.players[i]) :
                                       CanTake(d.players[i], c)}]

LeftFor(d, x, i) ==
    {c \in Eligible(d)[i] :
        x.stock[c] > 0 /\ UsableCopies(d.players[i], c, d.collection) > x.pools[i][c]}

DealtTo(d, x, i) ==
    IF LeftFor(d, x, i) = {} THEN {x}
    ELSE {[x EXCEPT !.stock = Minus(@, c), !.pools[i] = Plus(@, c)] : c \in LeftFor(d, x, i)}

DealTurn(d, X, k) == UNION {DealtTo(d, x, (k - 1) % Seated(d)) : x \in X}

DealStart(d) == [stock |-> d.stock, pools |-> [i \in Seats(d) |-> NoCards]]

DealStep(d, f, k) == IF k = 0 THEN {DealStart(d)} ELSE DealTurn(d, f[k - 1], k)

DealTurns(d) == SealedSize * Seated(d)

DealTable(d) == CHOOSE f : f = [k \in 0 .. DealTurns(d) |-> DealStep(d, f, k)]

Boosters(d, x) ==
    [d EXCEPT !.stock = x.stock, !.pools = x.pools, !.opened = [i \in Seats(d) |-> 0],
              !.building = [i \in Seats(d) |-> FALSE], !.phase = "pick", !.current = 0]

LEMMA DealSealedIs ==
  ASSUME NEW d
  PROVE  DealSealed(d) = {Boosters(d, x) : x \in DealTable(d)[DealTurns(d)]}
  BY DEF DealSealed, DealTable, DealStep, DealTurn, DealStart, DealTurns, DealtTo, LeftFor,
         Eligible, Boosters

LEMMA DealTableExists ==
  ASSUME NEW d, NEW m \in Nat
  PROVE  \E f : f = [k \in 0 .. m |-> DealStep(d, f, k)]
<1> DEFINE N == {j \in Nat : \E f : f = [k \in 0 .. j |-> DealStep(d, f, k)]}
<1>1. 0 \in N
  <2> DEFINE f == [k \in 0 .. 0 |-> {DealStart(d)}]
  <2>1. \A k \in 0 .. 0 : DealStep(d, f, k) = {DealStart(d)}
    BY DEF DealStep
  <2>2. f = [k \in 0 .. 0 |-> DealStep(d, f, k)]
    BY <2>1
  <2> QED
    BY <2>2
<1>2. ASSUME NEW j \in Nat, j \in N
      PROVE  j + 1 \in N
  <2>1. PICK f : f = [k \in 0 .. j |-> DealStep(d, f, k)]
    BY <1>2
  <2>2. PICK X : X = DealTurn(d, f[j], j + 1)
    OBVIOUS
  <2> DEFINE g == [k \in 0 .. j + 1 |-> IF k = j + 1 THEN X ELSE f[k]]
  <2>3. \A k \in 0 .. j : g[k] = f[k]
    OBVIOUS
  <2>4. g[j + 1] = X
    OBVIOUS
  <2>5. ASSUME NEW k \in 0 .. j + 1
        PROVE  g[k] = DealStep(d, g, k)
    <3>1. CASE k = 0
      <4>1. f[0] = DealStep(d, f, 0)
        BY <2>1
      <4>2. f[0] = {DealStart(d)}
        BY <4>1 DEF DealStep
      <4>3. DealStep(d, g, k) = {DealStart(d)}
        BY <3>1 DEF DealStep
      <4>4. g[k] = f[0]
        BY <2>3, <3>1
      <4> QED
        BY <4>2, <4>3, <4>4
    <3>2. CASE k \in 1 .. j
      <4>1. f[k] = DealStep(d, f, k)
        BY <2>1, <3>2
      <4>2. k # 0 /\ k - 1 \in 0 .. j /\ k \in 0 .. j
        BY <3>2
      <4>3. g[k - 1] = f[k - 1] /\ g[k] = f[k]
        BY <2>3, <4>2
      <4> HIDE DEF g
      <4> QED
        BY <4>1, <4>2, <4>3 DEF DealStep
    <3>3. CASE k = j + 1
      <4>1. k # 0 /\ k - 1 = j /\ j \in 0 .. j
        BY <3>3
      <4>2. g[k - 1] = f[j] /\ g[k] = X
        BY <2>3, <2>4, <3>3, <4>1
      <4> HIDE DEF g
      <4> QED
        BY <2>2, <3>3, <4>1, <4>2 DEF DealStep
    <3> QED
      BY <3>1, <3>2, <3>3
  <2>6. g = [k \in 0 .. j + 1 |-> DealStep(d, g, k)]
    <3>1. g = [k \in 0 .. j + 1 |-> g[k]]
      OBVIOUS
    <3> HIDE DEF g
    <3> QED
      BY <2>5, <3>1
  <2>7. \E h : h = [k \in 0 .. j + 1 |-> DealStep(d, h, k)]
    <3> HIDE DEF g
    <3> QED
      BY <2>6
  <2> QED
    BY <2>7
<1> HIDE DEF N
<1>3. m \in N
  BY <1>1, <1>2, FromZeroUp
<1> QED
  BY <1>3 DEF N

LEMMA PoolsHeldMove ==
  ASSUME NEW S, IsFiniteSet(S), NEW pools \in [S -> Bag], NEW other \in [S -> Bag],
         NEW s \in S, \A i \in S \ {s} : other[i] = pools[i], NEW c \in Card
  PROVE  /\ PoolsHeld(pools, c) \in Nat
         /\ PoolsHeld(other, c) = PoolsHeld(pools, c) + other[s][c] - pools[s][c]
<1> DEFINE f == [i \in S |-> pools[i][c]]
<1> DEFINE g == [i \in S |-> other[i][c]]
<1>1. f \in [S -> Nat] /\ g \in [S -> Nat]
  <2>1. \A i \in S : pools[i][c] \in Nat /\ other[i][c] \in Nat
    BY DEF Bag
  <2> QED
    BY <2>1
<1>2. PoolsHeld(pools, c) = SumFunction(f) /\ PoolsHeld(other, c) = SumFunction(g)
  BY DEF PoolsHeld
<1>3. \A i \in S \ {s} : g[i] = f[i]
  OBVIOUS
<1>4. f[s] = pools[s][c] /\ g[s] = other[s][c]
  OBVIOUS
<1> HIDE DEF f, g
<1>5. f \in [S -> Int] /\ g \in [S -> Int]
  BY <1>1
<1>6. SumFunction(g) = SumFunction(f) + g[s] - f[s]
  BY <1>3, <1>5, SumMoves
<1>7. SumFunction(f) \in Nat
  BY <1>1, SumIsNat
<1> QED
  BY <1>2, <1>4, <1>6, <1>7

Pools(S) == [S -> Bag]

(* A deal that has lost no copy of the shelf's. *)
Dealing(S, d, x) ==
    /\ x = [stock |-> x.stock, pools |-> x.pools]
    /\ x.stock \in Bag /\ x.pools \in Pools(S)
    /\ \A c \in Card : x.stock[c] + PoolsHeld(x.pools, c) = d.stock[c]

PoolPlus(pools, i, c) == [pools EXCEPT ![i] = Plus(pools[i], c)]

(* One copy goes from the shelf into a pool. *)
LEMMA CopyDealt ==
  ASSUME NEW S, IsFiniteSet(S), NEW stock \in Bag, NEW pools \in Pools(S), NEW i \in S,
         NEW c \in Card, stock[c] > 0
  PROVE  /\ Minus(stock, c) \in Bag /\ PoolPlus(pools, i, c) \in Pools(S)
         /\ \A y \in Card : Minus(stock, c)[y] + PoolsHeld(PoolPlus(pools, i, c), y)
                              = stock[y] + PoolsHeld(pools, y)
<1>1. PICK bag \in Bag : bag = pools[i]
  BY DEF Pools
<1>2. PICK more \in Bag : more = Plus(bag, c)
  BY PlusMinus
<1>3. PICK left \in Bag : left = Minus(stock, c)
  BY PlusMinus
<1>4. more[c] = bag[c] + 1 /\ \A y \in Card \ {c} : more[y] = bag[y]
  BY <1>2, PlusMinus
<1>5. left[c] = stock[c] - 1 /\ \A y \in Card \ {c} : left[y] = stock[y]
  BY <1>3, PlusMinus
<1>6. PICK other : other = PoolPlus(pools, i, c)
  OBVIOUS
<1>7. other \in Pools(S) /\ other[i] = more /\ \A j \in S \ {i} : other[j] = pools[j]
  BY <1>1, <1>2, <1>6 DEF Pools, PoolPlus
<1>8. ASSUME NEW y \in Card
      PROVE  left[y] + PoolsHeld(other, y) = stock[y] + PoolsHeld(pools, y)
  <2>1. PICK h \in Nat : h = PoolsHeld(pools, y)
    BY PoolsHeldMove DEF Pools
  <2>2. PoolsHeld(other, y) = PoolsHeld(pools, y) + other[i][y] - pools[i][y]
    BY <1>7, PoolsHeldMove DEF Pools
  <2>3. PICK t \in Nat : t = stock[y]
    BY DEF Bag
  <2>4. PICK b \in Nat : b = bag[y]
    BY DEF Bag
  <2>5. PoolsHeld(other, y) = h + more[y] - b
    BY <1>1, <1>7, <2>1, <2>2, <2>4
  <2>6. CASE y = c
    <3>1. more[y] = b + 1 /\ left[y] = t - 1
      BY <1>4, <1>5, <2>3, <2>4, <2>6
    <3>2. PoolsHeld(other, y) = h + (b + 1) - b
      BY <2>5, <3>1
    <3>3. left[y] + PoolsHeld(other, y) = t + h
      BY <3>1, <3>2
    <3> QED
      BY <2>1, <2>3, <3>3
  <2>7. CASE y # c
    <3>1. more[y] = b /\ left[y] = t
      BY <1>4, <1>5, <2>3, <2>4, <2>7
    <3>2. PoolsHeld(other, y) = h + b - b
      BY <2>5, <3>1
    <3>3. left[y] + PoolsHeld(other, y) = t + h
      BY <3>1, <3>2
    <3> QED
      BY <2>1, <2>3, <3>3
  <2> QED
    BY <2>6, <2>7
<1> QED
  BY <1>3, <1>6, <1>7, <1>8

LEMMA DealtToDeals ==
  ASSUME NEW S, IsFiniteSet(S), NEW d, Shape(S, d), NEW x, Dealing(S, d, x), NEW i \in S,
         NEW e \in DealtTo(d, x, i)
  PROVE  Dealing(S, d, e)
<1>1. CASE e = x
  BY <1>1
<1>2. CASE \E c \in LeftFor(d, x, i) :
              e = [x EXCEPT !.stock = Minus(@, c), !.pools[i] = Plus(@, c)]
  <2>1. PICK c \in LeftFor(d, x, i) :
              e = [x EXCEPT !.stock = Minus(@, c), !.pools[i] = Plus(@, c)]
    BY <1>2
  <2>2. c \in Card /\ x.stock[c] > 0
    <3>1. d.players[i] \in Player /\ i \in Seats(d)
      BY ShapeIs DEF Players
    <3>2. PlayerPool(d.stock, d.players[i]) \subseteq Card
      BY <3>1, CardsAssumption DEF PlayerPool, Player
    <3> QED
      BY <3>1, <3>2 DEF LeftFor, Eligible
  <2>3. x.stock \in Bag /\ x.pools \in Pools(S) /\ x = [stock |-> x.stock, pools |-> x.pools]
    BY DEF Dealing
  <2>4. PICK left : left = Minus(x.stock, c)
    OBVIOUS
  <2>5. PICK other : other = PoolPlus(x.pools, i, c)
    OBVIOUS
  <2>6. /\ left \in Bag /\ other \in Pools(S)
        /\ \A y \in Card : left[y] + PoolsHeld(other, y) = x.stock[y] + PoolsHeld(x.pools, y)
    BY <2>2, <2>3, <2>4, <2>5, CopyDealt
  <2>7. e = [x EXCEPT !.stock = left, !.pools = other]
    BY <2>1, <2>4, <2>5 DEF PoolPlus
  <2>8. e = [stock |-> left, pools |-> other]
    BY <2>3, <2>7
  <2>9. e.stock = left /\ e.pools = other
    BY <2>8
  <2>10. \A y \in Card : left[y] + PoolsHeld(other, y) = d.stock[y]
    BY <2>6 DEF Dealing
  <2> QED
    BY <2>6, <2>8, <2>9, <2>10 DEF Dealing
<1> QED
  BY <1>1, <1>2 DEF DealtTo

LEMMA AllDealt ==
  ASSUME NEW S, Places(S), NEW d, Shape(S, d), NEW e \in DealSealed(d)
  PROVE  \E x : e = Boosters(d, x) /\ Dealing(S, d, x)
<1>1. IsFiniteSet(S) /\ Seats(d) = S /\ d.stock \in Bag /\ Cardinality(S) \in Nat
  BY PlacesAre, ShapeIs
<1>2. PICK m \in Nat : m = DealTurns(d)
  BY <1>1, SizesAssumption DEF DealTurns, Seated
<1>3. PICK f : f = DealTable(d)
  OBVIOUS
<1>4. f = [k \in 0 .. m |-> DealStep(d, f, k)]
  <2>1. \E g : g = [k \in 0 .. m |-> DealStep(d, g, k)]
    BY DealTableExists
  <2> QED
    BY <1>2, <1>3, <2>1 DEF DealTable
<1>5. \A k \in 0 .. m : f[k] = DealStep(d, f, k)
  BY <1>4
<1> DEFINE N == {k \in Nat : k <= m => \A x \in f[k] : Dealing(S, d, x)}
<1>6. 0 \in N
  <2>1. f[0] = {DealStart(d)}
    BY <1>5 DEF DealStep
  <2>2. PICK pools : pools = [i \in S |-> NoCards]
    OBVIOUS
  <2>3. DealStart(d) = [stock |-> d.stock, pools |-> pools]
    BY <1>1, <2>2 DEF DealStart
  <2>4. pools \in Pools(S)
    BY <2>2, NoCardsBag DEF Pools
  <2>5. ASSUME NEW c \in Card PROVE d.stock[c] + PoolsHeld(pools, c) = d.stock[c]
    <3>1. [i \in DOMAIN pools |-> pools[i][c]] = [i \in S |-> 0]
      BY <2>2, NoCardsBag
    <3>2. PoolsHeld(pools, c) = 0
      BY <1>1, <3>1, SumOfZeros DEF PoolsHeld
    <3>3. d.stock[c] \in Nat
      BY <1>1 DEF Bag
    <3> QED
      BY <3>2, <3>3
  <2>6. Dealing(S, d, DealStart(d))
    BY <1>1, <2>3, <2>4, <2>5 DEF Dealing
  <2> QED
    BY <2>1, <2>6
<1>7. ASSUME NEW k \in Nat, k \in N
      PROVE  k + 1 \in N
  <2> SUFFICES ASSUME k + 1 <= m, NEW y \in f[k + 1]
               PROVE  Dealing(S, d, y)
    OBVIOUS
  <2>1. k + 1 \in 0 .. m /\ k + 1 # 0 /\ k \in 0 .. m /\ (k + 1) - 1 = k
    BY <1>2
  <2>2. f[k + 1] = DealTurn(d, f[k], k + 1)
    BY <1>5, <2>1 DEF DealStep
  <2>3. PICK x \in f[k] : y \in DealtTo(d, x, k % Seated(d))
    BY <2>1, <2>2 DEF DealTurn
  <2>4. Dealing(S, d, x)
    BY <1>7, <2>1
  <2>5. k % Seated(d) \in S
    BY <1>1, PlacesAre DEF Seated
  <2> HIDE DEF N
  <2> QED
    BY <1>1, <2>3, <2>4, <2>5, DealtToDeals
<1>8. m \in N
  <2> HIDE DEF N
  <2> QED
    BY <1>6, <1>7, FromZeroUp
<1>9. \A x \in f[m] : Dealing(S, d, x)
  BY <1>8
<1>10. PICK x \in f[m] : e = Boosters(d, x)
  BY <1>2, <1>3, DealSealedIs
<1> QED
  BY <1>9, <1>10

LEMMA DealtGood ==
  ASSUME NEW S, Places(S), NEW d, GoodAt(S, d), d.phase = "identity", d.format = "sealed",
         IdentityReady(Current(d)), d.current = Seated(d) - 1,
         NEW e \in DealSealed([d EXCEPT !.stock = d.collection])
  PROVE  GoodAt(S, e) /\ e.id = d.id
<1>1. Shape(S, d) /\ Waiting(d) /\ Seating(d) /\ Seats(d) = S /\ d.collection \in Bag
  BY ShapeIs DEF GoodAt
<1>2. 0 \in S /\ S \subseteq Nat /\ BoosterCount \in Nat
  <2>1. BoosterCount \in Nat
    BY SizesAssumption DEF BoosterCount
  <2> QED
    BY <2>1, PlacesAre
<1>3. PICK y : y = [d EXCEPT !.stock = d.collection]
  OBVIOUS
<1>4. Shape(S, y)
  BY <1>1, <1>3 DEF Shape, Drafts
<1>5. /\ y.id = d.id /\ y.players = d.players /\ y.short = {} /\ y.format = "sealed"
      /\ y.collection = d.collection /\ y.stock = d.collection
  BY <1>1, <1>3 DEF Shape, Drafts, Waiting
<1>6. PICK x : e = Boosters(y, x) /\ Dealing(S, y, x)
  BY <1>3, <1>4, AllDealt
<1>7. PICK stock : stock = x.stock
  OBVIOUS
<1>8. PICK pools : pools = x.pools
  OBVIOUS
<1>9. PICK opened : opened = [i \in S |-> 0]
  OBVIOUS
<1>10. PICK building : building = [i \in S |-> FALSE]
  OBVIOUS
<1>11. Seats(y) = S
  BY <1>1, <1>5 DEF Seats
<1>12. /\ stock \in Bag /\ pools \in Pools(S) /\ opened \in [S -> 0 .. BoosterCount]
       /\ building \in [S -> BOOLEAN]
       /\ \A c \in Card : stock[c] + PoolsHeld(pools, c) = d.collection[c]
  BY <1>2, <1>5, <1>6, <1>7, <1>8, <1>9, <1>10 DEF Dealing
<1>13. e = [y EXCEPT !.stock = stock, !.pools = pools, !.opened = opened,
                     !.building = building, !.phase = "pick", !.current = 0]
  BY <1>6, <1>7, <1>8, <1>9, <1>10, <1>11 DEF Boosters
<1>14. Shape(S, e)
  BY <1>2, <1>4, <1>12, <1>13 DEF Shape, Drafts, Pools
<1>15. /\ e.id = y.id /\ e.players = y.players /\ e.short = y.short /\ e.format = y.format
       /\ e.collection = y.collection /\ e.stock = stock /\ e.pools = pools
       /\ e.phase = "pick" /\ e.current = 0
  BY <1>4, <1>13 DEF Shape, Drafts
<1>16. Seats(e) = S
  BY <1>5, <1>11, <1>15 DEF Seats
<1>17. Seating(e)
  BY <1>1, <1>5, <1>15, <1>16 DEF Seating
<1>18. DecksSound(e)
  BY <1>5, <1>15, <1>16, AllReady DEF DecksSound
<1>19. Pooled(e)
  <2>1. \A c \in Card : e.stock[c] + PoolsHeld(e.pools, c) = e.collection[c]
    BY <1>5, <1>12, <1>15
  <2>2. ASSUME NEW i \in S, NEW c \in Card
        PROVE  e.players[i].picks[c] <= e.pools[i][c]
    <3>1. e.players[i].picks[c] = 0
      BY <1>5, <1>15, AllReady, NoCardsBag
    <3>2. e.pools[i][c] \in Nat
      BY <1>12, <1>15 DEF Pools, Bag
    <3> QED
      BY <3>1, <3>2
  <2>3. \A i \in S : ~ (i < e.current)
    BY <1>2, <1>15
  <2> QED
    BY <1>5, <1>15, <1>16, <2>1, <2>2, <2>3 DEF Pooled
<1> QED
  BY <1>5, <1>14, <1>15, <1>17, <1>18, <1>19 DEF GoodAt

-----------------------------------------------------------------------------
(* One card more or less in a deck. *)
LEMMA OtherPicks ==
  ASSUME NEW p \in Player, NEW bag \in Bag, NEW q, q = [p EXCEPT !.picks = bag]
  PROVE  /\ q \in Player /\ q.hero = p.hero /\ q.aspects = p.aspects /\ q.size = p.size
         /\ q.picks = bag
         /\ IdentityReady(q) = IdentityReady(p)
         /\ NothingBlocks(q, bag) = NothingBlocks(p, bag)
         /\ Deficit(q, bag) = Deficit(p, bag)
         /\ Total(bag, Card) = Total(p.picks, Card) + 1 => CardCount(q) = CardCount(p) + 1
         /\ Total(bag, Card) = Total(p.picks, Card) - 1 => CardCount(q) = CardCount(p) - 1
<1>1. q \in Player /\ q.hero = p.hero /\ q.aspects = p.aspects /\ q.size = p.size
      /\ q.picks = bag
  BY DEF Player, Bag
<1>2. IdentityReady(q) = IdentityReady(p)
  BY <1>1 DEF IdentityReady
<1>3. NothingBlocks(q, bag) = NothingBlocks(p, bag)
  BY <1>1 DEF NothingBlocks, AspectsAllow, OffAspect
<1>4. Deficit(q, bag) = Deficit(p, bag)
  BY <1>1 DEF Deficit, MostOf
<1>5. PICK v \in Nat : v = IF p.hero = NoHero THEN 0 ELSE SignatureCount[p.hero]
  <2>1. p.hero \in Hero => SignatureCount[p.hero] \in Nat
    BY CardsAssumption, SizesAssumption
  <2> QED
    BY <2>1 DEF Player
<1>6. PICK t \in Nat : t = Total(p.picks, Card)
  <2>1. p.picks \in Bag
    BY DEF Player, Bag
  <2> QED
    BY <2>1, TotalNat
<1>7. CardCount(p) = v + t /\ CardCount(q) = v + Total(bag, Card)
  BY <1>1, <1>5, <1>6 DEF CardCount
<1>8. Total(bag, Card) \in Nat
  BY TotalNat
<1>9. Total(bag, Card) = t + 1 => CardCount(q) = CardCount(p) + 1
  BY <1>7
<1>10. Total(bag, Card) = t - 1 => CardCount(q) = CardCount(p) - 1
  BY <1>7
<1> QED
  BY <1>1, <1>2, <1>3, <1>4, <1>6, <1>9, <1>10

LEMMA DeckPlus ==
  ASSUME NEW p \in Player, IdentityReady(p), NEW c \in Card, CanTake(p, c),
         NEW q, q = [p EXCEPT !.picks = Plus(p.picks, c)]
  PROVE  /\ q \in Player /\ q.hero = p.hero /\ q.picks = Plus(p.picks, c) /\ Sound(q)
         /\ Whole(p) => Whole(q)
<1>1. p.picks \in Bag
  BY DEF Player, Bag
<1>2. PICK bag \in Bag : bag = Plus(p.picks, c)
  BY <1>1, PlusMinus
<1>3. Total(bag, Card) = Total(p.picks, Card) + 1
  BY <1>1, <1>2, PlusMinus
<1>4. /\ q \in Player /\ q.hero = p.hero /\ q.size = p.size /\ q.picks = bag
      /\ IdentityReady(q) /\ NothingBlocks(q, bag) = NothingBlocks(p, bag)
      /\ Deficit(q, bag) = Deficit(p, bag) /\ CardCount(q) = CardCount(p) + 1
  BY <1>2, <1>3, OtherPicks
<1>5. Sound(q)
  BY <1>2, <1>4 DEF Sound, CanTake
<1>6. BalanceOpen(q)
  <2> SUFFICES ASSUME q.hero \in Balanced
               PROVE  q.size - CardCount(q) >= Deficit(q, bag)
    BY <1>4 DEF BalanceOpen
  <2>1. p.size - CardCount(p) - 1 >= Deficit(p, bag)
    BY <1>2, <1>4 DEF CanTake
  <2>2. CardCount(p) \in Nat /\ p.size \in Int
    BY CountNat, SizesAssumption DEF Player
  <2>3. Deficit(p, bag) \in Nat
    BY LackIs
  <2>4. PICK k \in Nat, s \in Int, f \in Nat :
            k = CardCount(p) /\ s = p.size /\ f = Deficit(p, bag)
    BY <2>2, <2>3
  <2>5. s - (k + 1) >= f
    BY <2>1, <2>4
  <2> QED
    BY <1>4, <2>4, <2>5
<1> QED
  BY <1>2, <1>4, <1>5, <1>6 DEF Whole

LEMMA DeckMinus ==
  ASSUME NEW p \in Player, Sound(p), NEW c \in Card, p.picks[c] > 0,
         NEW q, q = [p EXCEPT !.picks = Minus(p.picks, c)]
  PROVE  /\ q \in Player /\ q.hero = p.hero /\ q.picks = Minus(p.picks, c) /\ Sound(q)
         /\ Whole(p) => Whole(q)
<1>1. PICK old \in Bag : old = p.picks
  BY DEF Player, Bag
<1>2. PICK bag \in Bag : bag = Minus(old, c)
  BY <1>1, PlusMinus
<1>3. Total(bag, Card) = Total(old, Card) - 1
  BY <1>1, <1>2, PlusMinus
<1>4. /\ q \in Player /\ q.hero = p.hero /\ q.size = p.size /\ q.picks = bag
      /\ IdentityReady(q) = IdentityReady(p) /\ NothingBlocks(q, bag) = NothingBlocks(p, bag)
      /\ Deficit(q, bag) = Deficit(p, bag) /\ CardCount(q) = CardCount(p) - 1
  BY <1>1, <1>2, <1>3, OtherPicks
<1>5. IdentityReady(p) /\ p.hero \in Hero /\ NothingBlocks(p, old)
  BY <1>1 DEF Sound, IdentityReady, Player
<1>6. \A x \in Card : bag[x] <= old[x]
  <2>1. bag[c] = old[c] - 1 /\ \A x \in Card \ {c} : bag[x] = old[x]
    BY <1>1, <1>2, PlusMinus
  <2>2. \A x \in Card : old[x] \in Nat
    BY DEF Bag
  <2> QED
    BY <2>1, <2>2
<1>7. Sound(q)
  <2>1. NothingBlocks(p, bag)
    BY <1>5, <1>6, LessBlocksNothing
  <2> QED
    BY <1>4, <1>5, <2>1 DEF Sound
<1>8. BalanceOpen(p) => BalanceOpen(q)
  <2> SUFFICES ASSUME BalanceOpen(p), q.hero \in Balanced
               PROVE  q.size - CardCount(q) >= Deficit(q, bag)
    BY <1>4 DEF BalanceOpen
  <2>1. old # NoCards
    BY <1>1, NoCardsBag
  <2>2. p.size - CardCount(p) >= Deficit(p, old)
    BY <1>1, <1>4, <2>1 DEF BalanceOpen
  <2>3. CardCount(p) \in Nat /\ p.size \in Int
    BY CountNat, SizesAssumption DEF Player
  <2>4. Deficit(p, bag) \in Nat /\ Deficit(p, old) \in Nat
    BY LackIs
  <2>5. Deficit(p, bag) <= Deficit(p, old) + 1
    BY <1>1, <1>2, DeficitAfterMinus
  <2>6. PICK k \in Nat, s \in Int, f \in Nat, g \in Nat :
            k = CardCount(p) /\ s = p.size /\ f = Deficit(p, old) /\ g = Deficit(p, bag)
    BY <2>3, <2>4
  <2>7. s - (k - 1) >= g
    BY <2>2, <2>5, <2>6
  <2> QED
    BY <1>4, <2>6, <2>7
<1> QED
  BY <1>1, <1>2, <1>4, <1>7, <1>8 DEF Whole

-----------------------------------------------------------------------------
(* Taking a card, and stopping. *)

(* The draft once the table is cleared, before the turn passes. *)
Cleared(d, p, packs, stock) ==
    [d EXCEPT !.players[d.current] = p, !.packs = packs, !.stock = stock, !.offer = {}]

LEMMA ClearedIs ==
  ASSUME NEW S, NEW d, Shape(S, d), NEW p \in Player, NEW packs \in Queues(S),
         NEW stock \in Bag
  PROVE  LET e == Cleared(d, p, packs, stock) IN
         /\ Shape(S, e) /\ e.id = d.id /\ e.phase = d.phase /\ e.format = d.format
         /\ e.stock = stock /\ e.packs = packs /\ e.offer = {}
         /\ e.pools = d.pools /\ e.collection = d.collection /\ e.short = d.short
         /\ e.current = d.current
         /\ e.players[d.current] = p
         /\ \A i \in S \ {d.current} : e.players[i] = d.players[i]
<1>1. d.players \in Players(S) /\ d.current \in S
  BY ShapeIs
<1>2. PICK players : players = [d.players EXCEPT ![d.current] = p]
  OBVIOUS
<1>3. players \in Players(S) /\ players[d.current] = p
      /\ \A i \in S \ {d.current} : players[i] = d.players[i]
  BY <1>1, <1>2 DEF Players
<1>4. PICK e : e = Cleared(d, p, packs, stock)
  OBVIOUS
<1>5. e = [d EXCEPT !.players = players, !.packs = packs, !.stock = stock, !.offer = {}]
  BY <1>2, <1>4 DEF Cleared
<1>6. Shape(S, e)
  BY <1>3, <1>5 DEF Shape, Drafts
<1>7. /\ e.id = d.id /\ e.phase = d.phase /\ e.format = d.format
      /\ e.stock = stock /\ e.packs = packs /\ e.offer = {}
      /\ e.pools = d.pools /\ e.collection = d.collection /\ e.short = d.short
      /\ e.current = d.current /\ e.players = players
  BY <1>5 DEF Shape, Drafts
<1> QED
  BY <1>3, <1>4, <1>6, <1>7

(* What leaves the table goes to the deck, to the packs or to the shelf. *)
Settled(d, p, packs, stock, c) ==
    p.picks[c] + PacksHeld(packs, c) + stock[c]
        = Current(d).picks[c] + PacksHeld(d.packs, c) + d.stock[c] + OnTable(d.offer, c)

LEMMA ClearedCopies ==
  ASSUME NEW S, IsFiniteSet(S), NEW d, Shape(S, d), NEW p \in Player, NEW packs \in Queues(S),
         NEW stock \in Bag, NEW c \in Card,
         Settled(d, p, packs, stock, c)
  PROVE  DraftCopies(Cleared(d, p, packs, stock), c) = DraftCopies(d, c)
<1>1. PICK e : e = Cleared(d, p, packs, stock)
  OBVIOUS
<1>2. PICK s \in S : s = d.current
  BY ShapeIs
<1>3. PICK players \in Players(S) : players = d.players
  BY ShapeIs
<1>4. PICK other \in Players(S) : other = e.players
  BY <1>1, ClearedIs, ShapeIs
<1>5. other[s] = p /\ \A i \in S \ {s} : other[i] = players[i]
  BY <1>1, <1>2, <1>3, <1>4, ClearedIs
<1>6. PicksHeld(other, c) = PicksHeld(players, c) + p.picks[c] - players[s].picks[c]
  BY <1>5, PicksHeldMove
<1>7. PICK a \in Nat : a = PicksHeld(players, c)
  BY HeldNat
<1>8. PICK x \in Nat : x = players[s].picks[c]
  BY DEF Players, Player
<1>9. PICK y \in Nat : y = p.picks[c]
  BY DEF Player
<1>10. PICK g \in Nat : g = PacksHeld(d.packs, c)
  BY ShapeIs, HeldNat
<1>11. PICK h \in Nat : h = PacksHeld(packs, c)
  BY HeldNat
<1>12. PICK t \in Nat : t = stock[c]
  BY DEF Bag
<1>13. PICK u \in Nat : u = d.stock[c]
  BY ShapeIs DEF Bag
<1>14. PICK o \in Nat : o = OnTable(d.offer, c)
  BY DEF OnTable
<1>15. Current(d).picks[c] = x
  BY <1>2, <1>3, <1>8, ShapeIs
<1>16. y + h + t = x + g + u + o
  BY <1>9, <1>10, <1>11, <1>12, <1>13, <1>14, <1>15 DEF Settled
<1>17. OnTable({}, c) = 0
  BY DEF OnTable
<1>18. e.stock = stock /\ e.packs = packs /\ e.offer = {}
  BY <1>1, ClearedIs
<1>19. DraftCopies(e, c) = (a + y - x) + (t + h + 0)
  BY <1>4, <1>6, <1>7, <1>8, <1>9, <1>11, <1>12, <1>17, <1>18 DEF DraftCopies, Outside
<1>20. DraftCopies(d, c) = a + (u + g + o)
  BY <1>3, <1>7, <1>10, <1>13, <1>14 DEF DraftCopies, Outside
<1>21. (a + y - x) + (t + h + 0) = a + (u + g + o)
  BY <1>16
<1> QED
  BY <1>1, <1>19, <1>20, <1>21

(* A card goes from the table into a deck, the rest back on the shelf. *)
LEMMA TakenCopies ==
  ASSUME NEW S, IsFiniteSet(S), NEW packs \in Queues(S), NEW stock \in Bag, NEW bag \in Bag,
         NEW offer \in SUBSET Card, NEW c \in offer, NEW y \in Card
  PROVE  LET left == Returned(stock, <<offer \ {c}>>) IN
         /\ left \in Bag
         /\ Plus(bag, c)[y] + PacksHeld(packs, y) + left[y]
              = bag[y] + PacksHeld(packs, y) + stock[y] + OnTable(offer, y)
<1>1. PICK rest : rest = offer \ {c}
  OBVIOUS
<1>2. PICK q : q = <<rest>>
  OBVIOUS
<1>3. q \in Seq({rest})
  BY <1>2
<1>4. PICK left : left = Returned(stock, q)
  OBVIOUS
<1>5. left \in Bag /\ left[y] = stock[y] + InPacks(q, y)
  BY <1>3, <1>4, ReturnedIs
<1>6. InPacks(q, y) = IF y \in rest THEN 1 ELSE 0
  BY <1>2, OnePack
<1>7. PICK h \in Nat : h = PacksHeld(packs, y)
  BY HeldNat
<1>8. PICK t \in Nat : t = stock[y]
  BY DEF Bag
<1>9. PICK b \in Nat : b = bag[y]
  BY DEF Bag
<1>10. Plus(bag, c)[c] = bag[c] + 1 /\ \A x \in Card \ {c} : Plus(bag, c)[x] = bag[x]
  BY PlusMinus
<1>11. Plus(bag, c)[y] + h + left[y] = b + h + t + OnTable(offer, y)
  <2>1. CASE y = c
    <3>1. Plus(bag, c)[y] = b + 1 /\ left[y] = t + 0 /\ OnTable(offer, y) = 1
      BY <1>1, <1>5, <1>6, <1>8, <1>9, <1>10, <2>1 DEF OnTable
    <3> QED
      BY <3>1
  <2>2. CASE y # c /\ y \in offer
    <3>1. Plus(bag, c)[y] = b /\ left[y] = t + 1 /\ OnTable(offer, y) = 1
      BY <1>1, <1>5, <1>6, <1>8, <1>9, <1>10, <2>2 DEF OnTable
    <3> QED
      BY <3>1
  <2>3. CASE y \notin offer
    <3>1. Plus(bag, c)[y] = b /\ left[y] = t + 0 /\ OnTable(offer, y) = 0
      BY <1>1, <1>5, <1>6, <1>8, <1>9, <1>10, <2>3 DEF OnTable
    <3> QED
      BY <3>1
  <2> QED
    BY <2>1, <2>2, <2>3
<1> QED
  BY <1>1, <1>2, <1>4, <1>5, <1>7, <1>8, <1>9, <1>11

(* The seats as they are after the current player's deck has changed. *)
LEMMA SeatChanged ==
  ASSUME NEW S, NEW d, Shape(S, d), Seating(d), NEW e, Seats(e) = S,
         \A i \in S \ {d.current} : e.players[i] = d.players[i],
         e.players[d.current].hero = Current(d).hero
  PROVE  Seating(e)
<1>1. Seats(d) = S /\ Current(d) = d.players[d.current] /\ d.current \in S
  BY ShapeIs
<1>2. \A i \in S : e.players[i].hero = d.players[i].hero
  BY <1>1
<1> QED
  BY <1>1, <1>2 DEF Seating

LEMMA PickedGood ==
  ASSUME NEW S, Places(S), NEW d, GoodAt(S, d), d.phase = "pick", d.format = "draft",
         NEW c \in d.offer, NEW e \in Pick(d, c)
  PROVE  GoodAt(S, e) /\ e.id = d.id
<1>1. /\ Shape(S, d) /\ Seating(d) /\ DecksSound(d) /\ Drafted(d) /\ Seats(d) = S
      /\ IsFiniteSet(S) /\ Current(d) = d.players[d.current] /\ d.current \in S
      /\ Current(d) \in Player /\ d.stock \in Bag /\ d.packs \in Queues(S)
      /\ d.offer \in SUBSET Card
  BY PlacesAre, ShapeIs DEF GoodAt
<1>2. PICK p \in Player : p = Current(d)
  BY <1>1
<1>3. CanTake(p, c) /\ c \in Card
  BY <1>1, <1>2 DEF Drafted, Offering
<1>4. PICK bag : bag = p.picks
  OBVIOUS
<1>5. bag \in Bag
  BY <1>4 DEF Player, Bag
<1>6. Sound(p) /\ (d.current \notin d.short => Whole(p))
  BY <1>1, <1>2 DEF DecksSound
<1>7. PICK q : q = [p EXCEPT !.picks = Plus(p.picks, c)]
  OBVIOUS
<1>8. /\ q \in Player /\ q.hero = p.hero /\ q.picks = Plus(bag, c) /\ Sound(q)
      /\ Whole(p) => Whole(q)
  BY <1>3, <1>4, <1>6, <1>7, DeckPlus DEF Sound
<1>9. PICK left : left = Returned(d.stock, <<d.offer \ {c}>>)
  OBVIOUS
<1>10. left \in Bag
  BY <1>1, <1>3, <1>5, <1>9, TakenCopies
<1>11. PICK x : x = Cleared(d, q, d.packs, left)
  OBVIOUS
<1>12. /\ Shape(S, x) /\ x.id = d.id /\ x.phase = d.phase /\ x.format = d.format
       /\ x.offer = {} /\ x.collection = d.collection /\ x.short = d.short
       /\ x.players[d.current] = q
       /\ \A i \in S \ {d.current} : x.players[i] = d.players[i]
  BY <1>1, <1>8, <1>10, <1>11, ClearedIs
<1>13. Seats(x) = S
  BY <1>12, ShapeIs
<1>14. Seating(x)
  BY <1>1, <1>2, <1>8, <1>12, <1>13, SeatChanged
<1>15. DecksSound(x)
  <2>1. ASSUME NEW i \in S
        PROVE  Sound(x.players[i]) /\ (i \notin x.short => Whole(x.players[i]))
    <3>1. CASE i = d.current
      BY <1>6, <1>8, <1>12, <3>1
    <3>2. CASE i # d.current
      BY <1>1, <1>12, <3>2 DEF DecksSound
    <3> QED
      BY <3>1, <3>2
  <2> QED
    BY <1>13, <2>1 DEF DecksSound
<1>16. ASSUME NEW y \in Card
       PROVE  DraftCopies(x, y) = x.collection[y]
  <2>1. Settled(d, q, d.packs, left, y)
    <3>1. Plus(bag, c)[y] + PacksHeld(d.packs, y) + left[y]
            = bag[y] + PacksHeld(d.packs, y) + d.stock[y] + OnTable(d.offer, y)
      <4>1. PICK packs \in Queues(S), stock \in Bag, offer \in SUBSET Card :
                packs = d.packs /\ stock = d.stock /\ offer = d.offer
        BY <1>1
      <4>2. left = Returned(stock, <<offer \ {c}>>) /\ c \in offer
        BY <1>9, <4>1
      <4>3. Plus(bag, c)[y] + PacksHeld(packs, y) + left[y]
              = bag[y] + PacksHeld(packs, y) + stock[y] + OnTable(offer, y)
        BY <1>1, <1>5, <4>2, TakenCopies
      <4> QED
        BY <4>1, <4>3
    <3>2. q.picks = Plus(bag, c) /\ Current(d).picks = bag
      BY <1>2, <1>4, <1>8
    <3> QED
      BY <3>1, <3>2 DEF Settled
  <2>2. DraftCopies(x, y) = DraftCopies(d, y)
    BY <1>1, <1>8, <1>10, <1>11, <2>1, ClearedCopies
  <2> QED
    BY <1>1, <1>12, <2>2 DEF Drafted
<1>17. e \in NextTurn(x)
  <2>1. PICK players : players = [d.players EXCEPT ![d.current] = q]
    OBVIOUS
  <2>2. WithPicks(d, Plus(Current(d).picks, c)) = [d EXCEPT !.players = players]
    BY <1>2, <1>7, <2>1 DEF WithPicks
  <2>3. [d EXCEPT !.players = players].stock = d.stock
    BY <1>1 DEF Shape, Drafts
  <2>4. e \in NextTurn([[d EXCEPT !.players = players] EXCEPT !.stock = left, !.offer = {}])
    BY <1>9, <2>2, <2>3 DEF Pick
  <2>5. x = [d EXCEPT !.players = players, !.packs = d.packs, !.stock = left, !.offer = {}]
    BY <1>11, <2>1 DEF Cleared
  <2>6. x = [[d EXCEPT !.players = players] EXCEPT !.stock = left, !.offer = {}]
    BY <1>1, <2>5 DEF Shape, Drafts
  <2> QED
    BY <2>4, <2>6
<1>18. Turned(S, x, e)
  BY <1>12, <1>17, NextTurnTurns
<1>19. GoodAt(S, e) /\ e.id = x.id
  BY <1>1, <1>12, <1>14, <1>15, <1>16, <1>18, TurnedGood
<1> QED
  BY <1>12, <1>19

(* The deck where it is, its size what it holds. *)
LEMMA DeckStopped ==
  ASSUME NEW p \in Player, Sound(p), NEW q, q = [p EXCEPT !.size = CardCount(p)]
  PROVE  q \in Player /\ q.hero = p.hero /\ q.picks = p.picks /\ Sound(q)
<1>1. PICK k \in Nat : k = CardCount(p)
  BY CountNat
<1>2. p.hero # NoHero /\ p.hero \in Hero
  BY DEF Sound, IdentityReady, Player
<1>3. PICK b \in Nat : b = MaxDeck
  BY SizesAssumption
<1>4. k <= b
  <2>1. SignatureCount[p.hero] + Total(p.picks, Card) <= MaxDeck
    BY DEF Sound, NothingBlocks
  <2>2. k = SignatureCount[p.hero] + Total(p.picks, Card)
    BY <1>1, <1>2 DEF CardCount
  <2> QED
    BY <1>3, <2>1, <2>2
<1>5. k \in 0 .. MaxDeck
  BY <1>3, <1>4
<1>6. q \in Player /\ q.hero = p.hero /\ q.picks = p.picks /\ q.aspects = p.aspects
  BY <1>1, <1>5 DEF Player
<1>7. Sound(q)
  BY <1>6 DEF Sound, IdentityReady, NothingBlocks, AspectsAllow, OffAspect
<1> QED
  BY <1>6, <1>7

(* The packs of a player go back on the shelf. *)
LEMMA StoppedCopies ==
  ASSUME NEW S, IsFiniteSet(S), NEW packs \in Queues(S), NEW stock \in Bag, NEW s \in S,
         NEW y \in Card, NEW b \in Nat
  PROVE  LET left == Returned(stock, Append(packs[s], {}))
             other == QueuePut(packs, s, <<>>)
         IN  /\ left \in Bag /\ other \in Queues(S)
             /\ b + PacksHeld(other, y) + left[y]
                  = b + PacksHeld(packs, y) + stock[y] + OnTable({}, y)
<1>1. PICK q \in Queue : q = packs[s]
  BY DEF Queues
<1>2. PICK more : more = Append(q, {})
  OBVIOUS
<1>3. q \in Seq(SUBSET Card) /\ more \in Seq(SUBSET Card)
  <2>1. PackSet \subseteq SUBSET Card
    BY InPack
  <2>2. q \in Seq(SUBSET Card)
    BY <1>1, <2>1 DEF Queue
  <2> QED
    BY <1>2, <2>2
<1>4. PICK a \in Nat : a = InPacks(q, y)
  BY <1>3, PacksFinite
<1>5. InPacks(more, y) = a
  <2>1. InPacks(more, y) = InPacks(q, y) + (IF y \in {} THEN 1 ELSE 0)
    BY <1>2, <1>3, PackAdded
  <2> QED
    BY <1>4, <2>1
<1>6. PICK left : left = Returned(stock, more)
  OBVIOUS
<1>7. left \in Bag /\ left[y] = stock[y] + a
  BY <1>3, <1>5, <1>6, ReturnedIs
<1>8. <<>> \in Queue
  BY DEF Queue
<1>9. PICK other : other = QueuePut(packs, s, <<>>)
  OBVIOUS
<1>10. other \in Queues(S)
       /\ PacksHeld(other, y) = PacksHeld(packs, y) + InPacks(<<>>, y) - InPacks(packs[s], y)
  BY <1>8, <1>9, QueueChanged
<1>11. PICK h \in Nat : h = PacksHeld(packs, y)
  BY HeldNat
<1>12. PICK t \in Nat : t = stock[y]
  BY DEF Bag
<1>13. PacksHeld(other, y) = h + 0 - a
  BY <1>1, <1>4, <1>10, <1>11, NoPacks
<1>14. OnTable({}, y) = 0
  BY DEF OnTable
<1>15. b + PacksHeld(other, y) + left[y] = b + h + t + OnTable({}, y)
  BY <1>7, <1>12, <1>13, <1>14
<1> QED
  BY <1>1, <1>2, <1>6, <1>7, <1>9, <1>10, <1>11, <1>12, <1>15

(* Being stopped short is history, and changes nothing else. *)
Marked(d, s) == [d EXCEPT !.short = @ \cup {s}]

LEMMA ShortMarked ==
  ASSUME NEW S, NEW d, Shape(S, d), d.phase \in {"pick", "finish"}, NEW s \in S,
         d.phase = "pick" => Offering(d),
         d.phase = "finish" => EveryoneFull(d),
         NEW e, e = Marked(d, s)
  PROVE  /\ Shape(S, e) /\ Seats(e) = S /\ e.short = d.short \cup {s}
         /\ e.id = d.id /\ e.format = d.format /\ e.phase = d.phase
         /\ e.players = d.players /\ e.collection = d.collection
         /\ \A c \in Card : DraftCopies(e, c) = DraftCopies(d, c)
         /\ e.phase = "pick" => Offering(e)
         /\ e.phase = "finish" => EveryoneFull(e)
<1>1. Shape(S, e)
  BY DEF Shape, Drafts, Marked
<1>2. /\ e.id = d.id /\ e.format = d.format /\ e.phase = d.phase /\ e.players = d.players
      /\ e.collection = d.collection /\ e.stock = d.stock /\ e.packs = d.packs
      /\ e.offer = d.offer /\ e.current = d.current /\ e.short = d.short \cup {s}
  BY DEF Shape, Drafts, Marked
<1>3. Seats(e) = S /\ Seats(d) = S
  BY <1>1, ShapeIs
<1>4. Current(e) = Current(d)
  BY <1>2 DEF Current
<1>5. LegalOffers(e) = LegalOffers(d)
  BY <1>2, <1>4 DEF LegalOffers
<1> QED
  BY <1>1, <1>2, <1>3, <1>4, <1>5 DEF DraftCopies, Offering, EveryoneFull

LEMMA StoppedGood ==
  ASSUME NEW S, Places(S), NEW d, GoodAt(S, d), d.phase = "pick", d.format = "draft",
         d.offer = {}, NEW x \in SkipCurrent(d),
         NEW e, e = Marked(x, d.current)
  PROVE  GoodAt(S, e) /\ e.id = d.id
<1>1. /\ Shape(S, d) /\ Seating(d) /\ DecksSound(d) /\ Drafted(d) /\ Seats(d) = S
      /\ IsFiniteSet(S) /\ Current(d) = d.players[d.current] /\ d.current \in S
      /\ Current(d) \in Player /\ d.stock \in Bag /\ d.packs \in Queues(S)
  BY PlacesAre, ShapeIs DEF GoodAt
<1>2. PICK p \in Player : p = Current(d)
  BY <1>1
<1>3. Sound(p)
  BY <1>1, <1>2 DEF DecksSound
<1>4. PICK q : q = [p EXCEPT !.size = CardCount(p)]
  OBVIOUS
<1>5. q \in Player /\ q.hero = p.hero /\ q.picks = p.picks /\ Sound(q)
  BY <1>3, <1>4, DeckStopped
<1>6. PICK left : left = Returned(d.stock, Append(d.packs[d.current], {}))
  OBVIOUS
<1>7. PICK other : other = QueuePut(d.packs, d.current, <<>>)
  OBVIOUS
<1>8. PICK y : y = Cleared(d, q, other, left)
  OBVIOUS
<1>9. ASSUME NEW c \in Card
      PROVE  /\ left \in Bag /\ other \in Queues(S)
             /\ q.picks[c] + PacksHeld(other, c) + left[c]
                  = Current(d).picks[c] + PacksHeld(d.packs, c) + d.stock[c]
                      + OnTable(d.offer, c)
  <2>1. PICK b \in Nat : b = q.picks[c]
    BY <1>5 DEF Player
  <2>2. PICK packs \in Queues(S), stock \in Bag, s \in S :
            packs = d.packs /\ stock = d.stock /\ s = d.current
    BY <1>1
  <2>3. left = Returned(stock, Append(packs[s], {})) /\ other = QueuePut(packs, s, <<>>)
    BY <1>6, <1>7, <2>2
  <2>4. /\ left \in Bag /\ other \in Queues(S)
        /\ b + PacksHeld(other, c) + left[c]
             = b + PacksHeld(packs, c) + stock[c] + OnTable({}, c)
    BY <1>1, <2>3, StoppedCopies
  <2>5. Current(d).picks[c] = b
    BY <1>2, <1>5, <2>1
  <2> QED
    BY <2>1, <2>2, <2>4, <2>5
<1>10. left \in Bag /\ other \in Queues(S)
  <2>1. ASSUME NEW b \in PackSet PROVE b \in SUBSET Card
    BY <2>1, InPack
  <2>2. PICK packs \in Queues(S), stock \in Bag, s \in S :
            packs = d.packs /\ stock = d.stock /\ s = d.current
    BY <1>1
  <2>3. <<>> \in Queue
    BY DEF Queue
  <2>4. other \in Queues(S)
    BY <1>1, <1>7, <2>3, QueueChanged
  <2>5. packs[s] \in Seq(SUBSET Card)
    BY <2>1 DEF Queues, Queue
  <2>6. Append(packs[s], {}) \in Seq(SUBSET Card)
    BY <2>5
  <2>7. left \in Bag
    BY <1>1, <1>6, <2>2, <2>6, ReturnedIs
  <2> QED
    BY <2>4, <2>7
<1>11. /\ Shape(S, y) /\ y.id = d.id /\ y.phase = d.phase /\ y.format = d.format
       /\ y.offer = {} /\ y.collection = d.collection /\ y.short = d.short
       /\ y.players[d.current] = q
       /\ \A i \in S \ {d.current} : y.players[i] = d.players[i]
  <2>1. Shape(S, d)
    BY <1>1
  <2> QED
    BY <1>5, <1>8, <1>10, <2>1, ClearedIs
<1>12. x \in NextTurn(y)
  <2>1. PICK players : players = [d.players EXCEPT ![d.current] = q]
    OBVIOUS
  <2>2. y = [d EXCEPT !.players = players, !.packs = other, !.stock = left, !.offer = {}]
    BY <1>8, <2>1 DEF Cleared
  <2>3. x \in NextTurn([d EXCEPT !.players = players, !.packs = other, !.stock = left,
                                 !.offer = {}])
    BY <1>2, <1>4, <1>6, <1>7, <2>1 DEF SkipCurrent, QueuePut
  <2> QED
    BY <2>2, <2>3
<1>13. Turned(S, y, x)
  BY <1>11, <1>12, NextTurnTurns
<1>14. /\ Shape(S, x) /\ x.id = d.id /\ x.format = d.format /\ x.phase \in {"pick", "finish"}
       /\ x.short = d.short /\ x.players = y.players /\ x.collection = d.collection
       /\ x.phase = "pick" => Offering(x)
       /\ x.phase = "finish" => EveryoneFull(x)
       /\ \A c \in Card : DraftCopies(x, c) = DraftCopies(y, c)
  BY <1>11, <1>13 DEF Turned, Kept
<1>15. /\ Shape(S, e) /\ Seats(e) = S /\ e.short = x.short \cup {d.current}
       /\ e.id = x.id /\ e.format = x.format /\ e.phase = x.phase
       /\ e.players = x.players /\ e.collection = x.collection
       /\ \A c \in Card : DraftCopies(e, c) = DraftCopies(x, c)
       /\ e.phase = "pick" => Offering(e)
       /\ e.phase = "finish" => EveryoneFull(e)
  BY <1>1, <1>14, ShortMarked
<1>16. Seating(e)
  <2>1. e.players[d.current].hero = Current(d).hero
    BY <1>2, <1>5, <1>11, <1>14, <1>15
  <2>2. \A i \in S \ {d.current} : e.players[i] = d.players[i]
    BY <1>11, <1>14, <1>15
  <2> QED
    BY <1>1, <1>15, <2>1, <2>2, SeatChanged
<1>17. DecksSound(e)
  <2>1. ASSUME NEW i \in S
        PROVE  Sound(e.players[i]) /\ (i \notin e.short => Whole(e.players[i]))
    <3>1. CASE i = d.current
      BY <1>5, <1>11, <1>14, <1>15, <3>1
    <3>2. CASE i # d.current
      BY <1>1, <1>11, <1>14, <1>15, <3>2 DEF DecksSound
    <3> QED
      BY <3>1, <3>2
  <2> QED
    BY <1>15, <2>1 DEF DecksSound
<1>18. ASSUME NEW c \in Card
       PROVE  DraftCopies(e, c) = e.collection[c]
  <2>1. DraftCopies(y, c) = DraftCopies(d, c)
    <3>1. Shape(S, d) /\ IsFiniteSet(S)
      BY <1>1
    <3>2. Settled(d, q, other, left, c)
      BY <1>9 DEF Settled
    <3> QED
      BY <1>5, <1>8, <1>10, <3>1, <3>2, ClearedCopies
  <2> QED
    BY <1>1, <1>14, <1>15, <2>1 DEF Drafted
<1>19. Drafted(e)
  BY <1>15, <1>18 DEF Drafted
<1> QED
  BY <1>14, <1>15, <1>16, <1>17, <1>19 DEF GoodAt

-----------------------------------------------------------------------------
(* Sealed boosters. *)

LEMMA SealedIs ==
  ASSUME NEW S, NEW d, GoodAt(S, d), d.phase # "identity", d.format = "sealed"
  PROVE  /\ Shape(S, d) /\ Seating(d) /\ DecksSound(d) /\ Pooled(d) /\ Seats(d) = S
         /\ Current(d) = d.players[d.current] /\ d.current \in S /\ Current(d) \in Player
         /\ Sound(Current(d)) /\ Whole(Current(d)) /\ d.short = {}
<1>1. /\ Shape(S, d) /\ Seating(d) /\ DecksSound(d) /\ Pooled(d) /\ Seats(d) = S
      /\ Current(d) = d.players[d.current] /\ d.current \in S /\ Current(d) \in Player
  BY ShapeIs DEF GoodAt
<1> QED
  BY <1>1 DEF DecksSound, Pooled

(* A sealed draft that differs only in what is opened, and who builds. *)
Unwrapped(d, opened, building) == [d EXCEPT !.opened = opened, !.building = building]

Tallies(S) == [S -> 0 .. BoosterCount]

LEMMA UnwrappedGood ==
  ASSUME NEW S, NEW d, GoodAt(S, d), d.phase = "pick", d.format = "sealed",
         NEW opened \in Tallies(S), NEW building \in [S -> BOOLEAN]
  PROVE  LET e == Unwrapped(d, opened, building) IN
         GoodAt(S, e) /\ e.id = d.id
<1>1. Shape(S, d) /\ Seating(d) /\ DecksSound(d) /\ Pooled(d) /\ Seats(d) = S
  BY SealedIs
<1>2. PICK e : e = Unwrapped(d, opened, building)
  OBVIOUS
<1>3. Shape(S, e)
  BY <1>1, <1>2 DEF Shape, Drafts, Unwrapped, Tallies
<1>4. /\ e.id = d.id /\ e.phase = d.phase /\ e.format = d.format /\ e.players = d.players
      /\ e.collection = d.collection /\ e.stock = d.stock /\ e.pools = d.pools
      /\ e.short = d.short /\ e.current = d.current
  BY <1>1, <1>2 DEF Shape, Drafts, Unwrapped
<1>5. Seats(e) = S
  BY <1>3, ShapeIs
<1>6. Seating(e) /\ DecksSound(e) /\ Pooled(e)
  BY <1>1, <1>4, <1>5 DEF Seating, DecksSound, Pooled, EveryoneFull
<1> QED
  BY <1>2, <1>3, <1>4, <1>6 DEF GoodAt

LEMMA OpenedGood ==
  ASSUME NEW S, NEW d, GoodAt(S, d), d.phase = "pick", d.format = "sealed"
  PROVE  /\ GoodAt(S, OpenBooster(d)) /\ OpenBooster(d).id = d.id
         /\ GoodAt(S, BuildSealedDeck(d)) /\ BuildSealedDeck(d).id = d.id
         /\ GoodAt(S, OpenAllBoosters(d)) /\ OpenAllBoosters(d).id = d.id
<1>1. Shape(S, d) /\ d.current \in S
  BY SealedIs
<1>2. PICK s \in S : s = d.current
  BY <1>1
<1>3. PICK building \in [S -> BOOLEAN] : building = d.building
  BY <1>1 DEF Shape, Drafts
<1>4. PICK opened \in Tallies(S) : opened = d.opened
  BY <1>1 DEF Shape, Drafts, Tallies
<1>5. BoosterCount \in Nat
  BY SizesAssumption DEF BoosterCount
<1>6. PICK one : one = [opened EXCEPT ![s] = IF @ < BoosterCount THEN @ + 1 ELSE @]
  OBVIOUS
<1>7. PICK all : all = [opened EXCEPT ![s] = BoosterCount]
  OBVIOUS
<1>8. one \in Tallies(S)
  <2>1. PICK k \in 0 .. BoosterCount : k = opened[s]
    BY DEF Tallies
  <2>2. (IF k < BoosterCount THEN k + 1 ELSE k) \in 0 .. BoosterCount
    BY <1>5
  <2>3. one = [opened EXCEPT ![s] = IF k < BoosterCount THEN k + 1 ELSE k]
    BY <1>6, <2>1
  <2> QED
    BY <2>2, <2>3 DEF Tallies
<1>9. all \in Tallies(S)
  <2>1. BoosterCount \in 0 .. BoosterCount
    BY <1>5
  <2> QED
    BY <1>7, <2>1 DEF Tallies
<1>10. PICK built : built = [building EXCEPT ![s] = @ \/ opened[s] >= BoosterCount]
  OBVIOUS
<1>11. PICK ready : ready = [building EXCEPT ![s] = @ \/ all[s] >= BoosterCount]
  OBVIOUS
<1>12. built \in [S -> BOOLEAN] /\ ready \in [S -> BOOLEAN]
  BY <1>10, <1>11
<1>13. OpenBooster(d) = Unwrapped(d, one, building)
  <2>1. OpenBooster(d) = [d EXCEPT !.opened = one]
    BY <1>2, <1>4, <1>6 DEF OpenBooster
  <2> QED
    BY <1>1, <1>3, <2>1 DEF Shape, Drafts, Unwrapped
<1>14. BuildSealedDeck(d) = Unwrapped(d, opened, built)
  <2>1. BuildSealedDeck(d) = [d EXCEPT !.building = built]
    BY <1>2, <1>3, <1>4, <1>10 DEF BuildSealedDeck
  <2> QED
    BY <1>1, <1>4, <2>1 DEF Shape, Drafts, Unwrapped
<1>15. OpenAllBoosters(d) = Unwrapped(d, all, ready)
  <2>1. PICK x : x = [d EXCEPT !.opened = all]
    OBVIOUS
  <2>2. x.current = s /\ x.building = building /\ x.opened = all
    BY <1>1, <1>2, <1>3, <2>1 DEF Shape, Drafts
  <2>3. OpenAllBoosters(d) = BuildSealedDeck(x)
    BY <1>2, <1>4, <1>7, <2>1 DEF OpenAllBoosters
  <2>4. BuildSealedDeck(x) = [x EXCEPT !.building = ready]
    BY <1>11, <2>2 DEF BuildSealedDeck
  <2> QED
    BY <1>1, <2>1, <2>3, <2>4 DEF Shape, Drafts, Unwrapped
<1>16. GoodAt(S, OpenBooster(d)) /\ OpenBooster(d).id = d.id
  BY <1>8, <1>13, UnwrappedGood
<1>17. GoodAt(S, BuildSealedDeck(d)) /\ BuildSealedDeck(d).id = d.id
  BY <1>12, <1>14, UnwrappedGood
<1>18. GoodAt(S, OpenAllBoosters(d)) /\ OpenAllBoosters(d).id = d.id
  BY <1>9, <1>12, <1>15, UnwrappedGood
<1> QED
  BY <1>16, <1>17, <1>18

(* Another deck for the player building, within what their pool holds. *)
LEMMA SeatedPooled ==
  ASSUME NEW S, Places(S), NEW d, GoodAt(S, d), d.phase = "pick", d.format = "sealed",
         NEW q \in Player, q.hero = Current(d).hero, Sound(q), Whole(q),
         \A c \in Card : q.picks[c] <= d.pools[d.current][c]
  PROVE  GoodAt(S, Seat(d, q)) /\ Seat(d, q).id = d.id
<1>1. /\ Shape(S, d) /\ Seating(d) /\ DecksSound(d) /\ Pooled(d) /\ Seats(d) = S
      /\ Current(d) = d.players[d.current] /\ d.current \in S /\ d.short = {}
  BY SealedIs
<1>2. PICK e : e = Seat(d, q)
  OBVIOUS
<1>3. /\ Shape(S, e) /\ e.id = d.id /\ e.phase = d.phase /\ e.format = d.format
      /\ e.stock = d.stock /\ e.pools = d.pools /\ e.collection = d.collection
      /\ e.short = d.short /\ e.current = d.current
      /\ e.players[d.current] = q
      /\ \A i \in S \ {d.current} : e.players[i] = d.players[i]
  BY <1>1, <1>2, SeatIs
<1>4. Seats(e) = S
  BY <1>3, ShapeIs
<1>5. Seating(e)
  BY <1>1, <1>3, <1>4, SeatChanged
<1>6. DecksSound(e)
  <2>1. ASSUME NEW i \in S
        PROVE  Sound(e.players[i]) /\ (i \notin e.short => Whole(e.players[i]))
    <3>1. CASE i = d.current
      BY <1>3, <3>1
    <3>2. CASE i # d.current
      BY <1>1, <1>3, <3>2 DEF DecksSound
    <3> QED
      BY <3>1, <3>2
  <2> QED
    BY <1>4, <2>1 DEF DecksSound
<1>7. Pooled(e)
  <2>1. ASSUME NEW i \in S, NEW c \in Card
        PROVE  e.players[i].picks[c] <= e.pools[i][c]
    <3>1. CASE i = d.current
      BY <1>3, <3>1
    <3>2. CASE i # d.current
      BY <1>1, <1>3, <3>2 DEF Pooled
    <3> QED
      BY <3>1, <3>2
  <2>2. ASSUME NEW i \in S, i < e.current
        PROVE  IsFull(e.players[i])
    <3>1. i # d.current
      <4>1. PICK k \in Nat : k = d.current
        BY <1>1, PlacesAre
      <4> QED
        BY <1>3, <2>2, <4>1
    <3> QED
      BY <1>1, <1>3, <2>2, <3>1 DEF Pooled
  <2> QED
    BY <1>1, <1>3, <1>4, <2>1, <2>2 DEF Pooled
<1> QED
  BY <1>2, <1>3, <1>5, <1>6, <1>7 DEF GoodAt

LEMMA AddedGood ==
  ASSUME NEW S, Places(S), NEW d, GoodAt(S, d), d.phase = "pick", d.format = "sealed",
         NEW c \in Card, Selectable(d, c)
  PROVE  LET e == WithPicks(d, Plus(Current(d).picks, c)) IN GoodAt(S, e) /\ e.id = d.id
<1>1. /\ Shape(S, d) /\ Pooled(d) /\ Seats(d) = S /\ Current(d) = d.players[d.current]
      /\ d.current \in S
  BY SealedIs
<1>2. PICK p \in Player : p = Current(d)
  BY SealedIs
<1>3. Sound(p) /\ Whole(p) /\ CanTake(p, c) /\ IdentityReady(p)
  BY <1>2, SealedIs DEF Selectable, Sound
<1>4. PICK bag \in Bag : bag = p.picks
  BY DEF Player, Bag
<1>5. PICK more \in Bag : more = Plus(bag, c)
  BY PlusMinus
<1>6. PICK q : q = [p EXCEPT !.picks = more]
  OBVIOUS
<1>7. q \in Player /\ q.hero = p.hero /\ q.picks = more /\ Sound(q) /\ Whole(q)
  BY <1>3, <1>4, <1>5, <1>6, DeckPlus
<1>8. ASSUME NEW y \in Card
      PROVE  q.picks[y] <= d.pools[d.current][y]
  <2>1. more[c] = bag[c] + 1 /\ \A z \in Card \ {c} : more[z] = bag[z]
    BY <1>5, PlusMinus
  <2>2. PICK b \in Nat : b = bag[y]
    BY DEF Bag
  <2>3. PICK k \in Nat : k = d.pools[d.current][y]
    BY <1>1, ShapeIs DEF Bag
  <2>4. b <= k
    BY <1>1, <1>2, <1>4, <2>2, <2>3 DEF Pooled
  <2>5. CASE y = c
    <3>1. b < k
      BY <1>2, <1>4, <2>2, <2>3, <2>5 DEF Selectable
    <3>2. more[y] = b + 1
      BY <2>1, <2>2, <2>5
    <3> QED
      BY <1>7, <2>3, <3>1, <3>2
  <2>6. CASE y # c
    BY <1>7, <2>1, <2>2, <2>3, <2>4, <2>6
  <2> QED
    BY <2>5, <2>6
<1>9. GoodAt(S, Seat(d, q)) /\ Seat(d, q).id = d.id
  BY <1>2, <1>7, <1>8, SeatedPooled
<1>10. WithPicks(d, Plus(Current(d).picks, c)) = Seat(d, q)
  BY <1>2, <1>4, <1>5, <1>6 DEF WithPicks, Seat
<1> QED
  BY <1>9, <1>10

LEMMA MinusIsLess ==
  ASSUME NEW bag \in Bag, NEW c \in Card, bag[c] > 0, NEW y \in Card
  PROVE  Minus(bag, c)[y] <= bag[y]
<1>1. Minus(bag, c)[c] = bag[c] - 1 /\ \A z \in Card \ {c} : Minus(bag, c)[z] = bag[z]
  BY PlusMinus
<1>2. bag[y] \in Nat
  BY DEF Bag
<1> QED
  BY <1>1, <1>2

LEMMA RemovedGood ==
  ASSUME NEW S, Places(S), NEW d, GoodAt(S, d), d.phase = "pick", d.format = "sealed",
         NEW c \in Held(Current(d).picks)
  PROVE  LET e == WithPicks(d, Minus(Current(d).picks, c)) IN GoodAt(S, e) /\ e.id = d.id
<1>1. /\ Shape(S, d) /\ Pooled(d) /\ Seats(d) = S /\ Current(d) = d.players[d.current]
      /\ d.current \in S
  BY SealedIs
<1>2. PICK p \in Player : p = Current(d)
  BY SealedIs
<1>3. Sound(p) /\ Whole(p) /\ c \in Card /\ p.picks[c] > 0
  BY <1>2, SealedIs DEF Held
<1>4. PICK bag \in Bag : bag = p.picks
  BY DEF Player, Bag
<1>5. PICK less \in Bag : less = Minus(bag, c)
  BY <1>3, <1>4, PlusMinus
<1>6. PICK q : q = [p EXCEPT !.picks = less]
  OBVIOUS
<1>7. q \in Player /\ q.hero = p.hero /\ q.picks = less /\ Sound(q) /\ Whole(q)
  BY <1>3, <1>4, <1>5, <1>6, DeckMinus
<1>8. ASSUME NEW y \in Card
      PROVE  q.picks[y] <= d.pools[d.current][y]
  <2>2. PICK b \in Nat : b = bag[y]
    BY DEF Bag
  <2>3. PICK k \in Nat : k = d.pools[d.current][y]
    BY <1>1, ShapeIs DEF Bag
  <2>4. b <= k
    BY <1>1, <1>2, <1>4, <2>2, <2>3 DEF Pooled
  <2>5. less[y] <= b
    BY <1>3, <1>4, <1>5, <2>2, MinusIsLess
  <2>6. less[y] \in Int
    BY DEF Bag
  <2> QED
    BY <1>7, <2>3, <2>4, <2>5, <2>6
<1>9. GoodAt(S, Seat(d, q)) /\ Seat(d, q).id = d.id
  BY <1>2, <1>7, <1>8, SeatedPooled
<1>10. WithPicks(d, Minus(Current(d).picks, c)) = Seat(d, q)
  BY <1>2, <1>4, <1>5, <1>6 DEF WithPicks, Seat
<1> QED
  BY <1>9, <1>10

(* The draft at this page and seat. *)
PutAt(d, ph, k) == [d EXCEPT !.phase = ph, !.current = k]

LEMMA PutAtGood ==
  ASSUME NEW S, NEW d, GoodAt(S, d), d.phase # "identity", d.format = "sealed",
         NEW ph \in {"pick", "finish"}, NEW k \in S,
         ph = "pick" => \A i \in S : i < k => IsFull(d.players[i]),
         ph = "finish" => EveryoneFull(d)
  PROVE  GoodAt(S, PutAt(d, ph, k)) /\ PutAt(d, ph, k).id = d.id
<1>1. Shape(S, d) /\ Seating(d) /\ DecksSound(d) /\ Pooled(d) /\ Seats(d) = S
  BY SealedIs
<1>2. PICK e : e = PutAt(d, ph, k)
  OBVIOUS
<1>3. Shape(S, e)
  BY <1>1, <1>2 DEF Shape, Drafts, PutAt
<1>4. /\ e.id = d.id /\ e.phase = ph /\ e.format = d.format /\ e.players = d.players
      /\ e.collection = d.collection /\ e.stock = d.stock /\ e.pools = d.pools
      /\ e.short = d.short /\ e.current = k
  BY <1>1, <1>2 DEF Shape, Drafts, PutAt
<1>5. Seats(e) = S
  BY <1>3, ShapeIs
<1>6. Seating(e) /\ DecksSound(e)
  BY <1>1, <1>4, <1>5 DEF Seating, DecksSound
<1>7. Pooled(e)
  BY <1>1, <1>4, <1>5 DEF Pooled, EveryoneFull
<1> QED
  BY <1>2, <1>3, <1>4, <1>6, <1>7 DEF GoodAt

LEMMA ConfirmedGood ==
  ASSUME NEW S, Places(S), NEW d, GoodAt(S, d), d.phase = "pick", d.format = "sealed",
         IsFull(Current(d)),
         NEW e, e = IF d.current < Seated(d) - 1 THEN [d EXCEPT !.current = @ + 1]
                                                 ELSE [d EXCEPT !.phase = "finish"]
  PROVE  GoodAt(S, e) /\ e.id = d.id
<1>1. /\ Shape(S, d) /\ Pooled(d) /\ Seats(d) = S /\ Current(d) = d.players[d.current]
      /\ d.current \in S
  BY SealedIs
<1>2. CASE d.current < Seated(d) - 1
  <2>1. PICK k : k = d.current + 1
    OBVIOUS
  <2>2. k \in S /\ \A i \in S : i < k => i < d.current \/ i = d.current
    BY <1>1, <1>2, <2>1, NextSeat
  <2>3. \A i \in S : i < k => IsFull(d.players[i])
    BY <1>1, <2>2 DEF Pooled
  <2>4. e = [d EXCEPT !.current = k]
    BY <1>2, <2>1
  <2>5. e = PutAt(d, "pick", k)
    BY <1>1, <2>4 DEF Shape, Drafts, PutAt
  <2> QED
    BY <2>2, <2>3, <2>5, PutAtGood
<1>3. CASE ~ (d.current < Seated(d) - 1)
  <2>1. d.current = Seated(d) - 1
    <3>1. PICK n \in Nat \ {0} : n = Cardinality(S) /\ S = 0 .. n - 1
      BY PlacesAre
    <3>2. PICK k \in 0 .. n - 1 : k = d.current
      BY <1>1, <3>1
    <3>3. Seated(d) = n
      BY <1>1, <3>1 DEF Seated
    <3>4. k = n - 1
      BY <1>3, <3>2, <3>3
    <3> QED
      BY <3>2, <3>3, <3>4
  <2>2. \A i \in S : i < d.current \/ i = d.current
    BY <1>1, <2>1, LastSeat
  <2>3. EveryoneFull(d)
    BY <1>1, <2>2 DEF Pooled, EveryoneFull
  <2>4. e = [d EXCEPT !.phase = "finish"]
    BY <1>3
  <2>5. e = PutAt(d, "finish", d.current)
    BY <1>1, <2>4 DEF Shape, Drafts, PutAt
  <2> QED
    BY <1>1, <2>3, <2>5, PutAtGood
<1> QED
  BY <1>2, <1>3

LEMMA RevisedGood ==
  ASSUME NEW S, Places(S), NEW d, GoodAt(S, d), d.phase = "finish", d.format = "sealed",
         NEW e, e = [d EXCEPT !.phase = "pick", !.current = 0]
  PROVE  GoodAt(S, e) /\ e.id = d.id
<1>1. e = PutAt(d, "pick", 0)
  BY DEF PutAt
<1>2. 0 \in S /\ \A i \in S : ~ (i < 0)
  BY PlacesAre
<1> QED
  BY <1>1, <1>2, PutAtGood

-----------------------------------------------------------------------------
(* The page, the disk, and what is on its way there. *)

GoodDrafts == UNION {{d \in Drafts(0 .. n - 1) : GoodAt(0 .. n - 1, d)} : n \in TableSize}

Writes == [kind : {"put", "save", "clear"}, draft : GoodDrafts]

(* The inductive invariant: every draft anywhere is a good one. *)
AllGood ==
    /\ draft \in GoodDrafts \cup {NoDraft}
    /\ row \in GoodDrafts \cup {NoDraft}
    /\ writes \in Seq(Writes)
    /\ saved \in [1 .. MaxDrafts -> Nat]
    /\ begun \in 0 .. MaxDrafts

LEMMA GoodDraftsAre ==
  /\ \A n \in TableSize : \A d : GoodAt(0 .. n - 1, d) => d \in GoodDrafts
  /\ \A d \in GoodDrafts : \E n \in TableSize : GoodAt(0 .. n - 1, d)
  /\ \A d \in GoodDrafts : d.id \in 1 .. MaxDrafts
<1>1. ASSUME NEW n \in TableSize, NEW d, GoodAt(0 .. n - 1, d)
      PROVE  d \in GoodDrafts
  <2>1. d \in Drafts(0 .. n - 1)
    BY <1>1 DEF GoodAt, Shape, Drafts
  <2> QED
    BY <1>1, <2>1 DEF GoodDrafts
<1>2. \A d \in GoodDrafts : \E n \in TableSize : GoodAt(0 .. n - 1, d)
  BY DEF GoodDrafts
<1>3. ASSUME NEW d \in GoodDrafts
      PROVE  d.id \in 1 .. MaxDrafts
  <2>1. PICK n \in TableSize : d \in Drafts(0 .. n - 1)
    BY DEF GoodDrafts
  <2> QED
    BY <2>1 DEF Drafts
<1> QED
  BY <1>1, <1>2, <1>3

(* The draft shown, its table, and what another good draft there is. *)
LEMMA Shown ==
  ASSUME draft \in GoodDrafts
  PROVE  \E S : /\ Places(S) /\ GoodAt(S, draft)
                /\ \A d : GoodAt(S, d) => d \in GoodDrafts
<1>1. PICK n \in TableSize : GoodAt(0 .. n - 1, draft)
  BY GoodDraftsAre
<1> QED
  BY <1>1, TableSeats, GoodDraftsAre

(* One change of the draft, by its players. *)
Edits ==
    /\ draft # NoDraft /\ UNCHANGED begun
    /\ \E d \in GoodDrafts : d.id = draft.id /\ Commit(d)

LEMMA IdentityEdits ==
  ASSUME AllGood,
         ChooseHero \/ DrawAgain \/ ChooseAspects \/ SetDeckSize \/ SetPack
  PROVE  Edits
<1>1. draft \in GoodDrafts /\ draft # NoDraft /\ draft.phase = "identity" /\ UNCHANGED begun
  BY DEF AllGood, ChooseHero, DrawAgain, ChooseAspects, SetDeckSize, SetPack, At
<1>2. PICK S : /\ Places(S) /\ GoodAt(S, draft)
               /\ \A d : GoodAt(S, d) => d \in GoodDrafts
  BY <1>1, Shown
<1>3. SUFFICES \E d : GoodAt(S, d) /\ d.id = draft.id /\ Commit(d)
  BY <1>1, <1>2 DEF Edits
<1>4. CASE ChooseHero
  <2>1. PICK h \in AvailableHeroes(draft) \cup ({Current(draft).hero} \ {NoHero}) :
            Commit(WithHero(draft, h))
    BY <1>4 DEF ChooseHero
  <2>2. GoodAt(S, WithHero(draft, h)) /\ WithHero(draft, h).id = draft.id
    BY <1>1, <1>2, HeroGiven
  <2> QED
    BY <2>1, <2>2
<1>5. CASE DrawAgain
  <2>1. PICK d \in PrepareIdentity([draft EXCEPT !.players[draft.current] =
                        [Current(draft) EXCEPT !.hero = NoHero, !.aspects = {}]]) : Commit(d)
    BY <1>5 DEF DrawAgain
  <2>2. GoodAt(S, d) /\ d.id = draft.id
    BY <1>1, <1>2, <2>1, RedrawnGood
  <2> QED
    BY <2>1, <2>2
<1>6. CASE ChooseAspects
  <2>1. PICK A \in kSubset(AspectCount[Current(draft).hero], Aspect) :
            Commit([draft EXCEPT !.players[draft.current] =
                                    [Current(draft) EXCEPT !.aspects = A]])
    BY <1>6 DEF ChooseAspects
  <2>2. A \in SUBSET Aspect
    BY <2>1 DEF kSubset
  <2>3. PICK d : d = [draft EXCEPT !.players[draft.current] =
                                    [Current(draft) EXCEPT !.aspects = A]]
    OBVIOUS
  <2>4. GoodAt(S, d) /\ d.id = draft.id
    BY <1>1, <1>2, <2>2, <2>3, AspectsChosenGood
  <2> QED
    BY <2>1, <2>3, <2>4
<1>7. CASE SetDeckSize
  <2>1. PICK k \in DeckSize :
            Commit([draft EXCEPT !.players[draft.current] =
                                           [Current(draft) EXCEPT !.size = k]])
    BY <1>7 DEF SetDeckSize
  <2>2. PICK d : d = [draft EXCEPT !.players[draft.current] =
                                           [Current(draft) EXCEPT !.size = k]]
    OBVIOUS
  <2>3. GoodAt(S, d) /\ d.id = draft.id
    BY <1>1, <1>2, <2>2, SizeChosenGood
  <2> QED
    BY <2>1, <2>2, <2>3
<1>8. CASE SetPack
  <2>1. PICK s \in Collection : Commit([draft EXCEPT !.collection = s])
    BY <1>8 DEF SetPack
  <2>2. PICK d : d = [draft EXCEPT !.collection = s]
    OBVIOUS
  <2>3. GoodAt(S, d) /\ d.id = draft.id
    BY <1>1, <1>2, <2>2, ShelfChosenGood
  <2> QED
    BY <2>1, <2>2, <2>3
<1> QED
  BY <1>4, <1>5, <1>6, <1>7, <1>8

LEMMA ConfirmIdentityEdits == ASSUME AllGood, ConfirmIdentity PROVE Edits
<1>1. /\ draft \in GoodDrafts /\ draft # NoDraft /\ draft.phase = "identity" /\ UNCHANGED begun
      /\ IdentityReady(Current(draft))
  BY DEF AllGood, ConfirmIdentity, At
<1>2. PICK S : /\ Places(S) /\ GoodAt(S, draft)
               /\ \A d : GoodAt(S, d) => d \in GoodDrafts
  BY <1>1, Shown
<1>3. SUFFICES \E d : GoodAt(S, d) /\ d.id = draft.id /\ Commit(d)
  BY <1>1, <1>2 DEF Edits
<1>4. CASE /\ draft.current < Seated(draft) - 1
           /\ \E d \in PrepareIdentity([draft EXCEPT !.current = @ + 1]) : Commit(d)
  <2>1. PICK d \in PrepareIdentity([draft EXCEPT !.current = draft.current + 1]) : Commit(d)
    BY <1>4
  <2>2. GoodAt(S, d) /\ d.id = draft.id
    BY <1>1, <1>2, <1>4, <2>1, PassedOnGood
  <2> QED
    BY <2>1, <2>2
<1>5. CASE /\ draft.current = Seated(draft) - 1 /\ draft.format = "draft"
           /\ \E d \in Start([draft EXCEPT !.stock = draft.collection]) : Commit(d)
  <2>1. PICK d \in Start([draft EXCEPT !.stock = draft.collection]) : Commit(d)
    BY <1>5
  <2>2. GoodAt(S, d) /\ d.id = draft.id
    BY <1>1, <1>2, <1>5, <2>1, StartedGood
  <2> QED
    BY <2>1, <2>2
<1>6. CASE /\ draft.current = Seated(draft) - 1 /\ draft.format = "sealed"
           /\ \E d \in DealSealed([draft EXCEPT !.stock = draft.collection]) : Commit(d)
  <2>1. PICK d \in DealSealed([draft EXCEPT !.stock = draft.collection]) : Commit(d)
    BY <1>6
  <2>2. GoodAt(S, d) /\ d.id = draft.id
    BY <1>1, <1>2, <1>6, <2>1, DealtGood
  <2> QED
    BY <2>1, <2>2
<1> QED
  BY <1>4, <1>5, <1>6 DEF ConfirmIdentity

LEMMA TableEdits == ASSUME AllGood, Table PROVE Edits
<1>1. /\ draft \in GoodDrafts /\ draft # NoDraft /\ draft.phase = "pick" /\ UNCHANGED begun
      /\ draft.format = "draft"
  BY DEF AllGood, Table, TakeCard, StopHere, AtTable, At
<1>2. PICK S : /\ Places(S) /\ GoodAt(S, draft)
               /\ \A d : GoodAt(S, d) => d \in GoodDrafts
  BY <1>1, Shown
<1>3. SUFFICES \E d : GoodAt(S, d) /\ d.id = draft.id /\ Commit(d)
  BY <1>1, <1>2 DEF Edits
<1>4. CASE TakeCard
  <2>1. PICK c \in draft.offer : \E d \in Pick(draft, c) : Commit(d)
    BY <1>4 DEF TakeCard
  <2>2. PICK d \in Pick(draft, c) : Commit(d)
    BY <2>1
  <2>3. GoodAt(S, d) /\ d.id = draft.id
    BY <1>1, <1>2, <2>2, PickedGood
  <2> QED
    BY <2>2, <2>3
<1>5. CASE StopHere
  <2>1. PICK x \in SkipCurrent(draft) :
            Commit([x EXCEPT !.short = @ \cup {draft.current}])
    BY <1>5 DEF StopHere
  <2>2. PICK d : d = Marked(x, draft.current)
    OBVIOUS
  <2>3. GoodAt(S, d) /\ d.id = draft.id
    BY <1>1, <1>2, <1>5, <2>1, <2>2, StoppedGood DEF StopHere
  <2>4. Commit(d)
    BY <2>1, <2>2 DEF Marked
  <2> QED
    BY <2>3, <2>4
<1> QED
  BY <1>4, <1>5 DEF Table

LEMMA SealedEdits ==
  ASSUME AllGood,
         OpenOne \/ OpenAll \/ StartBuilding \/ AddCard \/ RemoveCard \/ ConfirmSealed
  PROVE  Edits
<1>1. /\ draft \in GoodDrafts /\ draft # NoDraft /\ draft.phase = "pick" /\ UNCHANGED begun
      /\ draft.format = "sealed"
  BY DEF AllGood, OpenOne, OpenAll, StartBuilding, AddCard, RemoveCard, ConfirmSealed,
         AtBoosters, At
<1>2. PICK S : /\ Places(S) /\ GoodAt(S, draft)
               /\ \A d : GoodAt(S, d) => d \in GoodDrafts
  BY <1>1, Shown
<1>3. SUFFICES \E d : GoodAt(S, d) /\ d.id = draft.id /\ Commit(d)
  BY <1>1, <1>2 DEF Edits
<1>4. CASE OpenOne
  BY <1>1, <1>2, <1>4, OpenedGood DEF OpenOne
<1>5. CASE OpenAll
  BY <1>1, <1>2, <1>5, OpenedGood DEF OpenAll
<1>6. CASE StartBuilding
  BY <1>1, <1>2, <1>6, OpenedGood DEF StartBuilding
<1>7. CASE AddCard
  <2>1. PICK c \in Card : /\ Selectable(draft, c)
                          /\ Commit(WithPicks(draft, Plus(Current(draft).picks, c)))
    BY <1>7 DEF AddCard
  <2>2. PICK d : d = WithPicks(draft, Plus(Current(draft).picks, c))
    OBVIOUS
  <2>3. GoodAt(S, d) /\ d.id = draft.id
    BY <1>1, <1>2, <2>1, <2>2, AddedGood
  <2> QED
    BY <2>1, <2>2, <2>3
<1>8. CASE RemoveCard
  <2>1. PICK c \in Held(Current(draft).picks) :
            Commit(WithPicks(draft, Minus(Current(draft).picks, c)))
    BY <1>8 DEF RemoveCard
  <2>2. PICK d : d = WithPicks(draft, Minus(Current(draft).picks, c))
    OBVIOUS
  <2>3. GoodAt(S, d) /\ d.id = draft.id
    BY <1>1, <1>2, <2>1, <2>2, RemovedGood
  <2> QED
    BY <2>1, <2>2, <2>3
<1>9. CASE ConfirmSealed
  <2>1. PICK d : d = IF draft.current < Seated(draft) - 1
                       THEN [draft EXCEPT !.current = @ + 1]
                       ELSE [draft EXCEPT !.phase = "finish"]
    OBVIOUS
  <2>2. IsFull(Current(draft)) /\ Commit(d)
    BY <1>9, <2>1 DEF ConfirmSealed
  <2>3. GoodAt(S, d) /\ d.id = draft.id
    BY <1>1, <1>2, <2>1, <2>2, ConfirmedGood
  <2> QED
    BY <2>2, <2>3
<1> QED
  BY <1>4, <1>5, <1>6, <1>7, <1>8, <1>9

LEMMA FinishEdits == ASSUME AllGood, Revise \/ Rename PROVE Edits
<1>1. draft \in GoodDrafts /\ draft # NoDraft /\ draft.phase = "finish" /\ UNCHANGED begun
  BY DEF AllGood, Revise, Rename, At
<1>2. PICK S : /\ Places(S) /\ GoodAt(S, draft)
               /\ \A d : GoodAt(S, d) => d \in GoodDrafts
  BY <1>1, Shown
<1>3. SUFFICES \E d : GoodAt(S, d) /\ d.id = draft.id /\ Commit(d)
  BY <1>1, <1>2 DEF Edits
<1>4. CASE Revise
  <2>1. PICK d : d = [draft EXCEPT !.phase = "pick", !.current = 0]
    OBVIOUS
  <2>2. draft.format = "sealed" /\ Commit(d)
    BY <1>4, <2>1 DEF Revise
  <2>3. GoodAt(S, d) /\ d.id = draft.id
    BY <1>1, <1>2, <2>1, <2>2, RevisedGood
  <2> QED
    BY <2>2, <2>3
<1>5. CASE Rename
  BY <1>2, <1>5 DEF Rename
<1> QED
  BY <1>4, <1>5

LEMMA BeginGood ==
  ASSUME AllGood, Begin
  PROVE  \E d \in GoodDrafts : d.id = begun + 1 /\ Commit(d)
<1>1. begun + 1 \in 1 .. MaxDrafts
  <2>1. MaxDrafts \in Nat /\ begun \in 0 .. MaxDrafts /\ begun < MaxDrafts
    BY TableAssumption DEF AllGood, Begin
  <2> QED
    BY <2>1
<1>2. PICK f \in Format, m \in Mode, n \in TableSize, s \in Collection :
        \E d \in PrepareIdentity(Fresh(begun + 1, f, m, n, s)) : Commit(d)
  BY DEF Begin
<1>3. PICK id \in 1 .. MaxDrafts : id = begun + 1
  BY <1>1
<1>4. PICK x : x = Fresh(id, f, m, n, s)
  OBVIOUS
<1>5. PICK S : S = 0 .. n - 1
  OBVIOUS
<1>6. GoodAt(S, x) /\ x.phase = "identity" /\ x.id = id
  BY <1>4, <1>5, FreshGood
<1>7. PICK d \in PrepareIdentity(x) : Commit(d)
  BY <1>2, <1>3, <1>4
<1>8. GoodAt(S, d) /\ d.id = x.id
  BY <1>5, <1>6, <1>7, TableSeats, PreparedGood
<1> QED
  BY <1>3, <1>5, <1>6, <1>7, <1>8, GoodDraftsAre

(* Every change of the draft is one of its players' or the first. *)
LEMMA Changes ==
  ASSUME AllGood, [Next]_vars
  PROVE  \/ Edits \/ Begin \/ Finish \/ Abandon \/ Written \/ Refused \/ Close \/ Open
         \/ UNCHANGED vars
  BY IdentityEdits, ConfirmIdentityEdits, TableEdits, SealedEdits, FinishEdits DEF Next

-----------------------------------------------------------------------------
(* The queue of writes. *)

LEMMA QueueGrows ==
  ASSUME NEW X, NEW q \in Seq(X), NEW w \in X, NEW g, g = Append(q, w)
  PROVE  /\ g \in Seq(X) /\ DOMAIN q = 1 .. Len(q) /\ Len(q) \in Nat
         /\ DOMAIN g = 1 .. Len(q) + 1
         /\ \A k \in 1 .. Len(q) : g[k] = q[k]
         /\ g[Len(q) + 1] = w
  OBVIOUS

LEMMA QueueShrinks ==
  ASSUME NEW X, NEW q \in Seq(X), q # <<>>, NEW g, g = Tail(q)
  PROVE  /\ g \in Seq(X) /\ Head(q) = q[1] /\ Head(q) \in X /\ 1 \in DOMAIN q
         /\ \A k \in DOMAIN g : k \in Nat \ {0} /\ k + 1 \in DOMAIN q /\ g[k] = q[k + 1]
  OBVIOUS

LEMMA CountedUp ==
  ASSUME NEW X, NEW f \in [X -> Nat], NEW i
  PROVE  [f EXCEPT ![i] = @ + 1] \in [X -> Nat]
<1>1. ASSUME i \in X
      PROVE  f[i] + 1 \in Nat
  BY <1>1
<1>2. PICK g : g = [x \in X |-> IF x = i THEN f[i] + 1 ELSE f[x]]
  OBVIOUS
<1>3. g = [f EXCEPT ![i] = @ + 1]
  BY <1>2
<1>4. \A x \in X : g[x] \in Nat
  BY <1>1, <1>2
<1> QED
  BY <1>2, <1>3, <1>4

LEMMA GoodInit == Init => AllGood
<1> SUFFICES ASSUME Init PROVE AllGood
  OBVIOUS
<1>1. saved \in [1 .. MaxDrafts -> Nat]
  BY DEF Init
<1>2. begun \in 0 .. MaxDrafts
  BY TableAssumption DEF Init
<1>3. writes \in Seq(Writes)
  BY DEF Init
<1> QED
  BY <1>1, <1>2, <1>3 DEF Init, AllGood

LEMMA CommitKeeps ==
  ASSUME AllGood, NEW d \in GoodDrafts, Commit(d)
  PROVE  /\ draft' \in GoodDrafts /\ draft' = d /\ row' = row /\ saved' = saved
         /\ writes' \in Seq(Writes)
<1>1. PICK w : w = [kind |-> "put", draft |-> d]
  OBVIOUS
<1>2. w \in Writes
  BY <1>1 DEF Writes
<1>3. writes' = Append(writes, w)
  BY <1>1 DEF Commit
<1>4. writes' \in Seq(Writes)
  BY <1>2, <1>3, QueueGrows DEF AllGood
<1> QED
  BY <1>4 DEF Commit

LEMMA GoodNext == AllGood /\ [Next]_vars => AllGood'
<1> SUFFICES ASSUME AllGood, [Next]_vars PROVE AllGood'
  OBVIOUS
<1>1. CASE Edits
  <2>1. PICK d \in GoodDrafts : Commit(d)
    BY <1>1 DEF Edits
  <2>2. draft' \in GoodDrafts /\ row' = row /\ saved' = saved /\ writes' \in Seq(Writes)
    BY <2>1, CommitKeeps
  <2> QED
    BY <1>1, <2>2 DEF AllGood, Edits
<1>2. CASE Begin
  <2>1. PICK d \in GoodDrafts : Commit(d)
    BY <1>2, BeginGood
  <2>2. draft' \in GoodDrafts /\ row' = row /\ saved' = saved /\ writes' \in Seq(Writes)
    BY <2>1, CommitKeeps
  <2>3. begun' \in 0 .. MaxDrafts
    <3>1. MaxDrafts \in Nat /\ begun \in 0 .. MaxDrafts /\ begun < MaxDrafts /\ begun' = begun + 1
      BY <1>2, TableAssumption DEF AllGood, Begin
    <3> QED
      BY <3>1
  <2> QED
    BY <2>2, <2>3 DEF AllGood
<1>3. CASE Finish \/ Abandon
  <2>1. PICK w \in Writes : writes' = Append(writes, w)
    BY <1>3 DEF AllGood, Finish, Abandon, At, Writes
  <2>2. writes' \in Seq(Writes)
    BY <2>1, QueueGrows DEF AllGood
  <2>3. UNCHANGED <<draft, row, saved, begun>>
    BY <1>3 DEF Finish, Abandon, At
  <2> QED
    BY <2>2, <2>3 DEF AllGood
<1>4. CASE Written
  <2>1. PICK w : w = Head(writes)
    OBVIOUS
  <2>2. w \in Writes /\ writes' \in Seq(Writes)
    BY <1>4, <2>1, QueueShrinks DEF AllGood, Written
  <2>3. w.draft \in GoodDrafts
    BY <2>2 DEF Writes
  <2>4. /\ row' = RowAfter(w)
        /\ saved' = IF w.kind = "save" THEN [saved EXCEPT ![w.draft.id] = @ + 1] ELSE saved
        /\ draft' = IF w.kind = "put" THEN draft ELSE NoDraft
        /\ begun' = begun
    BY <1>4, <2>1 DEF Written
  <2>5. row' \in GoodDrafts \cup {NoDraft} /\ draft' \in GoodDrafts \cup {NoDraft}
    BY <2>3, <2>4 DEF RowAfter, AllGood
  <2>6. saved' \in [1 .. MaxDrafts -> Nat]
    BY <2>4, CountedUp DEF AllGood
  <2> QED
    BY <2>2, <2>4, <2>5, <2>6 DEF AllGood
<1>5. CASE Refused
  <2>1. writes' \in Seq(Writes)
    BY <1>5, QueueShrinks DEF AllGood, Refused
  <2> QED
    BY <1>5, <2>1 DEF AllGood, Refused
<1>6. CASE Close
  <2>1. writes' \in Seq(Writes)
    BY <1>6 DEF Close
  <2> QED
    BY <1>6, <2>1 DEF AllGood, Close
<1>7. CASE Open
  BY <1>7 DEF AllGood, Open
<1>8. CASE UNCHANGED vars
  BY <1>8 DEF AllGood, vars
<1> QED
  BY <1>1, <1>2, <1>3, <1>4, <1>5, <1>6, <1>7, <1>8, Changes

LEMMA EveryDraftGood == Spec => []AllGood
  BY GoodInit, GoodNext, PTL DEF Spec

-----------------------------------------------------------------------------
(* What the runs check. *)

LEMMA GoodIsOK == ASSUME NEW d \in GoodDrafts PROVE DraftOK(d)
<1>1. PICK n \in TableSize : GoodAt(0 .. n - 1, d)
  BY GoodDraftsAre
<1>2. PICK S : S = 0 .. n - 1
  OBVIOUS
<1>3. Shape(S, d) /\ Seats(d) = S
  BY <1>1, <1>2, ShapeIs DEF GoodAt
<1>4. /\ d.format \in Format /\ d.phase \in {"identity", "pick", "finish"}
      /\ d.collection \in Collection /\ d.current \in S
      /\ d.players \in Players(S) /\ d.packs \in Queues(S) /\ d.opened \in Tallies(S)
      /\ d.stock \in [Card -> Nat] /\ d.offer \subseteq Card
  BY <1>3 DEF Shape, Drafts, Bag, Tallies
<1>5. ASSUME NEW i \in S
      PROVE  /\ d.players[i] \in Player
             /\ \A k \in DOMAIN d.packs[i] : d.packs[i][k] \in kSubset(OfferSize, Card)
             /\ d.opened[i] \in 0 .. BoosterCount
  <2>1. d.players[i] \in Player /\ d.opened[i] \in 0 .. BoosterCount
    BY <1>4 DEF Players, Tallies
  <2>2. PICK q \in Seq(PackSet) : q = d.packs[i]
    BY <1>4 DEF Queues, Queue
  <2>3. \A k \in DOMAIN q : q[k] \in PackSet
    OBVIOUS
  <2> QED
    BY <2>1, <2>2, <2>3 DEF PackSet
<1> QED
  BY <1>3, <1>4, <1>5 DEF DraftOK

LEMMA GoodTypes == AllGood => TypeOK
<1> SUFFICES ASSUME AllGood PROVE TypeOK
  OBVIOUS
<1>1. ASSUME NEW k \in DOMAIN writes
      PROVE  writes[k].kind \in {"put", "save", "clear"} /\ DraftOK(writes[k].draft)
  <2>1. writes[k] \in Writes
    BY DEF AllGood
  <2> QED
    BY <2>1, GoodIsOK DEF Writes
<1> QED
  BY <1>1, GoodIsOK DEF AllGood, TypeOK

LEMMA GoodHeroes == AllGood => HeroesDistinct
<1> SUFFICES ASSUME AllGood, draft # NoDraft,
                    NEW i \in Seats(draft), NEW j \in Seats(draft), i # j,
                    draft.players[i].hero # NoHero
             PROVE  draft.players[i].hero # draft.players[j].hero
  BY DEF HeroesDistinct
<1>1. PICK S : GoodAt(S, draft)
  BY Shown DEF AllGood
<1> QED
  BY <1>1 DEF GoodAt, Seating

LEMMA GoodCopies == AllGood => Conserved
<1> SUFFICES ASSUME AllGood, draft # NoDraft, draft.phase # "identity"
             PROVE  Conserved
  BY DEF Conserved
<1>1. PICK S : Places(S) /\ GoodAt(S, draft)
  BY Shown DEF AllGood
<1>2. /\ Shape(S, draft) /\ Seats(draft) = S /\ IsFiniteSet(S)
      /\ draft.players \in Players(S) /\ draft.packs \in Queues(S) /\ draft.pools \in [S -> Bag]
      /\ draft.stock \in Bag /\ draft.format \in Format
  BY <1>1, ShapeIs, PlacesAre DEF GoodAt, Shape, Drafts
<1>3. DOMAIN draft.players = S /\ DOMAIN draft.packs = S /\ DOMAIN draft.pools = S
  BY <1>2 DEF Players, Queues
<1>4. CASE draft.format = "sealed"
  <2>1. Pooled(draft)
    BY <1>1, <1>4 DEF GoodAt
  <2>2. \A c \in Card : draft.stock[c] + SumFunction([i \in S |-> draft.pools[i][c]])
                           = draft.collection[c]
    BY <1>3, <2>1 DEF Pooled, PoolsHeld
  <2>3. \A c \in Card : \A i \in S : draft.players[i].picks[c] <= draft.pools[i][c]
    BY <1>2, <2>1 DEF Pooled
  <2> QED
    BY <1>2, <1>4, <2>2, <2>3 DEF Conserved
<1>5. CASE draft.format # "sealed"
  <2>1. draft.format = "draft"
    BY <1>2, <1>5, TableAssumption
  <2>2. Drafted(draft)
    BY <1>1, <2>1 DEF GoodAt
  <2>3. ASSUME NEW c \in Card
        PROVE  draft.stock[c] + SumFunction([i \in S |-> draft.players[i].picks[c]])
                 + SumFunction([i \in S |-> Cardinality({k \in DOMAIN draft.packs[i] :
                                                             c \in draft.packs[i][k]})])
                 + (IF c \in draft.offer THEN 1 ELSE 0) = draft.collection[c]
    <3>1. PICK a \in Nat : a = PicksHeld(draft.players, c)
      BY <1>2, HeldNat
    <3>2. PICK h \in Nat : h = PacksHeld(draft.packs, c)
      BY <1>2, HeldNat
    <3>3. PICK o \in Nat : o = OnTable(draft.offer, c)
      BY DEF OnTable
    <3>4. PICK t \in Nat : t = draft.stock[c]
      BY <1>2 DEF Bag
    <3>5. a + (t + h + o) = draft.collection[c]
      BY <2>2, <3>1, <3>2, <3>3, <3>4 DEF Drafted, DraftCopies, Outside
    <3>6. a = SumFunction([i \in S |-> draft.players[i].picks[c]])
      BY <1>3, <3>1 DEF PicksHeld
    <3>7. h = SumFunction([i \in S |-> Cardinality({k \in DOMAIN draft.packs[i] :
                                                      c \in draft.packs[i][k]})])
      BY <1>3, <3>2 DEF PacksHeld, InPacks
    <3>8. t + a + h + o = draft.collection[c]
      BY <3>5
    <3> QED
      BY <3>3, <3>4, <3>6, <3>7, <3>8 DEF OnTable
  <2> QED
    BY <1>2, <1>5, <2>3 DEF Conserved
<1> QED
  BY <1>4, <1>5

(* One physical copy is in one place, one identity at one seat, and every  *)
(* draft shown, stored or on its way to the disk is well formed.           *)
THEOREM CopiesAlwaysConserved == Spec => []CopiesConserved
<1>1. AllGood => CopiesConserved
  BY GoodTypes, GoodHeroes, GoodCopies DEF CopiesConserved
<1> QED
  BY <1>1, EveryDraftGood, PTL

(* The table shows what the player's deck can take, packs built ahead of   *)
(* the picks or not, and nothing only when the shelf has nothing for them. *)
THEOREM OffersAlwaysHonest == Spec => []OfferHonest
<1>1. AllGood => OfferHonest
  <2> SUFFICES ASSUME AllGood, draft # NoDraft, draft.phase = "pick", draft.format = "draft"
               PROVE  Offering(draft)
    BY DEF OfferHonest, Offering
  <2>1. PICK S : GoodAt(S, draft)
    BY Shown DEF AllGood
  <2> QED
    BY <2>1 DEF GoodAt, Drafted
<1> QED
  BY <1>1, EveryDraftGood, PTL

(* A full deck whose picks could still be evened out is even. *)
LEMMA WholeIsLegal ==
  ASSUME NEW p \in Player, Sound(p), Whole(p), IsFull(p)
  PROVE  Legal(p)
<1>1. p.hero # NoHero /\ NothingBlocks(p, p.picks)
  BY DEF Sound, IdentityReady
<1>2. PICK k \in Nat : k = CardCount(p)
  BY CountNat
<1>3. PICK s \in Int, m \in Int : s = p.size /\ m = MinDeck
  BY SizesAssumption DEF Player
<1>4. k >= s /\ s >= m
  BY <1>2, <1>3 DEF IsFull, Whole
<1>5. ASSUME p.hero \in Balanced
      PROVE  Deficit(p, p.picks) = 0
  <2>1. CASE p.picks = NoCards
    BY <2>1, EmptyIsBalanced
  <2>2. CASE s - k >= Deficit(p, p.picks)
    <3>1. p.picks \in Bag
      BY DEF Player, Bag
    <3>2. PICK f \in Nat : f = Deficit(p, p.picks)
      BY <3>1, LackIs
    <3>3. f = 0
      BY <1>4, <2>2, <3>2
    <3> QED
      BY <3>2, <3>3
  <2> QED
    BY <1>2, <1>3, <1>5, <2>1, <2>2 DEF Whole, BalanceOpen
<1>6. k >= m
  BY <1>4
<1> QED
  BY <1>1, <1>2, <1>3, <1>5, <1>6 DEF Legal

(* Every deck nobody stopped short is legal when the finish page comes. *)
THEOREM FullDecksAlwaysLegal == Spec => []FullDecksLegal
<1>1. AllGood => FullDecksLegal
  <2> SUFFICES ASSUME AllGood, draft # NoDraft, draft.phase = "finish",
                      NEW i \in Seats(draft) \ draft.short
               PROVE  Legal(draft.players[i])
    BY DEF FullDecksLegal
  <2>1. PICK S : GoodAt(S, draft)
    BY Shown DEF AllGood
  <2>2. /\ Shape(S, draft) /\ Seats(draft) = S /\ draft.players \in Players(S)
        /\ draft.format \in Format /\ DecksSound(draft)
    BY <2>1, ShapeIs DEF GoodAt, Shape, Drafts
  <2>3. EveryoneFull(draft)
    <3>1. CASE draft.format = "draft"
      BY <2>1, <3>1 DEF GoodAt, Drafted
    <3>2. CASE draft.format = "sealed"
      BY <2>1, <3>2 DEF GoodAt, Pooled
    <3> QED
      BY <2>2, <3>1, <3>2, TableAssumption
  <2>4. PICK p \in Player : p = draft.players[i]
    BY <2>2 DEF Players
  <2>5. Sound(p) /\ Whole(p) /\ IsFull(p)
    BY <2>2, <2>3, <2>4 DEF DecksSound, EveryoneFull
  <2> QED
    BY <2>4, <2>5, WholeIsLegal
<1> QED
  BY <1>1, EveryDraftGood, PTL

-----------------------------------------------------------------------------
(* The decks of a draft are saved once. *)

(* A write after which there is a draft of this id, or its decks are saved. *)
Keeps(w, id) == w.kind # "clear" /\ w.draft.id = id

(* Nothing can bring the draft back. *)
Over(id) ==
    /\ draft # NoDraft => draft.id # id
    /\ row # NoDraft => row.id # id
    /\ \A k \in DOMAIN writes : ~ Keeps(writes[k], id)

(* No write of a draft follows the one that saves its decks. *)
SavedLast(id) ==
    \A j, k \in DOMAIN writes :
        j < k /\ writes[j].kind = "save" /\ writes[j].draft.id = id => ~ Keeps(writes[k], id)

OnceSaved(id) ==
    /\ id > begun => saved[id] = 0
    /\ id \notin late => /\ saved[id] <= 1
                         /\ saved[id] = 1 => Over(id)
                         /\ SavedLast(id)

(* Every draft there is has been begun. *)
AllBegun ==
    /\ draft # NoDraft => draft.id <= begun
    /\ row # NoDraft => row.id <= begun
    /\ \A k \in DOMAIN writes : writes[k].draft.id <= begun

(* The inductive invariant, beside AllGood. *)
SavedInv == AllBegun /\ \A id \in 1 .. MaxDrafts : OnceSaved(id)

LEMMA SavedInit == Init => SavedInv
<1> SUFFICES ASSUME Init PROVE SavedInv
  OBVIOUS
<1>1. AllBegun
  BY DEF Init, AllBegun
<1>2. ASSUME NEW id \in 1 .. MaxDrafts PROVE OnceSaved(id)
  BY DEF Init, OnceSaved, Over, SavedLast
<1> QED
  BY <1>1, <1>2 DEF SavedInv

(* A write more, of a draft not over, not after the save of its decks. *)
LEMMA WriteAppended ==
  ASSUME AllGood, SavedInv, NEW w \in Writes, writes' = Append(writes, w),
         UNCHANGED <<row, saved>>, begun' \in Int, begun' >= begun,
         w.draft.id <= begun', draft' # NoDraft => draft'.id = w.draft.id \/ draft' = draft,
         late \subseteq late',
         NEW id \in 1 .. MaxDrafts,
         id \notin late' /\ id = w.draft.id /\ (w.kind # "clear" \/ draft' # draft) =>
             saved[id] = 0 /\ \A j \in DOMAIN writes : ~ (writes[j].kind = "save"
                                                             /\ writes[j].draft.id = id)
  PROVE  AllBegun' /\ OnceSaved(id)'
<1>1. PICK n \in Nat : n = Len(writes)
  BY DEF AllGood
<1>2. /\ writes' \in Seq(Writes) /\ DOMAIN writes = 1 .. n /\ DOMAIN writes' = 1 .. n + 1
      /\ \A k \in 1 .. n : writes'[k] = writes[k]
      /\ writes'[n + 1] = w
  BY <1>1, QueueGrows DEF AllGood
<1>3. \A k \in 1 .. n + 1 : k \in 1 .. n \/ k = n + 1
  BY <1>1
<1>4. begun \in Int /\ \A d \in GoodDrafts : d.id \in Int
  BY GoodDraftsAre DEF AllGood
<1>5. AllBegun'
  <2>1. draft' # NoDraft => draft'.id <= begun'
    <3>1. CASE draft' = draft
      <4>1. ASSUME draft # NoDraft PROVE draft.id <= begun'
        <5>1. draft.id <= begun /\ draft.id \in Int
          BY <1>4, <4>1 DEF SavedInv, AllBegun, AllGood
        <5> QED
          BY <1>4, <5>1
      <4> QED
        BY <3>1, <4>1
    <3>2. CASE draft' # draft
      BY <3>2
    <3> QED
      BY <3>1, <3>2
  <2>2. row' # NoDraft => row'.id <= begun'
    <3> SUFFICES ASSUME row # NoDraft PROVE row.id <= begun'
      OBVIOUS
    <3>1. row.id <= begun /\ row.id \in Int
      BY <1>4 DEF SavedInv, AllBegun, AllGood
    <3> QED
      BY <1>4, <3>1
  <2>3. ASSUME NEW k \in 1 .. n + 1 PROVE writes'[k].draft.id <= begun'
    <3>1. CASE k \in 1 .. n
      <4>1. writes[k].draft.id <= begun
        BY <1>2, <3>1 DEF SavedInv, AllBegun
      <4>2. writes[k] \in Writes
        BY <1>2, <3>1 DEF AllGood
      <4>3. writes[k].draft.id \in Int
        BY <1>4, <4>2 DEF Writes
      <4> QED
        BY <1>2, <1>4, <3>1, <4>1, <4>3
    <3>2. CASE k = n + 1
      BY <1>2, <3>2
    <3> QED
      BY <1>3, <3>1, <3>2
  <2> QED
    BY <1>2, <2>1, <2>2, <2>3 DEF AllBegun
<1>6. OnceSaved(id)
  BY DEF SavedInv
<1>7. id > begun' => saved'[id] = 0
  <2>1. id \in Int /\ (id > begun => saved[id] = 0)
    BY <1>6 DEF OnceSaved
  <2> QED
    BY <1>4, <2>1
<1>8. ASSUME id \notin late'
      PROVE  saved'[id] <= 1 /\ (saved'[id] = 1 => Over(id)') /\ SavedLast(id)'
  <2>1. id \notin late /\ saved[id] <= 1 /\ (saved[id] = 1 => Over(id)) /\ SavedLast(id)
    BY <1>6, <1>8 DEF OnceSaved
  <2>2. ASSUME saved[id] = 1 PROVE Over(id)'
    <3>1. Over(id) /\ ~ (id = w.draft.id /\ (w.kind # "clear" \/ draft' # draft))
      BY <1>8, <2>1, <2>2
    <3>2. ~ Keeps(w, id)
      BY <3>1 DEF Keeps
    <3>3. \A k \in 1 .. n + 1 : ~ Keeps(writes'[k], id)
      BY <1>2, <1>3, <3>1, <3>2 DEF Over
    <3>4. draft' # NoDraft => draft'.id # id
      BY <3>1 DEF Over
    <3> QED
      BY <1>2, <3>1, <3>3, <3>4 DEF Over
  <2>3. SavedLast(id)'
    <3> SUFFICES ASSUME NEW j \in 1 .. n + 1, NEW k \in 1 .. n + 1, j < k,
                        writes'[j].kind = "save", writes'[j].draft.id = id,
                        Keeps(writes'[k], id)
                 PROVE  FALSE
      BY <1>2 DEF SavedLast
    <3>1. j \in 1 .. n
      BY <1>1
    <3>2. CASE k \in 1 .. n
      BY <1>2, <2>1, <3>1, <3>2 DEF SavedLast
    <3>3. CASE k = n + 1
      BY <1>2, <1>8, <3>1, <3>3 DEF Keeps
    <3> QED
      BY <1>3, <3>2, <3>3
  <2> QED
    BY <2>1, <2>2, <2>3
<1>9. OnceSaved(id)'
  BY <1>7, <1>8 DEF OnceSaved
<1> QED
  BY <1>5, <1>9

LEMMA SavingWaits ==
  ASSUME ~ Saving, NEW j \in DOMAIN writes
  PROVE  writes[j].kind # "save"
  BY DEF Saving

(* The draft shown is not saved, unless late. *)
LEMMA ShownUnsaved ==
  ASSUME AllGood, SavedInv, draft # NoDraft, draft.id \notin late
  PROVE  saved[draft.id] = 0 /\ draft.id <= begun
<1>1. draft \in GoodDrafts /\ draft.id \in 1 .. MaxDrafts
  BY GoodDraftsAre DEF AllGood
<1>2. OnceSaved(draft.id)
  BY <1>1 DEF SavedInv
<1>3. saved[draft.id] <= 1 /\ saved[draft.id] # 1
  BY <1>2 DEF OnceSaved, Over
<1>4. saved[draft.id] \in Nat
  BY <1>1 DEF AllGood
<1> QED
  BY <1>3, <1>4 DEF SavedInv, AllBegun

(* One write fewer, done or refused. *)
LEMMA WriteDropped ==
  ASSUME AllGood, SavedInv, writes # <<>>, writes' = Tail(writes),
         UNCHANGED <<late, begun>>,
         draft' \in {draft, NoDraft},
         \/ row' \in {row, NoDraft}
         \/ row' = Head(writes).draft /\ Head(writes).kind # "clear",
         NEW id \in 1 .. MaxDrafts,
         \/ saved'[id] = saved[id]
         \/ /\ saved'[id] = saved[id] + 1 /\ draft' = NoDraft /\ row' = NoDraft
            /\ Head(writes).kind = "save" /\ Head(writes).draft.id = id
  PROVE  AllBegun' /\ OnceSaved(id)'
<1>1. PICK w : w = writes[1]
  OBVIOUS
<1>2. /\ writes' \in Seq(Writes) /\ Head(writes) = w /\ 1 \in DOMAIN writes /\ w \in Writes
      /\ \A k \in DOMAIN writes' : /\ k \in Nat \ {0} /\ k + 1 \in DOMAIN writes
                                   /\ writes'[k] = writes[k + 1]
  BY <1>1, QueueShrinks DEF AllGood
<1>3. AllBegun'
  BY <1>1, <1>2 DEF SavedInv, AllBegun
<1>4. OnceSaved(id)
  BY DEF SavedInv
<1>5. saved[id] \in Nat /\ begun \in Int /\ id \in Int
  BY DEF AllGood
<1>6. SavedLast(id) => SavedLast(id)'
  <2> SUFFICES ASSUME SavedLast(id), NEW j \in DOMAIN writes', NEW k \in DOMAIN writes',
                      j < k, writes'[j].kind = "save", writes'[j].draft.id = id
               PROVE  ~ Keeps(writes'[k], id)
    BY DEF SavedLast
  <2>1. PICK a \in Nat, b \in Nat : a = j /\ b = k
    BY <1>2
  <2>2. a + 1 < b + 1
    BY <2>1
  <2>3. /\ a + 1 \in DOMAIN writes /\ b + 1 \in DOMAIN writes
        /\ writes'[j] = writes[a + 1] /\ writes'[k] = writes[b + 1]
    BY <1>2, <2>1
  <2> QED
    BY <2>2, <2>3 DEF SavedLast
<1>7. Over(id) => Over(id)'
  <2> SUFFICES ASSUME Over(id) PROVE Over(id)'
    OBVIOUS
  <2>1. \A k \in DOMAIN writes' : ~ Keeps(writes'[k], id)
    BY <1>2 DEF Over
  <2>2. draft' # NoDraft => draft'.id # id
    BY DEF Over
  <2>3. row' # NoDraft => row'.id # id
    <3>1. CASE row' \in {row, NoDraft}
      BY <3>1 DEF Over
    <3>2. CASE row' = w.draft /\ w.kind # "clear"
      <4>1. ~ Keeps(w, id)
        BY <1>1, <1>2 DEF Over
      <4> QED
        BY <3>2, <4>1 DEF Keeps
    <3> QED
      BY <1>2, <3>1, <3>2
  <2> QED
    BY <2>1, <2>2, <2>3 DEF Over
<1>8. CASE saved'[id] = saved[id]
  <2>1. id > begun' => saved'[id] = 0
    BY <1>4, <1>8 DEF OnceSaved
  <2>2. id \notin late' => saved'[id] <= 1 /\ (saved'[id] = 1 => Over(id)') /\ SavedLast(id)'
    BY <1>4, <1>6, <1>7, <1>8 DEF OnceSaved
  <2> QED
    BY <1>3, <2>1, <2>2 DEF OnceSaved
<1>9. CASE /\ saved'[id] = saved[id] + 1 /\ draft' = NoDraft /\ row' = NoDraft
           /\ w.kind = "save" /\ w.draft.id = id
  <2>1. ~ (id > begun)
    <3>1. w.draft.id <= begun
      BY <1>1, <1>2 DEF SavedInv, AllBegun
    <3> QED
      BY <1>5, <1>9, <3>1
  <2>2. ASSUME id \notin late
        PROVE  saved'[id] <= 1 /\ Over(id)' /\ SavedLast(id)'
    <3>1. saved[id] <= 1 /\ (saved[id] = 1 => Over(id)) /\ SavedLast(id)
      BY <1>4, <2>2 DEF OnceSaved
    <3>2. ~ Over(id)
      BY <1>1, <1>2, <1>9 DEF Over, Keeps
    <3>3. saved'[id] <= 1
      BY <1>5, <1>9, <3>1, <3>2
    <3>4. ASSUME NEW k \in DOMAIN writes' PROVE ~ Keeps(writes'[k], id)
      <4>1. PICK b \in Nat \ {0} : b = k
        BY <1>2
      <4>2. b + 1 \in DOMAIN writes /\ writes'[k] = writes[b + 1] /\ 1 < b + 1
        BY <1>2, <4>1
      <4> QED
        BY <1>1, <1>2, <1>9, <3>1, <4>2 DEF SavedLast
    <3> QED
      BY <1>6, <1>9, <3>1, <3>3, <3>4 DEF Over
  <2> QED
    BY <1>3, <2>1, <2>2 DEF OnceSaved
<1> QED
  BY <1>2, <1>3, <1>8, <1>9

LEMMA SavedNext == AllGood /\ SavedInv /\ [Next]_vars => SavedInv'
<1> SUFFICES ASSUME AllGood, SavedInv, [Next]_vars PROVE SavedInv'
  OBVIOUS
<1>1. begun \in Int /\ begun <= begun
  BY DEF AllGood
<1>2. CASE Edits
  <2>1. PICK d \in GoodDrafts : d.id = draft.id /\ Commit(d)
    BY <1>2 DEF Edits
  <2>2. PICK w : w = [kind |-> "put", draft |-> d]
    OBVIOUS
  <2>3. w \in Writes /\ w.kind = "put" /\ w.draft = d
    BY <2>2 DEF Writes
  <2>4. /\ draft # NoDraft /\ begun' = begun /\ writes' = Append(writes, w)
        /\ UNCHANGED <<row, saved>> /\ draft' = d
        /\ late' = IF Saving THEN late \cup {d.id} ELSE late
    BY <1>2, <2>1, <2>2 DEF Edits, Commit
  <2>5. d.id <= begun
    BY <2>1, <2>4 DEF SavedInv, AllBegun
  <2>6. ASSUME NEW id \in 1 .. MaxDrafts, id \notin late', id = d.id
        PROVE  saved[id] = 0 /\ \A j \in DOMAIN writes : writes[j].kind # "save"
    <3>1. id \notin late /\ ~ Saving
      BY <2>4, <2>6
    <3> QED
      BY <2>1, <2>4, <2>6, <3>1, ShownUnsaved, SavingWaits
  <2>7. ASSUME NEW id \in 1 .. MaxDrafts
        PROVE  AllBegun' /\ OnceSaved(id)'
    <3>1. id \notin late' /\ id = w.draft.id =>
             saved[id] = 0 /\ \A j \in DOMAIN writes : writes[j].kind # "save"
      BY <2>3, <2>6
    <3> QED
      BY <1>1, <2>3, <2>4, <2>5, <3>1, WriteAppended
  <2>8. d.id \in 1 .. MaxDrafts
    BY GoodDraftsAre
  <2> QED
    BY <2>7, <2>8 DEF SavedInv
<1>3. CASE Begin
  <2>1. PICK d \in GoodDrafts : d.id = begun + 1 /\ Commit(d)
    BY <1>3, BeginGood
  <2>2. PICK w : w = [kind |-> "put", draft |-> d]
    OBVIOUS
  <2>3. w \in Writes /\ w.kind = "put" /\ w.draft = d
    BY <2>2 DEF Writes
  <2>4. /\ writes = <<>> /\ begun' = begun + 1 /\ writes' = Append(writes, w)
        /\ UNCHANGED <<row, saved>> /\ draft' = d
        /\ late' = IF Saving THEN late \cup {d.id} ELSE late
    BY <1>3, <2>1, <2>2 DEF Begin, Commit
  <2>5. begun' \in Int /\ begun' >= begun /\ d.id <= begun' /\ d.id > begun
    BY <1>1, <2>1, <2>4
  <2>6. d.id \in 1 .. MaxDrafts
    BY GoodDraftsAre
  <2>7. saved[d.id] = 0 /\ \A j \in DOMAIN writes : writes[j].kind # "save"
    BY <2>4, <2>5, <2>6 DEF SavedInv, OnceSaved
  <2>8. late \subseteq late'
    BY <2>4
  <2>9. ASSUME NEW id \in 1 .. MaxDrafts
        PROVE  AllBegun' /\ OnceSaved(id)'
    BY <2>3, <2>4, <2>5, <2>7, <2>8, WriteAppended
  <2> QED
    BY <2>6, <2>9 DEF SavedInv
<1>4. CASE Finish
  <2>1. PICK w : w = [kind |-> "save", draft |-> draft]
    OBVIOUS
  <2>2. /\ draft # NoDraft /\ ~ Saving /\ writes' = Append(writes, w)
        /\ UNCHANGED <<draft, row, saved, late, begun>>
    BY <1>4, <2>1 DEF Finish, At
  <2>3. draft \in GoodDrafts /\ draft.id \in 1 .. MaxDrafts
    BY <2>2, GoodDraftsAre DEF AllGood
  <2>4. w \in Writes /\ w.draft = draft
    BY <2>1, <2>3 DEF Writes
  <2>5. draft.id <= begun
    BY <2>2 DEF SavedInv, AllBegun
  <2>6. ASSUME NEW id \in 1 .. MaxDrafts, id \notin late, id = draft.id
        PROVE  saved[id] = 0 /\ \A j \in DOMAIN writes : writes[j].kind # "save"
    BY <2>2, <2>6, ShownUnsaved, SavingWaits
  <2>7. ASSUME NEW id \in 1 .. MaxDrafts
        PROVE  AllBegun' /\ OnceSaved(id)'
    <3>1. id \notin late' /\ id = w.draft.id =>
             saved[id] = 0 /\ \A j \in DOMAIN writes : writes[j].kind # "save"
      BY <2>2, <2>4, <2>6
    <3> QED
      BY <1>1, <2>2, <2>4, <2>5, <3>1, WriteAppended
  <2> QED
    BY <2>3, <2>7 DEF SavedInv
<1>5. CASE Abandon
  <2>1. PICK w : w = [kind |-> "clear", draft |-> draft]
    OBVIOUS
  <2>2. /\ draft # NoDraft /\ writes' = Append(writes, w)
        /\ UNCHANGED <<draft, row, saved, late, begun>>
    BY <1>5, <2>1 DEF Abandon
  <2>3. draft \in GoodDrafts /\ draft.id \in 1 .. MaxDrafts
    BY <2>2, GoodDraftsAre DEF AllGood
  <2>4. w \in Writes /\ w.draft = draft /\ w.kind = "clear"
    BY <2>1, <2>3 DEF Writes
  <2>5. draft.id <= begun
    BY <2>2 DEF SavedInv, AllBegun
  <2>6. ASSUME NEW id \in 1 .. MaxDrafts
        PROVE  AllBegun' /\ OnceSaved(id)'
    BY <1>1, <2>2, <2>4, <2>5, WriteAppended
  <2> QED
    BY <2>3, <2>6 DEF SavedInv
<1>6. CASE Written \/ Refused
  <2>1. PICK w : w = Head(writes)
    OBVIOUS
  <2>2. writes # <<>> /\ writes' = Tail(writes) /\ UNCHANGED <<late, begun>>
    BY <1>6 DEF Written, Refused
  <2>3. w \in Writes
    BY <2>1, <2>2, QueueShrinks DEF AllGood
  <2>4. w.draft.id \in 1 .. MaxDrafts /\ w.kind \in {"put", "save", "clear"}
    BY <2>3, GoodDraftsAre DEF Writes
  <2>5. ASSUME NEW id \in 1 .. MaxDrafts
        PROVE  AllBegun' /\ OnceSaved(id)'
    <3>1. CASE Refused
      <4>1. draft' = draft /\ row' = row /\ saved' = saved
        BY <3>1 DEF Refused
      <4> QED
        BY <2>2, <4>1, WriteDropped
    <3>2. CASE Written /\ w.kind = "put"
      <4>1. draft' = draft /\ row' = w.draft /\ saved' = saved
        BY <2>1, <3>2 DEF Written, RowAfter
      <4> QED
        BY <2>1, <2>2, <3>2, <4>1, WriteDropped
    <3>3. CASE Written /\ w.kind = "clear"
      <4>1. draft' = NoDraft /\ row' = NoDraft /\ saved' = saved
        BY <2>1, <3>3 DEF Written, RowAfter
      <4> QED
        BY <2>2, <4>1, WriteDropped
    <3>4. CASE Written /\ w.kind = "save"
      <4>1. draft' = NoDraft /\ row' = NoDraft
            /\ saved' = [saved EXCEPT ![w.draft.id] = @ + 1]
        BY <2>1, <3>4 DEF Written, RowAfter
      <4>2. \/ saved'[id] = saved[id]
            \/ saved'[id] = saved[id] + 1 /\ w.draft.id = id
        BY <2>4, <4>1 DEF AllGood
      <4> QED
        BY <2>1, <2>2, <3>4, <4>1, <4>2, WriteDropped
    <3> QED
      BY <1>6, <2>4, <3>1, <3>2, <3>3, <3>4
  <2> QED
    BY <2>4, <2>5 DEF SavedInv
<1>7. CASE Close
  <2>1. /\ draft' = NoDraft /\ writes' = <<>> /\ UNCHANGED <<row, saved, late, begun>>
    BY <1>7 DEF Close
  <2>2. AllBegun'
    BY <2>1 DEF SavedInv, AllBegun
  <2>3. ASSUME NEW id \in 1 .. MaxDrafts PROVE OnceSaved(id)'
    BY <2>1 DEF SavedInv, OnceSaved, Over, SavedLast
  <2> QED
    BY <2>2, <2>3 DEF SavedInv
<1>8. CASE Open
  <2>1. draft' = row /\ UNCHANGED <<row, writes, saved, late, begun>>
    BY <1>8 DEF Open
  <2>2. AllBegun'
    BY <2>1 DEF SavedInv, AllBegun
  <2>3. ASSUME NEW id \in 1 .. MaxDrafts PROVE OnceSaved(id)'
    BY <2>1 DEF SavedInv, OnceSaved, Over, SavedLast
  <2> QED
    BY <2>2, <2>3 DEF SavedInv
<1>9. CASE UNCHANGED vars
  <2>1. UNCHANGED <<draft, row, writes, saved, late, begun>>
    BY <1>9 DEF vars
  <2>2. AllBegun'
    BY <2>1 DEF SavedInv, AllBegun
  <2>3. ASSUME NEW id \in 1 .. MaxDrafts PROVE OnceSaved(id)'
    BY <2>1 DEF SavedInv, OnceSaved, Over, SavedLast
  <2> QED
    BY <2>2, <2>3 DEF SavedInv
<1> QED
  BY <1>2, <1>3, <1>4, <1>5, <1>6, <1>7, <1>8, <1>9, Changes

(* The decks of a draft are saved once, whatever page is closed or write    *)
(* refused on the way, unless the draft was written down while they were.   *)
THEOREM SavedAtMostOnce == Spec => []SavedOnce
<1>1. SavedInv => SavedOnce
  BY DEF SavedInv, OnceSaved, SavedOnce
<1>2. Spec => []SavedInv
  BY EveryDraftGood, SavedInit, SavedNext, PTL DEF Spec
<1> QED
  BY <1>1, <1>2, PTL
=============================================================================

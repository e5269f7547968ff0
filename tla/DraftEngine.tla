---------------------------- MODULE DraftEngine ----------------------------
(***************************************************************************)
(* The draft of web/src/lib/draft: engine.ts (packs and turns), sealed.ts  *)
(* (boosters), the legality of lib/deckRules.ts as far as a draft asks it. *)
(*                                                                         *)
(* A state of the draft is the record the page writes down.  Shuffles are  *)
(* seeded by a fresh seed, so what they may give is a set: an operator     *)
(* that draws returns every state the draw can lead to.                    *)
(*                                                                         *)
(* A deck is the number of copies of each card picked.  An identity's own  *)
(* cards are never on the shelf and only count towards the size.           *)
(***************************************************************************)
EXTENDS Integers, Sequences, FiniteSets, FiniteSetsExt, SequencesExt

CONSTANTS Card, Hero, Aspect, Basic,
          FactionOf, TitleOf, Unique, DeckLimit,   \* of a card
          AspectCount, Balanced, LimitOverride,    \* of an identity
          Own, OwnLimit,       \* cards its one allowance admits, and how many
          Playable,            \* what synergyOnly leaves it; every card when off
          TitleOfHero, SignatureCount,
          NoHero, None,
          OfferSize, MinDeck, MaxDeck, SealedSize, BoosterSize

ASSUME SizesAssumption ==
    /\ OfferSize \in Nat \ {0}
    /\ MinDeck \in Nat /\ MaxDeck \in Nat /\ MinDeck <= MaxDeck
    /\ SealedSize \in Nat /\ BoosterSize \in Nat \ {0}
    /\ SealedSize % BoosterSize = 0

ASSUME CardsAssumption ==
    /\ IsFiniteSet(Card) /\ IsFiniteSet(Aspect)
    /\ DeckLimit \in [Card -> Nat]
    /\ AspectCount \in [Hero -> Nat]
    /\ LimitOverride \in [Hero -> Nat \cup {None}]
    /\ Own \in [Hero -> SUBSET Card] /\ OwnLimit \in [Hero -> Nat]
    /\ Playable \in [Hero -> SUBSET Card]
    /\ SignatureCount \in [Hero -> 0 .. MaxDeck]
    /\ NoHero \notin Hero

NoCards == [c \in Card |-> 0]
BoosterCount == SealedSize \div BoosterSize

EmptyPlayer ==
    [hero |-> NoHero, aspects |-> {}, size |-> MinDeck, picks |-> NoCards]

Seats(d) == DOMAIN d.players    \* 0 .. number of players - 1
Seated(d) == Cardinality(Seats(d))
Current(d) == d.players[d.current]

Total(bag, S) == SumFunctionOnSet(bag, S)
CardCount(p) == (IF p.hero = NoHero THEN 0 ELSE SignatureCount[p.hero])
                  + Total(p.picks, Card)
IsFull(p) == CardCount(p) >= p.size
Remaining(p) == Max({0, p.size - CardCount(p)})
EveryoneFull(d) == \A i \in Seats(d) : IsFull(d.players[i])

Plus(bag, c) == [bag EXCEPT ![c] = @ + 1]
Minus(bag, c) == [bag EXCEPT ![c] = @ - 1]

(* The draft with this as the current player's deck. *)
WithPicks(d, bag) ==
    [d EXCEPT !.players[d.current] = [Current(d) EXCEPT !.picks = bag]]

-----------------------------------------------------------------------------
(* Identities. *)

AvailableHeroes(d) == Hero \ {d.players[i].hero : i \in Seats(d)}

ImposedAspects(h) == AspectCount[h] >= Cardinality(Aspect)

(* withHero: no aspect yet, unless the identity imposes them. *)
WithHero(d, h) ==
    [d EXCEPT !.players[d.current] =
        [Current(d) EXCEPT !.hero = h,
                           !.aspects = IF ImposedAspects(h) THEN Aspect ELSE {}]]

-----------------------------------------------------------------------------
(* validateDeck: what it reports of a deck beyond size and balance. *)

LimitOf(h, c) ==
    IF c \in Unique THEN 1
    ELSE IF LimitOverride[h] # None THEN LimitOverride[h]
    ELSE DeckLimit[c]

Held(bag) == {c \in Card : bag[c] > 0}
Titles(S) == {TitleOf[c] : c \in S}
Printings(S, t) == {c \in S : TitleOf[c] = t}

WithinLimits(h, bag) ==
    LET held == Held(bag) \ Unique IN
    \A t \in Titles(held) :
        Total(bag, Printings(held, t)) <=
            Min({LimitOf(h, c) : c \in Printings(held, t)})

(* The identity counts as one of the copies of a unique card. *)
UniquesOnce(h, bag) ==
    LET held == Held(bag) \cap Unique IN
    \A t \in Titles(held) :
        Total(bag, Printings(held, t)) + (IF t = TitleOfHero[h] THEN 1 ELSE 0) <= 1

OffAspect(p, bag) == {c \in Held(bag) : FactionOf[c] \notin p.aspects \cup {Basic}}

(* The allowance takes the cards one code after the other; a code it has no *)
(* room left for is off aspect, so all of them must fit.                    *)
AspectsAllow(p, bag) ==
    LET off == OffAspect(p, bag) IN
    off \subseteq Own[p.hero] /\ Total(bag, off) <= OwnLimit[p.hero]

NothingBlocks(p, bag) ==
    /\ Cardinality(p.aspects) = AspectCount[p.hero]
    /\ SignatureCount[p.hero] + Total(bag, Card) <= MaxDeck
    /\ WithinLimits(p.hero, bag)
    /\ UniquesOnce(p.hero, bag)
    /\ AspectsAllow(p, bag)

OfAspect(bag, a) == Total(bag, {c \in Card : FactionOf[c] = a})
MostOf(p, bag) == Max({OfAspect(bag, a) : a \in p.aspects})
Deficit(p, bag) ==
    SumFunction([a \in p.aspects |-> MostOf(p, bag) - OfAspect(bag, a)])

Legal(p) ==
    /\ p.hero # NoHero
    /\ NothingBlocks(p, p.picks)
    /\ CardCount(p) >= MinDeck
    /\ p.hero \in Balanced => Deficit(p, p.picks) = 0

(* Mutant: balance is left to the finish page. *)
CanTakeUnbalanced(p, c) ==
    p.hero # NoHero /\ NothingBlocks(p, Plus(p.picks, c))

(* canTake: the picks left after this one can still even the aspects out. *)
CanTake(p, c) ==
    /\ p.hero # NoHero
    /\ NothingBlocks(p, Plus(p.picks, c))
    /\ p.hero \in Balanced =>
           p.size - CardCount(p) - 1 >= Deficit(p, Plus(p.picks, c))

-----------------------------------------------------------------------------
(* The shelf. *)

PlayerPool(shelf, p) ==
    IF p.hero = NoHero THEN {}
    ELSE {c \in Playable[p.hero] :
              /\ shelf[c] > 0
              /\ FactionOf[c] \in p.aspects \cup {Basic} \/ c \in Own[p.hero]}

UsableCopies(p, c, shelf) == Min({shelf[c], LimitOf(p.hero, c)})

(* shortfalls is empty: each pool, then all the pools together, hold enough.*)
Enough(d, shelf) ==
    LET Usable(i, c) == IF c \in PlayerPool(shelf, d.players[i])
                          THEN UsableCopies(d.players[i], c, shelf) ELSE 0
        Need(i) == Remaining(d.players[i])
        Shared(c) == Min({shelf[c], MapThenSumSet(LAMBDA i : Usable(i, c), Seats(d))})
    IN  /\ \A i \in Seats(d) : MapThenSumSet(LAMBDA c : Usable(i, c), Card) >= Need(i)
        /\ MapThenSumSet(Shared, Card) >= MapThenSumSet(Need, Seats(d))

LegalOffers(d) == {c \in PlayerPool(d.stock, Current(d)) : CanTake(Current(d), c)}

(* returned: the shelf with the cards of these packs put back on it. *)
Returned(shelf, packs) ==
    [c \in Card |-> shelf[c]
        + Cardinality({k \in DOMAIN packs : c \in packs[k]})]

Without(shelf, pack) == [c \in Card |-> shelf[c] - IF c \in pack THEN 1 ELSE 0]

-----------------------------------------------------------------------------
(* Packs. *)

HoldsOnce(c) == c \in Unique \/ DeckLimit[c] = 1
CopiesLeftFor(p, c) == Max({0, LimitOf(p.hero, c) - p.picks[c]})

(* Some cards of the pool, offerSize of them if it has as many. *)
Shuffled(pool) == kSubset(Min({OfferSize, Cardinality(pool)}), pool)

FullPack(pool) == Cardinality(pool) >= OfferSize

(* One pack for the player i in the round r of the building b: a full one, *)
(* or none from now on.                                                    *)
PackFor(d, legal, b, r, i) ==
    LET pool == {c \in legal[i] :
                    /\ b.stock[c] > 0
                    /\ ~ (HoldsOnce(c) /\ c \in b.once)
                    /\ b.mine[i][c] < CopiesLeftFor(d.players[i], c)}
    IN  IF b.needed[i] <= r THEN {b}
        ELSE IF ~ FullPack(pool) THEN {[b EXCEPT !.needed[i] = 0]}
        ELSE {[b EXCEPT !.stock = Without(@, pack),
                        !.mine[i] = Returned(@, <<pack>>),
                        !.once = @ \cup {c \in pack : HoldsOnce(c)},
                        !.packs[i] = Append(@, pack)] : pack \in Shuffled(pool)}

(* buildPacks: round by round, a pack for each player wanted in turn.  What *)
(* a deck could take is read off the whole collection, once per building.   *)
BuildPacks(d, wanted) ==
    LET legal == [i \in Seats(d) |-> {c \in PlayerPool(d.collection, d.players[i]) :
                                          CanTake(d.players[i], c)}]
        needed == [i \in Seats(d) |->
                      IF i \in wanted
                        THEN Max({0, Remaining(d.players[i]) - Len(d.packs[i])}) ELSE 0]
        turns == Max({needed[i] : i \in Seats(d)}) * Seated(d)
        first == [stock |-> d.stock, packs |-> d.packs, needed |-> needed, once |-> {},
                  mine |-> [i \in Seats(d) |-> NoCards]]
        built[k \in 0 .. turns] ==
            IF k = 0 THEN {first}
            ELSE UNION {PackFor(d, legal, b, (k - 1) \div Seated(d), (k - 1) % Seated(d)) :
                           b \in built[k - 1]}
    IN  {[d EXCEPT !.stock = b.stock, !.packs = b.packs] : b \in built[turns]}

(* Mutant: what the deck can no longer take stays in the pack opened. *)
TakeableAsBuilt(d, pack) == pack

Takeable(d, pack) == {c \in pack : CanTake(Current(d), c)}

(* The front packs of the current player, until one has a card their deck   *)
(* can still take: the rest of it, and of those passed over, back unseen.   *)
OpenFront(d) ==
    LET queue == d.packs[d.current]
        alive == {k \in DOMAIN queue : Takeable(d, queue[k]) # {}}
        upTo == IF alive = {} THEN Len(queue) ELSE Min(alive)
        legal == IF alive = {} THEN {} ELSE Takeable(d, queue[upTo])
    IN  [d EXCEPT !.packs[d.current] = SubSeq(queue, upTo + 1, Len(queue)),
                  !.stock = Without(Returned(@, SubSeq(queue, 1, upTo)), legal),
                  !.offer = legal]

(* Not one full pack left: what the deck can take, as a last, shorter one.  *)
LastPacks(d) == {[d EXCEPT !.stock = Without(@, last), !.offer = last] :
                    last \in Shuffled(LegalOffers(d))}

(* openPack: the packs built ahead, then one rebuilding, then the rest. *)
OpenPack(d) ==
    IF IsFull(Current(d)) THEN {[d EXCEPT !.offer = {}]}
    ELSE LET o == OpenFront(d) IN
         IF o.offer # {} THEN {o}
         ELSE UNION {LET r == OpenFront(b) IN
                     IF r.offer # {} THEN {r} ELSE LastPacks(r)
                     : b \in BuildPacks(o, {d.current})}

(* nextTurn: the next seat with room, past the current one and round. *)
NextTurn(d) ==
    LET n == Seated(d)
        Seat(k) == (d.current + k) % n
        ahead == Min({k \in 1 .. n : ~ IsFull(d.players[Seat(k)])})
    IN  IF EveryoneFull(d)
          THEN {[d EXCEPT !.phase = "finish", !.current = 0, !.offer = {}]}
          ELSE {[o EXCEPT !.phase = "pick"] :
                   o \in OpenPack([d EXCEPT !.current = Seat(ahead)])}

(* start; no pack exists before it. *)
Start(d) ==
    LET free == {i \in Seats(d) : ~ IsFull(d.players[i])} IN
    IF free = {} THEN {[d EXCEPT !.phase = "finish", !.current = 0]}
    ELSE UNION {{[o EXCEPT !.phase = "pick"] :
                    o \in OpenPack([b EXCEPT !.current = Min(free)])} :
                   b \in BuildPacks(d, Seats(d))}

(* Mutant: the whole offer goes back, the card taken with it. *)
PickKeepingNone(d, c) ==
    NextTurn([WithPicks(d, Plus(Current(d).picks, c)) EXCEPT
                  !.stock = Returned(@, <<d.offer>>), !.offer = {}])

(* pick: the rest of the pack goes back on the shelf. *)
Pick(d, c) ==
    NextTurn([WithPicks(d, Plus(Current(d).picks, c)) EXCEPT
                  !.stock = Returned(@, <<d.offer \ {c}>>), !.offer = {}])

(* Mutant: a player stopped short still has room. *)
SkipKeepingSize(d) ==
    NextTurn([d EXCEPT !.packs[d.current] = <<>>,
                       !.stock = Returned(@, Append(d.packs[d.current], d.offer)),
                       !.offer = {}])

(* skipCurrent: the deck stops where it is, its packs go back. *)
SkipCurrent(d) ==
    NextTurn([d EXCEPT !.players[d.current] =
                           [Current(d) EXCEPT !.size = CardCount(Current(d))],
                       !.packs[d.current] = <<>>,
                       !.stock = Returned(@, Append(d.packs[d.current], d.offer)),
                       !.offer = {}])

-----------------------------------------------------------------------------
(* Sealed. *)

(* dealSealed: a copy at a time round the table, of what each deck may hold.*)
(* A seat whose pool has run dry gets nothing in its turn.                  *)
DealSealed(d) ==
    LET eligible == [i \in Seats(d) |-> {c \in PlayerPool(d.stock, d.players[i]) :
                                             CanTake(d.players[i], c)}]
        Left(x, i) ==
            {c \in eligible[i] :
                x.stock[c] > 0
                /\ UsableCopies(d.players[i], c, d.collection) > x.pools[i][c]}
        Deal(x, i) ==
            IF Left(x, i) = {} THEN {x}
            ELSE {[x EXCEPT !.stock = Minus(@, c), !.pools[i] = Plus(@, c)] :
                     c \in Left(x, i)}
        first == [stock |-> d.stock, pools |-> [i \in Seats(d) |-> NoCards]]
        turns == SealedSize * Seated(d)
        dealt[k \in 0 .. turns] ==
            IF k = 0 THEN {first}
            ELSE UNION {Deal(x, (k - 1) % Seated(d)) : x \in dealt[k - 1]}
    IN  {[d EXCEPT !.stock = x.stock, !.pools = x.pools,
                   !.opened = [i \in Seats(d) |-> 0],
                   !.building = [i \in Seats(d) |-> FALSE],
                   !.phase = "pick", !.current = 0] :
            x \in dealt[turns]}

OpenBooster(d) ==
    [d EXCEPT !.opened[d.current] = IF @ < BoosterCount THEN @ + 1 ELSE @]

BuildSealedDeck(d) ==
    [d EXCEPT !.building[d.current] = @ \/ d.opened[d.current] >= BoosterCount]

OpenAllBoosters(d) == BuildSealedDeck([d EXCEPT !.opened[d.current] = BoosterCount])

Selectable(d, c) ==
    /\ ~ IsFull(Current(d))
    /\ Current(d).picks[c] < d.pools[d.current][c]
    /\ CanTake(Current(d), c)
=============================================================================

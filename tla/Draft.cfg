SPECIFICATION LiveSpec
CONSTANTS
  hero = hero  warlock = warlock  c1 = c1  c2 = c2  c3 = c3  c4 = c4  A = A  B = B
  none = none
  Card = {c1, c2, c3, c4}
  Hero = {hero, warlock}
  Aspect = {A, B}
  Basic = basic
  FactionOf <- MCFactionOf
  TitleOf <- MCTitleOf
  Unique = {c2}
  DeckLimit <- MCDeckLimit
  AspectCount <- MCAspectCount
  Balanced = {warlock}
  LimitOverride <- MCLimitOverride
  Own <- MCOwn
  OwnLimit <- MCOwnLimit
  Playable <- MCPlayable
  TitleOfHero <- MCTitleOfHero
  SignatureCount <- MCSignatureCount
  NoHero = NoHero
  None = none
  OfferSize = 2
  MinDeck = 3
  MaxDeck = 4
  SealedSize = 2
  BoosterSize = 1
  Format = {"draft", "sealed"}
  TableSize = {1, 2}
  Mode = {"random", "choice"}
  Collection <- MCCollection
  DeckSize = {3, 4}
  NoDraft = NoDraft
  MaxDrafts = 1
  MaxWrites = 1
  MaxFaults = 1
INVARIANTS CopiesConserved OfferHonest FullDecksLegal SavedOnce
PROPERTIES DraftEnds
CHECK_DEADLOCK FALSE

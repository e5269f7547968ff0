------------------------------- MODULE Draft -------------------------------
(***************************************************************************)
(* A draft on one device: the page components/DraftPage.svelte, the engine *)
(* it asks (DraftEngine), and the single row lib/draft/store.ts keeps so   *)
(* that a page closed in the middle reopens where it was.                  *)
(*                                                                         *)
(* The page writes the draft down after every change and does not wait for *)
(* it: what is not yet on disk is in `writes', in order, and closing the   *)
(* page loses it.  The decks are saved, and the row deleted, in one write. *)
(***************************************************************************)
EXTENDS DraftEngine

CONSTANTS Format,        \* "draft", "sealed"
          TableSize,     \* numbers of players
          Mode,          \* "random", "choice": how identities are settled
          Collection,    \* what the shelf may hold: functions on Card
          DeckSize,      \* sizes the slider is put on
          NoDraft,
          MaxDrafts,     \* bound: drafts begun
          MaxWrites,     \* bound: writes the page is ahead of the disk, a
                         \* save not counted
          MaxFaults      \* bound: pages closed, writes refused

ASSUME TableAssumption ==
    /\ Format \subseteq {"draft", "sealed"}
    /\ TableSize \subseteq Nat \ {0}
    /\ DeckSize \subseteq MinDeck .. MaxDeck
    /\ Collection \subseteq [Card -> Nat]
    /\ MaxDrafts \in Nat

VARIABLES draft,    \* what the page shows, or NoDraft
          open,     \* the page is open
          row,      \* the draft on disk, or NoDraft
          writes,   \* under way: the row to put, the decks to save, the row to clear
          saved,    \* decks on the shelf: how often those of each draft
          late,     \* history: drafts written down while their decks were saved
          begun,
          faults

vars == <<draft, open, row, writes, saved, late, begun, faults>>

Fresh(id, format, mode, n, shelf) ==
    [id |-> id, format |-> format, mode |-> mode, collection |-> shelf,
     players |-> [i \in 0 .. n - 1 |-> EmptyPlayer],
     phase |-> "identity", current |-> 0,
     stock |-> NoCards, packs |-> [i \in 0 .. n - 1 |-> <<>>], offer |-> {},
     pools |-> [i \in 0 .. n - 1 |-> NoCards],
     opened |-> [i \in 0 .. n - 1 |-> 0], building |-> [i \in 0 .. n - 1 |-> FALSE],
     short |-> {}]    \* history: seats stopped before their deck was full

(* prepareIdentity: drawn for the player, in the mode that draws, if one is *)
(* left; in the others nothing yet.                                         *)
PrepareIdentity(d) ==
    IF Current(d).hero = NoHero /\ d.mode = "random" /\ AvailableHeroes(d) # {}
      THEN {WithHero(d, h) : h \in AvailableHeroes(d)} ELSE {d}

Init == /\ draft = NoDraft
        /\ open = TRUE
        /\ row = NoDraft
        /\ writes = <<>>
        /\ saved = [id \in 1 .. MaxDrafts |-> 0]
        /\ late = {}
        /\ begun = 0
        /\ faults = 0

Saving == \E k \in DOMAIN writes : writes[k].kind = "save"

Ahead == Cardinality({k \in DOMAIN writes : writes[k].kind # "save"}) < MaxWrites

(* commit: shown at once, written down behind. *)
Commit(d) ==
    /\ Ahead
    /\ draft' = d
    /\ writes' = Append(writes, [kind |-> "put", draft |-> d])
    /\ late' = IF Saving THEN late \cup {d.id} ELSE late
    /\ UNCHANGED <<open, row, saved, faults>>

At(phase) == open /\ draft # NoDraft /\ draft.phase = phase /\ UNCHANGED begun
AtTable == At("pick") /\ draft.format = "draft"
AtBoosters == At("pick") /\ draft.format = "sealed"

-----------------------------------------------------------------------------
(* The setup and identity pages. *)

Begin == /\ open /\ draft = NoDraft /\ begun < MaxDrafts
         /\ writes = <<>>    \* the row is read before the page offers to begin
         /\ begun' = begun + 1
         /\ \E f \in Format, m \in Mode, n \in TableSize, s \in Collection :
                \E d \in PrepareIdentity(Fresh(begun + 1, f, m, n, s)) : Commit(d)

ChooseHero ==
    /\ At("identity") /\ draft.mode = "choice"
    /\ \E h \in AvailableHeroes(draft) \cup ({Current(draft).hero} \ {NoHero}) :
           Commit(WithHero(draft, h))

DrawAgain ==
    /\ At("identity") /\ draft.mode = "random"
    /\ \E d \in PrepareIdentity([draft EXCEPT !.players[draft.current] =
                        [Current(draft) EXCEPT !.hero = NoHero, !.aspects = {}]]) : Commit(d)

(* toggleAspect for an identity of one aspect, and drawAspects for any that *)
(* chooses: in the end some set of its number of aspects.                   *)
ChooseAspects ==
    /\ At("identity") /\ Current(draft).hero # NoHero
    /\ ~ ImposedAspects(Current(draft).hero)
    /\ \E A \in kSubset(AspectCount[Current(draft).hero], Aspect) :
           Commit([draft EXCEPT !.players[draft.current] =
                                    [Current(draft) EXCEPT !.aspects = A]])

SetDeckSize ==
    /\ At("identity") /\ Current(draft).hero # NoHero
    /\ \E k \in DeckSize : Commit([draft EXCEPT !.players[draft.current] =
                                           [Current(draft) EXCEPT !.size = k]])

(* setPack, resetCollection: the shelf of the evening. *)
SetPack == /\ At("identity")
           /\ \E s \in Collection : Commit([draft EXCEPT !.collection = s])

IdentityReady(p) ==
    p.hero # NoHero /\ Cardinality(p.aspects) = AspectCount[p.hero]

(* confirmIdentity: the next player's page; after the last, the table, when *)
(* the shelf can fill the decks and, sealed, every pool.                    *)
ConfirmIdentity ==
    LET stocked == [draft EXCEPT !.stock = draft.collection] IN
    /\ At("identity") /\ IdentityReady(Current(draft))
    /\ \/ /\ draft.current < Seated(draft) - 1
          /\ \E d \in PrepareIdentity([draft EXCEPT !.current = @ + 1]) : Commit(d)
       \/ /\ draft.current = Seated(draft) - 1
          /\ draft.format = "draft" /\ Enough(stocked, draft.collection)
          /\ \E d \in Start(stocked) : Commit(d)
       \/ /\ draft.current = Seated(draft) - 1
          /\ draft.format = "sealed" /\ Enough(stocked, draft.collection)
          /\ \E d \in DealSealed(stocked) :
                 /\ \A i \in Seats(d) : Total(d.pools[i], Card) = SealedSize
                 /\ Commit(d)

-----------------------------------------------------------------------------
(* The table. *)

TakeCard == AtTable /\ \E c \in draft.offer : \E d \in Pick(draft, c) : Commit(d)

(* stopHere, offered when nothing is on the table. *)
StopHere == /\ AtTable /\ draft.offer = {}
            /\ \E d \in SkipCurrent(draft) :
                   Commit([d EXCEPT !.short = @ \cup {draft.current}])

-----------------------------------------------------------------------------
(* Sealed boosters. *)

OpenOne == /\ AtBoosters /\ draft.opened[draft.current] < BoosterCount
           /\ Commit(OpenBooster(draft))

OpenAll == /\ AtBoosters /\ draft.opened[draft.current] < BoosterCount
           /\ Commit(OpenAllBoosters(draft))

StartBuilding ==
    /\ AtBoosters /\ ~ draft.building[draft.current]
    /\ draft.opened[draft.current] = BoosterCount
    /\ Commit(BuildSealedDeck(draft))

AddCard ==
    /\ AtBoosters /\ draft.building[draft.current]
    /\ \E c \in Card :
           /\ Selectable(draft, c)
           /\ Commit(WithPicks(draft, Plus(Current(draft).picks, c)))

RemoveCard ==
    /\ AtBoosters /\ draft.building[draft.current]
    /\ \E c \in Held(Current(draft).picks) :
           Commit(WithPicks(draft, Minus(Current(draft).picks, c)))

(* confirmSealed. *)
ConfirmSealed ==
    /\ AtBoosters /\ draft.building[draft.current] /\ IsFull(Current(draft))
    /\ Commit(IF draft.current < Seated(draft) - 1
                THEN [draft EXCEPT !.current = @ + 1]
                ELSE [draft EXCEPT !.phase = "finish"])

Revise == /\ At("finish") /\ draft.format = "sealed" /\ ~ Saving
          /\ Commit([draft EXCEPT !.phase = "pick", !.current = 0])

-----------------------------------------------------------------------------
(* The end. *)

(* finish: every deck of the size at least, and legal, or none is saved. *)
Finish ==
    /\ At("finish") /\ ~ Saving
    /\ \A i \in Seats(draft) : Legal(draft.players[i])
    /\ writes' = Append(writes, [kind |-> "save", draft |-> draft])
    /\ UNCHANGED <<draft, open, row, saved, late, faults>>

(* A name typed on the finish page, which no save under way holds back. *)
Rename == At("finish") /\ Commit(draft)

(* abandon, confirmed. *)
Abandon ==
    /\ open /\ draft # NoDraft /\ Ahead
    /\ writes' = Append(writes, [kind |-> "clear", draft |-> draft])
    /\ UNCHANGED <<draft, open, row, saved, late, begun, faults>>

-----------------------------------------------------------------------------
(* The disk. *)

(* Mutant: the decks are saved, and the row is left for later. *)
RowKeptBySave(w) == IF w.kind = "clear" THEN NoDraft ELSE w.draft

RowAfter(w) == IF w.kind = "put" THEN w.draft ELSE NoDraft

(* The oldest write is done; the page waits for a save and for a clear, and *)
(* then shows no draft.                                                     *)
Written ==
    /\ writes # <<>>
    /\ LET w == Head(writes) IN
       /\ row' = RowAfter(w)
       /\ saved' = IF w.kind = "save" THEN [saved EXCEPT ![w.draft.id] = @ + 1] ELSE saved
       /\ draft' = IF w.kind = "put" THEN draft ELSE NoDraft
    /\ writes' = Tail(writes)
    /\ UNCHANGED <<open, late, begun, faults>>

(* The disk refuses a write: of the decks it is said, of the row it is not. *)
Refused ==
    /\ writes # <<>> /\ faults < MaxFaults
    /\ writes' = Tail(writes)
    /\ faults' = faults + 1
    /\ UNCHANGED <<draft, open, row, saved, late, begun>>

(* The page is closed, with what it was still writing. *)
Close == /\ open /\ faults < MaxFaults
         /\ open' = FALSE /\ draft' = NoDraft /\ writes' = <<>>
         /\ faults' = faults + 1
         /\ UNCHANGED <<row, saved, late, begun>>

(* loadDraft. *)
Open == /\ ~ open
        /\ open' = TRUE /\ draft' = row
        /\ UNCHANGED <<row, writes, saved, late, begun, faults>>

-----------------------------------------------------------------------------
Table == TakeCard \/ StopHere

Next == \/ Begin \/ ChooseHero \/ DrawAgain \/ ChooseAspects \/ SetDeckSize
        \/ SetPack \/ ConfirmIdentity
        \/ Table
        \/ OpenOne \/ OpenAll \/ StartBuilding \/ AddCard \/ RemoveCard
        \/ ConfirmSealed \/ Revise
        \/ Finish \/ Rename \/ Abandon
        \/ Written \/ Refused \/ Close \/ Open

Spec == Init /\ [][Next]_vars

(* At a table somebody goes on, and the disk answers.  TableReady is when   *)
(* Table is enabled: a card can be taken or the player can stop.            *)
TableReady == /\ open /\ draft # NoDraft /\ draft.phase = "pick"
              /\ draft.format = "draft" /\ Ahead

LiveSpec == /\ Spec /\ WF_vars(Written)
            /\ []<>~TableReady \/ []<><<Table>>_vars

-----------------------------------------------------------------------------
Player == [hero : Hero \cup {NoHero}, aspects : SUBSET Aspect,
           size : 0 .. MaxDeck, picks : [Card -> Nat]]

DraftOK(d) ==
    /\ d.format \in Format /\ d.phase \in {"identity", "pick", "finish"}
    /\ d.collection \in Collection
    /\ d.current \in Seats(d)
    /\ \A i \in Seats(d) :
           /\ d.players[i] \in Player
           /\ \A k \in DOMAIN d.packs[i] : d.packs[i][k] \in kSubset(OfferSize, Card)
           /\ d.opened[i] \in 0 .. BoosterCount
    /\ d.stock \in [Card -> Nat]
    /\ d.offer \subseteq Card

(* Two players never share a hero, however often identities are redrawn or  *)
(* changed (availableHeroes).                                               *)
HeroesDistinct ==
    draft # NoDraft =>
        \A i, j \in Seats(draft) :
            i # j /\ draft.players[i].hero # NoHero =>
                draft.players[i].hero # draft.players[j].hero

(* A draft is what it should be, on the page, on disk and on its way there; *)
(* a pack still sealed is a full one.                                       *)
TypeOK == /\ draft = NoDraft \/ DraftOK(draft)
          /\ row = NoDraft \/ DraftOK(row)
          /\ \A k \in DOMAIN writes :
                /\ writes[k].kind \in {"put", "save", "clear"}
                /\ DraftOK(writes[k].draft)
          /\ saved \in [1 .. MaxDrafts -> Nat]

(* One physical copy is in one place.  Once the table is set, the copies of *)
(* a card on the shelf, in sealed packs, on the table and in decks (sealed: *)
(* on the shelf and in pools) are those of the collection, no more, no less;*)
(* and a sealed deck holds no copy its boosters did not.                    *)
Conserved ==
    draft # NoDraft /\ draft.phase # "identity" =>
        \A c \in Card :
            LET Picked(i) == draft.players[i].picks[c]
                Sealed(i) == Cardinality({k \in DOMAIN draft.packs[i] :
                                              c \in draft.packs[i][k]})
                Pooled(i) == draft.pools[i][c]
                Sum(Op(_)) == SumFunction([i \in Seats(draft) |-> Op(i)])
            IN  IF draft.format = "sealed"
                THEN /\ draft.stock[c] + Sum(Pooled) = draft.collection[c]
                     /\ \A i \in Seats(draft) : Picked(i) <= Pooled(i)
                ELSE draft.stock[c] + Sum(Picked) + Sum(Sealed)
                         + (IF c \in draft.offer THEN 1 ELSE 0) = draft.collection[c]

(* One card in one place and one hero at one seat, in a well-formed draft.  *)
CopiesConserved == TypeOK /\ HeroesDistinct /\ Conserved

(* The table never shows a card the player's deck cannot take, although the *)
(* packs were built before the picks; and it is only empty when the shelf   *)
(* has nothing for them either.                                             *)
OfferHonest ==
    draft # NoDraft /\ draft.phase = "pick" /\ draft.format = "draft" =>
        /\ ~ IsFull(Current(draft))
        /\ \A c \in draft.offer : CanTake(Current(draft), c)
        /\ draft.offer = {} => LegalOffers(draft) = {}

(* A deck nobody stopped short is legal when the finish page comes, balance *)
(* included: "an illegal one here is a bug".                                *)
FullDecksLegal ==
    draft # NoDraft /\ draft.phase = "finish" =>
        \A i \in Seats(draft) \ draft.short : Legal(draft.players[i])

(* The decks of a draft are saved once, whatever page is closed or write    *)
(* refused on the way, unless a name is typed while they are being saved:   *)
(* that write comes after the one that clears the row, so the draft is back *)
(* when the page is next opened and can be saved again.                     *)
SavedOnce == \A id \in 1 .. MaxDrafts : id \in late \/ saved[id] <= 1

(* Whoever goes on drafting comes to the finish page: turns pass over full  *)
(* decks, shelves run out, players stop short, and it ends.                 *)
DraftEnds == draft # NoDraft /\ draft.phase = "pick" /\ draft.format = "draft"
                 ~> draft = NoDraft \/ draft.phase # "pick"
=============================================================================

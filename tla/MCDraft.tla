------------------------------ MODULE MCDraft ------------------------------
(* A small shelf: two cards of an aspect, one of them unique, one of a      *)
(* second aspect and one basic, "max 1 per deck".  One identity plays one   *)
(* aspect, the other both of them, balanced and one copy of each card.      *)
EXTENDS Draft, TLC

CONSTANTS hero, warlock, c1, c2, c3, c4, A, B, none

MCFactionOf == (c1 :> A) @@ (c2 :> A) @@ (c3 :> B) @@ (c4 :> Basic)
MCTitleOf == [c \in Card |-> c]
MCDeckLimit == (c1 :> 2) @@ (c2 :> 1) @@ (c3 :> 2) @@ (c4 :> 1)
MCAspectCount == (hero :> 1) @@ (warlock :> 2)
MCLimitOverride == (hero :> none) @@ (warlock :> 1)
MCOwn == (hero :> {c3}) @@ (warlock :> {})
MCOwnLimit == (hero :> 1) @@ (warlock :> 0)
MCPlayable == [h \in Hero |-> Card]
MCTitleOfHero == [h \in Hero |-> h]
MCSignatureCount == [h \in Hero |-> 1]
MCCollection == {(c1 :> 2) @@ (c2 :> 2) @@ (c3 :> 2) @@ (c4 :> 1)}
=============================================================================

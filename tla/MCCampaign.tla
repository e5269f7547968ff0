----------------------------- MODULE MCCampaign -----------------------------
(* A campaign in the shape of Fear No Evil: two jobs and a finale, places   *)
(* pushed at every rotation, a villain per job, a market.                   *)
EXTENDS Campaign, TLC

CONSTANTS s1, s2, fin, h1, d1, d2, v1, v2, m1, m2, card, other, credits, p1, p2, boost,
          clean, roles, mission

MCCounter == {credits, p1, p2, boost}
Group(max) == [hero |-> FALSE, initial |-> 0, min |-> 0, max |-> max, reset |-> FALSE]

Always == [all |-> {}, any |-> {}]
OneMore(c) == [op |-> "add", of |-> c, value |-> 1, fromAnswer |-> FALSE, divideBy |-> 1,
               min |-> 0, max |-> 9, when |-> Always]
Marked == [op |-> "flag", of |-> clean, fromAnswer |-> TRUE, perScenario |-> TRUE,
           when |-> Always]
Spent == [op |-> "card", of |-> roles, source |-> "drawn", draw |-> mission, when |-> Always]

Choose == <<[to |-> "choose", when |-> Always]>>
Reward == <<OneMore(credits), Marked, Spent>>
Job(p) == [won \in BOOLEAN |->
    IF won THEN [effects |-> Reward, onContinue |-> <<>>, next |-> Choose]
    ELSE [effects |-> <<>>, onContinue |-> <<OneMore(p)>>, next |-> Choose]]
Last == [won \in BOOLEAN |->
    IF won THEN [effects |-> <<OneMore(credits)>>, onContinue |-> <<>>,
                 next |-> <<[to |-> "end", when |-> Always]>>]
    ELSE [effects |-> <<>>, onContinue |-> <<>>, next |->
            <<[to |-> "lose", when |-> [all |-> {}, any |-> {[is |-> "flag", of |-> clean, not |-> TRUE]}]]>>]]

NoAction == [id |-> None, perHero |-> FALSE, repeatable |-> FALSE]
Boost == [id |-> boost, perHero |-> FALSE, repeatable |-> FALSE, counter |-> p2, cost |-> 0,
          gives |-> boost, enabledWhen |-> Always, effects |-> <<OneMore(boost)>>]

Box(limit, cruel) ==
    [counters |-> [c \in MCCounter |->
        IF c = credits THEN [Group(9) EXCEPT !.hero = TRUE, !.min = -9]
        ELSE Group(IF c = boost THEN 3 ELSE 2)],
     chooseFirst |-> FALSE, start |-> s1, finale |-> fin,
     villains |-> {v1, v2}, environments |-> {s1, s2},
     pressure |-> (s1 :> p1 @@ s2 :> p2),
     failedWhen |-> [s \in {s1, s2, fin} |->
        IF s = fin THEN {}
        ELSE {[is |-> "atLeast", of |-> IF s = s1 THEN p1 ELSE p2, bound |-> limit, not |-> FALSE]}],
     losesWhenScenarioFails |-> cruel,
     outcome |-> (s1 :> Job(p1) @@ s2 :> Job(p2) @@ fin :> Last),
     draws |-> [s \in {s1, s2, fin} |->
        IF s = s1 THEN {[id |-> mission, from |-> {m1, m2}, count |-> 2, excluding |-> roles,
                         perHero |-> FALSE, counts |-> [c \in {m1, m2} |-> None]]} ELSE {}],
     action |-> [s \in {s1, s2, fin} |-> IF s = s1 THEN Boost ELSE NoAction],
     market |-> (card :> 1 @@ other :> 1), credits |-> credits]

MCTemplate == Box(2, FALSE)

MCReply(Y, E) == [yes |-> Y, heroYes |-> {}, number |-> 0, cards |-> {}, eliminated |-> E]
MCAnswer == {MCReply({}, {}), MCReply({clean}, {}), MCReply({}, {h1})}

Symmetry == Permutations({d1, d2}) \cup Permutations({v1, v2}) \cup Permutations({card, other})
=============================================================================

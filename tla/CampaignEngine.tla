--------------------------- MODULE CampaignEngine ---------------------------
(***************************************************************************)
(* What a campaign's log means: web/src/lib/campaign engine.ts (the fold), *)
(* conditions.ts, deal.ts and rules.ts.  All of it is pure: an event log   *)
(* and a template go in, the state of the campaign comes out.              *)
(*                                                                         *)
(* A template is data; the module is parameterised by one.  Card codes,    *)
(* counters, flags and lists are model values, texts and clocks left out.  *)
(***************************************************************************)
EXTENDS Integers, Sequences, FiniteSets

CONSTANTS Scenario, Hero, Card,
          Counter, Flag, List,   \* ids the template declares
          Draw,                  \* ids of its setup draws
          VillainDraw,           \* VILLAIN_DRAW_ID, not one of Draw
          None,                  \* null
          Template

IsList(s) == s \in Seq({s[i] : i \in DOMAIN s})

(* What a template of the repository is: it refers to its own ids, and none *)
(* of its setup draws is the one that notes the villain.                    *)
ASSUME TemplateAssumption ==
    /\ VillainDraw \notin Draw
    /\ {Template.start, Template.finale} \subseteq Scenario
    /\ \A s \in Scenario :
          /\ \A def \in Template.draws[s] : def.id \in Draw
          /\ Template.action[s].id # None => IsList(Template.action[s].effects)
          /\ \A won \in BOOLEAN :
                LET outcome == Template.outcome[s][won]
                IN  /\ IsList(outcome.effects) /\ IsList(outcome.onContinue)
                    /\ IsList(outcome.next)
                    /\ \A i \in DOMAIN outcome.next :
                          /\ outcome.next[i].to \in {"stay", "goto", "end", "lose", "choose"}
                          /\ outcome.next[i].to = "goto" =>
                                outcome.next[i].scenario \in Scenario

(* A counter of the whole group, or one per hero.                           *)
IsHeroScoped(c) == Template.counters[c].hero

EmptyState ==
    [started |-> FALSE, finished |-> FALSE, lost |-> FALSE,
     current |-> None, awaiting |-> FALSE,
     offer |-> {}, picked |-> FALSE,
     counters |-> [c \in Counter |-> 0],
     heroCounters |-> [c \in Counter |-> [h \in Hero |-> 0]],
     flags |-> {}, lists |-> [l \in List |-> {}],
     heroLists |-> [l \in List |-> [h \in Hero |-> {}]],
     eliminated |-> [s \in Scenario |-> {}],
     draws |-> [s \in Scenario |->
                   [d \in Draw \cup {VillainDraw} |->
                       [h \in Hero \cup {None} |-> {}]]],
     completed |-> <<>>, taken |-> {}, purchases |-> {}]

NoAnswers == [yes |-> {}, heroYes |-> {}, number |-> 0, cards |-> {}]

-----------------------------------------------------------------------------
(* A test of a condition, for the scenario s, the answers A and possibly a  *)
(* hero h.  `not' negates; a test about a hero fails when there is none.    *)
Held(S, t, s, A, h) ==
    \/ t.is = "answer"  /\ t.of \in A.yes
    \/ t.is = "hero"    /\ h \in A.heroYes
    \/ t.is = "flag"    /\ {<<t.of, s>>, <<t.of, None>>} \cap S.flags # {}
    \/ t.is = "drawn"   /\ s # None /\ t.of \in S.draws[s][t.draw][None]
    \/ t.is = "listed"  /\ t.of \in S.lists[t.list]
    \/ t.is = "atLeast" /\ t.bound <= IF IsHeroScoped(t.of) /\ h # None
                                         THEN S.heroCounters[t.of][h]
                                         ELSE S.counters[t.of]

Test(S, t, s, A, h) == /\ Held(S, t, s, A, h) # t.not
                       /\ t.is = "hero" => h # None

(* evaluate: every test holds, and one of the alternatives if there are any;*)
(* no condition at all is true.                                             *)
Evaluate(S, c, s, A, h) ==
    /\ \A t \in c.all : Test(S, t, s, A, h)
    /\ c.any # {} => \E t \in c.any : Test(S, t, s, A, h)

-----------------------------------------------------------------------------
Within(lo, x, hi) == IF x < lo THEN lo ELSE IF x > hi THEN hi ELSE x

Clamp(c, x) == Within(Template.counters[c].min, x, Template.counters[c].max)

(* resolveValue: the answer if the effect reads one, divided, then capped.  *)
ResolveValue(e, A) ==
    Within(e.min, (IF e.fromAnswer THEN A.number ELSE e.value) \div e.divideBy, e.max)

Moved(op, old, x) == CASE op = "add"      -> old + x
                       [] op = "subtract" -> old - x
                       [] op = "set"      -> x

(* Mutant: the eliminated are rewarded with the others. *)
EveryTarget(S, s, acting) == IF acting # None THEN {acting} ELSE Hero

(* The heroes a per-hero effect reaches: the one acting, or all but those   *)
(* eliminated in this scenario.                                             *)
Targets(S, s, acting) == IF acting # None THEN {acting} ELSE Hero \ S.eliminated[s]

(* A per-hero change only ever adds or sets: a subtraction adds.            *)
ApplyPerHeroCounter(S, e, s, A, acting) ==
    [S EXCEPT !.heroCounters[e.of] = [h \in Hero |->
        IF h \in Targets(S, s, acting) /\ Evaluate(S, e.when, s, A, h)
           THEN Clamp(e.of, Moved(IF e.op = "set" THEN "set" ELSE "add",
                                  @[h], ResolveValue(e, A)))
           ELSE @[h]]]

ApplyCounter(S, e, s, A, acting) ==
    IF IsHeroScoped(e.of) THEN ApplyPerHeroCounter(S, e, s, A, acting)
    ELSE IF ~Evaluate(S, e.when, s, A, acting) THEN S
    ELSE [S EXCEPT !.counters[e.of] = Clamp(e.of, Moved(e.op, @, ResolveValue(e, A)))]

(* A switch never touched is not in the answers, and means no.              *)
ApplyFlag(S, e, s, A) ==
    LET flag == <<e.of, IF e.perScenario THEN s ELSE None>>
    IN  [S EXCEPT !.flags = IF e.fromAnswer /\ e.of \notin A.yes
                               THEN @ \ {flag} ELSE @ \cup {flag}]

(* addcard, addcardsfromanswer and adddrawncard: where the cards come from. *)
CardsOf(S, e, s, A) == CASE e.source = "printed" -> {e.card}
                         [] e.source = "answer"  -> A.cards
                         [] e.source = "drawn"   ->
                               UNION {S.draws[s][e.draw][h] : h \in Hero \cup {None}}

ApplyCards(S, e, s, A, acting) ==
    IF acting # None /\ e.source = "printed"
       THEN [S EXCEPT !.heroLists[e.of][acting] = @ \cup CardsOf(S, e, s, A)]
       ELSE [S EXCEPT !.lists[e.of] = @ \cup CardsOf(S, e, s, A)]

ApplyEffect(S, e, s, A, acting) ==
    IF e.op \in {"add", "subtract", "set"} THEN ApplyCounter(S, e, s, A, acting)
    ELSE IF e.op = "eliminate" THEN
            IF acting = None THEN S ELSE [S EXCEPT !.eliminated[s] = @ \cup {acting}]
    ELSE IF ~Evaluate(S, e.when, s, A, acting) THEN S
    ELSE IF e.op = "flag" THEN ApplyFlag(S, e, s, A)
    ELSE ApplyCards(S, e, s, A, acting)

ApplyEffects(S, effects, s, A, acting) ==
    LET after[i \in 0..Len(effects)] ==
            IF i = 0 THEN S ELSE ApplyEffect(after[i-1], effects[i], s, A, acting)
    IN  after[Len(effects)]

-----------------------------------------------------------------------------
(* The pieces of the fold, one per type of event.                           *)

ApplyStart(S, e) ==
    [EmptyState EXCEPT
        !.started = TRUE,
        !.awaiting = Template.chooseFirst,
        !.current = IF Template.chooseFirst THEN None ELSE Template.start,
        !.counters = [c \in Counter |->
            IF IsHeroScoped(c) THEN 0 ELSE Template.counters[c].initial],
        !.heroCounters = [c \in Counter |-> [h \in Hero |->
            IF IsHeroScoped(c) THEN Template.counters[c].initial ELSE 0]]]

OutcomeOf(e) == Template.outcome[e.scenario][e.victory]

(* `next' is a guarded list evaluated in order; without a match the run     *)
(* stays where it is.                                                       *)
ResolveNext(S, outcome, s, A) ==
    LET open == {i \in DOMAIN outcome.next : Evaluate(S, outcome.next[i].when, s, A, None)}
    IN  IF open = {} THEN [to |-> "stay"]
        ELSE outcome.next[CHOOSE i \in open : \A j \in open : i <= j]

(* Mutant: a replay finds none of its draws. *)
ReplayedNothing(draws, s) == [d \in DOMAIN draws |-> [h \in Hero \cup {None} |-> {}]]

(* A replay deals the setup again; what the campaign assigned outside the   *)
(* setup is kept.                                                           *)
ReplayedDraws(draws, s) ==
    [d \in DOMAIN draws |-> IF \E def \in Template.draws[s] : def.id = d
                               THEN [h \in Hero \cup {None} |-> {}] ELSE draws[d]]

(* What a result changes whatever its effects, and where it leads.          *)
Settle(S, e, id, next) ==
    [S EXCEPT
        !.completed = Append(@, [event |-> id, scenario |-> e.scenario,
                                 victory |-> e.victory]),
        !.draws[e.scenario] = ReplayedDraws(@, e.scenario),
        !.taken = {a \in @ : a.scenario # e.scenario},
        !.counters = [c \in Counter |-> IF Template.counters[c].reset
                                        THEN Template.counters[c].initial ELSE @[c]],
        !.current = CASE next.to = "stay" -> e.scenario
                      [] next.to = "goto" -> next.scenario
                      [] next.to \in {"end", "lose", "choose"} -> None,
        !.finished = next.to \in {"end", "lose"},
        !.lost = @ \/ next.to = "lose",
        !.awaiting = next.to = "choose",
        !.picked = FALSE]

ApplyScenario(S, e, id) ==
    LET T == ApplyEffects([S EXCEPT !.eliminated[e.scenario] = e.answers.eliminated],
                          OutcomeOf(e).effects, e.scenario, e.answers, None)
    IN  Settle(T, e, id, ResolveNext(T, OutcomeOf(e), e.scenario, e.answers))

(* The counters the cards of a draw feed.                                   *)
Counted(counters, counts, cards, n) ==
    [c \in Counter |-> LET k == Cardinality({x \in cards : counts[x] = c})
                       IN  IF k = 0 THEN counters[c] ELSE Clamp(c, counters[c] + k * n)]

DefinitionOf(s, d) == CHOOSE def \in Template.draws[s] : def.id = d

ApplyDraw(S, e) ==
    LET T == [S EXCEPT !.draws[e.scenario][e.draw][e.hero] = e.cards]
    IN  IF e.draw = VillainDraw THEN T
        ELSE [T EXCEPT !.counters =
                 Counted(@, DefinitionOf(e.scenario, e.draw).counts, e.cards, 1)]

Failed(S, s) == \E t \in Template.failedWhen[s] : Test(S, t, s, NoAnswers, None)

Settled(S) == {S.completed[i].scenario : i \in DOMAIN S.completed}

Won(S) == {S.completed[i].scenario : i \in {j \in DOMAIN S.completed : S.completed[j].victory}}

(* Two places take one tick each, a lone one two; a place still in play     *)
(* that is pushed to its limit takes the campaign with it.                  *)
ApplyEnvironmentOffer(S, e) ==
    LET T == [S EXCEPT
                 !.counters = Counted(@, Template.pressure, e.cards,
                                      IF Cardinality(e.cards) = 1 THEN 2 ELSE 1),
                 !.offer = e.cards]
        fallen == \E s \in Scenario \ Settled(T) : Failed(T, s)
    IN  IF Template.losesWhenScenarioFails /\ fallen
           THEN [T EXCEPT !.lost = TRUE, !.finished = TRUE] ELSE T

(* The fold does not look at what is left, nor at who already has the card. *)
ApplyPurchase(S, e, id) ==
    [S EXCEPT !.heroCounters[Template.credits][e.hero] = @ - Template.market[e.card],
              !.purchases = @ \cup {[event |-> id, hero |-> e.hero, card |-> e.card]}]

(* setupActionsTaken: this attempt at the scenario has had it.              *)
AlreadyTaken(S, a) == a \in S.taken

ApplySetupAction(S, e) ==
    LET action == Template.action[e.scenario]
        a      == [scenario |-> e.scenario, hero |-> e.hero]
        T      == IF e.hero # None
                     THEN [S EXCEPT !.heroCounters[action.counter][e.hero] = @ - action.cost]
                     ELSE [S EXCEPT !.counters[action.counter] = @ - action.cost]
    IN  IF \/ ~action.repeatable /\ AlreadyTaken(S, a)
           \/ ~Evaluate(S, action.enabledWhen, e.scenario, NoAnswers, e.hero)
           \/ action.perHero /\ e.hero \notin Hero
        THEN S
        ELSE [ApplyEffects(T, action.effects, e.scenario, NoAnswers, e.hero)
                 EXCEPT !.taken = @ \cup {a}]

(* Moving on from a result the table could have reconsidered.               *)
ApplyContinued(S, e) ==
    ApplyEffects(S, OutcomeOf(e).onContinue, e.scenario, NoAnswers, None)

(* A correction by hand writes the number as it is.                         *)
ApplyManual(S, e) ==
    IF e.hero # None THEN [S EXCEPT !.heroCounters[e.counter][e.hero] = e.value]
                     ELSE [S EXCEPT !.counters[e.counter] = e.value]

Apply(S, e, id) ==
    CASE e.type = "setup"                -> ApplyStart(S, e)
      [] e.type = "scenario_result"      -> ApplyScenario(S, e, id)
      [] e.type = "purchase"             -> ApplyPurchase(S, e, id)
      [] e.type = "setup_action"         -> ApplySetupAction(S, e)
      [] e.type = "continued"            -> ApplyContinued(S, e)
      [] e.type = "setup_draw"           -> ApplyDraw(S, e)
      [] e.type = "setup_choice"         ->
            [S EXCEPT !.draws[e.scenario][e.draw][e.hero] = e.cards]
      [] e.type = "environments_offered" -> ApplyEnvironmentOffer(S, e)
      [] e.type = "environment_chosen"   -> [S EXCEPT !.offer = {}, !.picked = TRUE]
      [] e.type = "campaign_conceded"    ->
            [S EXCEPT !.lost = TRUE, !.finished = TRUE, !.awaiting = FALSE]
      [] e.type = "scenario_chosen"      ->
            [S EXCEPT !.current = e.scenario, !.awaiting = FALSE]
      [] e.type = "manual"               -> ApplyManual(S, e)
      [] e.type \in {"revoke", "purchase_refund"} -> S

(* Revocations and refunds apply first, however late they were appended.    *)
Withdrawn(events, L, i) ==
    \E j \in L : events[j].type \in {"revoke", "purchase_refund"} /\ events[j].target = i

(* The log L is a set of positions in `events', which is in the order of    *)
(* the timestamps.                                                          *)
Fold(events, L) ==
    LET state[i \in 0..Len(events)] ==
            IF i = 0 THEN EmptyState
            ELSE IF i \in L /\ ~Withdrawn(events, L, i)
                    THEN Apply(state[i-1], events[i], i) ELSE state[i-1]
    IN  state[Len(events)]

-----------------------------------------------------------------------------
(* deal.ts and rules.ts: what the campaign owes the table.                  *)

(* The cards a draw may come up with: those not spent, or all of them again.*)
DrawPool(S, def) ==
    LET left == def.from \ (IF def.excluding = None THEN {} ELSE S.lists[def.excluding])
    IN  IF left = {} THEN def.from ELSE left

Hands(pool, n) ==
    {H \in SUBSET pool : Cardinality(H) = IF Cardinality(pool) < n THEN Cardinality(pool) ELSE n}

(* setupDrawsFor: what the current scenario calls for and has not had.      *)
DrawsOwed(S) ==
    IF S.current = None THEN {}
    ELSE {dh \in {<<def, h>> : def \in Template.draws[S.current], h \in Hero \cup {None}} :
             /\ dh[1].perHero = (dh[2] # None)
             /\ S.draws[S.current][dh[1].id][dh[2]] = {}}

(* villainAssignmentFor: one of those no job has yet, or any if none is     *)
(* left; nothing for the finale, or when one was noted.                     *)
VillainsFor(S) ==
    LET spent == UNION {S.draws[s][VillainDraw][None] : s \in Scenario}
    IN  IF \/ S.current \in {None, Template.finale}
           \/ S.draws[S.current][VillainDraw][None] # {} THEN {}
        ELSE IF Template.villains \subseteq spent THEN Template.villains
        ELSE Template.villains \ spent

(* Mutant: a job played and lost is struck off. *)
ChoosableUnplayed(S) ==
    LET open == {s \in Scenario \ (Settled(S) \cup {Template.finale}) : ~Failed(S, s)}
    IN  IF open # {} THEN open ELSE {Template.finale} \ Won(S)

(* Mutant: the finale waits for a job that can no longer be won. *)
ChoosableWhenAllWon(S) ==
    LET open == {s \in Scenario \ (Won(S) \cup {Template.finale}) : ~Failed(S, s)}
    IN  IF Scenario \ {Template.finale} \subseteq Won(S) THEN {Template.finale} \ Won(S) ELSE open

(* choosableScenarios: neither won nor fallen, and the finale when nothing  *)
(* else is left.                                                            *)
Choosable(S) ==
    LET open == {s \in Scenario \ (Won(S) \cup {Template.finale}) : ~Failed(S, s)}
    IN  IF open # {} THEN open ELSE {Template.finale} \ Won(S)

(* environmentOfferFor: the hands that may be dealt, none when nothing is   *)
(* owed.                                                                    *)
OffersFor(S) ==
    LET standing == Template.environments \cap (Choosable(S) \ {Template.finale})
    IN  IF ~S.awaiting \/ S.lost \/ S.offer # {} \/ S.picked \/ standing = {} THEN {}
        ELSE IF Cardinality(standing) = 1 THEN {standing} ELSE Hands(standing, 2)

(* Mutant: what a hero can pay is not asked. *)
CanBuyOnCredit(S, h, c) == \A p \in S.purchases : p.card # c

(* offersFor: one copy of a card in the whole group, credits per hero.      *)
CanBuy(S, h, c) == /\ \A p \in S.purchases : p.card # c
                   /\ S.heroCounters[Template.credits][h] >= Template.market[c]
=============================================================================

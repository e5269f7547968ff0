--------------------------- MODULE CampaignProofs ---------------------------
(***************************************************************************)
(* What a campaign's fold keeps, whatever the log, the template and the    *)
(* number of devices: the villain noted for a job is changed by nothing    *)
(* but another deal.                                                       *)
(*                                                                         *)
(* The first part is about the engine: what one event does to a state, and *)
(* what the folds of two logs have in common.  The second is about what    *)
(* the pages may append, and follows from what they have folded.           *)
(***************************************************************************)
EXTENDS Campaign, SumTheorems

-----------------------------------------------------------------------------
(* Events and states that make sense together.                              *)

EventTypes == {"scenario_result", "purchase", "setup_action", "continued", "setup_draw",
               "setup_choice", "environments_offered", "environment_chosen",
               "campaign_conceded", "scenario_chosen", "manual", "revoke",
               "purchase_refund"}

(* An event that may follow the log ev: it is about a scenario of the       *)
(* template, notes no villain unless it is a deal, and takes back nothing   *)
(* but a concession or a purchase.                                          *)
Sensible(e, ev) ==
    /\ e.type \in EventTypes
    /\ e.type \in {"scenario_result", "scenario_chosen", "continued", "setup_action"}
          => e.scenario \in Scenario
    /\ e.type \in {"scenario_result", "continued"} => e.victory \in BOOLEAN
    /\ e.type = "setup_action" => Template.action[e.scenario].id # None
    /\ e.type = "setup_choice" => e.draw # VillainDraw
    /\ e.type \in {"revoke", "purchase_refund"}
          => /\ e.target \in DOMAIN ev
             /\ ev[e.target].type \in {"campaign_conceded", "purchase"}

(* The first event, and no other, starts the campaign.                      *)
LogSound(ev) ==
    /\ IsList(ev)
    /\ \A i \in DOMAIN ev : \/ i = 1 /\ ev[i].type = "setup"
                            \/ Sensible(ev[i], ev)

Results == [event : Nat, scenario : Scenario, victory : BOOLEAN]

Fields == {"draws", "purchases", "current", "completed"}

Villain(S, s) == S.draws[s][VillainDraw]

(* A state some log of these events may fold to.                            *)
Sane(S, ev) ==
    /\ Fields \subseteq DOMAIN S
    /\ DOMAIN S.draws = Scenario
    /\ \A s \in Scenario : VillainDraw \in DOMAIN S.draws[s]
    /\ S.current \in Scenario \cup {None}
    /\ S.completed \in Seq(Results)
    /\ \A p \in S.purchases : p.event \in DOMAIN ev /\ ev[p.event].type = "purchase"

(* T has what S has of all that.                                            *)
Leaves(S, T) ==
    /\ Fields \subseteq DOMAIN T
    /\ T.draws = S.draws /\ T.purchases = S.purchases
    /\ T.current = S.current /\ T.completed = S.completed

LEMMA LeavesSane ==
  ASSUME NEW S, NEW T, NEW ev, Sane(S, ev), Leaves(S, T)
  PROVE  Sane(T, ev) /\ \A s \in Scenario : Villain(T, s) = Villain(S, s)
  BY DEF Sane, Leaves, Villain

LEMMA LeavesTwice ==
  ASSUME NEW S, NEW T, NEW U, Leaves(S, T), Leaves(T, U)
  PROVE  Leaves(S, U)
  BY DEF Leaves

-----------------------------------------------------------------------------
(* Effects change counters, flags and lists, and never the draws.           *)
LEMMA EffectLeaves ==
  ASSUME NEW S, Fields \subseteq DOMAIN S, NEW e, NEW s, NEW A, NEW acting
  PROVE  Leaves(S, ApplyEffect(S, e, s, A, acting))
<1>1. Leaves(S, S)
  BY DEF Leaves
<1>2. Leaves(S, ApplyCounter(S, e, s, A, acting))
  <2>1. Leaves(S, ApplyPerHeroCounter(S, e, s, A, acting))
    BY DEF Leaves, Fields, ApplyPerHeroCounter
  <2>2. Leaves(S, [S EXCEPT !.counters[e.of] =
                       Clamp(e.of, Moved(e.op, @, ResolveValue(e, A)))])
    BY DEF Leaves, Fields
  <2> QED
    BY <1>1, <2>1, <2>2 DEF ApplyCounter
<1>3. Leaves(S, [S EXCEPT !.eliminated[s] = @ \cup {acting}])
  BY DEF Leaves, Fields
<1>4. Leaves(S, ApplyFlag(S, e, s, A))
  BY DEF Leaves, Fields, ApplyFlag
<1>5. Leaves(S, ApplyCards(S, e, s, A, acting))
  BY DEF Leaves, Fields, ApplyCards
<1> QED
  BY <1>1, <1>2, <1>3, <1>4, <1>5 DEF ApplyEffect

EffectStep(S, effects, s, A, acting, f, i) ==
    IF i = 0 THEN S ELSE ApplyEffect(f[i-1], effects[i], s, A, acting)

EffectTable(S, effects, s, A, acting) ==
    CHOOSE f : f = [i \in 0..Len(effects) |-> EffectStep(S, effects, s, A, acting, f, i)]

LEMMA ApplyEffectsIs ==
  ASSUME NEW S, NEW effects, NEW s, NEW A, NEW acting
  PROVE  ApplyEffects(S, effects, s, A, acting)
           = EffectTable(S, effects, s, A, acting)[Len(effects)]
  BY DEF ApplyEffects, EffectTable, EffectStep

LEMMA EffectTableExists ==
  ASSUME NEW S, NEW effects, NEW s, NEW A, NEW acting, NEW m \in Nat
  PROVE  \E f : f = [i \in 0..m |-> EffectStep(S, effects, s, A, acting, f, i)]
<1> DEFINE N == {j \in Nat :
                    \E f : f = [i \in 0..j |-> EffectStep(S, effects, s, A, acting, f, i)]}
<1>1. 0 \in N
  <2> DEFINE f == [i \in 0..0 |-> S]
  <2>1. \A i \in 0..0 : EffectStep(S, effects, s, A, acting, f, i) = S
    BY DEF EffectStep
  <2>2. f = [i \in 0..0 |-> EffectStep(S, effects, s, A, acting, f, i)]
    BY <2>1
  <2> QED
    BY <2>2
<1>2. ASSUME NEW j \in Nat, j \in N
      PROVE  j + 1 \in N
  <2>1. PICK f : f = [i \in 0..j |-> EffectStep(S, effects, s, A, acting, f, i)]
    BY <1>2
  <2>2. PICK T : T = ApplyEffect(f[j], effects[j + 1], s, A, acting)
    OBVIOUS
  <2> DEFINE g == [i \in 0..(j + 1) |-> IF i = j + 1 THEN T ELSE f[i]]
  <2>3. \A i \in 0..j : g[i] = f[i]
    OBVIOUS
  <2>4. g[j + 1] = T /\ g = [i \in 0..(j + 1) |-> g[i]]
    OBVIOUS
  <2> HIDE DEF g
  <2>5. ASSUME NEW i \in 0..(j + 1)
        PROVE  g[i] = EffectStep(S, effects, s, A, acting, g, i)
    <3>1. CASE i \in 0..j
      <4>1. f[i] = EffectStep(S, effects, s, A, acting, f, i)
        BY <2>1, <3>1
      <4>2. i # 0 => i - 1 \in 0..j
        BY <3>1
      <4>3. g[i] = f[i] /\ (i # 0 => g[i - 1] = f[i - 1])
        BY <2>3, <3>1, <4>2
      <4> QED
        BY <4>1, <4>3 DEF EffectStep
    <3>2. CASE i = j + 1
      <4>1. i # 0 /\ i - 1 = j /\ j \in 0..j
        BY <3>2
      <4>2. g[i - 1] = f[j] /\ g[i] = T
        BY <2>3, <2>4, <3>2, <4>1
      <4> QED
        BY <2>2, <3>2, <4>1, <4>2 DEF EffectStep
    <3> QED
      BY <3>1, <3>2
  <2>6. g = [i \in 0..(j + 1) |-> EffectStep(S, effects, s, A, acting, g, i)]
    BY <2>4, <2>5
  <2> QED
    BY <2>6
<1> HIDE DEF N
<1>3. m \in N
  BY <1>1, <1>2, FromZeroUp
<1> QED
  BY <1>3 DEF N

LEMMA EffectsLeave ==
  ASSUME NEW S, Fields \subseteq DOMAIN S, NEW effects, IsList(effects),
         NEW s, NEW A, NEW acting
  PROVE  Leaves(S, ApplyEffects(S, effects, s, A, acting))
<1>1. PICK m \in Nat : m = Len(effects)
  BY DEF IsList
<1>2. PICK f : f = EffectTable(S, effects, s, A, acting)
  OBVIOUS
<1>3. f = [i \in 0..m |-> EffectStep(S, effects, s, A, acting, f, i)]
  BY <1>1, <1>2, EffectTableExists DEF EffectTable
<1> DEFINE G == {i \in Nat : i <= m => Leaves(S, f[i])}
<1>4. 0 \in G
  <2>1. f[0] = S
    BY <1>3 DEF EffectStep
  <2> QED
    BY <2>1 DEF Leaves
<1>5. ASSUME NEW i \in Nat, i \in G
      PROVE  i + 1 \in G
  <2>1. ASSUME i + 1 <= m
        PROVE  Leaves(S, f[i + 1])
    <3>1. Leaves(S, f[i])
      BY <1>5, <2>1
    <3>2. i + 1 \in 0..m /\ i + 1 # 0 /\ (i + 1) - 1 = i
      BY <2>1
    <3>3. f[i + 1] = EffectStep(S, effects, s, A, acting, f, i + 1)
      BY <1>3, <3>2
    <3>4. f[i + 1] = ApplyEffect(f[i], effects[i + 1], s, A, acting)
      BY <3>2, <3>3 DEF EffectStep
    <3>5. Leaves(f[i], f[i + 1])
      BY <3>1, <3>4, EffectLeaves DEF Leaves
    <3> QED
      BY <3>1, <3>5, LeavesTwice
  <2> QED
    BY <2>1
<1> HIDE DEF G
<1>6. m \in G
  BY <1>4, <1>5, FromZeroUp
<1>7. Leaves(S, f[m])
  BY <1>6 DEF G
<1> QED
  BY <1>1, <1>2, <1>7, ApplyEffectsIs

-----------------------------------------------------------------------------
(* One event.                                                               *)

LEMMA TemplateIs ==
  ASSUME NEW s \in Scenario
  PROVE  /\ \A def \in Template.draws[s] : def.id \in Draw
         /\ Template.action[s].id # None => IsList(Template.action[s].effects)
         /\ \A won \in BOOLEAN :
              /\ IsList(Template.outcome[s][won].effects)
              /\ IsList(Template.outcome[s][won].onContinue)
              /\ IsList(Template.outcome[s][won].next)
              /\ \A i \in DOMAIN Template.outcome[s][won].next :
                    /\ Template.outcome[s][won].next[i].to
                          \in {"stay", "goto", "end", "lose", "choose"}
                    /\ Template.outcome[s][won].next[i].to = "goto" =>
                          Template.outcome[s][won].next[i].scenario \in Scenario
  BY TemplateAssumption

(* Where a result leads is a scenario of the template, or none.             *)
LEMMA NextIs ==
  ASSUME NEW S, NEW s \in Scenario, NEW won \in BOOLEAN, NEW A, NEW n,
         n = ResolveNext(S, Template.outcome[s][won], s, A)
  PROVE  /\ n.to \in {"stay", "goto", "end", "lose", "choose"}
         /\ n.to = "goto" => n.scenario \in Scenario
<1>1. PICK list : list = Template.outcome[s][won].next
  OBVIOUS
<1>2. /\ IsList(list)
      /\ \A i \in DOMAIN list : /\ list[i].to \in {"stay", "goto", "end", "lose", "choose"}
                                /\ list[i].to = "goto" => list[i].scenario \in Scenario
  BY <1>1, TemplateIs
<1>3. PICK open : open = {i \in DOMAIN list : Evaluate(S, list[i].when, s, A, None)}
  OBVIOUS
<1>4. n = IF open = {} THEN [to |-> "stay"]
          ELSE list[CHOOSE i \in open : \A j \in open : i <= j]
  BY <1>1, <1>3 DEF ResolveNext
<1>5. PICK m \in Nat : m = Len(list) /\ DOMAIN list = 1..m
  BY <1>2 DEF IsList
<1>6. CASE open = {}
  BY <1>4, <1>6
<1>7. CASE open # {}
  <2>1. open \subseteq Nat
    BY <1>3, <1>5
  <2>2. \E i \in open : \A j \in open : i <= j
    <3>1. IsFiniteSet(1..m)
      BY FS_Interval
    <3>2. open \subseteq 1..m
      BY <1>3, <1>5
    <3>3. IsFiniteSet(open)
      BY <3>1, <3>2, FS_Subset
    <3>4. open \subseteq Int
      BY <2>1
    <3>5. Min(open) \in open /\ \A j \in open : Min(open) <= j
      BY <1>7, <3>3, <3>4, MinIs
    <3> QED
      BY <3>5
  <2>3. PICK k : k = CHOOSE i \in open : \A j \in open : i <= j
    OBVIOUS
  <2>4. k \in open
    BY <2>2, <2>3
  <2>5. n = list[k] /\ k \in DOMAIN list
    BY <1>3, <1>4, <1>7, <2>3, <2>4
  <2> QED
    BY <1>2, <2>5
<1> QED
  BY <1>6, <1>7

LEMMA EmptySane ==
  ASSUME NEW ev
  PROVE  Sane(EmptyState, ev)
<1>1. <<>> \in Seq(Results)
  OBVIOUS
<1> QED
  BY <1>1 DEF Sane, Fields, EmptyState

LEMMA StartDoes ==
  ASSUME NEW e, NEW ev
  PROVE  /\ Sane(ApplyStart(EmptyState, e), ev)
         /\ \A s \in Scenario : Villain(ApplyStart(EmptyState, e), s) = Villain(EmptyState, s)
<1>1. <<>> \in Seq(Results)
  OBVIOUS
<1>2. PICK T : T = ApplyStart(EmptyState, e)
  OBVIOUS
<1>3. /\ Fields \subseteq DOMAIN T /\ T.draws = EmptyState.draws /\ T.purchases = {}
      /\ T.completed = <<>>
  BY <1>2 DEF ApplyStart, EmptyState, Fields
<1>4. T.current \in Scenario \cup {None}
  <2>1. T.current = IF Template.chooseFirst THEN None ELSE Template.start
    BY <1>2 DEF ApplyStart, EmptyState
  <2> QED
    BY <2>1, TemplateAssumption
<1> QED
  BY <1>1, <1>2, <1>3, <1>4, EmptySane DEF Sane, Villain

(* A result deals the setup again, and leaves the villain alone.            *)
LEMMA ScenarioDoes ==
  ASSUME NEW ev, NEW S, Sane(S, ev), NEW id \in Nat,
         NEW e, e.scenario \in Scenario, e.victory \in BOOLEAN
  PROVE  /\ Sane(ApplyScenario(S, e, id), ev)
         /\ \A s \in Scenario : Villain(ApplyScenario(S, e, id), s) = Villain(S, s)
<1>1. PICK s : s = e.scenario
  OBVIOUS
<1>2. PICK won : won = e.victory
  OBVIOUS
<1>3. PICK A : A = e.answers
  OBVIOUS
<1>4. PICK Q : Q = [S EXCEPT !.eliminated[s] = A.eliminated]
  OBVIOUS
<1>5. PICK T : T = ApplyEffects(Q, Template.outcome[s][won].effects, s, A, None)
  OBVIOUS
<1>6. PICK n : n = ResolveNext(T, Template.outcome[s][won], s, A)
  OBVIOUS
<1>7. s \in Scenario /\ won \in BOOLEAN
  BY <1>1, <1>2
<1>8. Fields \subseteq DOMAIN S
  BY DEF Sane
<1>9. Leaves(S, Q)
  BY <1>4, <1>8 DEF Leaves, Fields
<1>10. Leaves(Q, T)
  BY <1>5, <1>7, <1>9, EffectsLeave, TemplateIs DEF Leaves
<1>11. Leaves(S, T)
  BY <1>9, <1>10, LeavesTwice
<1>12. Sane(T, ev) /\ \A x \in Scenario : Villain(T, x) = Villain(S, x)
  BY <1>11, LeavesSane
<1>13. /\ n.to \in {"stay", "goto", "end", "lose", "choose"}
       /\ n.to = "goto" => n.scenario \in Scenario
  BY <1>6, <1>7, NextIs
<1>14. PICK U : U = Settle(T, e, id, n)
  OBVIOUS
<1>15. U = ApplyScenario(S, e, id)
  BY <1>1, <1>2, <1>3, <1>4, <1>5, <1>6, <1>14 DEF ApplyScenario, OutcomeOf
<1>16. /\ Fields \subseteq DOMAIN U
       /\ U.draws = [T.draws EXCEPT ![s] = ReplayedDraws(@, s)]
       /\ U.purchases = T.purchases
       /\ U.completed = Append(T.completed, [event |-> id, scenario |-> s, victory |-> won])
       /\ U.current = CASE n.to = "stay" -> s
                        [] n.to = "goto" -> n.scenario
                        [] n.to \in {"end", "lose", "choose"} -> None
  <2>1. Fields \subseteq DOMAIN T
    BY <1>12 DEF Sane
  <2> QED
    BY <2>1, <1>1, <1>2, <1>14 DEF Settle, Fields
<1>17. U.current \in Scenario \cup {None}
  BY <1>7, <1>13, <1>16
<1>18. U.completed \in Seq(Results)
  <2>1. PICK r : r = [event |-> id, scenario |-> s, victory |-> won]
    OBVIOUS
  <2>2. r \in Results
    BY <1>7, <2>1 DEF Results
  <2>3. T.completed \in Seq(Results)
    BY <1>12 DEF Sane
  <2> QED
    BY <1>16, <2>1, <2>2, <2>3
<1>19. ASSUME NEW x \in Scenario
       PROVE  VillainDraw \in DOMAIN U.draws[x] /\ Villain(U, x) = Villain(T, x)
  <2>1. DOMAIN T.draws = Scenario /\ VillainDraw \in DOMAIN T.draws[x]
    BY <1>12 DEF Sane
  <2>2. CASE x # s
    BY <1>16, <2>1, <2>2 DEF Villain
  <2>3. CASE x = s
    <3>1. U.draws[x] = ReplayedDraws(T.draws[x], s)
      BY <1>16, <2>1, <2>3
    <3>2. ~ \E def \in Template.draws[s] : def.id = VillainDraw
      BY <1>7, TemplateIs, TemplateAssumption
    <3> QED
      BY <2>1, <3>1, <3>2 DEF ReplayedDraws, Villain
  <2> QED
    BY <2>2, <2>3
<1>20. DOMAIN U.draws = Scenario
  BY <1>12, <1>16 DEF Sane
<1> QED
  BY <1>12, <1>15, <1>16, <1>17, <1>18, <1>19, <1>20 DEF Sane

(* A deal or a choice writes the cards of one draw.                         *)
Redrawn(S, e) == [S.draws EXCEPT ![e.scenario][e.draw][e.hero] = e.cards]

LEMMA RedrawnDoes ==
  ASSUME NEW ev, NEW S, Sane(S, ev), NEW e, NEW T,
         Fields \subseteq DOMAIN T, T.draws = Redrawn(S, e),
         T.purchases = S.purchases, T.current = S.current, T.completed = S.completed
  PROVE  /\ Sane(T, ev)
         /\ \A s \in Scenario :
               Villain(T, s) = IF s = e.scenario /\ e.draw = VillainDraw
                                  THEN [Villain(S, s) EXCEPT ![e.hero] = e.cards]
                                  ELSE Villain(S, s)
<1>1. PICK draws : draws = S.draws
  OBVIOUS
<1>2. DOMAIN draws = Scenario /\ \A s \in Scenario : VillainDraw \in DOMAIN draws[s]
  BY <1>1 DEF Sane
<1>3. T.draws = [draws EXCEPT ![e.scenario] =
                    [draws[e.scenario] EXCEPT ![e.draw] =
                        [draws[e.scenario][e.draw] EXCEPT ![e.hero] = e.cards]]]
  BY <1>1 DEF Redrawn
<1>4. DOMAIN T.draws = Scenario /\ \A s \in Scenario : VillainDraw \in DOMAIN T.draws[s]
  BY <1>2, <1>3
<1>5. ASSUME NEW s \in Scenario
      PROVE  Villain(T, s) = IF s = e.scenario /\ e.draw = VillainDraw
                                THEN [draws[s][VillainDraw] EXCEPT ![e.hero] = e.cards]
                                ELSE draws[s][VillainDraw]
  BY <1>2, <1>3 DEF Villain
<1> QED
  BY <1>1, <1>4, <1>5 DEF Sane, Villain

(* The villains after one event: another deal writes one, nothing else any. *)
VillainAfter(S, e, s) ==
    IF e.type = "setup_draw" /\ s = e.scenario /\ e.draw = VillainDraw
       THEN [Villain(S, s) EXCEPT ![e.hero] = e.cards] ELSE Villain(S, s)

LEMMA ApplyDoes ==
  ASSUME NEW ev, NEW i \in Nat, i \in DOMAIN ev, NEW S, Sane(S, ev),
         NEW e, e = ev[i],
         \/ e.type = "setup" /\ S = EmptyState
         \/ Sensible(e, ev)
  PROVE  /\ Sane(Apply(S, e, i), ev)
         /\ \A s \in Scenario : Villain(Apply(S, e, i), s) = VillainAfter(S, e, s)
<1>1. PICK T : T = Apply(S, e, i)
  OBVIOUS
<1>2. Fields \subseteq DOMAIN S
  BY DEF Sane
<1>3. Leaves(S, S)
  BY <1>2 DEF Leaves
<1>4. ASSUME Leaves(S, T), e.type # "setup_draw"
      PROVE  Sane(T, ev) /\ \A s \in Scenario : Villain(T, s) = VillainAfter(S, e, s)
  BY <1>4, LeavesSane DEF VillainAfter
<1>5. CASE e.type = "setup"
  <2>1. S = EmptyState
    BY <1>5 DEF Sensible, EventTypes
  <2>2. T = ApplyStart(EmptyState, e)
    BY <1>1, <1>5, <2>1 DEF Apply
  <2> QED
    BY <1>1, <1>5, <2>1, <2>2, StartDoes DEF VillainAfter
<1>6. CASE e.type = "scenario_result"
  <2>1. e.scenario \in Scenario /\ e.victory \in BOOLEAN
    BY <1>6 DEF Sensible
  <2>2. T = ApplyScenario(S, e, i)
    BY <1>1, <1>6 DEF Apply
  <2>3. Sane(T, ev) /\ \A s \in Scenario : Villain(T, s) = Villain(S, s)
    BY <2>1, <2>2, ScenarioDoes
  <2> QED
    BY <1>1, <1>6, <2>3 DEF VillainAfter
<1>7. CASE e.type = "purchase"
  <2>1. T = ApplyPurchase(S, e, i)
    BY <1>1, <1>7 DEF Apply
  <2>2. PICK p : p = [event |-> i, hero |-> e.hero, card |-> e.card]
    OBVIOUS
  <2>3. /\ Fields \subseteq DOMAIN T /\ T.draws = S.draws /\ T.current = S.current
        /\ T.completed = S.completed /\ T.purchases = S.purchases \cup {p}
    BY <1>2, <2>1, <2>2 DEF ApplyPurchase, Fields
  <2>4. p.event = i /\ ev[i].type = "purchase"
    BY <1>7, <2>2
  <2> QED
    BY <1>1, <1>7, <2>3, <2>4 DEF Sane, Villain, VillainAfter
<1>8. CASE e.type = "setup_action"
  <2>1. e.scenario \in Scenario /\ Template.action[e.scenario].id # None
    BY <1>8 DEF Sensible
  <2>2. PICK action : action = Template.action[e.scenario]
    OBVIOUS
  <2>3. IsList(action.effects)
    BY <2>1, <2>2, TemplateIs
  <2>4. PICK Q : Q = IF e.hero # None
                        THEN [S EXCEPT !.heroCounters[action.counter][e.hero] = @ - action.cost]
                        ELSE [S EXCEPT !.counters[action.counter] = @ - action.cost]
    OBVIOUS
  <2>5. Leaves(S, Q)
    BY <1>2, <2>4 DEF Leaves, Fields
  <2>6. PICK U : U = ApplyEffects(Q, action.effects, e.scenario, NoAnswers, e.hero)
    OBVIOUS
  <2>7. Leaves(Q, U)
    BY <2>3, <2>5, <2>6, EffectsLeave DEF Leaves
  <2>8. PICK V : V = [U EXCEPT !.taken = @ \cup {[scenario |-> e.scenario, hero |-> e.hero]}]
    OBVIOUS
  <2>9. Leaves(U, V)
    BY <2>7, <2>8 DEF Leaves, Fields
  <2>10. Leaves(S, V)
    BY <2>5, <2>7, <2>9, LeavesTwice
  <2>11. T = S \/ T = V
    <3>1. T = ApplySetupAction(S, e)
      BY <1>1, <1>8 DEF Apply
    <3> QED
      BY <2>2, <2>4, <2>6, <2>8, <3>1 DEF ApplySetupAction
  <2> QED
    BY <1>1, <1>3, <1>4, <1>8, <2>10, <2>11
<1>9. CASE e.type = "continued"
  <2>1. e.scenario \in Scenario /\ e.victory \in BOOLEAN
    BY <1>9 DEF Sensible
  <2>2. T = ApplyEffects(S, Template.outcome[e.scenario][e.victory].onContinue,
                         e.scenario, NoAnswers, None)
    BY <1>1, <1>9 DEF Apply, ApplyContinued, OutcomeOf
  <2>3. IsList(Template.outcome[e.scenario][e.victory].onContinue)
    BY <2>1, TemplateIs
  <2>4. Leaves(S, T)
    BY <1>2, <2>2, <2>3, EffectsLeave
  <2> QED
    BY <1>1, <1>4, <1>9, <2>4
<1>10. CASE e.type = "setup_draw"
  <2>1. T = ApplyDraw(S, e)
    BY <1>1, <1>10 DEF Apply
  <2>2. /\ Fields \subseteq DOMAIN T /\ T.draws = Redrawn(S, e)
        /\ T.purchases = S.purchases /\ T.current = S.current /\ T.completed = S.completed
    BY <1>2, <2>1 DEF ApplyDraw, Fields, Redrawn
  <2>3. /\ Sane(T, ev)
        /\ \A s \in Scenario :
              Villain(T, s) = IF s = e.scenario /\ e.draw = VillainDraw
                                 THEN [Villain(S, s) EXCEPT ![e.hero] = e.cards]
                                 ELSE Villain(S, s)
    BY <2>2, RedrawnDoes
  <2> QED
    BY <1>1, <1>10, <2>3 DEF VillainAfter
<1>11. CASE e.type = "setup_choice"
  <2>1. e.draw # VillainDraw
    BY <1>11 DEF Sensible
  <2>2. T = [S EXCEPT !.draws[e.scenario][e.draw][e.hero] = e.cards]
    BY <1>1, <1>11 DEF Apply
  <2>3. /\ Fields \subseteq DOMAIN T /\ T.draws = Redrawn(S, e)
        /\ T.purchases = S.purchases /\ T.current = S.current /\ T.completed = S.completed
    BY <1>2, <2>2 DEF Fields, Redrawn
  <2>4. Sane(T, ev) /\ \A s \in Scenario : Villain(T, s) = Villain(S, s)
    BY <2>1, <2>3, RedrawnDoes
  <2> QED
    BY <1>1, <1>11, <2>4 DEF VillainAfter
<1>12. CASE e.type = "environments_offered"
  <2>1. T = ApplyEnvironmentOffer(S, e)
    BY <1>1, <1>12 DEF Apply
  <2>2. Leaves(S, T)
    BY <1>2, <2>1 DEF ApplyEnvironmentOffer, Leaves, Fields
  <2> QED
    BY <1>1, <1>4, <1>12, <2>2
<1>13. CASE e.type = "environment_chosen"
  <2>1. T = [S EXCEPT !.offer = {}, !.picked = TRUE]
    BY <1>1, <1>13 DEF Apply
  <2>2. Leaves(S, T)
    BY <1>2, <2>1 DEF Leaves, Fields
  <2> QED
    BY <1>1, <1>4, <1>13, <2>2
<1>14. CASE e.type = "campaign_conceded"
  <2>1. T = [S EXCEPT !.lost = TRUE, !.finished = TRUE, !.awaiting = FALSE]
    BY <1>1, <1>14 DEF Apply
  <2>2. Leaves(S, T)
    BY <1>2, <2>1 DEF Leaves, Fields
  <2> QED
    BY <1>1, <1>4, <1>14, <2>2
<1>15. CASE e.type = "scenario_chosen"
  <2>1. T = [S EXCEPT !.current = e.scenario, !.awaiting = FALSE]
    BY <1>1, <1>15 DEF Apply
  <2>2. /\ Fields \subseteq DOMAIN T /\ T.draws = S.draws /\ T.purchases = S.purchases
        /\ T.completed = S.completed /\ T.current = e.scenario
    BY <1>2, <2>1 DEF Fields
  <2>3. e.scenario \in Scenario
    BY <1>15 DEF Sensible
  <2> QED
    BY <1>1, <1>15, <2>2, <2>3 DEF Sane, Villain, VillainAfter
<1>16. CASE e.type = "manual"
  <2>1. T = ApplyManual(S, e)
    BY <1>1, <1>16 DEF Apply
  <2>2. Leaves(S, T)
    BY <1>2, <2>1 DEF ApplyManual, Leaves, Fields
  <2> QED
    BY <1>1, <1>4, <1>16, <2>2
<1>17. CASE e.type \in {"revoke", "purchase_refund"}
  <2>1. T = S
    BY <1>1, <1>17 DEF Apply
  <2> QED
    BY <1>1, <1>3, <1>4, <1>17, <2>1
<1> QED
  BY <1>5, <1>6, <1>7, <1>8, <1>9, <1>10, <1>11, <1>12, <1>13, <1>14, <1>15, <1>16, <1>17
     DEF Sensible, EventTypes

-----------------------------------------------------------------------------
(* The fold, event after event.                                             *)

(* The events of L that count: not taken back by another of L.              *)
Counts(ev, L, i) == i \in L /\ ~Withdrawn(ev, L, i)

FoldStep(ev, L, f, i) ==
    IF i = 0 THEN EmptyState
    ELSE IF Counts(ev, L, i) THEN Apply(f[i-1], ev[i], i) ELSE f[i-1]

FoldTable(ev, L) == CHOOSE f : f = [i \in 0..Len(ev) |-> FoldStep(ev, L, f, i)]

LEMMA FoldIs ==
  ASSUME NEW ev, NEW L
  PROVE  Fold(ev, L) = FoldTable(ev, L)[Len(ev)]
  BY DEF Fold, FoldTable, FoldStep, Counts

LEMMA FoldTableExists ==
  ASSUME NEW ev, NEW L, NEW m \in Nat
  PROVE  \E f : f = [i \in 0..m |-> FoldStep(ev, L, f, i)]
<1> DEFINE N == {j \in Nat : \E f : f = [i \in 0..j |-> FoldStep(ev, L, f, i)]}
<1>1. 0 \in N
  <2> DEFINE f == [i \in 0..0 |-> EmptyState]
  <2>1. \A i \in 0..0 : FoldStep(ev, L, f, i) = EmptyState
    BY DEF FoldStep
  <2>2. f = [i \in 0..0 |-> FoldStep(ev, L, f, i)]
    BY <2>1
  <2> QED
    BY <2>2
<1>2. ASSUME NEW j \in Nat, j \in N
      PROVE  j + 1 \in N
  <2>1. PICK f : f = [i \in 0..j |-> FoldStep(ev, L, f, i)]
    BY <1>2
  <2>2. PICK T : T = IF Counts(ev, L, j + 1) THEN Apply(f[j], ev[j + 1], j + 1) ELSE f[j]
    OBVIOUS
  <2> DEFINE g == [i \in 0..(j + 1) |-> IF i = j + 1 THEN T ELSE f[i]]
  <2>3. \A i \in 0..j : g[i] = f[i]
    OBVIOUS
  <2>4. g[j + 1] = T /\ g = [i \in 0..(j + 1) |-> g[i]]
    OBVIOUS
  <2> HIDE DEF g
  <2>5. ASSUME NEW i \in 0..(j + 1)
        PROVE  g[i] = FoldStep(ev, L, g, i)
    <3>1. CASE i \in 0..j
      <4>1. f[i] = FoldStep(ev, L, f, i)
        BY <2>1, <3>1
      <4>2. i # 0 => i - 1 \in 0..j
        BY <3>1
      <4>3. g[i] = f[i] /\ (i # 0 => g[i - 1] = f[i - 1])
        BY <2>3, <3>1, <4>2
      <4> QED
        BY <4>1, <4>3 DEF FoldStep
    <3>2. CASE i = j + 1
      <4>1. i # 0 /\ i - 1 = j /\ j \in 0..j
        BY <3>2
      <4>2. g[i - 1] = f[j] /\ g[i] = T
        BY <2>3, <2>4, <3>2, <4>1
      <4> QED
        BY <2>2, <3>2, <4>1, <4>2 DEF FoldStep
    <3> QED
      BY <3>1, <3>2
  <2>6. g = [i \in 0..(j + 1) |-> FoldStep(ev, L, g, i)]
    BY <2>4, <2>5
  <2> QED
    BY <2>6
<1> HIDE DEF N
<1>3. m \in N
  BY <1>1, <1>2, FromZeroUp
<1> QED
  BY <1>3 DEF N

LEMMA FoldTableIs ==
  ASSUME NEW ev, Len(ev) \in Nat, NEW L
  PROVE  /\ FoldTable(ev, L)[0] = EmptyState
         /\ \A i \in 1..Len(ev) :
               FoldTable(ev, L)[i] = IF Counts(ev, L, i)
                                        THEN Apply(FoldTable(ev, L)[i-1], ev[i], i)
                                        ELSE FoldTable(ev, L)[i-1]
<1>1. PICK m \in Nat : m = Len(ev)
  OBVIOUS
<1>2. PICK f : f = FoldTable(ev, L)
  OBVIOUS
<1>3. f = [i \in 0..m |-> FoldStep(ev, L, f, i)]
  BY <1>1, <1>2, FoldTableExists DEF FoldTable
<1>4. f[0] = EmptyState
  BY <1>3 DEF FoldStep
<1>5. ASSUME NEW i \in 1..m
      PROVE  f[i] = IF Counts(ev, L, i) THEN Apply(f[i-1], ev[i], i) ELSE f[i-1]
  <2>1. i \in 0..m /\ i # 0
    OBVIOUS
  <2>2. f[i] = FoldStep(ev, L, f, i)
    BY <1>3, <2>1
  <2> QED
    BY <2>1, <2>2 DEF FoldStep
<1> QED
  BY <1>1, <1>2, <1>4, <1>5

(* Whatever part of the log is folded, every state on the way makes sense;  *)
(* the first event meets the empty state.                                   *)
LEMMA TableSane ==
  ASSUME NEW ev, LogSound(ev), NEW L
  PROVE  \A i \in Nat : i <= Len(ev) => Sane(FoldTable(ev, L)[i], ev)
<1>1. PICK m \in Nat : m = Len(ev) /\ DOMAIN ev = 1..m
  BY DEF LogSound, IsList
<1>2. PICK f : f = FoldTable(ev, L)
  OBVIOUS
<1>3. /\ f[0] = EmptyState
      /\ \A i \in 1..m : f[i] = IF Counts(ev, L, i) THEN Apply(f[i-1], ev[i], i) ELSE f[i-1]
  BY <1>1, <1>2, FoldTableIs
<1> DEFINE G == {i \in Nat : i <= m => Sane(f[i], ev)}
<1>4. 0 \in G
  BY <1>3, EmptySane
<1>5. ASSUME NEW i \in Nat, i \in G
      PROVE  i + 1 \in G
  <2>1. ASSUME i + 1 <= m
        PROVE  Sane(f[i + 1], ev)
    <3>1. i + 1 \in 1..m /\ (i + 1) - 1 = i /\ i <= m
      BY <2>1
    <3>2. Sane(f[i], ev)
      BY <1>5, <3>1
    <3>3. f[i + 1] = f[i] \/ f[i + 1] = Apply(f[i], ev[i + 1], i + 1)
      BY <1>3, <3>1
    <3>4. \/ ev[i + 1].type = "setup" /\ f[i] = EmptyState
          \/ Sensible(ev[i + 1], ev)
      <4>1. i + 1 \in DOMAIN ev
        BY <1>1, <3>1
      <4>2. \/ i + 1 = 1 /\ ev[i + 1].type = "setup"
            \/ Sensible(ev[i + 1], ev)
        BY <4>1 DEF LogSound
      <4>3. i + 1 = 1 => i = 0
        OBVIOUS
      <4> QED
        BY <1>3, <4>2, <4>3
    <3>5. Sane(Apply(f[i], ev[i + 1], i + 1), ev)
      <4>1. i + 1 \in Nat /\ i + 1 \in DOMAIN ev
        BY <1>1, <3>1
      <4> QED
        BY <3>2, <3>4, <4>1, ApplyDoes
    <3> QED
      BY <3>2, <3>3, <3>5
  <2> QED
    BY <2>1
<1> HIDE DEF G
<1>6. \A i \in Nat : i \in G
  BY <1>4, <1>5, FromZeroUp
<1> QED
  BY <1>1, <1>2, <1>6 DEF G

LEMMA FoldSane ==
  ASSUME NEW ev, LogSound(ev), NEW L
  PROVE  Sane(Fold(ev, L), ev)
<1>1. Len(ev) \in Nat /\ Len(ev) <= Len(ev)
  BY DEF LogSound, IsList
<1> QED
  BY <1>1, FoldIs, TableSane

-----------------------------------------------------------------------------
(* Two logs of which one has all the other has, and more, note the same     *)
(* villains as long as what it has more is no deal: wherever in the order   *)
(* of time the rest was added.                                              *)

(* More events, after those there are.                                      *)
Extends(ev, more) ==
    /\ Len(ev) <= Len(more)
    /\ \A i \in 1..Len(ev) : more[i] = ev[i]

(* A deal is never taken back.                                              *)
LEMMA DealsCount ==
  ASSUME NEW ev, LogSound(ev), NEW L, L \subseteq DOMAIN ev, NEW i \in L,
         ev[i].type = "setup_draw"
  PROVE  Counts(ev, L, i)
<1>1. ASSUME NEW j \in L, ev[j].type \in {"revoke", "purchase_refund"}, ev[j].target = i
      PROVE  FALSE
  <2>1. j \in DOMAIN ev /\ Sensible(ev[j], ev)
    BY <1>1 DEF LogSound
  <2> QED
    BY <1>1, <2>1 DEF Sensible
<1> QED
  BY <1>1 DEF Counts, Withdrawn

(* What one position of the log does to the villains, in whatever log.      *)
LEMMA PositionDoes ==
  ASSUME NEW ev, LogSound(ev), NEW L, L \subseteq DOMAIN ev, NEW i \in 1..Len(ev)
  PROVE  \A s \in Scenario :
            Villain(FoldTable(ev, L)[i], s) =
               IF i \in L THEN VillainAfter(FoldTable(ev, L)[i-1], ev[i], s)
                          ELSE Villain(FoldTable(ev, L)[i-1], s)
<1>1. PICK m \in Nat : m = Len(ev) /\ DOMAIN ev = 1..m
  BY DEF LogSound, IsList
<1>2. PICK f : f = FoldTable(ev, L)
  OBVIOUS
<1>3. /\ f[0] = EmptyState
      /\ f[i] = IF Counts(ev, L, i) THEN Apply(f[i-1], ev[i], i) ELSE f[i-1]
  BY <1>1, <1>2, FoldTableIs
<1>4. i - 1 \in Nat /\ i - 1 <= m /\ i \in DOMAIN ev /\ i \in Nat
  BY <1>1
<1>5. Sane(f[i-1], ev)
  BY <1>1, <1>2, <1>4, TableSane
<1>6. CASE Counts(ev, L, i)
  <2>1. \/ ev[i].type = "setup" /\ f[i-1] = EmptyState
        \/ Sensible(ev[i], ev)
    <3>1. \/ i = 1 /\ ev[i].type = "setup"
          \/ Sensible(ev[i], ev)
      BY <1>4 DEF LogSound
    <3>2. i = 1 => i - 1 = 0
      OBVIOUS
    <3> QED
      BY <1>3, <3>1, <3>2
  <2>2. \A s \in Scenario :
           Villain(Apply(f[i-1], ev[i], i), s) = VillainAfter(f[i-1], ev[i], s)
    BY <1>4, <1>5, <2>1, ApplyDoes
  <2>3. i \in L
    BY <1>6 DEF Counts
  <2> QED
    BY <1>2, <1>3, <1>6, <2>2, <2>3
<1>7. CASE ~Counts(ev, L, i)
  <2>1. i \in L => ev[i].type # "setup_draw"
    BY <1>7, DealsCount
  <2> QED
    BY <1>2, <1>3, <1>7, <2>1 DEF VillainAfter
<1> QED
  BY <1>6, <1>7

LEMMA FoldVillains ==
  ASSUME NEW ev, LogSound(ev), NEW more, LogSound(more), Extends(ev, more),
         NEW L, L \subseteq DOMAIN ev, NEW M, L \subseteq M, M \subseteq DOMAIN more,
         \A i \in M \ L : more[i].type # "setup_draw"
  PROVE  \A s \in Scenario : Villain(Fold(ev, L), s) = Villain(Fold(more, M), s)
<1>1. PICK m \in Nat : m = Len(ev) /\ DOMAIN ev = 1..m
  BY DEF LogSound, IsList
<1>2. PICK n \in Nat : n = Len(more) /\ DOMAIN more = 1..n
  BY DEF LogSound, IsList
<1>3. m <= n /\ \A i \in 1..m : more[i] = ev[i]
  BY <1>1, <1>2 DEF Extends
<1>4. PICK f : f = FoldTable(ev, L)
  OBVIOUS
<1>5. PICK g : g = FoldTable(more, M)
  OBVIOUS
<1>6. \A i \in 1..m, s \in Scenario :
         Villain(f[i], s) = IF i \in L THEN VillainAfter(f[i-1], ev[i], s)
                            ELSE Villain(f[i-1], s)
  BY <1>1, <1>4, PositionDoes
<1>7. \A i \in 1..n, s \in Scenario :
         Villain(g[i], s) = IF i \in M THEN VillainAfter(g[i-1], more[i], s)
                            ELSE Villain(g[i-1], s)
  BY <1>2, <1>5, PositionDoes
<1>8. f[0] = EmptyState /\ g[0] = EmptyState
  BY <1>1, <1>2, <1>4, <1>5, FoldTableIs
<1> DEFINE G == {i \in Nat : i <= m => \A s \in Scenario : Villain(f[i], s) = Villain(g[i], s)}
<1>9. \A i \in Nat : i \in G
  <2>1. 0 \in G
    BY <1>8
  <2>2. ASSUME NEW i \in Nat, i \in G, i + 1 <= m, NEW s \in Scenario
        PROVE  Villain(f[i + 1], s) = Villain(g[i + 1], s)
    <3>1. PICK k : k = i + 1
      OBVIOUS
    <3>2. k \in 1..m /\ k \in 1..n /\ k - 1 = i
      BY <1>3, <2>2, <3>1
    <3>3. Villain(f[k-1], s) = Villain(g[k-1], s)
      BY <2>2, <3>2
    <3>4. more[k] = ev[k]
      BY <1>3, <3>2
    <3>5. Villain(f[k], s) = IF k \in L THEN VillainAfter(f[k-1], ev[k], s)
                             ELSE Villain(f[k-1], s)
      BY <1>6, <3>2
    <3>6. Villain(g[k], s) = IF k \in M THEN VillainAfter(g[k-1], ev[k], s)
                             ELSE Villain(g[k-1], s)
      BY <1>7, <3>2, <3>4
    <3>7. VillainAfter(f[k-1], ev[k], s) = VillainAfter(g[k-1], ev[k], s)
      BY <3>3 DEF VillainAfter
    <3>8. k \in M \ L => VillainAfter(g[k-1], ev[k], s) = Villain(g[k-1], s)
      BY <3>4 DEF VillainAfter
    <3> QED
      BY <3>1, <3>3, <3>5, <3>6, <3>7, <3>8
  <2>3. \A i \in Nat : i \in G => i + 1 \in G
    BY <2>2
  <2> HIDE DEF G
  <2> QED
    BY <2>1, <2>3, FromZeroUp
<1>10. \A s \in Scenario : Villain(f[m], s) = Villain(g[m], s)
  BY <1>9
<1> DEFINE H == {i \in Nat : m <= i /\ i <= n =>
                    \A s \in Scenario : Villain(g[i], s) = Villain(g[m], s)}
<1>11. \A i \in Nat : i \in H
  <2>1. 0 \in H
    <3>1. m <= 0 => m = 0
      OBVIOUS
    <3> QED
      BY <3>1
  <2>2. ASSUME NEW i \in Nat, i \in H, m <= i + 1, i + 1 <= n, NEW s \in Scenario
        PROVE  Villain(g[i + 1], s) = Villain(g[m], s)
    <3>1. PICK k : k = i + 1
      OBVIOUS
    <3>2. CASE m = k
      BY <3>1, <3>2
    <3>3. CASE m # k
      <4>1. k \in 1..n /\ k - 1 = i /\ m <= i /\ i <= n /\ k \notin 1..m
        BY <2>2, <3>1, <3>3
      <4>2. Villain(g[k-1], s) = Villain(g[m], s)
        BY <2>2, <4>1
      <4>3. k \in M => more[k].type # "setup_draw"
        BY <1>1, <4>1
      <4>4. Villain(g[k], s) = Villain(g[k-1], s)
        BY <1>7, <4>1, <4>3 DEF VillainAfter
      <4> QED
        BY <3>1, <4>2, <4>4
    <3> QED
      BY <3>2, <3>3
  <2>3. \A i \in Nat : i \in H => i + 1 \in H
    BY <2>2
  <2> HIDE DEF H
  <2> QED
    BY <2>1, <2>3, FromZeroUp
<1>12. \A s \in Scenario : Villain(g[n], s) = Villain(g[m], s)
  BY <1>3, <1>11
<1>13. Fold(ev, L) = f[m] /\ Fold(more, M) = g[n]
  BY <1>1, <1>2, <1>4, <1>5, FoldIs
<1> QED
  BY <1>10, <1>12, <1>13

-----------------------------------------------------------------------------
(* The devices and their pages.                                             *)

PageFields == {"open", "campaign", "stale", "dealing", "todo", "then", "held", "override",
               "victory"}

(* What ensureDealt appends.                                                *)
Deal(x) == "type" \in DOMAIN x /\ x.type \in {"setup_draw", "environments_offered"}

(* What a page shows in spite of the state is the questions, the result or  *)
(* the market.                                                              *)
Overrides(p) ==
    /\ PageFields \subseteq DOMAIN p
    /\ p.victory \in BOOLEAN
    /\ p.override \in {"none", "questions", "result", "market"}
    /\ p.then \in {"none", "result"}

(* A page has folded some of these events, and deals nothing but cards and  *)
(* places.                                                                  *)
PageSound(p, ev) ==
    /\ Overrides(p)
    /\ Sane(p.campaign, ev)
    /\ \A x \in p.dealing : Deal(x)

PagesSound == /\ DOMAIN page = Device
              /\ \A d \in Device : PageSound(page[d], events)

(* The state kept of a device notes the villains its log does.              *)
StatesSound ==
    /\ DOMAIN log = Device /\ DOMAIN state = Device
    /\ \A d \in Device :
          /\ log[d] \subseteq DOMAIN events
          /\ Sane(state[d], events)
          /\ \A s \in Scenario : Villain(state[d], s) = Villain(Fold(events, log[d]), s)

CInv == LogSound(events) /\ StatesSound /\ PagesSound

(* A step appends, and a device's log is as it was or has grown and been    *)
(* folded.                                                                  *)
Grow ==
    /\ LogSound(events') /\ Extends(events, events')
    /\ DOMAIN log' = Device /\ DOMAIN state' = Device
    /\ \A c \in Device :
          \/ log'[c] = log[c] /\ state'[c] = state[c]
          \/ /\ log[c] \subseteq log'[c] /\ log'[c] \subseteq DOMAIN events'
             /\ state'[c] = Fold(events', log'[c])

(* A page that has loaded nothing and has no more to deal than before.      *)
Stays(p, q) ==
    /\ Overrides(q)
    /\ q.campaign = p.campaign
    /\ q.dealing \subseteq p.dealing

Turn ==
    /\ DOMAIN page' = Device
    /\ \A c \in Device : Stays(page[c], page'[c]) \/ PageSound(page'[c], events')

Kept ==
    \A d \in Device :
        (\A i \in log'[d] \ log[d] : events'[i].type # "setup_draw") =>
            \A s \in Scenario : state'[d].draws[s][VillainDraw] = state[d].draws[s][VillainDraw]

-----------------------------------------------------------------------------
LEMMA ListIs ==
  ASSUME NEW ev, LogSound(ev)
  PROVE  Len(ev) \in Nat /\ DOMAIN ev = 1..Len(ev)
  BY DEF LogSound, IsList

LEMMA SaneExtends ==
  ASSUME NEW ev, LogSound(ev), NEW more, LogSound(more), Extends(ev, more),
         NEW S, Sane(S, ev)
  PROVE  Sane(S, more)
<1>1. PICK m \in Nat : m = Len(ev) /\ DOMAIN ev = 1..m
  BY ListIs
<1>2. PICK n \in Nat : n = Len(more) /\ DOMAIN more = 1..n
  BY ListIs
<1>3. \A i \in DOMAIN ev : i \in DOMAIN more /\ more[i] = ev[i]
  BY <1>1, <1>2 DEF Extends
<1> QED
  BY <1>3 DEF Sane

LEMMA Itself ==
  ASSUME NEW ev, LogSound(ev)
  PROVE  Extends(ev, ev)
  BY ListIs DEF Extends

LEMMA Stepped ==
  ASSUME CInv, Grow, Turn
  PROVE  CInv' /\ Kept
<1>1. LogSound(events) /\ LogSound(events') /\ Extends(events, events')
  BY DEF CInv, Grow
<1>2. \A S : Sane(S, events) => Sane(S, events')
  BY <1>1, SaneExtends
<1>3. ASSUME NEW c \in Device
      PROVE  /\ log[c] \subseteq DOMAIN events
             /\ Sane(state[c], events)
             /\ \A s \in Scenario : Villain(state[c], s) = Villain(Fold(events, log[c]), s)
  BY DEF CInv, StatesSound
<1>4. DOMAIN events \subseteq DOMAIN events'
  BY <1>1, ListIs DEF Extends
<1>5. ASSUME NEW c \in Device
      PROVE  /\ log'[c] \subseteq DOMAIN events'
             /\ Sane(state'[c], events')
             /\ \A s \in Scenario : Villain(state'[c], s) = Villain(Fold(events', log'[c]), s)
  <2>1. CASE log'[c] = log[c] /\ state'[c] = state[c]
    <3>1. \A s \in Scenario : Villain(Fold(events, log[c]), s) = Villain(Fold(events', log[c]), s)
      <4>1. log[c] \subseteq DOMAIN events' /\ \A i \in log[c] \ log[c] : events'[i].type # "setup_draw"
        BY <1>3, <1>4
      <4> QED
        BY <1>1, <1>3, <4>1, FoldVillains
    <3> QED
      BY <1>2, <1>3, <1>4, <2>1, <3>1
  <2>2. CASE /\ log[c] \subseteq log'[c] /\ log'[c] \subseteq DOMAIN events'
             /\ state'[c] = Fold(events', log'[c])
    BY <1>1, <2>2, FoldSane
  <2> QED
    BY <2>1, <2>2 DEF Grow
<1>6. StatesSound'
  BY <1>5 DEF Grow, StatesSound
<1>7. PagesSound'
  <2>1. ASSUME NEW c \in Device
        PROVE  PageSound(page'[c], events')
    <3>1. PageSound(page[c], events)
      BY DEF CInv, PagesSound
    <3>2. CASE Stays(page[c], page'[c])
      BY <1>2, <3>1, <3>2 DEF Stays, PageSound
    <3> QED
      BY <3>2 DEF Turn
  <2> QED
    BY <2>1 DEF Turn, PagesSound
<1>8. Kept
  <2>1. ASSUME NEW c \in Device, \A i \in log'[c] \ log[c] : events'[i].type # "setup_draw",
               NEW s \in Scenario
        PROVE  Villain(state'[c], s) = Villain(state[c], s)
    <3>1. CASE log'[c] = log[c] /\ state'[c] = state[c]
      BY <3>1
    <3>2. CASE /\ log[c] \subseteq log'[c] /\ log'[c] \subseteq DOMAIN events'
               /\ state'[c] = Fold(events', log'[c])
      <4>1. Villain(Fold(events, log[c]), s) = Villain(Fold(events', log'[c]), s)
        BY <1>1, <1>3, <2>1, <3>2, FoldVillains
      <4> QED
        BY <1>3, <3>2, <4>1
    <3> QED
      BY <3>1, <3>2 DEF Grow
  <2> QED
    BY <2>1 DEF Kept, Villain
<1> QED
  BY <1>1, <1>6, <1>7, <1>8 DEF CInv

-----------------------------------------------------------------------------
(* What may be appended.                                                    *)

LEMMA SensibleExtends ==
  ASSUME NEW ev, LogSound(ev), NEW more, IsList(more), Extends(ev, more),
         NEW e, Sensible(e, ev)
  PROVE  Sensible(e, more)
<1>1. PICK m \in Nat : m = Len(ev) /\ DOMAIN ev = 1..m
  BY ListIs
<1>2. PICK n \in Nat : n = Len(more) /\ DOMAIN more = 1..n
  BY DEF IsList
<1>3. \A i \in DOMAIN ev : i \in DOMAIN more /\ more[i] = ev[i]
  BY <1>1, <1>2 DEF Extends
<1> QED
  BY <1>3 DEF Sensible

LEMMA LogExtends ==
  ASSUME NEW ev, LogSound(ev), NEW more, IsList(more), Extends(ev, more),
         \A i \in DOMAIN more \ DOMAIN ev : Sensible(more[i], ev)
  PROVE  LogSound(more)
<1>1. PICK m \in Nat : m = Len(ev) /\ DOMAIN ev = 1..m
  BY ListIs
<1>2. ASSUME NEW i \in DOMAIN more
      PROVE  (i = 1 /\ more[i].type = "setup") \/ Sensible(more[i], more)
  <2>1. CASE i \in DOMAIN ev
    <3>1. more[i] = ev[i]
      BY <1>1, <2>1 DEF Extends
    <3>2. (i = 1 /\ ev[i].type = "setup") \/ Sensible(ev[i], ev)
      BY <2>1 DEF LogSound
    <3> QED
      BY <3>1, <3>2, SensibleExtends
  <2>2. CASE i \notin DOMAIN ev
    BY <2>2, SensibleExtends
  <2> QED
    BY <2>1, <2>2
<1> QED
  BY <1>2 DEF LogSound

LEMMA Appended ==
  ASSUME CInv, NEW d \in Device, NEW e, Sensible(By(e, d), events), Append1(d, e)
  PROVE  Grow
<1>1. PICK x : x = By(e, d)
  OBVIOUS
<1>2. PICK m \in Nat : m = Len(events) /\ DOMAIN events = 1..m
  BY ListIs DEF CInv
<1>3. events' = Append(events, x)
  BY <1>1 DEF Append1
<1>4. /\ Len(events') = m + 1 /\ DOMAIN events' = 1..(m + 1)
      /\ \A i \in 1..m : events'[i] = events[i]
      /\ events'[m + 1] = x
      /\ IsList(events')
  <2>1. PICK R : R = {events[i] : i \in DOMAIN events}
    OBVIOUS
  <2>2. events \in Seq(R)
    BY <2>1 DEF CInv, LogSound, IsList
  <2>3. events \in Seq(R \cup {x})
    BY <2>2
  <2>4. events' \in Seq(R \cup {x})
    BY <1>3, <2>3
  <2>5. /\ Len(events') = m + 1 /\ DOMAIN events' = 1..(m + 1)
        /\ \A i \in 1..m : events'[i] = events[i]
        /\ events'[m + 1] = x
    BY <1>2, <1>3, <2>3
  <2>6. IsList(events')
    BY <2>4, <2>5 DEF IsList
  <2> QED
    BY <2>5, <2>6
<1>5. Extends(events, events')
  BY <1>2, <1>4 DEF Extends
<1>6. LogSound(events')
  <2>1. \A i \in DOMAIN events' \ DOMAIN events : Sensible(events'[i], events)
    BY <1>1, <1>2, <1>4
  <2> QED
    BY <1>4, <1>5, <2>1, LogExtends DEF CInv
<1>7. /\ log' = [log EXCEPT ![d] = @ \cup {m + 1}]
      /\ state' = [state EXCEPT ![d] = Fold(events', log'[d])]
  BY <1>2 DEF Append1
<1>8. DOMAIN log = Device /\ DOMAIN state = Device /\ log[d] \subseteq 1..m
  BY <1>2 DEF CInv, StatesSound
<1>9. /\ log[d] \subseteq log'[d] /\ log'[d] \subseteq DOMAIN events'
      /\ state'[d] = Fold(events', log'[d])
  BY <1>4, <1>7, <1>8
<1>10. \A c \in Device \ {d} : log'[c] = log[c] /\ state'[c] = state[c]
  BY <1>7, <1>8
<1> QED
  BY <1>5, <1>6, <1>7, <1>8, <1>9, <1>10 DEF Grow

LEMMA Unmoved ==
  ASSUME CInv, UNCHANGED <<events, log, state>>
  PROVE  Grow
  BY Itself DEF CInv, StatesSound, Grow

-----------------------------------------------------------------------------
(* The steps, one by one.                                                   *)

LEMMA PageIs ==
  ASSUME CInv, NEW d \in Device
  PROVE  /\ DOMAIN page = Device /\ Overrides(page[d])
         /\ Sane(Campaign(d), events)
         /\ \A x \in page[d].dealing : Deal(x)
  BY DEF CInv, PagesSound, PageSound, Campaign

(* Only the page of d changes, and it loads nothing.                        *)
LEMMA OnePage ==
  ASSUME CInv, NEW d \in Device, NEW q, page' = [page EXCEPT ![d] = q], Stays(page[d], q)
  PROVE  Turn
<1>1. \A c \in Device : Stays(page[c], page[c])
  BY PageIs DEF Stays
<1>2. DOMAIN page' = Device /\ \A c \in Device : page'[c] = IF c = d THEN q ELSE page[c]
  BY PageIs
<1> QED
  BY <1>1, <1>2 DEF Turn

LEMMA SamePages ==
  ASSUME CInv, page' = page
  PROVE  Turn
<1>1. DOMAIN page = Device
  BY DEF CInv, PagesSound
<1>2. \A c \in Device : Stays(page[c], page[c])
  BY PageIs DEF Stays
<1> QED
  BY <1>1, <1>2 DEF Turn

(* What the page shows is about a scenario.                                 *)
LEMMA BriefingIs ==
  ASSUME CInv, NEW d \in Device, Shown(d) = "briefing"
  PROVE  Campaign(d).current \in Scenario
<1>1. Campaign(d).current \in Scenario \cup {None}
  BY PageIs DEF Sane
<1>2. CASE Campaign(d).current = None
  <2>1. page[d].override # "briefing"
    BY PageIs DEF Overrides
  <2>2. Placed(Campaign(d), row[d]) = "briefing"
    BY <2>1 DEF Shown
  <2> QED
    BY <1>2, <2>2 DEF Placed
<1> QED
  BY <1>1, <1>2

LEMMA ReloadDoes ==
  ASSUME CInv, NEW d \in Device, NEW e, Sensible(By(e, d), events),
         NEW override, override \in {"none", "questions", "result", "market"},
         AppendAndReload(d, e, override)
  PROVE  Grow /\ Turn
<1>1. Grow
  BY Appended DEF AppendAndReload
<1>2. PICK q : q = [page[d] EXCEPT !.stale = TRUE, !.override = override]
  OBVIOUS
<1>3. page' = [page EXCEPT ![d] = q]
  BY <1>2, PageIs DEF AppendAndReload
<1>4. Stays(page[d], q)
  BY <1>2, PageIs DEF Stays, Overrides, PageFields
<1> QED
  BY <1>1, <1>3, <1>4, OnePage

LEMMA WriteDoes ==
  ASSUME CInv, NEW d \in Device, NEW e, Sensible(By(e, d), events),
         NEW todo, NEW then, then \in {"none", "result"}, AppendAndWrite(d, e, todo, then)
  PROVE  Grow /\ Turn
<1>1. Grow
  BY Appended DEF AppendAndWrite
<1>2. PICK q : q = [page[d] EXCEPT !.todo = @ \cup todo, !.then = then,
                                    !.held = row[d].finished]
  OBVIOUS
<1>3. page' = [page EXCEPT ![d] = q]
  BY <1>2, PageIs DEF AppendAndWrite
<1>4. Stays(page[d], q)
  BY <1>2, PageIs DEF Stays, Overrides, PageFields
<1> QED
  BY <1>1, <1>3, <1>4, OnePage

(* ensureDealt deals cards and places.                                      *)
LEMMA DealtIs ==
  ASSUME NEW S, NEW owed \in Dealt(S)
  PROVE  \A x \in owed : Deal(x)
  BY DEF Dealt, Deal

LEMMA OpenDoes ==
  ASSUME CInv, NEW d \in Device, Open(d)
  PROVE  Grow /\ Turn
<1>1. Grow
  BY Unmoved DEF Open
<1>2. PICK owed \in Dealt(state[d]) :
         page' = [page EXCEPT ![d] = [Mounted(state[d]) EXCEPT !.dealing = owed]]
  BY DEF Open
<1>3. PICK q : q = [Mounted(state[d]) EXCEPT !.dealing = owed]
  OBVIOUS
<1>4. q.campaign = state[d] /\ q.dealing = owed /\ Overrides(q)
  BY <1>3 DEF Mounted, Overrides, PageFields
<1>5. Sane(state[d], events)
  BY DEF CInv, StatesSound
<1>6. PageSound(q, events')
  <2>1. events' = events
    BY DEF Open
  <2> QED
    BY <1>2, <1>4, <1>5, <2>1, DealtIs DEF PageSound
<1>7. DOMAIN page' = Device /\ \A c \in Device : page'[c] = IF c = d THEN q ELSE page[c]
  BY <1>2, <1>3, PageIs
<1>8. \A c \in Device : Stays(page[c], page[c])
  BY PageIs DEF Stays
<1> QED
  BY <1>1, <1>6, <1>7, <1>8 DEF Turn

LEMMA CloseDoes ==
  ASSUME CInv, NEW d \in Device, Close(d)
  PROVE  Grow /\ Turn
<1>1. Grow
  BY Unmoved DEF Close
<1>2. PICK q : q = Unmounted
  OBVIOUS
<1>3. q.campaign = EmptyState /\ q.dealing = {} /\ Overrides(q)
  BY <1>2 DEF Unmounted, Mounted, Overrides, PageFields
<1>4. PageSound(q, events')
  BY <1>3, EmptySane DEF PageSound
<1>5. DOMAIN page' = Device /\ \A c \in Device : page'[c] = IF c = d THEN q ELSE page[c]
  BY <1>2, PageIs DEF Close
<1>6. \A c \in Device : Stays(page[c], page[c])
  BY PageIs DEF Stays
<1> QED
  BY <1>1, <1>4, <1>5, <1>6 DEF Turn

LEMMA LoadDoes ==
  ASSUME CInv, NEW d \in Device, Load(d)
  PROVE  Grow /\ Turn
<1>1. Grow
  BY Unmoved DEF Load
<1>2. PICK owed \in (IF page[d].dealing = {} THEN Dealt(state[d]) ELSE {page[d].dealing}) :
         page' = [page EXCEPT ![d].stale = FALSE, ![d].campaign = state[d],
                              ![d].dealing = owed]
  BY DEF Load
<1>3. PICK q : q = [page[d] EXCEPT !.stale = FALSE, !.campaign = state[d], !.dealing = owed]
  OBVIOUS
<1>4. q.campaign = state[d] /\ q.dealing = owed /\ Overrides(q)
  BY <1>3, PageIs DEF Overrides, PageFields
<1>5. \A x \in owed : Deal(x)
  BY <1>2, DealtIs, PageIs
<1>6. Sane(state[d], events) /\ events' = events
  BY DEF CInv, StatesSound, Load
<1>7. PageSound(q, events')
  BY <1>4, <1>5, <1>6 DEF PageSound
<1>8. DOMAIN page' = Device /\ \A c \in Device : page'[c] = IF c = d THEN q ELSE page[c]
  BY <1>2, <1>3, PageIs
<1>9. \A c \in Device : Stays(page[c], page[c])
  BY PageIs DEF Stays
<1> QED
  BY <1>1, <1>7, <1>8, <1>9 DEF Turn

LEMMA DealAgainDoes ==
  ASSUME CInv, NEW d \in Device, DealAgain(d)
  PROVE  Grow /\ Turn
<1>1. Grow
  BY Unmoved DEF DealAgain
<1>2. PICK owed \in Dealt(Campaign(d)) : page' = [page EXCEPT ![d].dealing = owed]
  BY DEF DealAgain
<1>3. PICK q : q = [page[d] EXCEPT !.dealing = owed]
  OBVIOUS
<1>4. q.campaign = Campaign(d) /\ q.dealing = owed /\ Overrides(q)
  BY <1>3, PageIs DEF Overrides, PageFields, Campaign
<1>5. PageSound(q, events')
  <2>1. events' = events
    BY DEF DealAgain
  <2> QED
    BY <1>4, <2>1, DealtIs, PageIs DEF PageSound
<1>6. DOMAIN page' = Device /\ \A c \in Device : page'[c] = IF c = d THEN q ELSE page[c]
  BY <1>2, <1>3, PageIs
<1>7. \A c \in Device : Stays(page[c], page[c])
  BY PageIs DEF Stays
<1> QED
  BY <1>1, <1>5, <1>6, <1>7 DEF Turn

LEMMA DealOneDoes ==
  ASSUME CInv, NEW d \in Device, DealOne(d)
  PROVE  Grow /\ Turn
<1>1. PICK e : e = CHOOSE x \in page[d].dealing : TRUE
  OBVIOUS
<1>2. /\ page[d].dealing # {} /\ Append1(d, e)
      /\ page' = [page EXCEPT ![d].dealing = @ \ {e},
                              ![d].stale = @ \/ page[d].dealing = {e}]
  BY <1>1 DEF DealOne
<1>3. e \in page[d].dealing
  BY <1>1, <1>2
<1>4. Sensible(By(e, d), events)
  <2>1. "type" \in DOMAIN e /\ e.type \in {"setup_draw", "environments_offered"}
    BY <1>3, PageIs DEF Deal
  <2>2. By(e, d).type = e.type
    BY <2>1 DEF By
  <2> QED
    BY <2>1, <2>2 DEF Sensible, EventTypes
<1>5. Grow
  BY <1>2, <1>4, Appended
<1>6. PICK q : q = [page[d] EXCEPT !.dealing = @ \ {e}, !.stale = @ \/ page[d].dealing = {e}]
  OBVIOUS
<1>7. page' = [page EXCEPT ![d] = q]
  BY <1>2, <1>6, PageIs
<1>8. Stays(page[d], q)
  BY <1>6, PageIs DEF Stays, Overrides, PageFields
<1> QED
  BY <1>5, <1>7, <1>8, OnePage

-----------------------------------------------------------------------------
LEMMA ActDoes ==
  ASSUME CInv, NEW d \in Device, NEW h, Act(d, h)
  PROVE  Grow /\ Turn
<1>1. PICK s : s = Campaign(d).current
  OBVIOUS
<1>2. PICK e : e = [type |-> "setup_action", scenario |-> s, hero |-> h]
  OBVIOUS
<1>3. /\ Shown(d) = "briefing" /\ Template.action[s].id # None
      /\ AppendAndReload(d, e, page[d].override)
  BY <1>1, <1>2 DEF Act, Tap
<1>4. s \in Scenario
  BY <1>1, <1>3, BriefingIs
<1>5. By(e, d).type = "setup_action" /\ By(e, d).scenario = s
  BY <1>2 DEF By
<1>6. Sensible(By(e, d), events)
  BY <1>3, <1>4, <1>5 DEF Sensible, EventTypes
<1>7. page[d].override \in {"none", "questions", "result", "market"}
  BY PageIs DEF Overrides
<1> QED
  BY <1>3, <1>6, <1>7, ReloadDoes

LEMMA KeepDoes ==
  ASSUME CInv, NEW d \in Device, Keep(d)
  PROVE  Grow /\ Turn
<1>1. PICK s : s = Campaign(d).current
  OBVIOUS
<1>2. Shown(d) = "briefing"
  BY DEF Keep, Tap
<1>3. PICK def \in Template.draws[s], h \in Hero \cup {None} :
         \E c \in Campaign(d).draws[s][def.id][h] :
            AppendAndReload(d, [type |-> "setup_choice", scenario |-> s, draw |-> def.id,
                                hero |-> h, cards |-> {c}], page[d].override)
  BY <1>1 DEF Keep
<1>4. PICK c : AppendAndReload(d, [type |-> "setup_choice", scenario |-> s, draw |-> def.id,
                                   hero |-> h, cards |-> {c}], page[d].override)
  BY <1>3
<1>5. PICK e : e = [type |-> "setup_choice", scenario |-> s, draw |-> def.id,
                    hero |-> h, cards |-> {c}]
  OBVIOUS
<1>6. s \in Scenario
  BY <1>1, <1>2, BriefingIs
<1>7. def.id # VillainDraw
  BY <1>3, <1>6, TemplateIs, TemplateAssumption
<1>8. By(e, d).type = "setup_choice" /\ By(e, d).draw = def.id
  BY <1>5 DEF By
<1>9. Sensible(By(e, d), events)
  BY <1>7, <1>8 DEF Sensible, EventTypes
<1>10. page[d].override \in {"none", "questions", "result", "market"}
  BY PageIs DEF Overrides
<1>11. AppendAndReload(d, e, page[d].override)
  BY <1>4, <1>5
<1> QED
  BY <1>9, <1>10, <1>11, ReloadDoes

LEMMA BeginDoes ==
  ASSUME CInv, NEW d \in Device, Begin(d)
  PROVE  Grow /\ Turn
<1>1. Grow
  BY Unmoved DEF Begin
<1>2. PICK q : q = [page[d] EXCEPT !.stale = TRUE, !.override = "none"]
  OBVIOUS
<1>3. page' = [page EXCEPT ![d] = q]
  BY <1>2, PageIs DEF Begin
<1>4. Stays(page[d], q)
  BY <1>2, PageIs DEF Stays, Overrides, PageFields
<1> QED
  BY <1>1, <1>3, <1>4, OnePage

LEMMA FinishDoes ==
  ASSUME CInv, NEW d \in Device, NEW won \in BOOLEAN, Finish(d, won)
  PROVE  Grow /\ Turn
<1>1. Grow
  BY Unmoved DEF Finish
<1>2. PICK q : q = [page[d] EXCEPT !.victory = won, !.override = "questions", !.stale = TRUE]
  OBVIOUS
<1>3. page' = [page EXCEPT ![d] = q]
  BY <1>2, PageIs DEF Finish
<1>4. Stays(page[d], q)
  BY <1>2, PageIs DEF Stays, Overrides, PageFields
<1> QED
  BY <1>1, <1>3, <1>4, OnePage

LEMMA RecordDoes ==
  ASSUME CInv, NEW d \in Device, NEW A, Record(d, A)
  PROVE  Grow /\ Turn
<1>1. PICK s : s = Campaign(d).current
  OBVIOUS
<1>2. PICK e : e = [type |-> "scenario_result", scenario |-> s,
                    victory |-> page[d].victory, answers |-> A]
  OBVIOUS
<1>3. s # None /\ AppendAndWrite(d, e, {"clear", "refresh"}, "result")
  BY <1>1, <1>2 DEF Record
<1>4. s \in Scenario /\ page[d].victory \in BOOLEAN
  BY <1>1, <1>3, PageIs DEF Sane, Overrides
<1>5. /\ By(e, d).type = "scenario_result" /\ By(e, d).scenario = s
      /\ By(e, d).victory = page[d].victory
  BY <1>2 DEF By
<1>6. Sensible(By(e, d), events)
  BY <1>4, <1>5 DEF Sensible, EventTypes
<1> QED
  BY <1>3, <1>6, WriteDoes

LEMMA MoveOnDoes ==
  ASSUME CInv, NEW d \in Device, MoveOn(d)
  PROVE  Grow /\ Turn
<1>1. PICK S : S = Campaign(d)
  OBVIOUS
<1>2. CASE S.completed = <<>>
  <2>1. UNCHANGED <<events, log, state>> /\ page' = [page EXCEPT ![d].override = "none"]
    BY <1>1, <1>2 DEF MoveOn
  <2>2. PICK q : q = [page[d] EXCEPT !.override = "none"]
    OBVIOUS
  <2>3. page' = [page EXCEPT ![d] = q]
    BY <2>1, <2>2, PageIs
  <2>4. Stays(page[d], q)
    BY <2>2, PageIs DEF Stays, Overrides, PageFields
  <2> QED
    BY <2>1, <2>3, <2>4, Unmoved, OnePage
<1>3. CASE S.completed # <<>>
  <2>1. PICK r : r = LastResult(S)
    OBVIOUS
  <2>2. r \in Results
    <3>1. S.completed \in Seq(Results)
      BY <1>1, PageIs DEF Sane
    <3>2. Len(S.completed) \in 1..Len(S.completed)
      BY <1>3, <3>1
    <3> QED
      BY <2>1, <3>1, <3>2 DEF LastResult
  <2>3. PICK e : e = [type |-> "continued", scenario |-> r.scenario, victory |-> r.victory]
    OBVIOUS
  <2>4. AppendAndWrite(d, e, {"refresh"}, "none")
    BY <1>1, <1>3, <2>1, <2>3 DEF MoveOn
  <2>5. /\ By(e, d).type = "continued" /\ By(e, d).scenario = r.scenario
        /\ By(e, d).victory = r.victory
    BY <2>3 DEF By
  <2>6. Sensible(By(e, d), events)
    BY <2>2, <2>5 DEF Sensible, EventTypes, Results
  <2> QED
    BY <2>4, <2>6, WriteDoes
<1> QED
  BY <1>2, <1>3

LEMMA RetryDoes ==
  ASSUME CInv, NEW d \in Device, Retry(d)
  PROVE  Grow /\ Turn
<1>1. Grow
  BY Unmoved DEF Retry
<1>2. PICK q : q = [page[d] EXCEPT !.override = "none"]
  OBVIOUS
<1>3. page' = [page EXCEPT ![d] = q]
  BY <1>2, PageIs DEF Retry
<1>4. Stays(page[d], q)
  BY <1>2, PageIs DEF Stays, Overrides, PageFields
<1> QED
  BY <1>1, <1>3, <1>4, OnePage

LEMMA PickDoes ==
  ASSUME CInv, NEW d \in Device, NEW s \in Scenario, Pick(d, s)
  PROVE  Grow /\ Turn
<1>1. PICK e : e = [type |-> "scenario_chosen", scenario |-> s]
  OBVIOUS
<1>2. AppendAndReload(d, e, "none")
  BY <1>1 DEF Pick
<1>3. By(e, d).type = "scenario_chosen" /\ By(e, d).scenario = s
  BY <1>1 DEF By
<1>4. Sensible(By(e, d), events)
  BY <1>3 DEF Sensible, EventTypes
<1> QED
  BY <1>2, <1>4, ReloadDoes

LEMMA ReadEnvironmentsDoes ==
  ASSUME CInv, NEW d \in Device, ReadEnvironments(d)
  PROVE  Grow /\ Turn
<1>1. PICK e : e = [type |-> "environment_chosen"]
  OBVIOUS
<1>2. AppendAndReload(d, e, page[d].override)
  BY <1>1 DEF ReadEnvironments
<1>3. By(e, d).type = "environment_chosen"
  BY <1>1 DEF By
<1>4. Sensible(By(e, d), events)
  BY <1>3 DEF Sensible, EventTypes
<1>5. page[d].override \in {"none", "questions", "result", "market"}
  BY PageIs DEF Overrides
<1> QED
  BY <1>2, <1>4, <1>5, ReloadDoes

LEMMA BuyDoes ==
  ASSUME CInv, NEW d \in Device, NEW h, NEW c, Buy(d, h, c)
  PROVE  Grow /\ Turn
<1>1. PICK e : e = [type |-> "purchase", hero |-> h, card |-> c,
                    knew |-> {p.event : p \in Campaign(d).purchases}]
  OBVIOUS
<1>2. AppendAndReload(d, e, page[d].override)
  BY <1>1 DEF Buy
<1>3. By(e, d).type = "purchase"
  BY <1>1 DEF By
<1>4. Sensible(By(e, d), events)
  BY <1>3 DEF Sensible, EventTypes
<1>5. page[d].override \in {"none", "questions", "result", "market"}
  BY PageIs DEF Overrides
<1> QED
  BY <1>2, <1>4, <1>5, ReloadDoes

(* What is refunded is a purchase of the log the page has folded.           *)
LEMMA RefundDoes ==
  ASSUME CInv, NEW d \in Device, NEW c, Refund(d, c)
  PROVE  Grow /\ Turn
<1>1. PICK p \in Campaign(d).purchases :
         AppendAndReload(d, [type |-> "purchase_refund", target |-> p.event],
                         page[d].override)
  BY DEF Refund
<1>2. PICK e : e = [type |-> "purchase_refund", target |-> p.event]
  OBVIOUS
<1>3. p.event \in DOMAIN events /\ events[p.event].type = "purchase"
  BY <1>1, PageIs DEF Sane
<1>4. By(e, d).type = "purchase_refund" /\ By(e, d).target = p.event
  BY <1>2 DEF By
<1>5. Sensible(By(e, d), events)
  BY <1>3, <1>4 DEF Sensible, EventTypes
<1>6. page[d].override \in {"none", "questions", "result", "market"}
  BY PageIs DEF Overrides
<1> QED
  BY <1>1, <1>2, <1>5, <1>6, ReloadDoes

LEMMA ShopDoes ==
  ASSUME CInv, NEW d \in Device, Shop(d)
  PROVE  Grow /\ Turn
<1>1. Grow
  BY Unmoved DEF Shop
<1>2. PICK q : q = [page[d] EXCEPT !.override = "market"]
  OBVIOUS
<1>3. page' = [page EXCEPT ![d] = q]
  BY <1>2, PageIs DEF Shop
<1>4. Stays(page[d], q)
  BY <1>2, PageIs DEF Stays, Overrides, PageFields
<1> QED
  BY <1>1, <1>3, <1>4, OnePage

LEMMA DoneShoppingDoes ==
  ASSUME CInv, NEW d \in Device, DoneShopping(d)
  PROVE  Grow /\ Turn
<1>1. Grow
  BY Unmoved DEF DoneShopping
<1>2. PICK q : q = [page[d] EXCEPT !.override = "none"]
  OBVIOUS
<1>3. page' = [page EXCEPT ![d] = q]
  BY <1>2, PageIs DEF DoneShopping
<1>4. Stays(page[d], q)
  BY <1>2, PageIs DEF Stays, Overrides, PageFields
<1> QED
  BY <1>1, <1>3, <1>4, OnePage

LEMMA ConcedeDoes ==
  ASSUME CInv, NEW d \in Device, Concede(d)
  PROVE  Grow /\ Turn
<1>1. Grow
  BY Unmoved DEF Concede
<1>2. PICK q : q = [page[d] EXCEPT !.todo = @ \cup {"concede"}]
  OBVIOUS
<1>3. page' = [page EXCEPT ![d] = q]
  BY <1>2, PageIs DEF Concede
<1>4. Stays(page[d], q)
  BY <1>2, PageIs DEF Stays, Overrides, PageFields
<1> QED
  BY <1>1, <1>3, <1>4, OnePage

LEMMA ConcededDoes ==
  ASSUME CInv, NEW d \in Device, Conceded(d)
  PROVE  Grow /\ Turn
<1>1. PICK e : e = [type |-> "campaign_conceded"]
  OBVIOUS
<1>2. By(e, d).type = "campaign_conceded"
  BY <1>1 DEF By
<1>3. Sensible(By(e, d), events)
  BY <1>2 DEF Sensible, EventTypes
<1>4. Append1(d, e)
  BY <1>1 DEF Conceded
<1>5. Grow
  BY <1>3, <1>4, Appended
<1>6. PICK q : q = [page[d] EXCEPT !.todo = (@ \ {"concede"}) \cup {"refresh"}, !.then = "none"]
  OBVIOUS
<1>7. page' = [page EXCEPT ![d] = q]
  BY <1>6, PageIs DEF Conceded
<1>8. Stays(page[d], q)
  BY <1>6, PageIs DEF Stays, Overrides, PageFields
<1> QED
  BY <1>5, <1>7, <1>8, OnePage

LEMMA ClearTimerDoes ==
  ASSUME CInv, NEW d \in Device, ClearTimer(d)
  PROVE  Grow /\ Turn
<1>1. Grow
  BY Unmoved DEF ClearTimer
<1>2. PICK q : q = [page[d] EXCEPT !.todo = @ \ {"clear"}]
  OBVIOUS
<1>3. page' = [page EXCEPT ![d] = q]
  BY <1>2, PageIs DEF ClearTimer
<1>4. Stays(page[d], q)
  BY <1>2, PageIs DEF Stays, Overrides, PageFields
<1> QED
  BY <1>1, <1>3, <1>4, OnePage

LEMMA RefreshFinishedDoes ==
  ASSUME CInv, NEW d \in Device, RefreshFinished(d)
  PROVE  Grow /\ Turn
<1>1. Grow
  BY Unmoved DEF RefreshFinished
<1>2. PICK q : q = [page[d] EXCEPT !.todo = @ \ {"refresh"}, !.override = page[d].then,
                                    !.stale = TRUE]
  OBVIOUS
<1>3. page' = [page EXCEPT ![d] = q]
  BY <1>2, PageIs DEF RefreshFinished
<1>4. Stays(page[d], q)
  BY <1>2, PageIs DEF Stays, Overrides, PageFields
<1> QED
  BY <1>1, <1>3, <1>4, OnePage

(* Two devices unite their logs, somewhere in the order of time.            *)
LEMMA SyncDoes ==
  ASSUME CInv, NEW d \in Device, NEW e \in Device, Sync(d, e)
  PROVE  Grow /\ Turn
<1>1. events' = events /\ page' = page
  BY DEF Sync
<1>2. /\ DOMAIN log = Device /\ DOMAIN state = Device
      /\ \A c \in Device : log[c] \subseteq DOMAIN events
  BY DEF CInv, StatesSound
<1>3. /\ log' = [log EXCEPT ![e] = @ \cup log[d]]
      /\ state' = [state EXCEPT ![e] = Fold(events, log'[e])]
  BY DEF Sync
<1>4. /\ log[e] \subseteq log'[e] /\ log'[e] \subseteq DOMAIN events'
      /\ state'[e] = Fold(events', log'[e])
  BY <1>1, <1>2, <1>3
<1>5. \A c \in Device \ {e} : log'[c] = log[c] /\ state'[c] = state[c]
  BY <1>2, <1>3
<1>6. LogSound(events') /\ Extends(events, events')
  BY <1>1, Itself DEF CInv
<1>7. Grow
  BY <1>2, <1>3, <1>4, <1>5, <1>6 DEF Grow
<1> QED
  BY <1>1, <1>7, SamePages

(* Every concession in force is taken back, and nothing else.               *)
LEMMA ResumeDoes ==
  ASSUME CInv, NEW d \in Device, Resume(d)
  PROVE  Grow /\ Turn
<1>1. PICK n \in Nat : n = Len(events) /\ DOMAIN events = 1..n
  BY ListIs DEF CInv
<1>2. PICK C : C = Concessions(d)
  OBVIOUS
<1>3. /\ DOMAIN log = Device /\ DOMAIN state = Device /\ log[d] \subseteq 1..n
  BY <1>1 DEF CInv, StatesSound
<1>4. C \subseteq 1..n /\ \A i \in C : events[i].type = "campaign_conceded"
  BY <1>2, <1>3 DEF Concessions
<1>5. IsFiniteSet(C)
  <2>1. IsFiniteSet(1..n)
    BY FS_Interval
  <2>2. C \in SUBSET (1..n)
    BY <1>4
  <2> QED
    BY <2>1, <2>2, FS_Subset
<1>6. PICK k \in Nat : k = Cardinality(C)
  BY <1>5, FS_CardinalityType
<1>7. PICK one : one = CHOOSE f \in [1..k -> C] :
                          \A i, j \in DOMAIN f : i # j => f[i] # f[j]
  OBVIOUS
<1>8. one \in [1..k -> C]
  <2>1. PICK f : f \in Bijection(1..k, C)
    BY <1>5, <1>6, FS_CardinalityType DEF ExistsBijection
  <2>2. f \in [1..k -> C] /\ \A i, j \in DOMAIN f : i # j => f[i] # f[j]
    BY <2>1 DEF Bijection, Injection, IsInjective
  <2> QED
    BY <1>7, <2>2
<1>9. PICK back : back = [i \in DOMAIN one |-> [type |-> "revoke", target |-> one[i], by |-> d]]
  OBVIOUS
<1>10. /\ events' = events \o back
       /\ log' = [log EXCEPT ![d] = @ \cup (n+1 .. n+k)]
       /\ state' = [state EXCEPT ![d] = Fold(events', log'[d])]
       /\ page' = page
  BY <1>1, <1>2, <1>6, <1>7, <1>9 DEF Resume
<1>11. /\ Len(events') = n + k /\ DOMAIN events' = 1..(n + k)
       /\ \A i \in 1..n : events'[i] = events[i]
       /\ \A i \in (n + 1)..(n + k) : events'[i] = back[i - n]
       /\ IsList(events')
  <2>1. PICK R : R = {events[i] : i \in DOMAIN events}
                       \cup [type : {"revoke"}, target : C, by : {d}]
    OBVIOUS
  <2>2. events \in Seq(R)
    <3>1. events \in Seq({events[i] : i \in DOMAIN events})
      BY DEF CInv, LogSound, IsList
    <3> QED
      BY <2>1, <3>1
  <2>3. back \in Seq(R) /\ Len(back) = k
    <3>1. DOMAIN one = 1..k /\ \A i \in 1..k : one[i] \in C
      BY <1>8
    <3>2. back \in [1..k -> R]
      BY <1>9, <2>1, <3>1
    <3> QED
      BY <3>2
  <2>4. events' \in Seq(R)
    BY <1>10, <2>2, <2>3
  <2>5. /\ Len(events') = n + k /\ DOMAIN events' = 1..(n + k)
        /\ \A i \in 1..n : events'[i] = events[i]
        /\ \A i \in (n + 1)..(n + k) : events'[i] = back[i - n]
    <3>1. events' = events \o back
      BY <1>10
    <3>2. Len(events') = n + k
      <4>1. Len(events \o back) = Len(events) + Len(back)
        BY <2>2, <2>3
      <4> QED
        BY <3>1, <4>1, <1>1, <2>3
    <3>3. DOMAIN events' = 1..(n + k)
      BY <3>2, <2>4
    <3>4. ASSUME NEW i \in 1..n
          PROVE  events'[i] = events[i]
      BY <3>1, <1>1, <2>2, <2>3
    <3>5. ASSUME NEW i \in (n + 1)..(n + k)
          PROVE  events'[i] = back[i - n]
      BY <3>1, <1>1, <2>2, <2>3
    <3> QED
      BY <3>2, <3>3, <3>4, <3>5
  <2>6. IsList(events')
    <3>1. PICK V : V = {events'[i] : i \in 1..(n + k)}
      OBVIOUS
    <3>2. events' \in [1..(n + k) -> V]
      <4>1. \A i \in 1..(n + k) : events'[i] \in V
        BY <3>1
      <4>2. events' = [i \in 1..(n + k) |-> events'[i]]
        BY <2>4, <2>5
      <4> QED
        BY <4>1, <4>2
    <3>3. events' \in Seq(V)
      BY <3>2
    <3> QED
      BY <2>5, <3>1, <3>3 DEF IsList
  <2> QED
    BY <2>5, <2>6
<1>12. Extends(events, events')
  BY <1>1, <1>11 DEF Extends
<1>13. ASSUME NEW i \in DOMAIN events' \ DOMAIN events
       PROVE  Sensible(events'[i], events)
  <2>1. i \in (n + 1)..(n + k) /\ i - n \in 1..k
    BY <1>1, <1>11
  <2>2. events'[i] = [type |-> "revoke", target |-> one[i - n], by |-> d]
    BY <1>8, <1>9, <1>11, <2>1
  <2>3. one[i - n] \in C
    BY <1>8, <2>1
  <2>4. one[i - n] \in DOMAIN events /\ events[one[i - n]].type = "campaign_conceded"
    BY <1>1, <1>4, <2>3
  <2> QED
    BY <2>2, <2>4 DEF Sensible, EventTypes
<1>14. LogSound(events')
  BY <1>11, <1>12, <1>13, LogExtends DEF CInv
<1>15. /\ log[d] \subseteq log'[d] /\ log'[d] \subseteq DOMAIN events'
       /\ state'[d] = Fold(events', log'[d])
  <2>1. log'[d] = log[d] \cup (n+1 .. n+k)
    BY <1>3, <1>10
  <2>2. 1..n \subseteq 1..(n + k) /\ (n+1 .. n+k) \subseteq 1..(n + k)
    OBVIOUS
  <2> QED
    BY <1>3, <1>10, <1>11, <2>1, <2>2
<1>16. \A c \in Device \ {d} : log'[c] = log[c] /\ state'[c] = state[c]
  BY <1>3, <1>10
<1>17. Grow
  BY <1>3, <1>10, <1>12, <1>14, <1>15, <1>16 DEF Grow
<1> QED
  BY <1>10, <1>17, SamePages

-----------------------------------------------------------------------------
LEMMA InitCInv ==
  ASSUME Init
  PROVE  CInv
<1>1. PICK first \in Device :
         /\ events = <<[type |-> "setup", by |-> first]>>
         /\ log = [d \in Device |-> IF d = first THEN {1} ELSE {}]
  BY DEF Init
<1>2. LogSound(events)
  <2>1. Len(events) = 1 /\ DOMAIN events = {1} /\ events[1].type = "setup"
    BY <1>1
  <2>2. IsList(events)
    BY <1>1 DEF IsList
  <2> QED
    BY <2>1, <2>2 DEF LogSound
<1>3. StatesSound
  <2>1. state = [d \in Device |-> Fold(events, log[d])]
    BY DEF Init
  <2>2. \A d \in Device : log[d] \subseteq DOMAIN events
    BY <1>1
  <2> QED
    BY <1>1, <1>2, <2>1, <2>2, FoldSane DEF StatesSound
<1>4. PagesSound
  <2>1. page = [d \in Device |-> Unmounted]
    BY DEF Init
  <2>2. PICK q : q = Unmounted
    OBVIOUS
  <2>3. q.campaign = EmptyState /\ q.dealing = {} /\ Overrides(q)
    BY <2>2 DEF Unmounted, Mounted, Overrides, PageFields
  <2>4. PageSound(q, events)
    BY <2>3, EmptySane DEF PageSound
  <2> QED
    BY <2>1, <2>2, <2>4 DEF PagesSound
<1> QED
  BY <1>2, <1>3, <1>4 DEF CInv

LEMMA PlayDoes ==
  ASSUME CInv, NEW d \in Device, Play(d)
  PROVE  Grow /\ Turn
  BY DealAgainDoes, DealOneDoes, ActDoes, KeepDoes, BeginDoes, FinishDoes, RecordDoes,
     MoveOnDoes, RetryDoes, ReadEnvironmentsDoes, ConcedeDoes, PickDoes, RefundDoes,
     BuyDoes, ShopDoes, DoneShoppingDoes, ClearTimerDoes, ConcededDoes,
     RefreshFinishedDoes DEF Play

LEMMA StepDoes ==
  ASSUME CInv, [Next]_vars
  PROVE  Grow /\ Turn
<1>1. CASE Next
  BY <1>1, OpenDoes, CloseDoes, LoadDoes, ResumeDoes, PlayDoes, SyncDoes DEF Next
<1>2. CASE UNCHANGED vars
  BY <1>2, Unmoved, SamePages DEF vars
<1> QED
  BY <1>1, <1>2

(* Every page has folded part of the log as it is, and the state kept of a  *)
(* device notes the villains of the device's own log (store.ts, engine.ts). *)
THEOREM CampaignInvariant == Spec => []CInv
<1>1. Init => CInv
  BY InitCInv
<1>2. CInv /\ [Next]_vars => CInv'
  BY StepDoes, Stepped
<1> QED
  BY <1>1, <1>2, PTL DEF Spec

(* The villain noted for a job is changed by nothing but another deal: not  *)
(* by a result, a replay, a refund, a concession taken back, or the log of  *)
(* another device coming in between (engine.ts replayedDraws), whatever the *)
(* template.                                                                *)
THEOREM CampaignVillainKept == Spec => VillainKept
<1>1. CInv /\ [Next]_vars => Kept
  BY StepDoes, Stepped
<1>2. Kept => (\A d \in Device :
          (\A i \in log'[d] \ log[d] : events'[i].type # "setup_draw") =>
              \A s \in Scenario : state'[d].draws[s][VillainDraw] =
                                   state[d].draws[s][VillainDraw])
  BY DEF Kept
<1> QED
  BY <1>1, <1>2, CampaignInvariant, PTL DEF Spec, VillainKept
=============================================================================

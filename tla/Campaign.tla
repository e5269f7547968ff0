------------------------------ MODULE Campaign ------------------------------
(***************************************************************************)
(* One campaign played on several devices: its append-only log, the run    *)
(* row beside it, and the page that plays it (campaign/store.ts,           *)
(* CampaignRun.svelte, CampaignMarket.svelte, CampaignBriefing.svelte).    *)
(*                                                                         *)
(* The page never writes a state.  It folds the events it loaded, offers   *)
(* what that state allows, appends, and loads again; everything between an *)
(* append and the next load is done on a state already out of date.        *)
(***************************************************************************)
EXTENDS CampaignEngine

CONSTANTS Device,
          Answer,      \* the answer sets a questionnaire may come back with
          MaxEvents,   \* bound on the events ever appended
          MaxDetours   \* bound on the detours: see Detour

VARIABLES events,   \* every event appended anywhere, by timestamp
          log,      \* per device, the positions in `events' of those it holds
          state,    \* per device, its log folded, kept here to fold once a change
          row,      \* per device, the run row: finished, and its clock
          page,     \* per device, CampaignRun, mounted or not
          detours

vars == <<events, log, state, row, page, detours>>

Mounted(S) ==
    [open |-> TRUE, campaign |-> S, stale |-> FALSE,  \* reload() asked for
     dealing |-> {},                    \* what ensureDealt has yet to append
     todo |-> {}, then |-> "none",      \* the rest of a handler, and its end
     held |-> FALSE,                    \* `finished' in its copy of the row
     override |-> "none", victory |-> TRUE]

Unmounted == [Mounted(EmptyState) EXCEPT !.open = FALSE]

(* startCampaign, on the device `first'.                                    *)
Init ==
    /\ \E first \in Device :
          /\ events = <<[type |-> "setup", by |-> first]>>
          /\ log = [d \in Device |-> IF d = first THEN {1} ELSE {}]
    /\ state = [d \in Device |-> Fold(events, log[d])]
    /\ row = [d \in Device |-> [finished |-> FALSE, clock |-> "zero", timed |-> None]]
    /\ page = [d \in Device |-> Unmounted]
    /\ detours = 0

Campaign(d) == page[d].campaign

(* placed: which page a run belongs on, from its state alone.               *)
Placed(S, r) ==
    CASE S.lost -> "lost"
      [] ~S.lost /\ S.finished -> "finished"
      [] ~S.lost /\ ~S.finished /\ S.awaiting ->
            IF S.offer # {} THEN "environment" ELSE "choice"
      [] OTHER -> IF \/ r.clock = "running"
                     \/ S.current # None /\ r.timed = S.current
                  THEN "playing"
                  ELSE IF S.current = None THEN "between" ELSE "briefing"

Shown(d) == IF page[d].override # "none" THEN page[d].override
            ELSE Placed(Campaign(d), row[d])

-----------------------------------------------------------------------------
(* The page shows what the log says and nothing is under way.               *)
UpToDate(d) == ~page[d].stale /\ page[d].dealing = {} /\ page[d].todo = {}

(* Anything but the straight way through a campaign won scenario after      *)
(* scenario on one page costs a detour: a tap or a deal on a page out of    *)
(* date, a page closed, a synchronisation, and the steps a table may skip.  *)
Detour(n) == detours + n <= MaxDetours /\ detours' = detours + n

(* A tap on the page of d, whatever it is still busy with.                  *)
Tap(d, shown, n) ==
    /\ page[d].open
    /\ Shown(d) \in shown
    /\ Detour(IF UpToDate(d) THEN n ELSE n + 1)

(* An event, with the device that appended it.                              *)
By(e, d) == [field \in DOMAIN e \cup {"by"} |-> IF field = "by" THEN d ELSE e[field]]

Append1(d, e) ==
    /\ Len(events) < MaxEvents
    /\ events' = Append(events, By(e, d))
    /\ log' = [log EXCEPT ![d] = @ \cup {Len(events) + 1}]
    /\ state' = [state EXCEPT ![d] = Fold(events', log'[d])]

(* A handler of one append and a reload.                                    *)
AppendAndReload(d, e, override) ==
    /\ Append1(d, e)
    /\ page' = [page EXCEPT ![d].stale = TRUE, ![d].override = override]
    /\ UNCHANGED row

(* A handler whose append is followed by writes to the row, of which it     *)
(* holds the copy it was called with.                                       *)
AppendAndWrite(d, e, todo, then) ==
    /\ Append1(d, e)
    /\ page' = [page EXCEPT ![d].todo = @ \cup todo, ![d].then = then,
                            ![d].held = row[d].finished]
    /\ UNCHANGED row

(* ensureDealt, on the state the page has: every setup draw owed, the       *)
(* villain, the environments.                                               *)
Dealt(S) ==
    {draws \cup villain \cup offer :
        draws \in {{[type |-> "setup_draw", scenario |-> S.current, draw |-> dh[1].id,
                     hero |-> dh[2], cards |-> hand[dh]] : dh \in DrawsOwed(S)} :
                   hand \in {f \in [DrawsOwed(S) -> SUBSET Card] :
                                \A dh \in DrawsOwed(S) :
                                    f[dh] \in Hands(DrawPool(S, dh[1]), dh[1].count)}},
        villain \in IF VillainsFor(S) = {} THEN {{}}
                    ELSE {{[type |-> "setup_draw", scenario |-> S.current,
                            draw |-> VillainDraw, hero |-> None, cards |-> {v}]} :
                          v \in VillainsFor(S)},
        offer \in IF OffersFor(S) = {} THEN {{}}
                  ELSE {{[type |-> "environments_offered", cards |-> H]} : H \in OffersFor(S)}}

(* The table plays on one device at a time.                                 *)
Open(d) ==
    /\ \A e \in Device : ~page[e].open
    /\ 1 \in log[d]
    /\ \E owed \in Dealt(state[d]) :
          page' = [page EXCEPT ![d] = [Mounted(state[d]) EXCEPT !.dealing = owed]]
    /\ UNCHANGED <<events, log, state, row, detours>>

(* The tab is closed, whatever it was doing.                                *)
Close(d) ==
    /\ page[d].open
    /\ Detour(1)
    /\ page' = [page EXCEPT ![d] = Unmounted]
    /\ UNCHANGED <<events, log, state, row>>

(* The events of the last reload() arrive, and what is owed is dealt unless *)
(* ensureDealt is still at it.                                              *)
Load(d) ==
    /\ page[d].stale
    /\ \E owed \in IF page[d].dealing = {} THEN Dealt(state[d]) ELSE {page[d].dealing} :
          page' = [page EXCEPT ![d].stale = FALSE, ![d].campaign = state[d],
                               ![d].dealing = owed]
    /\ UNCHANGED <<events, log, state, row, detours>>

-----------------------------------------------------------------------------
(* The fold is computed again from the same events, because the run row or  *)
(* the heroes' cards arrived: the effect runs again.                        *)
DealAgain(d) ==
    /\ page[d].open
    /\ page[d].dealing = {}
    /\ Detour(1)
    /\ \E owed \in Dealt(Campaign(d)) \ {{}} :
          page' = [page EXCEPT ![d].dealing = owed]
    /\ UNCHANGED <<events, log, state, row>>

(* One append of ensureDealt; after the last, the page loads again.         *)
DealOne(d) ==
    /\ page[d].dealing # {}
    /\ LET e == CHOOSE x \in page[d].dealing : TRUE
       IN  /\ Append1(d, e)
           /\ page' = [page EXCEPT ![d].dealing = @ \ {e},
                                   ![d].stale = @ \/ page[d].dealing = {e}]
    /\ UNCHANGED <<row, detours>>

-----------------------------------------------------------------------------
(* The briefing: setup actions, a card kept out of an offer, "I'm ready".   *)
Act(d, h) ==
    LET S == Campaign(d)  action == Template.action[S.current]
    IN  /\ Tap(d, {"briefing"}, 1)
        /\ action.id # None
        /\ action.perHero = (h # None)
        /\ Evaluate(S, action.enabledWhen, S.current, NoAnswers, h)
        /\ action.repeatable \/ [scenario |-> S.current, hero |-> h] \notin S.taken
        /\ AppendAndReload(d, [type |-> "setup_action", scenario |-> S.current, hero |-> h],
                           page[d].override)

Keep(d) ==
    LET S == Campaign(d)
    IN  /\ Tap(d, {"briefing"}, 1)
        /\ \E def \in Template.draws[S.current], h \in Hero \cup {None} :
              /\ Cardinality(S.draws[S.current][def.id][h]) > 1
              /\ \E card \in S.draws[S.current][def.id][h] :
                    AppendAndReload(d, [type |-> "setup_choice", scenario |-> S.current,
                                        draw |-> def.id, hero |-> h, cards |-> {card}],
                                    page[d].override)

Begin(d) ==
    /\ Tap(d, {"briefing"}, 0)
    /\ row' = IF row[d].clock = "running" THEN row
              ELSE [row EXCEPT ![d].clock = "running", ![d].timed = Campaign(d).current]
    /\ page' = [page EXCEPT ![d].stale = TRUE, ![d].override = "none"]
    /\ UNCHANGED <<events, log, state>>

Paused(r) == IF r.clock = "running" THEN [r EXCEPT !.clock = "paused"] ELSE r

(* Victory or defeat: the clock stops and the questions are asked.          *)
Finish(d, won) ==
    /\ Tap(d, {"playing"}, IF won THEN 0 ELSE 1)
    /\ Campaign(d).current # None
    /\ row' = [row EXCEPT ![d] = Paused(@)]
    /\ page' = [page EXCEPT ![d].victory = won, ![d].override = "questions",
                            ![d].stale = TRUE]
    /\ UNCHANGED <<events, log, state>>

(* recordResult: the event, the clock back to zero, `finished' refreshed.   *)
Record(d, A) ==
    /\ Tap(d, {"questions"}, IF A.eliminated = {} THEN 0 ELSE 1)
    /\ Campaign(d).current # None
    /\ "clear" \notin page[d].todo \/ page[d].then # "result"      \* submitting
    /\ AppendAndWrite(d, [type |-> "scenario_result", scenario |-> Campaign(d).current,
                          victory |-> page[d].victory, answers |-> A],
                      {"clear", "refresh"}, "result")

LastResult(S) == S.completed[Len(S.completed)]

(* Whether the campaign lets the table move on from this result.            *)
CanContinue(S) ==
    Len(S.completed) > 0 =>
        LET outcome == OutcomeOf(LastResult(S))
        IN  \/ LastResult(S).victory
            \/ outcome.onContinue # <<>>
            \/ \E i \in DOMAIN outcome.next : outcome.next[i].to = "choose"

(* The button of the result is there only if the campaign lets them; that   *)
(* of the page between two scenarios always is.                             *)
MoveOn(d) ==
    LET S == Campaign(d)
    IN  /\ Tap(d, IF CanContinue(S) THEN {"result", "between"} ELSE {"between"}, 0)
        /\ IF S.completed = <<>>
              THEN /\ page' = [page EXCEPT ![d].override = "none"]
                   /\ UNCHANGED <<events, log, state, row>>
              ELSE AppendAndWrite(d, [type |-> "continued",
                                      scenario |-> LastResult(S).scenario,
                                      victory |-> LastResult(S).victory],
                                  {"refresh"}, "none")

(* After a defeat, the same scenario again: nothing is appended.            *)
Retry(d) ==
    /\ Tap(d, {"result"}, 0)
    /\ Campaign(d).completed # <<>>
    /\ ~LastResult(Campaign(d)).victory
    /\ page' = [page EXCEPT ![d].override = "none"]
    /\ UNCHANGED <<events, log, state, row>>

Pick(d, s) ==
    /\ Tap(d, {"choice"}, 0)
    /\ s \in Choosable(Campaign(d))
    /\ AppendAndReload(d, [type |-> "scenario_chosen", scenario |-> s], "none")

ReadEnvironments(d) ==
    /\ Tap(d, {"environment"}, 0)
    /\ AppendAndReload(d, [type |-> "environment_chosen"], page[d].override)

(* The market is a page of its own after a result, left for wherever the    *)
(* run belongs, and part of the briefing and of the page between scenarios. *)
Shop(d) ==
    /\ Tap(d, {"result"}, 1)
    /\ page' = [page EXCEPT ![d].override = "market"]
    /\ UNCHANGED <<events, log, state, row>>

DoneShopping(d) ==
    /\ Tap(d, {"market"}, 0)
    /\ page' = [page EXCEPT ![d].override = "none"]
    /\ UNCHANGED <<events, log, state, row>>

AtMarket(d) == Tap(d, {"briefing", "between", "market"},
                   IF Shown(d) = "market" THEN 0 ELSE 1)

(* take: nothing is checked but the button, drawn from the page's own fold; *)
(* `knew' is a history of the purchases it had folded.                      *)
Buy(d, h, c) ==
    /\ AtMarket(d)
    /\ CanBuy(Campaign(d), h, c)
    /\ AppendAndReload(d, [type |-> "purchase", hero |-> h, card |-> c,
                           knew |-> {p.event : p \in Campaign(d).purchases}],
                       page[d].override)

Refund(d, c) ==
    /\ AtMarket(d)
    /\ \E p \in Campaign(d).purchases :
          /\ p.card = c
          /\ \A q \in Campaign(d).purchases : q.card = c => p.event <= q.event
          /\ AppendAndReload(d, [type |-> "purchase_refund", target |-> p.event],
                             page[d].override)

(* stopCampaign: the clock is stopped, and then the campaign conceded.      *)
Concede(d) ==
    /\ Tap(d, {"briefing", "result", "market", "environment", "choice", "between"}, 1)
    /\ ~Campaign(d).finished
    /\ "concede" \notin page[d].todo                               \* stopping
    /\ row' = [row EXCEPT ![d] = Paused(@)]
    /\ page' = [page EXCEPT ![d].todo = @ \cup {"concede"}]
    /\ UNCHANGED <<events, log, state>>

-----------------------------------------------------------------------------
(* The writes that follow an append, each a statement of its own.           *)
(* clearTimer writes back the whole copy.                                   *)
ClearTimer(d) ==
    /\ "clear" \in page[d].todo
    /\ row' = [row EXCEPT ![d] = [finished |-> page[d].held, clock |-> "zero", timed |-> None]]
    /\ page' = [page EXCEPT ![d].todo = @ \ {"clear"}]
    /\ UNCHANGED <<events, log, state, detours>>

Conceded(d) ==
    /\ "concede" \in page[d].todo
    /\ Append1(d, [type |-> "campaign_conceded"])
    /\ page' = [page EXCEPT ![d].todo = (@ \ {"concede"}) \cup {"refresh"}, ![d].then = "none"]
    /\ UNCHANGED <<row, detours>>

(* refreshFinished, on the row as it is, and the handler's end.             *)
RefreshFinished(d) ==
    /\ "refresh" \in page[d].todo /\ "clear" \notin page[d].todo
    /\ row' = [row EXCEPT ![d].finished = state[d].finished]
    /\ page' = [page EXCEPT ![d].todo = @ \ {"refresh"}, ![d].override = page[d].then,
                            ![d].stale = TRUE]
    /\ UNCHANGED <<events, log, state, detours>>

(* resumeCampaign, from the campaign's own page: one transaction takes back *)
(* every concession in force.                                               *)
Concessions(d) == {i \in log[d] : /\ events[i].type = "campaign_conceded"
                                  /\ ~Withdrawn(events, log[d], i)}

Resume(d) ==
    /\ \A e \in Device : ~page[e].open
    /\ Concessions(d) # {}
    /\ Detour(0)
    /\ LET n == Len(events)  C == Concessions(d)
           one == CHOOSE f \in [1..Cardinality(C) -> C] :
                      \A i, j \in DOMAIN f : i # j => f[i] # f[j]
       IN  /\ n + Cardinality(C) <= MaxEvents
           /\ events' = events \o [i \in DOMAIN one |->
                                        [type |-> "revoke", target |-> one[i], by |-> d]]
           /\ log' = [log EXCEPT ![d] = @ \cup (n+1 .. n+Cardinality(C))]
           /\ state' = [state EXCEPT ![d] = Fold(events', log'[d])]
           /\ row' = [row EXCEPT ![d].finished = state'[d].finished]
    /\ UNCHANGED page

(* Two devices synchronise: events are united, and the row of either may be *)
(* replaced by the other's, its own clock kept.                             *)
Sync(d, e) ==
    /\ log[d] \ log[e] # {}
    /\ Detour(1)
    /\ log' = [log EXCEPT ![e] = @ \cup log[d]]
    /\ state' = [state EXCEPT ![e] = Fold(events, log'[e])]
    /\ \/ UNCHANGED row
       \/ row' = [row EXCEPT ![e].finished = row[d].finished]
    /\ UNCHANGED <<events, page>>

-----------------------------------------------------------------------------
Play(d) ==
    \/ DealAgain(d) \/ DealOne(d)
    \/ \E h \in Hero \cup {None} : Act(d, h)
    \/ Keep(d) \/ Begin(d)
    \/ \E won \in BOOLEAN : Finish(d, won)
    \/ \E A \in Answer : Record(d, A)
    \/ MoveOn(d) \/ Retry(d) \/ ReadEnvironments(d) \/ Concede(d)
    \/ Shop(d) \/ DoneShopping(d)
    \/ \E s \in Scenario : Pick(d, s)
    \/ \E c \in DOMAIN Template.market : Refund(d, c) \/ \E h \in Hero : Buy(d, h, c)
    \/ ClearTimer(d) \/ Conceded(d) \/ RefreshFinished(d)

Next ==
    \E d \in Device :
        \/ Open(d) \/ Close(d) \/ Load(d) \/ Resume(d) \/ Play(d)
        \/ \E e \in Device \ {d} : Sync(d, e)

Spec == Init /\ [][Next]_vars

-----------------------------------------------------------------------------
TypeOK ==
    /\ \A d \in Device :
          /\ log[d] \subseteq DOMAIN events
          /\ row[d] \in [finished : BOOLEAN, clock : {"zero", "running", "paused"},
                         timed : Scenario \cup {None}]
          /\ page[d].todo \subseteq {"clear", "refresh", "concede"}
          /\ page[d].held \in BOOLEAN
          /\ page[d].override \in {"none", "questions", "result", "market"}
          /\ Campaign(d).current \in Scenario \cup {None}
          /\ \A c \in Counter : ~IsHeroScoped(c) =>
                Campaign(d).counters[c] \in Template.counters[c].min .. Template.counters[c].max
    /\ detours \in 0..MaxDetours

(* Every campaign some device holds, folded as that device would.           *)
States == {S \in {state[d] : d \in Device} : S.started}

Alone == \A i, j \in DOMAIN events : events[i].by = events[j].by

(* Every fold is a well-formed state, and the finale is held back until     *)
(* every other job is won or fallen, whatever page was out of date when it  *)
(* was picked and whatever another device adds afterwards (rules.ts         *)
(* choosableScenarios).                                                     *)
FinaleLast ==
    /\ TypeOK
    /\ \A S \in States, s \in Scenario \ {Template.finale} :
          S.current = Template.finale \/ Template.finale \in Settled(S)
              => s \in Won(S) \/ Failed(S, s)

(* A setup action that is not repeatable counts once per attempt, however   *)
(* often it was tapped and on however many devices (applySetupAction).      *)
OneOffOnce ==
    \A S \in States, s \in Scenario :
        LET action == Template.action[s]
        IN  action.id # None /\ ~action.repeatable =>
                S.counters[action.gives] <=
                    1 + Cardinality({i \in DOMAIN S.completed : S.completed[i].scenario = s})

(* Credits are the victories a hero was still standing in, less the price   *)
(* of what the hero holds: a reward never reaches the eliminated, a refund  *)
(* returns exactly what was paid, and none is paid twice.                   *)
CreditsBalance ==
    \A S \in States, h \in Hero :
        LET held == {p \in S.purchases : p.hero = h}
            earned == {i \in DOMAIN S.completed :
                          /\ S.completed[i].victory
                          /\ h \notin events[S.completed[i].event].answers.eliminated}
            spent[P \in SUBSET held] ==
                IF P = {} THEN 0
                ELSE LET p == CHOOSE p \in P : TRUE
                     IN  Template.market[p.card] + spent[P \ {p}]
        IN  S.heroCounters[Template.credits][h] = Cardinality(earned) - spent[held]

(* The last purchase of those that overlap is made without knowing of the   *)
(* others; here nobody bought so.                                           *)
Informed(S) ==
    \A p, q \in S.purchases : p.event < q.event => p.event \in events[q.event].knew

OneCopy(S) == \A p, q \in S.purchases : p.card = q.card => p = q

(* Purchases made one after the other, whatever was won, lost, refunded or  *)
(* united in between, give each card once and leave nobody in debt.         *)
SoldByTheRules ==
    \A S \in States : Informed(S) =>
        /\ OneCopy(S)
        /\ \A h \in Hero : S.heroCounters[Template.credits][h] >= 0

(* What an action hands out is what its rules allow on however many devices *)
(* it is tapped, the credits always add up, and the market keeps to its     *)
(* rules (rules.ts offersFor) as long as nobody buys on a page that has not *)
(* folded a purchase made before.                                           *)
MarketHonest == OneOffOnce /\ CreditsBalance /\ SoldByTheRules

(* The villain noted for a job is the one it keeps: only another deal can   *)
(* change it, never a result, a retry or an undo (engine.ts replayedDraws). *)
VillainKept ==
    [][\A d \in Device :
          (\A i \in log'[d] \ log[d] : events'[i].type # "setup_draw") =>
              \A s \in Scenario : state'[d].draws[s][VillainDraw] =
                                   state[d].draws[s][VillainDraw]]_vars

(* Played on one device, a campaign that is not over always has something   *)
(* to do next: a scenario, an offer to read, or a job left to choose.       *)
NoDeadEnd ==
    Alone => \A S \in States :
                 ~S.finished => \/ S.current # None
                                \/ S.awaiting /\ S.offer \cup Choosable(S) # {}
=============================================================================

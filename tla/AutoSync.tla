------------------------------ MODULE AutoSync ------------------------------
(***************************************************************************)
(* When a browser synchronises: auto.svelte.ts (a write owes a sync, and a *)
(* timer pays it), sync.svelte.ts (one run per tab, and one tab at a time  *)
(* where the browser has Web Locks) and live.svelte.ts with                *)
(* server/stream.go (the account's event stream).                          *)
(*                                                                         *)
(* What a run does is modules SyncFeed and SyncDevices; here it is three   *)
(* awaits, and all that counts is which writes they were in time for.  The *)
(* browser is signed in with synchronisation on, and its tabs share the    *)
(* database, the localStorage flag and the network.                        *)
(***************************************************************************)
EXTENDS Integers, Tabs

CONSTANTS Locks,        \* whether the browser has navigator.locks
          Starts,       \* what starts a run besides the timer
          Backlog,      \* streamBacklog
          MaxEdits,     \* bounds, for TLC
          MaxOthers,
          MaxFaults

ASSUME AutoAssumption ==
    /\ Locks \in BOOLEAN
    /\ Starts \subseteq {"live", "manual"}
    /\ Backlog \in Nat \ {0}
    /\ {MaxEdits, MaxOthers, MaxFaults} \subseteq Nat

VARIABLES edits,        \* writes the user has made in this browser
          sent,         \* how many of them the account has
          others,       \* writes the account has from other devices
          pulled,       \* how many of those this browser has
          kept,         \* localStorage thwart.autoSync.owed
          tab,          \* the state of each tab's modules
          leading,      \* the tabs that may hold a stream: live.leading
          stream,       \* the EventSource of each, and the server's end of it
          online,       \* navigator.onLine
          faults,       \* failures so far
          excused,      \* history: ways a debt was cleared and not paid
          missed        \* history: ways an event was spent, since the last
                        \* pull, and nothing pulled for it

autoVars == <<edits, sent, others, pulled, kept, tab, leading, stream, online, faults,
              excused, missed>>

(* `owed', `timer', `retried' are auto.svelte.ts's, `flushing' its running; *)
(* `run' is the promise in inFlight, by the await it stands at, `scanned'   *)
(* the writes its readLocal saw, `since' the cursor the session was loaded  *)
(* with.                                                                    *)
TabState == [owed : BOOLEAN, timer : {"none", "settle", "retry"},
             retried : BOOLEAN, flushing : BOOLEAN,
             run : {"none", "waiting", "pull", "scan", "push", "answer"},
             scanned : 0..MaxEdits, since : 0..MaxEdits + MaxOthers]

NoStream == [open |-> FALSE, events |-> 0]

Loaded(owed, since) ==
    [owed |-> owed, timer |-> IF owed THEN "settle" ELSE "none",
     retried |-> FALSE, flushing |-> FALSE, run |-> "none",
     scanned |-> 0, since |-> since]

(* The live-sync lock elects one tab; without locks every tab connects.     *)
Leaderships == IF Locks THEN {{t} : t \in Tab} ELSE {Tab}

InitAuto ==
    /\ edits = 0 /\ sent = 0 /\ others = 0 /\ pulled = 0
    /\ kept = FALSE
    /\ tab = [t \in Tab |-> Loaded(FALSE, 0)]
    /\ leading \in Leaderships
    /\ stream = [t \in Tab |-> NoStream]
    /\ online = TRUE
    /\ faults = 0
    /\ excused = {} /\ missed = {}

(* --- owing a sync ------------------------------------------------------- *)

(* watchWrites and syncAfter.  Every write restarts the settle. *)
Edit(t) ==
    /\ edits < MaxEdits
    /\ edits' = edits + 1
    /\ tab' = [tab EXCEPT ![t].owed = TRUE, ![t].retried = FALSE,
                          ![t].timer = "settle"]
    /\ kept' = TRUE
    /\ UNCHANGED <<sent, others, pulled, leading, stream, online, faults, excused, missed>>

(* runSync: a run in flight is returned as it is, however far it has got.   *)
Joined(s) == IF s.run = "none" THEN [s EXCEPT !.run = "waiting"] ELSE s

(* The account has writes of other devices that this browser has not.       *)
Behind == others > pulled

(* A run that has pulled already, while something more has arrived.         *)
PastPull(s) == s.run \in {"scan", "push", "answer"} /\ Behind

Late(s) == IF PastPull(s) THEN missed \cup {"late"} ELSE missed

(* A run that read the database before the last edit.                       *)
PastScan(s) == s.run \in {"push", "answer"} /\ s.scanned < edits

(* flush.  The debt is cleared, in memory and on disk, before the run.      *)
Flush(t) ==
    /\ tab[t].timer # "none"
    /\ LET s == [tab[t] EXCEPT !.timer = "none"]
       IN  \/ /\ ~s.owed \/ (~s.flushing /\ ~online)
              /\ tab' = [tab EXCEPT ![t] = s]
              /\ UNCHANGED <<kept, excused, missed>>
           \/ /\ s.owed /\ s.flushing
              /\ tab' = [tab EXCEPT ![t].timer = "settle"]
              /\ UNCHANGED <<kept, excused, missed>>
           \/ /\ s.owed /\ ~s.flushing /\ online
              /\ tab' = [tab EXCEPT ![t] =
                            Joined([s EXCEPT !.owed = FALSE, !.flushing = TRUE])]
              /\ kept' = FALSE
              /\ excused' = IF PastScan(s) THEN excused \cup {"joined"} ELSE excused
              /\ missed' = Late(s)
    /\ UNCHANGED <<edits, sent, others, pulled, leading, stream, online, faults>>

(* The button in the sync panel. *)
Manual(t) ==
    /\ "manual" \in Starts
    /\ tab[t].run = "none"
    /\ tab' = [tab EXCEPT ![t] = Joined(@)]
    /\ UNCHANGED <<edits, sent, others, pulled, kept, leading, stream, online,
                   faults, excused, missed>>

(* --- the run ------------------------------------------------------------ *)

Inside == {t \in Tab : tab[t].run \notin {"none", "waiting"}}

(* exclusive: navigator.locks.request('thwart-sync'), or just the run.      *)
Free == Locks => Inside = {}

Enter(t) ==
    /\ tab[t].run = "waiting"
    /\ Free
    /\ tab' = [tab EXCEPT ![t].run = "pull"]
    /\ UNCHANGED <<edits, sent, others, pulled, kept, leading, stream, online,
                   faults, excused, missed>>

Pull(t) ==
    /\ tab[t].run = "pull"
    /\ online
    /\ pulled' = others
    /\ missed' = {}
    /\ tab' = [tab EXCEPT ![t].run = "scan"]
    /\ UNCHANGED <<edits, sent, others, kept, leading, stream, online, faults, excused>>

(* Mutant: a run that failed is as good as one that ended. *)
Forgiven(s) == s

(* flush, after a failed run: owed again, and retried once. *)
Retried(s) ==
    IF s.retried THEN [s EXCEPT !.owed = TRUE]
    ELSE [s EXCEPT !.owed = TRUE, !.retried = TRUE, !.timer = "retry"]

(* The run is over, and with it the flush that was waiting for it.          *)
Over(s, failed) ==
    LET ended   == [s EXCEPT !.run = "none", !.scanned = 0]
        resumed == [ended EXCEPT !.flushing = FALSE]
    IN  IF ~s.flushing THEN ended
        ELSE IF failed THEN Retried(resumed)
        ELSE [resumed EXCEPT !.retried = FALSE]

Scan(t) ==
    /\ tab[t].run = "scan"
    /\ tab' = [tab EXCEPT ![t] = IF edits > sent
                                 THEN [@ EXCEPT !.run = "push", !.scanned = edits]
                                 ELSE Over(@, FALSE)]
    /\ UNCHANGED <<edits, sent, others, pulled, kept, leading, stream, online,
                   faults, excused, missed>>

(* An event more, unless the listener's buffer is full.                     *)
Heard(e) == IF e.open /\ e.events < Backlog THEN [e EXCEPT !.events = @ + 1] ELSE e

(* broadcaster.notify. *)
Notified == [t \in Tab |-> Heard(stream[t])]

Landed(t) == IF tab[t].scanned > sent THEN tab[t].scanned ELSE sent

(* handlePush: the batch lands and the listeners are told, this browser     *)
(* among them, before the answer is on its way.                             *)
Push(t) ==
    /\ tab[t].run = "push"
    /\ online
    /\ sent' = Landed(t)
    /\ stream' = Notified
    /\ tab' = [tab EXCEPT ![t].run = "answer"]
    /\ UNCHANGED <<edits, others, pulled, kept, leading, online, faults, excused, missed>>

Answer(t) ==
    /\ tab[t].run = "answer"
    /\ online
    /\ tab' = [tab EXCEPT ![t] = Over(@, FALSE)]
    /\ UNCHANGED <<edits, sent, others, pulled, kept, leading, stream, online,
                   faults, excused, missed>>

(* A request fails, or its answer is lost.  Only a flush tries again.       *)
Fail(t) ==
    /\ tab[t].run \in {"pull", "push", "answer"}
    /\ ~online \/ faults < MaxFaults
    /\ faults' = IF online THEN faults + 1 ELSE faults
    /\ tab' = [tab EXCEPT ![t] = Over(@, TRUE)]
    /\ kept' = (kept \/ tab[t].flushing)
    /\ missed' = IF tab[t].run = "pull" /\ ~tab[t].flushing /\ Behind
                 THEN missed \cup {"failed"} ELSE missed
    /\ UNCHANGED <<edits, sent, others, pulled, leading, stream, online, excused>>

(* --- the stream --------------------------------------------------------- *)

OtherWrite ==
    /\ others < MaxOthers
    /\ others' = others + 1
    /\ stream' = Notified
    /\ UNCHANGED <<edits, sent, pulled, kept, tab, leading, online, faults, excused, missed>>

(* Mutant: a client that was away is not told. *)
NoGreeting(t) == NoStream.events

(* Whether the account is past `since'. *)
Greeting(t) == IF others + sent > tab[t].since THEN 1 ELSE 0

(* handleStream subscribes, then greets. *)
Connect(t) ==
    /\ "live" \in Starts
    /\ t \in leading
    /\ ~stream[t].open /\ online
    /\ stream' = [stream EXCEPT ![t] = [open |-> TRUE, events |-> Greeting(t)]]
    /\ UNCHANGED <<edits, sent, others, pulled, kept, tab, leading, online,
                   faults, excused, missed>>

(* The `changed' listener: the event is done with once runSync is called.   *)
Changed(t) ==
    /\ stream[t].open /\ stream[t].events > 0
    /\ stream' = [stream EXCEPT ![t].events = @ - 1]
    /\ tab' = [tab EXCEPT ![t] = Joined(@)]
    /\ missed' = Late(tab[t])
    /\ UNCHANGED <<edits, sent, others, pulled, kept, leading, online, faults, excused>>

Drop(t) ==
    /\ stream[t].open
    /\ ~online \/ faults < MaxFaults
    /\ faults' = IF online THEN faults + 1 ELSE faults
    /\ stream' = [stream EXCEPT ![t] = NoStream]
    /\ UNCHANGED <<edits, sent, others, pulled, kept, tab, leading, online, excused, missed>>

(* --- the world ---------------------------------------------------------- *)

GoOffline ==
    /\ online /\ faults < MaxFaults
    /\ faults' = faults + 1
    /\ online' = FALSE
    /\ UNCHANGED <<edits, sent, others, pulled, kept, tab, leading, stream, excused, missed>>

(* Mutant: nobody listens for the network. *)
NotWoken(s) == s

(* watchAutoSync's `wake'. *)
Woken(s) == IF s.owed THEN [s EXCEPT !.timer = "settle"] ELSE s

GoOnline ==
    /\ ~online
    /\ online' = TRUE
    /\ tab' = [t \in Tab |-> Woken(tab[t])]
    /\ UNCHANGED <<edits, sent, others, pulled, kept, leading, stream, faults, excused, missed>>

(* The tab is closed, at any moment, and opened again: only what is on disk *)
(* is remembered, and the locks pass on.                                    *)
Reload(t) ==
    /\ faults < MaxFaults
    /\ faults' = faults + 1
    /\ tab' = [tab EXCEPT ![t] = Loaded(kept, sent + pulled)]
    /\ leading' \in IF Locks /\ t \in leading
                    THEN {{u} : u \in IF Tab = {t} THEN {t} ELSE Tab \ {t}}
                    ELSE {leading}
    /\ stream' = [stream EXCEPT ![t] = NoStream]
    /\ excused' = IF tab[t].flushing /\ ~kept THEN excused \cup {"closed"} ELSE excused
    /\ UNCHANGED <<edits, sent, others, pulled, kept, online, missed>>

-----------------------------------------------------------------------------
Run(t) == Enter(t) \/ Pull(t) \/ Scan(t) \/ Push(t) \/ Answer(t)

NextAuto ==
    \/ \E t \in Tab : \/ Edit(t) \/ Flush(t) \/ Manual(t) \/ Run(t) \/ Fail(t) \/ Reload(t)
                      \/ Connect(t) \/ Changed(t) \/ Drop(t)
    \/ OtherWrite \/ GoOffline \/ GoOnline

SpecAuto == InitAuto /\ [][NextAuto]_autoVars

(* Timers go off, a lock is handed on in the order it was asked for, a      *)
(* request in flight is answered or fails, an event on an open stream is    *)
(* dispatched, and a network that is gone comes back.                       *)
Fairness ==
    /\ \A t \in Tab : /\ WF_autoVars(Flush(t))
                      /\ SF_autoVars(Enter(t))
                      /\ WF_autoVars(Pull(t) \/ Scan(t) \/ Push(t) \/ Answer(t) \/ Fail(t))
                      /\ WF_autoVars(Connect(t)) /\ WF_autoVars(Changed(t))
    /\ WF_autoVars(GoOnline)

LiveSpec == SpecAuto /\ Fairness

-----------------------------------------------------------------------------
(* Type invariant: no browser counts writes that were never made, and no    *)
(* listener's buffer outgrows its bound (stream.go notify).                 *)
AutoTypeOK ==
    /\ edits \in 0..MaxEdits /\ sent \in 0..edits
    /\ others \in 0..MaxOthers /\ pulled \in 0..others
    /\ kept \in BOOLEAN /\ online \in BOOLEAN
    /\ tab \in [Tab -> TabState]
    /\ leading \in Leaderships
    /\ stream \in [Tab -> [open : BOOLEAN, events : 0..Backlog]]
    /\ faults \in 0..MaxFaults
    /\ excused \subseteq {"joined", "closed"} /\ missed \subseteq {"late", "failed"}

(* A tab that owes a sync and has a network is going to pay it: a timer is  *)
(* set or a flush under way, unless the one retry has been used up.  The    *)
(* flag, the timer, the network and the run in flight all move separately.  *)
OwedIsScheduled ==
    \A t \in Tab : tab[t].owed /\ online =>
        tab[t].timer # "none" \/ tab[t].flushing \/ tab[t].retried

(* A write the account does not have is owed by some tab, or a run that was *)
(* in time for it is on its way.  Two ways out are known, and no third:     *)
(* `flush' cleared the debt and joined a run past its scan, or the tab was  *)
(* closed while it waited for the run it had cleared the debt for.          *)
UnsentIsRemembered ==
    edits > sent /\ excused = {} =>
        \E t \in Tab : \/ tab[t].owed
                       \/ tab[t].run \in {"waiting", "pull", "scan"}
                       \/ tab[t].run = "push" /\ tab[t].scanned = edits

(* A tab with a stream hears of what the browser lacks (stream.go: at worst *)
(* "its reconnect will catch it up"): an event waits, a run is about to     *)
(* pull, or the tab owes a sync anyway.  Two ways out, and no third: the    *)
(* event, or the debt, was spent on joining a run past its pull, or on a    *)
(* run that failed and was nobody's flush.                                  *)
ChangesAnnounced ==
    Behind /\ missed = {} =>
        \A t \in leading : stream[t].open =>
            \/ stream[t].events > 0
            \/ tab[t].run \in {"waiting", "pull"}
            \/ tab[t].owed

(* "What it misses, the next pass carries" (flush): once the user stops     *)
(* typing and the tabs stay open, every write has reached the account, but  *)
(* for the two ways out above and a tab that has used up its one retry.     *)
EditsReach ==
    <>[](sent = edits \/ excused # {} \/ \E t \in Tab : tab[t].retried)
=============================================================================

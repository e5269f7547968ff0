-------------------------- MODULE BrowserProofs -----------------------------
(***************************************************************************)
(* The browser's side, for any number of browsers, records and faults:     *)
(* the synchronisation (SyncDevices), then signing in and out around it    *)
(* (Adoption).                                                             *)
(*                                                                         *)
(* Synchronising, what a browser takes for confirmed is what the server    *)
(* holds, its cursor never passes a record it was not told of, and a       *)
(* browser at rest that owes nothing shows the account.  The argument:     *)
(* every copy of a record (in a page, in a sync state, in a push just      *)
(* answered) is behind the record, and where it is level it is equal.      *)
(* What a pull promises is carried from the page to the states to the      *)
(* cursor; what a push promises, from the answer to the state to the       *)
(* cursor.                                                                 *)
(***************************************************************************)
EXTENDS Adoption, TLAPS

(* The account's side: no revision is given twice, and an event has its     *)
(* one body for ever.                                                       *)
RecordsOK ==
    /\ \A k \in Key : /\ record[k].revision <= revision
                      /\ record[k].revision = 0 => record[k] = Absent
                      /\ Rule[k] = "event" /\ record[k].revision > 0
                            => record[k].body = EventBody
    /\ \A j, k \in Key : record[j].revision > 0 /\ record[j].revision = record[k].revision
                            => j = k

(* A copy of the record k, perhaps out of date.                             *)
CopyOf(k, e) ==
    /\ e.revision <= record[k].revision
    /\ e.revision = record[k].revision => e.body = record[k].body

EventsKnown(d) ==
    \A k \in Key : Rule[k] = "event" =>
        /\ row[d][k] \in {NoBody, EventBody}
        /\ run[d].local[k] \in {NoBody, EventBody}
        /\ run[d].page[k].revision > 0 => run[d].page[k].body = EventBody

EventsSent(d) ==
    \A out \in run[d].owed \cup run[d].out \cup wire[d] :
        Rule[out.key] = "event" => out.body = EventBody

CopiesOK(d) ==
    \A k \in Key : /\ CopyOf(k, state[d][k])
                   /\ state[d][k].revision = 0 => state[d][k] = Absent
                   /\ CopyOf(k, run[d].page[k])

Flying == {"sent", "answered", "confirmed"}

(* One record in flight at a time; while it is waited for it is on the wire.*)
BatchOK(d) ==
    /\ run[d].phase \in Flying => \E out \in Outgoing : run[d].out = {out}
    /\ run[d].phase \notin Flying => run[d].out = {} /\ run[d].answer = NoAnswer
    /\ run[d].phase = "sent" => wire[d] = run[d].out

(* What an answer says of the record that was sent, until it is used.       *)
Wrote(d) == run[d].answer.outcome \in {"applied", "already_present"}

AnswerOK(d) ==
    \A out \in run[d].out : run[d].phase \in {"answered", "confirmed"} =>
        /\ run[d].answer.outcome # "none"
        /\ run[d].answer.outcome \in {"rejected", "deferred"} =>
              /\ run[d].answer.revision = 0 /\ out.body # NoBody
              /\ run[d].answer.outcome \in Refusals
        /\ Wrote(d) =>
              /\ run[d].answer.revision > 0
              /\ CopyOf(out.key, [revision |-> run[d].answer.revision, body |-> out.body])
              /\ \A j \in Key : record[j].revision = run[d].answer.revision => j = out.key
        /\ run[d].answer.outcome = "already_present" =>
              /\ Rule[out.key] = "event"
              /\ record[out.key].revision = run[d].answer.revision

BrowserOK(d) == EventsKnown(d) /\ EventsSent(d) /\ CopiesOK(d) /\ BatchOK(d) /\ AnswerOK(d)

HInv == TypeOK /\ RecordsOK /\ \A d \in Device : BrowserOK(d)

(* The browser knows the record as it is now.                               *)
Told(d, k) == state[d][k] = IF Tombstone(record[k]) THEN Absent ELSE record[k]

(* What the cursor covers, and what it is about to.                         *)
CoversOK(d) ==
    /\ cursor[d] <= revision
    /\ \A k \in Key : record[k].revision \in 1..cursor[d] => Told(d, k)
    /\ run[d].phase = "pulled" =>
          /\ cursor[d] <= run[d].next /\ run[d].next <= revision
          /\ \A k \in Key :
                /\ run[d].page[k].revision > 0 => run[d].page[k].revision > cursor[d]
                /\ record[k].revision > cursor[d] /\ record[k].revision <= run[d].next
                      => run[d].page[k] = record[k]
    /\ run[d].phase = "applied" =>
          /\ cursor[d] <= run[d].next /\ run[d].next <= revision
          /\ \A k \in Key : record[k].revision \in 1..run[d].next => Told(d, k)
    /\ \A out \in run[d].out :
          /\ run[d].phase = "answered" /\ run[d].answer.outcome = "applied"
                => run[d].answer.revision > cursor[d]
          /\ run[d].phase = "confirmed" /\ Wrote(d)
                /\ record[out.key].revision = run[d].answer.revision
                => Told(d, out.key)

IInv == HInv /\ \A d \in Device : CoversOK(d)

RunState == [phase : Phase, page : [Key -> Entry], next : 0..MaxRevision,
             unread : SUBSET Key, local : [Key -> Body \cup {NoBody}],
             owed : SUBSET Outgoing, out : SUBSET Outgoing, answer : Answer]

-----------------------------------------------------------------------------
(* The constants that stand for nothing are of their types.                 *)
LEMMA NothingTyped ==
    ASSUME DevicesAssumption
    PROVE  /\ 0 \in 0..MaxRevision
           /\ Absent \in Entry /\ Absent.revision = 0 /\ Absent.body = NoBody
           /\ Nothing \in [Key -> Entry]
           /\ NoAnswer \in Answer
           /\ NoRun \in RunState
<1>1. 0 \in 0..MaxRevision
  BY DEF DevicesAssumption
<1>2. Absent \in Entry /\ Absent.revision = 0 /\ Absent.body = NoBody
  BY <1>1 DEF Absent, Entry
<1>3. Nothing \in [Key -> Entry]
  BY <1>2 DEF Nothing
<1>4. NoAnswer \in Answer
  BY <1>1 DEF NoAnswer, Answer
<1>5. NoRun \in RunState
  BY <1>1, <1>3, <1>4 DEF NoRun, RunState, Phase
<1> QED
  BY <1>1, <1>2, <1>3, <1>4, <1>5

LEMMA NoRunIs ==
    /\ NoRun.phase = "idle" /\ NoRun.page = Nothing /\ NoRun.next = 0
    /\ NoRun.unread = {} /\ NoRun.local = [k \in Key |-> NoBody]
    /\ NoRun.owed = {} /\ NoRun.out = {} /\ NoRun.answer = NoAnswer
  BY DEF NoRun

(* A browser that nothing happened to, while the account did not change.    *)
LEMMA Undisturbed ==
    ASSUME NEW e \in Device,
           record' = record, revision' = revision,
           run'[e] = run[e], row'[e] = row[e], state'[e] = state[e], wire'[e] = wire[e],
           BrowserOK(e)
    PROVE  BrowserOK(e)'
<1>1. EventsKnown(e)'
  BY DEF BrowserOK, EventsKnown
<1>2. EventsSent(e)'
  BY DEF BrowserOK, EventsSent
<1>3. CopiesOK(e)'
  BY DEF BrowserOK, CopiesOK, CopyOf
<1>4. BatchOK(e)'
  BY DEF BrowserOK, BatchOK
<1>5. AnswerOK(e)'
  BY DEF BrowserOK, AnswerOK, Wrote, CopyOf
<1> QED
  BY <1>1, <1>2, <1>3, <1>4, <1>5 DEF BrowserOK

LEMMA Uncovered ==
    ASSUME NEW e \in Device,
           record' = record, revision' = revision,
           run'[e] = run[e], state'[e] = state[e], cursor'[e] = cursor[e],
           CoversOK(e)
    PROVE  CoversOK(e)'
  BY DEF CoversOK, Told, Wrote, Tombstone

(* A step of one browser that leaves the account alone.                     *)
LEMMA OneBrowserMoves ==
    ASSUME HInv, TypeOK', NEW d \in Device,
           record' = record, revision' = revision,
           \A e \in Device \ {d} : /\ run'[e] = run[e] /\ row'[e] = row[e]
                                    /\ state'[e] = state[e] /\ wire'[e] = wire[e],
           BrowserOK(d)'
    PROVE  HInv'
<1>1. RecordsOK'
  BY DEF HInv, RecordsOK
<1>2. ASSUME NEW e \in Device \ {d} PROVE BrowserOK(e)'
  BY <1>2, Undisturbed DEF HInv
<1>3. \A e \in Device : BrowserOK(e)'
  BY <1>2
<1> QED
  BY <1>1, <1>3 DEF HInv

(* A browser without a run has nothing to answer for but its states.        *)
LEMMA AtRest ==
    ASSUME DevicesAssumption, TypeOK, RecordsOK, NEW d \in Device, run[d] = NoRun,
           \A k \in Key : /\ CopyOf(k, state[d][k])
                          /\ state[d][k].revision = 0 => state[d][k] = Absent
                          /\ Rule[k] = "event" => row[d][k] \in {NoBody, EventBody},
           \A out \in wire[d] : Rule[out.key] = "event" => out.body = EventBody
    PROVE  BrowserOK(d)
<1>1. \A k \in Key : run[d].page[k] = Absent
  BY NoRunIs DEF Nothing
<1>2. EventsKnown(d)
  BY <1>1, NoRunIs, NothingTyped DEF EventsKnown
<1>3. EventsSent(d)
  BY NoRunIs DEF EventsSent
<1>4. CopiesOK(d)
  <2>1. ASSUME NEW k \in Key PROVE CopyOf(k, run[d].page[k])
    <3>1. run[d].page[k].revision = 0 /\ run[d].page[k].body = NoBody
      BY <1>1, NothingTyped
    <3>2. record[k] \in Entry
      BY DEF TypeOK
    <3>3. record[k].revision \in Nat
      BY <3>2 DEF Entry
    <3>4. record[k].revision = 0 => record[k].body = NoBody
      BY NothingTyped DEF RecordsOK
    <3> QED
      BY <3>1, <3>3, <3>4 DEF CopyOf
  <2> QED
    BY <2>1 DEF CopiesOK
<1>5. BatchOK(d)
  BY NoRunIs DEF BatchOK, Flying
<1>6. AnswerOK(d)
  BY NoRunIs DEF AnswerOK
<1> QED
  BY <1>2, <1>3, <1>4, <1>5, <1>6 DEF BrowserOK

-----------------------------------------------------------------------------
LEMMA HInit == DevicesAssumption /\ Init => HInv /\ \A d \in Device : CoversOK(d)
<1> SUFFICES ASSUME DevicesAssumption, Init
             PROVE  HInv /\ \A d \in Device : CoversOK(d)
  OBVIOUS
<1>1. TypeOK
  <2>1. record \in [Key -> Entry] /\ revision \in 0..MaxRevision
    BY NothingTyped DEF Init
  <2>2. row \in [Device -> [Key -> Body \cup {NoBody}]]
    BY DEF Init
  <2>3. state \in [Device -> [Key -> {e \in Entry : e = Absent \/ e.body \in Body}]]
    BY NothingTyped DEF Init, Nothing
  <2>4. run \in [Device -> RunState]
    BY NothingTyped DEF Init
  <2>5. cursor \in [Device -> 0..MaxRevision] /\ wire \in [Device -> SUBSET Outgoing]
    BY NothingTyped DEF Init
  <2>6. edits \in 0..MaxEdits /\ faults \in 0..MaxFaults
    BY DEF Init, DevicesAssumption
  <2> QED
    BY <2>1, <2>2, <2>3, <2>4, <2>5, <2>6 DEF TypeOK, RunState
<1>2. \A k \in Key : record[k] = Absent /\ record[k].revision = 0
  BY NothingTyped DEF Init, Nothing
<1>3. RecordsOK
  BY <1>2 DEF RecordsOK, Init
<1>4. ASSUME NEW d \in Device PROVE BrowserOK(d)
  <2>1. run[d] = NoRun /\ wire[d] = {} /\ state[d] = Nothing
    BY DEF Init
  <2>2. \A k \in Key : row[d][k] = NoBody /\ state[d][k] = Absent
    BY <2>1 DEF Init, Nothing
  <2>3. \A k \in Key : CopyOf(k, state[d][k])
    BY <1>2, <2>2, NothingTyped DEF CopyOf
  <2> QED
    BY <1>1, <1>3, <2>1, <2>2, <2>3, AtRest
<1>5. ASSUME NEW d \in Device PROVE CoversOK(d)
  <2>1. run[d].phase = "idle" /\ run[d].out = {} /\ cursor[d] = 0 /\ revision = 0
    BY NoRunIs DEF Init
  <2> QED
    BY <1>2, <2>1 DEF CoversOK
<1> QED
  BY <1>1, <1>3, <1>4, <1>5 DEF HInv

-----------------------------------------------------------------------------
(* What the typing says of one browser, and of one record.                  *)
LEMMA Typed ==
    ASSUME TypeOK
    PROVE  /\ run \in [Device -> RunState]
           /\ \A d \in Device :
                /\ run[d] \in RunState
                /\ cursor[d] \in 0..MaxRevision
                /\ \A k \in Key : /\ row[d][k] \in Body \cup {NoBody}
                                   /\ state[d][k] \in Entry
                                   /\ state[d][k].revision \in Nat
                                   /\ run[d].page[k] \in Entry
                                   /\ run[d].page[k].revision \in Nat
                                   /\ run[d].local[k] \in Body \cup {NoBody}
           /\ \A k \in Key : record[k] \in Entry /\ record[k].revision \in Nat
<1>1. run \in [Device -> RunState]
  BY DEF TypeOK, RunState
<1>2. ASSUME NEW k \in Key PROVE record[k] \in Entry /\ record[k].revision \in Nat
  BY DEF TypeOK, Entry
<1>3. ASSUME NEW d \in Device, NEW k \in Key
      PROVE  /\ row[d][k] \in Body \cup {NoBody}
             /\ state[d][k] \in Entry /\ state[d][k].revision \in Nat
  BY DEF TypeOK, Entry
<1>4. ASSUME NEW d \in Device, NEW k \in Key
      PROVE  /\ run[d].page[k] \in Entry /\ run[d].page[k].revision \in Nat
             /\ run[d].local[k] \in Body \cup {NoBody}
  <2>1. run[d] \in RunState
    BY <1>1
  <2>2. run[d].page \in [Key -> Entry] /\ run[d].local \in [Key -> Body \cup {NoBody}]
    BY <2>1 DEF RunState
  <2> QED
    BY <2>2 DEF Entry
<1> QED
  BY <1>1, <1>2, <1>3, <1>4 DEF TypeOK

LEMMA RunBecomes ==
    ASSUME TypeOK, NEW d \in Device, NEW r \in RunState, run' = [run EXCEPT ![d] = r]
    PROVE  /\ run'[d] = r
           /\ \A e \in Device \ {d} : run'[e] = run[e]
           /\ run' \in [Device -> RunState]
  BY Typed

-----------------------------------------------------------------------------
(* What each step makes of the run of its browser.                          *)
LEMMA ApplyPulledRun ==
    ASSUME TypeOK, NEW d \in Device, ApplyPulled(d)
    PROVE  /\ run[d].phase = "pulled"
           /\ run'[d].phase = "applied"
           /\ run'[d].page = Nothing
           /\ run'[d].next = run[d].next
           /\ run'[d].unread = run[d].unread
           /\ run'[d].local = run[d].local
           /\ run'[d].owed = run[d].owed
           /\ run'[d].out = run[d].out
           /\ run'[d].answer = run[d].answer
<1> DEFINE r == [run[d] EXCEPT !.phase = "applied", !.page = Nothing]
<1>1. run \in [Device -> RunState] /\ run' = [run EXCEPT ![d] = r]
  BY Typed DEF ApplyPulled
<1>2. /\ r.phase = "applied"
      /\ r.page = Nothing
      /\ r.next = run[d].next
      /\ r.unread = run[d].unread
      /\ r.local = run[d].local
      /\ r.owed = run[d].owed
      /\ r.out = run[d].out
      /\ r.answer = run[d].answer
  BY <1>1 DEF RunState
<1> HIDE DEF r
<1>3. run'[d] = r
  BY <1>1
<1> QED
  BY <1>2, <1>3 DEF ApplyPulled

LEMMA WriteCursorRun ==
    ASSUME TypeOK, NEW d \in Device, WriteCursor(d)
    PROVE  /\ run[d].phase = "applied"
           /\ run'[d].phase = "reading"
           /\ run'[d].page = run[d].page
           /\ run'[d].next = 0
           /\ run'[d].unread = Key
           /\ run'[d].local = run[d].local
           /\ run'[d].owed = run[d].owed
           /\ run'[d].out = run[d].out
           /\ run'[d].answer = run[d].answer
<1> DEFINE r == [run[d] EXCEPT !.phase = "reading", !.next = 0, !.unread = Key]
<1>1. run \in [Device -> RunState] /\ run' = [run EXCEPT ![d] = r]
  BY Typed DEF WriteCursor
<1>2. /\ r.phase = "reading"
      /\ r.page = run[d].page
      /\ r.next = 0
      /\ r.unread = Key
      /\ r.local = run[d].local
      /\ r.owed = run[d].owed
      /\ r.out = run[d].out
      /\ r.answer = run[d].answer
  BY <1>1 DEF RunState
<1> HIDE DEF r
<1>3. run'[d] = r
  BY <1>1
<1> QED
  BY <1>2, <1>3 DEF WriteCursor

LEMMA ConfirmPushedRun ==
    ASSUME TypeOK, NEW d \in Device, ConfirmPushed(d)
    PROVE  /\ run[d].phase = "answered"
           /\ run'[d].phase = "confirmed"
           /\ run'[d].page = run[d].page
           /\ run'[d].next = run[d].next
           /\ run'[d].unread = run[d].unread
           /\ run'[d].local = run[d].local
           /\ run'[d].owed = run[d].owed
           /\ run'[d].out = run[d].out
           /\ run'[d].answer = run[d].answer
<1> DEFINE r == [run[d] EXCEPT !.phase = "confirmed"]
<1>1. run \in [Device -> RunState] /\ run' = [run EXCEPT ![d] = r]
  BY Typed DEF ConfirmPushed
<1>2. /\ r.phase = "confirmed"
      /\ r.page = run[d].page
      /\ r.next = run[d].next
      /\ r.unread = run[d].unread
      /\ r.local = run[d].local
      /\ r.owed = run[d].owed
      /\ r.out = run[d].out
      /\ r.answer = run[d].answer
  BY <1>1 DEF RunState
<1> HIDE DEF r
<1>3. run'[d] = r
  BY <1>1
<1> QED
  BY <1>2, <1>3 DEF ConfirmPushed

LEMMA AdvanceCursorRun ==
    ASSUME TypeOK, NEW d \in Device, AdvanceCursor(d)
    PROVE  /\ run[d].phase = "confirmed"
           /\ run'[d].phase = "push"
           /\ run'[d].page = run[d].page
           /\ run'[d].next = run[d].next
           /\ run'[d].unread = run[d].unread
           /\ run'[d].local = run[d].local
           /\ run'[d].owed = run[d].owed
           /\ run'[d].out = {}
           /\ run'[d].answer = NoAnswer
<1> DEFINE r == [run[d] EXCEPT !.phase = "push", !.out = {}, !.answer = NoAnswer]
<1>1. run \in [Device -> RunState] /\ run' = [run EXCEPT ![d] = r]
  BY Typed DEF AdvanceCursor
<1>2. /\ r.phase = "push"
      /\ r.page = run[d].page
      /\ r.next = run[d].next
      /\ r.unread = run[d].unread
      /\ r.local = run[d].local
      /\ r.owed = run[d].owed
      /\ r.out = {}
      /\ r.answer = NoAnswer
  BY <1>1 DEF RunState
<1> HIDE DEF r
<1>3. run'[d] = r
  BY <1>1
<1> QED
  BY <1>2, <1>3 DEF AdvanceCursor

LEMMA PullRun ==
    ASSUME TypeOK, NEW d \in Device, Pull(d)
    PROVE  /\ run[d].phase = "idle" /\ run'[d].phase = "pulled"
           /\ run'[d].page = [k \in Key |->
                 IF record[k].revision > cursor[d] THEN record[k] ELSE Absent]
           /\ run'[d].next = IF revision > cursor[d] THEN revision ELSE cursor[d]
           /\ run'[d].unread = run[d].unread /\ run'[d].local = run[d].local
           /\ run'[d].owed = run[d].owed /\ run'[d].out = run[d].out
           /\ run'[d].answer = run[d].answer
<1> DEFINE page == [k \in Key |-> IF record[k].revision > cursor[d] THEN record[k] ELSE Absent]
           next == IF revision > cursor[d] THEN revision ELSE cursor[d]
           r == [run[d] EXCEPT !.phase = "pulled", !.page = page, !.next = next]
<1>1. run \in [Device -> RunState] /\ run' = [run EXCEPT ![d] = r]
  BY Typed DEF Pull
<1> HIDE DEF page, next
<1>2. /\ r.phase = "pulled" /\ r.page = page /\ r.next = next
      /\ r.unread = run[d].unread /\ r.local = run[d].local
      /\ r.owed = run[d].owed /\ r.out = run[d].out /\ r.answer = run[d].answer
  BY <1>1 DEF RunState
<1> HIDE DEF r
<1>3. run'[d] = r
  BY <1>1
<1> QED
  BY <1>2, <1>3 DEF Pull, page, next

LEMMA ReadLocalRun ==
    ASSUME TypeOK, NEW d \in Device, ReadLocal(d)
    PROVE  /\ run[d].phase = "reading" /\ run'[d].phase = "reading"
           /\ run'[d].local = [k \in Key |-> IF k \in NextTable(d) THEN row[d][k]
                                                                ELSE run[d].local[k]]
           /\ run'[d].unread = run[d].unread \ NextTable(d)
           /\ run'[d].page = run[d].page /\ run'[d].next = run[d].next
           /\ run'[d].owed = run[d].owed /\ run'[d].out = run[d].out
           /\ run'[d].answer = run[d].answer
<1> DEFINE local == [k \in Key |-> IF k \in NextTable(d) THEN row[d][k] ELSE run[d].local[k]]
           unread == run[d].unread \ NextTable(d)
           r == [run[d] EXCEPT !.local = local, !.unread = unread]
<1>1. /\ run \in [Device -> RunState] /\ run' = [run EXCEPT ![d] = r]
      /\ run[d].phase = "reading"
  BY Typed DEF ReadLocal
<1> HIDE DEF local, unread
<1>2. /\ r.phase = "reading" /\ r.local = local /\ r.unread = unread
      /\ r.page = run[d].page /\ r.next = run[d].next
      /\ r.owed = run[d].owed /\ r.out = run[d].out /\ r.answer = run[d].answer
  BY <1>1 DEF RunState
<1> HIDE DEF r
<1>3. run'[d] = r
  BY <1>1
<1> QED
  BY <1>1, <1>2, <1>3 DEF local, unread

LEMMA ReadStatesRun ==
    ASSUME TypeOK, NEW d \in Device, ReadStates(d)
    PROVE  /\ run[d].phase = "reading" /\ run[d].unread = {}
           /\ run'[d].phase = "push" /\ run'[d].owed = Owed(run[d].local, state[d])
           /\ run'[d].page = Nothing /\ run'[d].next = 0 /\ run'[d].unread = {}
           /\ run'[d].local = [k \in Key |-> NoBody]
           /\ run'[d].out = {} /\ run'[d].answer = NoAnswer
<1> DEFINE owed == Owed(run[d].local, state[d])
           r == [NoRun EXCEPT !.phase = "push", !.owed = owed]
<1>1. run \in [Device -> RunState] /\ run' = [run EXCEPT ![d] = r]
  BY Typed DEF ReadStates
<1> HIDE DEF owed
<1>2. /\ r.phase = "push" /\ r.owed = owed
      /\ r.page = Nothing /\ r.next = 0 /\ r.unread = {}
      /\ r.local = [k \in Key |-> NoBody] /\ r.out = {} /\ r.answer = NoAnswer
  BY DEF NoRun
<1> HIDE DEF r
<1>3. run'[d] = r
  BY <1>1
<1> QED
  BY <1>2, <1>3 DEF owed, ReadStates

LEMMA PushRun ==
    ASSUME TypeOK, NEW d \in Device, Push(d)
    PROVE  /\ run[d].phase = "push" /\ run'[d].phase = "sent"
           /\ \E x \in run[d].owed : /\ run'[d].owed = run[d].owed \ {x}
                                     /\ run'[d].out = {x} /\ wire'[d] = {x}
           /\ run'[d].page = run[d].page /\ run'[d].next = run[d].next
           /\ run'[d].unread = run[d].unread /\ run'[d].local = run[d].local
           /\ run'[d].answer = run[d].answer
<1>1. PICK x \in run[d].owed :
         /\ run' = [run EXCEPT ![d].phase = "sent", ![d].out = {x}, ![d].owed = @ \ {x}]
         /\ wire' = [wire EXCEPT ![d] = {x}]
  BY DEF Push
<1> DEFINE r == [run[d] EXCEPT !.phase = "sent", !.out = {x}, !.owed = run[d].owed \ {x}]
<1>2. run \in [Device -> RunState] /\ run' = [run EXCEPT ![d] = r]
  BY <1>1, Typed
<1>3. /\ r.phase = "sent" /\ r.owed = run[d].owed \ {x} /\ r.out = {x}
      /\ r.page = run[d].page /\ r.next = run[d].next
      /\ r.unread = run[d].unread /\ r.local = run[d].local /\ r.answer = run[d].answer
  BY <1>2 DEF RunState
<1> HIDE DEF r
<1>4. run'[d] = r /\ wire'[d] = {x}
  BY <1>1, <1>2 DEF TypeOK
<1> QED
  BY <1>1, <1>3, <1>4 DEF Push

-----------------------------------------------------------------------------
LEMMA EditKeeps ==
    ASSUME DevicesAssumption, HInv, NEW d \in Device, NEW k \in Key,
           NEW b \in Body \cup {NoBody}, Edit(d, k, b)
    PROVE  HInv'
<1>1. TypeOK'
  <2>1. row' \in [Device -> [Key -> Body \cup {NoBody}]]
    BY DEF HInv, TypeOK, Edit
  <2>2. edits' \in 0..MaxEdits
    BY DEF HInv, TypeOK, Edit, DevicesAssumption
  <2> QED
    BY <2>1, <2>2 DEF HInv, TypeOK, Edit
<1>2. \A e \in Device \ {d} : row'[e] = row[e]
  BY DEF HInv, TypeOK, Edit
<1>3. BrowserOK(d)'
  <2>1. \A j \in Key : row'[d][j] = IF j = k THEN b ELSE row[d][j]
    BY DEF HInv, TypeOK, Edit
  <2>2. EventsKnown(d)'
    BY <2>1 DEF HInv, BrowserOK, EventsKnown, Edit
  <2>3. BrowserOK(d) /\ record' = record /\ run' = run /\ wire' = wire /\ state' = state
    BY DEF HInv, Edit
  <2>4. EventsSent(d)' /\ CopiesOK(d)' /\ BatchOK(d)' /\ AnswerOK(d)'
    BY <2>3 DEF BrowserOK, EventsSent, CopiesOK, BatchOK, AnswerOK, CopyOf, Wrote
  <2> QED
    BY <2>2, <2>4 DEF BrowserOK
<1> QED
  BY <1>1, <1>2, <1>3, OneBrowserMoves DEF Edit

LEMMA PullKeeps ==
    ASSUME DevicesAssumption, HInv, NEW d \in Device, Pull(d)
    PROVE  HInv'
<1> DEFINE page == [k \in Key |-> IF record[k].revision > cursor[d] THEN record[k] ELSE Absent]
           next == IF revision > cursor[d] THEN revision ELSE cursor[d]
<1>0. TypeOK /\ RecordsOK /\ BrowserOK(d)
  BY DEF HInv
<1>1. page \in [Key -> Entry] /\ next \in 0..MaxRevision
  BY <1>0, Typed, NothingTyped DEF TypeOK
<1> DEFINE r == [run[d] EXCEPT !.phase = "pulled", !.page = page, !.next = next]
<1>2. run[d] \in RunState /\ run' = [run EXCEPT ![d] = r]
  BY <1>0, Typed DEF Pull
<1>3. /\ r \in RunState
      /\ r.phase = "pulled" /\ r.page = page
      /\ r.local = run[d].local /\ r.owed = run[d].owed
      /\ r.out = run[d].out /\ r.answer = run[d].answer
  <2> HIDE DEF page, next
  <2> QED
    BY <1>1, <1>2 DEF RunState, Phase
<1> HIDE DEF r
<1>4. /\ run'[d].phase = "pulled" /\ run'[d].page = page
      /\ run'[d].local = run[d].local /\ run'[d].owed = run[d].owed
      /\ run'[d].out = run[d].out /\ run'[d].answer = run[d].answer
      /\ run' \in [Device -> RunState]
  BY <1>0, <1>2, <1>3, RunBecomes
<1>5. \A e \in Device \ {d} : run'[e] = run[e]
  BY <1>0, <1>2, <1>3, RunBecomes
<1>6. TypeOK'
  BY <1>0, <1>4 DEF TypeOK, Pull, RunState
<1>7. \A k \in Key : page[k] = record[k] \/ page[k] = Absent
  OBVIOUS
<1> HIDE DEF page, next
<1>8. BrowserOK(d)'
  <2>1. EventsKnown(d)'
    <3>1. row' = row /\ EventsKnown(d)
      BY <1>0 DEF BrowserOK, Pull
    <3>2. ASSUME NEW k \in Key, Rule[k] = "event", page[k].revision > 0
          PROVE  page[k].body = EventBody
      <4>1. page[k] = record[k]
        BY <1>7, <3>2, NothingTyped
      <4> QED
        BY <1>0, <3>2, <4>1 DEF RecordsOK
    <3> QED
      BY <1>4, <3>1, <3>2 DEF EventsKnown
  <2>2. EventsSent(d)'
    BY <1>0, <1>4 DEF BrowserOK, EventsSent, Pull
  <2>3. ASSUME NEW k \in Key PROVE CopyOf(k, page[k])
    BY <1>0, <1>7, Typed, NothingTyped DEF CopyOf, RecordsOK
  <2>4. CopiesOK(d)'
    <3>1. \A k \in Key : /\ CopyOf(k, state[d][k])
                         /\ state[d][k].revision = 0 => state[d][k] = Absent
      BY <1>0 DEF BrowserOK, CopiesOK
    <3>2. record' = record /\ state' = state
      BY DEF Pull
    <3> QED
      BY <1>4, <2>3, <3>1, <3>2 DEF CopiesOK, CopyOf
  <2>5. BatchOK(d)' /\ AnswerOK(d)'
    BY <1>0, <1>4 DEF BrowserOK, BatchOK, AnswerOK, Pull, Flying
  <2> QED
    BY <2>1, <2>2, <2>4, <2>5 DEF BrowserOK
<1> QED
  BY <1>5, <1>6, <1>8, OneBrowserMoves DEF Pull

(* The row and the state a pull leaves are of their types.                  *)
LEMMA AfterPull ==
    ASSUME DevicesAssumption, HInv, NEW d \in Device, NEW k \in Key
    PROVE  /\ RowAfterPull(d, k) \in Body \cup {NoBody}
           /\ StateAfterPull(d, k) \in {e \in Entry : e = Absent \/ e.body \in Body}
           /\ CopyOf(k, StateAfterPull(d, k))
           /\ StateAfterPull(d, k).revision = 0 => StateAfterPull(d, k) = Absent
           /\ Rule[k] = "event" => RowAfterPull(d, k) \in {NoBody, EventBody}
<1>0. TypeOK /\ RecordsOK /\ BrowserOK(d)
  BY DEF HInv
<1>1. /\ row[d][k] \in Body \cup {NoBody}
      /\ state[d][k] \in {e \in Entry : e = Absent \/ e.body \in Body}
      /\ state[d][k].revision \in Nat
      /\ run[d].page[k] \in Entry /\ run[d].page[k].revision \in Nat
      /\ run[d].page[k].body \in Body \cup {NoBody}
      /\ record[k] \in Entry /\ record[k].revision \in Nat
  BY <1>0, Typed DEF TypeOK, Entry
<1>2. /\ CopyOf(k, state[d][k]) /\ CopyOf(k, run[d].page[k])
      /\ state[d][k].revision = 0 => state[d][k] = Absent
  BY <1>0 DEF BrowserOK, CopiesOK
<1>3. CopyOf(k, Absent)
  BY <1>0, <1>1, NothingTyped DEF CopyOf, RecordsOK
<1>4. RowAfterPull(d, k) \in Body \cup {NoBody}
  BY <1>1 DEF RowAfterPull, Incoming, Merge
<1>5. StateAfterPull(d, k) \in {state[d][k], Absent, run[d].page[k]}
  BY DEF StateAfterPull
<1>6. StateAfterPull(d, k) \in {e \in Entry : e = Absent \/ e.body \in Body}
  BY <1>1, NothingTyped DEF StateAfterPull, Incoming
<1>7. CopyOf(k, StateAfterPull(d, k))
  BY <1>2, <1>3, <1>5
<1>8. StateAfterPull(d, k).revision = 0 => StateAfterPull(d, k) = Absent
  BY <1>1, <1>2 DEF StateAfterPull, IsNews
<1>9. Rule[k] = "event" => RowAfterPull(d, k) \in {NoBody, EventBody}
  <2>1. ASSUME Rule[k] = "event" PROVE RowAfterPull(d, k) \in {NoBody, EventBody}
    <3>1. row[d][k] \in {NoBody, EventBody}
      BY <1>0, <2>1 DEF BrowserOK, EventsKnown
    <3>2. IsNews(d, k) => Incoming(d, k) = EventBody
      BY <1>0, <1>1, <2>1 DEF BrowserOK, EventsKnown, IsNews, Incoming
    <3> QED
      BY <2>1, <3>1, <3>2 DEF RowAfterPull, Merge
  <2> QED
    BY <2>1
<1> QED
  BY <1>4, <1>6, <1>7, <1>8, <1>9

LEMMA ApplyPulledKeeps ==
    ASSUME DevicesAssumption, HInv, NEW d \in Device, ApplyPulled(d)
    PROVE  HInv'
<1> DEFINE r == [run[d] EXCEPT !.phase = "applied", !.page = Nothing]
<1>0. TypeOK /\ RecordsOK /\ BrowserOK(d)
  BY DEF HInv
<1>1. run[d] \in RunState /\ run' = [run EXCEPT ![d] = r]
  BY <1>0, Typed DEF ApplyPulled
<1>2. /\ r \in RunState
      /\ r.phase = "applied" /\ r.page = Nothing
      /\ r.local = run[d].local /\ r.owed = run[d].owed
      /\ r.out = run[d].out /\ r.answer = run[d].answer
  BY <1>1, NothingTyped DEF RunState, Phase
<1> HIDE DEF r
<1>3. /\ run'[d].phase = "applied" /\ run'[d].page = Nothing
      /\ run'[d].local = run[d].local /\ run'[d].owed = run[d].owed
      /\ run'[d].out = run[d].out /\ run'[d].answer = run[d].answer
      /\ run' \in [Device -> RunState]
      /\ \A e \in Device \ {d} : run'[e] = run[e]
  BY <1>0, <1>1, <1>2, RunBecomes
<1>4. /\ row' = [row EXCEPT ![d] = [k \in Key |-> RowAfterPull(d, k)]]
      /\ state' = [state EXCEPT ![d] = [k \in Key |-> StateAfterPull(d, k)]]
      /\ record' = record /\ revision' = revision /\ wire' = wire
      /\ run[d].phase = "pulled"
  BY DEF ApplyPulled
<1>5. /\ row' \in [Device -> [Key -> Body \cup {NoBody}]]
      /\ state' \in [Device -> [Key -> {e \in Entry : e = Absent \/ e.body \in Body}]]
  BY <1>0, <1>4, AfterPull DEF TypeOK
<1>6. /\ \A k \in Key : /\ row'[d][k] = RowAfterPull(d, k)
                         /\ state'[d][k] = StateAfterPull(d, k)
      /\ \A e \in Device \ {d} : row'[e] = row[e] /\ state'[e] = state[e]
  BY <1>0, <1>4 DEF TypeOK
<1>7. TypeOK'
  BY <1>0, <1>3, <1>5 DEF TypeOK, ApplyPulled, RunState
<1>8. BrowserOK(d)'
  <2>1. \A k \in Key : Nothing[k] = Absent /\ Nothing[k].revision = 0 /\ CopyOf(k, Nothing[k])
    BY <1>0, Typed, NothingTyped DEF Nothing, CopyOf, RecordsOK
  <2>2. EventsKnown(d)'
    <3>1. EventsKnown(d)
      BY <1>0 DEF BrowserOK
    <3> QED
      BY <1>3, <1>6, <2>1, <3>1, AfterPull DEF EventsKnown
  <2>3. EventsSent(d)'
    BY <1>0, <1>3, <1>4 DEF BrowserOK, EventsSent
  <2>4. CopiesOK(d)'
    <3>1. \A k \in Key : /\ CopyOf(k, StateAfterPull(d, k))
                         /\ StateAfterPull(d, k).revision = 0 => StateAfterPull(d, k) = Absent
      BY AfterPull
    <3> QED
      BY <1>3, <1>4, <1>6, <2>1, <3>1 DEF CopiesOK, CopyOf
  <2>5. BatchOK(d)' /\ AnswerOK(d)'
    BY <1>0, <1>3, <1>4 DEF BrowserOK, BatchOK, AnswerOK, Flying
  <2> QED
    BY <2>2, <2>3, <2>4, <2>5 DEF BrowserOK
<1> QED
  BY <1>3, <1>4, <1>6, <1>7, <1>8, OneBrowserMoves

(* A step that only moves the run, to a phase in which nothing is in        *)
(* flight, with no other page than it had.                                  *)
LEMMA RunMovesOn ==
    ASSUME DevicesAssumption, HInv, TypeOK', NEW d \in Device, NEW r \in RunState,
           run' = [run EXCEPT ![d] = r],
           record' = record, revision' = revision, row' = row, state' = state,
           wire'[d] \subseteq wire[d], \A e \in Device \ {d} : wire'[e] = wire[e],
           r.phase \notin Flying, r.page \in {run[d].page, Nothing}, r.out = {},
           r.answer = NoAnswer,
           \A k \in Key : Rule[k] = "event" => r.local[k] \in {NoBody, EventBody},
           \A out \in r.owed : Rule[out.key] = "event" => out.body = EventBody
    PROVE  HInv'
<1>0. TypeOK /\ RecordsOK /\ BrowserOK(d)
  BY DEF HInv
<1>1. run'[d] = r /\ \A e \in Device \ {d} : run'[e] = run[e]
  BY <1>0, RunBecomes
<1>2. \A k \in Key : Nothing[k] = Absent /\ Nothing[k].revision = 0 /\ CopyOf(k, Nothing[k])
  BY <1>0, Typed, NothingTyped DEF Nothing, CopyOf, RecordsOK
<1>3. BrowserOK(d)'
  <2>1. EventsKnown(d)'
    <3>1. EventsKnown(d)
      BY <1>0 DEF BrowserOK
    <3>2. CASE r.page = Nothing
      BY <1>1, <1>2, <3>1, <3>2 DEF EventsKnown
    <3>3. CASE r.page = run[d].page
      BY <1>1, <3>1, <3>3 DEF EventsKnown
    <3> QED
      BY <3>2, <3>3
  <2>2. EventsSent(d)'
    BY <1>0, <1>1 DEF BrowserOK, EventsSent
  <2>3. CopiesOK(d)'
    <3>1. CopiesOK(d)
      BY <1>0 DEF BrowserOK
    <3>2. CASE r.page = Nothing
      BY <1>1, <1>2, <3>1, <3>2 DEF CopiesOK, CopyOf
    <3>3. CASE r.page = run[d].page
      BY <1>1, <3>1, <3>3 DEF CopiesOK, CopyOf
    <3> QED
      BY <3>2, <3>3
  <2>4. BatchOK(d)' /\ AnswerOK(d)'
    BY <1>1 DEF BatchOK, AnswerOK, Flying
  <2> QED
    BY <2>1, <2>2, <2>3, <2>4 DEF BrowserOK
<1> QED
  BY <1>1, <1>3, OneBrowserMoves

LEMMA WriteCursorKeeps ==
    ASSUME DevicesAssumption, HInv, NEW d \in Device, WriteCursor(d)
    PROVE  HInv'
<1> DEFINE r == [run[d] EXCEPT !.phase = "reading", !.next = 0, !.unread = Key]
<1>0. TypeOK /\ BrowserOK(d)
  BY DEF HInv
<1>1. /\ run[d] \in RunState /\ run' = [run EXCEPT ![d] = r]
      /\ run[d].phase = "applied"
  BY <1>0, Typed DEF WriteCursor
<1>2. /\ r \in RunState
      /\ r.phase = "reading" /\ r.page = run[d].page
      /\ r.local = run[d].local /\ r.owed = run[d].owed
      /\ r.out = run[d].out /\ r.answer = run[d].answer
  BY <1>1, NothingTyped DEF RunState, Phase
<1> HIDE DEF r
<1>3. TypeOK'
  <2>1. run' \in [Device -> RunState]
    BY <1>0, <1>1, <1>2, RunBecomes
  <2>2. run[d].next \in 0..MaxRevision
    BY <1>1 DEF RunState
  <2>3. cursor' \in [Device -> 0..MaxRevision]
    BY <1>0, <2>2 DEF TypeOK, WriteCursor
  <2> QED
    BY <1>0, <2>1, <2>3 DEF TypeOK, WriteCursor, RunState
<1>4. r.out = {} /\ r.answer = NoAnswer /\ r.phase \notin Flying
  BY <1>0, <1>1, <1>2 DEF BrowserOK, BatchOK, Flying
<1>5. /\ \A k \in Key : Rule[k] = "event" => r.local[k] \in {NoBody, EventBody}
      /\ \A out \in r.owed : Rule[out.key] = "event" => out.body = EventBody
  BY <1>0, <1>2 DEF BrowserOK, EventsKnown, EventsSent
<1> QED
  BY <1>1, <1>2, <1>3, <1>4, <1>5, RunMovesOn DEF WriteCursor

LEMMA ReadLocalKeeps ==
    ASSUME DevicesAssumption, HInv, NEW d \in Device, ReadLocal(d)
    PROVE  HInv'
<1> DEFINE local == [k \in Key |-> IF k \in NextTable(d) THEN row[d][k] ELSE run[d].local[k]]
           unread == run[d].unread \ NextTable(d)
           r == [run[d] EXCEPT !.local = local, !.unread = unread]
<1>0. TypeOK /\ BrowserOK(d)
  BY DEF HInv
<1>1. /\ run[d] \in RunState /\ run' = [run EXCEPT ![d] = r]
      /\ run[d].phase = "reading"
  BY <1>0, Typed DEF ReadLocal
<1>2. local \in [Key -> Body \cup {NoBody}] /\ unread \in SUBSET Key
  BY <1>0, <1>1, Typed DEF RunState
<1>3. \A k \in Key : Rule[k] = "event" => local[k] \in {NoBody, EventBody}
  BY <1>0 DEF BrowserOK, EventsKnown
<1> HIDE DEF local, unread
<1>4. /\ r \in RunState
      /\ r.phase = "reading" /\ r.page = run[d].page
      /\ r.local = local /\ r.owed = run[d].owed
      /\ r.out = run[d].out /\ r.answer = run[d].answer
  BY <1>1, <1>2 DEF RunState, Phase
<1> HIDE DEF r
<1>5. TypeOK'
  <2>1. run' \in [Device -> RunState]
    BY <1>0, <1>1, <1>4, RunBecomes
  <2> QED
    BY <1>0, <2>1 DEF TypeOK, ReadLocal, RunState
<1>6. r.out = {} /\ r.answer = NoAnswer /\ r.phase \notin Flying
  BY <1>0, <1>1, <1>4 DEF BrowserOK, BatchOK, Flying
<1>7. \A out \in r.owed : Rule[out.key] = "event" => out.body = EventBody
  BY <1>0, <1>4 DEF BrowserOK, EventsSent
<1> QED
  BY <1>1, <1>3, <1>4, <1>5, <1>6, <1>7, RunMovesOn DEF ReadLocal

LEMMA OwedTyped ==
    ASSUME NEW local \in [Key -> Body \cup {NoBody}], NEW states
    PROVE  Owed(local, states) \in SUBSET Outgoing
  BY DEF Owed, Outgoing

LEMMA ReadStatesKeeps ==
    ASSUME DevicesAssumption, HInv, NEW d \in Device, ReadStates(d)
    PROVE  HInv'
<1> DEFINE owed == Owed(run[d].local, state[d])
           r == [NoRun EXCEPT !.phase = "push", !.owed = owed]
<1>0. TypeOK /\ BrowserOK(d)
  BY DEF HInv
<1>1. run[d] \in RunState /\ run' = [run EXCEPT ![d] = r]
  BY <1>0, Typed DEF ReadStates
<1>2. owed \in SUBSET Outgoing
  BY <1>1, OwedTyped DEF RunState
<1>3. \A out \in owed : Rule[out.key] = "event" => out.body = EventBody
  BY <1>0 DEF BrowserOK, EventsKnown, Owed
<1> HIDE DEF owed
<1>4. /\ r \in RunState
      /\ r.phase = "push" /\ r.page = Nothing
      /\ r.local = [k \in Key |-> NoBody] /\ r.owed = owed
      /\ r.out = {} /\ r.answer = NoAnswer
  BY <1>2, NothingTyped, NoRunIs DEF RunState, Phase
<1> HIDE DEF r
<1>5. TypeOK'
  <2>1. run' \in [Device -> RunState]
    BY <1>0, <1>1, <1>4, RunBecomes
  <2> QED
    BY <1>0, <2>1 DEF TypeOK, ReadStates, RunState
<1>6. r.phase \notin Flying /\ \A k \in Key : Rule[k] = "event" => r.local[k] \in {NoBody, EventBody}
  BY <1>4 DEF Flying
<1> QED
  BY <1>1, <1>3, <1>4, <1>5, <1>6, RunMovesOn DEF ReadStates

(* The run ends, wherever it is (Done, Fail).                               *)
LEMMA EndKeeps ==
    ASSUME DevicesAssumption, HInv, NEW d \in Device, run' = [run EXCEPT ![d] = NoRun],
           record' = record, revision' = revision, row' = row, state' = state, wire' = wire,
           cursor' = cursor, edits' = edits, faults' \in 0..MaxFaults
    PROVE  HInv'
<1>1. TypeOK /\ NoRun \in RunState
  BY NothingTyped DEF HInv
<1>2. TypeOK'
  <2>1. run' \in [Device -> RunState]
    BY <1>1, RunBecomes
  <2> QED
    BY <1>1, <2>1 DEF TypeOK, RunState
<1>3. \A k \in Key : Rule[k] = "event" => NoRun.local[k] \in {NoBody, EventBody}
  BY NoRunIs
<1>4. NoRun.phase \notin Flying /\ NoRun.owed = {}
  BY NoRunIs DEF Flying
<1> QED
  BY <1>1, <1>2, <1>3, <1>4, NoRunIs, RunMovesOn

LEMMA DoneKeeps ==
    ASSUME DevicesAssumption, HInv, NEW d \in Device, Done(d)
    PROVE  HInv'
<1>1. faults' \in 0..MaxFaults
  BY DEF HInv, TypeOK, Done
<1> QED
  BY <1>1, EndKeeps DEF Done

LEMMA FailKeeps ==
    ASSUME DevicesAssumption, HInv, NEW d \in Device, Fail(d)
    PROVE  HInv'
<1>1. faults' \in 0..MaxFaults
  BY DEF HInv, TypeOK, Fail, DevicesAssumption
<1> QED
  BY <1>1, EndKeeps DEF Fail

LEMMA AdvanceCursorKeeps ==
    ASSUME DevicesAssumption, HInv, NEW d \in Device, AdvanceCursor(d)
    PROVE  HInv'
<1> DEFINE r == [run[d] EXCEPT !.phase = "push", !.out = {}, !.answer = NoAnswer]
<1>0. TypeOK /\ RecordsOK /\ BrowserOK(d)
  BY DEF HInv
<1>1. /\ run[d] \in RunState /\ run' = [run EXCEPT ![d] = r]
      /\ run[d].phase = "confirmed"
  BY <1>0, Typed DEF AdvanceCursor
<1>2. /\ r \in RunState
      /\ r.phase = "push" /\ r.page = run[d].page
      /\ r.local = run[d].local /\ r.owed = run[d].owed
      /\ r.out = {} /\ r.answer = NoAnswer
  BY <1>1, NothingTyped DEF RunState, Phase
<1> HIDE DEF r
<1>3. TypeOK'
  <2>1. run' \in [Device -> RunState]
    BY <1>0, <1>1, <1>2, RunBecomes
  <2>2. run[d].answer.revision \in 0..MaxRevision
    BY <1>1 DEF RunState, Answer
  <2>3. CursorAfterPush(d) \in 0..MaxRevision
    BY <1>0, <2>2 DEF CursorAfterPush, TypeOK
  <2>4. cursor' \in [Device -> 0..MaxRevision]
    BY <1>0, <2>3 DEF TypeOK, AdvanceCursor
  <2> QED
    BY <1>0, <2>1, <2>4 DEF TypeOK, AdvanceCursor, RunState
<1>4. /\ \A k \in Key : Rule[k] = "event" => r.local[k] \in {NoBody, EventBody}
      /\ \A out \in r.owed : Rule[out.key] = "event" => out.body = EventBody
  BY <1>0, <1>2 DEF BrowserOK, EventsKnown, EventsSent
<1>5. r.phase \notin Flying
  BY <1>2 DEF Flying
<1> QED
  BY <1>1, <1>2, <1>3, <1>4, <1>5, RunMovesOn DEF AdvanceCursor

LEMMA PushKeeps ==
    ASSUME DevicesAssumption, HInv, NEW d \in Device, Push(d)
    PROVE  HInv'
<1>0. TypeOK /\ RecordsOK /\ BrowserOK(d) /\ run[d] \in RunState
  BY Typed DEF HInv
<1>1. PICK x \in run[d].owed :
         /\ run' = [run EXCEPT ![d].phase = "sent", ![d].out = {x}, ![d].owed = @ \ {x}]
         /\ wire' = [wire EXCEPT ![d] = {x}]
  BY DEF Push
<1> DEFINE r == [run[d] EXCEPT !.phase = "sent", !.out = {x}, !.owed = run[d].owed \ {x}]
<1>2. run' = [run EXCEPT ![d] = r]
  BY <1>0, <1>1, Typed
<1>3. x \in Outgoing
  BY <1>0, <1>1 DEF RunState
<1>4. /\ r \in RunState
      /\ r.phase = "sent" /\ r.page = run[d].page
      /\ r.local = run[d].local /\ r.owed = run[d].owed \ {x}
      /\ r.out = {x} /\ r.answer = run[d].answer
  BY <1>0, <1>3 DEF RunState, Phase
<1> HIDE DEF r
<1>5. /\ run'[d] = r
      /\ run' \in [Device -> RunState]
      /\ \A e \in Device \ {d} : run'[e] = run[e]
  BY <1>0, <1>2, <1>4, RunBecomes
<1>6. /\ wire'[d] = {x} /\ wire' \in [Device -> SUBSET Outgoing]
      /\ \A e \in Device \ {d} : wire'[e] = wire[e]
  BY <1>0, <1>1, <1>3 DEF TypeOK
<1>7. record' = record /\ revision' = revision /\ row' = row /\ state' = state
  BY DEF Push
<1>8. TypeOK'
  BY <1>0, <1>5, <1>6 DEF TypeOK, Push, RunState
<1>9. BrowserOK(d)'
  <2>1. EventsKnown(d)'
    BY <1>0, <1>4, <1>5, <1>7 DEF BrowserOK, EventsKnown
  <2>2. EventsSent(d)'
    BY <1>0, <1>1, <1>4, <1>5, <1>6 DEF BrowserOK, EventsSent
  <2>3. CopiesOK(d)'
    BY <1>0, <1>4, <1>5, <1>7 DEF BrowserOK, CopiesOK, CopyOf
  <2>4. BatchOK(d)' /\ AnswerOK(d)'
    BY <1>3, <1>4, <1>5, <1>6 DEF BatchOK, AnswerOK, Flying
  <2> QED
    BY <2>1, <2>2, <2>3, <2>4 DEF BrowserOK
<1> QED
  BY <1>5, <1>6, <1>7, <1>8, <1>9, OneBrowserMoves

LEMMA VanishKeeps ==
    ASSUME DevicesAssumption, HInv, NEW d \in Device, Vanish(d)
    PROVE  HInv'
<1>0. TypeOK /\ RecordsOK /\ BrowserOK(d)
  BY DEF HInv
<1>1. /\ wire'[d] = {} /\ wire' \in [Device -> SUBSET Outgoing]
      /\ \A e \in Device \ {d} : wire'[e] = wire[e]
  BY <1>0 DEF TypeOK, Vanish
<1>2. /\ record' = record /\ revision' = revision /\ row' = row /\ state' = state
      /\ run' = run /\ run[d].phase # "sent"
  BY DEF Vanish
<1>3. TypeOK'
  BY <1>0, <1>1 DEF TypeOK, Vanish
<1>4. BrowserOK(d)'
  BY <1>0, <1>1, <1>2
  DEF BrowserOK, EventsKnown, EventsSent, CopiesOK, CopyOf, BatchOK, AnswerOK, Wrote
<1> QED
  BY <1>1, <1>2, <1>3, <1>4, OneBrowserMoves

LEMMA ConfirmPushedKeeps ==
    ASSUME DevicesAssumption, HInv, NEW d \in Device, ConfirmPushed(d)
    PROVE  HInv'
<1> DEFINE r == [run[d] EXCEPT !.phase = "confirmed"]
<1>0. TypeOK /\ RecordsOK /\ BrowserOK(d) /\ run[d] \in RunState
  BY Typed DEF HInv
<1>1. run' = [run EXCEPT ![d] = r] /\ run[d].phase = "answered"
  BY DEF ConfirmPushed
<1>2. /\ r \in RunState
      /\ r.phase = "confirmed" /\ r.page = run[d].page
      /\ r.local = run[d].local /\ r.owed = run[d].owed
      /\ r.out = run[d].out /\ r.answer = run[d].answer
  BY <1>0 DEF RunState, Phase
<1> HIDE DEF r
<1>3. /\ run'[d] = r
      /\ run' \in [Device -> RunState]
      /\ \A e \in Device \ {d} : run'[e] = run[e]
  BY <1>0, <1>1, <1>2, RunBecomes
<1>4. record' = record /\ revision' = revision /\ wire' = wire
  BY DEF ConfirmPushed
<1>5. PICK out \in run[d].out :
         \/ /\ out.body = NoBody
            /\ state' = [state EXCEPT ![d][out.key] = Absent]
            /\ UNCHANGED row
         \/ /\ out.body # NoBody /\ run[d].answer.outcome = "rejected"
            /\ state' = [state EXCEPT ![d][out.key] = Absent]
            /\ row' = [row EXCEPT ![d][out.key] = NoBody]
         \/ /\ out.body # NoBody /\ run[d].answer.outcome = "deferred"
            /\ UNCHANGED <<row, state>>
         \/ /\ out.body # NoBody /\ Wrote(d)
            /\ state' = [state EXCEPT ![d][out.key] = ConfirmedAs(d, out)]
            /\ UNCHANGED row
  BY DEF ConfirmPushed, Wrote
<1>6. out \in Outgoing /\ run[d].answer \in Answer
  BY <1>0, <1>5 DEF RunState
<1>7. out.key \in Key /\ out.body \in Body \cup {NoBody}
  BY <1>6 DEF Outgoing
<1>8. Wrote(d) => /\ ConfirmedAs(d, out) \in Entry
                  /\ ConfirmedAs(d, out).body = out.body
                  /\ ConfirmedAs(d, out).revision > 0
                  /\ CopyOf(out.key, ConfirmedAs(d, out))
  BY <1>0, <1>1, <1>5, <1>6, <1>7 DEF ConfirmedAs, Entry, Answer, BrowserOK, AnswerOK
<1>9. PICK s \in {e \in Entry : e = Absent \/ e.body \in Body} :
         /\ state' = [state EXCEPT ![d][out.key] = s]
         /\ CopyOf(out.key, s)
         /\ s.revision = 0 => s = Absent
  <2>1. CopyOf(out.key, Absent)
    BY <1>0, <1>7, Typed, NothingTyped DEF CopyOf, RecordsOK
  <2>2. Absent \in {e \in Entry : e = Absent \/ e.body \in Body}
    BY NothingTyped
  <2>3. CASE out.body = NoBody \/ run[d].answer.outcome = "rejected"
    <3>1. state' = [state EXCEPT ![d][out.key] = Absent]
      BY <1>5, <2>3 DEF Wrote
    <3> QED
      BY <2>1, <2>2, <3>1
  <2>4. CASE out.body # NoBody /\ run[d].answer.outcome = "deferred"
    <3>1. state' = state
      BY <1>5, <2>4 DEF Wrote
    <3>2. state' = [state EXCEPT ![d][out.key] = state[d][out.key]]
      BY <1>0, <1>7, <3>1 DEF TypeOK
    <3>3. state[d][out.key] \in {e \in Entry : e = Absent \/ e.body \in Body}
      BY <1>0, <1>7 DEF TypeOK
    <3>4. /\ CopyOf(out.key, state[d][out.key])
          /\ state[d][out.key].revision = 0 => state[d][out.key] = Absent
      BY <1>0, <1>7 DEF BrowserOK, CopiesOK
    <3> QED
      BY <3>2, <3>3, <3>4
  <2>5. CASE out.body # NoBody /\ Wrote(d)
    <3>1. state' = [state EXCEPT ![d][out.key] = ConfirmedAs(d, out)]
      BY <1>5, <2>5 DEF Wrote
    <3>2. ConfirmedAs(d, out) \in {e \in Entry : e = Absent \/ e.body \in Body}
      BY <1>7, <1>8, <2>5
    <3>3. CopyOf(out.key, ConfirmedAs(d, out)) /\ ConfirmedAs(d, out).revision # 0
      BY <1>8, <2>5
    <3> QED
      BY <3>1, <3>2, <3>3
  <2> QED
    BY <1>5, <2>3, <2>4, <2>5
<1>10. /\ state' \in [Device -> [Key -> {e \in Entry : e = Absent \/ e.body \in Body}]]
       /\ \A k \in Key : state'[d][k] = IF k = out.key THEN s ELSE state[d][k]
       /\ \A e \in Device \ {d} : state'[e] = state[e]
  BY <1>0, <1>7, <1>9 DEF TypeOK
<1>11. /\ row' \in [Device -> [Key -> Body \cup {NoBody}]]
       /\ \A k \in Key : row'[d][k] \in {NoBody, row[d][k]}
       /\ \A e \in Device \ {d} : row'[e] = row[e]
  <2>1. row' = row \/ row' = [row EXCEPT ![d][out.key] = NoBody]
    BY <1>5
  <2>2. row \in [Device -> [Key -> Body \cup {NoBody}]]
    BY <1>0 DEF TypeOK
  <2>3. CASE row' = row
    BY <2>2, <2>3
  <2>4. CASE row' = [row EXCEPT ![d][out.key] = NoBody]
    <3>1. row' \in [Device -> [Key -> Body \cup {NoBody}]]
      BY <1>7, <2>2, <2>4
    <3>2. \A k \in Key : row'[d][k] = IF k = out.key THEN NoBody ELSE row[d][k]
      BY <1>7, <2>2, <2>4
    <3>3. \A e \in Device \ {d} : row'[e] = row[e]
      BY <2>2, <2>4
    <3> QED
      BY <3>1, <3>2, <3>3
  <2> QED
    BY <2>1, <2>3, <2>4
<1>12. TypeOK'
  BY <1>0, <1>3, <1>10, <1>11 DEF TypeOK, ConfirmPushed, RunState
<1>13. BrowserOK(d)'
  <2>1. EventsKnown(d)'
    BY <1>0, <1>2, <1>3, <1>11 DEF BrowserOK, EventsKnown
  <2>2. EventsSent(d)'
    BY <1>0, <1>2, <1>3, <1>4 DEF BrowserOK, EventsSent
  <2>3. CopiesOK(d)'
    BY <1>0, <1>2, <1>3, <1>4, <1>9, <1>10 DEF BrowserOK, CopiesOK, CopyOf
  <2>4. BatchOK(d)'
    BY <1>0, <1>1, <1>2, <1>3 DEF BrowserOK, BatchOK, Flying
  <2>5. AnswerOK(d)'
    BY <1>0, <1>1, <1>2, <1>3, <1>4 DEF BrowserOK, AnswerOK, Wrote, CopyOf
  <2> QED
    BY <2>1, <2>2, <2>3, <2>4, <2>5 DEF BrowserOK
<1> QED
  BY <1>3, <1>4, <1>10, <1>11, <1>12, <1>13, OneBrowserMoves

-----------------------------------------------------------------------------
(* What a push may do to the account: a record keeps, or gets a revision    *)
(* above all there were; an event that is there keeps.                      *)
Grows ==
    /\ revision <= revision'
    /\ \A k \in Key : \/ record'[k] = record[k]
                       \/ /\ record'[k].revision > revision
                          /\ ~(Rule[k] = "event" /\ record[k].revision > 0)

LEMMA CopyStays ==
    ASSUME TypeOK, RecordsOK, Grows, NEW k \in Key, record'[k].revision \in Nat,
           NEW e, e.revision \in Nat, CopyOf(k, e)
    PROVE  CopyOf(k, e)'
<1>1. record[k].revision \in Nat /\ revision \in Nat
  BY Typed DEF TypeOK
<1>2. e.revision <= record[k].revision /\ record[k].revision <= revision
  BY DEF CopyOf, RecordsOK
<1>3. CASE record'[k] = record[k]
  BY <1>3 DEF CopyOf
<1>4. CASE record'[k].revision > revision
  BY <1>1, <1>2, <1>4 DEF CopyOf
<1> QED
  BY <1>3, <1>4 DEF Grows

(* A push leaves every copy a copy.                                         *)
LEMMA CopiesStay ==
    ASSUME TypeOK, RecordsOK, Grows, record' \in [Key -> Entry], NEW e \in Device,
           run'[e].page = run[e].page, state'[e] = state[e], CopiesOK(e)
    PROVE  CopiesOK(e)'
<1>0. \A k \in Key : record'[k].revision \in Nat /\ record[k].revision \in Nat
  BY Typed DEF Entry
<1>1. ASSUME NEW k \in Key PROVE CopyOf(k, state[e][k])' /\ CopyOf(k, run[e].page[k])'
  <2>1. CopyOf(k, state[e][k]) /\ CopyOf(k, run[e].page[k])
    BY DEF CopiesOK
  <2>2. state[e][k].revision \in Nat /\ run[e].page[k].revision \in Nat
    BY Typed
  <2>3. /\ state[e][k].revision <= record'[k].revision
        /\ state[e][k].revision = record'[k].revision => state[e][k].body = record'[k].body
    <3>1. PICK x : x = state[e][k]
      OBVIOUS
    <3> QED
      BY <1>0, <2>1, <2>2, <3>1, CopyStays DEF CopyOf
  <2>4. /\ run[e].page[k].revision <= record'[k].revision
        /\ run[e].page[k].revision = record'[k].revision
              => run[e].page[k].body = record'[k].body
    <3>1. PICK x : x = run[e].page[k]
      OBVIOUS
    <3> QED
      BY <1>0, <2>1, <2>2, <3>1, CopyStays DEF CopyOf
  <2> QED
    BY <2>3, <2>4 DEF CopyOf
<1>2. \A k \in Key : state[e][k].revision = 0 => state[e][k] = Absent
  BY DEF CopiesOK
<1> QED
  BY <1>1, <1>2 DEF CopiesOK

(* Another browser's push leaves this one good, and so does its own that it *)
(* no longer waits for.                                                     *)
LEMMA AccountMoves ==
    ASSUME TypeOK, RecordsOK, Grows, record' \in [Key -> Entry], NEW e \in Device,
           run'[e] = run[e], row'[e] = row[e], state'[e] = state[e],
           wire'[e] \subseteq wire[e], run[e].phase = "sent" => wire'[e] = wire[e],
           BrowserOK(e)
    PROVE  BrowserOK(e)'
<1>0. \A k \in Key : record'[k].revision \in Nat /\ record[k].revision \in Nat
  BY Typed DEF Entry
<1>1. EventsKnown(e)'
  BY DEF BrowserOK, EventsKnown
<1>2. EventsSent(e)'
  BY DEF BrowserOK, EventsSent
<1>3. CopiesOK(e)'
  BY CopiesStay DEF BrowserOK
<1>4. BatchOK(e)'
  BY DEF BrowserOK, BatchOK
<1>5. AnswerOK(e)'
  <2> SUFFICES ASSUME NEW out \in run[e].out, run[e].phase \in {"answered", "confirmed"}
               PROVE  /\ Wrote(e) =>
                            /\ CopyOf(out.key, [revision |-> run[e].answer.revision,
                                                body |-> out.body])'
                            /\ \A j \in Key : record'[j].revision = run[e].answer.revision
                                                => j = out.key
                      /\ run[e].answer.outcome = "already_present" =>
                            record'[out.key].revision = run[e].answer.revision
    BY DEF BrowserOK, AnswerOK, Wrote
  <2>1. run[e] \in RunState
    BY Typed
  <2>2. out.key \in Key /\ run[e].answer.revision \in Nat
    BY <2>1 DEF RunState, Outgoing, Answer
  <2>3. ASSUME Wrote(e)
        PROVE  CopyOf(out.key, [revision |-> run[e].answer.revision, body |-> out.body])'
    <3>1. PICK x : x = [revision |-> run[e].answer.revision, body |-> out.body]
      OBVIOUS
    <3>2. CopyOf(out.key, x) /\ x.revision \in Nat
      BY <2>2, <2>3, <3>1 DEF BrowserOK, AnswerOK
    <3>3. /\ x.revision <= record'[out.key].revision
          /\ x.revision = record'[out.key].revision => x.body = record'[out.key].body
      BY <1>0, <2>2, <3>2, CopyStays DEF CopyOf
    <3> QED
      BY <3>1, <3>3 DEF CopyOf
  <2>4. ASSUME Wrote(e), NEW j \in Key, record'[j].revision = run[e].answer.revision
        PROVE  j = out.key
    <3>1. run[e].answer.revision <= revision
      <4>1. run[e].answer.revision <= record[out.key].revision
        BY <2>4 DEF BrowserOK, AnswerOK, CopyOf
      <4>2. record[out.key].revision <= revision
        BY <2>2 DEF RecordsOK
      <4>3. record[out.key].revision \in Nat /\ revision \in Nat
        BY <1>0, <2>2 DEF TypeOK
      <4> QED
        BY <2>2, <4>1, <4>2, <4>3
    <3>2. record'[j] = record[j]
      BY <1>0, <2>2, <2>4, <3>1 DEF Grows, TypeOK
    <3>3. record[j].revision = run[e].answer.revision
      BY <2>4, <3>2
    <3> QED
      BY <2>4, <3>3 DEF BrowserOK, AnswerOK
  <2>5. ASSUME run[e].answer.outcome = "already_present"
        PROVE  record'[out.key].revision = run[e].answer.revision
    <3>1. /\ Rule[out.key] = "event" /\ run[e].answer.revision > 0
          /\ record[out.key].revision = run[e].answer.revision
      BY <2>5 DEF BrowserOK, AnswerOK, Wrote
    <3> QED
      BY <2>2, <3>1 DEF Grows
  <2> QED
    BY <2>3, <2>4, <2>5
<1> QED
  BY <1>1, <1>2, <1>3, <1>4, <1>5 DEF BrowserOK

LEMMA StoreIs ==
    ASSUME DevicesAssumption, TypeOK, RecordsOK, NEW out \in Outgoing, NEW answer \in Answer,
           Rule[out.key] = "event" => out.body = EventBody,
           Store(out, answer)
    PROVE  /\ record' \in [Key -> Entry] /\ revision' \in 0..MaxRevision
           /\ RecordsOK' /\ Grows
           /\ answer.outcome # "none"
           /\ answer.outcome \in {"rejected", "deferred"} =>
                 answer.revision = 0 /\ out.body # NoBody /\ answer.outcome \in Refusals
           /\ answer.outcome \in {"applied", "already_present"} =>
                 /\ answer.revision > 0
                 /\ record'[out.key].revision = answer.revision
                 /\ record'[out.key].body = out.body
           /\ answer.outcome = "already_present" => Rule[out.key] = "event"
           /\ answer.outcome = "applied" => answer.revision > revision
<1>0. /\ out.key \in Key /\ out.body \in Body \cup {NoBody} /\ revision \in 0..MaxRevision
      /\ record \in [Key -> Entry] /\ revision \in Nat
      /\ \A k \in Key : record[k].revision \in Nat /\ record[k].revision <= revision
  BY Typed DEF Outgoing, TypeOK, RecordsOK
<1>1. CASE answer.outcome \in {"rejected", "deferred"} /\ answer.revision = 0
           /\ answer.outcome \in Refusals /\ out.body # NoBody /\ UNCHANGED <<revision, record>>
  BY <1>0, <1>1 DEF RecordsOK, Grows
<1>2. CASE AlreadyPresent(out) /\ UNCHANGED <<revision, record>>
           /\ answer = [outcome |-> "already_present", revision |-> record[out.key].revision]
  <2>1. record[out.key].revision > 0 /\ record[out.key].body = out.body
        /\ Rule[out.key] = "event"
    BY <1>0, <1>2 DEF AlreadyPresent, RecordsOK
  <2>2. answer.outcome = "already_present" /\ answer.revision = record[out.key].revision
    BY <1>2
  <2>3. RecordsOK' /\ Grows
    BY <1>0, <1>2 DEF RecordsOK, Grows
  <2> QED
    BY <1>0, <1>2, <2>1, <2>2, <2>3
<1>3. CASE /\ ~AlreadyPresent(out) /\ revision < MaxRevision
           /\ answer = [outcome |-> "applied", revision |-> revision + 1]
           /\ revision' = revision + 1
           /\ record' = [record EXCEPT ![out.key] =
                             [revision |-> revision + 1, body |-> out.body]]
  <2> DEFINE new == [revision |-> revision + 1, body |-> out.body]
  <2>1. new \in Entry /\ new.revision = revision + 1 /\ new.body = out.body
    BY <1>0, <1>3 DEF Entry, DevicesAssumption
  <2>2. record' = [record EXCEPT ![out.key] = new]
    BY <1>3
  <2> HIDE DEF new
  <2>3. /\ record' \in [Key -> Entry]
        /\ \A k \in Key : record'[k] = IF k = out.key THEN new ELSE record[k]
    BY <1>0, <2>1, <2>2
  <2>4. answer.outcome = "applied" /\ answer.revision = revision + 1
    BY <1>3
  <2>5. RecordsOK'
    <3>1. ASSUME NEW k \in Key
          PROVE  /\ record'[k].revision <= revision'
                 /\ record'[k].revision = 0 => record'[k] = Absent
                 /\ Rule[k] = "event" /\ record'[k].revision > 0
                       => record'[k].body = EventBody
      BY <1>0, <1>3, <2>1, <2>3 DEF RecordsOK
    <3>2. ASSUME NEW j \in Key, NEW k \in Key, record'[j].revision > 0,
                 record'[j].revision = record'[k].revision
          PROVE  j = k
      BY <1>0, <2>1, <2>3, <3>2 DEF RecordsOK
    <3> QED
      BY <3>1, <3>2 DEF RecordsOK
  <2>6. Grows
    BY <1>0, <1>3, <2>1, <2>3 DEF Grows, AlreadyPresent
  <2> QED
    BY <1>0, <1>3, <2>1, <2>3, <2>4, <2>5, <2>6 DEF DevicesAssumption
<1> QED
  <2>1. ASSUME Unsupported(out), answer = [outcome |-> "rejected", revision |-> 0]
        PROVE  answer.outcome = "rejected" /\ answer.revision = 0 /\ out.body # NoBody
               /\ answer.outcome \in Refusals
    BY <2>1 DEF Unsupported
  <2>2. ASSUME "deferred" \in Refusals, answer = [outcome |-> "deferred", revision |-> 0]
        PROVE  answer.outcome = "deferred" /\ answer.revision = 0
               /\ answer.outcome \in Refusals
    BY <2>2
  <2> QED
    BY <1>1, <1>2, <1>3, <2>1, <2>2 DEF Store

(* The account changes as Store says, and one browser's push leaves the     *)
(* wire, answered or not.                                                   *)
LEMMA ArriveKeeps ==
    ASSUME DevicesAssumption, HInv, NEW d \in Device, Arrive(d)
    PROVE  /\ HInv' /\ Grows
           /\ state' = state /\ cursor' = cursor
           /\ \A e \in Device :
                \/ run'[e] = run[e]
                \/ /\ run[e].phase = "sent" /\ run'[e].phase = "answered"
                   /\ run'[e].page = run[e].page
                   /\ run'[e].owed = run[e].owed /\ run'[e].out = run[e].out
                   /\ run'[e].answer.outcome = "applied"
                         => run'[e].answer.revision > revision
<1>0. TypeOK /\ RecordsOK /\ BrowserOK(d) /\ run[d] \in RunState
  BY Typed DEF HInv
<1>1. PICK x \in wire[d] : \E answer \in Answer :
         /\ Store(x, answer)
         /\ run' = IF run[d].phase = "sent"
                   THEN [run EXCEPT ![d].phase = "answered", ![d].answer = answer]
                   ELSE run
  BY DEF Arrive
<1>2. PICK answer \in Answer :
         /\ Store(x, answer)
         /\ run' = IF run[d].phase = "sent"
                   THEN [run EXCEPT ![d].phase = "answered", ![d].answer = answer]
                   ELSE run
  BY <1>1
<1>3. x \in Outgoing /\ x.key \in Key /\ (Rule[x.key] = "event" => x.body = EventBody)
  BY <1>0, <1>1 DEF TypeOK, BrowserOK, EventsSent, Outgoing
<1>4. /\ record' \in [Key -> Entry] /\ revision' \in 0..MaxRevision
      /\ RecordsOK' /\ Grows
      /\ answer.outcome # "none"
      /\ answer.outcome \in {"rejected", "deferred"} =>
            answer.revision = 0 /\ x.body # NoBody /\ answer.outcome \in Refusals
      /\ answer.outcome \in {"applied", "already_present"} =>
            /\ answer.revision > 0
            /\ record'[x.key].revision = answer.revision
            /\ record'[x.key].body = x.body
      /\ answer.outcome = "already_present" => Rule[x.key] = "event"
      /\ answer.outcome = "applied" => answer.revision > revision
  BY <1>0, <1>2, <1>3, StoreIs
<1>5. /\ wire'[d] = {} /\ wire' \in [Device -> SUBSET Outgoing]
      /\ \A e \in Device \ {d} : wire'[e] = wire[e]
      /\ row' = row /\ state' = state /\ cursor' = cursor
      /\ edits' = edits /\ faults' = faults
  BY <1>0 DEF TypeOK, Arrive
<1>6. ASSUME NEW r \in RunState, run' = [run EXCEPT ![d] = r], BrowserOK(d)'
      PROVE  HInv'
  <2>1. /\ run'[d] = r /\ run' \in [Device -> RunState]
        /\ \A e \in Device \ {d} : run'[e] = run[e]
    BY <1>0, <1>6, RunBecomes
  <2>2. TypeOK'
    BY <1>0, <1>4, <1>5, <2>1 DEF TypeOK, RunState
  <2>3. ASSUME NEW e \in Device \ {d} PROVE BrowserOK(e)'
    <3>1. BrowserOK(e)
      BY DEF HInv
    <3> QED
      BY <1>0, <1>4, <1>5, <2>1, <3>1, AccountMoves
  <2> QED
    BY <1>4, <1>6, <2>2, <2>3 DEF HInv
<1>7. CASE run[d].phase # "sent"
  <2>1. run' = run /\ run' = [run EXCEPT ![d] = run[d]]
    BY <1>0, <1>2, <1>7, Typed
  <2>2. BrowserOK(d)'
    BY <1>0, <1>4, <1>5, <1>7, <2>1, AccountMoves
  <2> QED
    BY <1>0, <1>4, <1>5, <1>6, <2>1, <2>2
<1>8. CASE run[d].phase = "sent"
  <2> DEFINE r == [run[d] EXCEPT !.phase = "answered", !.answer = answer]
  <2>1. run' = [run EXCEPT ![d] = r]
    BY <1>0, <1>2, <1>8, Typed
  <2>2. /\ r \in RunState
        /\ r.phase = "answered" /\ r.page = run[d].page
        /\ r.local = run[d].local /\ r.owed = run[d].owed
        /\ r.out = run[d].out /\ r.answer = answer
    BY <1>0 DEF RunState, Phase
  <2> HIDE DEF r
  <2>3. run'[d] = r /\ \A e \in Device \ {d} : run'[e] = run[e]
    BY <1>0, <2>1, <2>2, RunBecomes
  <2>4. run[d].out = {x}
    BY <1>0, <1>1, <1>8 DEF BrowserOK, BatchOK, Flying
  <2>5. EventsKnown(d)' /\ EventsSent(d)'
    BY <1>0, <1>5, <2>2, <2>3 DEF BrowserOK, EventsKnown, EventsSent
  <2>6. CopiesOK(d)'
    BY <1>0, <1>4, <1>5, <2>2, <2>3, CopiesStay DEF BrowserOK
  <2>7. BatchOK(d)'
    BY <1>3, <2>2, <2>3, <2>4 DEF BatchOK, Flying
  <2>8. AnswerOK(d)'
    <3>1. answer.revision \in Nat /\ record'[x.key].revision \in Nat
      BY <1>3, <1>4 DEF Answer, Entry
    <3>2. ASSUME answer.outcome \in {"applied", "already_present"}
          PROVE  /\ CopyOf(x.key, [revision |-> answer.revision, body |-> x.body])'
                 /\ \A j \in Key : record'[j].revision = answer.revision => j = x.key
      BY <1>3, <1>4, <3>1, <3>2 DEF CopyOf, RecordsOK
    <3>3. \A y \in run'[d].out : y = x
      BY <2>2, <2>3, <2>4
    <3> QED
      BY <1>4, <2>2, <2>3, <3>2, <3>3 DEF AnswerOK, Wrote
  <2>9. BrowserOK(d)'
    BY <2>5, <2>6, <2>7, <2>8 DEF BrowserOK
  <2>10. HInv'
    BY <1>6, <2>1, <2>2, <2>9
  <2>11. ASSUME NEW e \in Device
         PROVE  \/ run'[e] = run[e]
                \/ /\ run[e].phase = "sent" /\ run'[e].phase = "answered"
                   /\ run'[e].page = run[e].page
                   /\ run'[e].owed = run[e].owed /\ run'[e].out = run[e].out
                   /\ run'[e].answer.outcome = "applied"
                         => run'[e].answer.revision > revision
    <3>1. CASE e = d
      BY <1>4, <1>8, <2>2, <2>3, <3>1
    <3>2. CASE e # d
      BY <2>3, <3>2
    <3> QED
      BY <3>1, <3>2
  <2> QED
    BY <1>4, <1>5, <2>10, <2>11
<1> QED
  BY <1>7, <1>8

-----------------------------------------------------------------------------
(* A push changes no record that the cursor covers, or is about to.         *)
LEMMA CoversGrow ==
    ASSUME HInv, HInv', Grows, NEW e \in Device,
           state' = state, cursor' = cursor,
           \/ run'[e] = run[e]
           \/ /\ run'[e].phase = "answered"
              /\ run'[e].answer.outcome = "applied" => run'[e].answer.revision > revision,
           CoversOK(e)
    PROVE  CoversOK(e)'
<1>0. /\ revision \in Nat /\ revision' \in Nat /\ cursor[e] \in Nat
      /\ \A k \in Key : record[k].revision \in Nat /\ record'[k].revision \in Nat
      /\ cursor[e] <= revision /\ revision <= revision'
  <2>1. \A k \in Key : record'[k].revision \in Nat
    BY DEF HInv, TypeOK, Entry
  <2> QED
    BY <2>1, Typed DEF HInv, TypeOK, Grows, CoversOK
<1>1. ASSUME NEW k \in Key, record'[k].revision <= revision
      PROVE  record'[k] = record[k]
  BY <1>0, <1>1 DEF Grows
<1>2. ASSUME NEW k \in Key, record'[k] = record[k], Told(e, k)
      PROVE  Told(e, k)'
  BY <1>2 DEF Told, Tombstone
<1>3. cursor'[e] <= revision'
      /\ \A k \in Key : record'[k].revision \in 1..cursor'[e] => Told(e, k)'
  BY <1>0, <1>1, <1>2 DEF CoversOK
<1>4. CASE run'[e] = run[e]
  <2>1. run[e] \in RunState /\ run[e].next \in Nat
    BY Typed DEF HInv, RunState
  <2>2. ASSUME run[e].phase = "pulled"
        PROVE  /\ cursor'[e] <= run[e].next /\ run[e].next <= revision'
               /\ \A k \in Key :
                     /\ run[e].page[k].revision > 0 => run[e].page[k].revision > cursor'[e]
                     /\ record'[k].revision > cursor'[e] /\ record'[k].revision <= run[e].next
                           => run[e].page[k] = record'[k]
    <3>1. cursor[e] <= run[e].next /\ run[e].next <= revision
      BY <2>2 DEF CoversOK
    <3>2. ASSUME NEW k \in Key, record'[k].revision > cursor[e],
                 record'[k].revision <= run[e].next
          PROVE  run[e].page[k] = record'[k]
      <4>1. record'[k] = record[k]
        BY <1>0, <1>1, <2>1, <3>1, <3>2
      <4> QED
        BY <2>2, <3>2, <4>1 DEF CoversOK
    <3> QED
      BY <1>0, <2>1, <2>2, <3>1, <3>2 DEF CoversOK
  <2>3. ASSUME run[e].phase = "applied"
        PROVE  /\ cursor'[e] <= run[e].next /\ run[e].next <= revision'
               /\ \A k \in Key : record'[k].revision \in 1..run[e].next => Told(e, k)'
    <3>1. cursor[e] <= run[e].next /\ run[e].next <= revision
      BY <2>3 DEF CoversOK
    <3>2. ASSUME NEW k \in Key, record'[k].revision \in 1..run[e].next
          PROVE  Told(e, k)'
      <4>1. record'[k] = record[k]
        BY <1>0, <1>1, <2>1, <3>1, <3>2
      <4> QED
        BY <1>2, <2>3, <3>2, <4>1 DEF CoversOK
    <3> QED
      BY <1>0, <2>1, <3>1, <3>2
  <2>4. ASSUME NEW out \in run[e].out
        PROVE  /\ run[e].phase = "answered" /\ run[e].answer.outcome = "applied"
                     => run[e].answer.revision > cursor'[e]
               /\ run[e].phase = "confirmed" /\ Wrote(e)
                     /\ record'[out.key].revision = run[e].answer.revision
                     => Told(e, out.key)'
    <3>1. out.key \in Key /\ run[e].answer.revision \in Nat
      BY <2>1 DEF RunState, Outgoing, Answer
    <3>2. ASSUME run[e].phase = "confirmed", Wrote(e),
                 record'[out.key].revision = run[e].answer.revision
          PROVE  Told(e, out.key)'
      <4>1. run[e].answer.revision <= record[out.key].revision
        BY <3>2 DEF HInv, BrowserOK, AnswerOK, CopyOf
      <4>2. record[out.key].revision <= revision
        BY <3>1 DEF HInv, RecordsOK
      <4>3. record'[out.key] = record[out.key]
        BY <1>0, <1>1, <3>1, <3>2, <4>1, <4>2
      <4> QED
        BY <1>2, <3>1, <3>2, <4>3 DEF CoversOK
    <3> QED
      BY <3>2 DEF CoversOK
  <2> QED
    BY <1>3, <1>4, <2>2, <2>3, <2>4 DEF CoversOK, Wrote
<1>5. CASE /\ run'[e].phase = "answered"
           /\ run'[e].answer.outcome = "applied" => run'[e].answer.revision > revision
  <2>1. run'[e] \in RunState
    BY DEF HInv, TypeOK, RunState
  <2>2. run'[e].answer.revision \in Nat
    BY <2>1 DEF RunState, Answer
  <2>3. run'[e].answer.outcome = "applied" => run'[e].answer.revision > cursor'[e]
    BY <1>0, <1>5, <2>2
  <2> QED
    BY <1>3, <1>5, <2>3 DEF CoversOK
<1> QED
  BY <1>4, <1>5

(* Where nothing is pulled or answered, only the cursor promises anything.  *)
LEMMA CoversElse ==
    ASSUME NEW d \in Device, record' = record, revision' = revision,
           state'[d] = state[d], cursor'[d] = cursor[d],
           run'[d].phase \notin {"pulled", "applied", "answered", "confirmed"},
           CoversOK(d)
    PROVE  CoversOK(d)'
<1>1. /\ cursor'[d] <= revision'
      /\ \A k \in Key : record'[k].revision \in 1..cursor'[d] => Told(d, k)'
  BY DEF CoversOK, Told, Tombstone
<1> QED
  BY <1>1 DEF CoversOK

LEMMA PullCovers ==
    ASSUME HInv, NEW d \in Device, CoversOK(d), Pull(d)
    PROVE  CoversOK(d)'
<1> DEFINE page == [k \in Key |-> IF record[k].revision > cursor[d] THEN record[k] ELSE Absent]
           next == IF revision > cursor[d] THEN revision ELSE cursor[d]
<1>0. /\ revision \in Nat /\ cursor[d] \in Nat /\ cursor[d] <= revision
      /\ \A k \in Key : record[k].revision \in Nat
  BY Typed DEF HInv, TypeOK, CoversOK
<1>1. run'[d].phase = "pulled" /\ run'[d].page = page /\ run'[d].next = next
  BY PullRun DEF HInv
<1>2. record' = record /\ revision' = revision /\ cursor' = cursor /\ state' = state
  BY DEF Pull
<1>3. next = revision
  BY <1>0
<1>4. ASSUME NEW k \in Key
      PROVE  /\ page[k].revision > 0 => page[k].revision > cursor[d]
             /\ record[k].revision > cursor[d] => page[k] = record[k]
  BY <1>0 DEF Absent
<1>5. \A k \in Key : record[k].revision \in 1..cursor[d] => Told(d, k)
  BY DEF CoversOK
<1>6. \A k \in Key : record'[k].revision \in 1..cursor'[d] => Told(d, k)'
  BY <1>2, <1>5 DEF Told, Tombstone
<1> HIDE DEF page, next
<1> QED
  BY <1>0, <1>1, <1>2, <1>3, <1>4, <1>6 DEF CoversOK

(* Applying the page makes good on it: a record between the cursor and the  *)
(* page's end is in the page, or was known already.                         *)
LEMMA ApplyPulledCovers ==
    ASSUME DevicesAssumption, HInv, NEW d \in Device, CoversOK(d), ApplyPulled(d)
    PROVE  CoversOK(d)'
<1>0. /\ revision \in Nat /\ cursor[d] \in Nat /\ run[d] \in RunState
      /\ run[d].next \in Nat /\ run[d].phase = "pulled"
  BY Typed DEF HInv, TypeOK, RunState, ApplyPulled
<1>a. ASSUME NEW k \in Key
      PROVE  /\ record[k].revision \in Nat /\ state[d][k].revision \in Nat
             /\ run[d].page[k].revision \in Nat
             /\ record[k] \in Entry /\ state[d][k] \in Entry
             /\ state[d][k] = Absent \/ state[d][k].body \in Body
  BY Typed DEF HInv, TypeOK
<1>b. ASSUME NEW k \in Key
      PROVE  CopyOf(k, state[d][k]) /\ CopyOf(k, run[d].page[k])
  BY DEF HInv, BrowserOK, CopiesOK
<1>1. run'[d].phase = "applied" /\ run'[d].next = run[d].next
  BY ApplyPulledRun DEF HInv
<1>2. /\ record' = record /\ revision' = revision /\ cursor' = cursor
      /\ \A k \in Key : state'[d][k] = StateAfterPull(d, k)
  BY DEF ApplyPulled, HInv, TypeOK
<1>3. ASSUME NEW k \in Key, record[k].revision \in 1..run[d].next
      PROVE  StateAfterPull(d, k) = IF Tombstone(record[k]) THEN Absent ELSE record[k]
  <2>0. /\ record[k].revision \in Nat /\ state[d][k].revision \in Nat
        /\ run[d].page[k].revision \in Nat
        /\ run[d].page[k].revision > 0 => run[d].page[k].revision > cursor[d]
        /\ run[d].page[k].revision <= record[k].revision
        /\ state[d][k].revision <= record[k].revision
        /\ state[d][k].revision = record[k].revision => state[d][k].body = record[k].body
    <3>1. run[d].page[k].revision > 0 => run[d].page[k].revision > cursor[d]
      BY <1>0 DEF CoversOK
    <3>2. CopyOf(k, state[d][k]) /\ CopyOf(k, run[d].page[k])
      BY <1>b
    <3> QED
      BY <1>a, <3>1, <3>2 DEF CopyOf
  <2>1. CASE record[k].revision <= cursor[d]
    <3>1. ~IsNews(d, k)
      BY <1>0, <2>0, <2>1 DEF IsNews
    <3> QED
      BY <1>0, <1>3, <2>1, <3>1 DEF StateAfterPull, CoversOK, Told
  <2>2. CASE record[k].revision > cursor[d]
    <3>1. run[d].page[k] = record[k]
      BY <1>0, <1>3, <2>2 DEF CoversOK
    <3>2. CASE IsNews(d, k)
      BY <1>3, <3>1, <3>2 DEF StateAfterPull, Incoming, Tombstone
    <3>3. CASE ~IsNews(d, k)
      <4>1. state[d][k].revision = record[k].revision /\ state[d][k].body = record[k].body
        BY <2>0, <3>1, <3>3 DEF IsNews
      <4>2. state[d][k] = record[k] /\ state[d][k].body # NoBody
        BY <1>a, <1>3, <4>1 DEF Entry, Absent, DevicesAssumption
      <4> QED
        BY <3>3, <4>2 DEF StateAfterPull, Tombstone
    <3> QED
      BY <3>2, <3>3
  <2>3. record[k].revision <= cursor[d] \/ record[k].revision > cursor[d]
    BY <1>0, <2>0
  <2> QED
    BY <2>1, <2>2, <2>3
<1>4. cursor[d] <= run[d].next /\ run[d].next <= revision
  BY <1>0 DEF CoversOK
<1>5. \A k \in Key : record'[k].revision \in 1..run'[d].next => Told(d, k)'
  BY <1>1, <1>2, <1>3 DEF Told, Tombstone
<1>6. \A k \in Key : record'[k].revision \in 1..cursor'[d] => Told(d, k)'
  BY <1>0, <1>1, <1>2, <1>4, <1>5
<1> QED
  BY <1>0, <1>1, <1>2, <1>4, <1>5, <1>6 DEF CoversOK

(* And the cursor may then follow.                                          *)
LEMMA WriteCursorCovers ==
    ASSUME HInv, NEW d \in Device, CoversOK(d), WriteCursor(d)
    PROVE  CoversOK(d)'
<1>0. run[d] \in RunState /\ run[d].phase = "applied"
  BY Typed DEF HInv, WriteCursor
<1>1. run'[d].phase = "reading"
  BY WriteCursorRun DEF HInv
<1>2. /\ record' = record /\ revision' = revision /\ state' = state
      /\ cursor'[d] = run[d].next
  BY DEF WriteCursor, HInv, TypeOK
<1>3. /\ run[d].next <= revision
      /\ \A k \in Key : record[k].revision \in 1..run[d].next => Told(d, k)
  BY <1>0 DEF CoversOK
<1>4. /\ cursor'[d] <= revision'
      /\ \A k \in Key : record'[k].revision \in 1..cursor'[d] => Told(d, k)'
  BY <1>2, <1>3 DEF Told, Tombstone
<1> QED
  BY <1>1, <1>4 DEF CoversOK

(* This needs that the server refuses no record for good: a refused rating  *)
(* is dropped here and stays, in its older form, on the account.            *)
LEMMA ConfirmPushedCovers ==
    ASSUME DevicesAssumption, HInv, "rejected" \notin Refusals, NEW d \in Device,
           CoversOK(d), ConfirmPushed(d)
    PROVE  CoversOK(d)'
<1>0. /\ TypeOK /\ run[d] \in RunState /\ run[d].phase = "answered"
      /\ cursor[d] \in Nat /\ revision \in Nat
      /\ \A k \in Key : record[k] \in Entry /\ record[k].revision \in Nat
  BY Typed DEF HInv, ConfirmPushed, TypeOK
<1>1. run'[d].phase = "confirmed" /\ run'[d].out = run[d].out /\ run'[d].answer = run[d].answer
  BY ConfirmPushedRun DEF HInv
<1>2. record' = record /\ revision' = revision /\ cursor' = cursor
  BY DEF ConfirmPushed
<1>3. PICK out \in run[d].out :
         \/ /\ out.body = NoBody
            /\ state' = [state EXCEPT ![d][out.key] = Absent]
         \/ /\ out.body # NoBody /\ run[d].answer.outcome \in {"rejected"}
         \/ /\ out.body # NoBody /\ run[d].answer.outcome = "deferred"
            /\ state' = state
         \/ /\ out.body # NoBody /\ Wrote(d)
            /\ state' = [state EXCEPT ![d][out.key] = ConfirmedAs(d, out)]
  BY DEF ConfirmPushed, Wrote
<1>4. /\ out \in Outgoing /\ out.key \in Key /\ run[d].answer \in Answer
      /\ run[d].answer.revision \in Nat
      /\ \A x \in run[d].out : x = out
  BY <1>0, <1>3 DEF RunState, Outgoing, Answer, HInv, BrowserOK, BatchOK, Flying
<1>5. /\ run[d].answer.outcome # "none" /\ run[d].answer.outcome # "rejected"
      /\ run[d].answer.outcome = "deferred" => out.body # NoBody
      /\ Wrote(d) => /\ run[d].answer.revision > 0
                     /\ run[d].answer.revision <= record[out.key].revision
                     /\ run[d].answer.revision = record[out.key].revision
                           => out.body = record[out.key].body
      /\ run[d].answer.outcome = "already_present" =>
            record[out.key].revision = run[d].answer.revision
      /\ run[d].answer.outcome = "applied" => run[d].answer.revision > cursor[d]
  BY <1>0, <1>3 DEF HInv, BrowserOK, AnswerOK, CopyOf, CoversOK
<1>6. ASSUME Wrote(d)
      PROVE  /\ \A k \in Key \ {out.key} : state'[d][k] = state[d][k]
             /\ state'[d][out.key] = IF out.body = NoBody THEN Absent ELSE ConfirmedAs(d, out)
  <2>1. run[d].answer.outcome # "deferred"
    BY <1>6 DEF Wrote
  <2> QED
    BY <1>0, <1>3, <1>4, <1>5, <2>1 DEF TypeOK
<1>7. ASSUME ~Wrote(d) PROVE state' = state
  <2>1. run[d].answer.outcome = "deferred"
    BY <1>4, <1>5, <1>7 DEF Answer, Wrote
  <2> QED
    BY <1>3, <1>5, <2>1 DEF Wrote
<1>8. ASSUME Wrote(d), record[out.key].revision = run[d].answer.revision
      PROVE  Told(d, out.key)'
  <2>1. record[out.key] = ConfirmedAs(d, out)
    BY <1>0, <1>4, <1>5, <1>8 DEF ConfirmedAs, Entry
  <2> QED
    BY <1>2, <1>4, <1>5, <1>6, <1>8, <2>1 DEF Told, Tombstone
<1>9. ASSUME NEW k \in Key, record[k].revision \in 1..cursor[d] PROVE Told(d, k)'
  <2>1. Told(d, k)
    BY <1>9 DEF CoversOK
  <2>2. CASE ~Wrote(d)
    BY <1>2, <1>7, <2>1, <2>2 DEF Told, Tombstone
  <2>3. CASE Wrote(d) /\ k # out.key
    BY <1>2, <1>6, <2>1, <2>3 DEF Told, Tombstone
  <2>4. CASE Wrote(d) /\ k = out.key
    <3>1. run[d].answer.outcome # "applied"
      BY <1>0, <1>4, <1>5, <1>9, <2>4
    <3>2. record[out.key].revision = run[d].answer.revision
      BY <1>5, <2>4, <3>1 DEF Wrote
    <3> QED
      BY <1>8, <2>4, <3>2
  <2> QED
    BY <2>2, <2>3, <2>4
<1>10. cursor[d] <= revision
  BY DEF CoversOK
<1> QED
  BY <1>1, <1>2, <1>4, <1>8, <1>9, <1>10 DEF CoversOK, Wrote

LEMMA AdvanceCursorCovers ==
    ASSUME HInv, NEW d \in Device, CoversOK(d), AdvanceCursor(d)
    PROVE  CoversOK(d)'
<1>0. /\ TypeOK /\ run[d] \in RunState /\ run[d].phase = "confirmed"
      /\ cursor[d] \in Nat /\ revision \in Nat /\ run[d].answer \in Answer
      /\ run[d].answer.revision \in Nat
      /\ \A k \in Key : record[k].revision \in Nat
  BY Typed DEF HInv, AdvanceCursor, TypeOK, RunState, Answer
<1>1. run'[d].phase = "push"
  BY AdvanceCursorRun DEF HInv
<1>2. /\ record' = record /\ revision' = revision /\ state' = state
      /\ cursor'[d] = CursorAfterPush(d)
  BY <1>0 DEF AdvanceCursor, TypeOK
<1>3. PICK out \in Outgoing : run[d].out = {out}
  BY <1>0 DEF HInv, BrowserOK, BatchOK, Flying
<1>4. out.key \in Key
  BY <1>3 DEF Outgoing
<1>5. CASE run[d].answer.revision # cursor[d] + 1
  <2>1. cursor'[d] = cursor[d]
    BY <1>2, <1>5 DEF CursorAfterPush
  <2> QED
    BY <1>1, <1>2, <2>1, CoversElse
<1>6. CASE run[d].answer.revision = cursor[d] + 1
  <2>1. cursor'[d] = cursor[d] + 1
    BY <1>2, <1>6 DEF CursorAfterPush
  <2>2. Wrote(d)
    <3>1. run[d].answer.revision # 0
      BY <1>0, <1>6
    <3>2. /\ run[d].answer.outcome # "none"
          /\ run[d].answer.outcome \in {"rejected", "deferred"} => run[d].answer.revision = 0
      BY <1>0, <1>3 DEF HInv, BrowserOK, AnswerOK
    <3> QED
      BY <1>0, <3>1, <3>2 DEF Wrote, Answer
  <2>3. /\ run[d].answer.revision <= record[out.key].revision
        /\ \A j \in Key : record[j].revision = run[d].answer.revision => j = out.key
    BY <1>0, <1>3, <2>2 DEF HInv, BrowserOK, AnswerOK, CopyOf
  <2>4. record[out.key].revision <= revision
    BY <1>4 DEF HInv, RecordsOK
  <2>5. cursor[d] + 1 <= revision
    BY <1>0, <1>4, <1>6, <2>3, <2>4
  <2>6. ASSUME NEW k \in Key, record[k].revision \in 1..(cursor[d] + 1)
        PROVE  Told(d, k)
    <3>1. CASE record[k].revision \in 1..cursor[d]
      BY <3>1 DEF CoversOK
    <3>2. CASE record[k].revision = cursor[d] + 1
      BY <1>0, <1>3, <1>6, <2>2, <2>3, <3>2 DEF CoversOK
    <3> QED
      BY <1>0, <2>6, <3>1, <3>2
  <2>7. \A k \in Key : record'[k].revision \in 1..cursor'[d] => Told(d, k)'
    BY <1>2, <2>1, <2>6 DEF Told, Tombstone
  <2> QED
    BY <1>1, <1>2, <2>1, <2>5, <2>7 DEF CoversOK
<1> QED
  BY <1>5, <1>6

-----------------------------------------------------------------------------
LEMMA HStutters ==
    ASSUME HInv, UNCHANGED vars
    PROVE  HInv'
<1>1. TypeOK' /\ RecordsOK'
  BY DEF HInv, TypeOK, RecordsOK, vars
<1>2. ASSUME NEW e \in Device PROVE BrowserOK(e)'
  <2>1. BrowserOK(e)
    BY DEF HInv
  <2> QED
    BY <2>1, Undisturbed DEF vars
<1> QED
  BY <1>1, <1>2 DEF HInv

LEMMA HNext ==
    ASSUME DevicesAssumption, HInv, [Next]_vars
    PROVE  HInv'
<1>1. CASE UNCHANGED vars
  BY <1>1, HStutters
<1>2. ASSUME NEW d \in Device, NEW k \in Key, NEW b \in Body \cup {NoBody}, Edit(d, k, b)
      PROVE  HInv'
  BY <1>2, EditKeeps
<1>3. ASSUME NEW d \in Device, Pull(d) PROVE HInv'
  BY <1>3, PullKeeps
<1>4. ASSUME NEW d \in Device, Step(d) PROVE HInv'
  BY <1>4, ApplyPulledKeeps, WriteCursorKeeps, ReadLocalKeeps, ReadStatesKeeps, PushKeeps,
     DoneKeeps, ConfirmPushedKeeps, AdvanceCursorKeeps DEF Step
<1>5. ASSUME NEW d \in Device, Arrive(d) PROVE HInv'
  BY <1>5, ArriveKeeps
<1>6. ASSUME NEW d \in Device, Vanish(d) PROVE HInv'
  BY <1>6, VanishKeeps
<1>7. ASSUME NEW d \in Device, Fail(d) PROVE HInv'
  BY <1>7, FailKeeps
<1> QED
  BY <1>1, <1>2, <1>3, <1>4, <1>5, <1>6, <1>7 DEF Next

(* A step of one browser, seen from another.                                *)
LEMMA StepIsLocal ==
    ASSUME TypeOK, NEW d \in Device, NEW e \in Device \ {d}, Pull(d) \/ Step(d)
    PROVE  /\ record' = record /\ revision' = revision
           /\ run'[e] = run[e] /\ cursor'[e] = cursor[e] /\ state'[e] = state[e]
           /\ row'[e] = row[e] /\ wire'[e] = wire[e]
<1>1. /\ run \in [Device -> RunState] /\ cursor \in [Device -> 0..MaxRevision]
      /\ state \in [Device -> [Key -> {x \in Entry : x = Absent \/ x.body \in Body}]]
      /\ row \in [Device -> [Key -> Body \cup {NoBody}]]
      /\ wire \in [Device -> SUBSET Outgoing]
  BY Typed DEF TypeOK
<1>2. record' = record /\ revision' = revision
  BY DEF Pull, Step, ApplyPulled, WriteCursor, ReadLocal, ReadStates, Push, Done,
         ConfirmPushed, AdvanceCursor
<1>3. run'[e] = run[e]
  <2>1. CASE Pull(d)
    BY <1>1, <2>1 DEF Pull
  <2>2. CASE ApplyPulled(d) \/ WriteCursor(d) \/ ReadLocal(d)
    BY <1>1, <2>2 DEF ApplyPulled, WriteCursor, ReadLocal
  <2>3. CASE ReadStates(d) \/ Push(d) \/ Done(d)
    BY <1>1, <2>3 DEF ReadStates, Push, Done
  <2>4. CASE ConfirmPushed(d) \/ AdvanceCursor(d)
    BY <1>1, <2>4 DEF ConfirmPushed, AdvanceCursor
  <2> QED
    BY <2>1, <2>2, <2>3, <2>4 DEF Step
<1>4. cursor'[e] = cursor[e]
  <2>1. CASE WriteCursor(d) \/ AdvanceCursor(d)
    BY <1>1, <2>1 DEF WriteCursor, AdvanceCursor
  <2>2. CASE ~(WriteCursor(d) \/ AdvanceCursor(d))
    BY <2>2 DEF Pull, Step, ApplyPulled, ReadLocal, ReadStates, Push, Done, ConfirmPushed
  <2> QED
    BY <2>1, <2>2
<1>5. state'[e] = state[e]
  <2>1. CASE ApplyPulled(d)
    BY <1>1, <2>1 DEF ApplyPulled
  <2>2. CASE ConfirmPushed(d)
    BY <1>1, <2>2 DEF ConfirmPushed
  <2>3. CASE ~(ApplyPulled(d) \/ ConfirmPushed(d))
    BY <2>3 DEF Pull, Step, WriteCursor, ReadLocal, ReadStates, Push, Done, AdvanceCursor
  <2> QED
    BY <2>1, <2>2, <2>3
<1>6. row'[e] = row[e]
  <2>1. CASE ApplyPulled(d)
    BY <1>1, <2>1 DEF ApplyPulled
  <2>2. CASE ConfirmPushed(d)
    BY <1>1, <2>2 DEF ConfirmPushed
  <2>3. CASE ~(ApplyPulled(d) \/ ConfirmPushed(d))
    BY <2>3 DEF Pull, Step, WriteCursor, ReadLocal, ReadStates, Push, Done, AdvanceCursor
  <2> QED
    BY <2>1, <2>2, <2>3
<1>7. wire'[e] = wire[e]
  <2>1. CASE Push(d)
    BY <1>1, <2>1 DEF Push
  <2>2. CASE ~Push(d)
    BY <2>2 DEF Pull, Step, ApplyPulled, WriteCursor, ReadLocal, ReadStates, Done,
                ConfirmPushed, AdvanceCursor
  <2> QED
    BY <2>1, <2>2
<1> QED
  BY <1>2, <1>3, <1>4, <1>5, <1>6, <1>7

(* The steps that only move the run on promise nothing new.                 *)
LEMMA QuietCovers ==
    ASSUME HInv, NEW d \in Device, CoversOK(d),
           ReadLocal(d) \/ ReadStates(d) \/ Push(d) \/ Done(d)
    PROVE  CoversOK(d)'
<1>1. run \in [Device -> RunState] /\ run[d] \in RunState
  BY Typed DEF HInv
<1>2. record' = record /\ revision' = revision /\ state' = state /\ cursor' = cursor
  BY DEF ReadLocal, ReadStates, Push, Done
<1>3. run'[d].phase \in {"reading", "push", "sent", "idle"}
  <2>1. Done(d) => run'[d].phase = "idle"
    BY <1>1, NoRunIs DEF Done
  <2> QED
    BY <2>1, ReadLocalRun, ReadStatesRun, PushRun DEF HInv
<1> QED
  BY <1>2, <1>3, CoversElse

LEMMA StepCovers ==
    ASSUME DevicesAssumption, HInv, "rejected" \notin Refusals, NEW d \in Device,
           CoversOK(d), Pull(d) \/ Step(d)
    PROVE  CoversOK(d)'
  BY PullCovers, ApplyPulledCovers, WriteCursorCovers, ConfirmPushedCovers,
     AdvanceCursorCovers, QuietCovers DEF Step

LEMMA CoversNext ==
    ASSUME DevicesAssumption, "rejected" \notin Refusals, IInv, [Next]_vars
    PROVE  IInv'
<1>1. HInv /\ HInv' /\ \A e \in Device : CoversOK(e)
  BY HNext DEF IInv
<1> SUFFICES ASSUME NEW e \in Device PROVE CoversOK(e)'
  BY <1>1 DEF IInv
<1>2. CASE UNCHANGED vars
  BY <1>1, <1>2, Uncovered DEF vars
<1>3. ASSUME NEW d \in Device, NEW k \in Key, NEW b \in Body \cup {NoBody}, Edit(d, k, b)
      PROVE  CoversOK(e)'
  BY <1>1, <1>3, Uncovered DEF Edit
<1>4. ASSUME NEW d \in Device, Pull(d) \/ Step(d) PROVE CoversOK(e)'
  <2>1. CASE e = d
    BY <1>1, <1>4, <2>1, StepCovers
  <2>2. CASE e # d
    BY <1>1, <1>4, <2>2, StepIsLocal, Uncovered DEF HInv
  <2> QED
    BY <2>1, <2>2
<1>5. ASSUME NEW d \in Device, Arrive(d) PROVE CoversOK(e)'
  BY <1>1, <1>5, ArriveKeeps, CoversGrow
<1>6. ASSUME NEW d \in Device, Vanish(d) PROVE CoversOK(e)'
  BY <1>1, <1>6, Uncovered DEF Vanish
<1>7. ASSUME NEW d \in Device, Fail(d) PROVE CoversOK(e)'
  <2>1. run' = [run EXCEPT ![d] = NoRun] /\ run \in [Device -> RunState]
        /\ record' = record /\ revision' = revision /\ state' = state /\ cursor' = cursor
    BY <1>1, <1>7, Typed DEF Fail, HInv
  <2>2. CASE e = d
    BY <1>1, <2>1, <2>2, CoversElse, NoRunIs
  <2>3. CASE e # d
    BY <1>1, <2>1, <2>3, Uncovered
  <2> QED
    BY <2>2, <2>3
<1> QED
  BY <1>2, <1>3, <1>4, <1>5, <1>6, <1>7 DEF Next

-----------------------------------------------------------------------------
LEMMA Always == Spec => []HInv
<1>1. Init => HInv
  BY DevicesAssumption, HInit
<1>2. HInv /\ [Next]_vars => HInv'
  BY DevicesAssumption, HNext
<1> QED
  BY <1>1, <1>2, PTL DEF Spec

(* Types, and that no browser ever takes a tombstone for something it       *)
(* would have to delete again (applyPulled).                                *)
THEOREM DevicesTypeOK == Spec => []TypeOK
<1>1. HInv => TypeOK
  BY DEF HInv
<1> QED
  BY <1>1, Always, PTL

(* Through lost answers, late pushes and edits made in between, a browser   *)
(* never takes a body for confirmed that the account does not hold at that  *)
(* revision (confirmPushed, applyPulled), refusals and append-only events   *)
(* included.                                                                *)
THEOREM DevicesStateHonest == Spec => []StateHonest
<1>1. HInv => StateHonest
  BY DEF HInv, BrowserOK, CopiesOK, CopyOf, StateHonest
<1> QED
  BY <1>1, Always, PTL

LEMMA AlwaysCovers == "rejected" \notin Refusals => (Spec => []IInv)
<1> SUFFICES ASSUME "rejected" \notin Refusals PROVE Spec => []IInv
  OBVIOUS
<1>1. Init => IInv
  BY DevicesAssumption, HInit DEF IInv
<1>2. IInv /\ [Next]_vars => IInv'
  BY DevicesAssumption, CoversNext
<1> QED
  BY <1>1, <1>2, PTL DEF Spec

(* The cursor of a browser never passes a record it was not told of, its    *)
(* own pushes and those of others in between included (cursorAfterPush).    *)
THEOREM DevicesCursorCovers == "rejected" \notin Refusals => (Spec => []CursorCovers)
<1> SUFFICES ASSUME "rejected" \notin Refusals PROVE Spec => []CursorCovers
  OBVIOUS
<1>1. IInv => CursorCovers
  BY DEF IInv, CoversOK, Told, CursorCovers
<1> QED
  BY <1>1, AlwaysCovers, PTL

(* A browser at rest that owes nothing shows the account up to its cursor.  *)
LEMMA CoveredMeansEqual ==
    ASSUME HInv, NEW d \in Device, NEW k \in Key, CoversOK(d), Clean(d),
           record[k].revision <= cursor[d],
           Rule[k] = "event" => row[d][k] # NoBody
    PROVE  row[d][k] = record[k].body
<1>1. row[d][k] = state[d][k].body
  BY DEF Clean, Owed
<1>2. record[k].revision \in Nat /\ cursor[d] \in Nat /\ state[d][k].revision \in Nat
  BY Typed DEF HInv
<1>3. CASE record[k].revision = 0
  <2>1. state[d][k] = Absent /\ record[k] = Absent
    BY <1>2, <1>3 DEF HInv, RecordsOK, BrowserOK, CopiesOK, CopyOf
  <2> QED
    BY <1>1, <2>1
<1>4. CASE record[k].revision > 0
  <2>1. Told(d, k)
    BY <1>2, <1>4 DEF CoversOK
  <2> QED
    BY <1>1, <2>1 DEF Told, Tombstone, Absent
<1> QED
  BY <1>2, <1>3, <1>4

(* What "synchronised" tells the user is so, also while a push that was     *)
(* given up on is still on its way (syncOnce).                              *)
THEOREM DevicesCleanMeansEqual == "rejected" \notin Refusals => (Spec => []CleanMeansEqual)
<1> SUFFICES ASSUME "rejected" \notin Refusals PROVE Spec => []CleanMeansEqual
  OBVIOUS
<1>1. IInv => CleanMeansEqual
  BY CoveredMeansEqual DEF IInv, CleanMeansEqual
<1> QED
  BY <1>1, AlwaysCovers, PTL

(* An event the account holds stays as it is, whoever sends it again        *)
(* (applyOne's `immutable && exists').                                      *)
THEOREM DevicesEventsStay == Spec => EventsStay
<1> DEFINE Stays == \A k \in Key : Rule[k] = "event" /\ record[k].revision > 0
                                      => record'[k] = record[k]
<1>1. ASSUME HInv, [Next]_vars PROVE [Stays]_vars
  <2>1. ASSUME NEW d \in Device, Arrive(d) PROVE Stays
    <3>1. Grows
      BY <1>1, <2>1, ArriveKeeps, DevicesAssumption
    <3> QED
      BY <3>1 DEF Grows
  <2>2. ASSUME NEW d \in Device, NEW k \in Key, NEW b \in Body \cup {NoBody}, Edit(d, k, b)
        PROVE  Stays
    BY <2>2 DEF Edit
  <2>3. ASSUME NEW d \in Device, Pull(d) \/ Step(d) \/ Vanish(d) \/ Fail(d) PROVE Stays
    BY <2>3 DEF Pull, Step, ApplyPulled, WriteCursor, ReadLocal, ReadStates, Push, Done,
                ConfirmPushed, AdvanceCursor, Vanish, Fail
  <2> QED
    BY <1>1, <2>1, <2>2, <2>3 DEF Next
<1>2. HInv /\ [Next]_vars => [Stays]_vars
  BY <1>1
<1> QED
  BY <1>2, Always, PTL DEF Spec, EventsStay

(* --- the account is the abstract feed ----------------------------------- *)
AppendOnly == {k \in Key : Rule[k] = "event"}

Row(e) == [revision |-> e.revision, deleted |-> Tombstone(e), body |-> e.body]

FeedRows == [k \in Key |-> Row(record[k])]

LEMMA FeedIs ==
    /\ Feed!feed = <<revision, 0, FeedRows>>
    /\ Feed!Init <=> /\ revision = 0 /\ 0 = 0
                     /\ FeedRows = [k \in Key |-> Feed!Absent]
  BY DEF Feed!feed, Feed!Init, FeedRows, Row

LEMMA RowIs == ASSUME NEW e PROVE Row(e).revision = e.revision
  BY Zenon DEF Row

LEMMA StoreIsWrite ==
    ASSUME TypeOK, RecordsOK, NEW out \in Outgoing, NEW answer, Store(out, answer)
    PROVE  Feed!Write \/ UNCHANGED <<revision, record>>
<1>1. CASE UNCHANGED <<revision, record>>
  BY <1>1
<1>2. CASE /\ ~AlreadyPresent(out)
           /\ revision' = revision + 1
           /\ record' = [record EXCEPT ![out.key] =
                             [revision |-> revision + 1, body |-> out.body]]
  <2>1. revision \in Nat /\ record \in [Key -> Entry] /\ out.key \in Key
    BY Typed DEF Outgoing, TypeOK
  <2>2. /\ record'[out.key].revision = revision + 1
        /\ \A k \in Key \ {out.key} : record'[k] = record[k]
    BY <1>2, <2>1
  <2>3. \A k \in Key : FeedRows[k] = Row(record[k]) /\ FeedRows'[k] = Row(record'[k])
    BY DEF FeedRows
  <2>4. \A k \in Key \ {out.key} : FeedRows'[k] = FeedRows[k]
    BY <2>2, <2>3
  <2>5. ASSUME NEW k \in {out.key}
        PROVE  /\ FeedRows'[k].revision \in revision+1 .. revision'
               /\ k \in AppendOnly => ~(FeedRows[k].revision > 0)
    <3>1. k = out.key
      OBVIOUS
    <3>2. FeedRows'[k].revision = record'[k].revision /\ FeedRows[k].revision = record[k].revision
      BY <2>1, <2>3, <3>1, RowIs
    <3>3. k \in AppendOnly => ~(record[k].revision > 0)
      BY <1>2, <3>1 DEF AlreadyPresent, AppendOnly
    <3> QED
      BY <1>2, <2>1, <2>2, <3>1, <3>2, <3>3
  <2>6. Feed!Write <=>
            /\ revision' > revision
            /\ 0' = 0
            /\ \E K \in SUBSET Key :
                  /\ \A k \in Key \ K : FeedRows'[k] = FeedRows[k]
                  /\ \A k \in K : /\ FeedRows'[k].revision \in revision+1 .. revision'
                                  /\ k \in AppendOnly => ~(FeedRows[k].revision > 0)
                  /\ \A j, k \in K : FeedRows'[j].revision = FeedRows'[k].revision => j = k
    BY DEF Feed!Write, Feed!Present, FeedRows, Row, AppendOnly
  <2>7. \E K \in SUBSET Key :
            /\ \A k \in Key \ K : FeedRows'[k] = FeedRows[k]
            /\ \A k \in K : /\ FeedRows'[k].revision \in revision+1 .. revision'
                            /\ k \in AppendOnly => ~(FeedRows[k].revision > 0)
            /\ \A j, k \in K : FeedRows'[j].revision = FeedRows'[k].revision => j = k
    <3>1. {out.key} \in SUBSET Key
      BY <2>1
    <3> QED
      BY <2>4, <2>5, <3>1
  <2> QED
    BY <1>2, <2>1, <2>6, <2>7
<1> QED
  BY <1>1, <1>2 DEF Store

(* What leaves the account as it was is no step of the feed.                *)
LEMMA AccountRests ==
    ASSUME UNCHANGED <<revision, record>>
    PROVE  UNCHANGED Feed!feed
  BY FeedIs DEF FeedRows, Feed!feed

LEMMA FeedInit == Init => Feed!Init
<1> SUFFICES ASSUME Init PROVE Feed!Init
  OBVIOUS
<1>1. revision = 0 /\ \A k \in Key : record[k] = Absent
  BY DEF Init, Nothing
<1>2. Row(Absent) = Feed!Absent
  <2>1. Absent.revision = 0 /\ Absent.body = NoBody
    BY DEF Absent
  <2>2. Tombstone(Absent) = FALSE
    BY <2>1 DEF Tombstone
  <2> QED
    BY <2>1, <2>2, Zenon DEF Row, Feed!Absent
<1>3. FeedRows = [k \in Key |-> Feed!Absent]
  BY <1>1, <1>2 DEF FeedRows
<1> QED
  BY <1>1, <1>3, FeedIs

LEMMA ArriveIsWrite ==
    ASSUME HInv, NEW d \in Device, Arrive(d)
    PROVE  [Feed!Next]_(Feed!feed)
<1>1. PICK out \in wire[d], answer \in Answer : Store(out, answer)
  BY DEF Arrive
<1>2. TypeOK /\ RecordsOK /\ out \in Outgoing
  BY Typed DEF HInv, TypeOK
<1> QED
  BY <1>1, <1>2, StoreIsWrite, AccountRests DEF Feed!Next

(* Whatever is lost, late, sent again or refused, and however many browsers *)
(* send, the account they see is the one module SyncStore shows the         *)
(* server's statements to keep (applyOne, ApplyBatch).                      *)
THEOREM DevicesImplementFeed == Spec => ImplementsFeed
<1>1. HInv /\ [Next]_vars => [Feed!Next]_(Feed!feed)
  <2> SUFFICES ASSUME HInv, [Next]_vars PROVE [Feed!Next]_(Feed!feed)
    OBVIOUS
  <2>1. ASSUME NEW d \in Device, Arrive(d) PROVE [Feed!Next]_(Feed!feed)
    BY <2>1, ArriveIsWrite
  <2>2. ASSUME NEW d \in Device, NEW k \in Key, NEW b \in Body \cup {NoBody}, Edit(d, k, b)
        PROVE  UNCHANGED <<revision, record>>
    BY <2>2 DEF Edit
  <2>3. ASSUME NEW d \in Device, Pull(d) \/ Step(d) \/ Vanish(d) \/ Fail(d)
        PROVE  UNCHANGED <<revision, record>>
    <3>1. CASE Step(d)
      BY <3>1 DEF Step, ApplyPulled, WriteCursor, ReadLocal, ReadStates, Push, Done,
                  ConfirmPushed, AdvanceCursor
    <3> QED
      BY <2>3, <3>1 DEF Pull, Vanish, Fail
  <2>4. CASE UNCHANGED vars
    BY <2>4, AccountRests DEF vars
  <2> QED
    BY <2>1, <2>2, <2>3, <2>4, AccountRests DEF Next
<1> QED
  BY <1>1, FeedInit, Always, PTL DEF Spec, ImplementsFeed, Feed!Spec
-----------------------------------------------------------------------------
(***************************************************************************)
(* Signing in and out, by browsers that come and go: a record is deleted   *)
(* from the account only if a user deleted it, what a sign-out removes the *)
(* account has, and a browser that adopted an account shows it.            *)
(*                                                                         *)
(* The argument follows a missing row.  While a browser holds a state for  *)
(* a row that is not there, a user deleted the row, or the browser stands  *)
(* between the last writes of a sign-out, where no run can start.          *)
(***************************************************************************)

Leaving(d) == session[d].leaving \in {"released", "dropped"}

SessionState == [signedIn : BOOLEAN, adopted : BOOLEAN, enabled : BOOLEAN, valid : BOOLEAN,
                 leaving : {"no", "revoked", "off", "released", "dropped"}]

PlanState == [phase : {"none", "staged", "asking"}, staged : [Key -> Entry],
              version : 0..MaxRevision, here : [Key -> Body \cup {NoBody}]]

AdoptionTyped == session \in [Device -> SessionState] /\ plan \in [Device -> PlanState]

(* Where a browser may be in a session, and in a run.                       *)
SessionOK(d) ==
    /\ run[d].phase = "idle" => run[d] = NoRun
    /\ ~session[d].adopted => run[d].phase = "idle"
    /\ ~session[d].signedIn => ~session[d].adopted
    /\ session[d].leaving \in {"off", "released", "dropped"} => ~session[d].enabled
    /\ Leaving(d) => run[d].phase = "idle"
    /\ session[d].leaving = "dropped" =>
          /\ ~session[d].signedIn /\ ~session[d].adopted
          /\ cursor[d] = 0
    /\ plan[d].phase # "none" =>
          /\ session[d].signedIn /\ ~session[d].adopted
          /\ session[d].leaving \in {"no", "revoked"}

(* A plan stages the account as it was at one revision.                     *)
PlanOK(d) ==
    plan[d].phase # "none" =>
        /\ plan[d].version <= revision
        /\ \A k \in Key :
              /\ CopyOf(k, plan[d].staged[k])
              /\ plan[d].staged[k].revision = 0 => plan[d].staged[k] = Absent
              /\ record[k].revision <= plan[d].version => plan[d].staged[k] = record[k]
              /\ Rule[k] = "event" =>
                    /\ plan[d].staged[k].body \in {NoBody, EventBody}
                    /\ plan[d].here[k] \in {NoBody, EventBody}

BInv == /\ HInv
        /\ AdoptionTyped
        /\ \A d \in Device : SessionOK(d) /\ PlanOK(d)

(* A browser that has no account, and was not cut short, confirms nothing.  *)
FreshOK(d) ==
    ~session[d].adopted /\ session[d].leaving # "dropped" => state[d] = Nothing

(* What a row that is not there stands for: in what a run has read of the   *)
(* account, in the tables, in what it has read of them, and in what it      *)
(* sends.                                                                   *)
PageErased(d) == \A k \in Key \ erased : ~Tombstone(run[d].page[k])

RowErased(d) ==
    \A k \in Key \ erased : row[d][k] = NoBody /\ state[d][k].body # NoBody => Leaving(d)

ReadErased(d) ==
    run[d].phase = "reading" => \A k \in Key \ (erased \cup run[d].unread) :
        /\ state[d][k].body # NoBody => run[d].local[k] # NoBody
        /\ run[d].local[k] # NoBody => row[d][k] # NoBody

SentErased(d) ==
    \A out \in run[d].owed \cup run[d].out \cup wire[d] :
        out.body = NoBody => out.key \in erased

OwedErased(d) ==
    \A out \in run[d].owed :
        /\ out.body # NoBody /\ row[d][out.key] = NoBody => out.key \in erased
        /\ \A other \in run[d].owed : out.key = other.key => out = other

OutErased(d) ==
    \A out \in run[d].out :
        /\ run[d].phase \in {"sent", "answered"} /\ out.body # NoBody
           /\ row[d][out.key] = NoBody => out.key \in erased
        /\ \A other \in run[d].owed : other.key # out.key

DeletionsOK(d) == /\ PageErased(d) /\ RowErased(d) /\ ReadErased(d)
                  /\ SentErased(d) /\ OwedErased(d) /\ OutErased(d)

EInv == torn = {} => DeletedByUsers /\ \A d \in Device : DeletionsOK(d)

CInv == \A d \in Device \ torn : CoversOK(d) /\ FreshOK(d)

-----------------------------------------------------------------------------
LEMMA AdoptionTypes ==
    ASSUME BInv
    PROVE  /\ TypeOK /\ RecordsOK
           /\ \A d \in Device : /\ BrowserOK(d) /\ SessionOK(d) /\ PlanOK(d)
                                /\ session[d] \in SessionState /\ plan[d] \in PlanState
  BY DEF BInv, HInv, AdoptionTyped

(* A browser at which nothing moved, beside an account that stayed.         *)
LEMMA SessionStays ==
    ASSUME NEW e \in Device, SessionOK(e), run'[e] = run[e], session'[e] = session[e],
           plan'[e] = plan[e], cursor'[e] = cursor[e]
    PROVE  SessionOK(e)'
  BY DEF SessionOK, Leaving

LEMMA PlanStays ==
    ASSUME NEW e \in Device, PlanOK(e), plan'[e] = plan[e], record' = record,
           revision' = revision
    PROVE  PlanOK(e)'
  BY DEF PlanOK, CopyOf

(* A step of the browser d alone.                                           *)
LEMMA OneMoves ==
    ASSUME BInv, HInv', AdoptionTyped', NEW d \in Device,
           record' = record, revision' = revision,
           \A e \in Device \ {d} : /\ run'[e] = run[e] /\ session'[e] = session[e]
                                    /\ plan'[e] = plan[e] /\ cursor'[e] = cursor[e],
           SessionOK(d)', PlanOK(d)'
    PROVE  BInv'
<1>1. ASSUME NEW e \in Device \ {d} PROVE SessionOK(e)' /\ PlanOK(e)'
  <2>1. SessionOK(e) /\ PlanOK(e)
    BY AdoptionTypes
  <2> QED
    BY <2>1, SessionStays, PlanStays
<1> QED
  BY <1>1 DEF BInv

(* Of the browser's own tables, only rows and states move.                  *)
LEMMA RowsMove ==
    ASSUME DevicesAssumption, HInv, TypeOK', NEW d \in Device,
           record' = record, revision' = revision, run' = run, wire' = wire,
           \A e \in Device \ {d} : row'[e] = row[e] /\ state'[e] = state[e],
           \A k \in Key :
                /\ state'[d][k].revision <= record[k].revision
                /\ state'[d][k].revision = record[k].revision
                      => state'[d][k].body = record[k].body
                /\ state'[d][k].revision = 0 => state'[d][k] = Absent
                /\ Rule[k] = "event" => row'[d][k] \in {NoBody, EventBody}
    PROVE  HInv'
<1>0. BrowserOK(d)
  BY DEF HInv
<1>1. EventsKnown(d)' /\ EventsSent(d)' /\ BatchOK(d)'
  BY <1>0 DEF BrowserOK, EventsKnown, EventsSent, BatchOK
<1>2. CopiesOK(d)'
  BY <1>0 DEF BrowserOK, CopiesOK, CopyOf
<1>3. AnswerOK(d)'
  BY <1>0 DEF BrowserOK, AnswerOK, Wrote, CopyOf
<1>4. BrowserOK(d)'
  BY <1>1, <1>2, <1>3 DEF BrowserOK
<1> QED
  BY <1>4, OneBrowserMoves

LEMMA PlansAre ==
    ASSUME DevicesAssumption
    PROVE  /\ NoPlan \in PlanState /\ NoPlan.phase = "none"
           /\ Guest \in SessionState /\ Joined \in SessionState
           /\ Joined.signedIn /\ Joined.adopted /\ Joined.leaving = "no"
           /\ ~Guest.signedIn /\ ~Guest.adopted /\ ~Guest.enabled /\ Guest.leaving = "no"
<1>1. NoPlan \in PlanState /\ NoPlan.phase = "none"
  BY NothingTyped DEF NoPlan, PlanState
<1> QED
  BY <1>1 DEF Guest, Joined, SessionState

LEMMA BInit == DevicesAssumption /\ InitAdoption => BInv
<1> SUFFICES ASSUME DevicesAssumption, InitAdoption PROVE BInv
  OBVIOUS
<1>1. HInv
  BY HInit DEF InitAdoption
<1>2. \A d \in Device : /\ session[d] \in {Guest, Joined} /\ plan[d] = NoPlan
                        /\ run[d] = NoRun /\ cursor[d] = 0
  BY DEF InitAdoption, Init
<1>3. AdoptionTyped
  BY PlansAre DEF AdoptionTyped, InitAdoption
<1>4. \A d \in Device : SessionOK(d)
  BY <1>2, PlansAre, NoRunIs DEF SessionOK, Leaving
<1>5. \A d \in Device : PlanOK(d)
  BY <1>2, PlansAre DEF PlanOK
<1> QED
  BY <1>1, <1>3, <1>4, <1>5 DEF BInv

-----------------------------------------------------------------------------
LEMMA PlayKeeps ==
    ASSUME DevicesAssumption, BInv, NEW d \in Device, Play(d)
    PROVE  BInv'
<1>1. PICK k \in Key, b \in Body \cup {NoBody} : Edit(d, k, b)
  BY DEF Play
<1>2. HInv'
  BY <1>1, EditKeeps DEF BInv
<1>3. /\ record' = record /\ revision' = revision /\ run' = run /\ cursor' = cursor
      /\ session' = session /\ plan' = plan
  BY <1>1 DEF Edit, Play
<1>4. AdoptionTyped' /\ SessionOK(d)' /\ PlanOK(d)'
  BY <1>3, AdoptionTypes, SessionStays, PlanStays DEF BInv, AdoptionTyped
<1> QED
  BY <1>2, <1>3, <1>4, OneMoves

(* A run that is under way at d goes on, or ends.                           *)
LEMMA StepMoves ==
    ASSUME TypeOK, NEW d \in Device, Step(d)
    PROVE  /\ run[d].phase # "idle"
           /\ run'[d].phase = "idle" => run'[d] = NoRun
<1>1. CASE ApplyPulled(d)
  BY <1>1, ApplyPulledRun
<1>2. CASE WriteCursor(d)
  BY <1>2, WriteCursorRun
<1>3. CASE ReadLocal(d)
  BY <1>3, ReadLocalRun
<1>4. CASE ReadStates(d)
  BY <1>4, ReadStatesRun
<1>5. CASE Push(d)
  BY <1>5, PushRun
<1>6. CASE Done(d)
  BY <1>6, Typed DEF Done
<1>7. CASE ConfirmPushed(d)
  BY <1>7, ConfirmPushedRun
<1>8. CASE AdvanceCursor(d)
  BY <1>8, AdvanceCursorRun
<1> QED
  BY <1>1, <1>2, <1>3, <1>4, <1>5, <1>6, <1>7, <1>8 DEF Step

LEMMA StepKeeps ==
    ASSUME DevicesAssumption, HInv, NEW d \in Device, Step(d)
    PROVE  HInv'
  BY ApplyPulledKeeps, WriteCursorKeeps, ReadLocalKeeps, ReadStatesKeeps, PushKeeps,
     DoneKeeps, ConfirmPushedKeeps, AdvanceCursorKeeps DEF Step

LEMMA PullOrStepKeeps ==
    ASSUME DevicesAssumption, BInv, NEW d \in Device,
           (Pull(d) /\ Enabled(d)) \/ Step(d), session' = session, plan' = plan
    PROVE  BInv'
<1>1. HInv'
  BY PullKeeps, StepKeeps DEF BInv
<1>2. /\ record' = record /\ revision' = revision
      /\ \A e \in Device \ {d} : run'[e] = run[e] /\ cursor'[e] = cursor[e]
  <2>1. \A e \in Device \ {d} : run'[e] = run[e] /\ cursor'[e] = cursor[e]
    BY StepIsLocal, AdoptionTypes
  <2> QED
    BY <2>1 DEF Pull, Step, ApplyPulled, WriteCursor, ReadLocal, ReadStates, Push, Done,
                ConfirmPushed, AdvanceCursor
<1>3. TypeOK /\ SessionOK(d) /\ PlanOK(d)
  BY AdoptionTypes
<1>4. SessionOK(d)'
  <2>1. CASE Step(d)
    BY <1>3, <2>1, StepMoves DEF SessionOK, Leaving
  <2>2. CASE Pull(d) /\ Enabled(d)
    <3>1. run'[d].phase = "pulled" /\ cursor' = cursor
      BY <1>3, <2>2, PullRun DEF Pull
    <3> QED
      BY <1>3, <2>2, <3>1 DEF SessionOK, Leaving, Enabled
  <2> QED
    BY <2>1, <2>2
<1>5. AdoptionTyped' /\ PlanOK(d)'
  BY <1>2, <1>3, PlanStays DEF BInv, AdoptionTyped
<1> QED
  BY <1>1, <1>2, <1>4, <1>5, OneMoves

LEMMA ArrivalKeeps ==
    ASSUME DevicesAssumption, BInv, NEW d \in Device, Arrive(d), session' = session, plan' = plan
    PROVE  BInv'
<1>1. /\ HInv' /\ Grows /\ cursor' = cursor
      /\ \A e \in Device :
           \/ run'[e] = run[e]
           \/ run[e].phase = "sent" /\ run'[e].phase = "answered"
  BY ArriveKeeps DEF BInv
<1>2. ASSUME NEW e \in Device PROVE SessionOK(e)'
  <2>1. SessionOK(e)
    BY AdoptionTypes
  <2> QED
    BY <1>1, <2>1 DEF SessionOK, Leaving
<1>3. ASSUME NEW e \in Device, plan[e].phase # "none" PROVE PlanOK(e)'
  <2>1. PlanOK(e) /\ TypeOK /\ RecordsOK /\ plan[e] \in PlanState
    BY AdoptionTypes
  <2>2. /\ revision \in Nat /\ revision' \in Nat /\ plan[e].version \in Nat
        /\ revision <= revision' /\ plan[e].version <= revision
    BY <1>1, <1>3, <2>1 DEF TypeOK, PlanState, HInv, Grows, PlanOK
  <2>3. ASSUME NEW k \in Key
        PROVE  /\ CopyOf(k, plan[e].staged[k])'
               /\ record'[k].revision <= plan[e].version => plan[e].staged[k] = record'[k]
    <3>1. /\ plan[e].staged[k] \in Entry /\ plan[e].staged[k].revision \in Nat
          /\ record'[k].revision \in Nat
      <4>1. plan[e].staged \in [Key -> Entry]
        BY <2>1 DEF PlanState
      <4> QED
        BY <1>1, <4>1 DEF HInv, TypeOK, Entry
    <3>2. PICK x : x = plan[e].staged[k]
      OBVIOUS
    <3>3. CopyOf(k, x)
      BY <1>3, <2>1, <3>2 DEF PlanOK
    <3>4. /\ x.revision <= record'[k].revision
          /\ x.revision = record'[k].revision => x.body = record'[k].body
      BY <1>1, <2>1, <3>1, <3>2, <3>3, CopyStays DEF CopyOf
    <3>5. ASSUME record'[k].revision <= plan[e].version PROVE plan[e].staged[k] = record'[k]
      <4>1. record'[k] = record[k]
        BY <1>1, <2>2, <3>1, <3>5 DEF Grows
      <4> QED
        BY <1>3, <2>1, <3>5, <4>1 DEF PlanOK
    <3> QED
      BY <3>2, <3>4, <3>5 DEF CopyOf
  <2> QED
    BY <2>1, <2>2, <2>3 DEF PlanOK
<1>4. ASSUME NEW e \in Device PROVE PlanOK(e)'
  BY <1>3 DEF PlanOK
<1> QED
  BY <1>1, <1>2, <1>4 DEF BInv, AdoptionTyped

LEMMA UnauthorisedKeeps ==
    ASSUME DevicesAssumption, BInv, NEW d \in Device, Unauthorised(d),
           session' = session, plan' = plan
    PROVE  BInv'
<1>0. /\ TypeOK /\ RecordsOK /\ BrowserOK(d) /\ SessionOK(d) /\ PlanOK(d)
      /\ run \in [Device -> RunState] /\ NoRun \in RunState
  BY AdoptionTypes, Typed, NothingTyped
<1>1. /\ wire'[d] = {} /\ wire' \in [Device -> SUBSET Outgoing]
      /\ \A e \in Device \ {d} : wire'[e] = wire[e]
      /\ record' = record /\ revision' = revision /\ row' = row /\ state' = state
      /\ cursor' = cursor /\ edits' = edits /\ faults' = faults
  BY <1>0 DEF Unauthorised, TypeOK
<1>2. CASE run[d].phase # "sent"
  <2>1. run' = run
    BY <1>2 DEF Unauthorised
  <2>2. TypeOK'
    BY <1>0, <1>1, <2>1 DEF TypeOK
  <2>3. BrowserOK(d)'
    BY <1>0, <1>1, <1>2, <2>1
    DEF BrowserOK, EventsKnown, EventsSent, CopiesOK, CopyOf, BatchOK, AnswerOK, Wrote
  <2>4. HInv'
    BY <1>1, <2>1, <2>2, <2>3, OneBrowserMoves DEF BInv
  <2>5. AdoptionTyped' /\ SessionOK(d)' /\ PlanOK(d)'
    BY <1>0, <1>1, <2>1, SessionStays, PlanStays DEF BInv, AdoptionTyped
  <2> QED
    BY <1>1, <2>1, <2>4, <2>5, OneMoves
<1>3. CASE run[d].phase = "sent"
  <2>1. /\ run'[d] = NoRun /\ run' \in [Device -> RunState]
        /\ run' = [run EXCEPT ![d] = NoRun]
        /\ \A e \in Device \ {d} : run'[e] = run[e]
    BY <1>0, <1>3 DEF Unauthorised
  <2>2. TypeOK'
    BY <1>0, <1>1, <2>1 DEF TypeOK, RunState
  <2>3. NoRun.phase \notin Flying /\ NoRun.owed = {}
        /\ \A k \in Key : Rule[k] = "event" => NoRun.local[k] \in {NoBody, EventBody}
    BY NoRunIs DEF Flying
  <2>4. HInv'
    BY <1>0, <1>1, <2>1, <2>2, <2>3, NoRunIs, RunMovesOn DEF BInv
  <2>5. SessionOK(d)'
    BY <1>0, <1>1, <1>3, <2>1, NoRunIs DEF SessionOK, Leaving
  <2>6. AdoptionTyped' /\ PlanOK(d)'
    BY <1>0, <1>1, PlanStays DEF BInv, AdoptionTyped
  <2> QED
    BY <1>1, <2>1, <2>4, <2>5, <2>6, OneMoves
<1> QED
  BY <1>2, <1>3

LEMMA SynchroniseKeeps ==
    ASSUME DevicesAssumption, BInv, NEW d \in Device, Synchronise(d)
    PROVE  BInv'
<1>1. session' = session /\ plan' = plan
  BY DEF Synchronise, adoptionVars
<1>2. CASE Vanish(d)
  <2>1. /\ record' = record /\ revision' = revision /\ run' = run /\ cursor' = cursor
    BY <1>2 DEF Vanish
  <2>2. HInv'
    BY <1>2, VanishKeeps DEF BInv
  <2>3. AdoptionTyped' /\ SessionOK(d)' /\ PlanOK(d)'
    BY <1>1, <2>1, AdoptionTypes, SessionStays, PlanStays DEF BInv, AdoptionTyped
  <2> QED
    BY <1>1, <2>1, <2>2, <2>3, OneMoves
<1> QED
  BY <1>1, <1>2, PullOrStepKeeps, ArrivalKeeps, UnauthorisedKeeps DEF Synchronise

(* The steps that leave the synchronisation alone.                          *)
LEMMA SessionMoves ==
    ASSUME DevicesAssumption, BInv, NEW d \in Device, UNCHANGED vars,
           NEW s \in SessionState, session' = [session EXCEPT ![d] = s],
           NEW p \in PlanState, plan' = [plan EXCEPT ![d] = p],
           SessionOK(d)', PlanOK(d)'
    PROVE  BInv'
<1>1. HInv'
  BY HStutters DEF BInv
<1>2. /\ AdoptionTyped'
      /\ \A e \in Device \ {d} : session'[e] = session[e] /\ plan'[e] = plan[e]
  BY DEF BInv, AdoptionTyped
<1> QED
  BY <1>1, <1>2, OneMoves DEF vars

LEMMA SwitchKeeps ==
    ASSUME DevicesAssumption, BInv, NEW d \in Device, Switch(d)
    PROVE  BInv'
<1> DEFINE s == [session[d] EXCEPT !.enabled = ~@]
<1>0. /\ session \in [Device -> SessionState] /\ plan \in [Device -> PlanState]
      /\ session[d] \in SessionState /\ SessionOK(d) /\ PlanOK(d)
  BY AdoptionTypes DEF BInv, AdoptionTyped
<1>1. /\ s \in SessionState /\ s.signedIn = session[d].signedIn
      /\ s.adopted = session[d].adopted /\ s.leaving = session[d].leaving
  BY <1>0 DEF SessionState
<1>2. session' = [session EXCEPT ![d] = s]
  BY <1>0 DEF Switch
<1> HIDE DEF s
<1>3. session'[d] = s
  BY <1>0, <1>2
<1>4. UNCHANGED vars /\ plan' = [plan EXCEPT ![d] = plan[d]] /\ plan[d] \in PlanState
      /\ plan' = plan
  BY <1>0 DEF Switch
<1>5. SessionOK(d)'
  BY <1>0, <1>1, <1>3, <1>4 DEF SessionOK, Leaving, Switch, AtHome, vars
<1>6. PlanOK(d)'
  BY <1>0, <1>4, PlanStays DEF vars
<1> QED
  BY <1>1, <1>2, <1>4, <1>5, <1>6, SessionMoves

LEMMA StageKeeps ==
    ASSUME DevicesAssumption, BInv, NEW d \in Device, Stage(d)
    PROVE  BInv'
<1> DEFINE p == [NoPlan EXCEPT !.phase = "staged", !.staged = record, !.version = revision]
<1>0. /\ session \in [Device -> SessionState] /\ session[d] \in SessionState
      /\ plan \in [Device -> PlanState]
      /\ SessionOK(d) /\ TypeOK /\ RecordsOK
  BY AdoptionTypes DEF BInv, AdoptionTyped
<1>1. /\ p \in PlanState /\ p.phase = "staged" /\ p.staged = record /\ p.version = revision
      /\ p.here = [k \in Key |-> NoBody]
  BY <1>0, PlansAre DEF NoPlan, PlanState, TypeOK
<1>2. plan' = [plan EXCEPT ![d] = p]
  BY DEF Stage
<1> HIDE DEF p
<1>3. plan'[d] = p
  BY <1>0, <1>2
<1>4. UNCHANGED vars /\ session' = session /\ session' = [session EXCEPT ![d] = session[d]]
  BY <1>0 DEF Stage
<1>5. SessionOK(d)'
  BY <1>0, <1>1, <1>3, <1>4 DEF SessionOK, Leaving, Stage, AtHome, vars
<1>6. PlanOK(d)'
  <2>1. \A k \in Key : record[k].revision \in Nat /\ revision \in Nat
    BY <1>0, Typed DEF TypeOK
  <2>2. \A k \in Key : /\ record[k].revision = 0 => record[k] = Absent
                       /\ Rule[k] = "event" => record[k].body \in {NoBody, EventBody}
    BY <1>0, <2>1, NothingTyped DEF RecordsOK
  <2>3. /\ plan'[d].version = revision /\ revision' = revision /\ record' = record
        /\ \A k \in Key : plan'[d].staged[k] = record[k] /\ plan'[d].here[k] = NoBody
    BY <1>1, <1>3, <1>4 DEF vars
  <2>4. revision <= revision /\ \A k \in Key : record[k].revision <= record[k].revision
    BY <1>0, <2>1 DEF TypeOK
  <2> QED
    BY <2>2, <2>3, <2>4 DEF PlanOK, CopyOf
<1> QED
  BY <1>0, <1>1, <1>2, <1>4, <1>5, <1>6, SessionMoves

LEMMA AskKeeps ==
    ASSUME DevicesAssumption, BInv, NEW d \in Device, Ask(d)
    PROVE  BInv'
<1> DEFINE p == [plan[d] EXCEPT !.phase = "asking", !.here = row[d]]
<1>0. /\ session \in [Device -> SessionState] /\ session[d] \in SessionState
      /\ plan \in [Device -> PlanState] /\ plan[d] \in PlanState
      /\ SessionOK(d) /\ TypeOK /\ PlanOK(d) /\ BrowserOK(d) /\ plan[d].phase = "staged"
  BY AdoptionTypes DEF BInv, AdoptionTyped, Ask
<1>1. /\ p \in PlanState /\ p.phase = "asking" /\ p.staged = plan[d].staged
      /\ p.version = plan[d].version /\ p.here = row[d]
  BY <1>0 DEF PlanState, TypeOK
<1>2. plan' = [plan EXCEPT ![d] = p]
  BY <1>0 DEF Ask
<1> HIDE DEF p
<1>3. plan'[d] = p
  BY <1>0, <1>2
<1>4. UNCHANGED vars /\ session' = session /\ session' = [session EXCEPT ![d] = session[d]]
  BY <1>0 DEF Ask
<1>5. SessionOK(d)'
  BY <1>0, <1>1, <1>3, <1>4 DEF SessionOK, Leaving, vars
<1>6. PlanOK(d)'
  BY <1>0, <1>1, <1>3, <1>4 DEF PlanOK, CopyOf, vars, BrowserOK, EventsKnown
<1> QED
  BY <1>0, <1>1, <1>2, <1>4, <1>5, <1>6, SessionMoves

LEMMA CancelKeeps ==
    ASSUME DevicesAssumption, BInv, NEW d \in Device, Cancel(d)
    PROVE  BInv'
<1>0. /\ session \in [Device -> SessionState] /\ session[d] \in SessionState
      /\ plan \in [Device -> PlanState] /\ SessionOK(d)
  BY AdoptionTypes DEF BInv, AdoptionTyped
<1>1. UNCHANGED vars /\ session' = session /\ session' = [session EXCEPT ![d] = session[d]]
      /\ plan' = [plan EXCEPT ![d] = NoPlan] /\ plan'[d] = NoPlan
  BY <1>0 DEF Cancel
<1>2. SessionOK(d)' /\ PlanOK(d)'
  BY <1>0, <1>1, PlansAre DEF SessionOK, PlanOK, Leaving, vars
<1> QED
  BY <1>0, <1>1, <1>2, PlansAre, SessionMoves

LEMMA RevokeKeeps ==
    ASSUME DevicesAssumption, BInv, NEW d \in Device, Revoke(d)
    PROVE  BInv'
<1>0. /\ session \in [Device -> SessionState] /\ session[d] \in SessionState
      /\ plan \in [Device -> PlanState] /\ plan[d] \in PlanState
      /\ SessionOK(d) /\ PlanOK(d)
  BY AdoptionTypes DEF BInv, AdoptionTyped
<1>1. PICK reached \in BOOLEAN :
         session' = [session EXCEPT ![d].leaving = "revoked", ![d].valid = @ /\ ~reached]
  BY DEF Revoke
<1> DEFINE s == [session[d] EXCEPT !.leaving = "revoked", !.valid = @ /\ ~reached]
<1>2. session' = [session EXCEPT ![d] = s]
  BY <1>0, <1>1
<1>3. /\ s \in SessionState /\ s.leaving = "revoked" /\ s.signedIn = session[d].signedIn
      /\ s.adopted = session[d].adopted /\ s.enabled = session[d].enabled
  BY <1>0 DEF SessionState
<1> HIDE DEF s
<1>4. session'[d] = s
  BY <1>0, <1>2
<1>5. UNCHANGED vars /\ plan' = plan /\ plan' = [plan EXCEPT ![d] = plan[d]]
  BY <1>0 DEF Revoke
<1>6. SessionOK(d)'
  BY <1>0, <1>3, <1>4, <1>5 DEF SessionOK, Leaving, vars
<1>7. PlanOK(d)'
  BY <1>0, <1>5, PlanStays DEF vars
<1> QED
  BY <1>0, <1>2, <1>3, <1>5, <1>6, <1>7, SessionMoves

LEMMA SwitchOffKeeps ==
    ASSUME DevicesAssumption, BInv, NEW d \in Device, SwitchOff(d)
    PROVE  BInv'
<1> DEFINE s == [session[d] EXCEPT !.enabled = FALSE, !.leaving = "off"]
<1>0. /\ session \in [Device -> SessionState] /\ session[d] \in SessionState
      /\ plan \in [Device -> PlanState] /\ SessionOK(d)
  BY AdoptionTypes DEF BInv, AdoptionTyped
<1>1. session' = [session EXCEPT ![d] = s]
  BY <1>0 DEF SwitchOff
<1>2. /\ s \in SessionState /\ s.leaving = "off" /\ s.signedIn = session[d].signedIn
      /\ s.adopted = session[d].adopted /\ s.enabled = FALSE
  BY <1>0 DEF SessionState
<1> HIDE DEF s
<1>3. session'[d] = s
  BY <1>0, <1>1
<1>4. UNCHANGED vars /\ plan' = [plan EXCEPT ![d] = NoPlan] /\ plan'[d] = NoPlan
  BY <1>0 DEF SwitchOff
<1>5. SessionOK(d)' /\ PlanOK(d)'
  BY <1>0, <1>2, <1>3, <1>4, PlansAre DEF SessionOK, PlanOK, Leaving, vars
<1> QED
  BY <1>1, <1>2, <1>4, <1>5, PlansAre, SessionMoves

(* Only the cursor is written.                                              *)
LEMMA CursorMoves ==
    ASSUME HInv, TypeOK', NEW d \in Device,
           UNCHANGED <<revision, record, row, state, run, wire>>
    PROVE  HInv'
<1>1. BrowserOK(d)'
  BY Undisturbed DEF HInv
<1> QED
  BY <1>1, OneBrowserMoves

LEMMA SignInKeeps ==
    ASSUME DevicesAssumption, BInv, NEW d \in Device, SignIn(d)
    PROVE  BInv'
<1>0. /\ session \in [Device -> SessionState] /\ TypeOK /\ SessionOK(d) /\ PlanOK(d)
  BY AdoptionTypes DEF BInv, AdoptionTyped
<1> DEFINE s == [Guest EXCEPT !.signedIn = TRUE, !.valid = TRUE]
<1>1. /\ s \in SessionState /\ s.signedIn /\ ~s.adopted /\ ~s.enabled /\ s.leaving = "no"
  BY DEF Guest, SessionState
<1>2. session' = [session EXCEPT ![d] = s] /\ plan' = plan
  BY DEF SignIn
<1> HIDE DEF s
<1>3. /\ session' \in [Device -> SessionState] /\ session'[d] = s
      /\ \A e \in Device \ {d} : session'[e] = session[e]
  BY <1>0, <1>1, <1>2
<1>4. /\ cursor' \in [Device -> 0..MaxRevision]
      /\ \A e \in Device \ {d} : cursor'[e] = cursor[e]
  BY <1>0, NothingTyped DEF SignIn, TypeOK
<1>5. HInv'
  <2>1. TypeOK'
    BY <1>0, <1>4 DEF TypeOK, SignIn
  <2> QED
    BY <2>1, CursorMoves DEF BInv, SignIn
<1>6. run' = run /\ record' = record /\ revision' = revision /\ ~session[d].signedIn
  BY DEF SignIn
<1>7. SessionOK(d)'
  BY <1>0, <1>1, <1>2, <1>3, <1>6 DEF SessionOK, Leaving
<1>8. AdoptionTyped' /\ PlanOK(d)'
  BY <1>0, <1>2, <1>3, <1>6, PlanStays DEF BInv, AdoptionTyped
<1> QED
  BY <1>2, <1>3, <1>4, <1>5, <1>6, <1>7, <1>8, OneMoves

LEMMA DropKeeps ==
    ASSUME DevicesAssumption, BInv, NEW d \in Device, Drop(d)
    PROVE  BInv'
<1>0. /\ session \in [Device -> SessionState] /\ TypeOK /\ SessionOK(d) /\ PlanOK(d)
      /\ session[d] \in SessionState
  BY AdoptionTypes DEF BInv, AdoptionTyped
<1> DEFINE s == [Guest EXCEPT !.valid = session[d].valid, !.leaving = "dropped"]
<1>1. /\ s \in SessionState /\ ~s.signedIn /\ ~s.adopted /\ ~s.enabled
      /\ s.leaving = "dropped"
  BY <1>0 DEF Guest, SessionState
<1>2. session' = [session EXCEPT ![d] = s] /\ plan' = plan
  BY DEF Drop
<1> HIDE DEF s
<1>3. /\ session' \in [Device -> SessionState] /\ session'[d] = s
      /\ \A e \in Device \ {d} : session'[e] = session[e]
  BY <1>0, <1>1, <1>2
<1>4. /\ cursor' \in [Device -> 0..MaxRevision] /\ cursor'[d] = 0
      /\ \A e \in Device \ {d} : cursor'[e] = cursor[e]
  BY <1>0, NothingTyped DEF Drop, TypeOK
<1>5. HInv'
  <2>1. TypeOK'
    BY <1>0, <1>4 DEF TypeOK, Drop
  <2> QED
    BY <2>1, CursorMoves DEF BInv, Drop
<1>6. run' = run /\ record' = record /\ revision' = revision /\ session[d].leaving = "released"
  BY DEF Drop
<1>7. SessionOK(d)'
  BY <1>0, <1>1, <1>2, <1>3, <1>4, <1>6 DEF SessionOK, Leaving
<1>8. AdoptionTyped' /\ PlanOK(d)'
  BY <1>0, <1>2, <1>3, <1>6, PlanStays DEF BInv, AdoptionTyped
<1> QED
  BY <1>2, <1>3, <1>4, <1>5, <1>6, <1>7, <1>8, OneMoves

LEMMA ReleaseKeeps ==
    ASSUME DevicesAssumption, BInv, NEW d \in Device, Release(d)
    PROVE  BInv'
<1>0. /\ session \in [Device -> SessionState] /\ TypeOK /\ SessionOK(d) /\ PlanOK(d)
      /\ session[d] \in SessionState /\ BrowserOK(d)
  BY AdoptionTypes DEF BInv, AdoptionTyped
<1> DEFINE s == [session[d] EXCEPT !.leaving = "released"]
<1>1. /\ s \in SessionState /\ s.signedIn = session[d].signedIn
      /\ s.adopted = session[d].adopted /\ s.enabled = session[d].enabled
      /\ s.leaving = "released"
  BY <1>0 DEF SessionState
<1>2. session' = [session EXCEPT ![d] = s] /\ plan' = plan
  BY <1>0 DEF Release
<1> HIDE DEF s
<1>3. /\ session' \in [Device -> SessionState] /\ session'[d] = s
      /\ \A e \in Device \ {d} : session'[e] = session[e]
  BY <1>0, <1>1, <1>2
<1>4. /\ row' \in [Device -> [Key -> Body \cup {NoBody}]]
      /\ \A k \in Key : row'[d][k] \in {NoBody, row[d][k]}
      /\ \A e \in Device \ {d} : row'[e] = row[e]
  BY <1>0 DEF Release, TypeOK
<1>5. UNCHANGED <<revision, record, state, cursor, run, wire, edits, faults>>
  BY DEF Release
<1>6. HInv'
  <2>1. TypeOK'
    BY <1>0, <1>4, <1>5 DEF TypeOK
  <2>2. ASSUME NEW k \in Key
        PROVE  /\ state'[d][k].revision <= record[k].revision
               /\ state'[d][k].revision = record[k].revision
                     => state'[d][k].body = record[k].body
               /\ state'[d][k].revision = 0 => state'[d][k] = Absent
               /\ Rule[k] = "event" => row'[d][k] \in {NoBody, EventBody}
    BY <1>0, <1>4, <1>5 DEF BrowserOK, CopiesOK, CopyOf, EventsKnown
  <2> QED
    BY <1>4, <1>5, <2>1, <2>2, RowsMove DEF BInv
<1>7. run[d].phase = "idle" /\ session[d].leaving = "off"
  BY DEF Release, RunEnded
<1>8. SessionOK(d)'
  BY <1>0, <1>1, <1>2, <1>3, <1>5, <1>7 DEF SessionOK, Leaving
<1>9. AdoptionTyped' /\ PlanOK(d)'
  BY <1>0, <1>2, <1>3, <1>5, PlanStays DEF BInv, AdoptionTyped
<1> QED
  BY <1>2, <1>3, <1>5, <1>6, <1>8, <1>9, OneMoves

LEMMA ClearKeeps ==
    ASSUME DevicesAssumption, BInv, NEW d \in Device, Clear(d)
    PROVE  BInv'
<1>0. /\ session \in [Device -> SessionState] /\ TypeOK /\ SessionOK(d) /\ PlanOK(d)
      /\ session[d] \in SessionState /\ BrowserOK(d) /\ RecordsOK
  BY AdoptionTypes DEF BInv, AdoptionTyped
<1> DEFINE s == [session[d] EXCEPT !.leaving = "no"]
<1>1. /\ s \in SessionState /\ s.signedIn = session[d].signedIn
      /\ s.adopted = session[d].adopted /\ s.enabled = session[d].enabled
      /\ s.leaving = "no"
  BY <1>0 DEF SessionState
<1>2. session' = [session EXCEPT ![d] = s] /\ plan' = plan
  BY <1>0 DEF Clear
<1> HIDE DEF s
<1>3. /\ session' \in [Device -> SessionState] /\ session'[d] = s
      /\ \A e \in Device \ {d} : session'[e] = session[e]
  BY <1>0, <1>1, <1>2
<1>4. /\ state' \in [Device -> [Key -> {x \in Entry : x = Absent \/ x.body \in Body}]]
      /\ \A k \in Key : state'[d][k] = Absent
      /\ \A e \in Device \ {d} : state'[e] = state[e]
  BY <1>0, NothingTyped DEF Clear, TypeOK, Nothing
<1>5. UNCHANGED <<revision, record, row, cursor, run, wire, edits, faults>>
  BY DEF Clear
<1>6. HInv'
  <2>1. TypeOK'
    BY <1>0, <1>4, <1>5 DEF TypeOK
  <2>2. ASSUME NEW k \in Key
        PROVE  /\ state'[d][k].revision <= record[k].revision
               /\ state'[d][k].revision = record[k].revision
                     => state'[d][k].body = record[k].body
               /\ state'[d][k].revision = 0 => state'[d][k] = Absent
               /\ Rule[k] = "event" => row'[d][k] \in {NoBody, EventBody}
    <3>1. record[k].revision \in Nat /\ (record[k].revision = 0 => record[k] = Absent)
      BY <1>0, Typed DEF RecordsOK
    <3>2. Rule[k] = "event" => row'[d][k] \in {NoBody, EventBody}
      BY <1>0, <1>5 DEF BrowserOK, EventsKnown
    <3> QED
      BY <1>4, <3>1, <3>2, NothingTyped
  <2> QED
    BY <1>4, <1>5, <2>1, <2>2, RowsMove DEF BInv
<1>7. SessionOK(d)'
  BY <1>0, <1>1, <1>2, <1>3, <1>5 DEF SessionOK, Leaving, Clear
<1>8. AdoptionTyped' /\ PlanOK(d)'
  BY <1>0, <1>2, <1>3, <1>5, PlanStays DEF BInv, AdoptionTyped
<1> QED
  BY <1>2, <1>3, <1>5, <1>6, <1>7, <1>8, OneMoves

LEMMA CrashKeeps ==
    ASSUME DevicesAssumption, BInv, NEW d \in Device, Crash(d)
    PROVE  BInv'
<1>0. /\ session \in [Device -> SessionState] /\ plan \in [Device -> PlanState]
      /\ TypeOK /\ SessionOK(d) /\ session[d] \in SessionState
      /\ run \in [Device -> RunState]
  BY AdoptionTypes, Typed DEF BInv, AdoptionTyped
<1> DEFINE s == [session[d] EXCEPT !.leaving = "no"]
<1>1. /\ s \in SessionState /\ s.signedIn = session[d].signedIn
      /\ s.adopted = session[d].adopted /\ s.enabled = session[d].enabled
      /\ s.leaving = "no"
  BY <1>0 DEF SessionState
<1>2. session' = [session EXCEPT ![d] = s] /\ plan' = [plan EXCEPT ![d] = NoPlan]
  BY <1>0 DEF Crash
<1> HIDE DEF s
<1>3. /\ session' \in [Device -> SessionState] /\ session'[d] = s
      /\ plan' \in [Device -> PlanState] /\ plan'[d] = NoPlan
      /\ \A e \in Device \ {d} : session'[e] = session[e] /\ plan'[e] = plan[e]
  BY <1>0, <1>1, <1>2, PlansAre
<1>4. /\ run' = [run EXCEPT ![d] = NoRun] /\ run'[d] = NoRun
      /\ \A e \in Device \ {d} : run'[e] = run[e]
      /\ UNCHANGED <<revision, record, row, state, cursor, wire, edits>>
  BY <1>0 DEF Crash
<1>5. HInv'
  <2>1. faults' \in 0..MaxFaults
    BY <1>0 DEF Crash, TypeOK, DevicesAssumption
  <2> QED
    BY <1>4, <2>1, EndKeeps DEF BInv
<1>6. SessionOK(d)' /\ PlanOK(d)' /\ AdoptionTyped'
  BY <1>0, <1>1, <1>3, <1>4, PlansAre, NoRunIs DEF SessionOK, PlanOK, Leaving, AdoptionTyped
<1> QED
  BY <1>3, <1>4, <1>5, <1>6, OneMoves

(* What an adoption writes is of its type, and a copy of the account's.     *)
LEMMA PlannedTyped ==
    ASSUME DevicesAssumption, BInv, NEW d \in Device, NEW k \in Key,
           plan[d].phase # "none", Writes(d, k)
    PROVE  /\ PlannedRow(d, k) \in Body
           /\ PlannedState(d, k) \in Entry /\ PlannedState(d, k).body \in Body
           /\ PlannedState(d, k).revision > 0
           /\ CopyOf(k, PlannedState(d, k))
           /\ Rule[k] = "event" => PlannedRow(d, k) = EventBody
           /\ plan[d].here[k] # NoBody /\ Rule[k] = "latest"
                 => PlannedRow(d, k) >= plan[d].here[k]
<1>0. /\ plan[d] \in PlanState /\ PlanOK(d) /\ Body \subseteq Nat /\ NoBody \notin Body
  BY AdoptionTypes DEF DevicesAssumption
<1>1. /\ plan[d].staged[k] \in Entry /\ plan[d].staged[k].body \in Body
      /\ plan[d].here[k] \in Body \cup {NoBody}
  <2>1. plan[d].staged \in [Key -> Entry] /\ plan[d].here \in [Key -> Body \cup {NoBody}]
    BY <1>0 DEF PlanState
  <2> QED
    BY <2>1 DEF Entry, Writes
<1>2. /\ CopyOf(k, plan[d].staged[k])
      /\ plan[d].staged[k].revision = 0 => plan[d].staged[k] = Absent
      /\ Rule[k] = "event" => /\ plan[d].staged[k].body \in {NoBody, EventBody}
                              /\ plan[d].here[k] \in {NoBody, EventBody}
  BY <1>0 DEF PlanOK
<1>3. plan[d].staged[k].revision > 0
  BY <1>0, <1>1, <1>2, NothingTyped DEF Entry
<1>4. PlannedRow(d, k) \in Body
  BY <1>0, <1>1 DEF PlannedRow, Merge
<1>5. Rule[k] = "event" => PlannedRow(d, k) = EventBody
  BY <1>0, <1>1, <1>2 DEF PlannedRow, Merge
<1>6. plan[d].here[k] # NoBody /\ Rule[k] = "latest" => PlannedRow(d, k) >= plan[d].here[k]
  BY <1>0, <1>1 DEF PlannedRow, Merge
<1> QED
  BY <1>1, <1>2, <1>3, <1>4, <1>5, <1>6 DEF PlannedState

LEMMA AcceptMoves ==
    ASSUME DevicesAssumption, BInv, NEW d \in Device, Accept(d)
    PROVE  /\ plan[d].phase = "asking" /\ ~session[d].adopted /\ run[d] = NoRun
           /\ row' \in [Device -> [Key -> Body \cup {NoBody}]]
           /\ state' \in [Device -> [Key -> {x \in Entry : x = Absent \/ x.body \in Body}]]
           /\ \A k \in Key :
                /\ row'[d][k] = IF Writes(d, k) THEN PlannedRow(d, k) ELSE row[d][k]
                /\ state'[d][k] = IF Writes(d, k) THEN PlannedState(d, k) ELSE state[d][k]
           /\ \A e \in Device \ {d} : row'[e] = row[e] /\ state'[e] = state[e]
<1>0. /\ TypeOK /\ SessionOK(d) /\ plan[d].phase = "asking"
      /\ row \in [Device -> [Key -> Body \cup {NoBody}]]
      /\ state \in [Device -> [Key -> {x \in Entry : x = Absent \/ x.body \in Body}]]
  BY AdoptionTypes DEF Accept, TypeOK
<1>1. ~session[d].adopted /\ run[d] = NoRun
  BY <1>0 DEF SessionOK
<1> DEFINE R == [k \in Key |-> IF Writes(d, k) THEN PlannedRow(d, k) ELSE row[d][k]]
           S == [k \in Key |-> IF Writes(d, k) THEN PlannedState(d, k) ELSE state[d][k]]
<1>2. R \in [Key -> Body \cup {NoBody}]
  BY <1>0, PlannedTyped
<1>3. S \in [Key -> {x \in Entry : x = Absent \/ x.body \in Body}]
  BY <1>0, PlannedTyped
<1>4. row' = [row EXCEPT ![d] = R] /\ state' = [state EXCEPT ![d] = S]
  BY <1>0 DEF Accept
<1>5. \A k \in Key :
         /\ R[k] = IF Writes(d, k) THEN PlannedRow(d, k) ELSE row[d][k]
         /\ S[k] = IF Writes(d, k) THEN PlannedState(d, k) ELSE state[d][k]
  OBVIOUS
<1> HIDE DEF R, S
<1>6. row'[d] = R /\ state'[d] = S
  BY <1>0, <1>4
<1>7. /\ row' \in [Device -> [Key -> Body \cup {NoBody}]]
      /\ \A e \in Device \ {d} : row'[e] = row[e]
  BY <1>0, <1>2, <1>4
<1>8. /\ state' \in [Device -> [Key -> {x \in Entry : x = Absent \/ x.body \in Body}]]
      /\ \A e \in Device \ {d} : state'[e] = state[e]
  BY <1>0, <1>3, <1>4
<1> QED
  BY <1>0, <1>1, <1>5, <1>6, <1>7, <1>8

LEMMA AcceptKeeps ==
    ASSUME DevicesAssumption, BInv, NEW d \in Device, Accept(d)
    PROVE  BInv'
<1>0. /\ session \in [Device -> SessionState] /\ plan \in [Device -> PlanState]
      /\ TypeOK /\ SessionOK(d) /\ PlanOK(d) /\ session[d] \in SessionState
      /\ plan[d] \in PlanState /\ BrowserOK(d) /\ RecordsOK
  BY AdoptionTypes DEF BInv, AdoptionTyped
<1> DEFINE s == [session[d] EXCEPT !.adopted = TRUE, !.enabled = TRUE]
<1>1. /\ s \in SessionState /\ s.signedIn = session[d].signedIn /\ s.adopted
      /\ s.leaving = session[d].leaving
  BY <1>0 DEF SessionState
<1>2. session' = [session EXCEPT ![d] = s] /\ plan' = [plan EXCEPT ![d] = NoPlan]
  BY <1>0 DEF Accept
<1> HIDE DEF s
<1>3. /\ session' \in [Device -> SessionState] /\ session'[d] = s
      /\ plan' \in [Device -> PlanState] /\ plan'[d] = NoPlan
      /\ \A e \in Device \ {d} : session'[e] = session[e] /\ plan'[e] = plan[e]
  BY <1>0, <1>1, <1>2, PlansAre
<1>4. /\ cursor' = [cursor EXCEPT ![d] = plan[d].version]
      /\ UNCHANGED <<revision, record, run, wire, edits, faults>>
      /\ AtHome(d)
  BY DEF Accept
<1>5. /\ cursor' \in [Device -> 0..MaxRevision]
      /\ \A e \in Device \ {d} : cursor'[e] = cursor[e]
  BY <1>0, <1>4 DEF TypeOK, PlanState
<1>6. HInv'
  <2>1. TypeOK'
    BY <1>0, <1>4, <1>5, AcceptMoves DEF TypeOK
  <2>2. ASSUME NEW k \in Key
        PROVE  /\ state'[d][k].revision <= record[k].revision
               /\ state'[d][k].revision = record[k].revision
                     => state'[d][k].body = record[k].body
               /\ state'[d][k].revision = 0 => state'[d][k] = Absent
               /\ Rule[k] = "event" => row'[d][k] \in {NoBody, EventBody}
    <3>1. CASE ~Writes(d, k)
      <4>1. row'[d][k] = row[d][k] /\ state'[d][k] = state[d][k]
        BY <3>1, AcceptMoves
      <4> QED
        BY <1>0, <4>1 DEF BrowserOK, CopiesOK, CopyOf, EventsKnown
    <3>2. CASE Writes(d, k)
      <4>1. /\ PlannedState(d, k).revision > 0 /\ CopyOf(k, PlannedState(d, k))
            /\ Rule[k] = "event" => PlannedRow(d, k) = EventBody
            /\ PlannedState(d, k) \in Entry
        BY <3>2, AcceptMoves, PlannedTyped
      <4>2. /\ row'[d][k] = PlannedRow(d, k) /\ state'[d][k] = PlannedState(d, k)
            /\ PlannedState(d, k).revision # 0
        BY <3>2, <4>1, AcceptMoves DEF Entry
      <4> QED
        BY <4>1, <4>2 DEF CopyOf
    <3> QED
      BY <3>1, <3>2
  <2>3. \A e \in Device \ {d} : row'[e] = row[e] /\ state'[e] = state[e]
    BY AcceptMoves
  <2> QED
    BY <1>4, <2>1, <2>2, <2>3, RowsMove DEF BInv
<1>7. session[d].signedIn /\ session[d].leaving \in {"no", "revoked"}
  BY <1>4 DEF AtHome
<1>8. SessionOK(d)'
  BY <1>0, <1>1, <1>3, <1>4, <1>7, PlansAre DEF SessionOK, Leaving
<1>9. AdoptionTyped' /\ PlanOK(d)'
  BY <1>3, PlansAre DEF AdoptionTyped, PlanOK
<1> QED
  BY <1>3, <1>4, <1>5, <1>6, <1>8, <1>9, OneMoves

-----------------------------------------------------------------------------
LEMMA BNext ==
    ASSUME DevicesAssumption, BInv, [NextAdoption]_allVars
    PROVE  BInv'
<1>1. CASE UNCHANGED allVars
  <2>1. /\ UNCHANGED vars /\ session' = session /\ plan' = plan
        /\ record' = record /\ revision' = revision /\ run' = run /\ cursor' = cursor
    BY <1>1 DEF allVars, vars, adoptionVars
  <2>2. HInv' /\ AdoptionTyped'
    BY <2>1, HStutters DEF BInv, AdoptionTyped
  <2>3. ASSUME NEW e \in Device PROVE SessionOK(e)' /\ PlanOK(e)'
    BY <2>1, AdoptionTypes, SessionStays, PlanStays
  <2> QED
    BY <2>2, <2>3 DEF BInv
<1>2. ASSUME NEW d \in Device,
             \/ Play(d) \/ Synchronise(d) \/ SignIn(d) \/ Switch(d) \/ Stage(d) \/ Ask(d)
             \/ Cancel(d) \/ Accept(d)
      PROVE  BInv'
  BY <1>2, PlayKeeps, SynchroniseKeeps, SignInKeeps, SwitchKeeps, StageKeeps, AskKeeps,
     CancelKeeps, AcceptKeeps
<1>3. ASSUME NEW d \in Device, SignOut(d) \/ Crash(d) PROVE BInv'
  BY <1>3, RevokeKeeps, SwitchOffKeeps, ReleaseKeeps, DropKeeps, ClearKeeps, CrashKeeps
  DEF SignOut
<1> QED
  BY <1>1, <1>2, <1>3 DEF NextAdoption

LEMMA AlwaysAtHome == SpecAdoption => []BInv
<1>1. InitAdoption => BInv
  BY DevicesAssumption, BInit
<1>2. BInv /\ [NextAdoption]_allVars => BInv'
  BY DevicesAssumption, BNext
<1> QED
  BY <1>1, <1>2, PTL DEF SpecAdoption

-----------------------------------------------------------------------------
(* A row that signing out removed is on the account as it was, or has been  *)
(* written since (releaseAccountCopies, partition).                         *)
THEOREM AdoptionReleasedComesBack == SpecAdoption => ReleasedComesBack
<1> DEFINE Returns == \A d \in Device, k \in Key :
                         Release(d) /\ row'[d][k] # row[d][k]
                             => \/ record[k].body = row[d][k]
                                \/ record[k].revision > state[d][k].revision
<1>1. ASSUME BInv PROVE Returns
  <2> SUFFICES ASSUME NEW d \in Device, NEW k \in Key, Release(d), row'[d][k] # row[d][k]
               PROVE  \/ record[k].body = row[d][k]
                      \/ record[k].revision > state[d][k].revision
    OBVIOUS
  <2>1. TypeOK /\ BrowserOK(d)
    BY <1>1, AdoptionTypes
  <2>2. row[d][k] = state[d][k].body
    BY <2>1 DEF Release, Confirmed, TypeOK
  <2>3. CopyOf(k, state[d][k]) /\ state[d][k].revision \in Nat /\ record[k].revision \in Nat
    BY <2>1, Typed DEF BrowserOK, CopiesOK
  <2> QED
    BY <2>2, <2>3 DEF CopyOf
<1>2. BInv /\ [NextAdoption]_allVars => [Returns]_allVars
  BY <1>1
<1> QED
  BY <1>2, AlwaysAtHome, PTL DEF SpecAdoption, ReleasedComesBack

(* Agreeing to an adoption removes nothing from the browser, and a rating   *)
(* the user made later than the account's stays (planAdoption, mergeBodies).*)
THEOREM AdoptionNeverReplaces == SpecAdoption => AdoptionKeepsEdits
<1> DEFINE Keeps == \A d \in Device, k \in Key :
                       Accept(d) /\ row[d][k] # NoBody =>
                           /\ row'[d][k] # NoBody
                           /\ row[d][k] = plan[d].here[k] /\ Rule[k] = "latest"
                                 => row'[d][k] >= row[d][k]
<1>1. ASSUME BInv PROVE Keeps
  <2> SUFFICES ASSUME NEW d \in Device, NEW k \in Key, Accept(d), row[d][k] # NoBody
               PROVE  /\ row'[d][k] # NoBody
                      /\ row[d][k] = plan[d].here[k] /\ Rule[k] = "latest"
                            => row'[d][k] >= row[d][k]
    OBVIOUS
  <2>1. /\ plan[d].phase # "none"
        /\ row'[d][k] = IF Writes(d, k) THEN PlannedRow(d, k) ELSE row[d][k]
    BY <1>1, AcceptMoves, DevicesAssumption
  <2>2. row[d][k] \in Nat
    BY <1>1, AdoptionTypes, Typed, DevicesAssumption DEF DevicesAssumption
  <2>3. CASE ~Writes(d, k)
    BY <2>1, <2>2, <2>3
  <2>4. CASE Writes(d, k)
    BY <1>1, <2>1, <2>4, PlannedTyped, DevicesAssumption DEF DevicesAssumption
  <2> QED
    BY <2>3, <2>4
<1>2. BInv /\ [NextAdoption]_allVars => [Keeps]_allVars
  BY <1>1
<1> QED
  BY <1>2, AlwaysAtHome, PTL DEF SpecAdoption, AdoptionKeepsEdits

-----------------------------------------------------------------------------
(* A browser at which nothing moved, while users went on deleting.          *)
LEMMA DeletionsStay ==
    ASSUME NEW e \in Device, DeletionsOK(e), erased \subseteq erased',
           run'[e] = run[e], row'[e] = row[e], state'[e] = state[e],
           wire'[e] \subseteq wire[e], Leaving(e) => Leaving(e)'
    PROVE  DeletionsOK(e)'
<1>1. PageErased(e)' /\ RowErased(e)'
  BY DEF DeletionsOK, PageErased, RowErased, Tombstone
<1>2. ReadErased(e)'
  BY DEF DeletionsOK, ReadErased
<1>3. SentErased(e)'
  BY DEF DeletionsOK, SentErased
<1>4. OwedErased(e)' /\ OutErased(e)'
  BY DEF DeletionsOK, OwedErased, OutErased
<1> QED
  BY <1>1, <1>2, <1>3, <1>4 DEF DeletionsOK

(* A browser without a run stands for its rows and its late push only.      *)
LEMMA DeletionsAtRest ==
    ASSUME DevicesAssumption, NEW d \in Device, DeletionsOK(d), erased' = erased,
           run'[d] = NoRun, wire'[d] \subseteq wire[d], RowErased(d)'
    PROVE  DeletionsOK(d)'
<1>1. PageErased(d)'
  BY NoRunIs, NothingTyped DEF PageErased, Tombstone, Nothing
<1>2. ReadErased(d)' /\ OwedErased(d)' /\ OutErased(d)'
  BY NoRunIs DEF ReadErased, OwedErased, OutErased
<1>3. SentErased(d)'
  BY NoRunIs DEF DeletionsOK, SentErased
<1> QED
  BY <1>1, <1>2, <1>3 DEF DeletionsOK

LEMMA EInit == DevicesAssumption /\ InitAdoption => EInv
<1> SUFFICES ASSUME DevicesAssumption, InitAdoption PROVE EInv
  OBVIOUS
<1>1. /\ \A k \in Key : record[k] = Absent
      /\ \A d \in Device : /\ run[d] = NoRun /\ wire[d] = {}
                           /\ \A k \in Key : state[d][k] = Absent
  BY DEF InitAdoption, Init, Nothing
<1>2. DeletedByUsers
  BY <1>1, NothingTyped DEF DeletedByUsers, Tombstone
<1>3. ASSUME NEW d \in Device PROVE DeletionsOK(d)
  <2>1. PageErased(d)
    BY <1>1, NoRunIs, NothingTyped DEF PageErased, Tombstone, Nothing
  <2>2. RowErased(d)
    BY <1>1, NothingTyped DEF RowErased
  <2>3. ReadErased(d) /\ OwedErased(d) /\ OutErased(d) /\ SentErased(d)
    BY <1>1, NoRunIs DEF ReadErased, OwedErased, OutErased, SentErased
  <2> QED
    BY <2>1, <2>2, <2>3 DEF DeletionsOK
<1> QED
  BY <1>2, <1>3 DEF EInv

LEMMA PlayErases ==
    ASSUME DevicesAssumption, BInv, NEW d \in Device, DeletionsOK(d), Play(d)
    PROVE  DeletionsOK(d)'
<1>1. PICK k \in Key, b \in Body \cup {NoBody} :
         Edit(d, k, b) /\ erased' = IF b = NoBody THEN erased \cup {k} ELSE erased
  BY DEF Play
<1>2. /\ \A j \in Key : row'[d][j] = IF j = k THEN b ELSE row[d][j]
      /\ run' = run /\ state' = state /\ wire' = wire
  BY <1>1, AdoptionTypes DEF Edit, TypeOK
<1>3. session' = session /\ erased \subseteq erased' /\ (b = NoBody => k \in erased')
  BY <1>1 DEF Play
<1>4. PageErased(d)' /\ RowErased(d)'
  BY <1>2, <1>3 DEF DeletionsOK, PageErased, RowErased, Tombstone, Leaving
<1>5. ReadErased(d)'
  BY <1>2, <1>3 DEF DeletionsOK, ReadErased
<1>6. SentErased(d)'
  BY <1>2, <1>3 DEF DeletionsOK, SentErased
<1>7. OwedErased(d)'
  <2>0. run[d].owed \subseteq Outgoing
    BY AdoptionTypes, Typed DEF RunState
  <2>1. ASSUME NEW x \in run[d].owed, x.body # NoBody, row'[d][x.key] = NoBody
        PROVE  x.key \in erased'
    <3>1. x.key \in Key
      BY <2>0 DEF Outgoing
    <3> QED
      BY <1>2, <1>3, <2>1, <3>1 DEF DeletionsOK, OwedErased
  <2> QED
    BY <1>2, <2>1 DEF DeletionsOK, OwedErased
<1>8. OutErased(d)'
  <2>0. run[d].out \subseteq Outgoing
    BY AdoptionTypes, Typed DEF RunState
  <2>1. ASSUME NEW x \in run[d].out, run[d].phase \in {"sent", "answered"},
               x.body # NoBody, row'[d][x.key] = NoBody
        PROVE  x.key \in erased'
    <3>1. x.key \in Key
      BY <2>0 DEF Outgoing
    <3> QED
      BY <1>2, <1>3, <2>1, <3>1 DEF DeletionsOK, OutErased
  <2> QED
    BY <1>2, <2>1 DEF DeletionsOK, OutErased
<1> QED
  BY <1>4, <1>5, <1>6, <1>7, <1>8 DEF DeletionsOK

(* --- the run ------------------------------------------------------------ *)
LEMMA PullErases ==
    ASSUME DevicesAssumption, BInv, NEW d \in Device, DeletionsOK(d), DeletedByUsers,
           Pull(d), UNCHANGED adoptionVars
    PROVE  DeletionsOK(d)'
<1>0. TypeOK /\ BrowserOK(d)
  BY AdoptionTypes
<1>1. /\ row' = row /\ state' = state /\ wire' = wire /\ session' = session
      /\ erased' = erased
  BY DEF Pull, adoptionVars
<1>2. /\ run[d].phase = "idle" /\ run'[d].phase = "pulled"
      /\ run'[d].owed = run[d].owed /\ run'[d].out = run[d].out
      /\ run'[d].page = [k \in Key |->
            IF record[k].revision > cursor[d] THEN record[k] ELSE Absent]
  BY <1>0, PullRun
<1>3. PageErased(d)'
  <2>1. \A k \in Key : run'[d].page[k] \in {record[k], Absent}
    BY <1>2
  <2> QED
    BY <1>1, <2>1, NothingTyped DEF PageErased, DeletedByUsers, Tombstone
<1>4. RowErased(d)' /\ ReadErased(d)' /\ SentErased(d)'
  BY <1>1, <1>2 DEF DeletionsOK, RowErased, ReadErased, SentErased, Leaving
<1>5. OwedErased(d)' /\ OutErased(d)'
  BY <1>1, <1>2 DEF DeletionsOK, OwedErased, OutErased
<1> QED
  BY <1>3, <1>4, <1>5 DEF DeletionsOK

LEMMA ApplyPulledErases ==
    ASSUME DevicesAssumption, BInv, NEW d \in Device, DeletionsOK(d),
           ApplyPulled(d), UNCHANGED adoptionVars
    PROVE  DeletionsOK(d)'
<1>0. TypeOK /\ BrowserOK(d)
  BY AdoptionTypes
<1>1. /\ wire' = wire /\ session' = session /\ erased' = erased
  BY DEF ApplyPulled, adoptionVars
<1>2. /\ run[d].phase = "pulled" /\ run'[d].phase = "applied" /\ run'[d].page = Nothing
      /\ run'[d].owed = run[d].owed /\ run'[d].out = run[d].out
  BY <1>0, ApplyPulledRun
<1>3. \A k \in Key : /\ row'[d][k] = RowAfterPull(d, k)
                     /\ state'[d][k] = StateAfterPull(d, k)
  BY <1>0 DEF ApplyPulled, TypeOK
<1>4. ASSUME NEW k \in Key \ erased, row'[d][k] = NoBody
      PROVE  row[d][k] = NoBody /\ state'[d][k] = state[d][k]
  <2>1. ASSUME IsNews(d, k) PROVE FALSE
    <3>1. run[d].page[k].revision > 0 /\ ~Tombstone(run[d].page[k])
      BY <1>0, <2>1, Typed DEF DeletionsOK, PageErased, IsNews
    <3>2. Incoming(d, k) # NoBody /\ Incoming(d, k) \in Body \cup {NoBody}
      BY <1>0, <3>1, Typed DEF Tombstone, Incoming, Entry
    <3>3. row[d][k] \in Body \cup {NoBody}
      BY <1>0, Typed
    <3> QED
      BY <1>3, <1>4, <2>1, <3>2, <3>3 DEF RowAfterPull, Merge, DevicesAssumption
  <2> QED
    BY <1>3, <1>4, <2>1 DEF RowAfterPull, StateAfterPull
<1>5. PageErased(d)'
  BY <1>2, NothingTyped DEF PageErased, Tombstone, Nothing
<1>6. RowErased(d)' /\ ReadErased(d)' /\ SentErased(d)'
  BY <1>1, <1>2, <1>4 DEF DeletionsOK, RowErased, ReadErased, SentErased, Leaving
<1>7. OwedErased(d)'
  <2>0. run[d].owed \subseteq Outgoing
    BY <1>0, Typed DEF RunState
  <2>1. ASSUME NEW x \in run[d].owed, x.body # NoBody, row'[d][x.key] = NoBody
        PROVE  x.key \in erased
    <3>1. x.key \in Key
      BY <2>0 DEF Outgoing
    <3> QED
      BY <1>4, <2>1, <3>1 DEF DeletionsOK, OwedErased
  <2> QED
    BY <1>1, <1>2, <2>1 DEF DeletionsOK, OwedErased
<1>8. OutErased(d)'
  BY <1>2 DEF DeletionsOK, OutErased
<1> QED
  BY <1>5, <1>6, <1>7, <1>8 DEF DeletionsOK

LEMMA WriteCursorErases ==
    ASSUME DevicesAssumption, BInv, NEW d \in Device, DeletionsOK(d),
           WriteCursor(d), UNCHANGED adoptionVars
    PROVE  DeletionsOK(d)'
<1>1. /\ row' = row /\ state' = state /\ wire' = wire /\ session' = session
      /\ erased' = erased
  BY DEF WriteCursor, adoptionVars
<1>2. /\ run'[d].phase = "reading" /\ run'[d].unread = Key /\ run'[d].page = run[d].page
      /\ run'[d].owed = run[d].owed /\ run'[d].out = run[d].out
  BY AdoptionTypes, WriteCursorRun
<1>3. PageErased(d)' /\ RowErased(d)' /\ ReadErased(d)' /\ SentErased(d)'
  BY <1>1, <1>2
  DEF DeletionsOK, PageErased, RowErased, ReadErased, SentErased, Leaving, Tombstone
<1>4. OwedErased(d)' /\ OutErased(d)'
  BY <1>1, <1>2 DEF DeletionsOK, OwedErased, OutErased
<1> QED
  BY <1>3, <1>4 DEF DeletionsOK

LEMMA ReadLocalErases ==
    ASSUME DevicesAssumption, BInv, NEW d \in Device, DeletionsOK(d),
           ReadLocal(d), UNCHANGED adoptionVars
    PROVE  DeletionsOK(d)'
<1>1. /\ row' = row /\ state' = state /\ wire' = wire /\ session' = session
      /\ erased' = erased
  BY DEF ReadLocal, adoptionVars
<1>2. /\ run[d].phase = "reading" /\ run'[d].phase = "reading"
      /\ run'[d].page = run[d].page
      /\ run'[d].owed = run[d].owed /\ run'[d].out = run[d].out
      /\ run'[d].unread = run[d].unread \ NextTable(d)
      /\ run'[d].local = [k \in Key |-> IF k \in NextTable(d) THEN row[d][k]
                                                          ELSE run[d].local[k]]
  BY AdoptionTypes, ReadLocalRun
<1>3. ~Leaving(d)
  BY <1>2, AdoptionTypes DEF SessionOK
<1>4. ReadErased(d)'
  <2>1. ASSUME NEW k \in Key \ (erased \cup run'[d].unread)
        PROVE  /\ state[d][k].body # NoBody => run'[d].local[k] # NoBody
               /\ run'[d].local[k] # NoBody => row[d][k] # NoBody
    <3>1. CASE k \in NextTable(d)
      BY <1>2, <1>3, <3>1 DEF DeletionsOK, RowErased
    <3>2. CASE k \notin NextTable(d)
      <4>1. k \in Key \ (erased \cup run[d].unread) /\ run'[d].local[k] = run[d].local[k]
        BY <1>2, <2>1, <3>2
      <4> QED
        BY <1>2, <4>1 DEF DeletionsOK, ReadErased
    <3> QED
      BY <3>1, <3>2
  <2> QED
    BY <1>1, <2>1 DEF ReadErased
<1>5. PageErased(d)' /\ RowErased(d)' /\ SentErased(d)'
  BY <1>1, <1>2 DEF DeletionsOK, PageErased, RowErased, SentErased, Leaving, Tombstone
<1>6. OwedErased(d)' /\ OutErased(d)'
  BY <1>1, <1>2 DEF DeletionsOK, OwedErased, OutErased
<1> QED
  BY <1>4, <1>5, <1>6 DEF DeletionsOK

LEMMA ReadStatesErases ==
    ASSUME DevicesAssumption, BInv, NEW d \in Device, DeletionsOK(d),
           ReadStates(d), UNCHANGED adoptionVars
    PROVE  DeletionsOK(d)'
<1>1. /\ row' = row /\ state' = state /\ wire' = wire /\ session' = session
      /\ erased' = erased
  BY DEF ReadStates, adoptionVars
<1>2. /\ run[d].phase = "reading" /\ run[d].unread = {} /\ run'[d].phase = "push"
      /\ run'[d].page = Nothing /\ run'[d].out = {}
      /\ run'[d].owed = Owed(run[d].local, state[d])
  BY AdoptionTypes, ReadStatesRun
<1>3. ASSUME NEW x \in run'[d].owed
      PROVE  /\ x.key \in Key /\ x.body = run[d].local[x.key]
             /\ x = [key |-> x.key, body |-> run[d].local[x.key]]
             /\ x.body # state[d][x.key].body
  BY <1>2 DEF Owed
<1>4. ASSUME NEW x \in run'[d].owed, x.key \notin erased
      PROVE  x.body # NoBody /\ row[d][x.key] # NoBody
  <2>1. x.key \in Key \ (erased \cup run[d].unread)
    BY <1>2, <1>3, <1>4
  <2>2. /\ state[d][x.key].body # NoBody => run[d].local[x.key] # NoBody
        /\ run[d].local[x.key] # NoBody => row[d][x.key] # NoBody
    BY <1>2, <2>1 DEF DeletionsOK, ReadErased
  <2> QED
    BY <1>3, <2>2
<1>5. PageErased(d)' /\ RowErased(d)' /\ ReadErased(d)'
  BY <1>1, <1>2, NothingTyped
  DEF DeletionsOK, PageErased, RowErased, ReadErased, Leaving, Tombstone, Nothing
<1>6. SentErased(d)'
  BY <1>1, <1>2, <1>4 DEF DeletionsOK, SentErased
<1>7. OwedErased(d)'
  <2>1. ASSUME NEW x \in run'[d].owed, NEW y \in run'[d].owed, x.key = y.key
        PROVE  x = y
    BY <1>3, <2>1
  <2> QED
    BY <1>1, <1>4, <2>1 DEF OwedErased
<1>8. OutErased(d)'
  BY <1>2 DEF OutErased
<1> QED
  BY <1>5, <1>6, <1>7, <1>8 DEF DeletionsOK

LEMMA PushErases ==
    ASSUME DevicesAssumption, BInv, NEW d \in Device, DeletionsOK(d),
           Push(d), UNCHANGED adoptionVars
    PROVE  DeletionsOK(d)'
<1>1. /\ row' = row /\ state' = state /\ session' = session /\ erased' = erased
  BY DEF Push, adoptionVars
<1>2. /\ run'[d].phase = "sent" /\ run'[d].page = run[d].page
      /\ \E x \in run[d].owed : /\ run'[d].owed = run[d].owed \ {x}
                                /\ run'[d].out = {x} /\ wire'[d] = {x}
  BY AdoptionTypes, PushRun
<1>3. PICK x \in run[d].owed : /\ run'[d].owed = run[d].owed \ {x}
                               /\ run'[d].out = {x} /\ wire'[d] = {x}
  BY <1>2
<1>4. PageErased(d)' /\ RowErased(d)' /\ ReadErased(d)'
  BY <1>1, <1>2 DEF DeletionsOK, PageErased, RowErased, ReadErased, Leaving, Tombstone
<1>5. SentErased(d)' /\ OwedErased(d)'
  BY <1>1, <1>3 DEF DeletionsOK, SentErased, OwedErased
<1>6. OutErased(d)'
  BY <1>1, <1>3 DEF DeletionsOK, OwedErased, OutErased
<1> QED
  BY <1>4, <1>5, <1>6 DEF DeletionsOK

LEMMA DoneErases ==
    ASSUME DevicesAssumption, BInv, NEW d \in Device, DeletionsOK(d),
           Done(d), UNCHANGED adoptionVars
    PROVE  DeletionsOK(d)'
<1>1. /\ row' = row /\ state' = state /\ wire' = wire /\ session' = session
      /\ erased' = erased /\ run'[d] = NoRun
  BY AdoptionTypes, Typed DEF Done, adoptionVars
<1>2. RowErased(d)'
  BY <1>1 DEF DeletionsOK, RowErased, Leaving
<1> QED
  BY <1>1, <1>2, DeletionsAtRest

LEMMA ConfirmPushedErases ==
    ASSUME DevicesAssumption, BInv, NEW d \in Device, DeletionsOK(d),
           ConfirmPushed(d), UNCHANGED adoptionVars
    PROVE  DeletionsOK(d)'
<1>0. TypeOK /\ BrowserOK(d)
  BY AdoptionTypes
<1>1. /\ wire' = wire /\ session' = session /\ erased' = erased
  BY DEF ConfirmPushed, adoptionVars
<1>2. /\ run[d].phase = "answered" /\ run'[d].phase = "confirmed"
      /\ run'[d].page = run[d].page
      /\ run'[d].owed = run[d].owed /\ run'[d].out = run[d].out
  BY <1>0, ConfirmPushedRun
<1>3. PICK x \in run[d].out :
         \/ /\ x.body = NoBody
            /\ state' = [state EXCEPT ![d][x.key] = Absent]
            /\ row' = row
         \/ /\ x.body # NoBody
            /\ state' = [state EXCEPT ![d][x.key] = Absent]
            /\ row' = [row EXCEPT ![d][x.key] = NoBody]
         \/ row' = row /\ state' = state
         \/ /\ x.body # NoBody
            /\ state' = [state EXCEPT ![d][x.key] = ConfirmedAs(d, x)]
            /\ row' = row
  BY DEF ConfirmPushed
<1>4. x.key \in Key
  <2>1. run[d].out \subseteq Outgoing
    BY <1>0, Typed DEF RunState
  <2> QED
    BY <2>1 DEF Outgoing
<1>5. /\ row[d][x.key] = NoBody /\ x.body # NoBody => x.key \in erased
      /\ \A y \in run[d].owed : y.key # x.key
  BY <1>2 DEF DeletionsOK, OutErased
<1>6. \A k \in Key : k # x.key => row'[d][k] = row[d][k] /\ state'[d][k] = state[d][k]
  <2>1. row \in [Device -> [Key -> Body \cup {NoBody}]]
    BY <1>0 DEF TypeOK
  <2>2. state \in [Device -> [Key -> {e \in Entry : e = Absent \/ e.body \in Body}]]
    BY <1>0 DEF TypeOK
  <2>3. \A k \in Key : k # x.key => row'[d][k] = row[d][k]
    BY <1>3, <1>4, <2>1
  <2>4. \A k \in Key : k # x.key => state'[d][k] = state[d][k]
    BY <1>3, <1>4, <2>2
  <2> QED
    BY <2>3, <2>4
<1>7. \/ state'[d][x.key] = Absent
      \/ row'[d][x.key] = row[d][x.key] /\ state'[d][x.key] = state[d][x.key]
      \/ row'[d][x.key] = row[d][x.key] /\ x.body # NoBody
  BY <1>0, <1>3, <1>4 DEF TypeOK
<1>8. RowErased(d)'
  <2> SUFFICES ASSUME NEW k \in Key \ erased, row'[d][k] = NoBody, state'[d][k].body # NoBody
               PROVE  Leaving(d)
    BY <1>1 DEF RowErased, Leaving
  <2>1. CASE k = x.key
    BY <1>5, <1>7, <2>1, NothingTyped DEF DeletionsOK, RowErased
  <2>2. CASE k # x.key
    BY <1>6, <2>2 DEF DeletionsOK, RowErased
  <2> QED
    BY <2>1, <2>2
<1>9. PageErased(d)' /\ ReadErased(d)' /\ SentErased(d)'
  BY <1>1, <1>2 DEF DeletionsOK, PageErased, ReadErased, SentErased, Tombstone
<1>10. OwedErased(d)'
  <2>1. \A y \in run[d].owed : y.key \in Key /\ row'[d][y.key] = row[d][y.key]
    <3>1. run[d].owed \subseteq Outgoing
      BY <1>0, Typed DEF RunState
    <3> QED
      BY <1>5, <1>6, <3>1 DEF Outgoing
  <2> QED
    BY <1>1, <1>2, <2>1 DEF DeletionsOK, OwedErased
<1>11. OutErased(d)'
  BY <1>2 DEF DeletionsOK, OutErased
<1> QED
  BY <1>8, <1>9, <1>10, <1>11 DEF DeletionsOK

LEMMA AdvanceCursorErases ==
    ASSUME DevicesAssumption, BInv, NEW d \in Device, DeletionsOK(d),
           AdvanceCursor(d), UNCHANGED adoptionVars
    PROVE  DeletionsOK(d)'
<1>1. /\ row' = row /\ state' = state /\ wire' = wire /\ session' = session
      /\ erased' = erased
  BY DEF AdvanceCursor, adoptionVars
<1>2. /\ run'[d].phase = "push" /\ run'[d].page = run[d].page
      /\ run'[d].owed = run[d].owed /\ run'[d].out = {}
  BY AdoptionTypes, AdvanceCursorRun
<1>3. PageErased(d)' /\ RowErased(d)' /\ ReadErased(d)' /\ SentErased(d)'
  BY <1>1, <1>2
  DEF DeletionsOK, PageErased, RowErased, ReadErased, SentErased, Leaving, Tombstone
<1>4. OwedErased(d)' /\ OutErased(d)'
  BY <1>1, <1>2 DEF DeletionsOK, OwedErased, OutErased
<1> QED
  BY <1>3, <1>4 DEF DeletionsOK

LEMMA StepErases ==
    ASSUME DevicesAssumption, BInv, NEW d \in Device, DeletionsOK(d),
           Step(d), UNCHANGED adoptionVars
    PROVE  DeletionsOK(d)'
  BY ApplyPulledErases, WriteCursorErases, ReadLocalErases, ReadStatesErases, PushErases,
     DoneErases, ConfirmPushedErases, AdvanceCursorErases DEF Step

(* What arrives is written, and only a user's deletion arrives as one.      *)
LEMMA ArrivalErases ==
    ASSUME DevicesAssumption, BInv, NEW d \in Device, Arrive(d), UNCHANGED adoptionVars,
           DeletedByUsers, \A e \in Device : DeletionsOK(e)
    PROVE  DeletedByUsers' /\ \A e \in Device : DeletionsOK(e)'
<1>1. /\ row' = row /\ state' = state /\ session' = session /\ erased' = erased
      /\ wire' = [wire EXCEPT ![d] = {}]
      /\ record \in [Key -> Entry] /\ wire \in [Device -> SUBSET Outgoing]
  BY AdoptionTypes DEF Arrive, adoptionVars, TypeOK
<1>2. ASSUME NEW k \in Key, Tombstone(record'[k]) PROVE k \in erased
  <2>1. PICK out \in wire[d] : \E answer \in Answer : Store(out, answer)
    BY DEF Arrive
  <2>2. \/ record' = record
        \/ record' = [record EXCEPT ![out.key] =
                         [revision |-> revision + 1, body |-> out.body]]
    BY <2>1 DEF Store
  <2>3. CASE record'[k] = record[k]
    BY <1>2, <2>3 DEF DeletedByUsers
  <2>4. CASE record'[k] # record[k]
    <3>1. k = out.key /\ record'[k].body = out.body
      BY <1>1, <2>2, <2>4
    <3>2. out.body = NoBody
      BY <1>2, <3>1 DEF Tombstone
    <3> QED
      BY <3>1, <3>2 DEF DeletionsOK, SentErased
  <2> QED
    BY <2>3, <2>4
<1>3. ASSUME NEW e \in Device PROVE DeletionsOK(e)'
  <2>0. DeletionsOK(e) /\ wire'[e] \subseteq wire[e]
    BY <1>1
  <2>1. \/ run'[e] = run[e]
        \/ /\ run[e].phase = "sent" /\ run'[e].phase = "answered"
           /\ run'[e].page = run[e].page
           /\ run'[e].owed = run[e].owed /\ run'[e].out = run[e].out
    BY ArriveKeeps DEF BInv
  <2>2. CASE run'[e] = run[e]
    BY <1>1, <2>0, <2>2, DeletionsStay DEF Leaving
  <2>3. CASE /\ run[e].phase = "sent" /\ run'[e].phase = "answered"
             /\ run'[e].page = run[e].page
             /\ run'[e].owed = run[e].owed /\ run'[e].out = run[e].out
    <3>1. PageErased(e)' /\ RowErased(e)' /\ ReadErased(e)' /\ SentErased(e)'
      BY <1>1, <2>0, <2>3
      DEF DeletionsOK, PageErased, RowErased, ReadErased, SentErased, Leaving, Tombstone
    <3>2. OwedErased(e)' /\ OutErased(e)'
      BY <1>1, <2>0, <2>3 DEF DeletionsOK, OwedErased, OutErased
    <3> QED
      BY <3>1, <3>2 DEF DeletionsOK
  <2> QED
    BY <2>1, <2>2, <2>3
<1> QED
  BY <1>1, <1>2, <1>3 DEF DeletedByUsers

LEMMA UnauthorisedErases ==
    ASSUME DevicesAssumption, BInv, NEW d \in Device, DeletionsOK(d),
           Unauthorised(d) \/ Vanish(d), UNCHANGED adoptionVars
    PROVE  DeletionsOK(d)'
<1>1. /\ row' = row /\ state' = state /\ session' = session /\ erased' = erased
      /\ wire'[d] \subseteq wire[d]
      /\ run'[d] = run[d] \/ run'[d] = NoRun
  BY AdoptionTypes, Typed DEF Unauthorised, Vanish, adoptionVars, TypeOK
<1>2. CASE run'[d] = run[d]
  BY <1>1, <1>2, DeletionsStay DEF Leaving
<1>3. CASE run'[d] = NoRun
  <2>1. RowErased(d)'
    BY <1>1 DEF DeletionsOK, RowErased, Leaving
  <2> QED
    BY <1>1, <1>3, <2>1, DeletionsAtRest
<1> QED
  BY <1>1, <1>2, <1>3

(* What every step at d does for the other browsers.                        *)
LEMMA SynchroniseElsewhere ==
    ASSUME BInv, NEW d \in Device, NEW e \in Device \ {d},
           Synchronise(d), ~Arrive(d)
    PROVE  /\ run'[e] = run[e] /\ row'[e] = row[e] /\ state'[e] = state[e]
           /\ wire'[e] = wire[e] /\ cursor'[e] = cursor[e]
           /\ record' = record /\ revision' = revision
<1>1. CASE Pull(d) \/ Step(d)
  BY <1>1, StepIsLocal, AdoptionTypes
<1>2. CASE Unauthorised(d) \/ Vanish(d)
  <2>1. wire'[e] = wire[e] /\ run'[e] = run[e]
    BY <1>2, AdoptionTypes, Typed DEF Unauthorised, Vanish, TypeOK
  <2> QED
    BY <1>2, <2>1 DEF Unauthorised, Vanish
<1> QED
  BY <1>1, <1>2 DEF Synchronise

LEMMA SynchroniseErases ==
    ASSUME DevicesAssumption, BInv, NEW d \in Device, Synchronise(d),
           DeletedByUsers, \A e \in Device : DeletionsOK(e)
    PROVE  DeletedByUsers' /\ \A e \in Device : DeletionsOK(e)'
<1>0. UNCHANGED adoptionVars /\ session' = session /\ erased' = erased
  BY DEF Synchronise, adoptionVars
<1>1. CASE Arrive(d)
  BY <1>0, <1>1, ArrivalErases
<1>2. CASE ~Arrive(d)
  <2>1. DeletionsOK(d)'
    BY <1>0, <1>2, PullErases, StepErases, UnauthorisedErases DEF Synchronise
  <2>2. ASSUME NEW e \in Device \ {d} PROVE DeletionsOK(e)'
    BY <1>0, <1>2, SynchroniseElsewhere, DeletionsStay DEF Leaving
  <2>3. record' = record
    BY <1>2 DEF Synchronise, Pull, Step, ApplyPulled, WriteCursor, ReadLocal, ReadStates, Push,
                Done, ConfirmPushed, AdvanceCursor, Unauthorised, Vanish
  <2> QED
    BY <1>0, <2>1, <2>2, <2>3 DEF DeletedByUsers
<1> QED
  BY <1>1, <1>2

(* --- the session -------------------------------------------------------- *)
(* What a step of d's session leaves alone, at d and at the others.         *)
SessionStep(d) == \/ SignIn(d) \/ Switch(d) \/ Stage(d) \/ Ask(d) \/ Cancel(d) \/ Accept(d)
                  \/ Revoke(d) \/ SwitchOff(d) \/ Release(d) \/ Drop(d) \/ Clear(d) \/ Crash(d)

LEMMA SessionElsewhere ==
    ASSUME BInv, NEW d \in Device, SessionStep(d)
    PROVE  /\ record' = record /\ revision' = revision /\ wire' = wire /\ erased' = erased
           /\ \A e \in Device \ {d} :
                /\ run'[e] = run[e] /\ row'[e] = row[e] /\ state'[e] = state[e]
                /\ cursor'[e] = cursor[e] /\ session'[e] = session[e]
           /\ ~Crash(d) => run' = run /\ torn' = torn
<1>1. /\ session \in [Device -> SessionState] /\ run \in [Device -> RunState]
      /\ row \in [Device -> [Key -> Body \cup {NoBody}]]
      /\ state \in [Device -> [Key -> {x \in Entry : x = Absent \/ x.body \in Body}]]
      /\ cursor \in [Device -> 0..MaxRevision]
  BY AdoptionTypes, Typed DEF BInv, AdoptionTyped, TypeOK
<1>2. CASE SignIn(d) \/ Drop(d)
  BY <1>1, <1>2 DEF SignIn, Drop, Crash
<1>3. CASE Switch(d) \/ Stage(d) \/ Ask(d) \/ Cancel(d) \/ Revoke(d) \/ SwitchOff(d)
  BY <1>1, <1>3 DEF Switch, Stage, Ask, Cancel, Revoke, SwitchOff, vars
<1>4. CASE Accept(d)
  BY <1>1, <1>4 DEF Accept
<1>5. CASE Release(d) \/ Clear(d)
  BY <1>1, <1>5 DEF Release, Clear
<1>6. CASE Crash(d)
  BY <1>1, <1>6 DEF Crash
<1> QED
  BY <1>2, <1>3, <1>4, <1>5, <1>6 DEF SessionStep

LEMMA SessionErases ==
    ASSUME DevicesAssumption, BInv, NEW d \in Device, SessionStep(d), DeletionsOK(d),
           torn' = {}
    PROVE  DeletionsOK(d)'
<1>0. /\ session \in [Device -> SessionState] /\ session[d] \in SessionState
      /\ TypeOK /\ SessionOK(d) /\ row[d] \in [Key -> Body \cup {NoBody}]
  BY AdoptionTypes DEF BInv, AdoptionTyped, TypeOK
<1>1. wire' = wire /\ erased' = erased /\ (~Crash(d) => run' = run)
  BY SessionElsewhere
<1>2. CASE SignIn(d) \/ Switch(d) \/ Revoke(d) \/ SwitchOff(d)
  <2>1. row' = row /\ state' = state /\ run' = run /\ ~Leaving(d)
    BY <1>2 DEF SignIn, Switch, Revoke, SwitchOff, AtHome, Leaving, vars
  <2> QED
    BY <1>1, <2>1, DeletionsStay
<1>3. CASE Stage(d) \/ Ask(d) \/ Cancel(d)
  <2>1. row' = row /\ state' = state /\ run' = run /\ session' = session
    BY <1>3 DEF Stage, Ask, Cancel, vars
  <2> QED
    BY <1>1, <2>1, DeletionsStay DEF Leaving
<1>4. CASE Accept(d)
  <2>1. ASSUME NEW k \in Key \ erased, row'[d][k] = NoBody, state'[d][k].body # NoBody
        PROVE  FALSE
    <3>1. ~Leaving(d) /\ plan[d].phase # "none" /\ NoBody \notin Body
      BY <1>4 DEF Accept, AtHome, Leaving, DevicesAssumption
    <3>2. CASE Writes(d, k)
      BY <1>4, <2>1, <3>1, <3>2, AcceptMoves, PlannedTyped
    <3>3. CASE ~Writes(d, k)
      BY <1>4, <2>1, <3>1, <3>3, AcceptMoves DEF DeletionsOK, RowErased
    <3> QED
      BY <3>2, <3>3
  <2>2. RowErased(d)'
    BY <1>1, <2>1 DEF RowErased
  <2>3. run'[d] = NoRun
    BY <1>4, AcceptMoves DEF Accept
  <2> QED
    BY <1>1, <2>2, <2>3, DeletionsAtRest
<1>5. CASE Release(d) \/ Clear(d)
  <2>1. run'[d] = NoRun
    BY <1>0, <1>5 DEF Release, Clear, RunEnded, SessionOK, Leaving
  <2>2. RowErased(d)'
    <3>1. CASE Release(d)
      <4>1. session'[d].leaving = "released"
        BY <1>0, <3>1 DEF Release, SessionState
      <4> QED
        BY <4>1 DEF RowErased, Leaving
    <3>2. CASE Clear(d)
      <4>1. \A k \in Key : state'[d][k] = Absent
        BY <1>0, <3>2 DEF Clear, Nothing, TypeOK
      <4> QED
        BY <4>1, NothingTyped DEF RowErased
    <3> QED
      BY <1>5, <3>1, <3>2
  <2> QED
    BY <1>1, <2>1, <2>2, DeletionsAtRest
<1>6. CASE Drop(d)
  <2>1. row' = row /\ state' = state /\ run' = run
    BY <1>6 DEF Drop
  <2>2. session'[d].leaving = "dropped"
    BY <1>0, <1>6 DEF Drop, Guest
  <2> QED
    BY <1>1, <2>1, <2>2, DeletionsStay DEF Leaving
<1>7. CASE Crash(d)
  <2>1. row' = row /\ state' = state /\ run'[d] = NoRun
    BY <1>0, <1>7, Typed DEF Crash
  <2>2. ~Leaving(d)
    BY <1>7 DEF Crash, Leaving
  <2>3. RowErased(d)'
    BY <1>1, <2>1, <2>2 DEF DeletionsOK, RowErased
  <2> QED
    BY <1>1, <2>1, <2>3, DeletionsAtRest
<1> QED
  BY <1>2, <1>3, <1>4, <1>5, <1>6, <1>7 DEF SessionStep

LEMMA NextIs ==
    ASSUME NextAdoption
    PROVE  \E d \in Device : Play(d) \/ Synchronise(d) \/ SessionStep(d)
  BY DEF NextAdoption, SessionStep, SignOut

LEMMA ENext ==
    ASSUME DevicesAssumption, BInv, EInv, [NextAdoption]_allVars
    PROVE  EInv'
<1> SUFFICES ASSUME torn' = {}
             PROVE  DeletedByUsers' /\ \A e \in Device : DeletionsOK(e)'
  BY DEF EInv
<1>1. CASE UNCHANGED allVars
  <2>1. /\ UNCHANGED <<record, row, state, run, wire>> /\ UNCHANGED <<session, erased, torn>>
    BY <1>1 DEF allVars, vars, adoptionVars
  <2>2. DeletedByUsers /\ \A e \in Device : DeletionsOK(e)
    BY <2>1 DEF EInv
  <2>3. ASSUME NEW e \in Device PROVE DeletionsOK(e)'
    BY <2>1, <2>2, DeletionsStay DEF Leaving
  <2> QED
    BY <2>1, <2>2, <2>3 DEF DeletedByUsers
<1>2. CASE NextAdoption
  <2>1. PICK d \in Device : Play(d) \/ Synchronise(d) \/ SessionStep(d)
    BY <1>2, NextIs
  <2>2. torn = {}
    <3>1. torn' = torn \/ Crash(d)
      BY <2>1, SessionElsewhere DEF Play, Synchronise, adoptionVars
    <3> QED
      BY <3>1 DEF Crash
  <2>3. DeletedByUsers /\ \A e \in Device : DeletionsOK(e)
    BY <2>2 DEF EInv
  <2>4. CASE Play(d)
    <3>1. /\ record' = record /\ erased \subseteq erased' /\ session' = session
          /\ run' = run /\ state' = state /\ wire' = wire
          /\ \A e \in Device \ {d} : row'[e] = row[e]
      BY <2>4, AdoptionTypes DEF Play, Edit, TypeOK
    <3>2. ASSUME NEW e \in Device \ {d} PROVE DeletionsOK(e)'
      BY <2>3, <3>1, DeletionsStay DEF Leaving
    <3>3. DeletionsOK(d)'
      BY <2>3, <2>4, PlayErases
    <3> QED
      BY <2>3, <3>1, <3>2, <3>3 DEF DeletedByUsers
  <2>5. CASE Synchronise(d)
    BY <2>3, <2>5, SynchroniseErases
  <2>6. CASE SessionStep(d)
    <3>1. ASSUME NEW e \in Device \ {d} PROVE DeletionsOK(e)'
      BY <2>3, <2>6, SessionElsewhere, DeletionsStay DEF Leaving
    <3>2. DeletionsOK(d)'
      BY <2>3, <2>6, SessionErases
    <3>3. record' = record /\ erased' = erased
      BY <2>6, SessionElsewhere
    <3> QED
      BY <2>3, <3>1, <3>2, <3>3 DEF DeletedByUsers
  <2> QED
    BY <2>1, <2>4, <2>5, <2>6
<1> QED
  BY <1>1, <1>2

(* Whatever the network does at sign-out, whatever run was under way and    *)
(* however often a browser signs in and adopts: a record is deleted from    *)
(* the account only if a user deleted it on some browser, as long as no     *)
(* sign-out was cut short between its last writes (resetSync), and a plan   *)
(* is only there while a browser that adopted nothing is being asked.       *)
THEOREM AdoptionOnlyUsersDelete == SpecAdoption => []OnlyUsersDelete
<1>1. InitAdoption => EInv
  BY DevicesAssumption, EInit
<1>2. BInv /\ EInv /\ [NextAdoption]_allVars => EInv'
  BY DevicesAssumption, ENext
<1>3. BInv /\ EInv => OnlyUsersDelete
  <2> SUFFICES ASSUME BInv, EInv PROVE OnlyUsersDelete
    OBVIOUS
  <2>1. TypeOK /\ (torn = {} => DeletedByUsers)
    BY AdoptionTypes DEF EInv
  <2>2. SessionTypeOK
    <3>1. session \in [Device -> SessionState]
      BY DEF BInv, AdoptionTyped
    <3>2. ASSUME NEW d \in Device
          PROVE  /\ plan[d].phase \in {"none", "staged", "asking"}
                 /\ plan[d].phase # "none" => session[d].signedIn /\ ~session[d].adopted
                 /\ session[d].leaving \in {"released", "dropped"} => run[d].phase = "idle"
      BY AdoptionTypes DEF PlanState, SessionOK, Leaving
    <3> QED
      BY <3>1, <3>2 DEF SessionTypeOK, SessionState
  <2> QED
    BY <2>1, <2>2 DEF OnlyUsersDelete
<1> QED
  BY <1>1, <1>2, <1>3, AlwaysAtHome, PTL DEF SpecAdoption

-----------------------------------------------------------------------------
(* What the cursor covers, across sign-ins: a browser that signs in starts  *)
(* from nothing, and one that adopts from what it staged.                   *)
LEMMA CInit == DevicesAssumption /\ InitAdoption => CInv
<1> SUFFICES ASSUME DevicesAssumption, InitAdoption PROVE CInv
  OBVIOUS
<1>1. \A d \in Device : CoversOK(d) /\ state[d] = Nothing
  BY HInit DEF InitAdoption, Init
<1> QED
  BY <1>1 DEF CInv, FreshOK

(* A browser at rest whose cursor is at nothing.                            *)
LEMMA CoversNothing ==
    ASSUME HInv', NEW d \in Device, run'[d].phase = "idle", cursor'[d] = 0
    PROVE  CoversOK(d)'
<1>1. BatchOK(d)' /\ revision' \in Nat
  BY DEF HInv, BrowserOK, TypeOK
<1>2. run'[d].out = {}
  BY <1>1 DEF BatchOK, Flying
<1> QED
  BY <1>1, <1>2 DEF CoversOK

LEMMA AcceptCovers ==
    ASSUME DevicesAssumption, BInv, NEW d \in Device, Accept(d), FreshOK(d)
    PROVE  CoversOK(d)' /\ FreshOK(d)'
<1>0. /\ PlanOK(d) /\ TypeOK /\ RecordsOK /\ plan[d] \in PlanState
      /\ plan[d].phase = "asking" /\ run[d] = NoRun
      /\ run' = run /\ record' = record /\ revision' = revision
      /\ session \in [Device -> SessionState]
  BY AdoptionTypes, AcceptMoves DEF Accept, BInv, AdoptionTyped
<1>1. cursor'[d] = plan[d].version /\ plan[d].version <= revision
      /\ plan[d].version \in Nat
  BY <1>0 DEF Accept, PlanOK, TypeOK, PlanState
<1>2. state[d] = Nothing
  BY AcceptMoves DEF FreshOK, Accept, AtHome
<1>3. ASSUME NEW k \in Key, record[k].revision \in 1..plan[d].version
      PROVE  Told(d, k)'
  <2>1. plan[d].staged[k] = record[k] /\ record[k].revision > 0
    BY <1>0, <1>1, <1>3 DEF PlanOK
  <2>2. CASE Writes(d, k)
    BY <1>0, <2>1, <2>2, AcceptMoves DEF Told, Writes, PlannedState, Tombstone
  <2>3. CASE ~Writes(d, k)
    BY <1>0, <1>2, <2>1, <2>3, AcceptMoves DEF Told, Writes, Tombstone, Nothing
  <2> QED
    BY <2>2, <2>3
<1>4. run'[d].phase = "idle" /\ run'[d].out = {}
  BY <1>0, NoRunIs
<1>5. CoversOK(d)'
  BY <1>0, <1>1, <1>3, <1>4 DEF CoversOK
<1>6. session'[d].adopted
  BY <1>0 DEF Accept, SessionState
<1> QED
  BY <1>5, <1>6 DEF FreshOK

LEMMA SessionCovers ==
    ASSUME DevicesAssumption, BInv, HInv', NEW d \in Device, SessionStep(d), d \notin torn',
           CoversOK(d), FreshOK(d)
    PROVE  CoversOK(d)' /\ FreshOK(d)'
<1>0. /\ session \in [Device -> SessionState] /\ session[d] \in SessionState
      /\ cursor \in [Device -> 0..MaxRevision]
      /\ state \in [Device -> [Key -> {x \in Entry : x = Absent \/ x.body \in Body}]]
      /\ SessionOK(d) /\ TypeOK
  BY AdoptionTypes DEF BInv, AdoptionTyped, TypeOK
<1>1. record' = record /\ revision' = revision /\ (~Crash(d) => run' = run)
  BY SessionElsewhere
<1>2. CASE Switch(d) \/ Stage(d) \/ Ask(d) \/ Cancel(d) \/ Revoke(d) \/ SwitchOff(d)
  <2>1. state' = state /\ cursor' = cursor /\ run' = run
    BY <1>2 DEF Switch, Stage, Ask, Cancel, Revoke, SwitchOff, vars
  <2>2. \/ session'[d].adopted = session[d].adopted /\ session[d].leaving # "dropped"
        \/ session' = session
    <3>1. CASE Stage(d) \/ Ask(d) \/ Cancel(d)
      BY <3>1 DEF Stage, Ask, Cancel
    <3>2. CASE Switch(d) \/ SwitchOff(d)
      BY <1>0, <3>2 DEF Switch, SwitchOff, AtHome, SessionState
    <3>3. CASE Revoke(d)
      <4>1. PICK reached \in BOOLEAN :
               session' = [session EXCEPT ![d].leaving = "revoked",
                                          ![d].valid = @ /\ ~reached]
        BY <3>3 DEF Revoke
      <4>2. session'[d].adopted = session[d].adopted
        BY <1>0, <4>1 DEF SessionState
      <4> QED
        BY <3>3, <4>2 DEF Revoke
    <3> QED
      BY <1>2, <3>1, <3>2, <3>3
  <2> QED
    BY <1>1, <2>1, <2>2, Uncovered DEF FreshOK
<1>3. CASE SignIn(d)
  <2>1. run'[d].phase = "idle" /\ state[d] = Nothing /\ cursor'[d] = 0 /\ state' = state
    BY <1>0, <1>3 DEF SignIn, SessionOK, FreshOK
  <2> QED
    BY <2>1, CoversNothing DEF FreshOK
<1>4. CASE Accept(d)
  BY <1>4, AcceptCovers
<1>5. CASE Release(d)
  <2>1. /\ state' = state /\ cursor' = cursor /\ run' = run
        /\ session[d].leaving = "off" /\ session'[d].adopted = session[d].adopted
    BY <1>0, <1>5 DEF Release, SessionState
  <2> QED
    BY <1>1, <2>1, Uncovered DEF FreshOK
<1>6. CASE Drop(d)
  <2>1. run'[d].phase = "idle" /\ cursor'[d] = 0 /\ session'[d].leaving = "dropped"
    BY <1>0, <1>6 DEF Drop, SessionOK, Leaving, Guest
  <2> QED
    BY <2>1, CoversNothing DEF FreshOK
<1>7. CASE Clear(d)
  <2>1. run'[d].phase = "idle" /\ cursor'[d] = 0 /\ state'[d] = Nothing
    BY <1>0, <1>7 DEF Clear, SessionOK, Leaving
  <2> QED
    BY <2>1, CoversNothing DEF FreshOK
<1>8. CASE Crash(d)
  <2>1. /\ state' = state /\ cursor' = cursor /\ run'[d] = NoRun
        /\ session'[d].adopted = session[d].adopted
    BY <1>0, <1>8, Typed DEF Crash, SessionState
  <2>2. session[d].leaving # "dropped"
    BY <1>8 DEF Crash
  <2>3. CoversOK(d)'
    BY <1>1, <2>1, CoversElse, NoRunIs
  <2> QED
    BY <2>1, <2>2, <2>3 DEF FreshOK
<1> QED
  BY <1>2, <1>3, <1>4, <1>5, <1>6, <1>7, <1>8 DEF SessionStep

LEMMA SynchroniseCovers ==
    ASSUME DevicesAssumption, BInv, HInv', "rejected" \notin Refusals, NEW d \in Device,
           Synchronise(d), NEW e \in Device, CoversOK(e), FreshOK(e)
    PROVE  CoversOK(e)' /\ FreshOK(e)'
<1>0. session' = session /\ HInv /\ TypeOK /\ SessionOK(d)
  BY AdoptionTypes DEF Synchronise, adoptionVars, BInv
<1>1. CASE Arrive(d)
  <2>1. /\ Grows /\ state' = state /\ cursor' = cursor
        /\ \/ run'[e] = run[e]
           \/ /\ run'[e].phase = "answered"
              /\ run'[e].answer.outcome = "applied" => run'[e].answer.revision > revision
    BY <1>0, <1>1, ArriveKeeps
  <2>2. CoversOK(e)'
    BY <1>0, <2>1, CoversGrow
  <2> QED
    BY <1>0, <2>1, <2>2 DEF FreshOK
<1>2. CASE ~Arrive(d) /\ e # d
  BY <1>0, <1>2, SynchroniseElsewhere, Uncovered DEF FreshOK
<1>3. CASE e = d /\ ((Pull(d) /\ Enabled(d)) \/ Step(d))
  <2>1. session[d].adopted
    BY <1>0, <1>3, StepMoves DEF Enabled, SessionOK
  <2> QED
    BY <1>0, <1>3, <2>1, StepCovers DEF FreshOK
<1>4. CASE e = d /\ (Unauthorised(d) \/ Vanish(d))
  <2>1. /\ record' = record /\ revision' = revision /\ state' = state /\ cursor' = cursor
        /\ run'[d] = run[d] \/ run'[d] = NoRun
    BY <1>0, <1>4, Typed DEF Unauthorised, Vanish
  <2>2. CoversOK(d)'
    BY <1>4, <2>1, Uncovered, CoversElse, NoRunIs
  <2> QED
    BY <1>0, <1>4, <2>1, <2>2 DEF FreshOK
<1> QED
  BY <1>1, <1>2, <1>3, <1>4 DEF Synchronise

LEMMA CNext ==
    ASSUME DevicesAssumption, "rejected" \notin Refusals, BInv, CInv, [NextAdoption]_allVars
    PROVE  CInv'
<1>0. HInv'
  BY BNext DEF BInv
<1> SUFFICES ASSUME NEW e \in Device, e \notin torn' PROVE CoversOK(e)' /\ FreshOK(e)'
  BY DEF CInv
<1>1. CASE UNCHANGED allVars
  <2>1. UNCHANGED <<record, revision, run, state, cursor, session, torn>>
    BY <1>1 DEF allVars, vars, adoptionVars
  <2>2. CoversOK(e) /\ FreshOK(e)
    BY <2>1 DEF CInv
  <2> QED
    BY <2>1, <2>2, Uncovered DEF FreshOK
<1>2. CASE NextAdoption
  <2>1. PICK d \in Device : Play(d) \/ Synchronise(d) \/ SessionStep(d)
    BY <1>2, NextIs
  <2>2. CoversOK(e) /\ FreshOK(e)
    <3>1. torn' = torn \/ Crash(d)
      BY <2>1, SessionElsewhere DEF Play, Synchronise, adoptionVars
    <3>2. e \notin torn
      BY <3>1 DEF Crash
    <3> QED
      BY <3>2 DEF CInv
  <2>3. CASE Play(d)
    <3>1. UNCHANGED <<record, revision, run, state, cursor, session>>
      BY <2>3 DEF Play, Edit
    <3> QED
      BY <2>2, <3>1, Uncovered DEF FreshOK
  <2>4. CASE Synchronise(d)
    BY <1>0, <2>2, <2>4, SynchroniseCovers
  <2>5. CASE SessionStep(d) /\ e = d
    BY <1>0, <2>2, <2>5, SessionCovers
  <2>6. CASE SessionStep(d) /\ e # d
    BY <2>2, <2>6, SessionElsewhere, Uncovered DEF FreshOK
  <2> QED
    BY <2>1, <2>3, <2>4, <2>5, <2>6
<1> QED
  BY <1>1, <1>2

(* However often it signed in, adopted, was interrupted and signed out      *)
(* before: a browser that synchronises, is at rest and owes nothing shows   *)
(* the account, if none of its sign-outs was cut short (applyAdoption,      *)
(* resetSync, syncOnce).                                                    *)
THEOREM AdoptionMeansEqual == "rejected" \notin Refusals => (SpecAdoption => []AdoptedMeansEqual)
<1> SUFFICES ASSUME "rejected" \notin Refusals PROVE SpecAdoption => []AdoptedMeansEqual
  OBVIOUS
<1>1. InitAdoption => CInv
  BY DevicesAssumption, CInit
<1>2. BInv /\ CInv /\ [NextAdoption]_allVars => CInv'
  BY DevicesAssumption, CNext
<1>3. BInv /\ CInv => AdoptedMeansEqual
  <2> SUFFICES ASSUME BInv, CInv, NEW d \in Device \ torn, NEW k \in Key, Clean(d),
                      record[k].revision <= cursor[d],
                      Rule[k] = "event" => row[d][k] # NoBody
               PROVE  row[d][k] = record[k].body
    BY DEF AdoptedMeansEqual
  <2>0. HInv /\ CoversOK(d)
    BY DEF BInv, CInv
  <2> QED
    BY <2>0, CoveredMeansEqual
<1> QED
  BY <1>1, <1>2, <1>3, AlwaysAtHome, PTL DEF SpecAdoption

(* Signing in, being asked, signing out and coming back do nothing to the   *)
(* account that the abstract feed does not.                                 *)
THEOREM AdoptionImplementsFeed == SpecAdoption => ImplementsFeed
<1>1. BInv /\ [NextAdoption]_allVars => [Feed!Next]_(Feed!feed)
  <2> SUFFICES ASSUME BInv, [NextAdoption]_allVars PROVE [Feed!Next]_(Feed!feed)
    OBVIOUS
  <2>1. ASSUME NEW d \in Device, Arrive(d) PROVE [Feed!Next]_(Feed!feed)
    BY <2>1, ArriveIsWrite DEF BInv
  <2>2. ASSUME NEW d \in Device, Synchronise(d), ~Arrive(d)
        PROVE  UNCHANGED <<revision, record>>
    <3>1. CASE Step(d)
      BY <3>1 DEF Step, ApplyPulled, WriteCursor, ReadLocal, ReadStates, Push, Done,
                  ConfirmPushed, AdvanceCursor
    <3> QED
      BY <2>2, <3>1 DEF Synchronise, Pull, Unauthorised, Vanish
  <2>3. ASSUME NEW d \in Device, SessionStep(d) PROVE UNCHANGED <<revision, record>>
    BY <2>3, SessionElsewhere
  <2>4. ASSUME NEW d \in Device, Play(d) PROVE UNCHANGED <<revision, record>>
    BY <2>4 DEF Play, Edit
  <2>5. CASE UNCHANGED allVars
    BY <2>5, AccountRests DEF allVars, vars
  <2> QED
    BY <2>1, <2>2, <2>3, <2>4, <2>5, AccountRests, NextIs
<1>2. InitAdoption => Feed!Init
  BY FeedInit DEF InitAdoption
<1> QED
  BY <1>1, <1>2, AlwaysAtHome, PTL DEF SpecAdoption, ImplementsFeed, Feed!Spec
=============================================================================

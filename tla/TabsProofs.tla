----------------------------- MODULE TabsProofs -----------------------------
(***************************************************************************)
(* What the tabs of one browser do together, for any number of them.       *)
(*                                                                         *)
(* First, the scheduling of synchronisation, with Web Locks and without: a *)
(* debt is never left without a timer, a write the account does not have   *)
(* is owed by some tab or being sent, and a tab with a stream has heard of *)
(* what the browser lacks, each but for the ways out that AutoSync names.  *)
(*                                                                         *)
(* Then, the game on the table, for any number of games, plays and posts:  *)
(* a game is in one place, what is called logged is on BoardGameGeek, and  *)
(* a screen makes no second copy of a play in the dark.  The games and the *)
(* posts are argued about apart: every step is first described by what it  *)
(* does to a tab's page and table (the ...Does lemmas), and each invariant *)
(* is carried over those descriptions.                                     *)
(***************************************************************************)
EXTENDS AutoSync, PlayTable, SequenceTheorems, FiniteSetTheorems, TLAPS

(* What a tab knows of its own debt.  A flush under way does not pay for    *)
(* what is owed since, so the timer must still be set; a run has seen no    *)
(* write that was not made, and one that waits for its answer has landed.   *)
Sound(s, made, landed, connected) ==
    /\ s.owed /\ s.flushing => s.timer # "none"
    /\ s.owed /\ connected => s.timer # "none" \/ s.flushing \/ s.retried
    /\ s.scanned <= made
    /\ s.run = "answer" => s.scanned <= landed

(* The flush of this tab is in time for every write.                        *)
InTime(s, made) ==
    /\ s.flushing
    /\ \/ s.run \in {"waiting", "pull", "scan"}
       \/ s.run = "push" /\ s.scanned = made

(* The flag on disk says somebody owes; without it, somebody is paying.     *)
Remembered ==
    /\ kept => \E t \in Tab : tab[t].owed
    /\ ~kept /\ edits > sent /\ excused = {} => \E t \in Tab : InTime(tab[t], edits)

IInv == /\ AutoTypeOK
        /\ \A t \in Tab : Sound(tab[t], edits, sent, online)
        /\ Remembered

-----------------------------------------------------------------------------
(* What the helpers return.                                                 *)
LEMMA JoinedIs ==
    ASSUME NEW s \in TabState
    PROVE  /\ Joined(s) \in TabState
           /\ Joined(s).run = IF s.run = "none" THEN "waiting" ELSE s.run
           /\ Joined(s).owed = s.owed
           /\ Joined(s).timer = s.timer
           /\ Joined(s).retried = s.retried
           /\ Joined(s).flushing = s.flushing
           /\ Joined(s).scanned = s.scanned
  BY DEF Joined, TabState

LEMMA OverIs ==
    ASSUME AutoAssumption, NEW s \in TabState, NEW failed \in BOOLEAN
    PROVE  /\ Over(s, failed) \in TabState
           /\ Over(s, failed).run = "none"
           /\ Over(s, failed).flushing = FALSE
           /\ Over(s, failed).scanned = 0
           /\ Over(s, failed).owed = (s.owed \/ (s.flushing /\ failed))
<1>1. 0 \in 0..MaxEdits
  BY DEF AutoAssumption
<1>2. CASE ~s.flushing
  BY <1>1, <1>2 DEF Over, TabState
<1>3. CASE s.flushing /\ failed
  BY <1>1, <1>3 DEF Over, Retried, TabState
<1>4. CASE s.flushing /\ ~failed
  BY <1>1, <1>4 DEF Over, TabState
<1> QED
  BY <1>2, <1>3, <1>4

Stream == [open : BOOLEAN, events : 0..Backlog]

LEMMA HeardIs ==
    ASSUME AutoAssumption, NEW e \in Stream
    PROVE  /\ Heard(e) \in Stream
           /\ Heard(e).open = e.open
           /\ e.events > 0 => Heard(e).events > 0
           /\ e.open => Heard(e).events > 0
  BY DEF Heard, Stream, AutoAssumption

LEMMA NotifiedIs ==
    ASSUME AutoAssumption, stream \in [Tab -> Stream]
    PROVE  Notified \in [Tab -> Stream]
  BY HeardIs DEF Notified

LEMMA LoadedIs ==
    ASSUME AutoAssumption, NEW owed \in BOOLEAN, NEW since \in 0..MaxEdits + MaxOthers
    PROVE  /\ Loaded(owed, since) \in TabState
           /\ Loaded(owed, since).run = "none"
           /\ Loaded(owed, since).owed = owed
           /\ Loaded(owed, since).timer = IF owed THEN "settle" ELSE "none"
           /\ Loaded(owed, since).flushing = FALSE
           /\ Loaded(owed, since).scanned = 0
  BY DEF Loaded, TabState, AutoAssumption

-----------------------------------------------------------------------------
LEMMA AutoInit == AutoAssumption /\ InitAuto => IInv
<1> SUFFICES ASSUME AutoAssumption, InitAuto PROVE IInv
  OBVIOUS
<1>1. Loaded(FALSE, 0) \in TabState /\ Loaded(FALSE, 0).run = "none"
      /\ Loaded(FALSE, 0).owed = FALSE /\ Loaded(FALSE, 0).scanned = 0
  <2>1. 0 \in 0..MaxEdits + MaxOthers
    BY DEF AutoAssumption
  <2> QED
    BY <2>1, LoadedIs
<1>2. \A t \in Tab : tab[t] = Loaded(FALSE, 0)
  BY DEF InitAuto
<1>3. AutoTypeOK
  <2>1. tab \in [Tab -> TabState]
    BY <1>1 DEF InitAuto
  <2>2. stream \in [Tab -> Stream]
    BY DEF InitAuto, NoStream, Stream, AutoAssumption
  <2>3. {0} \subseteq 0..MaxEdits /\ {0} \subseteq 0..MaxOthers /\ {0} \subseteq 0..MaxFaults
    BY DEF AutoAssumption
  <2>4. sent \in 0..edits /\ pulled \in 0..others
    BY DEF InitAuto
  <2> QED
    BY <2>1, <2>2, <2>3, <2>4 DEF AutoTypeOK, InitAuto, Stream
<1>5. \A t \in Tab : Sound(tab[t], edits, sent, online)
  <2>1. \A t \in Tab : ~tab[t].owed /\ tab[t].scanned = 0 /\ tab[t].run = "none"
    BY <1>1, <1>2
  <2>2. edits = 0 /\ 0 <= 0
    BY DEF InitAuto
  <2> QED
    BY <2>1, <2>2 DEF Sound
<1>6. Remembered
  <2>1. ~kept /\ ~(edits > sent)
    BY DEF InitAuto
  <2> QED
    BY <2>1 DEF Remembered
<1> QED
  BY <1>3, <1>5, <1>6 DEF IInv

-----------------------------------------------------------------------------
(* A step in which one tab moves, and what it knows stays sound, when no    *)
(* write is unmade and none is lost.                                        *)
LEMMA StaysSound ==
    ASSUME IInv, NEW t \in Tab, tab' \in [Tab -> TabState],
           \A u \in Tab \ {t} : tab'[u] = tab[u],
           edits' \in Nat, sent' \in Nat, edits <= edits', sent <= sent',
           online' = online,
           Sound(tab'[t], edits', sent', online')
    PROVE  \A u \in Tab : Sound(tab'[u], edits', sent', online')
<1> SUFFICES ASSUME NEW u \in Tab \ {t}
             PROVE  Sound(tab'[u], edits', sent', online')
  OBVIOUS
<1>1. Sound(tab[u], edits, sent, online)
  BY DEF IInv
<1>2. tab[u].scanned \in Nat /\ edits \in Nat /\ sent \in Nat
  BY DEF IInv, AutoTypeOK, TabState
<1> QED
  BY <1>1, <1>2 DEF Sound

(* A step in which one tab moves, that leaves the flag alone, does not clear *)
(* its debt and does not end a flush that somebody still counts on.          *)
LEMMA StaysRemembered ==
    ASSUME IInv, NEW t \in Tab,
           \A u \in Tab \ {t} : tab'[u] = tab[u],
           kept' = kept, edits' = edits, sent' \in Nat, sent <= sent', excused' = excused,
           tab[t].owed => tab'[t].owed,
           InTime(tab[t], edits) => InTime(tab'[t], edits) \/ edits <= sent'
    PROVE  Remembered'
<1>1. kept' => \E u \in Tab : tab'[u].owed
  <2>1. ASSUME kept' PROVE \E u \in Tab : tab'[u].owed
    <3>1. PICK u \in Tab : tab[u].owed
      BY <2>1 DEF IInv, Remembered
    <3> QED
      BY <3>1
  <2> QED
    BY <2>1
<1>2. ASSUME ~kept', edits' > sent', excused' = {}
      PROVE  \E u \in Tab : InTime(tab'[u], edits')
  <2>1. edits \in Nat /\ sent \in Nat
    BY DEF IInv, AutoTypeOK
  <2>2. edits > sent /\ ~(edits <= sent')
    BY <1>2, <2>1
  <2>3. PICK u \in Tab : InTime(tab[u], edits)
    BY <1>2, <2>2 DEF IInv, Remembered
  <2> QED
    BY <2>2, <2>3
<1> QED
  BY <1>1, <1>2 DEF Remembered

(* All of it: a step in which one tab moves within what it may do.          *)
LEMMA OneTabMoves ==
    ASSUME IInv, AutoTypeOK', NEW t \in Tab,
           \A u \in Tab \ {t} : tab'[u] = tab[u],
           edits <= edits', sent <= sent', online' = online,
           Sound(tab'[t], edits', sent', online'),
           Remembered'
    PROVE  IInv'
<1>2. tab' \in [Tab -> TabState] /\ edits' \in Nat /\ sent' \in Nat
  BY DEF AutoTypeOK
<1>3. \A u \in Tab : Sound(tab'[u], edits', sent', online')
  BY <1>2, StaysSound
<1> QED
  BY <1>3 DEF IInv

-----------------------------------------------------------------------------
LEMMA EditKeeps ==
    ASSUME AutoAssumption, IInv, NEW t \in Tab, Edit(t)
    PROVE  IInv'
<1>1. /\ tab' \in [Tab -> TabState]
      /\ \A u \in Tab \ {t} : tab'[u] = tab[u]
      /\ tab'[t].owed /\ tab'[t].timer = "settle" /\ tab'[t].run = tab[t].run
      /\ tab'[t].scanned = tab[t].scanned
  <2> DEFINE s == [tab[t] EXCEPT !.owed = TRUE, !.retried = FALSE, !.timer = "settle"]
  <2>1. tab \in [Tab -> TabState] /\ tab[t] \in TabState
    BY DEF IInv, AutoTypeOK
  <2>2. tab' = [tab EXCEPT ![t] = s]
    BY <2>1 DEF Edit
  <2>3. /\ s \in TabState /\ s.owed = TRUE /\ s.timer = "settle"
        /\ s.run = tab[t].run /\ s.scanned = tab[t].scanned
    BY <2>1 DEF TabState
  <2> HIDE DEF s
  <2> QED
    BY <2>1, <2>2, <2>3
<1>2. edits \in Nat /\ sent \in Nat /\ edits' = edits + 1 /\ sent' = sent /\ online' = online
  BY DEF Edit, IInv, AutoTypeOK
<1>3. AutoTypeOK'
  <2>1. edits' \in 0..MaxEdits /\ sent' \in 0..edits'
    BY <1>2 DEF Edit, IInv, AutoTypeOK, AutoAssumption
  <2>2. kept' \in BOOLEAN /\ UNCHANGED <<others, pulled, leading, stream, online, faults, excused, missed>>
    BY DEF Edit
  <2> QED
    BY <1>1, <2>1, <2>2 DEF IInv, AutoTypeOK, Edit
<1>4. Sound(tab'[t], edits', sent', online')
  <2>1. Sound(tab[t], edits, sent, online) /\ tab[t].scanned \in Nat
    BY DEF IInv, AutoTypeOK, TabState
  <2> QED
    BY <1>1, <1>2, <2>1 DEF Sound
<1>5. Remembered'
  <2>1. kept' = TRUE
    BY DEF Edit
  <2> QED
    BY <1>1, <2>1 DEF Remembered
<1> QED
  BY <1>1, <1>2, <1>3, <1>4, <1>5, OneTabMoves

(* A run is joined, by the button or by an event of the stream. *)
LEMMA JoinKeeps ==
    ASSUME AutoAssumption, IInv, NEW t \in Tab, AutoTypeOK',
           tab' = [tab EXCEPT ![t] = Joined(tab[t])],
           UNCHANGED <<edits, sent, kept, online, excused>>
    PROVE  IInv'
<1>1. tab[t] \in TabState /\ edits \in Nat /\ sent \in Nat
  BY DEF IInv, AutoTypeOK
<1>2. /\ tab'[t] = Joined(tab[t])
      /\ \A u \in Tab \ {t} : tab'[u] = tab[u]
  BY DEF IInv, AutoTypeOK
<1>3. Sound(tab'[t], edits', sent', online')
  <2>1. Sound(tab[t], edits, sent, online)
    BY DEF IInv
  <2> QED
    BY <1>1, <1>2, <2>1, JoinedIs DEF Sound
<1>4. tab'[t].owed = tab[t].owed /\ (InTime(tab[t], edits) => InTime(tab'[t], edits))
  BY <1>1, <1>2, JoinedIs DEF InTime
<1>5. Remembered'
  BY <1>1, <1>2, <1>4, StaysRemembered
<1> QED
  BY <1>1, <1>2, <1>3, <1>5, OneTabMoves

LEMMA ManualKeeps ==
    ASSUME AutoAssumption, IInv, NEW t \in Tab, Manual(t)
    PROVE  IInv'
<1>1. tab' = [tab EXCEPT ![t] = Joined(tab[t])]
  BY DEF Manual, IInv, AutoTypeOK
<1>2. Joined(tab[t]) \in TabState
  BY JoinedIs DEF IInv, AutoTypeOK
<1>3. AutoTypeOK'
  BY <1>1, <1>2 DEF Manual, IInv, AutoTypeOK
<1> QED
  BY <1>1, <1>3, JoinKeeps DEF Manual

LEMMA LateIs ==
    ASSUME AutoTypeOK, NEW s
    PROVE  Late(s) \subseteq {"late", "failed"}
  BY DEF Late, AutoTypeOK

LEMMA ChangedKeeps ==
    ASSUME AutoAssumption, IInv, NEW t \in Tab, Changed(t)
    PROVE  IInv'
<1>1. tab' = [tab EXCEPT ![t] = Joined(tab[t])]
  BY DEF Changed, IInv, AutoTypeOK
<1>2. Joined(tab[t]) \in TabState
  BY JoinedIs DEF IInv, AutoTypeOK
<1>3. stream' \in [Tab -> [open : BOOLEAN, events : 0..Backlog]]
  BY DEF Changed, IInv, AutoTypeOK, AutoAssumption
<1>4. missed' \subseteq {"late", "failed"}
  BY LateIs DEF Changed, IInv
<1>5. AutoTypeOK'
  BY <1>1, <1>2, <1>3, <1>4 DEF Changed, IInv, AutoTypeOK
<1> QED
  BY <1>1, <1>5, JoinKeeps DEF Changed

-----------------------------------------------------------------------------
(* The three branches of flush. *)
LEMMA FlushKeeps ==
    ASSUME AutoAssumption, IInv, NEW t \in Tab, Flush(t)
    PROVE  IInv'
<1> DEFINE s == [tab[t] EXCEPT !.timer = "none"]
<1>1. /\ tab[t] \in TabState /\ s \in TabState
      /\ s.owed = tab[t].owed /\ s.flushing = tab[t].flushing /\ s.run = tab[t].run
      /\ s.retried = tab[t].retried /\ s.scanned = tab[t].scanned /\ s.timer = "none"
      /\ edits \in Nat /\ sent \in Nat /\ sent <= edits
  <2>1. tab[t] \in TabState /\ edits \in Nat /\ sent \in Nat /\ sent <= edits
    BY DEF IInv, AutoTypeOK
  <2> QED
    BY <2>1 DEF TabState
<1>2. Sound(tab[t], edits, sent, online)
  BY DEF IInv
<1>3. UNCHANGED <<edits, sent, others, pulled, leading, stream, online, faults>>
  BY DEF Flush
<1> HIDE DEF s
<1>4. CASE /\ ~s.owed \/ (~s.flushing /\ ~online)
           /\ tab' = [tab EXCEPT ![t] = s]
           /\ UNCHANGED <<kept, excused, missed>>
  <2>1. tab'[t] = s /\ \A u \in Tab \ {t} : tab'[u] = tab[u]
    BY <1>4 DEF IInv, AutoTypeOK
  <2>2. AutoTypeOK'
    BY <1>1, <1>3, <1>4 DEF IInv, AutoTypeOK
  <2>3. Sound(tab'[t], edits', sent', online')
    BY <1>1, <1>2, <1>3, <1>4, <2>1 DEF Sound
  <2>4. InTime(tab[t], edits) => InTime(tab'[t], edits)
    BY <1>1, <2>1 DEF InTime
  <2>5. Remembered'
    BY <1>1, <1>3, <1>4, <2>1, <2>4, StaysRemembered
  <2> QED
    BY <1>1, <1>3, <2>1, <2>2, <2>3, <2>5, OneTabMoves
<1>5. CASE /\ s.owed /\ s.flushing
           /\ tab' = [tab EXCEPT ![t].timer = "settle"]
           /\ UNCHANGED <<kept, excused, missed>>
  <2>1. /\ tab'[t] \in TabState /\ \A u \in Tab \ {t} : tab'[u] = tab[u]
        /\ tab'[t].timer = "settle" /\ tab'[t].run = tab[t].run
        /\ tab'[t].flushing = tab[t].flushing /\ tab'[t].scanned = tab[t].scanned
        /\ tab'[t].owed = tab[t].owed /\ tab'[t].retried = tab[t].retried
    BY <1>5 DEF IInv, AutoTypeOK, TabState
  <2>2. AutoTypeOK'
    BY <1>3, <1>5, <2>1 DEF IInv, AutoTypeOK
  <2>3. Sound(tab'[t], edits', sent', online')
    BY <1>2, <1>3, <2>1 DEF Sound
  <2>4. InTime(tab[t], edits) => InTime(tab'[t], edits)
    BY <2>1 DEF InTime
  <2>5. Remembered'
    BY <1>1, <1>3, <1>5, <2>1, <2>4, StaysRemembered
  <2> QED
    BY <1>1, <1>3, <2>1, <2>2, <2>3, <2>5, OneTabMoves
<1>6. CASE /\ s.owed /\ ~s.flushing /\ online
           /\ tab' = [tab EXCEPT ![t] =
                         Joined([s EXCEPT !.owed = FALSE, !.flushing = TRUE])]
           /\ kept' = FALSE
           /\ excused' = IF PastScan(s) THEN excused \cup {"joined"} ELSE excused
           /\ missed' = Late(s)
  <2> DEFINE r == [s EXCEPT !.owed = FALSE, !.flushing = TRUE]
  <2>1. /\ r \in TabState /\ r.owed = FALSE /\ r.flushing = TRUE
        /\ r.run = tab[t].run /\ r.scanned = tab[t].scanned
    BY <1>1 DEF TabState
  <2>2. tab' = [tab EXCEPT ![t] = Joined(r)]
    BY <1>6
  <2> HIDE DEF r
  <2>3. /\ tab' \in [Tab -> TabState] /\ \A u \in Tab \ {t} : tab'[u] = tab[u]
        /\ tab'[t].owed = FALSE /\ tab'[t].flushing = TRUE
        /\ tab'[t].run = IF tab[t].run = "none" THEN "waiting" ELSE tab[t].run
        /\ tab'[t].scanned = tab[t].scanned
    BY <2>1, <2>2, JoinedIs DEF IInv, AutoTypeOK
  <2>4. AutoTypeOK'
    <3>1. excused' \subseteq {"joined", "closed"}
      BY <1>6 DEF IInv, AutoTypeOK
    <3>2. missed' \subseteq {"late", "failed"}
      BY <1>6, LateIs DEF IInv
    <3> QED
      BY <1>3, <1>6, <2>3, <3>1, <3>2 DEF IInv, AutoTypeOK
  <2>5. Sound(tab'[t], edits', sent', online')
    BY <1>2, <1>3, <2>3 DEF Sound
  <2>6. ASSUME edits' > sent', excused' = {}
        PROVE  InTime(tab'[t], edits')
    <3>1. ~PastScan(s)
      BY <1>6, <2>6
    <3>2. tab[t].run \in {"push", "answer"} => tab[t].scanned = edits
      <4>1. tab[t].scanned \in Nat /\ tab[t].scanned <= edits
        BY <1>1, <1>2 DEF Sound, TabState
      <4> QED
        BY <1>1, <3>1, <4>1 DEF PastScan
    <3>3. tab[t].run # "answer"
      BY <1>1, <1>2, <1>3, <2>6, <3>2 DEF Sound
    <3>4. tab[t].run \in {"none", "waiting", "pull", "scan", "push", "answer"}
      BY <1>1 DEF TabState
    <3> QED
      BY <1>3, <2>3, <3>2, <3>3, <3>4 DEF InTime
  <2>7. Remembered'
    BY <1>6, <2>6 DEF Remembered
  <2> QED
    BY <1>1, <1>3, <2>3, <2>4, <2>5, <2>7, OneTabMoves
<1> QED
  BY <1>4, <1>5, <1>6 DEF Flush, s

-----------------------------------------------------------------------------
(* The run.                                                               *)
LEMMA EnterKeeps ==
    ASSUME AutoAssumption, IInv, NEW t \in Tab, Enter(t)
    PROVE  IInv'
<1>1. tab \in [Tab -> TabState] /\ edits \in Nat /\ sent \in Nat
  BY DEF IInv, AutoTypeOK
<1>2. /\ tab'[t] = [tab[t] EXCEPT !.run = "pull"]
      /\ \A u \in Tab \ {t} : tab'[u] = tab[u]
  BY <1>1 DEF Enter
<1>3. /\ tab' \in [Tab -> TabState]
      /\ tab'[t].run = "pull" /\ tab'[t].owed = tab[t].owed
      /\ tab'[t].flushing = tab[t].flushing /\ tab'[t].timer = tab[t].timer
      /\ tab'[t].retried = tab[t].retried /\ tab'[t].scanned = tab[t].scanned
  BY <1>1, <1>2 DEF Enter, TabState
<1>4. UNCHANGED <<edits, sent, others, pulled, kept, leading, stream, online, faults, excused, missed>>
  BY DEF Enter
<1>5. AutoTypeOK'
  BY <1>3, <1>4 DEF IInv, AutoTypeOK
<1>7. \A u \in Tab : Sound(tab'[u], edits', sent', online')
  <2>1. Sound(tab[t], edits, sent, online)
    BY DEF IInv
  <2>2. Sound(tab'[t], edits', sent', online')
    BY <1>3, <1>4, <2>1 DEF Sound
  <2> QED
    BY <1>1, <1>2, <1>3, <1>4, <2>2, StaysSound
<1>8. Remembered'
  <2>1. InTime(tab[t], edits) => InTime(tab'[t], edits)
    BY <1>3 DEF InTime
  <2>2. tab[t].owed => tab'[t].owed
    BY <1>3
  <2>3. sent' \in Nat /\ sent <= sent'
    BY <1>1, <1>4
  <2> QED
    BY <1>2, <1>4, <2>1, <2>2, <2>3, StaysRemembered
<1> QED
  BY <1>5, <1>7, <1>8 DEF IInv

LEMMA PullKeeps ==
    ASSUME AutoAssumption, IInv, NEW t \in Tab, Pull(t)
    PROVE  IInv'
<1>1. tab \in [Tab -> TabState] /\ edits \in Nat /\ sent \in Nat /\ tab[t].run = "pull"
  BY DEF IInv, AutoTypeOK, Pull
<1>2. /\ tab'[t] = [tab[t] EXCEPT !.run = "scan"]
      /\ \A u \in Tab \ {t} : tab'[u] = tab[u]
  BY <1>1 DEF Pull
<1>3. /\ tab' \in [Tab -> TabState]
      /\ tab'[t].run = "scan" /\ tab'[t].owed = tab[t].owed
      /\ tab'[t].flushing = tab[t].flushing /\ tab'[t].timer = tab[t].timer
      /\ tab'[t].retried = tab[t].retried /\ tab'[t].scanned = tab[t].scanned
  BY <1>1, <1>2 DEF Pull, TabState
<1>4. /\ UNCHANGED <<edits, sent, others, kept, leading, stream, online, faults, excused>>
      /\ pulled' \in 0..others /\ missed' = {}
  BY DEF Pull, IInv, AutoTypeOK, AutoAssumption
<1>5. AutoTypeOK'
  BY <1>3, <1>4 DEF IInv, AutoTypeOK
<1>6. Sound(tab'[t], edits', sent', online')
  <2>1. Sound(tab[t], edits, sent, online)
    BY DEF IInv
  <2> QED
    BY <1>3, <1>4, <2>1 DEF Sound
<1>7. Remembered'
  <2>1. InTime(tab[t], edits) => InTime(tab'[t], edits)
    BY <1>1, <1>3 DEF InTime
  <2>2. tab[t].owed => tab'[t].owed
    BY <1>3
  <2>3. sent' \in Nat /\ sent <= sent'
    BY <1>1, <1>4
  <2> QED
    BY <1>2, <1>4, <2>1, <2>2, <2>3, StaysRemembered
<1> QED
  BY <1>1, <1>2, <1>4, <1>5, <1>6, <1>7, OneTabMoves

(* A run that ends in the tab t: after its scan, its answer, or a failure.  *)
LEMMA EndKeeps ==
    ASSUME AutoAssumption, IInv, NEW t \in Tab, NEW failed \in BOOLEAN,
           tab' = [tab EXCEPT ![t] = Over(tab[t], failed)], AutoTypeOK',
           UNCHANGED <<edits, sent, online, excused>>,
           kept' = (kept \/ (failed /\ tab[t].flushing)),
           ~failed => ~(edits > sent) \/ ~InTime(tab[t], edits)
    PROVE  IInv'
<1>1. tab \in [Tab -> TabState] /\ tab[t] \in TabState /\ edits \in Nat /\ sent \in Nat
  BY DEF IInv, AutoTypeOK
<1>2. tab'[t] = Over(tab[t], failed) /\ \A u \in Tab \ {t} : tab'[u] = tab[u]
  BY <1>1
<1>3. /\ tab'[t].run = "none" /\ tab'[t].flushing = FALSE /\ tab'[t].scanned = 0
      /\ tab'[t].owed = (tab[t].owed \/ (tab[t].flushing /\ failed))
  <2>1. PICK s \in TabState : s = tab[t]
    BY <1>1
  <2>2. /\ Over(s, failed).run = "none" /\ Over(s, failed).flushing = FALSE
        /\ Over(s, failed).scanned = 0
        /\ Over(s, failed).owed = (s.owed \/ (s.flushing /\ failed))
    BY OverIs
  <2>3. tab'[t] = Over(s, failed)
    BY <1>2, <2>1
  <2> QED
    BY <2>1, <2>2, <2>3
<1>7. /\ ~tab[t].flushing => /\ tab'[t].timer = tab[t].timer
                             /\ tab'[t].retried = tab[t].retried
      /\ tab[t].flushing /\ ~failed => tab'[t].timer = tab[t].timer
      /\ tab[t].flushing /\ failed => \/ tab'[t].timer = "retry"
                                      \/ tab'[t].retried
  <2> DEFINE r == Over(tab[t], failed)
  <2>1. ~tab[t].flushing => r.timer = tab[t].timer /\ r.retried = tab[t].retried
    BY <1>1 DEF Over, TabState
  <2>2. tab[t].flushing /\ ~failed => r.timer = tab[t].timer
    BY <1>1 DEF Over, TabState
  <2>3. tab[t].flushing /\ failed => r.timer = "retry" \/ r.retried
    BY <1>1 DEF Over, Retried, TabState
  <2>4. tab'[t] = r
    BY <1>2
  <2> HIDE DEF r
  <2> QED
    BY <2>1, <2>2, <2>3, <2>4
<1>4. Sound(tab'[t], edits', sent', online')
  <2>1. Sound(tab[t], edits, sent, online)
    BY DEF IInv
  <2>2. 0 <= edits
    BY <1>1
  <2>3. tab'[t].owed /\ online' => tab'[t].timer # "none" \/ tab'[t].retried
    <3>1. CASE ~tab[t].flushing
      <4>1. tab'[t].timer = tab[t].timer /\ tab'[t].retried = tab[t].retried
        BY <1>7, <3>1
      <4>2. tab'[t].owed => tab[t].owed
        BY <1>3, <3>1
      <4> QED
        BY <2>1, <3>1, <4>1, <4>2 DEF Sound
    <3>2. CASE tab[t].flushing /\ failed
      <4>1. tab'[t].timer = "retry" \/ tab'[t].retried
        BY <1>7, <3>2
      <4> QED
        BY <4>1
    <3>3. CASE tab[t].flushing /\ ~failed
      <4>1. tab'[t].timer = tab[t].timer
        BY <1>7, <3>3
      <4>2. tab'[t].owed => tab[t].owed
        BY <1>3, <3>3
      <4> QED
        BY <2>1, <3>3, <4>1, <4>2 DEF Sound
    <3> QED
      BY <3>1, <3>2, <3>3
  <2> QED
    BY <1>3, <2>2, <2>3 DEF Sound
<1>5. Remembered'
  <2>1. ASSUME kept' PROVE \E u \in Tab : tab'[u].owed
    <3>1. CASE failed /\ tab[t].flushing
      BY <1>3, <3>1
    <3>2. CASE kept
      <4>1. PICK u \in Tab : tab[u].owed
        BY <3>2 DEF IInv, Remembered
      <4> QED
        BY <1>2, <1>3, <4>1
    <3> QED
      BY <2>1, <3>1, <3>2
  <2>2. ASSUME ~kept', edits' > sent', excused' = {}
        PROVE  \E u \in Tab : InTime(tab'[u], edits')
    <3>1. PICK u \in Tab : InTime(tab[u], edits)
      BY <2>2 DEF IInv, Remembered
    <3>2. u # t
      BY <2>2, <3>1 DEF InTime
    <3> QED
      BY <1>2, <3>1, <3>2
  <2> QED
    BY <2>1, <2>2 DEF Remembered
<1>6. edits <= edits' /\ sent <= sent'
  BY <1>1
<1> QED
  BY <1>2, <1>3, <1>4, <1>5, <1>6, OneTabMoves

LEMMA ScanKeeps ==
    ASSUME AutoAssumption, IInv, NEW t \in Tab, Scan(t)
    PROVE  IInv'
<1>1. /\ tab \in [Tab -> TabState] /\ tab[t] \in TabState /\ edits \in Nat /\ sent \in Nat
      /\ edits \in 0..MaxEdits /\ tab[t].run = "scan"
  BY DEF IInv, AutoTypeOK, Scan
<1>2. UNCHANGED <<edits, sent, others, pulled, kept, leading, stream, online, faults, excused, missed>>
  BY DEF Scan
<1>3. CASE edits > sent
  <2> DEFINE r == [tab[t] EXCEPT !.run = "push", !.scanned = edits]
  <2>1. tab' = [tab EXCEPT ![t] = r]
    BY <1>1, <1>3 DEF Scan
  <2>2. /\ r \in TabState /\ r.run = "push" /\ r.scanned = edits /\ r.owed = tab[t].owed
        /\ r.flushing = tab[t].flushing /\ r.timer = tab[t].timer
        /\ r.retried = tab[t].retried
    BY <1>1 DEF TabState
  <2> HIDE DEF r
  <2>3. tab' \in [Tab -> TabState] /\ tab'[t] = r /\ \A u \in Tab \ {t} : tab'[u] = tab[u]
    BY <1>1, <2>1, <2>2
  <2>4. AutoTypeOK'
    BY <1>2, <2>3 DEF IInv, AutoTypeOK
  <2>5. Sound(tab'[t], edits', sent', online')
    <3>1. Sound(tab[t], edits, sent, online) /\ edits <= edits
      BY <1>1 DEF IInv
    <3> QED
      BY <1>2, <2>2, <2>3, <3>1 DEF Sound
  <2>6. Remembered'
    <3>1. InTime(tab[t], edits) => InTime(tab'[t], edits)
      BY <2>2, <2>3 DEF InTime
    <3> QED
      BY <1>1, <1>2, <2>2, <2>3, <3>1, StaysRemembered
  <2> QED
    BY <1>1, <1>2, <2>3, <2>4, <2>5, <2>6, OneTabMoves
<1>4. CASE ~(edits > sent)
  <2>1. tab' = [tab EXCEPT ![t] = Over(tab[t], FALSE)]
    BY <1>1, <1>4 DEF Scan
  <2>2. Over(tab[t], FALSE) \in TabState
    BY <1>1, OverIs
  <2>3. AutoTypeOK'
    BY <1>1, <1>2, <2>1, <2>2 DEF IInv, AutoTypeOK
  <2>4. kept' = (kept \/ (FALSE /\ tab[t].flushing))
    BY <1>2 DEF IInv, AutoTypeOK
  <2> QED
    BY <1>2, <1>4, <2>1, <2>3, <2>4, EndKeeps
<1> QED
  BY <1>3, <1>4

LEMMA PushKeeps ==
    ASSUME AutoAssumption, IInv, NEW t \in Tab, Push(t)
    PROVE  IInv'
<1>1. /\ tab \in [Tab -> TabState] /\ tab[t] \in TabState /\ edits \in Nat /\ sent \in Nat
      /\ sent <= edits /\ tab[t].run = "push"
      /\ tab[t].scanned \in Nat /\ tab[t].scanned <= edits
  BY DEF IInv, AutoTypeOK, Push, Sound, TabState
<1>2. /\ tab'[t] = [tab[t] EXCEPT !.run = "answer"]
      /\ \A u \in Tab \ {t} : tab'[u] = tab[u]
  BY <1>1 DEF Push
<1>3. /\ tab' \in [Tab -> TabState]
      /\ tab'[t].run = "answer" /\ tab'[t].owed = tab[t].owed
      /\ tab'[t].flushing = tab[t].flushing /\ tab'[t].timer = tab[t].timer
      /\ tab'[t].retried = tab[t].retried /\ tab'[t].scanned = tab[t].scanned
  BY <1>1, <1>2 DEF Push, TabState
<1>4. UNCHANGED <<edits, others, pulled, kept, leading, online, faults, excused, missed>>
  BY DEF Push
<1>5. sent' \in 0..edits /\ sent <= sent' /\ tab[t].scanned <= sent'
  BY <1>1 DEF Push, Landed
<1>6. stream' \in [Tab -> [open : BOOLEAN, events : 0..Backlog]]
  BY NotifiedIs DEF Push, IInv, AutoTypeOK, Stream
<1>7. AutoTypeOK'
  BY <1>3, <1>4, <1>5, <1>6 DEF IInv, AutoTypeOK
<1>8. Sound(tab'[t], edits', sent', online')
  <2>1. Sound(tab[t], edits, sent, online)
    BY DEF IInv
  <2> QED
    BY <1>3, <1>4, <1>5, <2>1 DEF Sound
<1>9. Remembered'
  <2>1. InTime(tab[t], edits) => edits <= sent'
    BY <1>1, <1>5 DEF InTime
  <2>2. tab[t].owed => tab'[t].owed
    BY <1>3
  <2>3. sent' \in Nat
    BY <1>1, <1>5
  <2> QED
    BY <1>2, <1>4, <1>5, <2>1, <2>2, <2>3, StaysRemembered
<1>10. edits <= edits'
  BY <1>1, <1>4
<1> QED
  BY <1>1, <1>2, <1>4, <1>5, <1>7, <1>8, <1>9, <1>10, OneTabMoves

LEMMA AnswerKeeps ==
    ASSUME AutoAssumption, IInv, NEW t \in Tab, Answer(t)
    PROVE  IInv'
<1>1. tab \in [Tab -> TabState] /\ tab[t] \in TabState /\ tab[t].run = "answer"
  BY DEF IInv, AutoTypeOK, Answer
<1>2. UNCHANGED <<edits, sent, others, pulled, kept, leading, stream, online, faults, excused, missed>>
  BY DEF Answer
<1>3. tab' = [tab EXCEPT ![t] = Over(tab[t], FALSE)]
  BY <1>1 DEF Answer
<1>4. Over(tab[t], FALSE) \in TabState
  BY <1>1, OverIs
<1>5. AutoTypeOK'
  BY <1>1, <1>2, <1>3, <1>4 DEF IInv, AutoTypeOK
<1>6. kept' = (kept \/ (FALSE /\ tab[t].flushing))
  BY <1>2 DEF IInv, AutoTypeOK
<1>7. ~InTime(tab[t], edits)
  BY <1>1 DEF InTime
<1> QED
  BY <1>2, <1>3, <1>5, <1>6, <1>7, EndKeeps

LEMMA FailKeeps ==
    ASSUME AutoAssumption, IInv, NEW t \in Tab, Fail(t)
    PROVE  IInv'
<1>1. tab \in [Tab -> TabState] /\ tab[t] \in TabState
  BY DEF IInv, AutoTypeOK
<1>2. UNCHANGED <<edits, sent, others, pulled, leading, stream, online, excused>>
  BY DEF Fail
<1>3. tab' = [tab EXCEPT ![t] = Over(tab[t], TRUE)]
  BY <1>1 DEF Fail
<1>4. Over(tab[t], TRUE) \in TabState
  BY <1>1, OverIs
<1>5. faults' \in 0..MaxFaults
  BY DEF Fail, IInv, AutoTypeOK, AutoAssumption
<1>6. kept' \in BOOLEAN /\ kept' = (kept \/ (TRUE /\ tab[t].flushing))
  BY <1>1 DEF Fail, IInv, AutoTypeOK, TabState
<1>8. missed' \subseteq {"late", "failed"}
  BY DEF Fail, IInv, AutoTypeOK
<1>7. AutoTypeOK'
  BY <1>1, <1>2, <1>3, <1>4, <1>5, <1>6, <1>8 DEF IInv, AutoTypeOK
<1> QED
  BY <1>2, <1>3, <1>6, <1>7, EndKeeps

-----------------------------------------------------------------------------
(* A step of the stream or of other devices moves no tab.                   *)
LEMMA ElsewhereKeeps ==
    ASSUME IInv, AutoTypeOK', UNCHANGED <<edits, sent, kept, tab, online, excused>>
    PROVE  IInv'
  BY DEF IInv, Remembered

LEMMA StreamKeeps ==
    ASSUME AutoAssumption, IInv,
           OtherWrite \/ \E t \in Tab : Connect(t) \/ Drop(t)
    PROVE  IInv'
<1> USE DEF Stream
<1>1. CASE OtherWrite
  <2>1. stream' \in [Tab -> Stream]
    BY <1>1, NotifiedIs DEF OtherWrite, IInv, AutoTypeOK
  <2>2. others' \in 0..MaxOthers /\ pulled \in 0..others'
    BY <1>1 DEF OtherWrite, IInv, AutoTypeOK, AutoAssumption
  <2>3. AutoTypeOK'
    BY <1>1, <2>1, <2>2 DEF OtherWrite, IInv, AutoTypeOK
  <2> QED
    BY <1>1, <2>3, ElsewhereKeeps DEF OtherWrite
<1>2. ASSUME NEW t \in Tab, Connect(t) PROVE IInv'
  <2>1. stream' \in [Tab -> Stream]
    BY <1>2 DEF Connect, Greeting, IInv, AutoTypeOK, AutoAssumption
  <2>2. AutoTypeOK'
    BY <1>2, <2>1 DEF Connect, IInv, AutoTypeOK
  <2> QED
    BY <1>2, <2>2, ElsewhereKeeps DEF Connect
<1>3. ASSUME NEW t \in Tab, Drop(t) PROVE IInv'
  <2>1. stream' \in [Tab -> Stream]
    BY <1>3 DEF Drop, NoStream, IInv, AutoTypeOK, AutoAssumption
  <2>2. faults' \in 0..MaxFaults
    BY <1>3 DEF Drop, IInv, AutoTypeOK, AutoAssumption
  <2>3. AutoTypeOK'
    BY <1>3, <2>1, <2>2 DEF Drop, IInv, AutoTypeOK
  <2> QED
    BY <1>3, <2>3, ElsewhereKeeps DEF Drop
<1> QED
  BY <1>1, <1>2, <1>3

LEMMA OfflineKeeps ==
    ASSUME AutoAssumption, IInv, GoOffline
    PROVE  IInv'
<1>1. faults' \in 0..MaxFaults
  BY DEF GoOffline, IInv, AutoTypeOK, AutoAssumption
<1>2. UNCHANGED <<edits, sent, others, pulled, kept, tab, leading, stream, excused, missed>>
      /\ online' = FALSE
  BY DEF GoOffline
<1>3. AutoTypeOK'
  BY <1>1, <1>2 DEF IInv, AutoTypeOK
<1>5. \A t \in Tab : Sound(tab'[t], edits', sent', online')
  BY <1>2 DEF IInv, Sound
<1>6. Remembered'
  BY <1>2 DEF IInv, Remembered
<1> QED
  BY <1>3, <1>5, <1>6 DEF IInv

LEMMA OnlineKeeps ==
    ASSUME AutoAssumption, IInv, GoOnline
    PROVE  IInv'
<1>1. UNCHANGED <<edits, sent, others, pulled, kept, leading, stream, faults, excused, missed>>
      /\ online' = TRUE
  BY DEF GoOnline
<1>2. \A t \in Tab : tab'[t] = Woken(tab[t])
  BY DEF GoOnline
<1>3. \A s \in TabState : /\ Woken(s) \in TabState
                          /\ Woken(s).run = s.run /\ Woken(s).owed = s.owed
                          /\ Woken(s).flushing = s.flushing /\ Woken(s).scanned = s.scanned
  BY DEF Woken, TabState
<1>4. \A s \in TabState : s.owed => Woken(s).timer = "settle"
  BY DEF Woken, TabState
<1>5. tab' \in [Tab -> TabState] /\ tab \in [Tab -> TabState]
  BY <1>2, <1>3 DEF GoOnline, IInv, AutoTypeOK
<1>6. AutoTypeOK'
  BY <1>1, <1>5 DEF IInv, AutoTypeOK
<1>8. \A t \in Tab : Sound(tab'[t], edits', sent', online')
  <2> SUFFICES ASSUME NEW t \in Tab PROVE Sound(tab'[t], edits', sent', online')
    OBVIOUS
  <2>1. /\ tab'[t].run = tab[t].run /\ tab'[t].owed = tab[t].owed
        /\ tab'[t].flushing = tab[t].flushing /\ tab'[t].scanned = tab[t].scanned
        /\ tab[t].owed => tab'[t].timer = "settle"
    BY <1>2, <1>3, <1>4, <1>5
  <2>2. Sound(tab[t], edits, sent, online)
    BY DEF IInv
  <2> QED
    BY <1>1, <2>1, <2>2 DEF Sound
<1>9. Remembered'
  <2>1. \A t \in Tab : tab[t].owed => tab'[t].owed
    BY <1>2, <1>3, <1>5
  <2>2. \A t \in Tab : InTime(tab[t], edits) => InTime(tab'[t], edits)
    BY <1>2, <1>3, <1>5 DEF InTime
  <2> QED
    BY <1>1, <2>1, <2>2 DEF IInv, Remembered
<1> QED
  BY <1>6, <1>8, <1>9 DEF IInv

(* A closed tab forgets what it owes: either the flag remembers, or the     *)
(* tab was not the one that is paying, or the history says so.              *)
LEMMA ReloadKeeps ==
    ASSUME AutoAssumption, IInv, NEW t \in Tab, Reload(t)
    PROVE  IInv'
<1>1. /\ tab \in [Tab -> TabState] /\ edits \in Nat /\ sent \in Nat /\ kept \in BOOLEAN
      /\ sent + pulled \in 0..MaxEdits + MaxOthers
  BY DEF IInv, AutoTypeOK, AutoAssumption
<1>2. UNCHANGED <<edits, sent, others, pulled, kept, online, missed>>
  BY DEF Reload
<1>3. /\ tab'[t] = Loaded(kept, sent + pulled)
      /\ tab' = [tab EXCEPT ![t] = Loaded(kept, sent + pulled)]
      /\ \A u \in Tab \ {t} : tab'[u] = tab[u]
  BY <1>1 DEF Reload
<1>4. /\ tab'[t] \in TabState /\ tab'[t].run = "none" /\ tab'[t].owed = kept
      /\ tab'[t].timer = IF kept THEN "settle" ELSE "none"
      /\ tab'[t].flushing = FALSE /\ tab'[t].scanned = 0
  <2>1. PICK since \in 0..MaxEdits + MaxOthers : since = sent + pulled
    BY <1>1
  <2>2. /\ Loaded(kept, since) \in TabState /\ Loaded(kept, since).run = "none"
        /\ Loaded(kept, since).owed = kept
        /\ Loaded(kept, since).timer = IF kept THEN "settle" ELSE "none"
        /\ Loaded(kept, since).flushing = FALSE /\ Loaded(kept, since).scanned = 0
    BY <1>1, LoadedIs
  <2>3. tab'[t] = Loaded(kept, since)
    BY <1>3, <2>1
  <2> QED
    BY <2>2, <2>3
<1>5. AutoTypeOK'
  <2>1. tab' \in [Tab -> TabState]
    BY <1>1, <1>3, <1>4
  <2>2. faults' \in 0..MaxFaults
    BY DEF Reload, IInv, AutoTypeOK, AutoAssumption
  <2>3. leading' \in Leaderships
    BY DEF Reload, IInv, AutoTypeOK, Leaderships
  <2>4. stream' \in [Tab -> [open : BOOLEAN, events : 0..Backlog]]
    <3>1. NoStream \in [open : BOOLEAN, events : 0..Backlog]
      BY DEF NoStream, AutoAssumption
    <3> QED
      BY <3>1 DEF Reload, IInv, AutoTypeOK
  <2>5. excused' \subseteq {"joined", "closed"}
    BY DEF Reload, IInv, AutoTypeOK
  <2> QED
    BY <1>2, <2>1, <2>2, <2>3, <2>4, <2>5 DEF IInv, AutoTypeOK
<1>6. Sound(tab'[t], edits', sent', online')
  <2>1. 0 <= edits
    BY <1>1
  <2>2. tab'[t].owed => tab'[t].timer # "none"
    BY <1>4
  <2> QED
    BY <1>2, <1>4, <2>1, <2>2 DEF Sound
<1>7. Remembered'
  <2>1. kept' => \E u \in Tab : tab'[u].owed
    BY <1>2, <1>4
  <2>2. ASSUME ~kept', edits' > sent', excused' = {}
        PROVE  \E u \in Tab : InTime(tab'[u], edits')
    <3>1. excused = {} /\ ~(tab[t].flushing /\ ~kept)
      BY <2>2 DEF Reload
    <3>2. PICK u \in Tab : InTime(tab[u], edits)
      BY <1>2, <2>2, <3>1 DEF IInv, Remembered
    <3>3. u # t
      BY <1>2, <2>2, <3>1, <3>2 DEF InTime
    <3> QED
      BY <1>2, <1>3, <3>2, <3>3
  <2> QED
    BY <2>1, <2>2 DEF Remembered
<1>8. edits <= edits' /\ sent <= sent'
  BY <1>1, <1>2
<1> QED
  BY <1>2, <1>3, <1>4, <1>5, <1>6, <1>7, <1>8, OneTabMoves

-----------------------------------------------------------------------------
LEMMA AutoStep == AutoAssumption /\ IInv /\ [NextAuto]_autoVars => IInv'
<1> SUFFICES ASSUME AutoAssumption, IInv, NextAuto \/ UNCHANGED autoVars
             PROVE  IInv'
  OBVIOUS
<1>1. ASSUME NEW t \in Tab, Edit(t) \/ Flush(t) \/ Manual(t)
      PROVE  IInv'
  BY <1>1, EditKeeps, FlushKeeps, ManualKeeps
<1>2. ASSUME NEW t \in Tab, Run(t)
      PROVE  IInv'
  BY <1>2, EnterKeeps, PullKeeps, ScanKeeps, PushKeeps, AnswerKeeps DEF Run
<1>3. ASSUME NEW t \in Tab, Fail(t) \/ Reload(t)
      PROVE  IInv'
  BY <1>3, FailKeeps, ReloadKeeps
<1>4. ASSUME NEW t \in Tab, Changed(t)
      PROVE  IInv'
  BY <1>4, ChangedKeeps
<1>5. CASE OtherWrite \/ \E t \in Tab : Connect(t) \/ Drop(t)
  BY <1>5, StreamKeeps
<1>6. CASE GoOffline \/ GoOnline
  BY <1>6, OfflineKeeps, OnlineKeeps
<1>7. CASE UNCHANGED autoVars
  <2>1. AutoTypeOK'
    BY <1>7 DEF IInv, AutoTypeOK, autoVars
  <2> QED
    BY <1>7, <2>1, ElsewhereKeeps DEF autoVars
<1> QED
  BY <1>1, <1>2, <1>3, <1>4, <1>5, <1>6, <1>7 DEF NextAuto

(* The inductive invariant: what the flag on disk, the timers and the runs  *)
(* in flight have to do with each other.                                    *)
THEOREM AutoInvariant == SpecAuto => []IInv
<1>1. InitAuto => IInv
  BY AutoInit, AutoAssumption
<1>2. IInv /\ [NextAuto]_autoVars => IInv'
  BY AutoStep, AutoAssumption
<1> QED
  BY <1>1, <1>2, PTL DEF SpecAuto

(* The counts and the buffers keep their bounds, for any number of tabs     *)
(* (broadcaster.notify, handlePush).                                        *)
THEOREM AutoTypeCorrect == SpecAuto => []AutoTypeOK
<1>1. IInv => AutoTypeOK
  BY DEF IInv
<1> QED
  BY <1>1, AutoInvariant, PTL

(* A debt always has somebody who will pay it, or has used up its one retry *)
(* (flush).                                                                 *)
THEOREM AutoOwedIsScheduled == SpecAuto => []OwedIsScheduled
<1>1. IInv => OwedIsScheduled
  BY DEF IInv, Sound, OwedIsScheduled
<1> QED
  BY <1>1, AutoInvariant, PTL

(* A write is only forgotten in the two ways named, whatever tabs are       *)
(* closed and requests lost (flush, rememberOwed, wasOwed).                 *)
THEOREM AutoUnsentIsRemembered == SpecAuto => []UnsentIsRemembered
<1>1. IInv => UnsentIsRemembered
  <2> SUFFICES ASSUME IInv, edits > sent, excused = {}
               PROVE  \E t \in Tab : \/ tab[t].owed
                                     \/ tab[t].run \in {"waiting", "pull", "scan"}
                                     \/ tab[t].run = "push" /\ tab[t].scanned = edits
    BY DEF UnsentIsRemembered
  <2>1. CASE kept
    BY <2>1 DEF IInv, Remembered
  <2>2. CASE ~kept
    <3>1. PICK t \in Tab : InTime(tab[t], edits)
      BY <2>2 DEF IInv, Remembered
    <3> QED
      BY <3>1 DEF InTime
  <2> QED
    BY <2>1, <2>2
<1> QED
  BY <1>1, AutoInvariant, PTL

-----------------------------------------------------------------------------
(* --- what the tabs are told ---------------------------------------------- *)

(* A tab that will see the account's news, if there is any.                 *)
Aware(s, e) == e.events > 0 \/ s.run \in {"waiting", "pull"} \/ s.owed

(* A tab listens only while it may; the cursor it was loaded with is one    *)
(* the account was at, so its greeting is not withheld; and it is aware.    *)
HInv ==
    \A t \in Tab : /\ stream[t].open => t \in leading
                   /\ tab[t].since <= sent + pulled
                   /\ Behind /\ missed = {} /\ stream[t].open => Aware(tab[t], stream[t])

(* A step in which one tab moves and keeps what made it aware.              *)
LEMMA OneTabHears ==
    ASSUME AutoTypeOK, HInv, NEW t \in Tab,
           \A u \in Tab \ {t} : tab'[u] = tab[u],
           UNCHANGED <<sent, others, pulled, leading, stream>>,
           tab'[t].since = tab[t].since,
           Behind /\ missed' = {} =>
               missed = {} /\ (Aware(tab[t], stream[t]) => Aware(tab'[t], stream[t]))
    PROVE  HInv'
  BY DEF HInv, Behind

(* What the helpers do to what makes a tab aware.                           *)
LEMMA JoinedHears ==
    ASSUME NEW s \in TabState
    PROVE  /\ Joined(s).since = s.since /\ Joined(s).owed = s.owed
           /\ s.run \in {"none", "waiting", "pull"} => Joined(s).run \in {"waiting", "pull"}
           /\ s.run \notin {"none", "waiting", "pull"} => s.run \in {"scan", "push", "answer"}
  BY DEF Joined, TabState

LEMMA OverHears ==
    ASSUME NEW s \in TabState, NEW failed \in BOOLEAN
    PROVE  /\ Over(s, failed).since = s.since
           /\ s.owed => Over(s, failed).owed
           /\ s.flushing /\ failed => Over(s, failed).owed
  BY DEF Over, Retried, TabState

LEMMA LateSays ==
    ASSUME NEW s, Behind, Late(s) = {}
    PROVE  s.run \notin {"scan", "push", "answer"} /\ missed = {}
  BY DEF Late, PastPull

LEMMA HearsInit == InitAuto => HInv
<1> SUFFICES ASSUME InitAuto, NEW t \in Tab
             PROVE  ~stream[t].open /\ tab[t].since <= sent + pulled
  BY DEF HInv
<1>1. stream[t] = NoStream /\ tab[t] = Loaded(FALSE, 0) /\ sent = 0 /\ pulled = 0
  BY DEF InitAuto
<1> QED
  BY <1>1 DEF NoStream, Loaded

LEMMA HearsEdit ==
    ASSUME AutoTypeOK, HInv, NEW t \in Tab, Edit(t) \/ Manual(t) \/ Enter(t)
    PROVE  HInv'
<1>1. tab \in [Tab -> TabState] /\ tab[t] \in TabState
  BY DEF AutoTypeOK
<1>2. CASE Edit(t)
  <2>1. /\ tab'[t].owed /\ tab'[t].since = tab[t].since
        /\ \A u \in Tab \ {t} : tab'[u] = tab[u]
    BY <1>1, <1>2 DEF Edit, TabState
  <2> QED
    BY <1>2, <2>1, OneTabHears DEF Edit, Aware
<1>3. CASE Manual(t)
  <2>1. tab'[t] = Joined(tab[t]) /\ \A u \in Tab \ {t} : tab'[u] = tab[u]
    BY <1>1, <1>3 DEF Manual
  <2>2. Aware(tab'[t], stream[t]) /\ tab'[t].since = tab[t].since
    BY <1>1, <1>3, <2>1, JoinedHears DEF Manual, Aware
  <2> QED
    BY <1>3, <2>1, <2>2, OneTabHears DEF Manual
<1>4. CASE Enter(t)
  <2>1. /\ tab'[t].run = "pull" /\ tab'[t].since = tab[t].since
        /\ \A u \in Tab \ {t} : tab'[u] = tab[u]
    BY <1>1, <1>4 DEF Enter, TabState
  <2> QED
    BY <1>4, <2>1, OneTabHears DEF Enter, Aware
<1> QED
  BY <1>2, <1>3, <1>4

(* The debt is cleared only for a run that will still pull, or the history  *)
(* says that it was not.                                                    *)
LEMMA HearsFlush ==
    ASSUME AutoTypeOK, HInv, NEW t \in Tab, Flush(t)
    PROVE  HInv'
<1> DEFINE s == [tab[t] EXCEPT !.timer = "none"]
<1>1. /\ tab \in [Tab -> TabState] /\ tab[t] \in TabState /\ s \in TabState
      /\ s.run = tab[t].run /\ s.owed = tab[t].owed /\ s.since = tab[t].since
  BY DEF AutoTypeOK, TabState
<1>2. UNCHANGED <<sent, others, pulled, leading, stream>>
  BY DEF Flush
<1> HIDE DEF s
<1>3. CASE tab' = [tab EXCEPT ![t] = s] /\ missed' = missed
  <2>1. tab'[t] = s /\ \A u \in Tab \ {t} : tab'[u] = tab[u]
    BY <1>1, <1>3
  <2> QED
    BY <1>1, <1>2, <1>3, <2>1, OneTabHears DEF Aware
<1>4. CASE tab' = [tab EXCEPT ![t].timer = "settle"] /\ missed' = missed
  <2>1. /\ tab'[t].run = tab[t].run /\ tab'[t].owed = tab[t].owed
        /\ tab'[t].since = tab[t].since /\ \A u \in Tab \ {t} : tab'[u] = tab[u]
    BY <1>1, <1>4 DEF TabState
  <2> QED
    BY <1>2, <1>4, <2>1, OneTabHears DEF Aware
<1>5. CASE /\ tab' = [tab EXCEPT ![t] =
                         Joined([s EXCEPT !.owed = FALSE, !.flushing = TRUE])]
           /\ missed' = Late(s)
  <2> DEFINE r == [s EXCEPT !.owed = FALSE, !.flushing = TRUE]
  <2>1. r \in TabState /\ r.run = s.run /\ r.since = s.since
    BY <1>1 DEF TabState
  <2>2. tab'[t] = Joined(r) /\ \A u \in Tab \ {t} : tab'[u] = tab[u]
    BY <1>1, <1>5
  <2> HIDE DEF r
  <2>3. tab'[t].since = tab[t].since
    BY <1>1, <2>1, <2>2, JoinedHears
  <2>4. ASSUME Behind, missed' = {}
        PROVE  missed = {} /\ Aware(tab'[t], stream[t])
    <3>1. s.run \notin {"scan", "push", "answer"} /\ missed = {}
      BY <1>5, <2>4, LateSays
    <3> QED
      BY <2>1, <2>2, <3>1, JoinedHears DEF Aware
  <2> QED
    BY <1>2, <2>2, <2>3, <2>4, OneTabHears
<1> QED
  BY <1>3, <1>4, <1>5 DEF Flush, s

LEMMA HearsPull ==
    ASSUME AutoTypeOK, HInv, NEW t \in Tab, Pull(t)
    PROVE  HInv'
<1>1. /\ sent \in Nat /\ others \in Nat /\ pulled \in Nat /\ pulled <= others
      /\ \A u \in Tab : tab[u].since \in Nat
  BY DEF AutoTypeOK, TabState
<1>2. \A u \in Tab : tab'[u].since = tab[u].since
  BY DEF AutoTypeOK, TabState, Pull
<1>3. UNCHANGED <<sent, others, leading, stream>> /\ pulled' = others
  BY DEF Pull
<1>4. ~Behind'
  BY <1>1, <1>3 DEF Behind
<1> QED
  BY <1>1, <1>2, <1>3, <1>4 DEF HInv

(* A run that ends, past its pull or not. *)
LEMMA HearsEnd ==
    ASSUME AutoTypeOK, HInv, NEW t \in Tab, Scan(t) \/ Answer(t) \/ Fail(t)
    PROVE  HInv'
<1>1. tab \in [Tab -> TabState] /\ tab[t] \in TabState
  BY DEF AutoTypeOK
<1>2. UNCHANGED <<sent, others, pulled, leading, stream>>
  BY DEF Scan, Answer, Fail
<1>3. CASE /\ tab' = [tab EXCEPT ![t] = Over(tab[t], FALSE)]
           /\ tab[t].run \in {"scan", "answer"} /\ missed' = missed
  <2>1. tab'[t] = Over(tab[t], FALSE) /\ \A u \in Tab \ {t} : tab'[u] = tab[u]
    BY <1>1, <1>3
  <2>2. tab'[t].since = tab[t].since /\ (tab[t].owed => tab'[t].owed)
    BY <1>1, <2>1, OverHears
  <2> QED
    BY <1>2, <1>3, <2>1, <2>2, OneTabHears DEF Aware
<1>4. CASE /\ tab' = [tab EXCEPT ![t] = [tab[t] EXCEPT !.run = "push", !.scanned = edits]]
           /\ tab[t].run = "scan" /\ missed' = missed
  <2>1. /\ tab'[t].since = tab[t].since /\ tab'[t].owed = tab[t].owed
        /\ \A u \in Tab \ {t} : tab'[u] = tab[u]
    BY <1>1, <1>4 DEF TabState
  <2> QED
    BY <1>2, <1>4, <2>1, OneTabHears DEF Aware
<1>5. CASE Fail(t)
  <2>1. tab'[t] = Over(tab[t], TRUE) /\ \A u \in Tab \ {t} : tab'[u] = tab[u]
    BY <1>1, <1>5 DEF Fail
  <2>2. /\ tab'[t].since = tab[t].since /\ (tab[t].owed => tab'[t].owed)
        /\ tab[t].flushing => tab'[t].owed
    BY <1>1, <2>1, OverHears
  <2>3. ASSUME Behind, missed' = {}, Aware(tab[t], stream[t])
        PROVE  missed = {} /\ Aware(tab'[t], stream[t])
    <3>1. missed = {} /\ ~(tab[t].run = "pull" /\ ~tab[t].flushing)
      BY <1>5, <2>3 DEF Fail
    <3>2. tab[t].run # "waiting"
      BY <1>5 DEF Fail
    <3> QED
      BY <2>2, <2>3, <3>1, <3>2 DEF Aware
  <2>4. Behind /\ missed' = {} => missed = {}
    BY <1>5 DEF Fail
  <2> QED
    BY <1>2, <2>1, <2>2, <2>3, <2>4, OneTabHears
<1>6. CASE Scan(t)
  BY <1>1, <1>3, <1>4, <1>6 DEF Scan
<1>7. CASE Answer(t)
  BY <1>1, <1>3, <1>7 DEF Answer
<1> QED
  BY <1>5, <1>6, <1>7

(* An event more: whoever listens has one to read.                          *)
LEMMA HearsNotified ==
    ASSUME AutoAssumption, AutoTypeOK, HInv, OtherWrite \/ \E t \in Tab : Push(t)
    PROVE  HInv'
<1>1. stream \in [Tab -> Stream] /\ stream' = Notified /\ leading' = leading
  BY DEF AutoTypeOK, Stream, Push, OtherWrite
<1>2. \A u \in Tab : /\ stream'[u].open = stream[u].open
                     /\ stream[u].open => stream'[u].events > 0
  BY <1>1, HeardIs DEF Notified
<1>3. /\ sent \in Nat /\ sent' \in Nat /\ sent <= sent' /\ pulled' = pulled /\ pulled \in Nat
      /\ \A u \in Tab : tab[u].since \in Nat /\ tab'[u].since = tab[u].since
  BY DEF AutoTypeOK, TabState, Push, OtherWrite, Landed
<1>4. \A u \in Tab : tab'[u].since <= sent' + pulled'
  BY <1>3 DEF HInv
<1> QED
  BY <1>1, <1>2, <1>4 DEF HInv, Aware

(* The greeting: who is behind is past the cursor it was loaded with.       *)
LEMMA HearsConnect ==
    ASSUME AutoTypeOK, HInv, NEW t \in Tab, Connect(t)
    PROVE  HInv'
<1>1. /\ UNCHANGED <<sent, others, pulled, tab, leading, missed>> /\ t \in leading
      /\ stream'[t] = [open |-> TRUE, events |-> Greeting(t)]
      /\ \A u \in Tab \ {t} : stream'[u] = stream[u]
  BY DEF Connect, AutoTypeOK
<1>2. Behind => Greeting(t) = 1
  BY DEF Behind, Greeting, HInv, AutoTypeOK, TabState
<1> QED
  BY <1>1, <1>2 DEF HInv, Behind, Aware

(* An event spent: on a run that will pull, or the history says so.         *)
LEMMA HearsChanged ==
    ASSUME AutoTypeOK, HInv, NEW t \in Tab, Changed(t)
    PROVE  HInv'
<1>1. /\ UNCHANGED <<sent, others, pulled, leading>> /\ tab[t] \in TabState
      /\ tab'[t] = Joined(tab[t]) /\ stream[t].open /\ stream'[t].open
      /\ \A u \in Tab \ {t} : tab'[u] = tab[u] /\ stream'[u] = stream[u]
  BY DEF Changed, AutoTypeOK
<1>2. tab'[t].since = tab[t].since
  BY <1>1, JoinedHears
<1>3. ASSUME Behind, missed' = {}
      PROVE  missed = {} /\ Aware(tab'[t], stream'[t])
  <2>1. tab[t].run \notin {"scan", "push", "answer"} /\ missed = {}
    BY <1>3, LateSays DEF Changed
  <2> QED
    BY <1>1, <2>1, JoinedHears DEF Aware
<1> QED
  BY <1>1, <1>2, <1>3 DEF HInv, Behind

LEMMA HearsDrop ==
    ASSUME AutoTypeOK, HInv, NEW t \in Tab, Drop(t)
    PROVE  HInv'
<1>1. /\ UNCHANGED <<sent, others, pulled, tab, leading, missed>> /\ ~stream'[t].open
      /\ \A u \in Tab \ {t} : stream'[u] = stream[u]
  BY DEF Drop, AutoTypeOK, NoStream
<1> QED
  BY <1>1 DEF HInv, Behind

LEMMA HearsNetwork ==
    ASSUME AutoTypeOK, HInv, GoOffline \/ GoOnline
    PROVE  HInv'
<1>1. UNCHANGED <<sent, others, pulled, leading, stream, missed>>
  BY DEF GoOffline, GoOnline
<1>2. \A s \in TabState :
          Woken(s).since = s.since /\ Woken(s).owed = s.owed /\ Woken(s).run = s.run
  BY DEF Woken, TabState
<1>3. \A t \in Tab : /\ tab'[t].since = tab[t].since /\ tab'[t].owed = tab[t].owed
                     /\ tab'[t].run = tab[t].run
  BY <1>2 DEF GoOffline, GoOnline, AutoTypeOK
<1> QED
  BY <1>1, <1>3 DEF HInv, Behind, Aware

(* The lock passes to a tab that has no stream yet.                         *)
LEMMA HearsReload ==
    ASSUME AutoTypeOK, HInv, NEW t \in Tab, Reload(t)
    PROVE  HInv'
<1>1. /\ UNCHANGED <<sent, others, pulled, missed>> /\ ~stream'[t].open
      /\ tab'[t].since = sent + pulled
      /\ \A u \in Tab \ {t} : stream'[u] = stream[u] /\ tab'[u] = tab[u]
  BY DEF Reload, AutoTypeOK, NoStream, Loaded
<1>2. ASSUME NEW u \in Tab \ {t}, u \in leading PROVE u \in leading'
  <2>1. leading \in Leaderships
    BY DEF AutoTypeOK
  <2>2. CASE Locks /\ t \in leading
    BY <1>2, <2>1, <2>2 DEF Leaderships
  <2>3. CASE ~(Locks /\ t \in leading)
    BY <1>2, <2>3 DEF Reload
  <2> QED
    BY <2>2, <2>3
<1>3. sent + pulled <= sent' + pulled'
  BY <1>1 DEF AutoTypeOK
<1> QED
  BY <1>1, <1>2, <1>3 DEF HInv, Behind

LEMMA HearsStep ==
    ASSUME AutoAssumption, AutoTypeOK, HInv, [NextAuto]_autoVars
    PROVE  HInv'
<1>1. ASSUME NEW t \in Tab, Edit(t) \/ Flush(t) \/ Manual(t) \/ Run(t)
      PROVE  HInv'
  BY <1>1, HearsEdit, HearsFlush, HearsPull, HearsEnd, HearsNotified DEF Run
<1>2. ASSUME NEW t \in Tab, Fail(t) \/ Reload(t) \/ Connect(t) \/ Changed(t) \/ Drop(t)
      PROVE  HInv'
  BY <1>2, HearsEnd, HearsReload, HearsConnect, HearsChanged, HearsDrop
<1>3. CASE OtherWrite
  BY <1>3, HearsNotified
<1>4. CASE GoOffline \/ GoOnline
  BY <1>4, HearsNetwork
<1>5. CASE UNCHANGED autoVars
  BY <1>5 DEF HInv, Behind, autoVars
<1> QED
  BY <1>1, <1>2, <1>3, <1>4, <1>5 DEF NextAuto

(* A tab that listens hears of what the browser lacks, for any number of    *)
(* tabs, with locks or without, through dropped streams, full buffers,      *)
(* reloads and hand-overs of the lock; an event is lost in the two ways     *)
(* named and no other (handleStream, notify, the `changed' listener).       *)
THEOREM AutoChangesAnnounced == SpecAuto => []ChangesAnnounced
<1>1. InitAuto => HInv
  BY HearsInit
<1>2. AutoTypeOK /\ HInv /\ [NextAuto]_autoVars => HInv'
  BY HearsStep, AutoAssumption
<1>3. AutoTypeOK /\ HInv => ChangesAnnounced
  <2>1. AutoTypeOK => leading \subseteq Tab
    BY DEF AutoTypeOK, Leaderships
  <2> QED
    BY <2>1 DEF HInv, ChangesAnnounced, Aware
<1> QED
  BY <1>1, <1>2, <1>3, AutoTypeCorrect, PTL DEF SpecAuto

-----------------------------------------------------------------------------
(* --- the game on the table ---------------------------------------------- *)

Operation == [kind : {"none", "discard", "put away", "record"}, game : Game \cup {NoGame}]

PageState == [at : {"elsewhere", "play", "history"}, shown : Game \cup {NoGame},
              op : Operation, over : BOOLEAN, recorded : BOOLEAN,
              play : Play \cup {NoPlay}, bgg : {"idle", "sending", "sent", "failed"}]

TableState == [phase : {"setup", "briefing", "playing"}, game : Game \cup {NoGame}]

Sent == [tab : Tab, waits : {"screen", "tab", "nobody"}, play : Play, at : {"wire", "back"},
         copy : BOOLEAN, code : {"none", "ok", "bgg_rejected", "bgg_uncertain", "offline"}]

(* A page asks for a game, on the Play page, and the plays that are shown or *)
(* sent are recorded ones.                                                  *)
Fits ==
    /\ \A t \in Tab :
          /\ page[t].op.kind = "none" <=> page[t].op = Idle
          /\ page[t].op # Idle => page[t].at = "play" /\ page[t].op.game # NoGame
          /\ (page[t].at = "history" \/ page[t].recorded) => page[t].play \in DOMAIN plays
    /\ \A i \in DOMAIN posts : posts[i].play \in DOMAIN plays

TInv == TypeOK /\ posts \in Seq(Sent) /\ Fits

-----------------------------------------------------------------------------
(* --- the pieces ------------------------------------------------------------ *)

LEMMA Pieces ==
    /\ Idle \in Operation /\ Idle.kind = "none" /\ Idle.game = NoGame
    /\ Empty \in TableState /\ Empty.phase = "setup" /\ Empty.game = NoGame
    /\ NoCount \in [Play -> Nat] /\ NoPlay \notin Play
    /\ \A p \in Play : NoCount[p] = 0
    /\ \A kind \in {"none", "discard", "put away", "record"}, game \in Game \cup {NoGame} :
          /\ [kind |-> kind, game |-> game] \in Operation
          /\ [kind |-> kind, game |-> game] = Idle <=> kind = "none" /\ game = NoGame
  <1>1. Idle \in Operation /\ Idle.kind = "none" /\ Idle.game = NoGame
    BY DEF Idle, Operation
  <1>2. Empty \in TableState /\ Empty.phase = "setup" /\ Empty.game = NoGame
    BY DEF Empty, TableState
  <1>3. NoCount \in [Play -> Nat] /\ NoPlay \notin Play /\ \A p \in Play : NoCount[p] = 0
    BY DEF NoCount, NoPlay, Play
  <1>4. ASSUME NEW kind \in {"none", "discard", "put away", "record"},
               NEW game \in Game \cup {NoGame}
        PROVE  /\ [kind |-> kind, game |-> game] \in Operation
               /\ [kind |-> kind, game |-> game] = Idle <=> kind = "none" /\ game = NoGame
    BY DEF Operation, Idle
  <1> QED BY <1>1, <1>2, <1>3, <1>4

LEMMA Opening ==
    ASSUME NEW at \in {"elsewhere", "play", "history"}, NEW shown \in Game \cup {NoGame},
           NEW p \in Play \cup {NoPlay}, NEW x, x = Screen(at, shown, p)
    PROVE  /\ x \in PageState /\ x.at = at /\ x.shown = shown /\ x.op = Idle
           /\ ~x.over /\ ~x.recorded /\ x.play = p /\ x.bgg = "idle"
  BY Pieces DEF Screen, PageState

(* One tab changes. *)
LEMMA Turning ==
    ASSUME NEW S, NEW f \in [Tab -> S], NEW g, NEW t \in Tab, NEW x \in S,
           g = [f EXCEPT ![t] = x]
    PROVE  g \in [Tab -> S] /\ g[t] = x /\ \A u \in Tab \ {t} : g[u] = f[u]
  OBVIOUS

(* A post is taken out of the list. *)
LEMMA Removing ==
    ASSUME NEW S, NEW s \in Seq(S), NEW i \in DOMAIN s, NEW z, z = RemoveAt(s, i)
    PROVE  /\ z \in Seq(S) /\ Len(z) = Len(s) - 1
           /\ \A j \in DOMAIN z :
                 /\ j \in Nat
                 /\ IF j < i THEN j \in DOMAIN s /\ z[j] = s[j]
                             ELSE j + 1 \in DOMAIN s /\ z[j] = s[j + 1]
  <1> DEFINE a == SubSeq(s, 1, i - 1)
             b == SubSeq(s, i + 1, Len(s))
             n == Len(s)
  <1>1. i \in 1..n /\ n \in Nat /\ DOMAIN s = 1..n /\ z = a \o b
    BY DEF RemoveAt
  <1>2. \A j \in 1..n : s[j] \in S
    BY <1>1
  <1>3. a \in Seq(S) /\ Len(a) = i - 1 /\ \A j \in 1..(i - 1) : a[j] = s[j]
    <2>1. \A j \in 1..(i - 1) : s[j] \in S
      BY <1>1, <1>2
    <2> HIDE DEF n
    <2>2. /\ a \in Seq(S) /\ Len(a) = IF 1 <= i - 1 THEN (i - 1) - 1 + 1 ELSE 0
          /\ \A j \in 1..(i - 1) - 1 + 1 : a[j] = s[1 + j - 1]
      BY <1>1, <2>1, SubSeqProperties
    <2> HIDE DEF a
    <2>3. \A j \in 1..(i - 1) : a[j] = s[j]
      <3> TAKE j \in 1..(i - 1)
      <3>1. j \in 1..(i - 1) - 1 + 1 /\ 1 + j - 1 = j
        BY <1>1
      <3> QED BY <2>2, <3>1
    <2> QED BY <1>1, <2>2, <2>3
  <1>4. b \in Seq(S) /\ Len(b) = n - i /\ \A j \in 1..(n - i) : b[j] = s[i + j]
    <2>1. \A j \in (i + 1)..n : s[j] \in S
      BY <1>1, <1>2
    <2>a. b = SubSeq(s, i + 1, n)
      OBVIOUS
    <2> HIDE DEF n, b
    <2>2. /\ b \in Seq(S) /\ Len(b) = IF i + 1 <= n THEN n - (i + 1) + 1 ELSE 0
          /\ \A j \in 1..n - (i + 1) + 1 : b[j] = s[i + 1 + j - 1]
      BY <1>1, <2>1, <2>a, SubSeqProperties, SMTT(40)
    <2>3. \A j \in 1..(n - i) : b[j] = s[i + j]
      <3> TAKE j \in 1..(n - i)
      <3>1. j \in 1..n - (i + 1) + 1 /\ i + 1 + j - 1 = i + j
        BY <1>1
      <3> QED BY <2>2, <3>1
    <2> QED BY <1>1, <2>2, <2>3
  <1> HIDE DEF a, b
  <1>5. /\ z \in Seq(S) /\ Len(z) = Len(a) + Len(b)
        /\ \A j \in 1..Len(a) + Len(b) :
              z[j] = IF j <= Len(a) THEN a[j] ELSE b[j - Len(a)]
    <2>1. a \in Seq(S) /\ b \in Seq(S)
      BY <1>3, <1>4
    <2>2. /\ a \o b \in Seq(S) /\ Len(a \o b) = Len(a) + Len(b)
          /\ \A j \in 1..Len(a) + Len(b) :
                (a \o b)[j] = IF j <= Len(a) THEN a[j] ELSE b[j - Len(a)]
      BY <2>1, ConcatProperties
    <2> QED BY <1>1, <2>2
  <1> HIDE DEF n
  <1>c. PICK la : la = Len(a)
    OBVIOUS
  <1>d. PICK lb : lb = Len(b)
    OBVIOUS
  <1>e. i \in 1..n /\ n \in Nat /\ la = i - 1 /\ lb = n - i
    BY <1>1, <1>3, <1>4, <1>c, <1>d
  <1>f. z \in Seq(S) /\ Len(z) = la + lb
        /\ \A j \in 1..la + lb : z[j] = IF j <= la THEN a[j] ELSE b[j - la]
    BY <1>5, <1>c, <1>d
  <1>6. Len(z) = n - 1 /\ DOMAIN z = 1..(n - 1)
    <2>1. la + lb = n - 1
      BY <1>e
    <2> QED BY <1>f, <2>1
  <1>7. ASSUME NEW j \in 1..(n - 1)
        PROVE  IF j < i THEN j \in 1..n /\ z[j] = s[j]
                        ELSE j + 1 \in 1..n /\ z[j] = s[j + 1]
    <2>0. j \in 1..la + lb /\ j \in Nat
      BY <1>e
    <2>1. CASE j < i
      <3>1. j \in 1..(i - 1) /\ j <= la
        BY <1>e, <2>0, <2>1
      <3>2. z[j] = a[j]
        BY <1>f, <2>0, <3>1
      <3> QED BY <1>e, <1>3, <2>0, <2>1, <3>1, <3>2
    <2>2. CASE ~(j < i)
      <3>1. j - la \in 1..(n - i) /\ i + (j - la) = j + 1 /\ ~(j <= la)
        <4>1. la \in Int /\ j \in Int /\ i \in Int /\ j <= n - 1 /\ i <= j
          BY <1>e, <2>0, <2>2, SMTT(40)
        <4>2. j - la \in Int /\ j - la = j + 1 - i /\ 1 <= j - la /\ j - la <= n - i
          BY <1>e, <4>1
        <4> QED BY <1>e, <4>1, <4>2, SMTT(40)
      <3>2. z[j] = b[j - la]
        BY <1>f, <2>0, <3>1
      <3>3. b[j - la] = s[i + (j - la)]
        BY <1>4, <3>1
      <3>4. z[j] = s[j + 1]
        BY <3>1, <3>2, <3>3
      <3>5. j + 1 \in 1..n
        BY <1>e, <2>0
      <3> QED BY <2>2, <3>4, <3>5
    <2> QED BY <2>1, <2>2
  <1>8. DOMAIN s = 1..n /\ n = Len(s)
    BY <1>1 DEF n
  <1>9. ASSUME NEW j \in DOMAIN z
        PROVE  /\ j \in Nat
               /\ IF j < i THEN j \in DOMAIN s /\ z[j] = s[j]
                           ELSE j + 1 \in DOMAIN s /\ z[j] = s[j + 1]
    <2>1. j \in 1..(n - 1)
      BY <1>6
    <2>2. j \in Nat
      BY <1>e, <2>1
    <2>3. IF j < i THEN j \in 1..n /\ z[j] = s[j]
                   ELSE j + 1 \in 1..n /\ z[j] = s[j + 1]
      BY <1>7, <2>1
    <2> QED BY <1>8, <2>2, <2>3
  <1>10. z \in Seq(S) /\ Len(z) = Len(s) - 1
    BY <1>f, <1>6, <1>8
  <1> QED BY <1>9, <1>10

-----------------------------------------------------------------------------
(* --- what each step does to a tab ------------------------------------------- *)

LEMMA Standing ==
    ASSUME TInv
    PROVE  /\ page \in [Tab -> PageState] /\ table \in [Tab -> TableState]
           /\ plays \in Seq([game : Game, reported : BOOLEAN]) /\ Len(plays) \in 0..MaxPlays
           /\ DOMAIN plays = 1..Len(plays) /\ DOMAIN plays \subseteq Play
           /\ \A p \in DOMAIN plays : plays[p] \in [game : Game, reported : BOOLEAN]
           /\ posts \in Seq(Sent) /\ DOMAIN posts = 1..Len(posts)
           /\ \A i \in DOMAIN posts : posts[i] \in Sent
           /\ paused \in Game \cup {NoGame} /\ MaxPlays \in Nat /\ NoGame \notin Game
  <1>1. page \in [Tab -> PageState] /\ table \in [Tab -> TableState]
    BY DEF TInv, TypeOK, PageState, TableState, Operation
  <1>2. plays \in Seq([game : Game, reported : BOOLEAN]) /\ Len(plays) \in 0..MaxPlays
        /\ MaxPlays \in Nat
    <2>1. plays \in Seq([game : Game, reported : BOOLEAN]) /\ Len(plays) <= MaxPlays
      BY DEF TInv, TypeOK
    <2>2. Len(plays) \in Nat
      BY <2>1
    <2> QED BY <2>1, <2>2, TableAssumption
  <1>3. DOMAIN plays = 1..Len(plays) /\ DOMAIN plays \subseteq Play
    BY <1>2 DEF Play
  <1>4. \A p \in DOMAIN plays : plays[p] \in [game : Game, reported : BOOLEAN]
    <2> DEFINE R == [game : Game, reported : BOOLEAN]
    <2>1. plays \in Seq(R)
      BY <1>2
    <2> HIDE DEF R
    <2>2. \A p \in 1..Len(plays) : plays[p] \in R
      BY <2>1
    <2> QED BY <1>3, <2>2 DEF R
  <1>5. posts \in Seq(Sent) /\ DOMAIN posts = 1..Len(posts)
        /\ \A i \in DOMAIN posts : posts[i] \in Sent
    BY DEF TInv
  <1> QED BY <1>1, <1>2, <1>3, <1>4, <1>5, TableAssumption DEF TInv, TypeOK

Turned(t) == page' \in [Tab -> PageState] /\ \A u \in Tab \ {t} : page'[u] = page[u]

Laid(t) == table' \in [Tab -> TableState] /\ \A u \in Tab \ {t} : table'[u] = table[u]

SameGames == UNCHANGED <<table, paused, plays, started, given, strays>>

LEMMA Detouring ==
    ASSUME TInv
    PROVE  /\ Detour => detours' \in 0..MaxDetours
           /\ detours' = detours => detours' \in 0..MaxDetours
  <1>1. detours \in 0..MaxDetours /\ MaxDetours \in Nat
    BY TableAssumption DEF TInv, TypeOK
  <1> QED BY <1>1 DEF Detour

LEMMA OpenDoes ==
    ASSUME TInv, NEW t \in Tab, Open(t)
    PROVE  /\ Turned(t) /\ SameGames /\ UNCHANGED sending /\ detours' \in 0..MaxDetours
           /\ page[t].at = "elsewhere" /\ page[t].op = Idle
           /\ page'[t].at = "play" /\ page'[t].shown = paused /\ page'[t].op = Idle
           /\ ~page'[t].recorded /\ page'[t].bgg = "idle"
  <1>1. PICK x \in PageState :
          /\ x = Screen("play", paused, NoPlay) /\ x.at = "play" /\ x.shown = paused
          /\ x.op = Idle /\ ~x.recorded /\ x.bgg = "idle"
    BY Standing, Opening
  <1>2. page' = [page EXCEPT ![t] = x]
    BY <1>1 DEF Open
  <1>3. page' \in [Tab -> PageState] /\ page'[t] = x /\ \A u \in Tab \ {t} : page'[u] = page[u]
    BY <1>2, Standing
  <1> QED BY <1>1, <1>3, Detouring DEF Open, On, Turned, SameGames

LEMMA LookDoes ==
    ASSUME TInv, NEW t \in Tab, Look(t)
    PROVE  /\ Turned(t) /\ SameGames /\ UNCHANGED sending /\ detours' \in 0..MaxDetours
           /\ page[t].at = "elsewhere" /\ page[t].op = Idle
           /\ page'[t].at = "history" /\ page'[t].shown = NoGame /\ page'[t].op = Idle
           /\ ~page'[t].recorded /\ page'[t].bgg = "idle" /\ page'[t].play \in DOMAIN plays
  <1>1. PICK p \in DOMAIN plays : page' = [page EXCEPT ![t] = Screen("history", NoGame, p)]
    BY DEF Look
  <1>2. PICK x \in PageState :
          /\ x = Screen("history", NoGame, p) /\ x.at = "history" /\ x.shown = NoGame
          /\ x.op = Idle /\ ~x.recorded /\ x.bgg = "idle" /\ x.play = p
    <2>1. p \in Play
      BY Standing
    <2> QED BY <2>1, Opening
  <1>3. page' \in [Tab -> PageState] /\ page'[t] = x /\ \A u \in Tab \ {t} : page'[u] = page[u]
    BY <1>1, <1>2, Standing
  <1> QED BY <1>2, <1>3, Detouring DEF Look, On, Turned, SameGames

(* The posts of a tab, when its screen or the tab itself is left. *)
LEMMA WaitsDoes ==
    ASSUME TInv, NEW t \in Tab, NEW who \in {"tab", "nobody"}, Waits(t, who)
    PROVE  /\ posts' \in Seq(Sent) /\ Len(posts') = Len(posts) /\ DOMAIN posts' = DOMAIN posts
           /\ \A i \in DOMAIN posts :
                 /\ posts'[i].tab = posts[i].tab /\ posts'[i].play = posts[i].play
                 /\ posts'[i].at = posts[i].at /\ (posts'[i].copy <=> posts[i].copy)
                 /\ posts'[i].code = posts[i].code
                 /\ posts'[i].waits = IF posts[i].tab = t /\ posts[i].waits # "nobody"
                                      THEN who ELSE posts[i].waits
  <1> DEFINE n == Len(posts)
  <1>1. posts \in Seq(Sent) /\ DOMAIN posts = 1..n /\ n \in Nat
    BY Standing
  <1>2. posts' = [i \in 1..n |->
                    IF posts[i].tab = t /\ posts[i].waits # "nobody"
                    THEN [posts[i] EXCEPT !.waits = who] ELSE posts[i]]
    BY <1>1 DEF Waits
  <1>3. ASSUME NEW i \in 1..n
        PROVE  /\ posts'[i] \in Sent
               /\ posts'[i].tab = posts[i].tab /\ posts'[i].play = posts[i].play
               /\ posts'[i].at = posts[i].at /\ (posts'[i].copy <=> posts[i].copy)
               /\ posts'[i].code = posts[i].code
               /\ posts'[i].waits = IF posts[i].tab = t /\ posts[i].waits # "nobody"
                                    THEN who ELSE posts[i].waits
    <2>1. PICK q \in Sent : q = posts[i]
      BY <1>1
    <2>2. posts'[i] = IF q.tab = t /\ q.waits # "nobody" THEN [q EXCEPT !.waits = who] ELSE q
      BY <1>2, <2>1
    <2> QED BY <2>1, <2>2 DEF Sent
  <1>4. posts' \in [1..n -> Sent]
    BY <1>2, <1>3
  <1> HIDE DEF n
  <1>5. posts' \in Seq(Sent) /\ Len(posts') = n /\ DOMAIN posts' = 1..n
    BY <1>1, <1>4, SeqDef
  <1> QED BY <1>1, <1>3, <1>5 DEF n

LEMMA LeaveDoes ==
    ASSUME TInv, NEW t \in Tab, Leave(t)
    PROVE  /\ Turned(t) /\ SameGames /\ UNCHANGED <<sends, copies, byHand>>
           /\ detours' \in 0..MaxDetours
           /\ page[t].at # "elsewhere" /\ page[t].op = Idle
           /\ page'[t].at = "elsewhere" /\ page'[t].shown = NoGame /\ page'[t].op = Idle
           /\ ~page'[t].recorded /\ page'[t].bgg = "idle"
           /\ Waits(t, "tab")
           /\ said' = [said EXCEPT ![t] = {}] /\ blind' = [blind EXCEPT ![t] = NoCount]
  <1>1. PICK x \in PageState :
          /\ x = Elsewhere /\ x.at = "elsewhere" /\ x.shown = NoGame
          /\ x.op = Idle /\ ~x.recorded /\ x.bgg = "idle"
    BY Opening DEF Elsewhere
  <1>2. page' = [page EXCEPT ![t] = x]
    BY <1>1 DEF Leave
  <1>3. page' \in [Tab -> PageState] /\ page'[t] = x /\ \A u \in Tab \ {t} : page'[u] = page[u]
    BY <1>2, Standing
  <1>4. page[t].at # "elsewhere" /\ page[t].op = Idle
    BY DEF Leave, On
  <1> QED BY <1>1, <1>3, <1>4, Detouring
       DEF Leave, Turned, SameGames

(* The phases before a game, and whether it is called over.                 *)
LEMMA TouchDoes ==
    ASSUME TInv, NEW t \in Tab,
           GoToBriefing(t) \/ BackToSetup(t) \/ Finish(t) \/ BackToGame(t)
    PROVE  /\ Turned(t) /\ Laid(t) /\ detours' \in 0..MaxDetours
           /\ UNCHANGED <<paused, plays, started, given, strays>> /\ UNCHANGED sending
           /\ page[t].at = "play" /\ page[t].op = Idle /\ ~page[t].recorded
           /\ page'[t].at = "play" /\ page'[t].shown = page[t].shown /\ page'[t].op = Idle
           /\ ~page'[t].recorded /\ page'[t].bgg = page[t].bgg
           /\ page'[t].play = page[t].play
           /\ table'[t].game = table[t].game
           /\ table'[t].phase = "playing" <=> table[t].phase = "playing"
  <1>1. CASE GoToBriefing(t) \/ BackToSetup(t)
    <2>1. PICK from \in {"setup", "briefing"}, to \in {"setup", "briefing"} : Move(t, from, to)
      BY <1>1 DEF GoToBriefing, BackToSetup
    <2>2. PICK r \in TableState : r = table[t] /\ r.phase # "playing" /\ r.game = NoGame
      BY <2>1, Standing DEF Move, TableState
    <2>3. PICK x \in TableState : x = [r EXCEPT !.phase = to]
      BY DEF TableState
    <2>4. table' = [table EXCEPT ![t] = x]
      BY <2>1, <2>2, <2>3 DEF Move
    <2>5. table' \in [Tab -> TableState] /\ table'[t] = x
          /\ \A u \in Tab \ {t} : table'[u] = table[u]
      BY <2>4, Standing
    <2>6. x.game = r.game /\ x.phase = to
      BY <2>3 DEF TableState
    <2> QED BY <2>1, <2>2, <2>5, <2>6, Standing, Detouring DEF Move, On, Turned, Laid
  <1>2. CASE Finish(t) \/ BackToGame(t)
    <2>1. PICK q \in PageState : q = page[t]
      BY Standing
    <2>2. PICK b \in BOOLEAN : page' = [page EXCEPT ![t] = [q EXCEPT !.over = b]]
      BY <1>2, <2>1 DEF Finish, BackToGame
    <2>3. PICK x \in PageState : x = [q EXCEPT !.over = b]
      BY DEF PageState
    <2>4. page' \in [Tab -> PageState] /\ page'[t] = x
          /\ \A u \in Tab \ {t} : page'[u] = page[u]
      BY <2>2, <2>3, Standing
    <2>5. /\ x.at = q.at /\ x.shown = q.shown /\ x.op = q.op /\ (x.recorded <=> q.recorded)
          /\ x.bgg = q.bgg /\ x.play = q.play
      BY <2>3 DEF PageState
    <2> QED BY <1>2, <2>1, <2>4, <2>5, Standing, Detouring
         DEF Finish, BackToGame, Playing, On, Turned, Laid
  <1> QED BY <1>1, <1>2

LEMMA StartDoes ==
    ASSUME TInv, NEW t \in Tab, StartGame(t)
    PROVE  /\ page' = page /\ Laid(t) /\ detours' \in 0..MaxDetours
           /\ UNCHANGED <<paused, plays, given, strays>> /\ UNCHANGED sending
           /\ ~page[t].recorded /\ page[t].op = Idle /\ table[t].game = NoGame
           /\ \E g \in Game \ started :
                 table'[t].phase = "playing" /\ table'[t].game = g /\ started' = started \cup {g}
  <1>1. PICK g \in Game \ started :
          /\ table' = [table EXCEPT ![t] = [phase |-> "playing", game |-> g]]
          /\ started' = started \cup {g}
    BY DEF StartGame
  <1>2. PICK x : x = [phase |-> "playing", game |-> g]
    OBVIOUS
  <1>a. x \in TableState /\ x.phase = "playing" /\ x.game = g
    BY <1>2 DEF TableState
  <1>3. table' \in [Tab -> TableState] /\ table'[t] = x
        /\ \A u \in Tab \ {t} : table'[u] = table[u]
    BY <1>1, <1>2, <1>a, Standing
  <1>4. table[t].game = NoGame
    BY Standing DEF StartGame, TInv, TypeOK
  <1> QED BY <1>1, <1>2, <1>3, <1>4, <1>a, Standing, Detouring DEF StartGame, On, Laid

(* A game thrown away, and the debrief of the last one closed.              *)
LEMMA ClearDoes ==
    ASSUME TInv, NEW t \in Tab, DiscardGame(t) \/ NewGame(t)
    PROVE  /\ Turned(t) /\ Laid(t) /\ detours' \in 0..MaxDetours
           /\ UNCHANGED <<paused, plays, started, strays>> /\ UNCHANGED sending
           /\ page[t].at = "play" /\ page[t].op = Idle
           /\ table'[t] = Empty
           /\ page'[t].at = "play" /\ page'[t].shown = page[t].shown /\ page'[t].op = Idle
           /\ ~page'[t].recorded /\ page'[t].bgg = "idle"
           /\ given' \in {given, given \cup {table[t].game}}
           /\ table[t].game # NoGame => given' = given \cup {table[t].game}
           /\ given' # given => table[t].game # NoGame
  <1>1. table' = [table EXCEPT ![t] = Empty] /\ page' = [page EXCEPT ![t] = Forget(t)]
    BY DEF DiscardGame, NewGame, Cleared
  <1>2. table' \in [Tab -> TableState] /\ table'[t] = Empty
        /\ \A u \in Tab \ {t} : table'[u] = table[u]
    BY <1>1, Standing, Pieces
  <1>3. PICK q \in PageState : q = page[t]
    BY Standing
  <1>4. PICK x : x = [q EXCEPT !.over = FALSE, !.recorded = FALSE, !.play = NoPlay, !.bgg = "idle"]
    OBVIOUS
  <1>5. /\ x \in PageState /\ x.at = q.at /\ x.shown = q.shown /\ x.op = q.op
        /\ ~x.recorded /\ x.bgg = "idle"
    BY <1>4 DEF PageState
  <1>6. page' \in [Tab -> PageState] /\ page'[t] = x /\ \A u \in Tab \ {t} : page'[u] = page[u]
    BY <1>1, <1>3, <1>4, <1>5, Standing DEF Forget
  <1>7. CASE DiscardGame(t)
    <2>1. table[t].game # NoGame
      BY <1>7 DEF DiscardGame, Playing, TInv, TypeOK
    <2> QED BY <1>2, <1>3, <1>5, <1>6, <1>7, <2>1, Detouring
         DEF DiscardGame, Playing, On, Turned, Laid
  <1>8. CASE NewGame(t)
    <2>1. table[t].game = NoGame
      BY <1>8, Pieces DEF NewGame, TInv, TypeOK
    <2> QED BY <1>2, <1>3, <1>5, <1>6, <1>8, <2>1, Detouring DEF NewGame, On, Turned, Laid
  <1> QED BY <1>7, <1>8

(* A write is asked of the disk. *)
LEMMA AskDoes ==
    ASSUME TInv, NEW t \in Tab, NEW kind \in {"discard", "put away", "record"},
           NEW g \in Game, Ask(t, kind, g)
    PROVE  /\ Turned(t)
           /\ page'[t].at = page[t].at /\ page'[t].shown = page[t].shown
           /\ page'[t].op # Idle /\ page'[t].op.kind = kind /\ page'[t].op.game = g
           /\ (page'[t].recorded <=> page[t].recorded)
           /\ page'[t].bgg = page[t].bgg /\ page'[t].play = page[t].play
  <1>1. PICK q \in PageState : q = page[t]
    BY Standing
  <1>2. PICK op : op = [kind |-> kind, game |-> g]
    OBVIOUS
  <1>3. op \in Operation /\ op # Idle /\ op.kind = kind /\ op.game = g
    BY <1>2, Pieces
  <1>4. PICK x : x = [q EXCEPT !.op = op]
    OBVIOUS
  <1>5. /\ x \in PageState /\ x.at = q.at /\ x.shown = q.shown /\ x.op = op
        /\ (x.recorded <=> q.recorded) /\ x.bgg = q.bgg /\ x.play = q.play
    BY <1>3, <1>4 DEF PageState
  <1>6. page' \in [Tab -> PageState] /\ page'[t] = x /\ \A u \in Tab \ {t} : page'[u] = page[u]
    BY <1>1, <1>2, <1>4, <1>5, Standing DEF Ask
  <1> QED BY <1>1, <1>3, <1>5, <1>6 DEF Turned

(* The game on the table is put away, or recorded. *)
LEMMA SaveDoes ==
    ASSUME TInv, NEW t \in Tab, PutAway(t) \/ Record(t)
    PROVE  /\ Turned(t) /\ SameGames /\ UNCHANGED sending /\ detours' \in 0..MaxDetours
           /\ page[t].at = "play" /\ page[t].op = Idle /\ ~page[t].recorded
           /\ page'[t].at = "play" /\ page'[t].shown = page[t].shown
           /\ page'[t].op # Idle /\ page'[t].op.kind \in {"put away", "record"}
           /\ page'[t].op.game = table[t].game /\ table[t].game \in Game
           /\ ~page'[t].recorded
           /\ page'[t].bgg = page[t].bgg /\ page'[t].play = page[t].play
           /\ page'[t].op.kind = "record" =>
                 \A i \in DOMAIN posts : posts[i].tab = t => posts[i].waits # "screen"
  <1>1. table[t].game \in Game
    <2>1. table[t] \in TableState /\ table[t].phase = "playing"
      BY Standing DEF PutAway, Record, Playing
    <2>2. table[t].game # NoGame
      BY <2>1 DEF TInv, TypeOK
    <2> QED BY <2>1, <2>2 DEF TableState
  <1>2. CASE PutAway(t)
    <2>1. Ask(t, "put away", table[t].game)
      BY <1>2 DEF PutAway
    <2>2. table' = table
      <3>1. table' = [table EXCEPT ![t] = table[t]] /\ table \in [Tab -> TableState]
        BY <1>2, Standing DEF PutAway, TableWhileWriting
      <3> QED BY <3>1
    <2>3. page[t].at = "play" /\ page[t].op = Idle /\ ~page[t].recorded
      BY <1>2 DEF PutAway, Playing, On
    <2>4. detours' \in 0..MaxDetours
      BY <1>2, Detouring DEF PutAway
    <2>5. UNCHANGED <<paused, plays, started, given, strays, sending>>
      BY <1>2 DEF PutAway
    <2> QED BY <1>1, <2>1, <2>2, <2>3, <2>4, <2>5, AskDoes DEF SameGames
  <1>3. CASE Record(t)
    <2>1. Ask(t, "record", table[t].game)
      BY <1>3 DEF Record
    <2>3. page[t].at = "play" /\ page[t].op = Idle /\ ~page[t].recorded
      BY <1>3 DEF Record, Playing, On
    <2>4. detours' \in 0..MaxDetours
      BY <1>3, Detouring DEF Record
    <2>5. UNCHANGED <<table, paused, plays, started, given, strays, sending>>
      BY <1>3 DEF Record
    <2>6. \A i \in DOMAIN posts : posts[i].tab = t => posts[i].waits # "screen"
      BY <1>3 DEF Record
    <2> QED BY <1>1, <2>1, <2>3, <2>4, <2>5, <2>6, AskDoes DEF SameGames
  <1> QED BY <1>2, <1>3

LEMMA OfferedGame ==
    ASSUME TInv, NEW t \in Tab, Offered(t)
    PROVE  /\ page[t].at = "play" /\ page[t].op = Idle /\ ~page[t].recorded
           /\ page[t].shown \in Game /\ table[t].game = NoGame
  <1>1. page[t] \in PageState /\ table[t] \in TableState
    BY Standing
  <1>2. page[t].shown \in Game
    BY <1>1 DEF Offered, PageState
  <1>3. table[t].game = NoGame
    BY DEF Offered, TInv, TypeOK
  <1> QED BY <1>2, <1>3 DEF Offered, On

LEMMA ThrowDoes ==
    ASSUME TInv, NEW t \in Tab, ThrowAway(t)
    PROVE  /\ Turned(t) /\ UNCHANGED <<table, paused, plays, started, strays>>
           /\ UNCHANGED sending /\ detours' \in 0..MaxDetours
           /\ page[t].at = "play" /\ page[t].op = Idle /\ ~page[t].recorded
           /\ page[t].shown \in Game
           /\ page'[t].at = "play" /\ page'[t].shown = page[t].shown
           /\ page'[t].op # Idle /\ page'[t].op.kind = "discard"
           /\ page'[t].op.game = page[t].shown
           /\ ~page'[t].recorded
           /\ page'[t].bgg = page[t].bgg /\ page'[t].play = page[t].play
           /\ given' = given \cup {page[t].shown}
  <1>1. Ask(t, "discard", page[t].shown)
    BY DEF ThrowAway
  <1>2. detours' \in 0..MaxDetours
    BY Detouring DEF ThrowAway
  <1>3. Offered(t) /\ given' = given \cup {page[t].shown}
        /\ UNCHANGED <<table, paused, plays, started, strays, sending>>
    BY DEF ThrowAway
  <1>a. /\ page[t].at = "play" /\ page[t].op = Idle /\ ~page[t].recorded
        /\ page[t].shown \in Game /\ table[t].game = NoGame
    BY <1>3, OfferedGame
  <1>b. PICK g \in Game : g = page[t].shown
    BY <1>a
  <1>c. Ask(t, "discard", g)
    BY <1>1, <1>b
  <1>d. /\ Turned(t)
        /\ page'[t].at = page[t].at /\ page'[t].shown = page[t].shown
        /\ page'[t].op # Idle /\ page'[t].op.kind = "discard" /\ page'[t].op.game = g
        /\ (page'[t].recorded <=> page[t].recorded)
        /\ page'[t].bgg = page[t].bgg /\ page'[t].play = page[t].play
    BY <1>c, AskDoes
  <1> QED BY <1>2, <1>3, <1>a, <1>b, <1>d

LEMMA ResumeDoes ==
    ASSUME TInv, NEW t \in Tab, Resume(t)
    PROVE  /\ Turned(t) /\ Laid(t) /\ UNCHANGED <<paused, plays, started, given>>
           /\ UNCHANGED sending /\ detours' \in 0..MaxDetours
           /\ page[t].at = "play" /\ page[t].op = Idle /\ ~page[t].recorded
           /\ page[t].shown \in Game /\ table[t].game = NoGame
           /\ table'[t].phase = "playing" /\ table'[t].game = page[t].shown
           /\ page'[t].at = "play" /\ page'[t].shown = page[t].shown
           /\ page'[t].op # Idle /\ page'[t].op.kind = "discard"
           /\ page'[t].op.game = page[t].shown
           /\ ~page'[t].recorded
           /\ page'[t].bgg = page[t].bgg /\ page'[t].play = page[t].play
           /\ strays' = strays \cup ({page[t].shown} \ ({paused} \ OnTables))
  <1>1. Ask(t, "discard", page[t].shown)
    BY DEF Resume
  <1>2. detours' \in 0..MaxDetours
    BY Detouring DEF Resume
  <1>3. Offered(t) /\ strays' = strays \cup ({page[t].shown} \ ({paused} \ OnTables))
        /\ UNCHANGED <<paused, plays, started, given, sending>>
    BY DEF Resume
  <1>4. page[t].shown \in Game
    BY <1>3, OfferedGame
  <1>5. PICK x : x = [phase |-> "playing", game |-> page[t].shown]
    OBVIOUS
  <1>6. x \in TableState /\ x.phase = "playing" /\ x.game = page[t].shown
    BY <1>4, <1>5 DEF TableState
  <1>7. table' = [table EXCEPT ![t] = x]
    BY <1>5 DEF Resume
  <1>8. table' \in [Tab -> TableState] /\ table'[t] = x
        /\ \A u \in Tab \ {t} : table'[u] = table[u]
    BY <1>6, <1>7, Standing
  <1>a. /\ page[t].at = "play" /\ page[t].op = Idle /\ ~page[t].recorded
        /\ page[t].shown \in Game /\ table[t].game = NoGame
    BY <1>3, OfferedGame
  <1>b. PICK g \in Game : g = page[t].shown
    BY <1>a
  <1>c. Ask(t, "discard", g)
    BY <1>1, <1>b
  <1>d. /\ Turned(t)
        /\ page'[t].at = page[t].at /\ page'[t].shown = page[t].shown
        /\ page'[t].op # Idle /\ page'[t].op.kind = "discard" /\ page'[t].op.game = g
        /\ (page'[t].recorded <=> page[t].recorded)
        /\ page'[t].bgg = page[t].bgg /\ page'[t].play = page[t].play
    BY <1>c, AskDoes
  <1>9. Laid(t) /\ table'[t].phase = "playing" /\ table'[t].game = page[t].shown
    BY <1>6, <1>8 DEF Laid
  <1> QED BY <1>2, <1>3, <1>9, <1>a, <1>b, <1>d

Row == [game : Game, reported : BOOLEAN]

(* The rows stay, with their games. *)
SameRows ==
    /\ plays' \in Seq(Row) /\ Len(plays') = Len(plays) /\ DOMAIN plays' = DOMAIN plays
    /\ \A p \in DOMAIN plays : plays'[p].game = plays[p].game

(* A row is added. *)
Added(g) ==
    /\ plays' \in Seq(Row) /\ Len(plays') = Len(plays) + 1 /\ Len(plays') \in Play
    /\ DOMAIN plays' = DOMAIN plays \cup {Len(plays')} /\ Len(plays') \notin DOMAIN plays
    /\ \A p \in DOMAIN plays : plays'[p] = plays[p]
    /\ plays'[Len(plays')].game = g /\ ~plays'[Len(plays')].reported

LEMMA Recording ==
    ASSUME TInv, NEW g \in Game, Len(plays) < MaxPlays,
           plays' = Append(plays, [game |-> g, reported |-> FALSE])
    PROVE  Added(g)
  <1>1. PICK r : r = [game |-> g, reported |-> FALSE]
    OBVIOUS
  <1>2. r \in Row /\ r.game = g /\ ~r.reported
    BY <1>1 DEF Row
  <1>n. Len(plays) \in Nat
    BY Standing
  <1>3. PICK n \in Nat : n = Len(plays)
    BY <1>n
  <1>4. plays \in Seq(Row) /\ DOMAIN plays = 1..n /\ n < MaxPlays /\ MaxPlays \in Nat
    BY <1>3, Standing DEF Row
  <1>5. plays' = Append(plays, r)
    BY <1>1
  <1>6. /\ plays' \in Seq(Row) /\ Len(plays') = n + 1
        /\ \A p \in 1..n : plays'[p] = plays[p]
        /\ plays'[n + 1] = r
    BY <1>2, <1>3, <1>4, <1>5, AppendProperties
  <1>7. DOMAIN plays' = 1..(n + 1)
    BY <1>6
  <1>8. n + 1 \in Play /\ 1..(n + 1) = 1..n \cup {n + 1} /\ n + 1 \notin 1..n
    BY <1>3, <1>4 DEF Play
  <1> QED BY <1>2, <1>3, <1>4, <1>6, <1>7, <1>8 DEF Added

(* What a write leaves, whatever was asked. *)
LEMMA WriteDoes ==
    ASSUME TInv, NEW op \in Operation, NEW gone \in SUBSET Game, Write(op, gone),
           op.kind # "none" => op.game # NoGame
    PROVE  /\ op.kind \in {"none", "discard", "put away", "record"}
           /\ op.kind = "none" =>
                 /\ paused' = paused /\ plays' = plays /\ strays' = strays
                 /\ given' = given \cup gone
           /\ op.kind = "discard" =>
                 /\ paused' = NoGame /\ plays' = plays
                 /\ strays' = strays \cup ({paused} \ {NoGame, op.game})
                 /\ given' = given \cup gone
           /\ op.kind = "put away" =>
                 /\ paused' = op.game /\ plays' = plays /\ strays' = strays
                 /\ given' = given \cup gone \cup ({paused} \ {NoGame})
           /\ op.kind = "record" =>
                 /\ paused' = paused /\ Added(op.game) /\ strays' = strays
                 /\ given' = given \cup gone
           /\ op.kind # "record" => plays' = plays
           /\ paused' \in Game \cup {NoGame} /\ given' \subseteq Game /\ strays' \subseteq Game
           /\ plays' \in Seq(Row) /\ Len(plays') <= MaxPlays
           /\ DOMAIN plays \subseteq DOMAIN plays'
  <1>1. /\ op.kind \in {"none", "discard", "put away", "record"} /\ op.game \in Game \cup {NoGame}
        /\ paused \in Game \cup {NoGame} /\ given \subseteq Game /\ strays \subseteq Game
    BY DEF Operation, TInv, TypeOK
  <1>2. plays \in Seq(Row) /\ Len(plays) <= MaxPlays
    BY DEF TInv, TypeOK, Row
  <1>3. CASE op.kind = "none"
    BY <1>1, <1>2, <1>3 DEF Write
  <1>4. CASE op.kind = "discard"
    BY <1>1, <1>2, <1>4 DEF Write
  <1>5. CASE op.kind = "put away"
    BY <1>1, <1>2, <1>5 DEF Write
  <1>6. CASE op.kind = "record"
    <2>1. /\ Len(plays) < MaxPlays
          /\ plays' = Append(plays, [game |-> op.game, reported |-> FALSE])
          /\ given' = given \cup gone /\ paused' = paused /\ strays' = strays
      BY <1>6 DEF Write
    <2>2. Added(op.game)
      BY <1>1, <1>6, <2>1, Recording
    <2>3. Len(plays') <= MaxPlays
      BY <2>2, TableAssumption DEF Added, Play
    <2> QED BY <1>1, <1>6, <2>1, <2>2, <2>3 DEF Added
  <1> QED BY <1>1, <1>3, <1>4, <1>5, <1>6

(* A call that leaves the tab. *)
LEMMA PostDoes ==
    ASSUME TInv, NEW t \in Tab, NEW p \in Play, Post(t, p)
    PROVE  /\ sends' \in 0..MaxSends /\ Len(posts') <= sends'
           /\ posts' \in Seq(Sent) /\ Len(posts') = Len(posts) + 1
           /\ DOMAIN posts' = DOMAIN posts \cup {Len(posts')} /\ Len(posts') \notin DOMAIN posts
           /\ \A i \in DOMAIN posts : posts'[i] = posts[i]
           /\ posts'[Len(posts')].tab = t /\ posts'[Len(posts')].waits = "screen"
           /\ posts'[Len(posts')].play = p /\ posts'[Len(posts')].code = "none"
           /\ ~posts'[Len(posts')].copy
  <1>1. PICK r : r = [tab |-> t, waits |-> "screen", play |-> p, at |-> "wire",
                      copy |-> FALSE, code |-> "none"]
    OBVIOUS
  <1>2. /\ r \in Sent /\ r.tab = t /\ r.waits = "screen" /\ r.play = p /\ r.code = "none"
        /\ ~r.copy
    BY <1>1 DEF Sent
  <1>n. Len(posts) \in Nat
    BY Standing
  <1>3. PICK n \in Nat : n = Len(posts)
    BY <1>n
  <1>4. posts \in Seq(Sent) /\ DOMAIN posts = 1..n
    BY <1>3, Standing
  <1>5. posts' = Append(posts, r) /\ sends' = sends + 1 /\ sends' <= MaxSends
    BY <1>1 DEF Post
  <1>6. /\ posts' \in Seq(Sent) /\ Len(posts') = n + 1
        /\ \A i \in 1..n : posts'[i] = posts[i]
        /\ posts'[n + 1] = r
    BY <1>2, <1>3, <1>4, <1>5, AppendProperties
  <1>7. DOMAIN posts' = 1..n \cup {n + 1} /\ n + 1 \notin 1..n
    <2>1. DOMAIN posts' = 1..(n + 1)
      BY <1>6
    <2> QED BY <1>3, <2>1
  <1>8. sends \in 0..MaxSends /\ n <= sends /\ MaxSends \in Nat
    BY <1>3, TableAssumption DEF TInv, TypeOK
  <1>9. sends' \in 0..MaxSends /\ n + 1 <= sends'
    BY <1>3, <1>5, <1>8
  <1> QED BY <1>2, <1>4, <1>6, <1>7, <1>9

LEMMA WrittenDoes ==
    ASSUME TInv, NEW t \in Tab, Written(t)
    PROVE  /\ Turned(t) /\ Laid(t) /\ detours' \in 0..MaxDetours
           /\ UNCHANGED <<copies, detours, started, byHand, said, blind>>
           /\ page[t].at = "play" /\ page[t].op \in Operation /\ page[t].op # Idle
           /\ page[t].op.game \in Game
           /\ page[t].op.kind \in {"discard", "put away", "record"}
           /\ Write(page[t].op, {})
           /\ page[t].op.kind = "discard" => table' = table
           /\ page[t].op.kind # "discard" => table'[t] = Empty
           /\ page'[t].at = "play" /\ page'[t].op = Idle
           /\ page[t].op.kind = "record" =>
                 /\ page'[t].shown = page[t].shown /\ page'[t].recorded
                 /\ page'[t].play = Len(plays') /\ Len(plays') \in Play
                 /\ \/ page'[t].bgg = "sending" /\ Post(t, Len(plays'))
                    \/ page'[t].bgg = "idle" /\ UNCHANGED <<posts, sends>>
           /\ page[t].op.kind # "record" =>
                 /\ page'[t].shown = paused' /\ (page'[t].recorded <=> page[t].recorded)
                 /\ page'[t].play = page[t].play /\ page'[t].bgg = page[t].bgg
                 /\ UNCHANGED <<posts, sends>>
  <1>1. PICK q \in PageState : q = page[t]
    BY Standing
  <1>2. q.op # Idle /\ Write(q.op, {}) /\ q.op \in Operation /\ q.at = "play"
        /\ q.op.game # NoGame /\ q.op.kind # "none"
    BY <1>1 DEF Written, PageState, TInv, Fits
  <1>3. q.op.game \in Game /\ q.op.kind \in {"discard", "put away", "record"}
    BY <1>2 DEF Operation
  <1>4. paused' \in Game \cup {NoGame} /\ (q.op.kind = "record" => Added(q.op.game))
    <2> DEFINE op == q.op
    <2>1. op \in Operation /\ {} \in SUBSET Game /\ Write(op, {}) /\ op.game # NoGame
      BY <1>2
    <2> HIDE DEF op
    <2>2. paused' \in Game \cup {NoGame} /\ (op.kind = "record" => Added(op.game))
      BY <2>1, WriteDoes
    <2> QED BY <2>2 DEF op
  <1>5. /\ table' \in [Tab -> TableState] /\ \A u \in Tab \ {t} : table'[u] = table[u]
        /\ q.op.kind = "discard" => table' = table
        /\ q.op.kind # "discard" => table'[t] = Empty
    <2>1. CASE q.op.kind = "discard"
      <3>1. table' = table
        BY <1>1, <2>1 DEF Written
      <3> QED BY <2>1, <3>1, Standing
    <2>2. CASE q.op.kind # "discard"
      <3>1. table' = [table EXCEPT ![t] = Empty]
        BY <1>1, <2>2 DEF Written, TableAfterWrite
      <3> QED BY <2>2, <3>1, Standing, Pieces
    <2> QED BY <2>1, <2>2
  <1>6. UNCHANGED <<copies, detours, started, byHand, said, blind>>
    BY DEF Written
  <1>7. CASE q.op.kind = "record"
    <2>1. PICK n \in Play : n = Len(plays')
      BY <1>4, <1>7 DEF Added
    <2>2. PICK b \in {"sending", "idle"} :
            /\ page' = [page EXCEPT ![t] =
                          [q EXCEPT !.op = Idle, !.recorded = TRUE, !.play = n, !.bgg = b]]
            /\ \/ b = "sending" /\ Post(t, n)
               \/ b = "idle" /\ UNCHANGED <<posts, sends>>
      <3>1. PICK always \in BOOLEAN :
              /\ page' = [page EXCEPT ![t].op = Idle, ![t].recorded = TRUE,
                              ![t].play = Len(plays'),
                              ![t].bgg = IF always THEN "sending" ELSE "idle"]
              /\ IF always THEN Post(t, Len(plays')) ELSE UNCHANGED <<posts, sends>>
        BY <1>1, <1>7 DEF Written
      <3>2. page \in [Tab -> PageState]
        BY Standing
      <3>3. PICK b : b = IF always THEN "sending" ELSE "idle"
        OBVIOUS
      <3>4. page' = [page EXCEPT ![t].op = Idle, ![t].recorded = TRUE,
                              ![t].play = n, ![t].bgg = b]
        BY <2>1, <3>1, <3>3
      <3>5. page' = [page EXCEPT ![t] =
                          [q EXCEPT !.op = Idle, !.recorded = TRUE, !.play = n, !.bgg = b]]
        BY <1>1, <3>2, <3>4
      <3> QED BY <2>1, <3>1, <3>3, <3>5
    <2>3. PICK x : x = [q EXCEPT !.op = Idle, !.recorded = TRUE, !.play = n, !.bgg = b]
      OBVIOUS
    <2>4. /\ x \in PageState /\ x.at = q.at /\ x.shown = q.shown /\ x.op = Idle
          /\ x.recorded /\ x.play = n /\ x.bgg = b
      BY <2>2, <2>3, Pieces DEF PageState
    <2>5. page' \in [Tab -> PageState] /\ page'[t] = x
          /\ \A u \in Tab \ {t} : page'[u] = page[u]
      BY <2>2, <2>3, <2>4, Standing
    <2> QED BY <1>1, <1>2, <1>3, <1>5, <1>6, <1>7, <2>1, <2>2, <2>4, <2>5, Detouring
         DEF Turned, Laid
  <1>8. CASE q.op.kind # "record"
    <2>1. /\ page' = [page EXCEPT ![t].op = Idle, ![t].shown = paused']
          /\ UNCHANGED <<posts, sends>>
      BY <1>1, <1>8 DEF Written
    <2>2. page' = [page EXCEPT ![t] = [q EXCEPT !.op = Idle, !.shown = paused']]
      BY <1>1, <2>1, Standing
    <2>3. PICK x : x = [q EXCEPT !.op = Idle, !.shown = paused']
      OBVIOUS
    <2>4. /\ x \in PageState /\ x.at = q.at /\ x.shown = paused' /\ x.op = Idle
          /\ (x.recorded <=> q.recorded) /\ x.play = q.play /\ x.bgg = q.bgg
      BY <1>4, <2>3, Pieces DEF PageState
    <2>5. page' \in [Tab -> PageState] /\ page'[t] = x
          /\ \A u \in Tab \ {t} : page'[u] = page[u]
      BY <2>2, <2>3, <2>4, Standing
    <2> QED BY <1>1, <1>2, <1>3, <1>5, <1>6, <1>8, <2>1, <2>4, <2>5, Detouring
         DEF Turned, Laid
  <1> QED BY <1>7, <1>8

LEMMA CloseDoes ==
    ASSUME TInv, NEW t \in Tab, Close(t)
    PROVE  /\ Turned(t) /\ Laid(t) /\ detours' \in 0..MaxDetours
           /\ UNCHANGED <<sends, copies, started, byHand>>
           /\ table'[t] = Empty
           /\ page'[t].at = "elsewhere" /\ page'[t].shown = NoGame /\ page'[t].op = Idle
           /\ ~page'[t].recorded /\ page'[t].bgg = "idle"
           /\ Waits(t, "nobody")
           /\ said' = [said EXCEPT ![t] = {}] /\ blind' = [blind EXCEPT ![t] = NoCount]
           /\ {table[t].game} \ {NoGame} \in SUBSET Game
           /\ \E op \in Operation :
                 /\ op = page[t].op \/ op = Idle
                 /\ op.kind # "none" => op.game # NoGame /\ op = page[t].op
                 /\ Write(op, {table[t].game} \ {NoGame})
  <1>1. PICK x \in PageState :
          /\ x = Elsewhere /\ x.at = "elsewhere" /\ x.shown = NoGame
          /\ x.op = Idle /\ ~x.recorded /\ x.bgg = "idle"
    BY Opening DEF Elsewhere
  <1>2. page' = [page EXCEPT ![t] = x] /\ table' = [table EXCEPT ![t] = Empty]
    BY <1>1 DEF Close
  <1>3. page' \in [Tab -> PageState] /\ page'[t] = x /\ \A u \in Tab \ {t} : page'[u] = page[u]
    BY <1>2, Standing
  <1>4. table' \in [Tab -> TableState] /\ table'[t] = Empty
        /\ \A u \in Tab \ {t} : table'[u] = table[u]
    BY <1>2, Standing, Pieces
  <1>5. PICK op \in {page[t].op, Idle} : Write(op, {table[t].game} \ {NoGame})
    BY DEF Close
  <1>6. page[t] \in PageState /\ table[t] \in TableState
    BY Standing
  <1>7. /\ op \in Operation /\ (op = page[t].op \/ op = Idle)
        /\ op.kind # "none" => op.game # NoGame /\ op = page[t].op
    <2>1. CASE op = Idle
      BY <2>1, Pieces
    <2>2. CASE op = page[t].op
      <3>1. op \in Operation
        BY <1>6, <2>2 DEF PageState
      <3>2. op.kind # "none" => op.game # NoGame
        BY <2>2 DEF TInv, Fits
      <3> QED BY <2>2, <3>1, <3>2
    <2> QED BY <1>5, <2>1, <2>2
  <1>8. {table[t].game} \ {NoGame} \in SUBSET Game
    BY <1>6 DEF TableState
  <1> QED BY <1>1, <1>3, <1>4, <1>5, <1>7, <1>8, Detouring DEF Close, Turned, Laid

(* A page seen from the games: where it is, what it has read and asked.     *)
SamePlace(t) ==
    /\ page'[t].at = page[t].at /\ page'[t].shown = page[t].shown
    /\ page'[t].op = page[t].op /\ (page'[t].recorded <=> page[t].recorded)

LEMMA SendDoes ==
    ASSUME TInv, NEW t \in Tab, Send(t)
    PROVE  /\ Turned(t) /\ SamePlace(t) /\ detours' \in 0..MaxDetours
           /\ UNCHANGED <<table, paused, plays, copies, started, given, strays, byHand,
                          said, blind>>
           /\ page[t].op = Idle /\ page[t].play \in DOMAIN plays /\ page[t].play \in Play
           /\ page[t].at = "history" \/ page[t].recorded
           /\ page[t].bgg # "sending"
           /\ page[t].recorded => page[t].bgg # "sent" \/ page[t].at = "history"
           /\ page[t].at = "history" => ~plays[page[t].play].reported
           /\ page'[t].bgg = "sending" /\ page'[t].play = page[t].play
           /\ Post(t, page[t].play)
  <1>1. PICK q \in PageState : q = page[t]
    BY Standing
  <1>2. /\ q.op = Idle /\ (q.at = "history" \/ q.recorded) /\ q.bgg # "sending"
        /\ q.recorded => q.bgg # "sent" \/ q.at = "history"
        /\ q.at = "history" => ~plays[q.play].reported
    BY <1>1 DEF Send, SendFromDebrief, SendFromHistory, On
  <1>3. q.play \in DOMAIN plays /\ q.play \in Play
    BY <1>1, <1>2, Standing DEF TInv, Fits
  <1>4. PICK x : x = [q EXCEPT !.bgg = "sending"]
    OBVIOUS
  <1>5. /\ x \in PageState /\ x.at = q.at /\ x.shown = q.shown /\ x.op = q.op
        /\ (x.recorded <=> q.recorded) /\ x.bgg = "sending" /\ x.play = q.play
    BY <1>4 DEF PageState
  <1>6. page' = [page EXCEPT ![t] = x]
    BY <1>1, <1>4, Standing DEF Send
  <1>7. page' \in [Tab -> PageState] /\ page'[t] = x /\ \A u \in Tab \ {t} : page'[u] = page[u]
    BY <1>5, <1>6, Standing
  <1> QED BY <1>1, <1>2, <1>3, <1>5, <1>7, Detouring DEF Send, Turned, SamePlace

(* What the way of a post to BoardGameGeek does to it: it comes back, with  *)
(* a copy made or not, or it is lost.                                       *)
LEMMA WireDoes ==
    ASSUME TInv, NEW i \in DOMAIN posts, Relay(i) \/ Lose(i)
    PROVE  /\ UNCHANGED <<table, page, paused, plays, sends, started, given, strays,
                          byHand, said, blind>>
           /\ detours' \in 0..MaxDetours
           /\ posts' \in Seq(Sent) /\ Len(posts') = Len(posts) /\ DOMAIN posts' = DOMAIN posts
           /\ \A j \in DOMAIN posts :
                 /\ posts'[j].tab = posts[j].tab /\ posts'[j].waits = posts[j].waits
                 /\ posts'[j].play = posts[j].play
                 /\ j # i => posts'[j] = posts[j]
           /\ posts'[i].code = "ok" => posts'[i].copy
           /\ copies' \in [Play -> Nat] /\ \A p \in Play : copies'[p] >= copies[p]
           /\ \/ /\ posts'[i].code = "offline" /\ (posts'[i].copy <=> posts[i].copy)
                 /\ copies' = copies
              \/ /\ posts'[i].code \in {"ok", "bgg_rejected", "bgg_uncertain"}
                 /\ posts'[i].copy => /\ posts'[i].code \in {"ok", "bgg_rejected", "bgg_uncertain"}
                                      /\ copies'[posts[i].play] > 0
  <1>1. PICK q \in Sent : q = posts[i]
    BY Standing
  <1>2. copies \in [Play -> Nat] /\ q.play \in Play
    BY DEF TInv, TypeOK, Sent
  <1>3. ASSUME NEW x \in Sent, posts' = [posts EXCEPT ![i] = x],
               x.tab = q.tab, x.waits = q.waits, x.play = q.play
        PROVE  /\ posts' \in Seq(Sent) /\ Len(posts') = Len(posts)
               /\ DOMAIN posts' = DOMAIN posts /\ posts'[i] = x
               /\ \A j \in DOMAIN posts :
                     /\ posts'[j].tab = posts[j].tab /\ posts'[j].waits = posts[j].waits
                     /\ posts'[j].play = posts[j].play
                     /\ j # i => posts'[j] = posts[j]
    <2>1. posts \in Seq(Sent) /\ i \in 1..Len(posts) /\ DOMAIN posts = 1..Len(posts)
      BY Standing
    <2>2. posts' \in Seq(Sent) /\ Len(posts') = Len(posts)
      <3>1. [posts EXCEPT ![i] = x] \in Seq(Sent) /\ Len([posts EXCEPT ![i] = x]) = Len(posts)
        BY <1>3, <2>1, ExceptSeq, Zenon
      <3> QED BY <1>3, <3>1
    <2>3. posts'[i] = x /\ DOMAIN posts' = DOMAIN posts
          /\ \A j \in DOMAIN posts : j # i => posts'[j] = posts[j]
      BY <1>3, <2>1
    <2> QED BY <1>1, <1>3, <2>2, <2>3
  <1>4. CASE Relay(i)
    <2>1. PICK o \in Answered \cup CutOff \cup Misread :
            /\ IF o \in Answered THEN UNCHANGED detours ELSE Detour
            /\ posts' = [posts EXCEPT ![i].at = "back", ![i].copy = o.copy, ![i].code = o.code]
            /\ copies' = IF o.copy THEN [copies EXCEPT ![posts[i].play] = @ + 1] ELSE copies
      BY <1>4 DEF Relay
    <2>2. /\ o.copy \in BOOLEAN /\ o.code \in {"ok", "bgg_rejected", "bgg_uncertain"}
          /\ o.code = "ok" => o.copy
          /\ o.copy => o.code \in {"ok", "bgg_rejected", "bgg_uncertain"}
      <3>1. CASE o \in CutOff
        <4>1. o.copy \in BOOLEAN /\ o.code = "bgg_uncertain"
          BY <3>1 DEF CutOff
        <4> QED BY <4>1
      <3>2. CASE o = [copy |-> FALSE, code |-> "bgg_rejected"]
        <4>1. o.copy = FALSE /\ o.code = "bgg_rejected"
          BY <3>2
        <4> QED BY <4>1
      <3>3. CASE o = [copy |-> TRUE, code |-> "ok"]
        <4>1. o.copy = TRUE /\ o.code = "ok"
          BY <3>3
        <4> QED BY <4>1
      <3>4. CASE o = [copy |-> TRUE, code |-> "bgg_rejected"]
        <4>1. o.copy = TRUE /\ o.code = "bgg_rejected"
          BY <3>4
        <4> QED BY <4>1
      <3> QED BY <2>1, <3>1, <3>2, <3>3, <3>4 DEF Answered, Misread
    <2>3. detours' \in 0..MaxDetours
      <3>1. Detour \/ detours' = detours
        BY <2>1
      <3> QED BY <3>1, Detouring
    <2>4. PICK x : x = [q EXCEPT !.at = "back", !.copy = o.copy, !.code = o.code]
      OBVIOUS
    <2>5. /\ x \in Sent /\ x.tab = q.tab /\ x.waits = q.waits /\ x.play = q.play
          /\ (x.copy <=> o.copy) /\ x.code = o.code
      BY <2>2, <2>4 DEF Sent
    <2>6. posts' = [posts EXCEPT ![i] = x]
      BY <1>1, <2>1, <2>4
    <2>7. /\ copies' \in [Play -> Nat] /\ \A p \in Play : copies'[p] >= copies[p]
          /\ o.copy => copies'[q.play] > 0
      <3>1. CASE o.copy
        <4>1. copies' = [copies EXCEPT ![q.play] = copies[q.play] + 1]
          BY <1>1, <2>1, <3>1
        <4> QED BY <1>2, <3>1, <4>1
      <3>2. CASE ~o.copy
        <4>1. copies' = copies
          BY <2>1, <3>2
        <4> QED BY <1>2, <3>2, <4>1
      <3> QED BY <3>1, <3>2
    <2>8. UNCHANGED <<table, page, paused, plays, sends, started, given, strays,
                      byHand, said, blind>>
      BY <1>4 DEF Relay
    <2> QED BY <1>1, <1>3, <2>2, <2>3, <2>5, <2>6, <2>7, <2>8
  <1>5. CASE Lose(i)
    <2>1. PICK x : x = [q EXCEPT !.at = "back", !.code = "offline"]
      OBVIOUS
    <2>2. /\ x \in Sent /\ x.tab = q.tab /\ x.waits = q.waits /\ x.play = q.play
          /\ (x.copy <=> q.copy) /\ x.code = "offline"
      BY <2>1 DEF Sent
    <2>3. posts' = [posts EXCEPT ![i] = x]
      BY <1>1, <1>5, <2>1 DEF Lose
    <2>4. detours' \in 0..MaxDetours
      BY <1>5, Detouring DEF Lose
    <2>5. UNCHANGED <<table, page, paused, plays, sends, copies, started, given, strays,
                      byHand, said, blind>>
      BY <1>5 DEF Lose
    <2>6. copies' \in [Play -> Nat] /\ \A p \in Play : copies'[p] >= copies[p]
      <3>1. \A p \in Play : copies[p] \in Nat
        BY <1>2
      <3> QED BY <1>2, <2>5, <3>1
    <2>7. /\ posts' \in Seq(Sent) /\ Len(posts') = Len(posts)
          /\ DOMAIN posts' = DOMAIN posts /\ posts'[i] = x
          /\ \A j \in DOMAIN posts :
                /\ posts'[j].tab = posts[j].tab /\ posts'[j].waits = posts[j].waits
                /\ posts'[j].play = posts[j].play
                /\ j # i => posts'[j] = posts[j]
      BY <1>3, <2>2, <2>3
    <2>8. posts'[i].code = "offline" /\ (posts'[i].copy <=> posts[i].copy)
          /\ (posts'[i].code = "ok" => posts'[i].copy)
      BY <1>1, <2>2, <2>7
    <2> QED BY <2>4, <2>5, <2>6, <2>7, <2>8
  <1> QED BY <1>4, <1>5

(* A mark changes: the rows stay. *)
LEMMA Marking ==
    ASSUME TInv, NEW p \in DOMAIN plays, NEW b \in BOOLEAN,
           plays' = [plays EXCEPT ![p].reported = b]
    PROVE  /\ SameRows /\ (plays'[p].reported <=> b)
           /\ \A r \in DOMAIN plays \ {p} : plays'[r] = plays[r]
  <1>1. plays \in Seq(Row) /\ DOMAIN plays = 1..Len(plays) /\ p \in 1..Len(plays)
    BY Standing DEF Row
  <1>2. PICK q \in Row : q = plays[p]
    BY Standing DEF Row
  <1>3. PICK x : x = [q EXCEPT !.reported = b]
    OBVIOUS
  <1>4. x \in Row /\ x.game = q.game /\ (x.reported <=> b)
    BY <1>3 DEF Row
  <1>5. plays' = [plays EXCEPT ![p] = x]
    BY <1>2, <1>3
  <1>6. plays' \in Seq(Row) /\ Len(plays') = Len(plays)
    BY <1>1, <1>4, <1>5, ExceptSeq
  <1>7. DOMAIN plays' = DOMAIN plays /\ plays'[p] = x
        /\ \A r \in DOMAIN plays \ {p} : plays'[r] = plays[r]
    BY <1>1, <1>5
  <1> QED BY <1>2, <1>4, <1>6, <1>7 DEF SameRows

LEMMA MarkDoes ==
    ASSUME TInv, NEW t \in Tab, Mark(t)
    PROVE  /\ UNCHANGED <<table, page, paused, posts, sends, copies, started, given, strays, said>>
           /\ detours' \in 0..MaxDetours
           /\ page[t].play \in DOMAIN plays /\ page[t].play \in Play
           /\ SameRows /\ byHand' = byHand \cup {page[t].play}
           /\ \A r \in DOMAIN plays \ {page[t].play} : plays'[r] = plays[r]
           /\ blind' \in [Tab -> [Play -> Nat]]
           /\ \A s \in Tab, r \in Play :
                 blind'[s][r] = IF r = page[t].play THEN 0 ELSE blind[s][r]
  <1>1. PICK p \in DOMAIN plays : p = page[t].play /\ p \in Play
    BY Standing DEF Mark, On, TInv, Fits
  <1>2. plays' = [plays EXCEPT ![p].reported = ~plays[p].reported]
    BY <1>1, Standing DEF Mark
  <1>3. SameRows /\ \A r \in DOMAIN plays \ {p} : plays'[r] = plays[r]
    <2>1. PICK b \in BOOLEAN : b = ~plays[p].reported
      OBVIOUS
    <2> QED BY <1>2, <2>1, Marking
  <1>4. blind' = [s \in Tab |-> [blind[s] EXCEPT ![p] = 0]] /\ blind \in [Tab -> [Play -> Nat]]
    BY <1>1 DEF Mark, TInv, TypeOK
  <1>5. blind' \in [Tab -> [Play -> Nat]]
        /\ \A s \in Tab, r \in Play : blind'[s][r] = IF r = p THEN 0 ELSE blind[s][r]
    BY <1>1, <1>4
  <1>6. detours' \in 0..MaxDetours
    BY Detouring DEF Mark
  <1>7. /\ UNCHANGED <<table, page, paused, posts, sends, copies, started, given, strays, said>>
        /\ byHand' = byHand \cup {p}
    BY <1>1 DEF Mark
  <1> QED BY <1>1, <1>3, <1>5, <1>6, <1>7

(* Where a post was before that at `i' was taken out. *)
Before(i, j) == IF j < i THEN j ELSE j + 1

Screened(t, i) == posts[i].tab = t /\ posts[i].waits = "screen"

LEMMA SettleDoes ==
    ASSUME TInv, NEW i \in DOMAIN posts, Settle(i), NEW t \in Tab, t = posts[i].tab
    PROVE  /\ UNCHANGED <<table, paused, sends, copies, detours, started, given, strays, byHand>>
           /\ posts' \in Seq(Sent) /\ Len(posts') <= Len(posts)
           /\ \A j \in DOMAIN posts' :
                 /\ Before(i, j) \in DOMAIN posts \ {i} /\ posts'[j] = posts[Before(i, j)]
                 /\ \A k \in DOMAIN posts' : Before(i, j) = Before(i, k) => j = k
           /\ SameRows
           /\ \A p \in DOMAIN plays :
                 plays'[p].reported <=> \/ plays[p].reported
                                        \/ /\ p = posts[i].play /\ posts[i].code = "ok"
                                           /\ posts[i].waits # "nobody"
           /\ Turned(t) /\ SamePlace(t)
           /\ ~Screened(t, i) => page' = page /\ blind' = blind /\ said' = said
           /\ Screened(t, i) =>
                 /\ page[t].at = "history" => /\ page'[t].bgg \in {"idle", "failed"}
                                              /\ page'[t].play = page[t].play
                 /\ page[t].at # "history" /\ posts[i].code = "ok" =>
                       page'[t].bgg = "sent" /\ page'[t].play = posts[i].play
                 /\ page[t].at # "history" /\ posts[i].code # "ok" =>
                       page'[t].bgg = "failed" /\ page'[t].play = page[t].play
                 /\ said' = IF posts[i].code = "bgg_uncertain"
                            THEN [said EXCEPT ![t] = @ \cup {posts[i].play}] ELSE said
                 /\ IF /\ posts[i].copy /\ posts[i].play \notin said[t]
                       /\ posts[i].code \notin {"offline", "bgg_rejected"}
                    THEN blind' = [blind EXCEPT ![t][posts[i].play] = @ + 1]
                    ELSE blind' = blind
  <1>1. PICK q \in Sent : q = posts[i]
    BY Standing
  <1>2. posts' \in Seq(Sent) /\ Len(posts') <= Len(posts)
        /\ \A j \in DOMAIN posts' :
              /\ Before(i, j) \in DOMAIN posts \ {i} /\ posts'[j] = posts[Before(i, j)]
              /\ \A k \in DOMAIN posts' : Before(i, j) = Before(i, k) => j = k
    <2>1. posts' = RemoveAt(posts, i) /\ posts \in Seq(Sent)
      BY Standing DEF Settle
    <2>2. /\ posts' \in Seq(Sent) /\ Len(posts') = Len(posts) - 1
          /\ \A j \in DOMAIN posts' :
                /\ j \in Nat
                /\ IF j < i THEN j \in DOMAIN posts /\ posts'[j] = posts[j]
                            ELSE j + 1 \in DOMAIN posts /\ posts'[j] = posts[j + 1]
      BY <2>1, Removing
    <2>3. Len(posts) \in Nat /\ i \in 1..Len(posts)
      BY Standing
    <2>4. Len(posts') <= Len(posts)
      <3>1. \A n \in Nat : n - 1 <= n
        OBVIOUS
      <3> QED BY <2>2, <2>3, <3>1
    <2>5. i \in Nat
      BY <2>3
    <2>6. ASSUME NEW j \in DOMAIN posts'
          PROVE  /\ Before(i, j) \in DOMAIN posts \ {i} /\ posts'[j] = posts[Before(i, j)]
                 /\ \A k \in DOMAIN posts' : Before(i, j) = Before(i, k) => j = k
      <3>1. j \in Nat /\ \A k \in DOMAIN posts' : k \in Nat
        BY <2>2
      <3>2. Before(i, j) # i /\ \A k \in Nat : Before(i, j) = Before(i, k) => j = k
        BY <2>5, <3>1 DEF Before
      <3>3. Before(i, j) \in DOMAIN posts /\ posts'[j] = posts[Before(i, j)]
        BY <2>2 DEF Before
      <3> QED BY <3>1, <3>2, <3>3
    <2> QED BY <2>2, <2>4, <2>6
  <1>3. q.play \in DOMAIN plays /\ q.play \in Play
    BY <1>1, Standing DEF TInv, Fits
  <1>4. SameRows
        /\ \A p \in DOMAIN plays :
              plays'[p].reported <=> \/ plays[p].reported
                                     \/ p = q.play /\ q.code = "ok" /\ q.waits # "nobody"
    <2>1. CASE q.code = "ok" /\ q.waits # "nobody"
      <3>1. plays' = [plays EXCEPT ![q.play].reported = TRUE]
        BY <1>1, <2>1 DEF Settle, Marks
      <3>2. PICK b \in BOOLEAN : b = TRUE
        OBVIOUS
      <3>3. /\ SameRows /\ plays'[q.play].reported
            /\ \A r \in DOMAIN plays \ {q.play} : plays'[r] = plays[r]
        BY <1>3, <3>1, <3>2, Marking
      <3> QED BY <1>3, <2>1, <3>3
    <2>2. CASE ~(q.code = "ok" /\ q.waits # "nobody")
      <3>1. plays' = plays
        BY <1>1, <2>2 DEF Settle, Marks
      <3> QED BY <2>2, <3>1, Standing DEF SameRows, Row
    <2> QED BY <2>1, <2>2
  <1>5. UNCHANGED <<table, paused, sends, copies, detours, started, given, strays, byHand>>
    BY DEF Settle
  <1>6. q.tab = t
    BY <1>1
  <1>7. CASE q.waits # "screen"
    <2>1. page' = page /\ blind' = blind /\ said' = said
      BY <1>1, <1>7 DEF Settle, Counted
    <2>2. Turned(t) /\ SamePlace(t)
      BY <2>1, Standing DEF Turned, SamePlace
    <2>3. ~Screened(t, i)
      BY <1>1, <1>7 DEF Screened
    <2> QED BY <1>1, <1>2, <1>4, <1>5, <2>1, <2>2, <2>3
  <1>8. CASE q.waits = "screen"
    <2>1. PICK v \in PageState : v = page[t]
      BY Standing
    <2>2. PICK x : x = Told(t, q)
      OBVIOUS
    <2>3. /\ x \in PageState /\ x.at = v.at /\ x.shown = v.shown /\ x.op = v.op
          /\ (x.recorded <=> v.recorded)
          /\ v.at = "history" => x.bgg \in {"idle", "failed"} /\ x.play = v.play
          /\ v.at # "history" /\ q.code = "ok" => x.bgg = "sent" /\ x.play = q.play
          /\ v.at # "history" /\ q.code # "ok" => x.bgg = "failed" /\ x.play = v.play
      <3>1. CASE v.at = "history"
        <4>1. PICK b \in {"idle", "failed"} : x = [v EXCEPT !.bgg = b]
          BY <2>1, <2>2, <3>1 DEF Told
        <4>2. /\ x \in PageState /\ x.at = v.at /\ x.shown = v.shown /\ x.op = v.op
              /\ (x.recorded <=> v.recorded) /\ x.bgg = b /\ x.play = v.play
          BY <4>1 DEF PageState
        <4> QED BY <3>1, <4>2
      <3>2. CASE v.at # "history" /\ q.code = "ok"
        <4>1. x = [v EXCEPT !.bgg = "sent", !.play = q.play]
          BY <2>1, <2>2, <3>2 DEF Told, Marks
        <4>2. /\ x \in PageState /\ x.at = v.at /\ x.shown = v.shown /\ x.op = v.op
              /\ (x.recorded <=> v.recorded) /\ x.bgg = "sent" /\ x.play = q.play
          BY <1>3, <4>1 DEF PageState
        <4> QED BY <3>2, <4>2
      <3>3. CASE v.at # "history" /\ q.code # "ok"
        <4>1. x = [v EXCEPT !.bgg = "failed"]
          BY <2>1, <2>2, <3>3 DEF Told, Marks
        <4>2. /\ x \in PageState /\ x.at = v.at /\ x.shown = v.shown /\ x.op = v.op
              /\ (x.recorded <=> v.recorded) /\ x.bgg = "failed" /\ x.play = v.play
          BY <4>1 DEF PageState
        <4> QED BY <3>3, <4>2
      <3> QED BY <3>1, <3>2, <3>3
    <2>4. page' = [page EXCEPT ![t] = x]
      BY <1>1, <1>6, <1>8, <2>2 DEF Settle
    <2>5. page' \in [Tab -> PageState] /\ page'[t] = x
          /\ \A u \in Tab \ {t} : page'[u] = page[u]
      BY <2>3, <2>4, Standing
    <2>6. Turned(t) /\ SamePlace(t)
      BY <2>1, <2>3, <2>5 DEF Turned, SamePlace
    <2>7. said' = IF q.code = "bgg_uncertain"
                  THEN [said EXCEPT ![t] = @ \cup {q.play}] ELSE said
      BY <1>1, <1>6, <1>8 DEF Settle
    <2>8. Counted(q) <=> q.copy /\ q.code \notin {"offline", "bgg_rejected"} /\ q.play \notin said[t]
      BY <1>6, <1>8 DEF Counted
    <2>9. blind' = IF Counted(q) THEN [blind EXCEPT ![t][q.play] = @ + 1] ELSE blind
      BY <1>1, <1>6 DEF Settle
    <2>10. Screened(t, i)
      BY <1>1, <1>6, <1>8 DEF Screened
    <2>11. /\ q.copy /\ q.code \notin {"offline", "bgg_rejected"} /\ q.play \notin said[t] =>
                 blind' = [blind EXCEPT ![t][q.play] = @ + 1]
           /\ ~q.copy \/ q.code \in {"offline", "bgg_rejected"} \/ q.play \in said[t] => blind' = blind
      BY <2>8, <2>9
    <2>12. /\ page[t].at = "history" => page'[t].bgg \in {"idle", "failed"}
                                        /\ page'[t].play = page[t].play
           /\ page[t].at # "history" /\ q.code = "ok" =>
                 page'[t].bgg = "sent" /\ page'[t].play = q.play
           /\ page[t].at # "history" /\ q.code # "ok" =>
                 page'[t].bgg = "failed" /\ page'[t].play = page[t].play
      BY <2>1, <2>3, <2>5
    <2> QED BY <1>1, <1>2, <1>4, <1>5, <2>6, <2>7, <2>10, <2>11, <2>12
  <1> QED BY <1>7, <1>8

-----------------------------------------------------------------------------
(* --- types -------------------------------------------------------------------- *)

(* What the type invariant says of one tab, and of the posts.               *)
Fit(t) ==
    /\ table[t].phase = "playing" <=> table[t].game # NoGame
    /\ page[t].recorded => table[t] = Empty
    /\ page[t].op.kind = "none" <=> page[t].op = Idle
    /\ page[t].op # Idle => page[t].at = "play" /\ page[t].op.game # NoGame
    /\ (page[t].at = "history" \/ page[t].recorded) => page[t].play \in DOMAIN plays

Posting ==
    /\ posts \in Seq(Sent) /\ sends \in 0..MaxSends /\ Len(posts) <= sends
    /\ \A i \in DOMAIN posts : posts[i].play \in DOMAIN plays
    /\ copies \in [Play -> Nat] /\ blind \in [Tab -> [Play -> Nat]]
    /\ said \in [Tab -> SUBSET Play] /\ byHand \subseteq Play

Gathering ==
    /\ paused \in Game \cup {NoGame}
    /\ plays \in Seq(Row) /\ Len(plays) <= MaxPlays
    /\ started \subseteq Game /\ given \subseteq Game /\ strays \subseteq Game
    /\ detours \in 0..MaxDetours

LEMMA Parts ==
    TInv <=> /\ page \in [Tab -> PageState] /\ table \in [Tab -> TableState]
             /\ \A t \in Tab : Fit(t)
             /\ Posting /\ Gathering
  <1> DEFINE Types == page \in [Tab -> PageState] /\ table \in [Tab -> TableState]
             Paired == /\ \A t \in Tab : table[t].phase = "playing" <=> table[t].game # NoGame
                       /\ \A t \in Tab : page[t].recorded => table[t] = Empty
             Sets == UNION {started, given, strays} \subseteq Game
             Counts == /\ sends \in 0..MaxSends /\ Len(posts) <= sends
                       /\ copies \in [Play -> Nat] /\ blind \in [Tab -> [Play -> Nat]]
                       /\ said \in [Tab -> SUBSET Play] /\ byHand \subseteq Play
             Rest == /\ paused \in Game \cup {NoGame}
                     /\ plays \in Seq(Row) /\ Len(plays) <= MaxPlays
                     /\ detours \in 0..MaxDetours
  <1>1. TypeOK <=> Types /\ Paired /\ Sets /\ Counts /\ Rest
    BY DEF TypeOK, PageState, TableState, Operation, Row
  <1>2. Sets <=> started \subseteq Game /\ given \subseteq Game /\ strays \subseteq Game
    OBVIOUS
  <1>3. (Paired /\ Fits) <=> /\ \A t \in Tab : Fit(t)
                             /\ \A i \in DOMAIN posts : posts[i].play \in DOMAIN plays
    BY DEF Fit, Fits
  <1>4. Posting <=> /\ posts \in Seq(Sent) /\ Counts
                    /\ \A i \in DOMAIN posts : posts[i].play \in DOMAIN plays
    BY DEF Posting
  <1>5. Gathering <=> Rest /\ started \subseteq Game /\ given \subseteq Game /\ strays \subseteq Game
    BY DEF Gathering
  <1> HIDE DEF Types, Paired, Sets, Counts, Rest
  <1>6. TInv <=> TypeOK /\ posts \in Seq(Sent) /\ Fits
    BY DEF TInv
  <1>7. TInv <=> Types /\ (\A t \in Tab : Fit(t)) /\ Posting /\ Gathering
    BY <1>1, <1>2, <1>3, <1>4, <1>5, <1>6
  <1> QED BY <1>7 DEF Types

LEMMA PartsNext ==
    TInv' <=> (/\ page \in [Tab -> PageState] /\ table \in [Tab -> TableState]
               /\ \A t \in Tab : Fit(t)
               /\ Posting /\ Gathering)'
  BY Parts, PTL

LEMMA TInvInit == Init => TInv
  <1> SUFFICES ASSUME Init PROVE TInv
    OBVIOUS
  <1>1. PICK x \in PageState :
          /\ x = Elsewhere /\ x.at = "elsewhere" /\ x.shown = NoGame /\ x.op = Idle
          /\ ~x.recorded /\ x.bgg = "idle"
    BY Opening DEF Elsewhere
  <1>2. page \in [Tab -> PageState] /\ table \in [Tab -> TableState]
        /\ \A t \in Tab : page[t] = x /\ table[t] = Empty
    BY <1>1, Pieces DEF Init
  <1>3. \A t \in Tab : Fit(t)
    BY <1>1, <1>2, Pieces DEF Fit
  <1>4. posts = <<>> /\ sends = 0 /\ copies = NoCount /\ byHand = {}
        /\ said = [t \in Tab |-> {}] /\ blind = [t \in Tab |-> NoCount]
    BY DEF Init
  <1>5. Posting
    <2>1. posts \in Seq(Sent) /\ Len(posts) = 0 /\ DOMAIN posts = {}
      BY <1>4
    <2>2. sends \in 0..MaxSends /\ Len(posts) <= sends
      BY <1>4, <2>1, TableAssumption
    <2> QED BY <1>4, <2>1, <2>2, Pieces DEF Posting
  <1>6. Gathering
    BY TableAssumption DEF Init, Gathering
  <1> QED BY <1>2, <1>3, <1>5, <1>6, Parts

(* One tab changes, and what it shows or has sent is recorded. *)
LEMMA Assembling ==
    ASSUME TInv, NEW t \in Tab, Turned(t), table' \in [Tab -> TableState],
           \A u \in Tab \ {t} : table'[u] = table[u],
           Fit(t)', Gathering', Posting', DOMAIN plays \subseteq DOMAIN plays'
    PROVE  TInv'
  <1>1. \A u \in Tab : Fit(u)
    BY Parts
  <1>2. ASSUME NEW u \in Tab PROVE Fit(u)'
    <2>1. CASE u = t
      BY <2>1
    <2>2. CASE u # t
      <3>1. page'[u] = page[u] /\ table'[u] = table[u]
        BY <2>2 DEF Turned
      <3> QED BY <1>1, <3>1 DEF Fit
    <2> QED BY <2>1, <2>2
  <1>3. page' \in [Tab -> PageState]
    BY DEF Turned
  <1>4. (/\ page \in [Tab -> PageState] /\ table \in [Tab -> TableState]
         /\ \A u \in Tab : Fit(u)
         /\ Posting /\ Gathering)'
    BY <1>2, <1>3
  <1> QED BY <1>4, PartsNext

LEMMA Unsent ==
    ASSUME TInv, UNCHANGED sending, DOMAIN plays \subseteq DOMAIN plays'
    PROVE  Posting'
  <1>1. Posting
    BY Parts
  <1> QED BY <1>1 DEF Posting, sending

(* A screen or a tab is left: its posts stay, and what it said is forgotten. *)
LEMMA Unheard ==
    ASSUME TInv, NEW t \in Tab, NEW who \in {"tab", "nobody"}, Waits(t, who),
           UNCHANGED <<sends, copies, byHand>>,
           said' = [said EXCEPT ![t] = {}], blind' = [blind EXCEPT ![t] = NoCount],
           DOMAIN plays \subseteq DOMAIN plays'
    PROVE  /\ Posting' /\ said'[t] = {} /\ blind'[t] = NoCount
           /\ \A u \in Tab \ {t} : said'[u] = said[u] /\ blind'[u] = blind[u]
  <1>1. Posting
    BY Parts
  <1>2. /\ posts' \in Seq(Sent) /\ Len(posts') = Len(posts) /\ DOMAIN posts' = DOMAIN posts
        /\ \A i \in DOMAIN posts : posts'[i].play = posts[i].play
    BY WaitsDoes
  <1>3. said \in [Tab -> SUBSET Play] /\ blind \in [Tab -> [Play -> Nat]]
    BY <1>1 DEF Posting
  <1>4. /\ said' \in [Tab -> SUBSET Play] /\ said'[t] = {}
        /\ \A u \in Tab \ {t} : said'[u] = said[u]
    BY <1>3
  <1>5. /\ blind' \in [Tab -> [Play -> Nat]] /\ blind'[t] = NoCount
        /\ \A u \in Tab \ {t} : blind'[u] = blind[u]
    BY <1>3, Pieces
  <1>6. Posting'
    BY <1>1, <1>2, <1>4, <1>5 DEF Posting
  <1> QED BY <1>4, <1>5, <1>6

LEMMA TypesOpen ==
    ASSUME TInv, NEW t \in Tab, Open(t) \/ Look(t) \/ Leave(t) PROVE TInv'
  <1>1. Fit(t) /\ Gathering /\ table \in [Tab -> TableState]
    BY Parts
  <1>2. /\ Turned(t) /\ SameGames /\ detours' \in 0..MaxDetours
        /\ page'[t].op = Idle /\ ~page'[t].recorded
        /\ page'[t].at = "history" => page'[t].play \in DOMAIN plays
    BY OpenDoes, LookDoes, LeaveDoes
  <1>3. table' = table /\ plays' = plays
    BY <1>2 DEF SameGames
  <1>4. Fit(t)'
    BY <1>1, <1>2, <1>3, Pieces DEF Fit
  <1>5. Gathering'
    BY <1>1, <1>2 DEF Gathering, SameGames
  <1>6. Posting'
    <2>1. CASE Leave(t)
      BY <1>3, <2>1, LeaveDoes, Unheard
    <2>2. CASE Open(t) \/ Look(t)
      BY <1>3, <2>2, OpenDoes, LookDoes, Unsent
    <2> QED BY <2>1, <2>2
  <1> QED BY <1>1, <1>2, <1>3, <1>4, <1>5, <1>6, Assembling

LEMMA TypesPlay ==
    ASSUME TInv, NEW t \in Tab,
           \/ GoToBriefing(t) \/ BackToSetup(t) \/ StartGame(t)
           \/ Finish(t) \/ BackToGame(t) \/ DiscardGame(t) \/ NewGame(t)
    PROVE  TInv'
  <1>1. /\ Fit(t) /\ Gathering /\ table \in [Tab -> TableState]
        /\ page \in [Tab -> PageState]
    BY Parts
  <1>2. CASE GoToBriefing(t) \/ BackToSetup(t) \/ Finish(t) \/ BackToGame(t)
    <2>1. /\ Turned(t) /\ Laid(t) /\ detours' \in 0..MaxDetours
          /\ UNCHANGED <<paused, plays, started, given, strays>> /\ UNCHANGED sending
          /\ page'[t].at = "play" /\ page'[t].op = Idle /\ ~page'[t].recorded
          /\ table'[t].game = table[t].game
          /\ table'[t].phase = "playing" <=> table[t].phase = "playing"
      BY <1>2, TouchDoes
    <2>2. Fit(t)'
      BY <1>1, <2>1, Pieces DEF Fit
    <2>3. Gathering'
      BY <1>1, <2>1 DEF Gathering
    <2>4. Posting'
      BY <2>1, Unsent
    <2> QED BY <2>1, <2>2, <2>3, <2>4, Assembling DEF Laid
  <1>3. CASE StartGame(t)
    <2>1. /\ page' = page /\ Laid(t) /\ detours' \in 0..MaxDetours
          /\ UNCHANGED <<paused, plays, given, strays>> /\ UNCHANGED sending
          /\ ~page[t].recorded /\ page[t].op = Idle
      BY <1>3, StartDoes
    <2>2. PICK g \in Game \ started :
            table'[t].phase = "playing" /\ table'[t].game = g /\ started' = started \cup {g}
      BY <1>3, StartDoes
    <2>3. Fit(t)'
      BY <1>1, <2>1, <2>2, TableAssumption DEF Fit
    <2>4. Gathering'
      BY <1>1, <2>1, <2>2 DEF Gathering
    <2>5. Posting'
      BY <2>1, Unsent
    <2>6. Turned(t)
      BY <1>1, <2>1 DEF Turned
    <2> QED BY <2>1, <2>3, <2>4, <2>5, <2>6, Assembling DEF Laid
  <1>4. CASE DiscardGame(t) \/ NewGame(t)
    <2>1. /\ Turned(t) /\ Laid(t) /\ detours' \in 0..MaxDetours
          /\ UNCHANGED <<paused, plays, started, strays>> /\ UNCHANGED sending
          /\ table'[t] = Empty
          /\ page'[t].at = "play" /\ page'[t].op = Idle /\ ~page'[t].recorded
          /\ given' \in {given, given \cup {table[t].game}}
          /\ given' # given => table[t].game # NoGame
      BY <1>4, ClearDoes
    <2>2. Fit(t)'
      BY <1>1, <2>1, Pieces DEF Fit
    <2>3. given' \subseteq Game
      <3>1. table[t].game \in Game \cup {NoGame} /\ given \subseteq Game
        BY <1>1 DEF TableState, Gathering
      <3> QED BY <2>1, <3>1
    <2>4. Gathering'
      BY <1>1, <2>1, <2>3 DEF Gathering
    <2>5. Posting'
      BY <2>1, Unsent
    <2> QED BY <2>1, <2>2, <2>4, <2>5, Assembling DEF Laid
  <1> QED BY <1>2, <1>3, <1>4

LEMMA TypesAsk ==
    ASSUME TInv, NEW t \in Tab, PutAway(t) \/ Record(t) \/ Resume(t) \/ ThrowAway(t)
    PROVE  TInv'
  <1>1. /\ Fit(t) /\ Gathering /\ table \in [Tab -> TableState]
        /\ page \in [Tab -> PageState]
    BY Parts
  <1>2. CASE PutAway(t) \/ Record(t)
    <2>1. /\ Turned(t) /\ SameGames /\ UNCHANGED sending /\ detours' \in 0..MaxDetours
          /\ page'[t].at = "play"
          /\ page'[t].op # Idle /\ page'[t].op.kind \in {"put away", "record"}
          /\ page'[t].op.game \in Game
          /\ ~page'[t].recorded
      BY <1>2, SaveDoes
    <2>2. Fit(t)'
      BY <1>1, <2>1, TableAssumption DEF Fit, SameGames
    <2>3. Gathering'
      BY <1>1, <2>1 DEF Gathering, SameGames
    <2>4. Posting' /\ DOMAIN plays \subseteq DOMAIN plays'
      BY <2>1, Unsent DEF SameGames
    <2> QED BY <1>1, <2>1, <2>2, <2>3, <2>4, Assembling DEF SameGames
  <1>3. CASE ThrowAway(t)
    <2>1. /\ Turned(t) /\ UNCHANGED <<table, paused, plays, started, strays>>
          /\ UNCHANGED sending /\ detours' \in 0..MaxDetours
          /\ page[t].shown \in Game
          /\ page'[t].at = "play" /\ page'[t].op # Idle /\ page'[t].op.kind = "discard"
          /\ page'[t].op.game = page[t].shown
          /\ ~page'[t].recorded /\ given' = given \cup {page[t].shown}
      BY <1>3, ThrowDoes
    <2>2. Fit(t)'
      BY <1>1, <2>1, TableAssumption DEF Fit
    <2>3. Gathering'
      BY <1>1, <2>1 DEF Gathering
    <2>4. Posting'
      BY <2>1, Unsent
    <2> QED BY <1>1, <2>1, <2>2, <2>3, <2>4, Assembling
  <1>4. CASE Resume(t)
    <2>1. /\ Turned(t) /\ Laid(t) /\ UNCHANGED <<paused, plays, started, given>>
          /\ UNCHANGED sending /\ detours' \in 0..MaxDetours
          /\ page[t].shown \in Game
          /\ table'[t].phase = "playing" /\ table'[t].game = page[t].shown
          /\ page'[t].at = "play" /\ page'[t].op # Idle /\ page'[t].op.kind = "discard"
          /\ page'[t].op.game = page[t].shown
          /\ ~page'[t].recorded
          /\ strays' = strays \cup ({page[t].shown} \ ({paused} \ OnTables))
      BY <1>4, ResumeDoes
    <2>2. Fit(t)'
      BY <1>1, <2>1, TableAssumption DEF Fit
    <2>3. Gathering'
      BY <1>1, <2>1 DEF Gathering
    <2>4. Posting'
      BY <2>1, Unsent
    <2> QED BY <2>1, <2>2, <2>3, <2>4, Assembling DEF Laid
  <1> QED BY <1>2, <1>3, <1>4

LEMMA TypesWritten ==
    ASSUME TInv, NEW t \in Tab, Written(t) PROVE TInv'
  <1>1. /\ Fit(t) /\ Gathering /\ Posting
    BY Parts
  <1>2. PICK op \in Operation : op = page[t].op
    BY WrittenDoes
  <1>3. /\ Turned(t) /\ Laid(t) /\ detours' \in 0..MaxDetours
        /\ UNCHANGED <<copies, detours, started, byHand, said, blind>>
        /\ op.game \in Game /\ op.kind \in {"discard", "put away", "record"}
        /\ Write(op, {})
        /\ op.kind = "discard" => table' = table
        /\ op.kind # "discard" => table'[t] = Empty
        /\ page'[t].at = "play" /\ page'[t].op = Idle
    BY <1>2, WrittenDoes
  <1>4. /\ op.kind = "record" => Added(op.game)
        /\ op.kind # "record" => plays' = plays
        /\ paused' \in Game \cup {NoGame} /\ given' \subseteq Game /\ strays' \subseteq Game
        /\ plays' \in Seq(Row) /\ Len(plays') <= MaxPlays
        /\ DOMAIN plays \subseteq DOMAIN plays'
    BY <1>3, WriteDoes, TableAssumption
  <1>5. Gathering'
    BY <1>1, <1>3, <1>4 DEF Gathering
  <1>6. Fit(t)' /\ Posting'
    <2>1. CASE op.kind = "record"
      <3>1. /\ page'[t].recorded /\ page'[t].play = Len(plays') /\ Len(plays') \in Play
            /\ \/ Post(t, Len(plays'))
               \/ UNCHANGED <<posts, sends>>
        BY <1>2, <2>1, WrittenDoes
      <3>2. Len(plays') \in DOMAIN plays'
        BY <1>4, <2>1 DEF Added
      <3>3. Fit(t)'
        BY <1>3, <2>1, <3>1, <3>2, Pieces DEF Fit
      <3>4. CASE Post(t, Len(plays'))
        <4>1. PICK p \in Play : p = Len(plays') /\ Post(t, p) /\ p \in DOMAIN plays'
          BY <3>1, <3>2, <3>4
        <4>2. /\ sends' \in 0..MaxSends /\ Len(posts') <= sends' /\ posts' \in Seq(Sent)
              /\ DOMAIN posts' = DOMAIN posts \cup {Len(posts')}
              /\ \A i \in DOMAIN posts : posts'[i] = posts[i]
              /\ posts'[Len(posts')].play = p
          BY <4>1, PostDoes
        <4>3. \A i \in DOMAIN posts' : posts'[i].play \in DOMAIN plays'
          BY <1>1, <1>4, <4>1, <4>2 DEF Posting
        <4> QED BY <1>1, <1>3, <3>3, <4>2, <4>3 DEF Posting
      <3>5. CASE UNCHANGED <<posts, sends>>
        BY <1>1, <1>3, <1>4, <3>3, <3>5 DEF Posting
      <3> QED BY <3>1, <3>4, <3>5
    <2>2. CASE op.kind # "record"
      <3>1. /\ (page'[t].recorded <=> page[t].recorded) /\ page'[t].play = page[t].play
            /\ UNCHANGED <<posts, sends>>
        BY <1>2, <2>2, WrittenDoes
      <3>2. Fit(t)'
        BY <1>1, <1>3, <1>4, <2>2, <3>1, Pieces DEF Fit
      <3> QED BY <1>1, <1>3, <1>4, <3>1, <3>2 DEF Posting
    <2> QED BY <2>1, <2>2
  <1> QED BY <1>3, <1>4, <1>5, <1>6, Assembling DEF Laid

LEMMA TypesClose ==
    ASSUME TInv, NEW t \in Tab, Close(t) PROVE TInv'
  <1>1. Gathering
    BY Parts
  <1>2. /\ Turned(t) /\ Laid(t) /\ detours' \in 0..MaxDetours
        /\ UNCHANGED <<sends, copies, started, byHand>>
        /\ table'[t] = Empty
        /\ page'[t].at = "elsewhere" /\ page'[t].op = Idle /\ ~page'[t].recorded
        /\ Waits(t, "nobody")
        /\ said' = [said EXCEPT ![t] = {}] /\ blind' = [blind EXCEPT ![t] = NoCount]
    BY CloseDoes
  <1>3. PICK op \in Operation : /\ op.kind # "none" => op.game # NoGame
                                /\ Write(op, {table[t].game} \ {NoGame})
    BY CloseDoes
  <1>4. PICK gone \in SUBSET Game : gone = {table[t].game} \ {NoGame}
    BY CloseDoes
  <1>5. /\ paused' \in Game \cup {NoGame} /\ given' \subseteq Game /\ strays' \subseteq Game
        /\ plays' \in Seq(Row) /\ Len(plays') <= MaxPlays
        /\ DOMAIN plays \subseteq DOMAIN plays'
    BY <1>3, <1>4, WriteDoes
  <1>6. Gathering'
    BY <1>1, <1>2, <1>5 DEF Gathering
  <1>7. Posting'
    BY <1>2, <1>5, Unheard
  <1>8. Fit(t)'
    BY <1>2, Pieces DEF Fit
  <1> QED BY <1>2, <1>5, <1>6, <1>7, <1>8, Assembling DEF Laid

LEMMA TypesSend ==
    ASSUME TInv, NEW t \in Tab, Send(t) PROVE TInv'
  <1>1. /\ Fit(t) /\ Gathering /\ Posting /\ table \in [Tab -> TableState]
    BY Parts
  <1>2. /\ Turned(t) /\ SamePlace(t) /\ detours' \in 0..MaxDetours
        /\ UNCHANGED <<table, paused, plays, copies, started, given, strays, byHand,
                       said, blind>>
        /\ page[t].play \in DOMAIN plays /\ page[t].play \in Play
        /\ page'[t].play = page[t].play
        /\ Post(t, page[t].play)
    BY SendDoes
  <1>3. Fit(t)'
    BY <1>1, <1>2 DEF Fit, SamePlace
  <1>4. Gathering'
    BY <1>1, <1>2 DEF Gathering
  <1>5. Posting'
    <2>1. PICK p \in Play : p = page[t].play /\ Post(t, p) /\ p \in DOMAIN plays
      BY <1>2
    <2>2. /\ sends' \in 0..MaxSends /\ Len(posts') <= sends' /\ posts' \in Seq(Sent)
          /\ DOMAIN posts' = DOMAIN posts \cup {Len(posts')}
          /\ \A i \in DOMAIN posts : posts'[i] = posts[i]
          /\ posts'[Len(posts')].play = p
      BY <2>1, PostDoes
    <2>3. \A i \in DOMAIN posts' : posts'[i].play \in DOMAIN plays'
      BY <1>1, <1>2, <2>1, <2>2 DEF Posting
    <2> QED BY <1>1, <1>2, <2>2, <2>3 DEF Posting
  <1> QED BY <1>1, <1>2, <1>3, <1>4, <1>5, Assembling

LEMMA TypesMark ==
    ASSUME TInv, NEW t \in Tab, Mark(t) PROVE TInv'
  <1>1. /\ Fit(t) /\ Gathering /\ Posting /\ table \in [Tab -> TableState]
        /\ page \in [Tab -> PageState]
    BY Parts
  <1>2. /\ UNCHANGED <<table, page, paused, posts, sends, copies, started, given, strays, said>>
        /\ detours' \in 0..MaxDetours /\ SameRows
        /\ page[t].play \in Play /\ byHand' = byHand \cup {page[t].play}
        /\ blind' \in [Tab -> [Play -> Nat]]
    BY MarkDoes
  <1>3. Turned(t)
    BY <1>1, <1>2 DEF Turned
  <1>4. Fit(t)'
    BY <1>1, <1>2 DEF Fit, SameRows
  <1>5. Gathering'
    BY <1>1, <1>2 DEF Gathering, SameRows
  <1>6. Posting'
    BY <1>1, <1>2 DEF Posting, SameRows
  <1> QED BY <1>1, <1>2, <1>3, <1>4, <1>5, <1>6, Assembling DEF SameRows

LEMMA TypesWire ==
    ASSUME TInv, NEW i \in DOMAIN posts, Relay(i) \/ Lose(i) PROVE TInv'
  <1>1. /\ page \in [Tab -> PageState] /\ table \in [Tab -> TableState]
        /\ \A u \in Tab : Fit(u)
        /\ Gathering /\ Posting
    BY Parts
  <1>2. /\ UNCHANGED <<table, page, paused, plays, sends, started, given, strays,
                       byHand, said, blind>>
        /\ detours' \in 0..MaxDetours
        /\ posts' \in Seq(Sent) /\ Len(posts') = Len(posts) /\ DOMAIN posts' = DOMAIN posts
        /\ \A j \in DOMAIN posts : posts'[j].play = posts[j].play
        /\ copies' \in [Play -> Nat]
    BY WireDoes
  <1>3. \A u \in Tab : Fit(u)'
    BY <1>1, <1>2 DEF Fit
  <1>4. Gathering'
    BY <1>1, <1>2 DEF Gathering
  <1>5. Posting'
    BY <1>1, <1>2 DEF Posting
  <1> QED BY <1>1, <1>2, <1>3, <1>4, <1>5, PartsNext

LEMMA TypesSettle ==
    ASSUME TInv, NEW i \in DOMAIN posts, Settle(i) PROVE TInv'
  <1>1. Gathering /\ Posting /\ table \in [Tab -> TableState]
    BY Parts
  <1>2. PICK t \in Tab : t = posts[i].tab
    BY Standing DEF Sent
  <1>3. /\ UNCHANGED <<table, paused, sends, copies, detours, started, given, strays, byHand>>
        /\ posts' \in Seq(Sent) /\ Len(posts') <= Len(posts)
        /\ \A j \in DOMAIN posts' :
              Before(i, j) \in DOMAIN posts \ {i} /\ posts'[j] = posts[Before(i, j)]
        /\ SameRows /\ Turned(t) /\ SamePlace(t)
    BY <1>2, SettleDoes
  <1>4. Fit(t) /\ posts[i].play \in DOMAIN plays /\ posts[i].play \in Play
    BY <1>1, Parts, Standing DEF Posting
  <1>5. Fit(t)'
    <2>1. page'[t].play = page[t].play \/ page'[t].play = posts[i].play
      BY <1>2, SettleDoes
    <2> QED BY <1>3, <1>4, <2>1 DEF Fit, SamePlace, SameRows
  <1>6. Gathering'
    BY <1>1, <1>3 DEF Gathering, SameRows
  <1>7. blind' \in [Tab -> [Play -> Nat]] /\ said' \in [Tab -> SUBSET Play]
    <2>1. blind \in [Tab -> [Play -> Nat]] /\ said \in [Tab -> SUBSET Play]
      BY <1>1 DEF Posting
    <2>2. \/ blind' = blind
          \/ blind' = [blind EXCEPT ![t][posts[i].play] = @ + 1]
      BY <1>2, SettleDoes
    <2>3. \/ said' = said
          \/ said' = [said EXCEPT ![t] = @ \cup {posts[i].play}]
      BY <1>2, SettleDoes
    <2>4. blind' \in [Tab -> [Play -> Nat]]
      BY <1>4, <2>1, <2>2, SMTT(40)
    <2>5. said' \in [Tab -> SUBSET Play]
      BY <1>4, <2>1, <2>3
    <2> QED BY <2>4, <2>5
  <1>8. Posting'
    <2>1. sends' \in 0..MaxSends /\ Len(posts') <= sends'
      <3>1. sends \in 0..MaxSends /\ Len(posts) <= sends /\ MaxSends \in Nat
        BY <1>1, TableAssumption DEF Posting
      <3>2. Len(posts) \in Nat /\ Len(posts') \in Nat
        BY <1>3, Standing
      <3> QED BY <1>3, <3>1, <3>2
    <2>2. \A j \in DOMAIN posts' : posts'[j].play \in DOMAIN plays'
      BY <1>1, <1>3 DEF Posting, SameRows
    <2> QED BY <1>1, <1>3, <1>7, <2>1, <2>2 DEF Posting
  <1> QED BY <1>1, <1>3, <1>5, <1>6, <1>8, Assembling DEF SameRows

LEMMA TInvStep == TInv /\ [Next]_vars => TInv'
  <1> SUFFICES ASSUME TInv, [Next]_vars PROVE TInv'
    OBVIOUS
  <1>1. CASE UNCHANGED vars
    <2>1. UNCHANGED <<table, page, paused, plays, detours, started, given, strays>>
          /\ UNCHANGED sending
      BY <1>1 DEF vars, sending
    <2>2. /\ page \in [Tab -> PageState] /\ table \in [Tab -> TableState]
          /\ \A u \in Tab : Fit(u)
          /\ Gathering
      BY Parts
    <2>3. Posting'
      BY <2>1, Unsent
    <2>4. Gathering' /\ \A u \in Tab : Fit(u)'
      BY <2>1, <2>2 DEF Gathering, Fit
    <2> QED BY <2>1, <2>2, <2>3, <2>4, PartsNext
  <1>2. CASE Next
    BY <1>2, TypesOpen, TypesPlay, TypesAsk, TypesWritten, TypesClose, TypesSend, TypesMark,
       TypesWire, TypesSettle DEF Next
  <1> QED BY <1>1, <1>2

-----------------------------------------------------------------------------
(* --- a game is in one place ---------------------------------------------------- *)

(* What a page asks about: the game on its table, or one that it has taken   *)
(* up or thrown away.                                                       *)
Taken ==
    \A t \in Tab :
        /\ page[t].op.kind \in {"put away", "record"} => page[t].op.game = table[t].game
        /\ page[t].op.kind = "discard" =>
              page[t].op.game \in given \cup strays \cup {table[t].game}

Known ==
    /\ \A t \in Tab : /\ table[t].game \in started \cup {NoGame}
                      /\ page[t].shown \in started \cup {NoGame}
    /\ paused \in started \cup {NoGame}
    /\ \A p \in DOMAIN plays : plays[p].game \in started

Kept ==
    \A g \in started :
        \/ \E t \in Tab : table[t].game = g
        \/ g = paused \/ g \in given \/ g \in strays
        \/ \E p \in DOMAIN plays : plays[p].game = g

(* A game no other tab met is on one table at most; it is put away and on a  *)
(* table only while the row it came from is being deleted; recorded, it is   *)
(* nowhere else, nor a second time.                                          *)
Once ==
    \A g \in started \ strays :
        /\ \A t, u \in Tab : table[t].game = g /\ table[u].game = g => t = u
        /\ \A t \in Tab : table[t].game = g /\ paused = g => page[t].op.kind = "discard"
        /\ \A p \in DOMAIN plays : plays[p].game = g =>
              g # paused /\ \A t \in Tab : table[t].game # g
        /\ \A p, q \in DOMAIN plays : plays[p].game = g /\ plays[q].game = g => p = q

Games == Taken /\ Known /\ Kept /\ Once

LEMMA GamesInit == Init => Games
  <1> SUFFICES ASSUME Init PROVE Games
    OBVIOUS
  <1>1. PICK x \in PageState :
          x = Elsewhere /\ x.at = "elsewhere" /\ x.shown = NoGame /\ x.op = Idle
    BY Opening DEF Elsewhere
  <1>2. /\ \A t \in Tab : page[t] = x /\ table[t] = Empty
        /\ paused = NoGame /\ plays = <<>> /\ started = {}
    BY <1>1 DEF Init
  <1>3. DOMAIN plays = {}
    BY <1>2
  <1>4. Taken
    BY <1>1, <1>2, Pieces DEF Taken
  <1>5. Known
    BY <1>1, <1>2, <1>3, Pieces DEF Known
  <1> QED BY <1>2, <1>4, <1>5 DEF Games, Kept, Once

(* A step that moves no game. *)
LEMMA GamesQuiet ==
    ASSUME TInv, Games, UNCHANGED <<table, paused, started, given, strays>>, SameRows,
           \A t \in Tab : page'[t].shown = page[t].shown /\ page'[t].op = page[t].op
    PROVE  Games'
  <1>1. Taken'
    BY DEF Games, Taken
  <1>2. Known'
    BY DEF Games, Known, SameRows
  <1>3. Kept'
    BY DEF Games, Kept, SameRows
  <1>4. Once'
    BY DEF Games, Once, SameRows
  <1> QED BY <1>1, <1>2, <1>3, <1>4 DEF Games

LEMMA RowsStay == ASSUME TInv, plays' = plays PROVE SameRows
  BY Standing DEF SameRows, Row

(* Only pages change: what they have read and ask for. *)
LEMMA GamesRead ==
    ASSUME TInv, Games, NEW t \in Tab, UNCHANGED <<paused, plays, started, strays>>,
           Turned(t), \A u \in Tab : table'[u].game = table[u].game,
           given \subseteq given',
           page'[t].shown \in started \cup {NoGame},
           page[t].op = Idle,
           page'[t].op.kind \in {"put away", "record"} => page'[t].op.game = table[t].game,
           page'[t].op.kind = "discard" => page'[t].op.game \in given'
    PROVE  Games'
  <1>1. \A u \in Tab \ {t} : page'[u] = page[u]
    BY DEF Turned
  <1>2. Taken'
    BY <1>1 DEF Games, Taken
  <1>3. Known'
    BY <1>1 DEF Games, Known
  <1>4. Kept'
    <2> SUFFICES ASSUME NEW g \in started
                 PROVE  \/ \E u \in Tab : table'[u].game = g
                        \/ g = paused' \/ g \in given' \/ g \in strays'
                        \/ \E p \in DOMAIN plays' : plays'[p].game = g
      BY DEF Kept
    <2>1. \/ \E u \in Tab : table[u].game = g
          \/ g = paused \/ g \in given \/ g \in strays
          \/ \E p \in DOMAIN plays : plays[p].game = g
      BY DEF Games, Kept
    <2>2. CASE \E u \in Tab : table[u].game = g
      BY <2>2
    <2>3. CASE g = paused \/ g \in given \/ g \in strays
      BY <2>3
    <2>4. CASE \E p \in DOMAIN plays : plays[p].game = g
      BY <2>4
    <2> QED BY <2>1, <2>2, <2>3, <2>4
  <1>5. Once'
    <2> SUFFICES ASSUME NEW g \in started \ strays
                 PROVE  /\ \A v, u \in Tab : table'[v].game = g /\ table'[u].game = g => v = u
                        /\ \A u \in Tab : table'[u].game = g /\ paused' = g =>
                              page'[u].op.kind = "discard"
                        /\ \A p \in DOMAIN plays' : plays'[p].game = g =>
                              g # paused' /\ \A u \in Tab : table'[u].game # g
                        /\ \A p, q \in DOMAIN plays' :
                              plays'[p].game = g /\ plays'[q].game = g => p = q
      BY DEF Once
    <2>1. /\ \A v, u \in Tab : table[v].game = g /\ table[u].game = g => v = u
          /\ \A u \in Tab : table[u].game = g /\ paused = g => page[u].op.kind = "discard"
      BY DEF Games, Once
    <2>2. /\ \A p \in DOMAIN plays : plays[p].game = g =>
                g # paused /\ \A u \in Tab : table[u].game # g
          /\ \A p, q \in DOMAIN plays : plays[p].game = g /\ plays[q].game = g => p = q
      BY DEF Games, Once
    <2>3. page[t].op.kind = "none"
      BY Pieces
    <2>4. \A v, u \in Tab : table'[v].game = g /\ table'[u].game = g => v = u
      BY <2>1
    <2>5. \A u \in Tab : table'[u].game = g /\ paused' = g => page'[u].op.kind = "discard"
      BY <1>1, <2>1, <2>3
    <2>6. \A p \in DOMAIN plays' : plays'[p].game = g =>
              g # paused' /\ \A u \in Tab : table'[u].game # g
      BY <2>2
    <2> QED BY <2>2, <2>4, <2>5, <2>6
  <1> QED BY <1>2, <1>3, <1>4, <1>5 DEF Games

LEMMA GamesOpen ==
    ASSUME TInv, Games, NEW t \in Tab,
           \/ Open(t) \/ Look(t) \/ Leave(t)
           \/ GoToBriefing(t) \/ BackToSetup(t) \/ Finish(t) \/ BackToGame(t)
           \/ PutAway(t) \/ Record(t) \/ ThrowAway(t)
    PROVE  Games'
  <1> USE Pieces
  <1>0. \A u \in Tab : page[u].shown \in started \cup {NoGame}
    BY DEF Games, Known
  <1>1. CASE Open(t)
    <2>1. page'[t].shown \in started \cup {NoGame}
      BY <1>1, OpenDoes DEF Games, Known
    <2>2. /\ UNCHANGED <<table, paused, plays, started, given, strays>> /\ Turned(t)
          /\ page[t].op = Idle /\ page'[t].op.kind = "none"
      BY <1>1, OpenDoes DEF SameGames
    <2> QED BY <2>1, <2>2, GamesRead
  <1>2. CASE Look(t) \/ Leave(t)
    <2>1. /\ UNCHANGED <<table, paused, plays, started, given, strays>> /\ Turned(t)
          /\ page[t].op = Idle /\ page'[t].op.kind = "none" /\ page'[t].shown = NoGame
      BY <1>2, LookDoes, LeaveDoes DEF SameGames
    <2> QED BY <2>1, GamesRead
  <1>3. CASE GoToBriefing(t) \/ BackToSetup(t) \/ Finish(t) \/ BackToGame(t)
    <2>1. /\ UNCHANGED <<paused, plays, started, given, strays>> /\ Turned(t)
          /\ page[t].op = Idle /\ page'[t].op.kind = "none" /\ page'[t].shown = page[t].shown
      BY <1>3, TouchDoes
    <2>2. \A u \in Tab : table'[u].game = table[u].game
      BY <1>3, TouchDoes DEF Laid
    <2> QED BY <1>0, <2>1, <2>2, GamesRead
  <1>4. CASE PutAway(t) \/ Record(t)
    <2>1. /\ UNCHANGED <<table, paused, plays, started, given, strays>> /\ Turned(t)
          /\ page[t].op = Idle /\ page'[t].op.kind \in {"put away", "record"}
          /\ page'[t].op.game = table[t].game /\ page'[t].shown = page[t].shown
      BY <1>4, SaveDoes DEF SameGames
    <2> QED BY <1>0, <2>1, GamesRead
  <1>5. CASE ThrowAway(t)
    <2>1. /\ UNCHANGED <<table, paused, plays, started, strays>> /\ Turned(t)
          /\ page[t].op = Idle /\ page'[t].op.kind = "discard"
          /\ page'[t].op.game = page[t].shown /\ page'[t].shown = page[t].shown
          /\ given' = given \cup {page[t].shown}
      BY <1>5, ThrowDoes
    <2>2. page'[t].op.game \in given' /\ given \subseteq given'
      BY <2>1
    <2> QED BY <1>0, <2>1, <2>2, GamesRead
  <1> QED BY <1>1, <1>2, <1>3, <1>4, <1>5

LEMMA GamesStart ==
    ASSUME TInv, Games, NEW t \in Tab, StartGame(t) PROVE Games'
  <1>1. /\ page' = page /\ UNCHANGED <<paused, plays, given, strays>>
        /\ page[t].op = Idle /\ table[t].game = NoGame
        /\ \A u \in Tab \ {t} : table'[u] = table[u]
    BY StartDoes DEF Laid
  <1>2. PICK g \in Game \ started : table'[t].game = g /\ started' = started \cup {g}
    BY StartDoes
  <1>3. /\ \A u \in Tab : table[u].game # g /\ paused # g
        /\ \A p \in DOMAIN plays : plays[p].game # g
    BY <1>2, TableAssumption DEF Games, Known
  <1>4. Taken'
    <2> SUFFICES ASSUME NEW u \in Tab
                 PROVE  /\ page'[u].op.kind \in {"put away", "record"}
                              => page'[u].op.game = table'[u].game
                        /\ page'[u].op.kind = "discard" =>
                              page'[u].op.game \in given' \cup strays' \cup {table'[u].game}
      BY DEF Taken
    <2>1. CASE u = t
      <3>1. page'[u].op.kind = "none"
        BY <1>1, <2>1, Pieces
      <3> QED BY <3>1
    <2>2. CASE u # t
      <3>1. page'[u] = page[u] /\ table'[u] = table[u] /\ given' = given /\ strays' = strays
        BY <1>1, <2>2
      <3>2. /\ page[u].op.kind \in {"put away", "record"} => page[u].op.game = table[u].game
            /\ page[u].op.kind = "discard" =>
                  page[u].op.game \in given \cup strays \cup {table[u].game}
        BY DEF Games, Taken
      <3> QED BY <3>1, <3>2
    <2> QED BY <2>1, <2>2
  <1>5. Known'
    BY <1>1, <1>2 DEF Games, Known
  <1>6. Kept'
    <2> SUFFICES ASSUME NEW h \in started'
                 PROVE  \/ \E u \in Tab : table'[u].game = h
                        \/ h = paused' \/ h \in given' \/ h \in strays'
                        \/ \E p \in DOMAIN plays' : plays'[p].game = h
      BY DEF Kept
    <2>1. CASE h = g
      BY <1>2, <2>1
    <2>2. CASE h \in started
      <3>1. NoGame \notin started
        BY TableAssumption DEF TInv, TypeOK
      <3>2. \A u \in Tab : table[u].game = h => u # t
        BY <1>1, <2>2, <3>1
      <3> QED BY <1>1, <2>2, <3>2 DEF Games, Kept
    <2> QED BY <1>2, <2>1, <2>2
  <1>7. Once'
    <2>1. \A u \in Tab : u # t => table'[u].game # g
      BY <1>1, <1>3
    <2> SUFFICES ASSUME NEW h \in started' \ strays'
                 PROVE  /\ \A v, u \in Tab : table'[v].game = h /\ table'[u].game = h => v = u
                        /\ \A u \in Tab : table'[u].game = h /\ paused' = h =>
                              page'[u].op.kind = "discard"
                        /\ \A p \in DOMAIN plays' : plays'[p].game = h =>
                              h # paused' /\ \A u \in Tab : table'[u].game # h
                        /\ \A p, q \in DOMAIN plays' :
                              plays'[p].game = h /\ plays'[q].game = h => p = q
      BY DEF Once
    <2>2. CASE h = g
      BY <1>1, <1>2, <1>3, <2>1, <2>2
    <2>3. CASE h \in started \ strays /\ h # g
      <3>1. \A u \in Tab : table'[u].game = h => table[u].game = h
        BY <1>1, <1>2, <2>3
      <3> QED BY <1>1, <2>3, <3>1 DEF Games, Once
    <2> QED BY <1>1, <1>2, <2>2, <2>3
  <1> QED BY <1>4, <1>5, <1>6, <1>7 DEF Games

LEMMA GamesClear ==
    ASSUME TInv, Games, NEW t \in Tab, DiscardGame(t) \/ NewGame(t) PROVE Games'
  <1>1. /\ UNCHANGED <<paused, plays, started, strays>> /\ table'[t].game = NoGame
        /\ page[t].op = Idle /\ page'[t].op = Idle /\ page'[t].shown = page[t].shown
        /\ given' \in {given, given \cup {table[t].game}}
        /\ table[t].game # NoGame => given' = given \cup {table[t].game}
    BY ClearDoes, Pieces
  <1>2. \A u \in Tab \ {t} : table'[u] = table[u] /\ page'[u] = page[u]
    BY ClearDoes DEF Laid, Turned
  <1>a. NoGame \notin started /\ given \subseteq given'
    BY <1>1, TableAssumption DEF TInv, TypeOK
  <1>3. Taken'
    BY <1>1, <1>2, <1>a, Pieces DEF Games, Taken
  <1>4. Known'
    BY <1>1, <1>2 DEF Games, Known
  <1>5. Kept'
    BY <1>1, <1>2, <1>a DEF Games, Kept
  <1>6. Once'
    BY <1>1, <1>2, <1>a DEF Games, Once
  <1> QED BY <1>3, <1>4, <1>5, <1>6 DEF Games

LEMMA GamesResume ==
    ASSUME TInv, Games, NEW t \in Tab, Resume(t) PROVE Games'
  <1>1. PICK h \in Game : h = page[t].shown
    BY ResumeDoes
  <1>2. /\ UNCHANGED <<paused, plays, started, given>>
        /\ page[t].op = Idle /\ table[t].game = NoGame /\ table'[t].game = h
        /\ page'[t].shown = h /\ page'[t].op.kind = "discard" /\ page'[t].op.game = h
        /\ strays' = strays \cup ({h} \ ({paused} \ OnTables))
    BY <1>1, ResumeDoes
  <1>3. \A u \in Tab \ {t} : table'[u] = table[u] /\ page'[u] = page[u]
    BY ResumeDoes DEF Laid, Turned
  <1>4. h \in started /\ NoGame \notin started
    BY <1>1, TableAssumption DEF Games, Known, TInv, TypeOK
  <1>5. strays \subseteq strays' /\ (h \notin strays' => h = paused /\ \A u \in Tab : table[u].game # h)
    BY <1>2 DEF OnTables
  <1>6. Taken'
    BY <1>2, <1>3, <1>5 DEF Games, Taken
  <1>7. Known'
    BY <1>2, <1>3, <1>4 DEF Games, Known
  <1>8. Kept'
    <2> SUFFICES ASSUME NEW g \in started
                 PROVE  \/ \E u \in Tab : table'[u].game = g
                        \/ g = paused' \/ g \in given' \/ g \in strays'
                        \/ \E p \in DOMAIN plays' : plays'[p].game = g
      BY <1>2 DEF Kept
    <2>1. \A u \in Tab : table[u].game = g => table'[u].game = g
      BY <1>2, <1>3, <1>4
    <2> QED BY <1>2, <1>5, <2>1 DEF Games, Kept
  <1>9. Once'
    <2> SUFFICES ASSUME NEW g \in started \ strays'
                 PROVE  /\ \A v, u \in Tab : table'[v].game = g /\ table'[u].game = g => v = u
                        /\ \A u \in Tab : table'[u].game = g /\ paused' = g =>
                              page'[u].op.kind = "discard"
                        /\ \A p \in DOMAIN plays' : plays'[p].game = g =>
                              g # paused' /\ \A u \in Tab : table'[u].game # g
                        /\ \A p, q \in DOMAIN plays' :
                              plays'[p].game = g /\ plays'[q].game = g => p = q
      BY <1>2 DEF Once
    <2>1. g \in started \ strays
      BY <1>5
    <2>2. /\ \A v, u \in Tab : table[v].game = g /\ table[u].game = g => v = u
          /\ \A u \in Tab : table[u].game = g /\ paused = g => page[u].op.kind = "discard"
          /\ \A p \in DOMAIN plays : plays[p].game = g =>
                g # paused /\ \A u \in Tab : table[u].game # g
          /\ \A p, q \in DOMAIN plays : plays[p].game = g /\ plays[q].game = g => p = q
      BY <2>1 DEF Games, Once
    <2>3. CASE g = h
      <3>1. paused = h /\ \A u \in Tab : table[u].game # h
        BY <1>5, <2>3
      <3> QED BY <1>2, <1>3, <2>2, <2>3, <3>1
    <2>4. CASE g # h
      <3>1. \A u \in Tab : table'[u].game = g => table[u].game = g /\ u # t
        BY <1>2, <1>3, <2>4
      <3> QED BY <1>2, <1>3, <2>2, <3>1
    <2> QED BY <2>3, <2>4
  <1> QED BY <1>6, <1>7, <1>8, <1>9 DEF Games

(* The write is done. *)
LEMMA GamesWritten ==
    ASSUME TInv, Games, NEW t \in Tab, Written(t) PROVE Games'
  <1>1. PICK op \in Operation : op = page[t].op
    BY WrittenDoes
  <1>2. PICK h \in Game : h = op.game
    BY <1>1, WrittenDoes
  <1>3. /\ started' = started
        /\ op.kind \in {"discard", "put away", "record"}
        /\ op.kind = "discard" => table' = table
        /\ op.kind # "discard" => table'[t].game = NoGame
        /\ page'[t].op.kind = "none"
        /\ \A u \in Tab \ {t} : table'[u] = table[u] /\ page'[u] = page[u]
    BY <1>1, WrittenDoes, Pieces DEF Laid, Turned
  <1>4. Write(op, {}) /\ op.game # NoGame
    BY <1>1, <1>2, WrittenDoes, TableAssumption
  <1>5. /\ op.kind = "discard" =>
              /\ paused' = NoGame /\ plays' = plays /\ given' = given
              /\ strays' = strays \cup ({paused} \ {NoGame, h})
        /\ op.kind = "put away" =>
              /\ paused' = h /\ plays' = plays /\ strays' = strays
              /\ given' = given \cup ({paused} \ {NoGame})
        /\ op.kind = "record" =>
              /\ paused' = paused /\ Added(h) /\ strays' = strays /\ given' = given
    <2>1. PICK gone \in SUBSET Game : gone = {} /\ Write(op, gone)
      BY <1>4
    <2>2. given \cup gone = given
      BY <2>1
    <2> QED BY <1>2, <1>4, <2>1, <2>2, WriteDoes
  <1>6. NoGame \notin started /\ NoGame # h
    BY TableAssumption DEF TInv, TypeOK
  <1>7. Taken /\ Known /\ Kept /\ Once
    BY DEF Games
  <1>8. /\ op.kind # "discard" => h = table[t].game
        /\ op.kind = "discard" => h \in given \cup strays \cup {table[t].game}
    BY <1>1, <1>2, <1>3, <1>7 DEF Taken
  <1>9. page'[t].shown \in {paused', page[t].shown}
    BY <1>1, <1>3, WrittenDoes
  <1>10. CASE op.kind = "discard"
    <2>1. Taken'
      BY <1>3, <1>5, <1>7, <1>10 DEF Taken
    <2>2. Known'
      BY <1>3, <1>5, <1>7, <1>9, <1>10 DEF Known
    <2>3. Kept'
      <3> SUFFICES ASSUME NEW g \in started
                   PROVE  \/ \E u \in Tab : table'[u].game = g
                          \/ g = paused' \/ g \in given' \/ g \in strays'
                          \/ \E p \in DOMAIN plays' : plays'[p].game = g
        BY <1>3 DEF Kept
      <3>1. CASE g = paused
        <4>1. CASE g = h
          BY <1>3, <1>5, <1>8, <1>10, <4>1
        <4>2. CASE g # h
          BY <1>5, <1>6, <1>10, <3>1, <4>2
        <4> QED BY <4>1, <4>2
      <3>2. CASE g # paused
        BY <1>3, <1>5, <1>7, <1>10, <3>2 DEF Kept
      <3> QED BY <3>1, <3>2
    <2>4. Once'
      BY <1>3, <1>5, <1>6, <1>7, <1>10 DEF Once
    <2> QED BY <2>1, <2>2, <2>3, <2>4 DEF Games
  <1>11. CASE op.kind = "put away"
    <2>1. Taken'
      BY <1>3, <1>5, <1>7, <1>11 DEF Taken
    <2>2. h \in started /\ \A u \in Tab : page[u].shown \in started \cup {NoGame}
      BY <1>6, <1>7, <1>8, <1>11 DEF Known
    <2>3. Known'
      BY <1>3, <1>5, <1>7, <1>9, <1>11, <2>2 DEF Known
    <2>4. Kept'
      <3> SUFFICES ASSUME NEW g \in started
                   PROVE  \/ \E u \in Tab : table'[u].game = g
                          \/ g = paused' \/ g \in given' \/ g \in strays'
                          \/ \E p \in DOMAIN plays' : plays'[p].game = g
        BY <1>3 DEF Kept
      <3>1. g = paused => g \in given'
        BY <1>5, <1>6, <1>11
      <3>2. \A u \in Tab : table[u].game = g => table'[u].game = g \/ g = paused'
        BY <1>3, <1>5, <1>8, <1>11
      <3> QED BY <1>3, <1>5, <1>7, <1>11, <3>1, <3>2 DEF Kept
    <2>5. Once'
      <3> SUFFICES ASSUME NEW g \in started \ strays
                   PROVE  /\ \A v, u \in Tab : table'[v].game = g /\ table'[u].game = g => v = u
                          /\ \A u \in Tab : table'[u].game = g /\ paused' = g =>
                                page'[u].op.kind = "discard"
                          /\ \A p \in DOMAIN plays' : plays'[p].game = g =>
                                g # paused' /\ \A u \in Tab : table'[u].game # g
                          /\ \A p, q \in DOMAIN plays' :
                                plays'[p].game = g /\ plays'[q].game = g => p = q
        BY <1>3, <1>5, <1>11 DEF Once
      <3>1. /\ \A v, u \in Tab : table[v].game = g /\ table[u].game = g => v = u
            /\ \A p \in DOMAIN plays : plays[p].game = g =>
                  g # paused /\ \A u \in Tab : table[u].game # g
            /\ \A p, q \in DOMAIN plays : plays[p].game = g /\ plays[q].game = g => p = q
        BY <1>7 DEF Once
      <3>2. \A u \in Tab : table'[u].game = g => table[u].game = g /\ u # t
        BY <1>3, <1>6, <1>11
      <3>3. g = h => \A u \in Tab : table'[u].game # g
        BY <1>8, <1>11, <3>1, <3>2
      <3>4. \A p \in DOMAIN plays : plays[p].game = g => g # h
        BY <1>8, <1>11, <3>1
      <3> QED BY <1>5, <1>11, <3>1, <3>2, <3>3, <3>4
    <2> QED BY <2>1, <2>3, <2>4, <2>5 DEF Games
  <1>12. CASE op.kind = "record"
    <2>0. /\ paused' = paused /\ strays' = strays /\ given' = given
          /\ \A p \in DOMAIN plays : p \in DOMAIN plays' /\ plays'[p] = plays[p]
          /\ \A p \in DOMAIN plays' :
                p \in DOMAIN plays \/ (p = Len(plays') /\ plays'[p].game = h)
          /\ \E p \in DOMAIN plays' : plays'[p].game = h
      BY <1>5, <1>12 DEF Added
    <2>1. Taken'
      BY <1>3, <1>7, <2>0 DEF Taken
    <2>2. h \in started
      BY <1>6, <1>7, <1>8, <1>12 DEF Known
    <2>3. Known'
      BY <1>3, <1>7, <1>9, <2>0, <2>2, <1>12 DEF Known
    <2>4. Kept'
      <3> SUFFICES ASSUME NEW g \in started
                   PROVE  \/ \E u \in Tab : table'[u].game = g
                          \/ g = paused' \/ g \in given' \/ g \in strays'
                          \/ \E p \in DOMAIN plays' : plays'[p].game = g
        BY <1>3 DEF Kept
      <3>1. \A u \in Tab : table[u].game = g => table'[u].game = g \/ g = h
        BY <1>3, <1>8, <1>12
      <3> QED BY <1>7, <2>0, <3>1 DEF Kept
    <2>5. Once'
      <3> SUFFICES ASSUME NEW g \in started \ strays
                   PROVE  /\ \A v, u \in Tab : table'[v].game = g /\ table'[u].game = g => v = u
                          /\ \A u \in Tab : table'[u].game = g /\ paused' = g =>
                                page'[u].op.kind = "discard"
                          /\ \A p \in DOMAIN plays' : plays'[p].game = g =>
                                g # paused' /\ \A u \in Tab : table'[u].game # g
                          /\ \A p, q \in DOMAIN plays' :
                                plays'[p].game = g /\ plays'[q].game = g => p = q
        BY <1>3, <2>0 DEF Once
      <3>1. /\ \A v, u \in Tab : table[v].game = g /\ table[u].game = g => v = u
            /\ \A u \in Tab : table[u].game = g /\ paused = g => page[u].op.kind = "discard"
            /\ \A p \in DOMAIN plays : plays[p].game = g =>
                  g # paused /\ \A u \in Tab : table[u].game # g
            /\ \A p, q \in DOMAIN plays : plays[p].game = g /\ plays[q].game = g => p = q
        BY <1>7 DEF Once
      <3>2. \A u \in Tab : table'[u].game = g => table[u].game = g /\ u # t
        BY <1>3, <1>6, <1>12
      <3>3. g = h => /\ \A u \in Tab : table'[u].game # g
                     /\ paused # g
                     /\ \A p \in DOMAIN plays : plays[p].game # g
        <4> SUFFICES ASSUME g = h
                     PROVE  /\ \A u \in Tab : table'[u].game # g
                            /\ paused # g
                            /\ \A p \in DOMAIN plays : plays[p].game # g
          OBVIOUS
        <4>1. table[t].game = g /\ page[t].op.kind # "discard"
          BY <1>1, <1>8, <1>12
        <4> QED BY <3>1, <3>2, <4>1
      <3>4. \A p \in DOMAIN plays' : plays'[p].game = g =>
                \/ p \in DOMAIN plays /\ plays[p].game = g
                \/ p = Len(plays') /\ g = h
        BY <2>0
      <3>5. \A p, q \in DOMAIN plays' : plays'[p].game = g /\ plays'[q].game = g => p = q
        BY <3>1, <3>3, <3>4
      <3>6. \A p \in DOMAIN plays' : plays'[p].game = g =>
                g # paused /\ \A u \in Tab : table'[u].game # g
        BY <3>1, <3>2, <3>3, <3>4
      <3>7. \A u \in Tab : table'[u].game = g /\ paused = g => page'[u].op.kind = "discard"
        BY <1>3, <3>1, <3>2
      <3>8. \A v, u \in Tab : table'[v].game = g /\ table'[u].game = g => v = u
        BY <3>1, <3>2
      <3> QED BY <2>0, <3>5, <3>6, <3>7, <3>8
    <2> QED BY <2>1, <2>3, <2>4, <2>5 DEF Games
  <1> QED BY <1>3, <1>10, <1>11, <1>12

LEMMA GamesClose ==
    ASSUME TInv, Games, NEW t \in Tab, Close(t) PROVE Games'
  <1>1. PICK op \in Operation :
          /\ op.kind # "none" => op.game # NoGame /\ op = page[t].op
          /\ Write(op, {table[t].game} \ {NoGame})
    BY CloseDoes
  <1>2. PICK gone \in SUBSET Game : gone = {table[t].game} \ {NoGame}
    BY CloseDoes
  <1>3. PICK h : h = op.game
    OBVIOUS
  <1>4. /\ started' = started /\ table'[t].game = NoGame
        /\ page'[t].op.kind = "none" /\ page'[t].shown = NoGame
        /\ \A u \in Tab \ {t} : table'[u] = table[u] /\ page'[u] = page[u]
    BY CloseDoes, Pieces DEF Laid, Turned
  <1>5. /\ op.kind \in {"none", "discard", "put away", "record"}
        /\ op.kind = "none" =>
              paused' = paused /\ plays' = plays /\ strays' = strays /\ given' = given \cup gone
        /\ op.kind = "discard" =>
              /\ paused' = NoGame /\ plays' = plays /\ given' = given \cup gone
              /\ strays' = strays \cup ({paused} \ {NoGame, h})
        /\ op.kind = "put away" =>
              /\ paused' = h /\ plays' = plays /\ strays' = strays
              /\ given' = given \cup gone \cup ({paused} \ {NoGame})
        /\ op.kind = "record" =>
              /\ paused' = paused /\ Added(h) /\ strays' = strays /\ given' = given \cup gone
    BY <1>1, <1>2, <1>3, WriteDoes
  <1>6. NoGame \notin started
    BY TableAssumption DEF TInv, TypeOK
  <1>7. Taken /\ Known /\ Kept /\ Once
    BY DEF Games
  <1>8. /\ op.kind \in {"put away", "record"} => h = table[t].game /\ h # NoGame
        /\ op.kind = "discard" => h \in given \cup strays \cup {table[t].game}
    BY <1>1, <1>3, <1>5, <1>7 DEF Taken
  <1>9. /\ given \subseteq given' /\ strays \subseteq strays'
        /\ table[t].game \in started => table[t].game \in given'
    BY <1>2, <1>5, <1>6
  <1>10. /\ op.kind = "record" =>
               /\ \A p \in DOMAIN plays : p \in DOMAIN plays' /\ plays'[p] = plays[p]
               /\ \A p \in DOMAIN plays' :
                     p \in DOMAIN plays \/ (p = Len(plays') /\ plays'[p].game = h)
         /\ op.kind # "record" => plays' = plays
    BY <1>5 DEF Added
  <1>11. /\ \A p \in DOMAIN plays : p \in DOMAIN plays' /\ plays'[p] = plays[p]
         /\ \A p \in DOMAIN plays' :
               \/ p \in DOMAIN plays
               \/ p = Len(plays') /\ plays'[p].game = h /\ op.kind = "record"
    BY <1>10
  <1>12. Taken'
    BY <1>4, <1>7, <1>9 DEF Taken
  <1>13. Known'
    <2>1. op.kind \in {"put away", "record"} => h \in started
      BY <1>7, <1>8 DEF Known
    <2>2. paused' \in started \cup {NoGame}
      BY <1>5, <1>7, <2>1 DEF Known
    <2>3. \A p \in DOMAIN plays' : plays'[p].game \in started
      BY <1>7, <1>11, <2>1 DEF Known
    <2> QED BY <1>4, <1>7, <2>2, <2>3 DEF Known
  <1>14. Kept'
    <2> SUFFICES ASSUME NEW g \in started
                 PROVE  \/ \E u \in Tab : table'[u].game = g
                        \/ g = paused' \/ g \in given' \/ g \in strays'
                        \/ \E p \in DOMAIN plays' : plays'[p].game = g
      BY <1>4 DEF Kept
    <2>1. \A u \in Tab : table[u].game = g => table'[u].game = g \/ g \in given'
      BY <1>4, <1>9
    <2>2. g = paused => g = paused' \/ g \in given' \/ g \in strays'
      <3> SUFFICES ASSUME g = paused PROVE g = paused' \/ g \in given' \/ g \in strays'
        OBVIOUS
      <3>1. CASE op.kind = "discard"
        <4>1. g = h => g \in given' \/ g \in strays'
          BY <1>8, <1>9, <3>1
        <4>2. g # h => g \in strays'
          BY <1>5, <1>6, <3>1
        <4> QED BY <4>1, <4>2
      <3>2. CASE op.kind = "put away"
        BY <1>5, <1>6, <3>2
      <3>3. CASE op.kind \in {"none", "record"}
        BY <1>5, <3>3
      <3> QED BY <1>5, <3>1, <3>2, <3>3
    <2>3. /\ g \in given => g \in given'
          /\ g \in strays => g \in strays'
      BY <1>9
    <2>4. (\E p \in DOMAIN plays : plays[p].game = g) => \E p \in DOMAIN plays' : plays'[p].game = g
      BY <1>11
    <2> QED BY <1>7, <2>1, <2>2, <2>3, <2>4 DEF Kept
  <1>15. Once'
    <2> SUFFICES ASSUME NEW g \in started \ strays'
                 PROVE  /\ \A v, u \in Tab : table'[v].game = g /\ table'[u].game = g => v = u
                        /\ \A u \in Tab : table'[u].game = g /\ paused' = g =>
                              page'[u].op.kind = "discard"
                        /\ \A p \in DOMAIN plays' : plays'[p].game = g =>
                              g # paused' /\ \A u \in Tab : table'[u].game # g
                        /\ \A p, q \in DOMAIN plays' :
                              plays'[p].game = g /\ plays'[q].game = g => p = q
      BY <1>4 DEF Once
    <2>0. g \in started \ strays
      BY <1>9
    <2>1. /\ \A v, u \in Tab : table[v].game = g /\ table[u].game = g => v = u
          /\ \A u \in Tab : table[u].game = g /\ paused = g => page[u].op.kind = "discard"
          /\ \A p \in DOMAIN plays : plays[p].game = g =>
                g # paused /\ \A u \in Tab : table[u].game # g
          /\ \A p, q \in DOMAIN plays : plays[p].game = g /\ plays[q].game = g => p = q
      BY <1>7, <2>0 DEF Once
    <2>2. \A u \in Tab : table'[u].game = g => table[u].game = g /\ u # t
      BY <1>4, <1>6
    <2>3. g = h /\ op.kind \in {"put away", "record"} =>
             /\ table[t].game = g
             /\ \A u \in Tab : table'[u].game # g
             /\ \A p \in DOMAIN plays : plays[p].game # g
      BY <1>8, <2>1, <2>2
    <2>4. op.kind = "record" /\ g = h => paused # g
      <3>1. op.kind = "record" => page[t].op.kind = "record"
        BY <1>1
      <3> QED BY <2>1, <2>3, <3>1
    <2>5. paused' = g => paused = g \/ (op.kind = "put away" /\ g = h)
      BY <1>5, <1>6
    <2>6. \A p \in DOMAIN plays' : plays'[p].game = g =>
              \/ p \in DOMAIN plays /\ plays[p].game = g
              \/ p = Len(plays') /\ g = h /\ op.kind = "record"
      BY <1>11
    <2>7. \A p, q \in DOMAIN plays' : plays'[p].game = g /\ plays'[q].game = g => p = q
      BY <2>1, <2>3, <2>6
    <2>8. \A p \in DOMAIN plays' : plays'[p].game = g =>
              g # paused' /\ \A u \in Tab : table'[u].game # g
      BY <2>1, <2>2, <2>3, <2>4, <2>5, <2>6
    <2>9. \A u \in Tab : table'[u].game = g /\ paused' = g => page'[u].op.kind = "discard"
      BY <1>4, <2>1, <2>2, <2>3, <2>5
    <2>10. \A v, u \in Tab : table'[v].game = g /\ table'[u].game = g => v = u
      BY <2>1, <2>2
    <2> QED BY <2>7, <2>8, <2>9, <2>10
  <1> QED BY <1>12, <1>13, <1>14, <1>15 DEF Games

(* What is sent and marked moves no game. *)
LEMMA GamesSending ==
    ASSUME TInv, Games,
           \/ \E t \in Tab : Send(t) \/ Mark(t)
           \/ \E i \in DOMAIN posts : Relay(i) \/ Lose(i) \/ Settle(i)
    PROVE  Games'
  <1>1. ASSUME NEW t \in Tab, Send(t) PROVE Games'
    <2>1. /\ UNCHANGED <<table, paused, plays, started, given, strays>>
          /\ Turned(t) /\ SamePlace(t)
      BY <1>1, SendDoes
    <2> QED BY <2>1, RowsStay, GamesQuiet DEF Turned, SamePlace
  <1>2. ASSUME NEW t \in Tab, Mark(t) PROVE Games'
    <2>1. UNCHANGED <<table, page, paused, started, given, strays>> /\ SameRows
      BY <1>2, MarkDoes
    <2> QED BY <2>1, GamesQuiet
  <1>3. ASSUME NEW i \in DOMAIN posts, Relay(i) \/ Lose(i) PROVE Games'
    <2>1. UNCHANGED <<table, page, paused, plays, started, given, strays>>
      BY <1>3, WireDoes
    <2> QED BY <2>1, RowsStay, GamesQuiet
  <1>4. ASSUME NEW i \in DOMAIN posts, Settle(i) PROVE Games'
    <2>1. PICK t \in Tab : t = posts[i].tab
      BY Standing DEF Sent
    <2>2. /\ UNCHANGED <<table, paused, started, given, strays>> /\ SameRows
          /\ Turned(t) /\ SamePlace(t)
      BY <1>4, <2>1, SettleDoes
    <2> QED BY <2>2, GamesQuiet DEF Turned, SamePlace
  <1> QED BY <1>1, <1>2, <1>3, <1>4

LEMMA GamesStep == TInv /\ Games /\ [Next]_vars => Games'
  <1> SUFFICES ASSUME TInv, Games, [Next]_vars PROVE Games'
    OBVIOUS
  <1>1. CASE UNCHANGED vars
    BY <1>1, RowsStay, GamesQuiet DEF vars
  <1>2. CASE Next
    BY <1>2, GamesOpen, GamesStart, GamesClear, GamesResume, GamesWritten, GamesClose,
       GamesSending DEF Next
  <1> QED BY <1>1, <1>2

(* A game is in one place: OnePlace of PlayTable, for any tabs, games and    *)
(* number of plays (startGame, LongBreak's save, record, newGame, resume and *)
(* throwAway, with a tab closed before or after any of their writes).        *)
THEOREM PlayOnePlace == Spec => []OnePlace
  <1>1. TInv /\ Games => OnePlace
    <2> SUFFICES ASSUME TInv, Games PROVE OnePlace
      OBVIOUS
    <2>1. GameKept
      <3> SUFFICES ASSUME NEW g \in started
                   PROVE  \/ g \in OnTables \cup {paused} \cup given \cup strays
                          \/ RecordsOf(g) # {}
        BY DEF GameKept
      <3> QED BY DEF Games, Kept, OnTables, RecordsOf
    <2>2. CountedOnce
      <3> SUFFICES ASSUME NEW g \in started \ strays
                   PROVE  /\ Cardinality(RecordsOf(g)) <= 1
                          /\ RecordsOf(g) # {} =>
                                /\ g # paused
                                /\ \A t \in Tab : table[t].game = g => page[t].op.kind = "record"
        BY DEF CountedOnce
      <3>1. /\ \A p \in DOMAIN plays : plays[p].game = g =>
                  g # paused /\ \A t \in Tab : table[t].game # g
            /\ \A p, q \in DOMAIN plays : plays[p].game = g /\ plays[q].game = g => p = q
        BY DEF Games, Once
      <3>2. Cardinality(RecordsOf(g)) <= 1
        <4>1. CASE RecordsOf(g) = {}
          <5>1. Cardinality(RecordsOf(g)) = 0
            BY <4>1, FS_EmptySet
          <5> QED BY <5>1
        <4>2. CASE RecordsOf(g) # {}
          <5>1. PICK p : p \in RecordsOf(g)
            BY <4>2
          <5>2. RecordsOf(g) = {p}
            BY <3>1, <5>1 DEF RecordsOf
          <5>3. Cardinality(RecordsOf(g)) = 1
            BY <5>2, FS_Singleton
          <5> QED BY <5>3
        <4> QED BY <4>1, <4>2
      <3> QED BY <3>1, <3>2 DEF RecordsOf
    <2> QED BY <2>1, <2>2 DEF OnePlace, TInv
  <1>2. Init => TInv /\ Games
    BY TInvInit, GamesInit
  <1>3. TInv /\ Games /\ [Next]_vars => (TInv /\ Games)'
    BY TInvStep, GamesStep
  <1> QED BY <1>1, <1>2, <1>3, PTL DEF Spec

-----------------------------------------------------------------------------
(* --- what is said to be logged is there ---------------------------------------- *)

(* A copy that was made is there, and the relay says `ok' of nothing else.   *)
Honest ==
    \A i \in DOMAIN posts :
        /\ posts[i].copy => /\ copies[posts[i].play] > 0
                            /\ posts[i].code \in {"ok", "bgg_rejected", "bgg_uncertain", "offline"}
        /\ posts[i].code = "ok" => posts[i].copy

Showing == \A t \in Tab : page[t].bgg = "sent" => page[t].play \in Play

Logged == Honest /\ Showing /\ SaidIsThere

LEMMA LoggedInit == Init => Logged
  <1> SUFFICES ASSUME Init PROVE Logged
    OBVIOUS
  <1>1. PICK x \in PageState : x = Elsewhere /\ x.bgg = "idle"
    BY Opening DEF Elsewhere
  <1>2. /\ \A t \in Tab : page[t].bgg = "idle"
        /\ plays = <<>> /\ posts = <<>>
    BY <1>1 DEF Init
  <1>3. DOMAIN plays = {} /\ DOMAIN posts = {}
    BY <1>2
  <1> QED BY <1>2, <1>3 DEF Logged, Honest, Showing, SaidIsThere

(* Nothing new is said. *)
LEMMA LoggedQuiet ==
    ASSUME TInv, Logged, UNCHANGED <<copies, byHand>>, Honest',
           \A p \in DOMAIN plays' : plays'[p].reported =>
                                       p \in DOMAIN plays /\ plays[p].reported,
           \A t \in Tab : page'[t].bgg = "sent" =>
                             page[t].bgg = "sent" /\ page'[t].play = page[t].play
    PROVE  Logged'
  <1>1. Showing'
    BY DEF Logged, Showing
  <1>2. SaidIsThere'
    BY DEF Logged, SaidIsThere
  <1> QED BY <1>1, <1>2 DEF Logged

LEMMA LoggedPages ==
    ASSUME TInv, Logged, UNCHANGED sending, plays' = plays, NEW t \in Tab, Turned(t),
           \/ page'[t].bgg = "idle"
           \/ page'[t].bgg = page[t].bgg /\ page'[t].play = page[t].play
    PROVE  Logged'
  <1>1. Honest' /\ UNCHANGED <<copies, byHand>>
    BY DEF Logged, Honest, sending
  <1>2. \A u \in Tab : page'[u].bgg = "sent" =>
                          page[u].bgg = "sent" /\ page'[u].play = page[u].play
    BY DEF Turned
  <1> QED BY <1>1, <1>2, LoggedQuiet

LEMMA LoggedOpen ==
    ASSUME TInv, Logged, NEW t \in Tab,
           \/ Open(t) \/ Look(t)
           \/ GoToBriefing(t) \/ BackToSetup(t) \/ StartGame(t)
           \/ Finish(t) \/ BackToGame(t) \/ DiscardGame(t) \/ NewGame(t)
           \/ PutAway(t) \/ Record(t) \/ Resume(t) \/ ThrowAway(t)
    PROVE  Logged'
  <1>1. CASE Open(t) \/ Look(t)
    BY <1>1, OpenDoes, LookDoes, LoggedPages DEF SameGames
  <1>2. CASE GoToBriefing(t) \/ BackToSetup(t) \/ Finish(t) \/ BackToGame(t)
    BY <1>2, TouchDoes, LoggedPages
  <1>3. CASE StartGame(t)
    <2>1. page' = page /\ plays' = plays /\ UNCHANGED sending
      BY <1>3, StartDoes
    <2> QED BY <2>1, LoggedPages, Standing DEF Turned
  <1>4. CASE DiscardGame(t) \/ NewGame(t)
    BY <1>4, ClearDoes, LoggedPages
  <1>5. CASE PutAway(t) \/ Record(t)
    BY <1>5, SaveDoes, LoggedPages DEF SameGames
  <1>6. CASE Resume(t)
    BY <1>6, ResumeDoes, LoggedPages
  <1>7. CASE ThrowAway(t)
    BY <1>7, ThrowDoes, LoggedPages
  <1> QED BY <1>1, <1>2, <1>3, <1>4, <1>5, <1>6, <1>7

(* The posts keep what is known of them when a screen or a tab is left. *)
LEMMA HonestWaits ==
    ASSUME TInv, Honest, NEW t \in Tab, NEW who \in {"tab", "nobody"}, Waits(t, who),
           copies' = copies
    PROVE  Honest'
  <1>1. /\ DOMAIN posts' = DOMAIN posts
        /\ \A i \in DOMAIN posts :
              /\ posts'[i].play = posts[i].play
              /\ (posts'[i].copy <=> posts[i].copy) /\ posts'[i].code = posts[i].code
    BY WaitsDoes
  <1> QED BY <1>1 DEF Honest

LEMMA HonestPost ==
    ASSUME TInv, Honest, NEW t \in Tab, NEW p \in Play, Post(t, p), copies' = copies
    PROVE  Honest'
  <1>1. /\ DOMAIN posts' = DOMAIN posts \cup {Len(posts')} /\ Len(posts') \notin DOMAIN posts
        /\ \A i \in DOMAIN posts : posts'[i] = posts[i]
        /\ ~posts'[Len(posts')].copy /\ posts'[Len(posts')].code = "none"
    BY PostDoes
  <1> QED BY <1>1 DEF Honest

LEMMA LoggedLeave ==
    ASSUME TInv, Logged, NEW t \in Tab, Leave(t) \/ Close(t) PROVE Logged'
  <1>1. CASE Leave(t)
    <2>1. /\ Turned(t) /\ plays' = plays /\ UNCHANGED <<copies, byHand>>
          /\ page'[t].bgg = "idle" /\ Waits(t, "tab")
      BY <1>1, LeaveDoes DEF SameGames
    <2>2. Honest'
      BY <2>1, HonestWaits DEF Logged
    <2> QED BY <2>1, <2>2, LoggedQuiet DEF Turned
  <1>2. CASE Close(t)
    <2>1. /\ Turned(t) /\ UNCHANGED <<copies, byHand>>
          /\ page'[t].bgg = "idle" /\ Waits(t, "nobody")
      BY <1>2, CloseDoes
    <2>2. Honest'
      BY <2>1, HonestWaits DEF Logged
    <2>3. PICK op \in Operation : /\ op.kind # "none" => op.game # NoGame
                                  /\ Write(op, {table[t].game} \ {NoGame})
      BY <1>2, CloseDoes
    <2>4. PICK gone \in SUBSET Game : gone = {table[t].game} \ {NoGame}
      BY <1>2, CloseDoes
    <2>5. (op.kind = "record" => Added(op.game)) /\ (op.kind # "record" => plays' = plays)
      BY <2>3, <2>4, WriteDoes
    <2>6. \A p \in DOMAIN plays' : plays'[p].reported =>
                                      p \in DOMAIN plays /\ plays[p].reported
      BY <2>5 DEF Added
    <2> QED BY <2>1, <2>2, <2>6, LoggedQuiet DEF Turned
  <1> QED BY <1>1, <1>2

LEMMA LoggedWritten ==
    ASSUME TInv, Logged, NEW t \in Tab, Written(t) PROVE Logged'
  <1>1. PICK op \in Operation : op = page[t].op
    BY WrittenDoes
  <1>2. /\ Turned(t) /\ UNCHANGED <<copies, byHand>> /\ Write(op, {}) /\ op.game # NoGame
    BY <1>1, WrittenDoes, TableAssumption
  <1>3. PICK gone \in SUBSET Game : gone = {} /\ Write(op, gone)
    BY <1>2
  <1>4. (op.kind = "record" => Added(op.game)) /\ (op.kind # "record" => plays' = plays)
    BY <1>2, <1>3, WriteDoes
  <1>5. \A p \in DOMAIN plays' : plays'[p].reported =>
                                    p \in DOMAIN plays /\ plays[p].reported
    BY <1>4 DEF Added
  <1>6. CASE op.kind = "record"
    <2>1. PICK p \in Play :
            /\ p = Len(plays') /\ page'[t].bgg # "sent"
            /\ Post(t, p) \/ UNCHANGED <<posts, sends>>
      BY <1>1, <1>6, WrittenDoes
    <2>2. Honest'
      <3>1. CASE Post(t, p)
        BY <1>2, <3>1, HonestPost DEF Logged
      <3>2. CASE UNCHANGED <<posts, sends>>
        BY <1>2, <3>2 DEF Logged, Honest
      <3> QED BY <2>1, <3>1, <3>2
    <2> QED BY <1>2, <1>5, <2>1, <2>2, LoggedQuiet DEF Turned
  <1>7. CASE op.kind # "record"
    <2>1. page'[t].play = page[t].play /\ page'[t].bgg = page[t].bgg /\ posts' = posts
      BY <1>1, <1>7, WrittenDoes
    <2>2. Honest'
      BY <1>2, <2>1 DEF Logged, Honest
    <2> QED BY <1>2, <1>5, <2>1, <2>2, LoggedQuiet DEF Turned
  <1> QED BY <1>6, <1>7

LEMMA LoggedSend ==
    ASSUME TInv, Logged, NEW t \in Tab, Send(t) \/ Mark(t) PROVE Logged'
  <1>1. CASE Send(t)
    <2>1. PICK p \in Play : p = page[t].play /\ Post(t, p)
      BY <1>1, SendDoes
    <2>2. /\ Turned(t) /\ UNCHANGED <<plays, copies, byHand>> /\ page'[t].bgg = "sending"
      BY <1>1, SendDoes
    <2>3. Honest'
      BY <2>1, <2>2, HonestPost DEF Logged
    <2> QED BY <2>2, <2>3, LoggedQuiet DEF Turned
  <1>2. CASE Mark(t)
    <2>1. /\ UNCHANGED <<page, posts, copies>> /\ byHand' = byHand \cup {page[t].play}
          /\ SameRows /\ \A r \in DOMAIN plays \ {page[t].play} : plays'[r] = plays[r]
      BY <1>2, MarkDoes
    <2>2. Honest' /\ Showing'
      BY <2>1 DEF Logged, Honest, Showing
    <2>3. SaidIsThere'
      BY <2>1 DEF Logged, SaidIsThere, SameRows
    <2> QED BY <2>2, <2>3 DEF Logged
  <1> QED BY <1>1, <1>2

LEMMA LoggedWire ==
    ASSUME TInv, Logged, NEW i \in DOMAIN posts, Relay(i) \/ Lose(i) PROVE Logged'
  <1>1. /\ UNCHANGED <<page, plays, byHand>> /\ DOMAIN posts' = DOMAIN posts
        /\ \A j \in DOMAIN posts : /\ posts'[j].play = posts[j].play
                                   /\ j # i => posts'[j] = posts[j]
        /\ posts'[i].code = "ok" => posts'[i].copy
        /\ copies' \in [Play -> Nat] /\ \A p \in Play : copies'[p] >= copies[p]
        /\ \/ /\ posts'[i].code = "offline" /\ (posts'[i].copy <=> posts[i].copy)
              /\ copies' = copies
           \/ /\ posts'[i].code \in {"ok", "bgg_rejected", "bgg_uncertain"}
              /\ posts'[i].copy => /\ posts'[i].code \in {"ok", "bgg_rejected", "bgg_uncertain"}
                                   /\ copies'[posts[i].play] > 0
    BY WireDoes
  <1>2. copies \in [Play -> Nat] /\ DOMAIN plays \subseteq Play
        /\ \A j \in DOMAIN posts : posts[j].play \in Play
    BY Standing DEF TInv, TypeOK, Sent
  <1>3. \A p \in Play : copies[p] > 0 => copies'[p] > 0
    <2> TAKE p \in Play
    <2>1. copies[p] \in Nat /\ copies'[p] \in Nat /\ copies'[p] >= copies[p]
      BY <1>1, <1>2
    <2> QED BY <2>1
  <1>4. Honest'
    <2> SUFFICES ASSUME NEW j \in DOMAIN posts
                 PROVE  /\ posts'[j].copy =>
                              /\ copies'[posts'[j].play] > 0
                              /\ posts'[j].code \in {"ok", "bgg_rejected", "bgg_uncertain", "offline"}
                        /\ posts'[j].code = "ok" => posts'[j].copy
      BY <1>1 DEF Honest
    <2>1. CASE j # i
      BY <1>1, <1>2, <1>3, <2>1 DEF Logged, Honest
    <2>2. CASE j = i
      <3>1. CASE posts'[i].code = "offline" /\ (posts'[i].copy <=> posts[i].copy)
        BY <1>1, <1>2, <1>3, <2>2, <3>1 DEF Logged, Honest
      <3>2. CASE /\ posts'[i].code \in {"ok", "bgg_rejected", "bgg_uncertain"}
                 /\ posts'[i].copy => /\ posts'[i].code \in {"ok", "bgg_rejected", "bgg_uncertain"}
                                      /\ copies'[posts[i].play] > 0
        BY <1>1, <2>2, <3>2
      <3> QED BY <1>1, <3>1, <3>2
    <2> QED BY <2>1, <2>2
  <1>5. Showing'
    BY <1>1 DEF Logged, Showing
  <1>6. SaidIsThere'
    BY <1>1, <1>2, <1>3 DEF Logged, SaidIsThere, Showing
  <1> QED BY <1>4, <1>5, <1>6 DEF Logged

LEMMA LoggedSettle ==
    ASSUME TInv, Logged, NEW i \in DOMAIN posts, Settle(i) PROVE Logged'
  <1>1. PICK t \in Tab : t = posts[i].tab
    BY Standing DEF Sent
  <1>2. /\ UNCHANGED <<copies, byHand>> /\ SameRows /\ Turned(t)
        /\ \A j \in DOMAIN posts' :
              Before(i, j) \in DOMAIN posts \ {i} /\ posts'[j] = posts[Before(i, j)]
        /\ \A p \in DOMAIN plays :
              plays'[p].reported <=> \/ plays[p].reported
                                     \/ /\ p = posts[i].play /\ posts[i].code = "ok"
                                        /\ posts[i].waits # "nobody"
    BY <1>1, SettleDoes
  <1>3. posts[i].code = "ok" => copies[posts[i].play] > 0
    BY DEF Logged, Honest
  <1>4. posts[i].play \in Play
    BY Standing DEF Sent
  <1>5. page'[t].bgg = "sent" =>
           \/ page[t].bgg = "sent" /\ page'[t].play = page[t].play
           \/ posts[i].code = "ok" /\ page'[t].play = posts[i].play
    <2>1. CASE Screened(t, i)
      <3>1. CASE page[t].at = "history"
        <4>1. page'[t].bgg \in {"idle", "failed"}
          BY <1>1, <2>1, <3>1, SettleDoes
        <4> QED BY <4>1
      <3>2. CASE page[t].at # "history" /\ posts[i].code = "ok"
        BY <1>1, <2>1, <3>2, SettleDoes
      <3>3. CASE page[t].at # "history" /\ posts[i].code # "ok"
        <4>1. page'[t].bgg = "failed"
          BY <1>1, <2>1, <3>3, SettleDoes
        <4> QED BY <4>1
      <3> QED BY <3>1, <3>2, <3>3
    <2>2. CASE ~Screened(t, i)
      BY <1>1, <2>2, SettleDoes
    <2> QED BY <2>1, <2>2
  <1>6. Honest'
    BY <1>2 DEF Logged, Honest
  <1>7. Showing'
    BY <1>2, <1>4, <1>5 DEF Logged, Showing, Turned
  <1>8. SaidIsThere'
    <2>1. \A p \in DOMAIN plays' : plays'[p].reported => p \in byHand' \/ copies'[p] > 0
      BY <1>2, <1>3 DEF Logged, SaidIsThere, SameRows
    <2>2. \A u \in Tab : page'[u].bgg = "sent" => copies'[page'[u].play] > 0
      BY <1>2, <1>3, <1>5 DEF Logged, SaidIsThere, Turned
    <2> QED BY <2>1, <2>2 DEF SaidIsThere
  <1> QED BY <1>6, <1>7, <1>8 DEF Logged

LEMMA LoggedStep == TInv /\ Logged /\ [Next]_vars => Logged'
  <1> SUFFICES ASSUME TInv, Logged, [Next]_vars PROVE Logged'
    OBVIOUS
  <1>1. CASE UNCHANGED vars
    BY <1>1 DEF vars, Logged, Honest, Showing, SaidIsThere
  <1>2. CASE Next
    BY <1>2, LoggedOpen, LoggedLeave, LoggedWritten, LoggedSend, LoggedWire, LoggedSettle
       DEF Next
  <1> QED BY <1>1, <1>2

(* What the history and the debrief say is on BoardGameGeek is there:        *)
(* SaidIsThere of PlayTable, for any tabs, plays and number of posts         *)
(* (bgg.svelte.ts sendPlayToBgg, PlayDetail's mark, server/bgg.go).          *)
THEOREM PlaySaidIsThere == Spec => []SaidIsThere
  <1>1. Init => TInv /\ Logged
    BY TInvInit, LoggedInit
  <1>2. TInv /\ Logged /\ [Next]_vars => (TInv /\ Logged)'
    BY TInvStep, LoggedStep
  <1>3. Logged => SaidIsThere
    BY DEF Logged
  <1> QED BY <1>1, <1>2, <1>3, PTL DEF Spec

-----------------------------------------------------------------------------
(* --- no second copy in the dark ------------------------------------------------- *)

Shown(t) ==
    /\ page[t].at # "play" => ~page[t].recorded
    /\ page[t].at = "elsewhere" => \A p \in Play : blind[t][p] = 0
    /\ \A p \in Play : blind[t][p] > 0 => p \in DOMAIN plays

(* A screen waits for one answer, and while the play is before the reader it *)
(* offers nothing else.                                                     *)
OneAnswer(t) ==
    \A i \in DOMAIN posts : Screened(t, i) =>
        /\ \A j \in DOMAIN posts : Screened(t, j) => i = j
        /\ page[t].at # "elsewhere" /\ page[t].op.kind # "record"
        /\ page[t].at = "history" \/ page[t].recorded =>
              page[t].bgg = "sending" /\ page[t].play = posts[i].play

(* The screen has no way left to send the play. *)
Settled(t, p) ==
    /\ page[t].at = "history" /\ page[t].play = p => plays[p].reported
    /\ page[t].recorded /\ page[t].play = p => page[t].bgg = "sent"
    /\ \A i \in DOMAIN posts : Screened(t, i) => posts[i].play # p

(* Once a copy is made, the screen has said that it may be there, or offers  *)
(* the play no more.                                                        *)
Closed(t) ==
    \A p \in Play : blind[t][p] > 0 =>
        blind[t][p] <= 1 /\ (p \in said[t] \/ Settled(t, p))

Careful(t) == Shown(t) /\ OneAnswer(t) /\ Closed(t)

(* A screen that has just opened, or that is left. *)
LEMMA CarefulAnew ==
    ASSUME NEW t \in Tab,
           page'[t].at # "play" => ~page'[t].recorded,
           \A p \in Play : blind'[t][p] = 0,
           \A i \in DOMAIN posts' : ~(posts'[i].tab = t /\ posts'[i].waits = "screen")
    PROVE  Careful(t)'
  <1>1. \A p \in Play : ~(blind'[t][p] > 0)
    OBVIOUS
  <1> QED BY <1>1 DEF Careful, Shown, OneAnswer, Closed, Screened

(* What the screen says stays, or the play is no longer before the reader;   *)
(* it waits for the answers it waited for, or for fewer: `m' says which.     *)
LEMMA CarefulStill ==
    ASSUME TInv, NEW t \in Tab, Careful(t), NEW m,
           \A i \in DOMAIN posts' : posts'[i].tab = t /\ posts'[i].waits = "screen" =>
               /\ m[i] \in DOMAIN posts /\ Screened(t, m[i])
               /\ posts'[i].play = posts[m[i]].play
               /\ \A j \in DOMAIN posts' : m[i] = m[j] => i = j,
           blind'[t] = blind[t], said'[t] = said[t],
           DOMAIN plays \subseteq DOMAIN plays',
           \A p \in DOMAIN plays : plays[p].reported => plays'[p].reported,
           \/ page'[t].op.kind = page[t].op.kind
           \/ page'[t].op.kind # "record"
           \/ \A i \in DOMAIN posts : ~Screened(t, i),
           \/ /\ page'[t].at = page[t].at /\ (page'[t].recorded <=> page[t].recorded)
              /\ page'[t].bgg = page[t].bgg /\ page'[t].play = page[t].play
           \/ page'[t].at = "play" /\ ~page'[t].recorded
    PROVE  Careful(t)'
  <1>1. Shown(t)'
    BY DEF Careful, Shown
  <1>2. OneAnswer(t)'
    <2> SUFFICES ASSUME NEW i \in DOMAIN posts', posts'[i].tab = t, posts'[i].waits = "screen"
                 PROVE  /\ \A j \in DOMAIN posts' :
                              posts'[j].tab = t /\ posts'[j].waits = "screen" => i = j
                        /\ page'[t].at # "elsewhere" /\ page'[t].op.kind # "record"
                        /\ page'[t].at = "history" \/ page'[t].recorded =>
                              page'[t].bgg = "sending" /\ page'[t].play = posts'[i].play
      BY DEF OneAnswer, Screened
    <2>1. m[i] \in DOMAIN posts /\ Screened(t, m[i]) /\ posts'[i].play = posts[m[i]].play
      OBVIOUS
    <2>2. /\ \A k \in DOMAIN posts : Screened(t, k) => m[i] = k
          /\ page[t].at # "elsewhere" /\ page[t].op.kind # "record"
          /\ page[t].at = "history" \/ page[t].recorded =>
                page[t].bgg = "sending" /\ page[t].play = posts[m[i]].play
      BY <2>1 DEF Careful, OneAnswer
    <2>3. \A j \in DOMAIN posts' : posts'[j].tab = t /\ posts'[j].waits = "screen" => i = j
      BY <2>2
    <2>4. page'[t].at # "elsewhere" /\ page'[t].op.kind # "record"
      BY <2>1, <2>2
    <2> QED BY <2>1, <2>2, <2>3, <2>4
  <1>3. Closed(t)'
    <2> SUFFICES ASSUME NEW p \in Play, blind'[t][p] > 0
                 PROVE  blind'[t][p] <= 1 /\ (p \in said'[t] \/ Settled(t, p)')
      BY DEF Closed
    <2>1. /\ p \in DOMAIN plays /\ blind[t][p] <= 1
          /\ p \in said[t] \/ Settled(t, p)
      BY DEF Careful, Shown, Closed
    <2>2. CASE p \in said[t]
      BY <2>1, <2>2
    <2>3. CASE Settled(t, p)
      <3>1. \A i \in DOMAIN posts' : posts'[i].tab = t /\ posts'[i].waits = "screen" =>
               posts'[i].play # p
        BY <2>3 DEF Settled
      <3>2. page'[t].at = "history" /\ page'[t].play = p => plays'[p].reported
        BY <2>1, <2>3 DEF Settled
      <3>3. page'[t].recorded /\ page'[t].play = p => page'[t].bgg = "sent"
        BY <2>3 DEF Settled
      <3> QED BY <2>1, <3>1, <3>2, <3>3 DEF Settled, Screened
    <2> QED BY <2>1, <2>2, <2>3
  <1> QED BY <1>1, <1>2, <1>3 DEF Careful

(* The posts are the same. *)
LEMMA CarefulPage ==
    ASSUME TInv, NEW t \in Tab, Careful(t),
           DOMAIN posts' = DOMAIN posts,
           \A i \in DOMAIN posts : /\ posts'[i].tab = posts[i].tab
                                   /\ posts'[i].play = posts[i].play
                                   /\ posts'[i].tab = t => posts'[i].waits = posts[i].waits,
           blind'[t] = blind[t], said'[t] = said[t],
           DOMAIN plays \subseteq DOMAIN plays',
           \A p \in DOMAIN plays : plays[p].reported => plays'[p].reported,
           \/ page'[t].op.kind = page[t].op.kind
           \/ page'[t].op.kind # "record"
           \/ \A i \in DOMAIN posts : ~Screened(t, i),
           \/ /\ page'[t].at = page[t].at /\ (page'[t].recorded <=> page[t].recorded)
              /\ page'[t].bgg = page[t].bgg /\ page'[t].play = page[t].play
           \/ page'[t].at = "play" /\ ~page'[t].recorded
    PROVE  Careful(t)'
  <1>1. PICK m : m = [i \in DOMAIN posts |-> i]
    OBVIOUS
  <1>2. \A i \in DOMAIN posts : m[i] = i
    BY <1>1
  <1>3. \A i \in DOMAIN posts' : posts'[i].tab = t /\ posts'[i].waits = "screen" =>
            /\ m[i] \in DOMAIN posts /\ Screened(t, m[i])
            /\ posts'[i].play = posts[m[i]].play
            /\ \A j \in DOMAIN posts' : m[i] = m[j] => i = j
    BY <1>2 DEF Screened
  <1> QED BY <1>3, CarefulStill

(* A post is added, of another tab. *)
LEMMA CarefulAside ==
    ASSUME TInv, NEW t \in Tab, NEW u \in Tab, u # t, Careful(u), NEW p \in Play, Post(t, p),
           page'[u] = page[u], blind'[u] = blind[u], said'[u] = said[u],
           DOMAIN plays \subseteq DOMAIN plays',
           \A r \in DOMAIN plays : plays[r].reported => plays'[r].reported
    PROVE  Careful(u)'
  <1>1. PICK m : m = [i \in DOMAIN posts' |-> i]
    OBVIOUS
  <1>2. \A i \in DOMAIN posts' : m[i] = i
    BY <1>1
  <1>3. /\ DOMAIN posts' = DOMAIN posts \cup {Len(posts')}
        /\ \A i \in DOMAIN posts : posts'[i] = posts[i]
        /\ posts'[Len(posts')].tab = t
    BY PostDoes
  <1>4. \A i \in DOMAIN posts' : posts'[i].tab = u /\ posts'[i].waits = "screen" =>
            /\ m[i] \in DOMAIN posts /\ Screened(u, m[i])
            /\ posts'[i].play = posts[m[i]].play
            /\ \A j \in DOMAIN posts' : m[i] = m[j] => i = j
    <2> SUFFICES ASSUME NEW i \in DOMAIN posts', posts'[i].tab = u,
                        posts'[i].waits = "screen"
                 PROVE  /\ m[i] \in DOMAIN posts /\ Screened(u, m[i])
                        /\ posts'[i].play = posts[m[i]].play
                        /\ \A j \in DOMAIN posts' : m[i] = m[j] => i = j
      OBVIOUS
    <2>1. m[i] = i
      BY <1>2
    <2>2. i \in DOMAIN posts /\ posts'[i] = posts[i]
      BY <1>3
    <2>3. Screened(u, i)
      BY <2>2 DEF Screened
    <2>4. \A j \in DOMAIN posts' : m[j] = j
      BY <1>2
    <2> QED BY <2>1, <2>2, <2>3, <2>4
  <1> QED BY <1>4, CarefulStill

(* The posts are the same, and one tab's page changes. *)
LEMMA CarefulOthers ==
    ASSUME TInv, \A u \in Tab : Careful(u), NEW t \in Tab, Turned(t),
           DOMAIN posts' = DOMAIN posts,
           \A i \in DOMAIN posts :
               /\ posts'[i].tab = posts[i].tab /\ posts'[i].play = posts[i].play
               /\ posts'[i].tab # t => posts'[i].waits = posts[i].waits,
           \A u \in Tab \ {t} : blind'[u] = blind[u] /\ said'[u] = said[u],
           DOMAIN plays \subseteq DOMAIN plays',
           \A p \in DOMAIN plays : plays[p].reported => plays'[p].reported
    PROVE  \A u \in Tab \ {t} : Careful(u)'
  <1> SUFFICES ASSUME NEW u \in Tab \ {t} PROVE Careful(u)'
    OBVIOUS
  <1>1. page'[u] = page[u] /\ blind'[u] = blind[u] /\ said'[u] = said[u] /\ Careful(u)
    BY DEF Turned
  <1>2. \A i \in DOMAIN posts : posts'[i].tab = u => posts'[i].waits = posts[i].waits
    OBVIOUS
  <1> QED BY <1>1, <1>2, CarefulPage

LEMMA CarefulLeave ==
    ASSUME TInv, \A u \in Tab : Careful(u), NEW t \in Tab, Leave(t) \/ Close(t)
    PROVE  \A u \in Tab : Careful(u)'
  <1>1. PICK who \in {"tab", "nobody"} : Waits(t, who)
    BY LeaveDoes, CloseDoes
  <1>2. /\ Turned(t) /\ page'[t].at = "elsewhere" /\ ~page'[t].recorded
        /\ UNCHANGED <<sends, copies, byHand>>
        /\ said' = [said EXCEPT ![t] = {}] /\ blind' = [blind EXCEPT ![t] = NoCount]
    BY LeaveDoes, CloseDoes
  <1>3. /\ DOMAIN plays \subseteq DOMAIN plays'
        /\ \A p \in DOMAIN plays : plays[p].reported => plays'[p].reported
    <2>1. CASE Leave(t)
      BY <2>1, LeaveDoes DEF SameGames
    <2>2. CASE Close(t)
      <3>1. PICK op \in Operation : /\ op.kind # "none" => op.game # NoGame
                                    /\ Write(op, {table[t].game} \ {NoGame})
        BY <2>2, CloseDoes
      <3>2. PICK gone \in SUBSET Game : gone = {table[t].game} \ {NoGame}
        BY <2>2, CloseDoes
      <3>3. (op.kind = "record" => Added(op.game)) /\ (op.kind # "record" => plays' = plays)
        BY <3>1, <3>2, WriteDoes
      <3> QED BY <3>3 DEF Added
    <2> QED BY <2>1, <2>2
  <1>4. /\ blind'[t] = NoCount
        /\ \A u \in Tab \ {t} : said'[u] = said[u] /\ blind'[u] = blind[u]
    BY <1>1, <1>2, <1>3, Unheard
  <1>5. /\ DOMAIN posts' = DOMAIN posts
        /\ \A i \in DOMAIN posts :
              /\ posts'[i].tab = posts[i].tab /\ posts'[i].play = posts[i].play
              /\ posts'[i].waits = IF posts[i].tab = t /\ posts[i].waits # "nobody"
                                   THEN who ELSE posts[i].waits
    BY <1>1, WaitsDoes
  <1>6. \A u \in Tab \ {t} : Careful(u)'
    BY <1>2, <1>3, <1>4, <1>5, CarefulOthers
  <1>7. Careful(t)'
    <2>1. \A p \in Play : blind'[t][p] = 0
      BY <1>4, Pieces
    <2>2. \A i \in DOMAIN posts' : ~(posts'[i].tab = t /\ posts'[i].waits = "screen")
      BY <1>5
    <2> QED BY <1>2, <2>1, <2>2, CarefulAnew
  <1> QED BY <1>6, <1>7

(* The pages, as long as nothing is sent. *)
LEMMA CarefulPages ==
    ASSUME TInv, \A u \in Tab : Careful(u), NEW t \in Tab, Turned(t),
           UNCHANGED <<posts, blind, said>>, plays' = plays, Careful(t)'
    PROVE  \A u \in Tab : Careful(u)'
  <1>1. \A u \in Tab \ {t} : Careful(u)'
    BY CarefulOthers
  <1> QED BY <1>1

LEMMA CarefulOpen ==
    ASSUME TInv, \A u \in Tab : Careful(u), NEW t \in Tab,
           \/ Open(t) \/ Look(t)
           \/ GoToBriefing(t) \/ BackToSetup(t) \/ StartGame(t)
           \/ Finish(t) \/ BackToGame(t) \/ DiscardGame(t) \/ NewGame(t)
           \/ PutAway(t) \/ Record(t) \/ Resume(t) \/ ThrowAway(t)
    PROVE  \A u \in Tab : Careful(u)'
  <1>0. Careful(t)
    OBVIOUS
  <1>1. CASE Open(t) \/ Look(t)
    <2>1. /\ Turned(t) /\ plays' = plays /\ UNCHANGED <<posts, blind, said>>
          /\ page[t].at = "elsewhere" /\ ~page'[t].recorded
      BY <1>1, OpenDoes, LookDoes DEF SameGames, sending
    <2>2. /\ \A p \in Play : blind'[t][p] = 0
          /\ \A i \in DOMAIN posts' : ~(posts'[i].tab = t /\ posts'[i].waits = "screen")
      BY <1>0, <2>1 DEF Careful, Shown, OneAnswer, Screened
    <2>3. Careful(t)'
      BY <2>1, <2>2, CarefulAnew
    <2> QED BY <2>1, <2>3, CarefulPages
  <1>2. CASE StartGame(t)
    <2>1. page' = page /\ plays' = plays /\ UNCHANGED <<posts, blind, said>>
      BY <1>2, StartDoes DEF sending
    <2>2. Turned(t)
      BY <2>1, Standing DEF Turned
    <2>3. Careful(t)'
      BY <1>0, <2>1, CarefulPage
    <2> QED BY <2>1, <2>2, <2>3, CarefulPages
  <1>3. CASE \/ GoToBriefing(t) \/ BackToSetup(t) \/ Finish(t) \/ BackToGame(t)
             \/ DiscardGame(t) \/ NewGame(t) \/ PutAway(t) \/ Resume(t) \/ ThrowAway(t)
             \/ Record(t)
    <2>1. /\ Turned(t) /\ plays' = plays /\ UNCHANGED <<posts, blind, said>>
          /\ page'[t].at = "play" /\ ~page'[t].recorded
      <3>1. CASE GoToBriefing(t) \/ BackToSetup(t) \/ Finish(t) \/ BackToGame(t)
        BY <3>1, TouchDoes DEF sending
      <3>2. CASE DiscardGame(t) \/ NewGame(t)
        BY <3>2, ClearDoes DEF sending
      <3>3. CASE PutAway(t) \/ Record(t)
        BY <3>3, SaveDoes DEF sending, SameGames
      <3>4. CASE Resume(t)
        BY <3>4, ResumeDoes DEF sending
      <3>5. CASE ThrowAway(t)
        BY <3>5, ThrowDoes DEF sending
      <3> QED BY <1>3, <3>1, <3>2, <3>3, <3>4, <3>5
    <2>2. page'[t].op.kind = "record" => \A i \in DOMAIN posts : ~Screened(t, i)
      <3>1. CASE GoToBriefing(t) \/ BackToSetup(t) \/ Finish(t) \/ BackToGame(t)
        <4>1. page'[t].op.kind = "none"
          BY <3>1, TouchDoes, Pieces
        <4> QED BY <4>1
      <3>2. CASE DiscardGame(t) \/ NewGame(t)
        <4>1. page'[t].op.kind = "none"
          BY <3>2, ClearDoes, Pieces
        <4> QED BY <4>1
      <3>3. CASE PutAway(t) \/ Record(t)
        BY <3>3, SaveDoes DEF Screened
      <3>4. CASE Resume(t)
        <4>1. page'[t].op.kind = "discard"
          BY <3>4, ResumeDoes
        <4> QED BY <4>1
      <3>5. CASE ThrowAway(t)
        <4>1. page'[t].op.kind = "discard"
          BY <3>5, ThrowDoes
        <4> QED BY <4>1
      <3> QED BY <1>3, <3>1, <3>2, <3>3, <3>4, <3>5
    <2>3. Careful(t)'
      BY <1>0, <2>1, <2>2, CarefulPage
    <2> QED BY <2>1, <2>3, CarefulPages
  <1> QED BY <1>1, <1>2, <1>3

LEMMA CarefulWritten ==
    ASSUME TInv, \A u \in Tab : Careful(u), NEW t \in Tab, Written(t)
    PROVE  \A u \in Tab : Careful(u)'
  <1>0. Careful(t)
    OBVIOUS
  <1>1. PICK op \in Operation : op = page[t].op
    BY WrittenDoes
  <1>2. /\ Turned(t) /\ UNCHANGED <<blind, said>> /\ Write(op, {}) /\ op.game # NoGame
        /\ page[t].at = "play" /\ page'[t].at = "play" /\ page'[t].op = Idle
    BY <1>1, WrittenDoes, TableAssumption
  <1>3. PICK gone \in SUBSET Game : gone = {} /\ Write(op, gone)
    BY <1>2
  <1>4. (op.kind = "record" => Added(op.game)) /\ (op.kind # "record" => plays' = plays)
    BY <1>2, <1>3, WriteDoes
  <1>5. /\ DOMAIN plays \subseteq DOMAIN plays'
        /\ \A p \in DOMAIN plays : plays[p].reported => plays'[p].reported
    BY <1>4 DEF Added
  <1>6. CASE op.kind # "record"
    <2>1. /\ plays' = plays /\ posts' = posts
          /\ (page'[t].recorded <=> page[t].recorded)
          /\ page'[t].play = page[t].play /\ page'[t].bgg = page[t].bgg
      BY <1>1, <1>4, <1>6, WrittenDoes
    <2>2. page'[t].op.kind # "record"
      BY <1>2, Pieces
    <2>3. Careful(t)'
      BY <1>0, <1>2, <2>1, <2>2, CarefulPage
    <2> QED BY <1>2, <2>1, <2>3, CarefulPages
  <1>7. CASE op.kind = "record"
    <2>1. PICK n \in Play :
            /\ n = Len(plays') /\ page'[t].play = n
            /\ \/ page'[t].bgg = "sending" /\ Post(t, n)
               \/ page'[t].bgg = "idle" /\ UNCHANGED <<posts, sends>>
      BY <1>1, <1>7, WrittenDoes
    <2>2. n \notin DOMAIN plays
      BY <1>4, <1>7, <2>1 DEF Added
    <2>3. \A i \in DOMAIN posts : ~Screened(t, i)
      BY <1>0, <1>1, <1>7 DEF Careful, OneAnswer
    <2>4. \A p \in Play : blind[t][p] > 0 => p # n /\ p \in DOMAIN plays /\ blind[t][p] <= 1
      BY <1>0, <2>2 DEF Careful, Shown, Closed
    <2>5. CASE Post(t, n) /\ page'[t].bgg = "sending"
      <3>1. /\ DOMAIN posts' = DOMAIN posts \cup {Len(posts')} /\ Len(posts') \notin DOMAIN posts
            /\ \A i \in DOMAIN posts : posts'[i] = posts[i]
            /\ posts'[Len(posts')].play = n
        BY <2>5, PostDoes
      <3>2. \A i \in DOMAIN posts' : posts'[i].tab = t /\ posts'[i].waits = "screen" =>
               i = Len(posts') /\ posts'[i].play = n
        BY <2>3, <3>1 DEF Screened
      <3>3. Shown(t)'
        BY <1>2, <1>5, <2>4 DEF Shown
      <3>4. OneAnswer(t)'
        BY <1>2, <2>1, <2>5, <3>2, Pieces DEF OneAnswer, Screened
      <3>5. Closed(t)'
        BY <1>2, <2>1, <2>4, <3>2 DEF Closed, Settled, Screened
      <3>6. Careful(t)'
        BY <3>3, <3>4, <3>5 DEF Careful
      <3>7. ASSUME NEW u \in Tab \ {t} PROVE Careful(u)'
        <4>1. page'[u] = page[u] /\ blind'[u] = blind[u] /\ said'[u] = said[u] /\ Careful(u)
          BY <1>2 DEF Turned
        <4> QED BY <1>5, <2>5, <4>1, CarefulAside
      <3> QED BY <3>6, <3>7
    <2>6. CASE UNCHANGED <<posts, sends>> /\ page'[t].bgg = "idle"
      <3>2. \A i \in DOMAIN posts' : ~(posts'[i].tab = t /\ posts'[i].waits = "screen")
        BY <2>3, <2>6 DEF Screened
      <3>3. Shown(t)'
        BY <1>2, <1>5, <2>4 DEF Shown
      <3>4. OneAnswer(t)'
        BY <3>2 DEF OneAnswer, Screened
      <3>5. Closed(t)'
        BY <1>2, <2>1, <2>4, <3>2 DEF Closed, Settled, Screened
      <3>6. Careful(t)'
        BY <3>3, <3>4, <3>5 DEF Careful
      <3>7. \A u \in Tab \ {t} : Careful(u)'
        BY <1>2, <1>5, <2>6, CarefulOthers
      <3> QED BY <3>6, <3>7
    <2> QED BY <2>1, <2>5, <2>6
  <1> QED BY <1>6, <1>7

LEMMA CarefulSend ==
    ASSUME TInv, \A u \in Tab : Careful(u), NEW t \in Tab, Send(t)
    PROVE  \A u \in Tab : Careful(u)'
  <1>0. Careful(t)
    OBVIOUS
  <1>1. PICK q \in Play : q = page[t].play
    BY SendDoes
  <1>2. /\ Turned(t) /\ SamePlace(t) /\ UNCHANGED <<plays, blind, said>>
        /\ page[t].op = Idle /\ q \in DOMAIN plays
        /\ page[t].at = "history" \/ page[t].recorded
        /\ page[t].bgg # "sending"
        /\ page[t].recorded => page[t].bgg # "sent" \/ page[t].at = "history"
        /\ page[t].at = "history" => ~plays[q].reported
        /\ page'[t].bgg = "sending" /\ page'[t].play = q
        /\ Post(t, q)
    BY <1>1, SendDoes
  <1>3. \A i \in DOMAIN posts : ~Screened(t, i)
    BY <1>0, <1>2 DEF Careful, OneAnswer
  <1>4. page[t].at # "elsewhere" /\ (page[t].recorded => page[t].at = "play" /\ page[t].bgg # "sent")
    BY <1>0, <1>2 DEF Careful, Shown
  <1>5. /\ DOMAIN posts' = DOMAIN posts \cup {Len(posts')} /\ Len(posts') \notin DOMAIN posts
        /\ \A i \in DOMAIN posts : posts'[i] = posts[i]
        /\ posts'[Len(posts')].play = q
    BY <1>2, PostDoes
  <1>6. \A i \in DOMAIN posts' : posts'[i].tab = t /\ posts'[i].waits = "screen" =>
            i = Len(posts') /\ posts'[i].play = q
    BY <1>3, <1>5 DEF Screened
  <1>7. Shown(t)'
    BY <1>0, <1>2 DEF Careful, Shown, SamePlace
  <1>8. OneAnswer(t)'
    <2>1. page'[t].at # "elsewhere" /\ page'[t].op.kind # "record"
      BY <1>2, <1>4, Pieces DEF SamePlace
    <2>2. \A i, j \in DOMAIN posts' :
             (/\ posts'[i].tab = t /\ posts'[i].waits = "screen"
              /\ posts'[j].tab = t /\ posts'[j].waits = "screen") => i = j
      BY <1>6
    <2>3. page'[t].bgg = "sending" /\ page'[t].play = q
      BY <1>2
    <2> QED BY <1>6, <2>1, <2>2, <2>3 DEF OneAnswer, Screened
  <1>9. Closed(t)'
    <2> SUFFICES ASSUME NEW p \in Play, blind'[t][p] > 0
                 PROVE  blind'[t][p] <= 1 /\ (p \in said'[t] \/ Settled(t, p)')
      BY DEF Closed
    <2>1. blind[t][p] <= 1 /\ (p \in said[t] \/ Settled(t, p))
      BY <1>0, <1>2 DEF Careful, Closed
    <2>2. CASE p \in said[t]
      BY <1>2, <2>1, <2>2
    <2>3. CASE Settled(t, p)
      <3>1. p # q
        BY <1>1, <1>2, <1>4, <2>3 DEF Settled
      <3> QED BY <1>2, <1>6, <2>1, <3>1 DEF Settled, Screened
    <2> QED BY <2>1, <2>2, <2>3
  <1>10. ASSUME NEW u \in Tab \ {t} PROVE Careful(u)'
    <2>1. page'[u] = page[u] /\ blind'[u] = blind[u] /\ said'[u] = said[u] /\ Careful(u)
      BY <1>2 DEF Turned
    <2> QED BY <1>2, <2>1, CarefulAside
  <1> QED BY <1>7, <1>8, <1>9, <1>10 DEF Careful

LEMMA CarefulMark ==
    ASSUME TInv, \A u \in Tab : Careful(u), NEW t \in Tab, Mark(t)
    PROVE  \A u \in Tab : Careful(u)'
  <1>1. PICK q \in Play : q = page[t].play
    BY MarkDoes
  <1>2. /\ UNCHANGED <<page, posts, said>> /\ SameRows
        /\ \A r \in DOMAIN plays \ {q} : plays'[r] = plays[r]
        /\ \A s \in Tab, r \in Play : blind'[s][r] = IF r = q THEN 0 ELSE blind[s][r]
    BY <1>1, MarkDoes
  <1> SUFFICES ASSUME NEW u \in Tab PROVE Careful(u)'
    OBVIOUS
  <1>3. \A p \in Play : blind'[u][p] > 0 => p # q /\ blind'[u][p] = blind[u][p]
    <2> TAKE p \in Play
    <2>1. blind'[u][p] = IF p = q THEN 0 ELSE blind[u][p]
      BY <1>2
    <2> QED BY <2>1
  <1>4. \A p \in Play : blind[u][p] = 0 => blind'[u][p] = 0
    BY <1>2
  <1>5. Careful(u) /\ DOMAIN plays' = DOMAIN plays
    BY <1>2 DEF SameRows
  <1>6. Shown(u)'
    BY <1>2, <1>3, <1>4, <1>5 DEF Careful, Shown
  <1>7. OneAnswer(u)'
    BY <1>2, <1>5 DEF Careful, OneAnswer, Screened
  <1>8. Closed(u)'
    <2> SUFFICES ASSUME NEW p \in Play, blind'[u][p] > 0
                 PROVE  blind'[u][p] <= 1 /\ (p \in said'[u] \/ Settled(u, p)')
      BY DEF Closed
    <2>1. /\ p # q /\ blind'[u][p] = blind[u][p] /\ blind[u][p] > 0
      BY <1>3
    <2>2. /\ p \in DOMAIN plays /\ blind[u][p] <= 1 /\ (p \in said[u] \/ Settled(u, p))
      BY <1>5, <2>1 DEF Careful, Shown, Closed
    <2> QED BY <1>2, <2>1, <2>2 DEF Settled, Screened
  <1> QED BY <1>6, <1>7, <1>8 DEF Careful

LEMMA CarefulWire ==
    ASSUME TInv, \A u \in Tab : Careful(u), NEW i \in DOMAIN posts, Relay(i) \/ Lose(i)
    PROVE  \A u \in Tab : Careful(u)'
  <1>1. /\ UNCHANGED <<page, plays, said, blind>> /\ DOMAIN posts' = DOMAIN posts
        /\ \A j \in DOMAIN posts :
              /\ posts'[j].tab = posts[j].tab /\ posts'[j].waits = posts[j].waits
              /\ posts'[j].play = posts[j].play
    BY WireDoes
  <1> SUFFICES ASSUME NEW u \in Tab PROVE Careful(u)'
    OBVIOUS
  <1>2. Careful(u)
    OBVIOUS
  <1> QED BY <1>1, <1>2, CarefulPage

(* An answer is read. *)
LEMMA CarefulSettle ==
    ASSUME TInv, Logged, \A u \in Tab : Careful(u), NEW i \in DOMAIN posts, Settle(i)
    PROVE  \A u \in Tab : Careful(u)'
  <1>1. PICK t \in Tab : t = posts[i].tab
    BY Standing DEF Sent
  <1>2. PICK q \in Play : q = posts[i].play
    BY Standing DEF Sent
  <1>3. /\ \A j \in DOMAIN posts' :
              /\ Before(i, j) \in DOMAIN posts \ {i} /\ posts'[j] = posts[Before(i, j)]
              /\ \A k \in DOMAIN posts' : Before(i, j) = Before(i, k) => j = k
        /\ SameRows /\ Turned(t) /\ SamePlace(t)
        /\ \A p \in DOMAIN plays :
              plays'[p].reported <=> \/ plays[p].reported
                                     \/ /\ p = q /\ posts[i].code = "ok"
                                        /\ posts[i].waits # "nobody"
    BY <1>1, <1>2, SettleDoes
  <1>4. PICK m : m = [j \in DOMAIN posts' |-> Before(i, j)]
    OBVIOUS
  <1>5. \A j \in DOMAIN posts' :
            /\ m[j] \in DOMAIN posts \ {i} /\ posts'[j] = posts[m[j]]
            /\ \A k \in DOMAIN posts' : m[j] = m[k] => j = k
    BY <1>3, <1>4
  <1>6. /\ DOMAIN plays \subseteq DOMAIN plays' /\ DOMAIN plays' = DOMAIN plays
        /\ \A p \in DOMAIN plays : plays[p].reported => plays'[p].reported
    BY <1>3 DEF SameRows
  <1>7. ASSUME NEW u \in Tab, page'[u] = page[u], blind'[u] = blind[u], said'[u] = said[u]
        PROVE  Careful(u)'
    <2>1. \A j \in DOMAIN posts' : posts'[j].tab = u /\ posts'[j].waits = "screen" =>
             /\ m[j] \in DOMAIN posts /\ Screened(u, m[j])
             /\ posts'[j].play = posts[m[j]].play
             /\ \A k \in DOMAIN posts' : m[j] = m[k] => j = k
      BY <1>5 DEF Screened
    <2>2. Careful(u)
      OBVIOUS
    <2> QED BY <1>6, <1>7, <2>1, <2>2, CarefulStill
  <1>8. CASE ~Screened(t, i)
    <2>1. page' = page /\ blind' = blind /\ said' = said
      BY <1>1, <1>8, SettleDoes
    <2> QED BY <1>7, <2>1
  <1>9. CASE Screened(t, i)
    <2>1. Careful(t) /\ OneAnswer(t) /\ Shown(t) /\ Closed(t)
      BY DEF Careful
    <2>2. /\ \A j \in DOMAIN posts : Screened(t, j) => i = j
          /\ page[t].at # "elsewhere" /\ page[t].op.kind # "record"
          /\ page[t].at = "history" \/ page[t].recorded =>
                page[t].bgg = "sending" /\ page[t].play = q
      BY <1>2, <1>9, <2>1 DEF OneAnswer
    <2>3. \A j \in DOMAIN posts' : ~(posts'[j].tab = t /\ posts'[j].waits = "screen")
      BY <1>5, <2>2 DEF Screened
    <2>4. /\ page[t].at = "history" => page'[t].play = page[t].play
          /\ page[t].at # "history" /\ posts[i].code = "ok" =>
                page'[t].bgg = "sent" /\ page'[t].play = q
          /\ page[t].at # "history" /\ posts[i].code # "ok" => page'[t].play = page[t].play
      BY <1>1, <1>2, <1>9, SettleDoes
    <2>5. /\ said' = IF posts[i].code = "bgg_uncertain"
                     THEN [said EXCEPT ![t] = @ \cup {q}] ELSE said
          /\ posts[i].copy /\ posts[i].code \notin {"offline", "bgg_rejected"} /\ q \notin said[t] =>
                blind' = [blind EXCEPT ![t][q] = @ + 1]
          /\ ~posts[i].copy \/ posts[i].code \in {"offline", "bgg_rejected"} \/ q \in said[t] =>
                blind' = blind
      BY <1>1, <1>2, <1>9, SettleDoes
    <2>6. blind \in [Tab -> [Play -> Nat]] /\ said \in [Tab -> SUBSET Play]
      BY DEF TInv, TypeOK
    <2>7. /\ said[t] \subseteq said'[t] /\ \A u \in Tab \ {t} : said'[u] = said[u]
          /\ posts[i].code = "bgg_uncertain" => q \in said'[t]
      BY <2>5, <2>6
    <2>8. blind[t][q] > 0 => q \in said[t]
      <3> SUFFICES ASSUME blind[t][q] > 0, q \notin said[t] PROVE FALSE
        OBVIOUS
      <3>1. Settled(t, q)
        BY <2>1 DEF Closed
      <3> QED BY <1>2, <1>9, <3>1 DEF Settled
    <2>9. /\ \A u \in Tab \ {t} : blind'[u] = blind[u]
          /\ \A p \in Play \ {q} : blind'[t][p] = blind[t][p]
          /\ \/ blind'[t][q] = blind[t][q]
             \/ /\ blind[t][q] = 0 /\ blind'[t][q] = 1
                /\ posts[i].copy /\ posts[i].code \notin {"offline", "bgg_rejected"}
      <3>1. CASE posts[i].copy /\ posts[i].code \notin {"offline", "bgg_rejected"} /\ q \notin said[t]
        <4>1. blind' = [blind EXCEPT ![t][q] = @ + 1]
          BY <2>5, <3>1
        <4>2. blind[t][q] = 0
          <5>1. blind[t][q] \in Nat
            BY <2>6
          <5> QED BY <2>8, <3>1, <5>1
        <4>3. blind'[t][q] = 1
          BY <2>6, <4>1, <4>2
        <4> QED BY <2>6, <3>1, <4>1, <4>2, <4>3
      <3>2. CASE ~posts[i].copy \/ posts[i].code \in {"offline", "bgg_rejected"} \/ q \in said[t]
        BY <2>5, <3>2
      <3> QED BY <3>1, <3>2
    <2>10. posts[i].copy /\ posts[i].code \notin {"offline", "bgg_rejected"} =>
              posts[i].code \in {"ok", "bgg_uncertain"}
      BY DEF Logged, Honest
    <2>11. q \in DOMAIN plays
      BY <1>2 DEF TInv, Fits
    <2>12. Shown(t)'
      <3>1. page'[t].at = page[t].at /\ (page'[t].recorded <=> page[t].recorded)
        BY <1>3 DEF SamePlace
      <3>2. \A p \in Play : blind'[t][p] > 0 => p \in DOMAIN plays'
        BY <1>6, <2>1, <2>9, <2>11 DEF Shown
      <3> QED BY <2>1, <2>2, <3>1, <3>2 DEF Shown
    <2>13. OneAnswer(t)'
      BY <2>3 DEF OneAnswer, Screened
    <2>14. Closed(t)'
      <3> SUFFICES ASSUME NEW p \in Play, blind'[t][p] > 0
                   PROVE  blind'[t][p] <= 1 /\ (p \in said'[t] \/ Settled(t, p)')
        BY DEF Closed
      <3>1. page'[t].at = page[t].at /\ (page'[t].recorded <=> page[t].recorded)
        BY <1>3 DEF SamePlace
      <3>2. page[t].recorded => page[t].at # "history"
        BY <2>1 DEF Shown
      <3>3. CASE p # q
        <4>1. blind[t][p] > 0 /\ blind'[t][p] = blind[t][p]
          BY <2>9, <3>3
        <4>2. p \in DOMAIN plays /\ blind[t][p] <= 1 /\ (p \in said[t] \/ Settled(t, p))
          BY <2>1, <4>1 DEF Shown, Closed
        <4>3. CASE p \in said[t]
          BY <2>7, <4>1, <4>2, <4>3
        <4>4. CASE Settled(t, p)
          <5>1. page'[t].at = "history" => page'[t].play = q
            BY <2>2, <2>4, <3>1
          <5>2. page'[t].recorded => page'[t].play = q
            BY <2>2, <2>4, <3>1, <3>2
          <5>3. Settled(t, p)'
            BY <2>3, <3>3, <5>1, <5>2 DEF Settled, Screened
          <5> QED BY <4>1, <4>2, <5>3
        <4> QED BY <4>2, <4>3, <4>4
      <3>4. CASE p = q /\ blind'[t][q] = blind[t][q]
        <4>1. blind[t][q] > 0 /\ blind[t][q] <= 1 /\ q \in said[t]
          BY <2>1, <2>8, <3>4 DEF Closed
        <4> QED BY <2>7, <3>4, <4>1
      <3>5. CASE /\ p = q /\ blind'[t][q] = 1
                 /\ posts[i].copy /\ posts[i].code \notin {"offline", "bgg_rejected"}
        <4>1. CASE posts[i].code = "bgg_uncertain"
          BY <2>7, <3>5, <4>1
        <4>2. CASE posts[i].code = "ok"
          <5>1. plays'[q].reported
            BY <1>3, <1>9, <2>11, <4>2 DEF Screened
          <5>2. page'[t].recorded => page'[t].bgg = "sent"
            BY <2>4, <3>1, <3>2, <4>2
          <5>3. Settled(t, q)'
            BY <2>3, <5>1, <5>2 DEF Settled, Screened
          <5> QED BY <3>5, <5>3
        <4> QED BY <2>10, <3>5, <4>1, <4>2
      <3> QED BY <2>9, <3>3, <3>4, <3>5
    <2>15. ASSUME NEW u \in Tab \ {t} PROVE Careful(u)'
      <3>1. page'[u] = page[u] /\ blind'[u] = blind[u] /\ said'[u] = said[u]
        BY <1>3, <2>7, <2>9 DEF Turned
      <3> QED BY <1>7, <3>1
    <2> QED BY <2>12, <2>13, <2>14, <2>15 DEF Careful
  <1> QED BY <1>8, <1>9

LEMMA CarefulStep ==
    TInv /\ Logged /\ (\A u \in Tab : Careful(u)) /\ [Next]_vars => \A u \in Tab : Careful(u)'
  <1> SUFFICES ASSUME TInv, Logged, \A u \in Tab : Careful(u), [Next]_vars
               PROVE  \A u \in Tab : Careful(u)'
    OBVIOUS
  <1>1. CASE UNCHANGED vars
    BY <1>1 DEF vars, Careful, Shown, OneAnswer, Closed, Settled, Screened
  <1>2. CASE Next
    BY <1>2, CarefulOpen, CarefulLeave, CarefulWritten, CarefulSend, CarefulMark, CarefulWire,
       CarefulSettle DEF Next
  <1> QED BY <1>1, <1>2

(* One screen makes no second copy of a play without having said once that   *)
(* the first may be there: NoBlindCopy of PlayTable, for any tabs, plays and *)
(* number of posts (PlayPage.svelte and PlayDetail.svelte over               *)
(* bgg.svelte.ts and server/bgg.go).                                         *)
THEOREM PlayNoBlindCopy == Spec => []NoBlindCopy
  <1> DEFINE AllCareful == \A u \in Tab : Careful(u)
  <1>1. Init => TInv /\ Logged
    BY TInvInit, LoggedInit
  <1>2. Init => AllCareful
    <2> SUFFICES ASSUME Init, NEW t \in Tab PROVE Careful(t)
      OBVIOUS
    <2>1. PICK x \in PageState : x = Elsewhere /\ ~x.recorded
      BY Opening DEF Elsewhere
    <2>2. page[t] = x /\ posts = <<>> /\ \A p \in Play : blind[t][p] = 0
      BY <2>1, Pieces DEF Init
    <2>3. DOMAIN posts = {} /\ \A p \in Play : ~(blind[t][p] > 0)
      BY <2>2
    <2> QED BY <2>1, <2>2, <2>3 DEF Careful, Shown, OneAnswer, Closed
  <1>3. TInv /\ Logged /\ [Next]_vars => (TInv /\ Logged)'
    BY TInvStep, LoggedStep
  <1>4. TInv /\ Logged /\ AllCareful /\ [Next]_vars => AllCareful'
    BY CarefulStep
  <1>5. TInv /\ AllCareful => NoBlindCopy
    <2> SUFFICES ASSUME TInv, AllCareful, NEW t \in Tab, NEW p \in Play
                 PROVE  blind[t][p] <= 1
      BY DEF NoBlindCopy
    <2>1. blind[t][p] \in Nat
      <3>1. blind \in [Tab -> [Play -> Nat]]
        BY DEF TInv, TypeOK
      <3> QED BY <3>1
    <2>2. Careful(t)
      OBVIOUS
    <2>3. CASE blind[t][p] > 0
      BY <2>2, <2>3 DEF Careful, Closed
    <2>4. CASE ~(blind[t][p] > 0)
      BY <2>1, <2>4
    <2> QED BY <2>3, <2>4
  <1> HIDE DEF AllCareful
  <1> QED BY <1>1, <1>2, <1>3, <1>4, <1>5, PTL DEF Spec
=============================================================================

------------------------------ MODULE SyncFeed ------------------------------
(***************************************************************************)
(* Reading the account: the pull loop of web/src/lib/sync/engine.ts, its   *)
(* storage in ports.ts, and handlePull in server/sync.go, over the store   *)
(* of module SyncStore with its pushes and its sweep running all the time. *)
(*                                                                         *)
(* A reader is a browser that edits nothing (editing is module             *)
(* SyncDevices).  A pull is a request whose handler reads the database     *)
(* twice, the horizon and then the page; every database transaction of the *)
(* browser is one step, and the browser may be closed between any two.     *)
(***************************************************************************)
EXTENDS SyncStore

CONSTANTS Reader,       \* signed-in browsers
          Builds,       \* the key sets a build of the app may declare
          PageSize,     \* records per page
          ReadsTogether,\* TRUE: no horizon is raised between the two reads
          FirstPageKept,\* TRUE: a browser that never kept a cursor is not
                        \* closed between its first page and the cursor
          MaxFaults     \* bound on crashes and lost requests, for TLC

ASSUME FeedAssumption == /\ Builds \subseteq SUBSET Key
                         /\ Builds # {}
                         /\ PageSize \in Nat \ {0}
                         /\ ReadsTogether \in BOOLEAN
                         /\ FirstPageKept \in BOOLEAN
                         /\ MaxFaults \in Nat

VARIABLES declared,     \* the collections the running build asks for
          cursor,       \* syncState.cursor
          cursorFor,    \* syncState.collections, those the cursor is for
          known,        \* a row with its sync state; Absent = neither
          run,          \* the synchronisation in progress
          faults        \* crashes and losses so far

readerVars == <<declared, cursor, cursorFor, known, run, faults>>
vars == <<revision, minCursor, record, tx, sweep,
          declared, cursor, cursorFor, known, run, faults>>

(* Where syncOnce stands.  `at' is its local `cursor', `seen' the set it    *)
(* collects once it is `recovering' from cursor_too_old; `got', `next' and  *)
(* `more' are the page's changes, cursor and hasMore, and `horizon' the     *)
(* minCursor read for it.  `began' is the counter when the run started.     *)
Phase == {"idle", "ask", "checked", "paged", "applied", "drop", "dropped"}

(* A row the browser holds is live: a tombstone takes the state with it.    *)
Copy == {r \in Row : ~r.deleted}

Run == [phase : Phase, at : Nat, resync : BOOLEAN, recovering : BOOLEAN,
        seen : SUBSET Key, got : [Key -> Row], next : Nat, more : BOOLEAN,
        horizon : Nat, began : Nat]

NoRun == [phase |-> "idle", at |-> 0, resync |-> FALSE, recovering |-> FALSE,
          seen |-> {}, got |-> NoRows, next |-> 0, more |-> FALSE,
          horizon |-> 0, began |-> 0]

-----------------------------------------------------------------------------
Init ==
    /\ InitStore
    /\ declared \in [Reader -> Builds]
    /\ cursor = [f \in Reader |-> 0]
    /\ cursorFor = declared
    /\ known = [f \in Reader |-> NoRows]
    /\ run = [f \in Reader |-> NoRun]
    /\ faults = 0

(* Mutant: the cursor is used whatever collections it was written for. *)
ReadCursorAnyway(f) == cursor[f]

(* readCursor: a cursor kept for other collections is no cursor. *)
ReadCursor(f) == IF cursorFor[f] = declared[f] THEN cursor[f] ELSE 0

Start(f) ==
    /\ run[f].phase = "idle"
    /\ run' = [run EXCEPT ![f] = [NoRun EXCEPT !.phase = "ask",
                                               !.at = ReadCursor(f),
                                               !.resync = ReadCursor(f) = 0,
                                               !.began = revision]]
    /\ UNCHANGED <<storeVars, declared, cursor, cursorFor, known, faults>>

(* handlePull, first read: refuse a cursor below the horizon. *)
TooOld(f) == run[f].at > 0 /\ ~run[f].resync /\ run[f].at < minCursor

CheckHorizon(f) ==
    /\ run[f].phase = "ask"
    /\ Quiet
    /\ ~TooOld(f)
    /\ run' = [run EXCEPT ![f].phase = "checked", ![f].horizon = minCursor]
    /\ UNCHANGED <<storeVars, declared, cursor, cursorFor, known, faults>>

(* Mutant: the recovery resumes where it was refused. *)
RestartFrom(f) == run[f].at

(* The catch in syncOnce: start over from zero, noting what comes back. *)
RecoverFrom(f) == 0

Refused(f) ==
    /\ run[f].phase = "ask"
    /\ Quiet
    /\ TooOld(f)
    /\ ~run[f].recovering
    /\ run' = [run EXCEPT ![f].recovering = TRUE, ![f].seen = {},
                          ![f].at = RecoverFrom(f), ![f].resync = TRUE]
    /\ UNCHANGED <<storeVars, declared, cursor, cursorFor, known, faults>>

(* handlePull, second read: Changes, oldest first, only what was asked for. *)
Above(f) == {k \in declared[f] : record[k].revision > run[f].at}

FirstOf(P, above) ==
    /\ P \subseteq above
    /\ \A j \in P, k \in above \ P : record[j].revision < record[k].revision
    /\ \/ Cardinality(P) = PageSize
       \/ Cardinality(P) < PageSize /\ P = above

Revisions(P, since) == {since} \cup {record[k].revision : k \in P}

(* The page's cursor: its last revision, or `since' when it is empty. *)
LastOf(P, since, n) == \A r \in Revisions(P, since) : r <= n

ReadPage(f) ==
    /\ run[f].phase = "checked"
    /\ Quiet
    /\ \E P \in SUBSET Key : \E n \in Revisions(P, run[f].at) :
          /\ FirstOf(P, Above(f))
          /\ LastOf(P, run[f].at, n)
          /\ run' = [run EXCEPT ![f].phase = "paged",
                                ![f].got = [k \in Key |->
                                    IF k \in P THEN record[k] ELSE Absent],
                                ![f].next = n,
                                ![f].more = (Cardinality(P) = PageSize)]
    /\ UNCHANGED <<storeVars, declared, cursor, cursorFor, known, faults>>

(* Mutant: a tombstone leaves its state behind. *)
AppliedKeepingState(old, new) ==
    IF new.revision = 0 \/ old.revision >= new.revision THEN old ELSE new

(* applyPulled, one record: skip what is already applied, delete on a       *)
(* tombstone together with the state, take anything else.                   *)
Applied(old, new) ==
    IF new.revision = 0 \/ old.revision >= new.revision THEN old
    ELSE IF new.deleted THEN Absent ELSE new

ApplyPulled(f) ==
    /\ run[f].phase = "paged"
    /\ known' = [known EXCEPT ![f] =
                    [k \in Key |-> Applied(known[f][k], run[f].got[k])]]
    /\ run' = [run EXCEPT ![f].phase = "applied",
                          ![f].at = run[f].next,
                          ![f].seen = IF run[f].recovering
                                      THEN @ \cup {k \in Key : run[f].got[k].revision > 0}
                                      ELSE @]
    /\ UNCHANGED <<storeVars, declared, cursor, cursorFor, faults>>

After(f) == IF run[f].more THEN "ask"
            ELSE IF run[f].recovering THEN "drop" ELSE "idle"

(* writeCursor after each page; not while recovering, so that an            *)
(* interrupted recovery meets the same refusal again.                       *)
KeepCursor(f) ==
    IF run[f].recovering
    THEN UNCHANGED <<cursor, cursorFor>>
    ELSE /\ cursor' = [cursor EXCEPT ![f] = run[f].at]
         /\ cursorFor' = [cursorFor EXCEPT ![f] = declared[f]]

PageDone(f) ==
    /\ run[f].phase = "applied"
    /\ KeepCursor(f)
    /\ run' = [run EXCEPT ![f] = IF After(f) = "idle" THEN NoRun
                                 ELSE [@ EXCEPT !.phase = After(f), !.got = NoRows,
                                                !.next = 0, !.more = FALSE]]
    /\ UNCHANGED <<storeVars, declared, known, faults>>

(* Mutant: nothing is dropped. *)
KeepUnseen(f) == Key

(* The confirmed rows that came back. *)
Kept(f) == run[f].seen

DropUnseen(f) ==
    /\ run[f].phase = "drop"
    /\ known' = [known EXCEPT ![f] =
                    [k \in Key |-> IF k \in Kept(f) THEN known[f][k] ELSE Absent]]
    /\ run' = [run EXCEPT ![f].phase = "dropped"]
    /\ UNCHANGED <<storeVars, declared, cursor, cursorFor, faults>>

Recovered(f) ==
    /\ run[f].phase = "dropped"
    /\ cursor' = [cursor EXCEPT ![f] = run[f].at]
    /\ cursorFor' = [cursorFor EXCEPT ![f] = declared[f]]
    /\ run' = [run EXCEPT ![f] = NoRun]
    /\ UNCHANGED <<storeVars, declared, known, faults>>

(* The request or its answer is lost, or the browser is closed: whatever    *)
(* was not written is gone.                                                 *)
Fail(f) ==
    /\ run[f].phase # "idle"
    /\ faults < MaxFaults
    /\ FirstPageKept => cursor[f] > 0 \/ run[f].phase # "applied"
    /\ faults' = faults + 1
    /\ run' = [run EXCEPT ![f] = NoRun]
    /\ UNCHANGED <<storeVars, declared, cursor, cursorFor, known>>

(* Another build of the app, which reads more collections than the one      *)
(* before it, or fewer (a rollback of the deployment), or others.           *)
Upgrade(f) ==
    /\ run[f].phase = "idle"
    /\ \E b \in Builds \ {declared[f]} : declared' = [declared EXCEPT ![f] = b]
    /\ UNCHANGED <<storeVars, cursor, cursorFor, known, run, faults>>

(* The retention, 180 days, outlasts any run: what expires was already a    *)
(* tombstone when the runs now in progress began.                           *)
SweepOld(S) ==
    /\ SweepFind(S)
    /\ \A f \in Reader, k \in S :
          run[f].phase # "idle" => record[k].revision <= run[f].began

RaiseHorizon ==
    /\ SweepRaise
    /\ ReadsTogether => \A f \in Reader : run[f].phase # "checked"

Sweeping == \/ \E S \in SUBSET Key : SweepOld(S)
            \/ RaiseHorizon
            \/ SweepDelete
            \/ SweepAbandon

Serve(f) == CheckHorizon(f) \/ Refused(f) \/ ReadPage(f)

Read(f) == \/ Start(f)
           \/ Serve(f)
           \/ ApplyPulled(f)
           \/ PageDone(f)
           \/ DropUnseen(f)
           \/ Recovered(f)

Next == \/ (\E w \in Writer : Write(w)) /\ UNCHANGED readerVars
        \/ Sweeping /\ UNCHANGED readerVars
        \/ \E f \in Reader : Read(f) \/ Fail(f) \/ Upgrade(f)

Spec == Init /\ [][Next]_vars

(* The browser's own steps are awaited promises: nothing stands in their    *)
(* way.  A statement waits for the one connection, which database/sql hands *)
(* out in the order it was asked for.  A run starts again and again: on     *)
(* focus, on a timer, after an edit.                                        *)
Fairness == \A f \in Reader :
    /\ WF_vars(Start(f) \/ ApplyPulled(f) \/ PageDone(f) \/ DropUnseen(f) \/ Recovered(f))
    /\ SF_vars(Serve(f))

(* A transaction is a few local statements: it ends one way or the other.   *)
TxEnds == \A w \in Writer :
    WF_vars((Commit(w) \/ Rollback(w)) /\ UNCHANGED readerVars)

LiveSpec == Spec /\ Fairness /\ TxEnds

-----------------------------------------------------------------------------
(* Type invariant of the readers' variables. *)
FeedTypeOK ==
    /\ TypeOK
    /\ declared \in [Reader -> Builds]
    /\ cursor \in [Reader -> Nat]
    /\ cursorFor \in [Reader -> Builds]
    /\ known \in [Reader -> [Key -> Copy]]
    /\ run \in [Reader -> Run]
    /\ faults \in 0..MaxFaults

Mirrors(f, k) == known[f][k] = IF record[k].deleted THEN Absent ELSE record[k]

(* What the cursor is for (doc 02 section 3): a record the account holds at *)
(* or below the stored cursor, in a collection that cursor was kept for, is *)
(* in the browser exactly as the account has it, and a tombstone there has  *)
(* been applied.  Whatever pushes, sweeps, refusals, closed tabs and new    *)
(* builds came in between, no record is ever stepped over.                  *)
CursorCovers ==
    \A f \in Reader : \A k \in cursorFor[f] :
        Present(k) /\ record[k].revision <= cursor[f] => Mirrors(f, k)

(* A browser at rest holds a row the account no longer has any trace of     *)
(* only if its next pull will be refused, and so end in dropUnseen: no      *)
(* deletion is missed for good (sync.go, "come back from the dead").        *)
DeletionsReach ==
    \A f \in Reader, k \in Key :
        /\ run[f].phase = "idle"
        /\ known[f][k].revision > 0
        /\ ~Present(k)
        => 0 < ReadCursor(f) /\ ReadCursor(f) < minCursor

(* Once writing stops, every browser ends up showing the account, and stays *)
(* there: recoveries, refusals and interruptions never leave it short.      *)
Converges ==
    <>[](\A f \in Reader : \A k \in declared[f] : Mirrors(f, k))
=============================================================================

----------------------------- MODULE SyncStore -----------------------------
(***************************************************************************)
(* The record store of one account (server/sync_store.go): batches applied *)
(* record by record inside a transaction, and the housekeeping sweep,      *)
(* which is three statements with no transaction around them.              *)
(*                                                                         *)
(* A transaction owns the only database connection and the account's write *)
(* lock, so while one is open no other statement runs.  What it has done   *)
(* is invisible until it commits and gone if it rolls back.                *)
(***************************************************************************)
EXTENDS Integers, FiniteSets

CONSTANTS Key,          \* (collection, id) pairs of the account
          AppendOnly,   \* those of campaign_events, the immutable collection
          Body,         \* bodies the server stores and never reads
          NoBody,       \* the body of a tombstone
          Writer,       \* goroutines handling a push
          MaxRevision   \* bound on the counter, for TLC

ASSUME StoreAssumption == /\ AppendOnly \subseteq Key
                          /\ NoBody \notin Body
                          /\ MaxRevision \in Nat

VARIABLES revision,     \* account.revision as committed
          minCursor,    \* account.min_cursor
          record,       \* the record table as committed; Absent = no row
          tx,           \* per writer, its transaction
          sweep         \* the sweep in progress

storeVars == <<revision, minCursor, record, tx, sweep>>

(* A row without a body is a tombstone, or no row at all. *)
Row == {r \in [revision : Nat, deleted : BOOLEAN, body : Body \cup {NoBody}] :
           r.body = NoBody <=> r.deleted \/ r.revision = 0}

Absent == [revision |-> 0, deleted |-> FALSE, body |-> NoBody]

Present(k) == record[k].revision > 0

(* What validateRecords lets through: a live record has a body, a tombstone *)
(* may carry one, and campaign events cannot be deleted.                    *)
Incoming == {in \in [key : Key, deleted : BOOLEAN, body : Body \cup {NoBody}] :
                /\ in.deleted \/ in.body # NoBody
                /\ in.key \in AppendOnly => ~in.deleted}

(* A transaction sees the counter it has moved and the rows it has written; *)
(* `rows' holds only those, every other key is Absent there.                *)
NoRows == [k \in Key |-> Absent]

Closed == [open |-> FALSE, revision |-> 0, rows |-> NoRows]

(* phase "idle" -> "found" (expired tombstones counted) -> "raised".        *)
(* `expired' is the set of <<key, revision>> below the cutoff.              *)
NoSweep == [phase |-> "idle", expired |-> {}, horizon |-> 0]

-----------------------------------------------------------------------------
InitStore ==
    /\ revision = 0
    /\ minCursor = 0
    /\ record = [k \in Key |-> Absent]
    /\ tx = [w \in Writer |-> Closed]
    /\ sweep = NoSweep

(* The one connection is free, hence a statement outside any transaction    *)
(* may run.                                                                 *)
Quiet == \A w \in Writer : ~tx[w].open

(* Mutant: no write lock and no single connection. *)
BeginUnlocked(w) ==
    /\ ~tx[w].open
    /\ tx' = [tx EXCEPT ![w] = [open |-> TRUE, revision |-> revision, rows |-> NoRows]]
    /\ UNCHANGED <<revision, minCursor, record, sweep>>

(* ApplyBatch: the write lock, then the transaction. *)
Begin(w) ==
    /\ Quiet
    /\ tx' = [tx EXCEPT ![w] = [open |-> TRUE, revision |-> revision, rows |-> NoRows]]
    /\ UNCHANGED <<revision, minCursor, record, sweep>>

(* The row as the transaction of w reads it. *)
Seen(w, k) == IF tx[w].rows[k].revision > 0 THEN tx[w].rows[k] ELSE record[k]

(* Mutant: an event that exists is rewritten. *)
NeverAlready(w, in) == FALSE

(* applyOne's `immutable && exists': the event is already here. *)
AlreadyPresent(w, in) == in.key \in AppendOnly /\ Seen(w, in.key).revision > 0

(* Mutant: the body is stored as it was sent. *)
RowKeepingBody(in, rev) ==
    [revision |-> rev, deleted |-> in.deleted, body |-> in.body]

(* The row an incoming record becomes: a tombstone loses its body. *)
RowOf(in, rev) ==
    [revision |-> rev,
     deleted  |-> in.deleted,
     body     |-> IF in.deleted THEN NoBody ELSE in.body]

(* One record: an existing event costs nothing; anything else takes the     *)
(* next revision and overwrites the row, whatever revision it was based on. *)
ApplyOne(w, in) ==
    /\ tx[w].open
    /\ \/ /\ AlreadyPresent(w, in)
          /\ UNCHANGED tx
       \/ /\ ~AlreadyPresent(w, in)
          /\ tx[w].revision < MaxRevision
          /\ tx' = [tx EXCEPT ![w].revision = @ + 1,
                              ![w].rows[in.key] = RowOf(in, tx[w].revision + 1)]
    /\ UNCHANGED <<revision, minCursor, record, sweep>>

(* Everything the transaction did becomes visible at once. *)
Commit(w) ==
    /\ tx[w].open
    /\ revision' = tx[w].revision
    /\ record' = [k \in Key |-> Seen(w, k)]
    /\ tx' = [tx EXCEPT ![w] = Closed]
    /\ UNCHANGED <<minCursor, sweep>>

(* An error in any statement, a cancelled request, or a server killed       *)
(* half-way through the batch: the deferred Rollback, or SQLite's own.      *)
Rollback(w) ==
    /\ tx[w].open
    /\ tx' = [tx EXCEPT ![w] = Closed]
    /\ UNCHANGED <<revision, minCursor, record, sweep>>

-----------------------------------------------------------------------------
Tombstone(k) == Present(k) /\ record[k].deleted

(* Sweep, first statement: the highest expired tombstone of the account.    *)
(* Which tombstones are past the cutoff is a matter of time, so any set.    *)
SweepFind(S) ==
    /\ Quiet
    /\ sweep.phase = "idle"
    /\ S # {}
    /\ \A k \in S : Tombstone(k)
    /\ \E h \in {record[k].revision : k \in S} :
          /\ \A k \in S : record[k].revision <= h
          /\ sweep' = [phase |-> "found",
                       expired |-> {<<k, record[k].revision>> : k \in S},
                       horizon |-> h]
    /\ UNCHANGED <<revision, minCursor, record, tx>>

(* Second statement: UPDATE account SET min_cursor ... AND min_cursor < ?   *)
SweepRaise ==
    /\ Quiet
    /\ sweep.phase = "found"
    /\ minCursor' = IF minCursor < sweep.horizon THEN sweep.horizon ELSE minCursor
    /\ sweep' = [sweep EXCEPT !.phase = "raised"]
    /\ UNCHANGED <<revision, record, tx>>

(* A row still as the first statement saw it; one written since then has a  *)
(* new revision, and as a tombstone a new deleted_at above the cutoff.      *)
StillExpired(k) == <<k, record[k].revision>> \in sweep.expired

(* Third statement: DELETE FROM record WHERE deleted = 1 AND ... < cutoff   *)
SweepDelete ==
    /\ Quiet
    /\ sweep.phase = "raised"
    /\ record' = [k \in Key |-> IF StillExpired(k) THEN Absent ELSE record[k]]
    /\ sweep' = NoSweep
    /\ UNCHANGED <<revision, minCursor, tx>>

(* A statement of the sweep fails, or the server stops between two of them. *)
SweepAbandon ==
    /\ sweep.phase # "idle"
    /\ sweep' = NoSweep
    /\ UNCHANGED <<revision, minCursor, record, tx>>

-----------------------------------------------------------------------------
Write(w) == \/ Begin(w)
            \/ \E in \in Incoming : ApplyOne(w, in)
            \/ Commit(w)
            \/ Rollback(w)

Housekeep == \/ \E S \in SUBSET Key : SweepFind(S)
             \/ SweepRaise
             \/ SweepDelete
             \/ SweepAbandon

NextStore == \/ \E w \in Writer : Write(w)
             \/ Housekeep

SpecStore == InitStore /\ [][NextStore]_storeVars

-----------------------------------------------------------------------------
(* Type invariant of the store's variables. *)
TypeOK ==
    /\ revision \in Nat
    /\ minCursor \in Nat
    /\ record \in [Key -> Row]
    /\ tx \in [Writer -> [open : BOOLEAN, revision : Nat, rows : [Key -> Row]]]
    /\ sweep \in [phase : {"idle", "found", "raised"},
                  expired : SUBSET (Key \X Nat),
                  horizon : Nat]

(* No two rows carry the same revision, so "the last one of the page" is a  *)
(* position: a page boundary can never fall between two rows that share it  *)
(* and hide the second (Changes' ORDER BY revision LIMIT).                  *)
RevisionsDistinct ==
    \A j, k \in Key : /\ Present(j)
                      /\ record[j].revision = record[k].revision
                      => j = k

(* The gap of doc 02 section 2: a row that becomes visible, or changes,     *)
(* does so above every revision a client could have read before, so a       *)
(* cursor never ends up past a row it was not given.                        *)
NothingAppearsBelow ==
    [][\A k \in Key : record'[k] # record[k] /\ record'[k] # Absent
                         => record'[k].revision > revision]_storeVars

(* A row leaves the table only as a tombstone, and only once the horizon    *)
(* the server refuses cursors by is at or above it, even when a push lands  *)
(* between the sweep's statements or the sweep dies half-way.               *)
LeavesBelowHorizon ==
    [][\A k \in Key : Present(k) /\ record'[k] = Absent
                         => record[k].deleted /\ record[k].revision <= minCursor']_storeVars

(* What a pulling client may rely on. *)
Feed == INSTANCE AccountFeed
            WITH Key <- Key, AppendOnly <- AppendOnly, Body <- Body, NoBody <- NoBody,
                 revision <- revision, minCursor <- minCursor, record <- record

(* The statements of the store, taken together, are the abstract feed.      *)
ImplementsFeed == Feed!Spec
=============================================================================

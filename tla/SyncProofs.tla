----------------------------- MODULE SyncProofs -----------------------------
(***************************************************************************)
(* The server's side of synchronisation, in three parts: the record store, *)
(* the push endpoint over it, the pull loop over it; each for every value  *)
(* of the constants.                                                       *)
(***************************************************************************)
EXTENDS SyncPush, SyncFeed, TLAPS

-----------------------------------------------------------------------------
(* The store keeps its promises for every set of keys, bodies and writers: *)
(* its inductive invariant, the properties the runs check, and the step by *)
(* step refinement of AccountFeed.                                         *)

(* At most one transaction is open, and it works above the committed        *)
(* counter: this is what the write lock and the single connection buy.      *)
TxAlone == \A v, w \in Writer : tx[v].open /\ tx[w].open => v = w

TxAhead ==
    \A w \in Writer : tx[w].open =>
        /\ tx[w].revision >= revision
        /\ \A k \in Key : tx[w].rows[k].revision > 0 =>
              /\ revision < tx[w].rows[k].revision
              /\ tx[w].rows[k].revision <= tx[w].revision
              /\ k \in AppendOnly => ~Present(k)
        /\ \A j, k \in Key :
              /\ tx[w].rows[j].revision > 0
              /\ tx[w].rows[j].revision = tx[w].rows[k].revision
              => j = k

(* A transaction that has moved the counter has written a row with it. *)
TxWrote ==
    \A w \in Writer :
        tx[w].open /\ (\A k \in Key : tx[w].rows[k].revision = 0)
            => tx[w].revision = revision

(* Every committed revision, and the horizon, has been handed out. *)
Issued == /\ \A k \in Key : record[k].revision <= revision
          /\ minCursor <= revision

(* What the sweep carries between its statements is still true of the       *)
(* table: a row that kept its revision is still the tombstone it saw.       *)
SweepSound ==
    /\ sweep.horizon <= revision
    /\ sweep.phase = "idle" => sweep.expired = {}
    /\ sweep.phase = "raised" => sweep.horizon <= minCursor
    /\ \A k \in Key, r \in Nat : <<k, r>> \in sweep.expired =>
          /\ 0 < r
          /\ r <= sweep.horizon
          /\ record[k].revision = r => record[k].deleted

IInv == /\ TypeOK
        /\ TxAlone
        /\ TxAhead
        /\ TxWrote
        /\ Issued
        /\ RevisionsDistinct
        /\ SweepSound

-----------------------------------------------------------------------------
LEMMA AbsentRow == Absent \in Row /\ Absent.revision = 0
  BY DEF Absent, Row

LEMMA ClosedTx ==
    /\ Closed \in [open : BOOLEAN, revision : Nat, rows : [Key -> Row]]
    /\ ~Closed.open
  BY AbsentRow DEF Closed, NoRows

LEMMA InitIInv == InitStore => IInv
  <1> SUFFICES ASSUME InitStore PROVE IInv
    OBVIOUS
  <1> USE DEF InitStore
  <1>1. TypeOK
    BY AbsentRow, ClosedTx DEF TypeOK, NoSweep
  <1>2. TxAlone /\ TxAhead /\ TxWrote
    BY ClosedTx DEF TxAlone, TxAhead, TxWrote
  <1>3. Issued /\ RevisionsDistinct
    BY AbsentRow DEF Issued, RevisionsDistinct, Present
  <1>4. SweepSound
    BY DEF SweepSound, NoSweep
  <1> QED BY <1>1, <1>2, <1>3, <1>4 DEF IInv

LEMMA BeginKeeps ==
    ASSUME IInv, NEW w \in Writer, Begin(w) PROVE IInv'
  <1> USE DEF IInv, Begin, Quiet
  <1>1. TypeOK'
    BY AbsentRow DEF TypeOK, NoRows
  <1>2. TxAlone'
    BY DEF TxAlone, TypeOK
  <1>3. TxAhead' /\ TxWrote'
    BY AbsentRow DEF TxAhead, TxWrote, TypeOK, NoRows
  <1>4. Issued' /\ RevisionsDistinct' /\ SweepSound'
    BY DEF Issued, RevisionsDistinct, Present, SweepSound
  <1> QED BY <1>1, <1>2, <1>3, <1>4

LEMMA RowOfType ==
    ASSUME NEW in \in Incoming, NEW r \in Nat \ {0}
    PROVE  RowOf(in, r) \in Row /\ RowOf(in, r).revision = r
  BY StoreAssumption DEF RowOf, Row, Incoming

LEMMA ApplyOneKeeps ==
    ASSUME IInv, NEW w \in Writer, NEW in \in Incoming, ApplyOne(w, in) PROVE IInv'
  <1> USE DEF IInv
  <1> UNCHANGED <<revision, minCursor, record, sweep>>
    BY DEF ApplyOne
  <1>1. CASE UNCHANGED tx
    BY <1>1 DEF TypeOK, TxAlone, TxAhead, TxWrote, Issued, RevisionsDistinct,
                Present, SweepSound
  <1>2. CASE ~AlreadyPresent(w, in) /\ tx' # tx
    <2> DEFINE r == tx[w].revision + 1
    <2>0. in.key \in Key /\ tx[w].open /\ r \in Nat \ {0} /\ r > revision
      BY <1>2 DEF ApplyOne, TypeOK, TxAhead, Incoming
    <2>1. RowOf(in, r) \in Row /\ RowOf(in, r).revision = r
      BY <2>0, RowOfType
    <2>2. tx' = [tx EXCEPT ![w].revision = @ + 1, ![w].rows[in.key] = RowOf(in, r)]
      BY <1>2 DEF ApplyOne
    <2>3. /\ tx' \in [Writer -> [open : BOOLEAN, revision : Nat, rows : [Key -> Row]]]
          /\ \A v \in Writer : tx'[v].open = tx[v].open
          /\ \A v \in Writer \ {w} : tx'[v] = tx[v]
          /\ tx'[w].revision = r
          /\ tx'[w].rows = [tx[w].rows EXCEPT ![in.key] = RowOf(in, r)]
      BY <2>0, <2>1, <2>2 DEF TypeOK
    <2>4. /\ tx'[w].rows[in.key].revision = r
          /\ \A k \in Key \ {in.key} : tx'[w].rows[k] = tx[w].rows[k]
      BY <2>0, <2>1, <2>3 DEF TypeOK
    <2>5. in.key \in AppendOnly => ~Present(in.key)
      BY <1>2, <2>0 DEF AlreadyPresent, Seen, TxAhead, Present, TypeOK, Row
    <2>6. \A k \in Key : tx[w].rows[k].revision \in Nat /\ tx[w].revision \in Nat
      BY DEF TypeOK, Row
    <2>7. TypeOK'
      BY <2>3 DEF TypeOK
    <2>8. TxAlone'
      BY <2>3 DEF TxAlone
    <2>9. TxAhead'
      <3> SUFFICES ASSUME NEW v \in Writer, tx'[v].open
                   PROVE  /\ tx'[v].revision >= revision
                          /\ \A k \in Key : tx'[v].rows[k].revision > 0 =>
                                /\ revision < tx'[v].rows[k].revision
                                /\ tx'[v].rows[k].revision <= tx'[v].revision
                                /\ k \in AppendOnly => ~Present(k)
                          /\ \A j, k \in Key :
                                /\ tx'[v].rows[j].revision > 0
                                /\ tx'[v].rows[j].revision = tx'[v].rows[k].revision
                                => j = k
        BY DEF TxAhead, Present
      <3>1. v = w
        BY <2>0, <2>3 DEF TxAlone
      <3>2. /\ tx[w].revision >= revision
            /\ \A k \in Key : tx[w].rows[k].revision > 0 =>
                  /\ revision < tx[w].rows[k].revision
                  /\ tx[w].rows[k].revision <= tx[w].revision
                  /\ k \in AppendOnly => ~Present(k)
            /\ \A j, k \in Key :
                  /\ tx[w].rows[j].revision > 0
                  /\ tx[w].rows[j].revision = tx[w].rows[k].revision
                  => j = k
        BY <2>0 DEF TxAhead
      <3>3. revision \in Nat
        BY DEF TypeOK
      <3> QED BY <2>0, <2>3, <2>4, <2>5, <2>6, <3>1, <3>2, <3>3
    <2>10. TxWrote'
      <3> SUFFICES ASSUME NEW v \in Writer, tx'[v].open,
                          \A k \in Key : tx'[v].rows[k].revision = 0
                   PROVE  FALSE
        BY DEF TxWrote
      <3>1. v = w
        BY <2>0, <2>3 DEF TxAlone
      <3> QED BY <2>0, <2>4, <3>1
    <2>11. Issued' /\ RevisionsDistinct' /\ SweepSound'
      BY DEF Issued, RevisionsDistinct, Present, SweepSound
    <2> QED BY <2>7, <2>8, <2>9, <2>10, <2>11
  <1> QED BY <1>1, <1>2 DEF ApplyOne

(* What a commit does to the table, in the abstract feed's terms. *)
LEMMA CommitRows ==
    ASSUME IInv, NEW w \in Writer, Commit(w)
    PROVE  /\ record' \in [Key -> Row]
           /\ revision' \in Nat /\ revision' >= revision
           /\ \A k \in Key : \/ record'[k] = record[k]
                             \/ /\ record'[k] = tx[w].rows[k]
                                /\ record'[k].revision \in revision+1 .. revision'
                                /\ k \in AppendOnly => ~Present(k)
  <1> USE DEF IInv
  <1>1. tx[w].open /\ revision' = tx[w].revision /\ record' = [k \in Key |-> Seen(w, k)]
    BY DEF Commit
  <1>2. record' \in [Key -> Row]
    BY <1>1 DEF Seen, TypeOK
  <1>3. revision' \in Nat /\ revision \in Nat /\ revision' >= revision
    BY <1>1 DEF TypeOK, TxAhead
  <1>4. ASSUME NEW k \in Key, tx[w].rows[k].revision > 0
        PROVE  /\ record'[k] = tx[w].rows[k]
               /\ record'[k].revision \in revision+1 .. revision'
               /\ k \in AppendOnly => ~Present(k)
    BY <1>1, <1>3, <1>4 DEF Seen, TypeOK, TxAhead, Row
  <1>5. ASSUME NEW k \in Key, ~(tx[w].rows[k].revision > 0)
        PROVE  record'[k] = record[k]
    BY <1>1, <1>5 DEF Seen
  <1> QED BY <1>2, <1>3, <1>4, <1>5

LEMMA CommitKeeps ==
    ASSUME IInv, NEW w \in Writer, Commit(w) PROVE IInv'
  <1> USE DEF IInv
  <1>0. /\ tx' = [tx EXCEPT ![w] = Closed]
        /\ UNCHANGED <<minCursor, sweep>>
        /\ tx[w].open
    BY DEF Commit
  <1>1. TypeOK'
    BY <1>0, CommitRows, ClosedTx DEF TypeOK
  <1>2. \A v \in Writer : ~tx'[v].open
    BY <1>0, ClosedTx DEF TxAlone, TypeOK
  <1>3. TxAlone' /\ TxAhead' /\ TxWrote'
    BY <1>2 DEF TxAlone, TxAhead, TxWrote
  <1>4. Issued'
    BY <1>0, CommitRows DEF Issued, TypeOK, Row
  <1>5. RevisionsDistinct'
    <2> SUFFICES ASSUME NEW j \in Key, NEW k \in Key, record'[j].revision > 0,
                        record'[j].revision = record'[k].revision
                 PROVE  j = k
      BY DEF RevisionsDistinct, Present
    <2>1. \A i \in Key : record[i].revision <= revision /\ record[i].revision \in Nat
      BY DEF Issued, TypeOK, Row
    <2>2. revision \in Nat /\ revision' \in Nat
      BY CommitRows DEF TypeOK
    <2>3. CASE record'[j] = record[j] /\ record'[k] = record[k]
      BY <2>3 DEF RevisionsDistinct, Present
    <2>4. CASE record'[j] = tx[w].rows[j] /\ record'[k] = tx[w].rows[k]
      BY <1>0, <2>4 DEF TxAhead
    <2> QED BY <2>1, <2>2, <2>3, <2>4, CommitRows
  <1>6. SweepSound'
    <2>1. \A k \in Key : record[k].revision <= revision
      BY DEF Issued
    <2>2. sweep.horizon \in Nat /\ revision \in Nat
      BY DEF TypeOK
    <2> QED BY <1>0, <2>1, <2>2, CommitRows DEF SweepSound
  <1> QED BY <1>1, <1>3, <1>4, <1>5, <1>6

LEMMA RollbackKeeps ==
    ASSUME IInv, NEW w \in Writer, Rollback(w) PROVE IInv'
  <1> USE DEF IInv, Rollback
  <1>1. TypeOK'
    BY ClosedTx DEF TypeOK
  <1>2. \A v \in Writer : tx'[v].open => tx'[v] = tx[v]
    BY ClosedTx DEF TypeOK
  <1>3. TxAlone' /\ TxAhead' /\ TxWrote'
    BY <1>2 DEF TxAlone, TxAhead, TxWrote, Present
  <1>4. Issued' /\ RevisionsDistinct' /\ SweepSound'
    BY DEF Issued, RevisionsDistinct, Present, SweepSound
  <1> QED BY <1>1, <1>3, <1>4

LEMMA SweepFindKeeps ==
    ASSUME IInv, NEW S \in SUBSET Key, SweepFind(S) PROVE IInv'
  <1> USE DEF IInv
  <1>0. UNCHANGED <<revision, minCursor, record, tx>>
    BY DEF SweepFind
  <1>1. PICK h \in {record[k].revision : k \in S} :
            /\ \A k \in S : record[k].revision <= h
            /\ sweep' = [phase |-> "found",
                         expired |-> {<<k, record[k].revision>> : k \in S},
                         horizon |-> h]
    BY DEF SweepFind
  <1>2. h \in Nat /\ h <= revision
    BY DEF TypeOK, Row, Issued
  <1>3. TypeOK'
    BY <1>0, <1>1, <1>2 DEF TypeOK, Row
  <1>4. SweepSound'
    <2>1. \A k \in S : record[k].deleted /\ record[k].revision > 0
      BY DEF SweepFind, Tombstone, Present
    <2> QED BY <1>0, <1>1, <1>2, <2>1 DEF SweepSound, TypeOK, Row
  <1>5. TxAlone' /\ TxAhead' /\ TxWrote' /\ Issued' /\ RevisionsDistinct'
    BY <1>0 DEF TxAlone, TxAhead, TxWrote, Issued, RevisionsDistinct, Present
  <1> QED BY <1>3, <1>4, <1>5

LEMMA SweepRaiseKeeps ==
    ASSUME IInv, SweepRaise PROVE IInv'
  <1> USE DEF IInv, SweepRaise
  <1>1. TypeOK'
    BY DEF TypeOK
  <1>2. SweepSound' /\ Issued'
    BY DEF SweepSound, Issued, TypeOK
  <1>3. TxAlone' /\ TxAhead' /\ TxWrote' /\ RevisionsDistinct'
    BY DEF TxAlone, TxAhead, TxWrote, RevisionsDistinct, Present
  <1> QED BY <1>1, <1>2, <1>3

LEMMA SweepDeleteKeeps ==
    ASSUME IInv, SweepDelete PROVE IInv'
  <1> USE DEF IInv, SweepDelete
  <1>1. \A k \in Key : record'[k] = Absent \/ record'[k] = record[k]
    OBVIOUS
  <1>2. \A w \in Writer : ~tx'[w].open
    BY DEF Quiet
  <1>3. TypeOK'
    BY AbsentRow DEF TypeOK, NoSweep
  <1>4. TxAlone' /\ TxAhead' /\ TxWrote'
    BY <1>2 DEF TxAlone, TxAhead, TxWrote
  <1>5. Issued' /\ RevisionsDistinct'
    BY <1>1, AbsentRow DEF Issued, RevisionsDistinct, Present, TypeOK
  <1>6. SweepSound'
    BY DEF SweepSound, NoSweep, TypeOK
  <1> QED BY <1>3, <1>4, <1>5, <1>6

LEMMA SweepAbandonKeeps ==
    ASSUME IInv, SweepAbandon PROVE IInv'
  BY DEF IInv, SweepAbandon, NoSweep, TypeOK, TxAlone, TxAhead, TxWrote, Issued,
         RevisionsDistinct, Present, SweepSound

LEMMA NextIInv == IInv /\ [NextStore]_storeVars => IInv'
  <1> SUFFICES ASSUME IInv, [NextStore]_storeVars PROVE IInv'
    OBVIOUS
  <1>1. CASE \E w \in Writer : Write(w)
    BY <1>1, BeginKeeps, ApplyOneKeeps, CommitKeeps, RollbackKeeps DEF Write
  <1>2. CASE Housekeep
    BY <1>2, SweepFindKeeps, SweepRaiseKeeps, SweepDeleteKeeps, SweepAbandonKeeps
       DEF Housekeep
  <1>3. CASE UNCHANGED storeVars
    BY <1>3 DEF storeVars, IInv, TypeOK, TxAlone, TxAhead, TxWrote, Issued,
                RevisionsDistinct, Present, SweepSound
  <1> QED BY <1>1, <1>2, <1>3 DEF NextStore

-----------------------------------------------------------------------------
(* The inductive invariant holds in every reachable state. *)
THEOREM StoreInvariant == SpecStore => []IInv
  BY InitIInv, NextIInv, PTL DEF SpecStore

(* Every variable of the store keeps its type, a row has a body exactly     *)
(* when it is live (applyOne drops the body of a tombstone).                *)
THEOREM StoreTypeOK == SpecStore => []TypeOK
  <1>1. IInv => TypeOK
    BY DEF IInv
  <1> QED BY <1>1, StoreInvariant, PTL

(* No two rows ever share a revision, so a page of Changes never splits a   *)
(* tie.                                                                     *)
THEOREM StoreRevisionsDistinct == SpecStore => []RevisionsDistinct
  <1>1. IInv => RevisionsDistinct
    BY DEF IInv
  <1> QED BY <1>1, StoreInvariant, PTL

(* Only a commit and the sweep's delete touch the table. *)
LEMMA RowsMove ==
    ASSUME IInv, [NextStore]_storeVars
    PROVE  \/ UNCHANGED record
           \/ \E w \in Writer : Commit(w)
           \/ SweepDelete
  BY DEF NextStore, Write, Housekeep, storeVars, Begin, ApplyOne, Rollback,
         SweepFind, SweepRaise, SweepAbandon

LEMMA DeleteRows ==
    ASSUME IInv, SweepDelete, NEW k \in Key
    PROVE  \/ record'[k] = record[k]
           \/ /\ record'[k] = Absent
              /\ record[k].deleted
              /\ record[k].revision > 0
              /\ record[k].revision <= minCursor
  BY DEF SweepDelete, StillExpired, IInv, SweepSound, TypeOK, Row

(* Whatever changes in the feed changes above everything already visible:   *)
(* the gap of doc 02 section 2 cannot be observed.                          *)
THEOREM StoreNothingAppearsBelow == SpecStore => NothingAppearsBelow
  <1>1. IInv /\ [NextStore]_storeVars =>
          [\A k \in Key : record'[k] # record[k] /\ record'[k] # Absent
                             => record'[k].revision > revision]_storeVars
    <2> SUFFICES ASSUME IInv, [NextStore]_storeVars,
                        NEW k \in Key, record'[k] # record[k], record'[k] # Absent
                 PROVE  record'[k].revision > revision
      OBVIOUS
    <2>1. revision \in Nat
      BY DEF IInv, TypeOK
    <2>2. CASE \E w \in Writer : Commit(w)
      BY <2>1, <2>2, CommitRows
    <2>3. CASE SweepDelete
      BY <2>3, DeleteRows
    <2> QED BY <2>2, <2>3, RowsMove
  <1> QED BY <1>1, StoreInvariant, PTL DEF SpecStore, NothingAppearsBelow

(* A row leaves the table only as a tombstone the horizon already covers.   *)
THEOREM StoreLeavesBelowHorizon == SpecStore => LeavesBelowHorizon
  <1>1. IInv /\ [NextStore]_storeVars =>
          [\A k \in Key : Present(k) /\ record'[k] = Absent
              => record[k].deleted /\ record[k].revision <= minCursor']_storeVars
    <2> SUFFICES ASSUME IInv, [NextStore]_storeVars,
                        NEW k \in Key, Present(k), record'[k] = Absent
                 PROVE  record[k].deleted /\ record[k].revision <= minCursor'
      OBVIOUS
    <2>1. record'[k] # record[k]
      BY AbsentRow DEF Present
    <2>2. CASE \E w \in Writer : Commit(w)
      <3>1. record'[k].revision \in revision+1 .. revision' /\ revision \in Nat
        BY <2>1, <2>2, CommitRows DEF IInv, TypeOK
      <3> QED BY <3>1, AbsentRow
    <2>3. CASE SweepDelete
      BY <2>1, <2>3, DeleteRows DEF SweepDelete
    <2> QED BY <2>1, <2>2, <2>3, RowsMove
  <1> QED BY <1>1, StoreInvariant, PTL DEF SpecStore, LeavesBelowHorizon

(* The store implements the abstract feed: a commit is a Write or a         *)
(* stutter, the sweep's second and third statements are Raise and Forget,   *)
(* and everything else is invisible.                                        *)
THEOREM StoreImplementsFeed == SpecStore => ImplementsFeed
  <1>1. InitStore => Feed!Init
    BY DEF InitStore, Feed!Init, Absent, Feed!Absent
  <1>2. IInv /\ [NextStore]_storeVars => [Feed!Next]_(Feed!feed)
    <2> SUFFICES ASSUME IInv, NextStore
                 PROVE  Feed!Next \/ UNCHANGED <<revision, minCursor, record>>
      BY DEF storeVars, Feed!feed
    <2>1. ASSUME NEW w \in Writer, Commit(w)
          PROVE  Feed!Next \/ UNCHANGED <<revision, minCursor, record>>
      <3> DEFINE K == {k \in Key : record'[k] # record[k]}
      <3>0. IInv' /\ UNCHANGED minCursor
        BY <2>1, CommitKeeps DEF Commit
      <3>1. CASE \A k \in Key : tx[w].rows[k].revision = 0
        BY <2>1, <3>0, <3>1 DEF Commit, Seen, IInv, TxWrote, TypeOK
      <3>2. CASE \E k \in Key : tx[w].rows[k].revision # 0
        <4>1. PICK k \in Key : tx[w].rows[k].revision # 0
          BY <3>2
        <4>2. revision' > revision
          <5>1. tx[w].open /\ revision' = tx[w].revision
            BY <2>1 DEF Commit
          <5>2. tx[w].rows[k].revision \in Nat /\ tx[w].revision \in Nat /\ revision \in Nat
            BY DEF IInv, TypeOK, Row
          <5>3. revision < tx[w].rows[k].revision /\ tx[w].rows[k].revision <= tx[w].revision
            BY <4>1, <5>1, <5>2 DEF IInv, TxAhead
          <5> QED BY <5>1, <5>2, <5>3
        <4>3. \A i \in Key \ K : record'[i] = record[i]
          OBVIOUS
        <4>4. \A i \in K : /\ record'[i].revision \in revision+1 .. revision'
                           /\ i \in AppendOnly => ~Present(i)
          BY <2>1, CommitRows
        <4>5. \A i, j \in K : record'[i].revision = record'[j].revision => i = j
          BY <3>0, <4>4 DEF IInv, RevisionsDistinct, Present, TypeOK
        <4>6. Feed!Write
          BY <3>0, <4>2, <4>3, <4>4, <4>5 DEF Feed!Write, Feed!Present, Present
        <4> QED BY <4>6 DEF Feed!Next
      <3> QED BY <3>1, <3>2
    <2>2. CASE SweepRaise
      <3>1. CASE minCursor < sweep.horizon
        BY <2>2, <3>1 DEF SweepRaise, Feed!Next, Feed!Raise, IInv, SweepSound, TypeOK
      <3>2. CASE ~(minCursor < sweep.horizon)
        BY <2>2, <3>2 DEF SweepRaise
      <3> QED BY <3>1, <3>2
    <2>3. CASE SweepDelete
      BY <2>3, DeleteRows DEF SweepDelete, Feed!Next, Feed!Forget, Absent, Feed!Absent
    <2>4. ASSUME ~(\E w \in Writer : Commit(w)), ~SweepRaise, ~SweepDelete
          PROVE  UNCHANGED <<revision, minCursor, record>>
      BY <2>4 DEF NextStore, Write, Housekeep, Begin, ApplyOne, Rollback,
                  SweepFind, SweepAbandon
    <2> QED BY <2>1, <2>2, <2>3, <2>4
  <1> QED BY <1>1, <1>2, StoreInvariant, PTL DEF SpecStore, ImplementsFeed, Feed!Spec

-----------------------------------------------------------------------------
(* The push endpoint only does to the store what the store allows, so all  *)
(* that is shown of the store above holds under it; and a batch whose      *)
(* deliveries never meet is committed once.                                *)

HandlerOK == handler \in [Writer -> [phase : {"idle", "lookup", "apply", "done"},
                                     batch : Batch, at : Nat, told : SUBSET Key,
                                     cursor : Nat]]

(* Deliveries that never met: at most one handler has the batch; it is at   *)
(* work on a batch not committed yet, or has committed it, and once it is   *)
(* gone the response is remembered.                                         *)
Working(w, b) == handler[w].batch = b /\ handler[w].phase # "idle"

Solo(b) == \A v, w \in Writer : Working(v, b) /\ Working(w, b) => v = w

Once(b) ==
    /\ Solo(b)
    /\ applied[b] \in {0, 1}
    /\ \A w \in Writer : Working(w, b) => /\ handler[w].phase = "apply" => applied[b] = 0
                                          /\ handler[w].phase = "done" => applied[b] = 1
    /\ applied[b] = 1 /\ memory[b] = NotKept =>
          \E w \in Writer : Working(w, b) /\ handler[w].phase = "done"

PInv == /\ HandlerOK
        /\ applied \in [Batch -> Nat]
        /\ memory \in [Batch -> Int]
        /\ \A b \in Batch \ unsafe : Once(b)

-----------------------------------------------------------------------------
LEMMA PushInit == InitPush => PInv
<1> SUFFICES ASSUME InitPush PROVE PInv
  OBVIOUS
<1>1. /\ HandlerOK
      /\ \A w \in Writer : handler[w].phase = "idle"
  BY DEF InitPush, HandlerOK, Idle
<1>2. applied \in [Batch -> Nat] /\ memory \in [Batch -> Int]
  BY DEF InitPush, NotKept
<1>3. \A b \in Batch : Once(b)
  BY <1>1 DEF InitPush, Once, Solo, Working
<1> QED
  BY <1>1, <1>2, <1>3 DEF PInv

(* Every step of the endpoint is a step of the store, or none.              *)
LEMMA PushStep == HandlerOK /\ [NextPush]_allVars => [NextStore]_storeVars
<1> SUFFICES ASSUME HandlerOK, NextPush \/ UNCHANGED allVars
             PROVE  NextStore \/ UNCHANGED storeVars
  OBVIOUS
<1>1. CASE UNCHANGED allVars
  BY <1>1 DEF allVars
<1>2. ASSUME NEW w \in Writer, Handle(w)
      PROVE  NextStore \/ UNCHANGED storeVars
  <2>1. CASE \E b \in Batch : Receive(w, b)
    BY <2>1 DEF Receive
  <2>2. CASE Lookup(w)
    BY <2>2 DEF Lookup
  <2>3. CASE StartBatch(w)
    BY <2>3 DEF StartBatch, NextStore, Write
  <2>4. CASE ApplyNext(w)
    <3>1. handler[w].batch \in Batch
      BY DEF HandlerOK
    <3>2. Records[handler[w].batch] \in Seq(Incoming)
      BY <3>1, PushAssumption
    <3>3. PICK i \in DOMAIN Records[handler[w].batch] :
              ApplyOne(w, Records[handler[w].batch][i])
      BY <2>4 DEF ApplyNext
    <3>4. Records[handler[w].batch][i] \in Incoming
      BY <3>2, <3>3
    <3> QED
      BY <3>3, <3>4 DEF NextStore, Write
  <2>5. CASE Finish(w)
    BY <2>5 DEF Finish, NextStore, Write
  <2>6. CASE Save(w)
    BY <2>6 DEF Save
  <2>7. CASE FailBatch(w)
    BY <2>7 DEF FailBatch, NextStore, Write
  <2> QED
    BY <1>2, <2>1, <2>2, <2>3, <2>4, <2>5, <2>6, <2>7 DEF Handle
<1>3. CASE Housekeep /\ UNCHANGED pushVars
  BY <1>3 DEF NextStore
<1>4. CASE \E b \in Batch : SweepBatches(b)
  BY <1>4 DEF SweepBatches
<1> QED
  BY <1>1, <1>2, <1>3, <1>4 DEF NextPush

-----------------------------------------------------------------------------
(* A step of the handler w that keeps its batch, seen from that batch.      *)
LEMMA ReceiveKeeps ==
    ASSUME PInv, NEW w \in Writer, NEW b \in Batch, Receive(w, b)
    PROVE  PInv'
<1>1. HandlerOK'
  BY DEF PInv, HandlerOK, Receive, Idle
<1>2. applied' = applied /\ memory' = memory
  BY DEF Receive
<1>3. ASSUME NEW c \in Batch \ unsafe'
      PROVE  Once(c)'
  <2>1. c \notin unsafe
    BY <1>3 DEF Receive
  <2>2. Once(c)
    BY <2>1 DEF PInv
  <2>3. handler' = [handler EXCEPT ![w] = [Idle(b) EXCEPT !.phase = "lookup"]]
    BY DEF Receive
  <2>4. /\ handler'[w].phase = "lookup"
        /\ handler'[w].batch = b
        /\ \A v \in Writer \ {w} : handler'[v] = handler[v]
        /\ handler[w].phase = "idle"
    BY <2>3 DEF PInv, HandlerOK, Idle, Receive
  <2>5. CASE c = b
    <3>1. \A v \in Writer : ~Working(v, b)
      BY <2>5, <1>3 DEF Receive, Busy, Working
    <3>2. \A v \in Writer \ {w} : ~Working(v, b)'
      BY <3>1, <2>4 DEF Working
    <3>3. Solo(b)'
      BY <3>2 DEF Solo
    <3>4. applied[b] = 1 => memory[b] # NotKept
      BY <2>2, <2>5, <3>1 DEF Once
    <3> QED
      BY <1>2, <2>2, <2>4, <2>5, <3>2, <3>3, <3>4 DEF Once, NotKept
  <2>6. CASE c # b
    <3>1. \A v \in Writer : Working(v, c)' <=> Working(v, c)
      BY <2>4, <2>6 DEF Working
    <3>2. \A v \in Writer : Working(v, c) => handler'[v] = handler[v]
      BY <2>4 DEF Working
    <3>3. Solo(c)'
      BY <2>2, <3>1 DEF Once, Solo
    <3> QED
      BY <1>2, <2>2, <3>1, <3>2, <3>3 DEF Once, NotKept
  <2> QED
    BY <2>5, <2>6
<1> QED
  BY <1>1, <1>2, <1>3 DEF PInv

(* What the other steps of a handler have in common: only it moves, within  *)
(* its batch.                                                               *)
Alone(w) == /\ HandlerOK'
            /\ \A v \in Writer \ {w} : handler'[v] = handler[v]
            /\ handler'[w].batch = handler[w].batch

LEMMA OtherBatchesKeep ==
    ASSUME PInv, NEW w \in Writer, Alone(w),
           NEW c \in Batch \ unsafe, c # handler[w].batch,
           applied'[c] = applied[c], memory'[c] = memory[c]
    PROVE  Once(c)'
<1>1. Once(c)
  BY DEF PInv
<1>2. \A v \in Writer : Working(v, c)' <=> Working(v, c)
  BY DEF Alone, Working
<1>3. \A v \in Writer : Working(v, c) => handler'[v] = handler[v]
  BY DEF Alone, Working
<1>4. Solo(c)'
  BY <1>1, <1>2 DEF Once, Solo
<1> QED
  BY <1>1, <1>2, <1>3, <1>4 DEF Once, NotKept

(* From its own batch: a handler at work stays the only one there.          *)
LEMMA OwnSolo ==
    ASSUME PInv, NEW w \in Writer, Alone(w),
           handler[w].batch \notin unsafe, handler[w].phase # "idle"
    PROVE  /\ handler[w].batch \in Batch
           /\ Once(handler[w].batch)
           /\ \A v \in Writer \ {w} : ~Working(v, handler[w].batch)
           /\ \A v \in Writer \ {w} : ~(handler'[v].batch = handler[w].batch
                                        /\ handler'[v].phase # "idle")
<1>1. handler[w].batch \in Batch
  BY DEF PInv, HandlerOK
<1>2. Once(handler[w].batch)
  BY <1>1 DEF PInv
<1>3. Working(w, handler[w].batch)
  BY DEF Working
<1>4. \A v \in Writer \ {w} : ~Working(v, handler[w].batch)
  BY <1>2, <1>3 DEF Once, Solo
<1> QED
  BY <1>1, <1>2, <1>4 DEF Alone, Working

LEMMA LookupKeeps ==
    ASSUME PInv, NEW w \in Writer, Lookup(w)
    PROVE  PInv'
<1>0. PICK b \in Batch : b = handler[w].batch
  BY DEF PInv, HandlerOK
<1>1. b \in Batch
  BY <1>0 DEF PInv, HandlerOK
<1>2. /\ applied' = applied /\ memory' = memory /\ unsafe' = unsafe
      /\ handler[w].phase = "lookup"
      /\ \/ memory[b] # NotKept /\ handler' = [handler EXCEPT ![w] = Idle(b)]
         \/ memory[b] = NotKept /\ handler' = [handler EXCEPT ![w].phase = "apply"]
  BY <1>0 DEF Lookup, Replayed
<1>3. Alone(w)
  BY <1>0, <1>1, <1>2 DEF PInv, HandlerOK, Alone, Idle
<1>4. handler'[w].phase = "idle" \/ (handler'[w].phase = "apply" /\ memory[b] = NotKept)
  BY <1>0, <1>1, <1>2 DEF PInv, HandlerOK, Idle
<1>5. ASSUME NEW c \in Batch \ unsafe
      PROVE  Once(c)'
  <2>1. CASE c # b
    BY <1>0, <1>2, <1>3, <2>1, OtherBatchesKeep
  <2>2. CASE c = b
    <3>1. /\ Once(b)
          /\ \A v \in Writer \ {w} : ~Working(v, b)
          /\ \A v \in Writer \ {w} : ~Working(v, b)'
      BY <1>0, <1>2, <1>3, <1>5, <2>2, OwnSolo DEF Working
    <3>2. Solo(b)'
      BY <1>0, <3>1 DEF Solo
    <3>3. applied[b] = 1 => memory[b] # NotKept
      BY <1>0, <1>2, <3>1 DEF Once
    <3> QED
      BY <1>0, <1>2, <1>4, <2>2, <3>1, <3>2, <3>3 DEF Once, NotKept, Working
  <2> QED
    BY <1>0, <2>1, <2>2
<1> QED
  BY <1>0, <1>2, <1>3, <1>5 DEF PInv, Alone

(* Begin and one record: the handler stays in phase "apply".                *)
LEMMA ApplyingKeeps ==
    ASSUME PInv, NEW w \in Writer, Alone(w),
           handler'[w].phase = handler[w].phase,
           UNCHANGED <<applied, memory, unsafe>>
    PROVE  PInv'
<1>1. \A v \in Writer, c \in Batch : Working(v, c)' <=> Working(v, c)
  BY DEF Alone, Working
<1>2. \A v \in Writer : handler'[v].phase = handler[v].phase
  BY DEF Alone
<1>3. ASSUME NEW c \in Batch \ unsafe'
      PROVE  Once(c)'
  <2>1. Once(c)
    BY <1>3 DEF PInv
  <2>2. Solo(c)'
    BY <1>1, <2>1 DEF Once, Solo
  <2> QED
    BY <1>1, <1>2, <2>1, <2>2 DEF Once, NotKept
<1> QED
  BY <1>3 DEF PInv, Alone

LEMMA FinishKeeps ==
    ASSUME PInv, TypeOK, NEW w \in Writer, Finish(w), handler[w].phase = "apply"
    PROVE  PInv'
<1>0. PICK b \in Batch : b = handler[w].batch
  BY DEF PInv, HandlerOK
<1>1. b \in Batch
  BY <1>0 DEF PInv, HandlerOK
<1>2. /\ memory' = memory /\ unsafe' = unsafe
      /\ applied' = [applied EXCEPT ![b] = @ + 1]
      /\ handler' = [handler EXCEPT ![w].phase = "done", ![w].cursor = revision']
  BY <1>0 DEF Finish
<1>3. revision' \in Nat
  BY <1>0 DEF Finish, Commit, TypeOK
<1>4. Alone(w) /\ handler'[w].phase = "done"
  <2>1. HandlerOK
    BY DEF PInv
  <2>2. HandlerOK'
    BY <1>2, <1>3, <2>1 DEF HandlerOK
  <2>3. /\ \A v \in Writer \ {w} : handler'[v] = handler[v]
        /\ handler'[w].batch = handler[w].batch /\ handler'[w].phase = "done"
    BY <1>2, <2>1 DEF HandlerOK
  <2> QED
    BY <2>2, <2>3 DEF Alone
<1>5. /\ applied' \in [Batch -> Nat]
      /\ applied'[b] = applied[b] + 1
      /\ \A c \in Batch \ {b} : applied'[c] = applied[c]
  BY <1>0, <1>1, <1>2 DEF PInv
<1>6. ASSUME NEW c \in Batch \ unsafe
      PROVE  Once(c)'
  <2>1. CASE c # b
    BY <1>0, <1>2, <1>4, <1>5, <2>1, OtherBatchesKeep
  <2>2. CASE c = b
    <3>1. /\ Once(b)
          /\ \A v \in Writer \ {w} : ~Working(v, b)'
      BY <1>0, <1>2, <1>4, <1>6, <2>2, OwnSolo DEF Working
    <3>2. applied[b] = 0
      BY <1>0, <3>1 DEF Once, Working
    <3>3. Working(w, b)' /\ applied'[b] = 1
      BY <1>0, <1>4, <1>5, <3>2 DEF Working, Alone
    <3>4. Solo(b)'
      BY <1>0, <3>1 DEF Solo
    <3> QED
      BY <1>0, <1>4, <2>2, <3>1, <3>3, <3>4 DEF Once, NotKept
  <2> QED
    BY <1>0, <2>1, <2>2
<1> QED
  BY <1>0, <1>2, <1>4, <1>5, <1>6 DEF PInv, Alone

LEMMA SaveKeeps ==
    ASSUME PInv, NEW w \in Writer, Save(w)
    PROVE  PInv'
<1>0. PICK b \in Batch : b = handler[w].batch
  BY DEF PInv, HandlerOK
<1>1. b \in Batch /\ handler[w].cursor \in Nat
  BY <1>0 DEF PInv, HandlerOK
<1>2. /\ applied' = applied /\ unsafe' = unsafe
      /\ handler[w].phase = "done"
      /\ memory' = [memory EXCEPT ![b] = IF @ = NotKept THEN handler[w].cursor ELSE @]
      /\ handler' = [handler EXCEPT ![w] = Idle(b)]
  BY <1>0 DEF Save, Remembered
<1>3. Alone(w) /\ handler'[w].phase = "idle"
  BY <1>0, <1>1, <1>2 DEF PInv, HandlerOK, Alone, Idle
<1>4. /\ memory' \in [Batch -> Int]
      /\ memory'[b] # NotKept
      /\ \A c \in Batch \ {b} : memory'[c] = memory[c]
  BY <1>0, <1>1, <1>2 DEF PInv, NotKept
<1>5. ASSUME NEW c \in Batch \ unsafe
      PROVE  Once(c)'
  <2>1. CASE c # b
    BY <1>0, <1>2, <1>3, <1>4, <2>1, OtherBatchesKeep
  <2>2. CASE c = b
    <3>1. /\ Once(b)
          /\ \A v \in Writer \ {w} : ~Working(v, b)'
      BY <1>0, <1>2, <1>3, <1>5, <2>2, OwnSolo DEF Working
    <3>2. ~Working(w, b)'
      BY <1>0, <1>3 DEF Working
    <3>3. Solo(b)'
      BY <1>0, <3>1, <3>2 DEF Solo
    <3> QED
      BY <1>0, <1>2, <1>4, <2>2, <3>1, <3>2, <3>3 DEF Once, NotKept
  <2> QED
    BY <1>0, <2>1, <2>2
<1> QED
  BY <1>0, <1>2, <1>3, <1>4, <1>5 DEF PInv, Alone

LEMMA FailBatchKeeps ==
    ASSUME PInv, NEW w \in Writer, FailBatch(w)
    PROVE  PInv'
<1>0. PICK b \in Batch : b = handler[w].batch
  BY DEF PInv, HandlerOK
<1>1. b \in Batch
  BY <1>0 DEF PInv, HandlerOK
<1>2. /\ applied' = applied /\ memory' = memory
      /\ handler[w].phase # "idle"
      /\ unsafe' = IF handler[w].phase = "done" THEN unsafe \cup {b} ELSE unsafe
      /\ handler' = [handler EXCEPT ![w] = Idle(b)]
  BY <1>0 DEF FailBatch
<1>3. Alone(w) /\ handler'[w].phase = "idle"
  BY <1>0, <1>1, <1>2 DEF PInv, HandlerOK, Alone, Idle
<1>4. ASSUME NEW c \in Batch \ unsafe'
      PROVE  Once(c)'
  <2>1. c \notin unsafe
    BY <1>0, <1>2, <1>4
  <2>2. CASE c # b
    BY <1>0, <1>2, <1>3, <2>1, <2>2, OtherBatchesKeep
  <2>3. CASE c = b
    <3>1. /\ Once(b)
          /\ \A v \in Writer \ {w} : ~Working(v, b) /\ ~Working(v, b)'
      BY <1>0, <1>2, <1>3, <2>1, <2>3, OwnSolo DEF Working
    <3>2. ~Working(w, b)' /\ handler[w].phase # "done"
      BY <1>0, <1>2, <1>3, <1>4, <2>3 DEF Working
    <3>3. Solo(b)'
      BY <1>0, <3>1, <3>2 DEF Solo
    <3>4. applied[b] = 1 => memory[b] # NotKept
      BY <1>0, <3>1, <3>2 DEF Once
    <3> QED
      BY <1>0, <1>2, <2>3, <3>1, <3>2, <3>3, <3>4 DEF Once, NotKept
  <2> QED
    BY <1>0, <2>2, <2>3
<1> QED
  BY <1>0, <1>2, <1>3, <1>4 DEF PInv, Alone

LEMMA SweepBatchesKeeps ==
    ASSUME PInv, NEW b \in Batch, SweepBatches(b)
    PROVE  PInv'
<1>1. /\ UNCHANGED <<handler, applied>>
      /\ memory' = [memory EXCEPT ![b] = NotKept]
      /\ unsafe' = unsafe \cup {b}
  BY DEF SweepBatches
<1>2. memory' \in [Batch -> Int] /\ \A c \in Batch \ {b} : memory'[c] = memory[c]
  BY <1>1 DEF PInv, NotKept
<1>3. ASSUME NEW c \in Batch \ unsafe'
      PROVE  Once(c)'
  <2>1. Once(c) /\ memory'[c] = memory[c]
    BY <1>1, <1>2, <1>3 DEF PInv
  <2> QED
    BY <1>1, <2>1 DEF Once, Solo, Working, NotKept
<1> QED
  BY <1>1, <1>2, <1>3 DEF PInv, HandlerOK

LEMMA StillKeeps ==
    ASSUME PInv, UNCHANGED <<handler, applied, memory, unsafe>>
    PROVE  PInv'
  BY DEF PInv, HandlerOK, Once, Solo, Working, NotKept

(* Only a handler in phase "apply" holds a transaction.                     *)
Holding == \A w \in Writer : tx[w].open => handler[w].phase = "apply"

LEMMA NextPInv ==
    ASSUME PInv, TypeOK, Holding, [NextPush]_allVars
    PROVE  PInv'
<1>1. CASE UNCHANGED allVars
  BY <1>1, StillKeeps DEF allVars, pushVars
<1>2. ASSUME NEW w \in Writer, Handle(w)
      PROVE  PInv'
  <2>1. CASE \E b \in Batch : Receive(w, b)
    BY <2>1, ReceiveKeeps
  <2>2. CASE Lookup(w)
    BY <2>2, LookupKeeps
  <2>3. CASE StartBatch(w)
    <3>1. /\ handler' = [handler EXCEPT ![w].at = 1]
          /\ UNCHANGED <<applied, memory, unsafe>>
      BY <2>3 DEF StartBatch
    <3>2. Alone(w) /\ handler'[w].phase = handler[w].phase
      BY <3>1 DEF PInv, HandlerOK, Alone
    <3> QED
      BY <3>1, <3>2, ApplyingKeeps
  <2>4. CASE ApplyNext(w)
    <3>1. UNCHANGED <<applied, memory, unsafe>>
      BY <2>4 DEF ApplyNext
    <3>2. Records[handler[w].batch] \in Seq(Incoming)
      BY PushAssumption DEF PInv, HandlerOK
    <3>3. PICK T \in SUBSET Key :
              handler' = [handler EXCEPT ![w].at = @ + 1, ![w].told = T]
      <4>1. PICK i \in DOMAIN Records[handler[w].batch] :
              LET k == Records[handler[w].batch][i].key
                  T == IF OverConflict(w, Records[handler[w].batch][i])
                          THEN handler[w].told \cup {k} ELSE handler[w].told
              IN  handler' = [handler EXCEPT ![w].at = @ + 1, ![w].told = T]
        BY <2>4 DEF ApplyNext
      <4>2. Records[handler[w].batch][i].key \in Key
        BY <3>2, <4>1 DEF Incoming
      <4>3. handler[w].told \subseteq Key
        BY DEF PInv, HandlerOK
      <4> QED
        BY <4>1, <4>2, <4>3
    <3>4. Alone(w) /\ handler'[w].phase = handler[w].phase
      <4> DEFINE H == [phase : {"idle", "lookup", "apply", "done"}, batch : Batch,
                       at : Nat, told : SUBSET Key, cursor : Nat]
                 h == [handler[w] EXCEPT !.at = handler[w].at + 1, !.told = T]
      <4>1. handler' = [handler EXCEPT ![w] = h]
        BY <3>3 DEF PInv, HandlerOK
      <4>2. handler[w] \in H
        BY DEF PInv, HandlerOK
      <4>3. /\ h \in H
            /\ h.batch = handler[w].batch
            /\ h.phase = handler[w].phase
        <5>1. \A q \in H : [q EXCEPT !.at = q.at + 1] \in H
          OBVIOUS
        <5>2. \A q \in H : [q EXCEPT !.told = T] \in H
          OBVIOUS
        <5>3. h = [[handler[w] EXCEPT !.at = handler[w].at + 1] EXCEPT !.told = T]
          BY <4>2
        <5> QED
          BY <4>2, <5>1, <5>2, <5>3
      <4> HIDE DEF h
      <4> QED
        BY <4>1, <4>3 DEF PInv, HandlerOK, Alone
    <3> QED
      BY <3>1, <3>4, ApplyingKeeps
  <2>5. CASE Finish(w)
    <3>1. handler[w].phase = "apply"
      BY <2>5 DEF Finish, Commit, Holding
    <3> QED
      BY <2>5, <3>1, FinishKeeps
  <2>6. CASE Save(w)
    BY <2>6, SaveKeeps
  <2>7. CASE FailBatch(w)
    BY <2>7, FailBatchKeeps
  <2> QED
    BY <1>2, <2>1, <2>2, <2>3, <2>4, <2>5, <2>6, <2>7 DEF Handle
<1>3. CASE Housekeep /\ UNCHANGED pushVars
  BY <1>3, StillKeeps DEF pushVars
<1>4. CASE \E b \in Batch : SweepBatches(b)
  BY <1>4, SweepBatchesKeeps
<1> QED
  BY <1>1, <1>2, <1>3, <1>4 DEF NextPush

LEMMA NextHolding ==
    ASSUME PInv, TypeOK, Holding, [NextPush]_allVars
    PROVE  Holding'
<1>1. CASE UNCHANGED allVars
  BY <1>1 DEF allVars, storeVars, pushVars, Holding
<1>2. ASSUME NEW w \in Writer, Handle(w)
      PROVE  Holding'
  <2>1. CASE \E b \in Batch : Receive(w, b)
    BY <2>1 DEF Receive, storeVars, Holding, PInv, HandlerOK
  <2>2. CASE Lookup(w)
    BY <2>2 DEF Lookup, Quiet, storeVars, Holding
  <2>3. CASE StartBatch(w)
    BY <2>3 DEF StartBatch, Begin, Holding, TypeOK, PInv, HandlerOK
  <2>4. CASE ApplyNext(w)
    <3>1. handler'[w].phase = handler[w].phase
      BY <2>4 DEF ApplyNext, PInv, HandlerOK
    <3>2. \A v \in Writer \ {w} : handler'[v] = handler[v]
      BY <2>4 DEF ApplyNext, PInv, HandlerOK
    <3>3. \A v \in Writer : tx'[v].open = tx[v].open
      <4>1. PICK in : ApplyOne(w, in)
        BY <2>4 DEF ApplyNext
      <4>2. CASE UNCHANGED tx
        BY <4>2
      <4>3. CASE tx' = [tx EXCEPT ![w].revision = @ + 1,
                                  ![w].rows[in.key] = RowOf(in, tx[w].revision + 1)]
        BY <4>3 DEF TypeOK
      <4> QED
        BY <4>1, <4>2, <4>3 DEF ApplyOne
    <3> QED
      BY <3>1, <3>2, <3>3 DEF Holding
  <2>5. CASE Finish(w)
    BY <2>5 DEF Finish, Commit, Closed, Holding, TypeOK, PInv, HandlerOK
  <2>6. CASE Save(w)
    BY <2>6 DEF Save, Quiet, storeVars, Holding
  <2>7. CASE FailBatch(w)
    <3>1. \A v \in Writer \ {w} : handler'[v] = handler[v]
      BY <2>7 DEF FailBatch, PInv, HandlerOK
    <3>2. ~tx'[w].open /\ \A v \in Writer \ {w} : tx'[v].open = tx[v].open
      BY <2>7 DEF FailBatch, Rollback, Closed, storeVars, TypeOK
    <3> QED
      BY <3>1, <3>2 DEF Holding
  <2> QED
    BY <1>2, <2>1, <2>2, <2>3, <2>4, <2>5, <2>6, <2>7 DEF Handle
<1>3. CASE Housekeep /\ UNCHANGED pushVars
  BY <1>3 DEF Housekeep, SweepFind, SweepRaise, SweepDelete, SweepAbandon, pushVars, Holding
<1>4. CASE \E b \in Batch : SweepBatches(b)
  BY <1>4 DEF SweepBatches, storeVars, Holding
<1> QED
  BY <1>1, <1>2, <1>3, <1>4 DEF NextPush

-----------------------------------------------------------------------------
(* The store of module SyncStore, and the inductive invariant of the        *)
(* endpoint on top of it.                                                   *)
THEOREM PushInvariant == SpecPush => SpecStore /\ [](IInv /\ PInv /\ Holding)
<1>1. InitPush => InitStore /\ IInv /\ PInv /\ Holding
  <2>1. InitPush => InitStore
    BY DEF InitPush
  <2>2. InitStore => Holding
    BY DEF InitStore, Closed, Holding
  <2> QED
    BY <2>1, <2>2, InitIInv, PushInit
<1>2. (IInv /\ PInv /\ Holding) /\ [NextPush]_allVars
          => (IInv /\ PInv /\ Holding)' /\ [NextStore]_storeVars
  <2> SUFFICES ASSUME IInv, PInv, Holding, [NextPush]_allVars
               PROVE  IInv' /\ PInv' /\ Holding' /\ [NextStore]_storeVars
    OBVIOUS
  <2>1. [NextStore]_storeVars
    BY PushStep DEF PInv
  <2>2. IInv'
    BY <2>1, NextIInv
  <2>3. TypeOK
    BY DEF IInv
  <2> QED
    BY <2>1, <2>2, <2>3, NextPInv, NextHolding
<1> QED
  BY <1>1, <1>2, PTL DEF SpecPush, SpecStore

(* The endpoint keeps the abstract feed: what pulling clients rely on.      *)
THEOREM PushImplementsFeed == SpecPush => ImplementsFeed
  BY PushInvariant, StoreImplementsFeed, PTL

(* RetryIsNoOp, for any batches, deliveries, goroutines and failures.       *)
THEOREM PushRetryIsNoOp == SpecPush => []RetryIsNoOp
<1>1. PInv => RetryIsNoOp
  BY DEF PInv, Once, RetryIsNoOp
<1> QED
  BY <1>1, PushInvariant, PTL

-----------------------------------------------------------------------------
(* The sender's position is settled by the first delivery, so a handler     *)
(* works with one base from its lookup to its commit.                       *)
Delivered ==
    /\ sent \in [Batch -> Nat]
    /\ base \in [Batch -> Nat]
    /\ \A w \in Writer : handler[w].phase # "idle" => sent[handler[w].batch] > 0

(* What an open transaction has written over a row its sender had not seen  *)
(* is told, and no such row changes before the commit.                      *)
Telling ==
    \A w \in Writer, k \in Key :
        /\ tx[w].open
        /\ tx[w].rows[k].revision > 0
        /\ base[handler[w].batch] # 0
        /\ record[k].revision > base[handler[w].batch]
        => k \in handler[w].told

(* The step of a handler that is not a delivery. *)
LEMMA SentKeeps ==
    ASSUME HandlerOK, Delivered, NEW w \in Writer, UNCHANGED <<base, sent>>,
           handler' \in [Writer -> [phase : {"idle", "lookup", "apply", "done"},
                                    batch : Batch, at : Nat, told : SUBSET Key,
                                    cursor : Nat]],
           \A v \in Writer \ {w} : handler'[v] = handler[v],
           handler[w].phase # "idle", handler'[w].batch = handler[w].batch
    PROVE  Delivered'
  BY DEF Delivered

LEMMA NextDelivered ==
    ASSUME PInv, TypeOK, Holding, Delivered, PInv', [NextPush]_allVars
    PROVE  Delivered'
<1>0. HandlerOK /\ HandlerOK'
  BY DEF PInv
<1>1. CASE UNCHANGED <<handler, base, sent>>
  BY <1>1 DEF Delivered
<1>2. ASSUME NEW w \in Writer, Handle(w)
      PROVE  Delivered'
  <2>1. ASSUME NEW b \in Batch, Receive(w, b)
        PROVE  Delivered'
    <3>1. /\ sent' = [sent EXCEPT ![b] = @ + 1]
          /\ handler' = [handler EXCEPT ![w] = [Idle(b) EXCEPT !.phase = "lookup"]]
          /\ base' \in IF sent[b] = 0 THEN {[base EXCEPT ![b] = r] : r \in 0..revision}
                       ELSE {base}
      BY <2>1 DEF Receive
    <3>2. base' \in [Batch -> Nat]
      BY <3>1 DEF Delivered, TypeOK
    <3>3. sent' \in [Batch -> Nat] /\ sent'[b] > 0 /\ \A c \in Batch : sent'[c] >= sent[c]
      BY <3>1 DEF Delivered
    <3>4. /\ \A v \in Writer \ {w} : handler'[v] = handler[v]
          /\ handler'[w].batch = b
      BY <1>0, <3>1 DEF HandlerOK, Idle
    <3>5. ASSUME NEW v \in Writer, handler'[v].phase # "idle"
          PROVE  sent'[handler'[v].batch] > 0
      <4>1. CASE v = w
        BY <3>3, <3>4, <4>1
      <4>2. CASE v # w
        <5>1. /\ sent[handler[v].batch] > 0
              /\ handler[v].batch \in Batch
              /\ handler'[v].batch = handler[v].batch
          BY <1>0, <3>4, <3>5, <4>2 DEF Delivered, HandlerOK
        <5>2. sent[handler[v].batch] \in Nat /\ sent'[handler[v].batch] \in Nat
          BY <3>3, <5>1 DEF Delivered
        <5> QED
          BY <3>3, <5>1, <5>2
      <4> QED
        BY <4>1, <4>2
    <3> QED
      BY <3>2, <3>3, <3>5 DEF Delivered
  <2>2. ASSUME ~\E b \in Batch : Receive(w, b)
        PROVE  /\ UNCHANGED <<base, sent>>
               /\ \A v \in Writer \ {w} : handler'[v] = handler[v]
    <3>1. Lookup(w) \/ StartBatch(w) \/ ApplyNext(w) \/ Finish(w) \/ Save(w) \/ FailBatch(w)
      BY <1>2, <2>2 DEF Handle
    <3>2. UNCHANGED <<base, sent>>
      BY <3>1 DEF Lookup, StartBatch, ApplyNext, Finish, Save, FailBatch
    <3>3. \A v \in Writer \ {w} : handler'[v] = handler[v]
      BY <1>0, <3>1 DEF Lookup, StartBatch, ApplyNext, Finish, Save, FailBatch, HandlerOK
    <3> QED
      BY <3>2, <3>3
  <2>3. ASSUME ~\E b \in Batch : Receive(w, b), handler[w].phase # "idle"
        PROVE  handler'[w].batch = handler[w].batch
    BY <1>0, <1>2, <2>3 DEF Handle, Lookup, StartBatch, ApplyNext, Finish, Save, FailBatch, HandlerOK, Idle
  <2>4. ASSUME ~\E b \in Batch : Receive(w, b)
        PROVE  handler[w].phase # "idle"
    BY <1>2, <2>4 DEF Handle, Lookup, StartBatch, ApplyNext, Finish, Commit, Save, FailBatch, Holding
  <2> QED
    BY <1>0, <2>1, <2>2, <2>3, <2>4, SentKeeps DEF HandlerOK
<1>3. CASE Housekeep /\ UNCHANGED pushVars
  BY <1>1, <1>3 DEF pushVars
<1>4. CASE \E b \in Batch : SweepBatches(b)
  BY <1>1, <1>4 DEF SweepBatches
<1> QED
  BY <1>1, <1>2, <1>3, <1>4 DEF NextPush, allVars, pushVars

(* A step that neither opens, closes nor fills a transaction, nor moves the *)
(* rows, the bases or a handler that holds one.                             *)
LEMMA TellingStill ==
    ASSUME Telling, UNCHANGED <<base, record>>,
           \A v \in Writer : \/ tx'[v] = tx[v] /\ handler'[v] = handler[v]
                             \/ ~tx'[v].open
    PROVE  Telling'
<1> SUFFICES ASSUME NEW v \in Writer, NEW k \in Key,
                    tx'[v].open, tx'[v].rows[k].revision > 0,
                    base[handler'[v].batch] # 0,
                    record[k].revision > base[handler'[v].batch]
             PROVE  k \in handler'[v].told
  BY DEF Telling
<1>1. tx'[v] = tx[v] /\ handler'[v] = handler[v]
  OBVIOUS
<1> QED
  BY <1>1 DEF Telling

(* One record: it is told if it is written over, and what was told stays.   *)
LEMMA ApplyNextTells ==
    ASSUME IInv, PInv, Telling, NEW w \in Writer, ApplyNext(w)
    PROVE  Telling'
<1> DEFINE b == handler[w].batch
<1>1. /\ TypeOK /\ HandlerOK /\ b \in Batch
      /\ UNCHANGED <<base, record>>
  BY DEF IInv, PInv, HandlerOK, ApplyNext, ApplyOne
<1>2. PICK i \in DOMAIN Records[b] :
          /\ ApplyOne(w, Records[b][i])
          /\ handler' = [handler EXCEPT ![w].at = @ + 1,
                             ![w].told = IF OverConflict(w, Records[b][i])
                                         THEN @ \cup {Records[b][i].key} ELSE @]
  BY DEF ApplyNext
<1>3. PICK in \in Incoming : in = Records[b][i]
  BY <1>1, <1>2, PushAssumption
<1>4. /\ \A v \in Writer \ {w} : handler'[v] = handler[v]
      /\ handler'[w].batch = b
      /\ handler'[w].told = IF OverConflict(w, in) THEN handler[w].told \cup {in.key}
                            ELSE handler[w].told
  BY <1>1, <1>2, <1>3 DEF HandlerOK
<1>5. in.key \in Key
  BY DEF Incoming
<1>6. CASE UNCHANGED tx
  <2> SUFFICES ASSUME NEW v \in Writer, NEW k \in Key,
                      tx[v].open, tx[v].rows[k].revision > 0,
                      base[handler'[v].batch] # 0,
                      record[k].revision > base[handler'[v].batch]
               PROVE  k \in handler'[v].told
    BY <1>1, <1>6 DEF Telling
  <2>1. handler'[v].batch = handler[v].batch /\ handler[v].told \subseteq handler'[v].told
    BY <1>4
  <2> QED
    BY <2>1 DEF Telling
<1>7. CASE ~AlreadyPresent(w, in) /\ tx' # tx
  <2>1. /\ tx' = [tx EXCEPT ![w].revision = @ + 1,
                            ![w].rows[in.key] = RowOf(in, tx[w].revision + 1)]
        /\ tx[w].open
    BY <1>2, <1>3, <1>7 DEF ApplyOne
  <2>2. /\ \A v \in Writer \ {w} : tx'[v] = tx[v]
        /\ \A k \in Key \ {in.key} : tx'[w].rows[k] = tx[w].rows[k]
    BY <1>1, <1>5, <2>1 DEF TypeOK
  <2>3. ASSUME NEW v \in Writer, NEW k \in Key,
               tx'[v].open, tx'[v].rows[k].revision > 0,
               base[handler'[v].batch] # 0,
               record[k].revision > base[handler'[v].batch]
        PROVE  k \in handler'[v].told
    <3>1. CASE v # w
      BY <1>4, <2>2, <2>3, <3>1 DEF Telling
    <3>2. CASE v = w /\ (k # in.key \/ tx[w].rows[k].revision > 0)
      <4>1. tx[w].rows[k].revision > 0
        BY <2>2, <2>3, <3>2
      <4>2. k \in handler[w].told
        BY <1>4, <2>1, <2>3, <3>2, <4>1 DEF Telling
      <4> QED
        BY <1>4, <3>2, <4>2
    <3>3. CASE v = w /\ k = in.key /\ ~(tx[w].rows[k].revision > 0)
      <4>1. Seen(w, k) = record[k]
        BY <3>3 DEF Seen
      <4>2. OverConflict(w, in)
        BY <1>4, <1>7, <2>3, <3>3, <4>1 DEF OverConflict
      <4> QED
        BY <1>4, <3>3, <4>2
    <3> QED
      BY <3>1, <3>2, <3>3
  <2> QED
    BY <1>1, <2>3 DEF Telling
<1> QED
  BY <1>2, <1>3, <1>6, <1>7 DEF ApplyOne

(* Nothing but a commit moves a row while a transaction is open. *)
LEMMA NextTelling ==
    ASSUME IInv, PInv, Holding, Delivered, Telling, [NextPush]_allVars
    PROVE  Telling'
<1>0. TypeOK /\ HandlerOK /\ TxAlone
  BY DEF IInv, PInv
<1>1. CASE UNCHANGED allVars
  BY <1>1, TellingStill DEF allVars, storeVars, pushVars
<1>2. ASSUME NEW w \in Writer, Handle(w)
      PROVE  Telling'
  <2>1. ASSUME NEW b \in Batch, Receive(w, b)
        PROVE  Telling'
    <3>1. /\ UNCHANGED <<record, tx>> /\ handler[w].phase = "idle"
          /\ handler' = [handler EXCEPT ![w] = [Idle(b) EXCEPT !.phase = "lookup"]]
          /\ base' \in IF sent[b] = 0 THEN {[base EXCEPT ![b] = r] : r \in 0..revision}
                       ELSE {base}
      BY <2>1 DEF Receive, storeVars
    <3>2. ASSUME NEW v \in Writer, tx[v].open
          PROVE  handler'[v] = handler[v] /\ base'[handler[v].batch] = base[handler[v].batch]
      <4>1. handler[v].phase = "apply"
        BY <3>2 DEF Holding
      <4>2. sent[handler[v].batch] > 0 /\ handler[v].batch \in Batch
        BY <1>0, <4>1 DEF Delivered, HandlerOK
      <4>3. handler'[v] = handler[v]
        BY <1>0, <3>1, <4>1 DEF HandlerOK
      <4>4. base'[handler[v].batch] = base[handler[v].batch]
        BY <3>1, <4>2 DEF Delivered
      <4> QED
        BY <4>3, <4>4
    <3> QED
      BY <3>1, <3>2 DEF Telling
  <2>2. CASE Lookup(w) \/ Save(w)
    <3>1. UNCHANGED <<base, record, tx>> /\ Quiet
      BY <2>2 DEF Lookup, Save, storeVars
    <3> QED
      BY <3>1, TellingStill DEF Quiet
  <2>3. CASE StartBatch(w)
    <3>1. /\ UNCHANGED <<base, record>> /\ Quiet
          /\ tx' = [tx EXCEPT ![w] = [open |-> TRUE, revision |-> revision, rows |-> NoRows]]
      BY <2>3 DEF StartBatch, Begin
    <3>2. \A k \in Key : ~(tx'[w].rows[k].revision > 0)
      BY <1>0, <3>1, AbsentRow DEF TypeOK, NoRows
    <3>3. \A v \in Writer \ {w} : ~tx'[v].open
      BY <1>0, <3>1 DEF TypeOK, Quiet
    <3> QED
      BY <3>2, <3>3 DEF Telling
  <2>4. CASE ApplyNext(w)
    BY <2>4, ApplyNextTells
  <2>5. CASE Finish(w)
    <3>1. tx[w].open /\ tx' = [tx EXCEPT ![w] = Closed]
      BY <2>5 DEF Finish, Commit
    <3>2. \A v \in Writer : ~tx'[v].open
      BY <1>0, <3>1, ClosedTx DEF TypeOK, TxAlone
    <3> QED
      BY <3>2 DEF Telling
  <2>6. CASE FailBatch(w)
    <3>1. UNCHANGED <<base, record>>
      BY <2>6 DEF FailBatch, Rollback, storeVars
    <3>2. \A v \in Writer \ {w} : tx'[v] = tx[v] /\ handler'[v] = handler[v]
      BY <1>0, <2>6 DEF FailBatch, Rollback, storeVars, TypeOK, HandlerOK
    <3>3. ~tx'[w].open
      BY <1>0, <2>6, ClosedTx DEF FailBatch, Rollback, storeVars, TypeOK
    <3> QED
      BY <3>1, <3>2, <3>3, TellingStill
  <2> QED
    BY <1>2, <2>1, <2>2, <2>3, <2>4, <2>5, <2>6 DEF Handle
<1>3. CASE Housekeep /\ UNCHANGED pushVars
  <2>1. UNCHANGED <<base, tx, handler>>
    BY <1>3 DEF Housekeep, SweepFind, SweepRaise, SweepDelete, SweepAbandon, pushVars
  <2>2. UNCHANGED record \/ Quiet
    BY <1>3 DEF Housekeep, SweepFind, SweepRaise, SweepDelete, SweepAbandon
  <2> QED
    BY <2>1, <2>2 DEF Telling, Quiet
<1>4. CASE \E b \in Batch : SweepBatches(b)
  BY <1>4, TellingStill DEF SweepBatches, storeVars
<1> QED
  BY <1>1, <1>2, <1>3, <1>4 DEF NextPush

(* OverwritesTold (applyOne's conflict report): a batch that replaces a row *)
(* written since its sender looked says so, for any batches, writers and    *)
(* interleaving of pushes, sweeps and failures.                             *)
THEOREM PushOverwritesTold == SpecPush => OverwritesTold
<1>1. InitPush => Delivered /\ Telling
  <2> SUFFICES ASSUME InitPush PROVE Delivered /\ Telling
    OBVIOUS
  <2>1. \A w \in Writer : handler[w].phase = "idle" /\ ~tx[w].open
    BY ClosedTx DEF InitPush, InitStore, Idle
  <2> QED
    BY <2>1 DEF InitPush, Delivered, Telling
<1>2. ASSUME IInv, PInv, Holding, Delivered, Telling, PInv', [NextPush]_allVars
      PROVE  Delivered' /\ Telling'
  BY <1>2, NextDelivered, NextTelling DEF IInv
<1>3. ASSUME IInv, PInv, Holding, Telling, NextPush,
             NEW w \in Writer, NEW k \in Key,
             handler[w].phase = "apply", handler'[w].phase = "done",
             record'[k] # record[k], base[handler[w].batch] # 0,
             record[k].revision > base[handler[w].batch]
      PROVE  k \in handler[w].told
  <2>0. HandlerOK
    BY <1>3 DEF PInv
  <2>1. ASSUME NEW v \in Writer, Handle(v), v # w
        PROVE  FALSE
    <3>1. handler'[w] = handler[w]
      BY <2>0, <2>1 DEF Handle, Receive, Lookup, StartBatch, ApplyNext, Finish, Save, FailBatch,
                        HandlerOK
    <3> QED
      BY <1>3, <3>1
  <2>2. ASSUME Handle(w), ~Finish(w)
        PROVE  FALSE
    <3>1. handler'[w].phase # "done"
      BY <1>3, <2>0, <2>2 DEF Handle, Receive, Lookup, StartBatch, ApplyNext, Save, FailBatch,
                              HandlerOK, Idle
    <3> QED
      BY <1>3, <3>1
  <2>3. Finish(w)
    BY <1>3, <2>1, <2>2 DEF NextPush, pushVars, SweepBatches
  <2>4. Commit(w) /\ tx[w].open
    BY <2>3 DEF Finish, Commit
  <2>5. tx[w].rows[k].revision > 0
    <3>1. /\ record'[k] = tx[w].rows[k]
          /\ record'[k].revision \in revision+1 .. revision'
          /\ revision \in Nat
      BY <1>3, <2>4, CommitRows DEF IInv, TypeOK
    <3> QED
      BY <3>1
  <2> QED
    BY <1>3, <2>4, <2>5 DEF Telling
<1>4. IInv /\ PInv /\ Holding /\ Telling /\ [NextPush]_allVars
          => [\A w \in Writer, k \in Key :
                LET b == handler[w].batch
                IN  /\ applied'[b] > applied[b]
                    /\ handler[w].phase = "apply" /\ handler'[w].phase = "done"
                    /\ record'[k] # record[k]
                    /\ base[b] # 0
                    /\ record[k].revision > base[b]
                    => k \in handler[w].told]_allVars
  BY <1>3
<1> QED
  BY <1>1, <1>2, <1>4, PushInvariant, PTL DEF SpecPush, OverwritesTold

-----------------------------------------------------------------------------
(* CursorCovers for any number of browsers, writers, records and builds,   *)
(* whatever the sweep does between the two reads of a pull and wherever a  *)
(* browser is closed.                                                      *)

(* A copy of k is not newer than the account, and the same when as new. *)
Sound(row, k) ==
    /\ row.revision <= revision
    /\ Present(k) => row.revision <= record[k].revision
    /\ Present(k) /\ row.revision = record[k].revision => row = record[k]

CoversUpTo(f, K, c) ==
    \A k \in K : Present(k) /\ record[k].revision <= c => Mirrors(f, k)

Positions(f) == /\ cursor[f] <= revision
                /\ run[f].at <= revision
                /\ run[f].phase = "idle" => run[f].at = 0

KnownSound(f) == \A k \in Key : Sound(known[f][k], k)

(* Why a recovery may drop what it has not seen. *)
SeenAll(f) ==
    run[f].recovering =>
        \A k \in declared[f] : Present(k) /\ record[k].revision <= run[f].at
                                  => k \in run[f].seen

(* Only a cursor kept for this build's collections is ever resumed from. *)
SameBuild(f) ==
    run[f].phase # "idle" /\ (~run[f].resync \/ run[f].recovering)
        => cursorFor[f] = declared[f]

PageSound(f) ==
    run[f].phase = "paged" =>
        /\ run[f].at <= run[f].next
        /\ run[f].next <= revision
        /\ \A k \in Key : run[f].got[k].revision > 0 =>
              /\ run[f].at < run[f].got[k].revision
              /\ run[f].got[k].revision <= run[f].next
              /\ Sound(run[f].got[k], k)
              /\ Present(k) /\ record[k].revision <= cursor[f]
                    => run[f].got[k] = record[k]
        /\ \A k \in declared[f] :
              Present(k) /\ run[f].at < record[k].revision
                         /\ record[k].revision <= run[f].next
                 => run[f].got[k] = record[k]
        /\ ~run[f].more => \A k \in declared[f] :
              Present(k) /\ record[k].revision <= cursor[f]
                 => record[k].revision <= run[f].next

(* After the last page the run stands at or above the stored cursor, as far *)
(* as any record can tell.                                                  *)
AtEnd(f) ==
    \/ run[f].phase = "applied" /\ ~run[f].more
    \/ run[f].phase \in {"drop", "dropped"}

EndSound(f) ==
    /\ AtEnd(f) => \A k \in declared[f] :
          Present(k) /\ record[k].revision <= cursor[f] => record[k].revision <= run[f].at
    /\ run[f].phase \in {"drop", "dropped"} => run[f].recovering

RInv(f) == /\ Positions(f)
           /\ KnownSound(f)
           /\ CoversUpTo(f, cursorFor[f], cursor[f])
           /\ CoversUpTo(f, declared[f], run[f].at)
           /\ SeenAll(f)
           /\ SameBuild(f)
           /\ PageSound(f)
           /\ EndSound(f)

FInv == IInv /\ FeedTypeOK /\ \A f \in Reader : RInv(f)

-----------------------------------------------------------------------------
LEMMA NoRunType ==
    /\ NoRun \in Run
    /\ NoRun.phase = "idle" /\ NoRun.at = 0
    /\ ~NoRun.recovering
  BY AbsentRow DEF NoRun, Run, Phase, NoRows

LEMMA AbsentCopy == Absent \in Copy
  BY AbsentRow DEF Copy, Absent

LEMMA InitFInv == Init => FInv
  <1> SUFFICES ASSUME Init PROVE FInv
    OBVIOUS
  <1>1. IInv
    BY InitIInv DEF Init
  <1>2. FeedTypeOK
    BY <1>1, NoRunType, AbsentCopy, FeedAssumption DEF FeedTypeOK, Init, IInv, NoRows
  <1>3. ASSUME NEW f \in Reader PROVE RInv(f)
    <2>1. /\ revision = 0
          /\ record = [k \in Key |-> Absent]
          /\ cursor[f] = 0
          /\ known[f] = [k \in Key |-> Absent]
          /\ run[f] = NoRun
      BY DEF Init, InitStore, NoRows
    <2>2. \A k \in Key : ~Present(k)
      BY <2>1, AbsentRow DEF Present
    <2>3. declared[f] \subseteq Key /\ cursorFor[f] \subseteq Key
      BY <1>2, FeedAssumption DEF FeedTypeOK
    <2> QED BY <2>1, <2>2, <2>3, NoRunType, AbsentRow
            DEF RInv, Positions, KnownSound, Sound, CoversUpTo, SeenAll, SameBuild,
                PageSound, EndSound, AtEnd
  <1> QED BY <1>1, <1>2, <1>3 DEF FInv

(* What any step of the store can do to a row, seen from a browser. *)
LEMMA StoreMoves ==
    ASSUME IInv, [NextStore]_storeVars
    PROVE  /\ IInv'
           /\ revision \in Nat /\ revision' \in Nat /\ revision <= revision'
           /\ \A k \in Key : \/ record'[k] = record[k]
                             \/ record'[k] = Absent
                             \/ record'[k].revision > revision
  <1>1. IInv'
    BY NextIInv
  <1>2. revision \in Nat /\ revision' \in Nat
    BY <1>1 DEF IInv, TypeOK
  <1>3. CASE \E w \in Writer : Commit(w)
    BY <1>1, <1>2, <1>3, CommitRows
  <1>4. ASSUME ~\E w \in Writer : Commit(w) PROVE UNCHANGED revision
    BY <1>4 DEF NextStore, Write, Housekeep, storeVars, Begin, ApplyOne,
       Rollback, SweepFind, SweepRaise, SweepDelete, SweepAbandon
  <1>5. CASE ~\E w \in Writer : Commit(w)
    <2>1. UNCHANGED record \/ SweepDelete
      BY <1>5, RowsMove
    <2>2. \A k \in Key : record'[k] = record[k] \/ record'[k] = Absent
      BY <2>1, DeleteRows
    <2> QED BY <1>1, <1>2, <1>4, <1>5, <2>2
  <1> QED BY <1>3, <1>5

LEMMA FeedTypes ==
    ASSUME FeedTypeOK, NEW f \in Reader
    PROVE  /\ declared[f] \subseteq Key /\ cursorFor[f] \subseteq Key
           /\ cursor[f] \in Nat
           /\ known[f] \in [Key -> Copy]
           /\ \A k \in Key : known[f][k] \in Row /\ known[f][k].revision \in Nat
                             /\ ~known[f][k].deleted
           /\ run[f] \in Run
           /\ run[f].at \in Nat /\ run[f].next \in Nat
           /\ \A k \in Key : run[f].got[k] \in Row /\ run[f].got[k].revision \in Nat
           /\ revision \in Nat
           /\ \A k \in Key : record[k] \in Row /\ record[k].revision \in Nat
  BY FeedAssumption DEF FeedTypeOK, TypeOK, Copy, Row, Run

LEMMA StoreKeeps ==
    ASSUME FInv, [NextStore]_storeVars, UNCHANGED readerVars PROVE FInv'
  <1>1. IInv'
    BY StoreMoves DEF FInv
  <1>2. FeedTypeOK'
    BY <1>1 DEF FInv, FeedTypeOK, IInv, readerVars
  <1>3. ASSUME NEW f \in Reader PROVE RInv(f)'
    <2>0. FeedTypeOK /\ RInv(f) /\ IInv
      BY DEF FInv
    <2>1. /\ declared'[f] = declared[f] /\ cursor'[f] = cursor[f]
          /\ cursorFor'[f] = cursorFor[f] /\ known'[f] = known[f] /\ run'[f] = run[f]
      BY DEF readerVars
    <2>2. \A k \in Key : \/ record'[k] = record[k]
                         \/ record'[k].revision = 0
                         \/ record'[k].revision > revision
      BY <2>0, StoreMoves, AbsentRow
    <2>3. revision \in Nat /\ revision' \in Nat /\ revision <= revision'
      BY <2>0, StoreMoves
    <2>4. \A k \in Key : record'[k].revision \in Nat
      BY <1>1 DEF IInv, TypeOK, Row
    <2> HIDE DEF FInv, FeedTypeOK
    <2>5. /\ \A k \in Key : Present(k)' <=> record'[k].revision > 0
          /\ \A k \in Key : Present(k) <=> record[k].revision > 0
      BY DEF Present
    <2>6. ASSUME NEW row \in Row, NEW k \in Key, Sound(row, k) PROVE Sound(row, k)'
      <3>1. row.revision \in Nat
        BY DEF Row
      <3> QED BY <2>2, <2>3, <2>4, <2>5, <2>6, <3>1 DEF Sound
    <2>7. ASSUME NEW k \in Key, NEW c \in Nat, c <= revision,
                 Present(k)', record'[k].revision <= c
          PROVE  record'[k] = record[k] /\ Present(k)
      BY <2>2, <2>3, <2>4, <2>5, <2>7
    <2>8. ASSUME NEW K \in SUBSET Key, NEW c \in Nat, c <= revision,
                 CoversUpTo(f, K, c)
          PROVE  CoversUpTo(f, K, c)'
      BY <2>1, <2>7, <2>8 DEF CoversUpTo, Mirrors
    <2>9. Positions(f)'
      BY <2>0, <2>1, <2>3, FeedTypes DEF RInv, Positions
    <2>10. KnownSound(f)'
      BY <2>0, <2>1, <2>6, FeedTypes DEF RInv, KnownSound
    <2>11. CoversUpTo(f, cursorFor[f], cursor[f])' /\ CoversUpTo(f, declared[f], run[f].at)'
      <3>1. cursor[f] <= revision /\ run[f].at <= revision
        BY <2>0 DEF RInv, Positions
      <3>2. /\ CoversUpTo(f, cursorFor[f], cursor[f])
            /\ CoversUpTo(f, declared[f], run[f].at)
        BY <2>0 DEF RInv
      <3> QED BY <2>0, <2>1, <2>7, <3>1, <3>2, FeedTypes DEF CoversUpTo, Mirrors
    <2>12. SeenAll(f)' /\ SameBuild(f)'
      BY <2>0, <2>1, <2>7, FeedTypes DEF RInv, SeenAll, SameBuild, Positions
    <2>13. PageSound(f)'
      <3> SUFFICES ASSUME run[f].phase = "paged" PROVE PageSound(f)'
        BY <2>1 DEF PageSound
      <3>1. PageSound(f) /\ cursor[f] <= revision
        BY <2>0 DEF RInv, Positions
      <3>2. run[f].at <= run[f].next /\ run[f].next <= revision
        BY <3>1 DEF PageSound
      <3>3. ASSUME NEW k \in Key, run[f].got[k].revision > 0
            PROVE  /\ run[f].at < run[f].got[k].revision
                   /\ run[f].got[k].revision <= run[f].next
                   /\ Sound(run[f].got[k], k)'
                   /\ Present(k)' /\ record'[k].revision <= cursor[f]
                         => run[f].got[k] = record'[k]
        <4>1. /\ run[f].at < run[f].got[k].revision
              /\ run[f].got[k].revision <= run[f].next
              /\ Sound(run[f].got[k], k)
              /\ Present(k) /\ record[k].revision <= cursor[f]
                    => run[f].got[k] = record[k]
          BY <3>1, <3>3 DEF PageSound
        <4>2. cursor[f] \in Nat /\ run[f].got[k] \in Row
          BY <2>0, FeedTypes
        <4>3. Sound(run[f].got[k], k)'
          BY <2>1, <2>6, <4>1, <4>2
        <4>4. Present(k)' /\ record'[k].revision <= cursor[f] => run[f].got[k] = record'[k]
          BY <2>7, <3>1, <4>1, <4>2
        <4> QED BY <4>1, <4>3, <4>4
      <3>4. ASSUME NEW k \in declared[f], Present(k)',
                   run[f].at < record'[k].revision, record'[k].revision <= run[f].next
            PROVE  run[f].got[k] = record'[k]
        BY <2>0, <2>7, <3>1, <3>2, <3>4, FeedTypes DEF PageSound
      <3>5. ASSUME ~run[f].more, NEW k \in declared[f], Present(k)',
                   record'[k].revision <= cursor[f]
            PROVE  record'[k].revision <= run[f].next
        BY <2>0, <2>7, <3>1, <3>5, FeedTypes DEF PageSound
      <3>6. run[f].next <= revision'
        BY <2>0, <2>3, <3>2, FeedTypes
      <3> QED BY <2>1, <3>2, <3>3, <3>4, <3>5, <3>6 DEF PageSound
    <2>14. EndSound(f)'
      BY <2>0, <2>1, <2>7, FeedTypes DEF RInv, EndSound, AtEnd, Positions
    <2> QED BY <2>9, <2>10, <2>11, <2>12, <2>13, <2>14 DEF RInv
  <1> QED BY <1>1, <1>2, <1>3 DEF FInv

-----------------------------------------------------------------------------
(* A step of one browser leaves the account and the other browsers alone.   *)
OnlyReader(f) ==
    /\ UNCHANGED storeVars
    /\ \A g \in Reader \ {f} :
          /\ declared'[g] = declared[g] /\ cursor'[g] = cursor[g]
          /\ cursorFor'[g] = cursorFor[g] /\ known'[g] = known[g] /\ run'[g] = run[g]

LEMMA OthersKeep ==
    ASSUME FInv, NEW f \in Reader, OnlyReader(f), FeedTypeOK', RInv(f)'
    PROVE  FInv'
  <1>1. UNCHANGED <<revision, minCursor, record, tx, sweep>>
    BY DEF OnlyReader, storeVars
  <1>2. IInv'
    BY <1>1 DEF FInv, IInv, TypeOK, TxAlone, TxAhead, TxWrote, Issued,
                RevisionsDistinct, Present, SweepSound
  <1>3. ASSUME NEW g \in Reader \ {f} PROVE RInv(g)'
    <2>1. RInv(g)
      BY DEF FInv
    <2>2. /\ declared'[g] = declared[g] /\ cursor'[g] = cursor[g]
          /\ cursorFor'[g] = cursorFor[g] /\ known'[g] = known[g] /\ run'[g] = run[g]
      BY DEF OnlyReader
    <2> QED BY <1>1, <2>1, <2>2
            DEF RInv, Positions, KnownSound, Sound, CoversUpTo, Mirrors, SeenAll,
                SameBuild, PageSound, EndSound, AtEnd, Present
  <1> QED BY <1>2, <1>3 DEF FInv

(* Steps that move only the run, to a state the invariant allows. *)
LEMMA RunOnly ==
    ASSUME FInv, NEW f \in Reader, NEW r \in Run,
           run' = [run EXCEPT ![f] = r],
           UNCHANGED <<storeVars, declared, cursor, cursorFor, known>>,
           faults' \in 0..MaxFaults
    PROVE  /\ OnlyReader(f)
           /\ FeedTypeOK'
           /\ run'[f] = r
           /\ UNCHANGED <<revision, minCursor, record, tx, sweep>>
  BY DEF FInv, FeedTypeOK, TypeOK, OnlyReader, storeVars

LEMMA StartKeeps ==
    ASSUME FInv, NEW f \in Reader, Start(f) PROVE FInv'
  <1> DEFINE r == [NoRun EXCEPT !.phase = "ask", !.at = ReadCursor(f),
                                !.resync = ReadCursor(f) = 0, !.began = revision]
  <1>1. FeedTypeOK /\ RInv(f)
    BY DEF FInv
  <1>2. ReadCursor(f) \in Nat /\ ReadCursor(f) <= revision
    BY <1>1, FeedTypes DEF ReadCursor, RInv, Positions
  <1>3. r \in Run
    BY <1>1, <1>2, FeedTypes, NoRunType DEF Run, Phase
  <1>4. /\ r.phase = "ask" /\ r.at = ReadCursor(f) /\ ~r.recovering
        /\ r.resync = (ReadCursor(f) = 0)
    BY DEF NoRun
  <1> HIDE DEF r
  <1>5. run' = [run EXCEPT ![f] = r]
    BY DEF Start, r
  <1>6. /\ OnlyReader(f) /\ FeedTypeOK' /\ run'[f] = r
        /\ UNCHANGED <<revision, record, declared, cursor, cursorFor, known>>
    BY <1>3, <1>5, RunOnly DEF Start, FInv, FeedTypeOK
  <1>7. CoversUpTo(f, declared[f], ReadCursor(f))
    <2>1. CASE cursorFor[f] = declared[f]
      BY <1>1, <2>1 DEF ReadCursor, RInv
    <2>2. CASE cursorFor[f] # declared[f]
      BY <1>1, <2>2, FeedTypes DEF ReadCursor, CoversUpTo, Present
    <2> QED BY <2>1, <2>2
  <1>8. RInv(f)'
    <2>1. Positions(f)' /\ KnownSound(f)' /\ CoversUpTo(f, cursorFor[f], cursor[f])'
      BY <1>1, <1>2, <1>4, <1>6
         DEF RInv, Positions, KnownSound, Sound, CoversUpTo, Mirrors, Present
    <2>2. CoversUpTo(f, declared[f], run[f].at)'
      BY <1>4, <1>6, <1>7 DEF CoversUpTo, Mirrors, Present
    <2>3. SameBuild(f)'
      BY <1>4, <1>6 DEF SameBuild, ReadCursor
    <2>4. SeenAll(f)' /\ PageSound(f)' /\ EndSound(f)'
      BY <1>4, <1>6 DEF SeenAll, PageSound, EndSound, AtEnd
    <2> QED BY <2>1, <2>2, <2>3, <2>4 DEF RInv
  <1> QED BY <1>6, <1>8, OthersKeep

(* The same position, no page, not at the end: nothing new is claimed. *)
LEMMA SamePosition ==
    ASSUME FInv, NEW f \in Reader, OnlyReader(f), FeedTypeOK',
           UNCHANGED <<revision, record, declared, cursor, cursorFor, known>>,
           run'[f].at = run[f].at, run'[f].recovering = run[f].recovering,
           run'[f].seen = run[f].seen, run'[f].resync = run[f].resync,
           run[f].phase # "idle",
           run'[f].phase \in {"ask", "checked"}
    PROVE  FInv'
  <1>1. RInv(f)
    BY DEF FInv
  <1>2. RInv(f)'
    BY <1>1 DEF RInv, Positions, KnownSound, Sound, CoversUpTo, Mirrors, SeenAll,
                SameBuild, PageSound, EndSound, AtEnd, Present
  <1> QED BY <1>2, OthersKeep

LEMMA CheckKeeps ==
    ASSUME FInv, NEW f \in Reader, CheckHorizon(f) PROVE FInv'
  <1> DEFINE r == [run[f] EXCEPT !.phase = "checked", !.horizon = minCursor]
  <1>1. run[f] \in Run /\ minCursor \in Nat /\ run \in [Reader -> Run]
    BY DEF FInv, FeedTypeOK, TypeOK
  <1>2. r \in Run /\ r.phase = "checked"
        /\ r.at = run[f].at /\ r.recovering = run[f].recovering
        /\ r.seen = run[f].seen /\ r.resync = run[f].resync
    BY <1>1 DEF Run, Phase
  <1>3. run' = [run EXCEPT ![f] = r]
    BY <1>1 DEF CheckHorizon
  <1> HIDE DEF r
  <1>4. /\ OnlyReader(f) /\ FeedTypeOK' /\ run'[f] = r
        /\ UNCHANGED <<revision, record, declared, cursor, cursorFor, known>>
    BY <1>2, <1>3, RunOnly DEF CheckHorizon, FInv, FeedTypeOK
  <1>5. run[f].phase # "idle"
    BY DEF CheckHorizon
  <1> QED BY <1>2, <1>4, <1>5, SamePosition

LEMMA RefusedKeeps ==
    ASSUME FInv, NEW f \in Reader, Refused(f) PROVE FInv'
  <1> DEFINE r == [run[f] EXCEPT !.recovering = TRUE, !.seen = {},
                                 !.at = 0, !.resync = TRUE]
  <1>1. run[f] \in Run /\ run \in [Reader -> Run] /\ FeedTypeOK /\ RInv(f)
    BY DEF FInv, FeedTypeOK
  <1>2. r \in Run /\ r.phase = "ask" /\ r.at = 0 /\ r.recovering
    BY <1>1 DEF Run, Phase, Refused
  <1>3. run' = [run EXCEPT ![f] = r]
    BY <1>1 DEF Refused, RecoverFrom
  <1> HIDE DEF r
  <1>4. /\ OnlyReader(f) /\ FeedTypeOK' /\ run'[f] = r
        /\ UNCHANGED <<revision, record, declared, cursor, cursorFor, known>>
    BY <1>2, <1>3, RunOnly DEF Refused, FInv, FeedTypeOK
  <1>5. cursorFor[f] = declared[f]
    BY <1>1 DEF Refused, TooOld, RInv, SameBuild
  <1>6. \A k \in declared[f] : ~(Present(k) /\ record[k].revision <= 0)
    BY <1>1, FeedTypes DEF Present
  <1>7. RInv(f)'
    BY <1>1, <1>2, <1>4, <1>5, <1>6, FeedTypes
       DEF RInv, Positions, KnownSound, Sound, CoversUpTo, Mirrors, SeenAll,
           SameBuild, PageSound, EndSound, AtEnd, Present
  <1> QED BY <1>4, <1>7, OthersKeep

(* A page holds every record between its start and its cursor. *)
LEMMA PageComplete ==
    ASSUME FInv, NEW f \in Reader, NEW P \in SUBSET Key,
           NEW n \in Revisions(P, run[f].at),
           FirstOf(P, Above(f)), LastOf(P, run[f].at, n)
    PROVE  /\ n \in Nat /\ run[f].at <= n /\ n <= revision
           /\ P \subseteq declared[f]
           /\ \A k \in P : run[f].at < record[k].revision /\ record[k].revision <= n
           /\ \A k \in declared[f] : run[f].at < record[k].revision
                                     /\ record[k].revision <= n => k \in P
           /\ Cardinality(P) # PageSize =>
                 \A k \in declared[f] : run[f].at < record[k].revision => k \in P
  <1>1. FeedTypeOK /\ IInv /\ RInv(f)
    BY DEF FInv
  <1>2. P \subseteq Above(f)
    BY DEF FirstOf
  <1>3. n \in Nat /\ run[f].at <= n /\ n <= revision
    BY <1>1, <1>2, FeedTypes DEF Revisions, LastOf, RInv, Positions, IInv, Issued
  <1>4. \A k \in P : run[f].at < record[k].revision /\ record[k].revision <= n
    BY <1>1, <1>2, FeedTypes DEF Above, LastOf, Revisions
  <1>5. ASSUME NEW k \in declared[f], run[f].at < record[k].revision,
               record[k].revision <= n
        PROVE  k \in P
    <2>1. k \in Above(f) /\ n # run[f].at
      BY <1>1, <1>3, <1>5, FeedTypes DEF Above
    <2>2. PICK j \in P : n = record[j].revision
      BY <2>1 DEF Revisions
    <2> QED BY <1>1, <1>5, <2>1, <2>2, FeedTypes DEF FirstOf
  <1>6. ASSUME Cardinality(P) # PageSize, NEW k \in declared[f],
               run[f].at < record[k].revision
        PROVE  k \in P
    BY <1>1, <1>6, FeedTypes DEF FirstOf, Above
  <1> QED BY <1>2, <1>3, <1>4, <1>5, <1>6 DEF Above

LEMMA ReadPageKeeps ==
    ASSUME FInv, NEW f \in Reader, ReadPage(f) PROVE FInv'
  <1>1. run[f] \in Run /\ run \in [Reader -> Run] /\ FeedTypeOK /\ RInv(f) /\ IInv
    BY DEF FInv, FeedTypeOK
  <1>a. PICK P \in SUBSET Key : \E n \in Revisions(P, run[f].at) :
          /\ FirstOf(P, Above(f))
          /\ LastOf(P, run[f].at, n)
          /\ run' = [run EXCEPT ![f].phase = "paged",
                                ![f].got = [k \in Key |->
                                    IF k \in P THEN record[k] ELSE Absent],
                                ![f].next = n,
                                ![f].more = (Cardinality(P) = PageSize)]
    BY DEF ReadPage
  <1>2. PICK n \in Revisions(P, run[f].at) :
          /\ FirstOf(P, Above(f))
          /\ LastOf(P, run[f].at, n)
          /\ run' = [run EXCEPT ![f].phase = "paged",
                                ![f].got = [k \in Key |->
                                    IF k \in P THEN record[k] ELSE Absent],
                                ![f].next = n,
                                ![f].more = (Cardinality(P) = PageSize)]
    BY <1>a
  <1>4. PICK page \in [Key -> Row] :
            page = [k \in Key |-> IF k \in P THEN record[k] ELSE Absent]
    BY <1>1, FeedTypes, AbsentRow
  <1> DEFINE r == [run[f] EXCEPT !.phase = "paged", !.got = page, !.next = n,
                                 !.more = (Cardinality(P) = PageSize)]
  <1>3. /\ n \in Nat /\ run[f].at <= n /\ n <= revision
        /\ P \subseteq declared[f]
        /\ \A k \in P : run[f].at < record[k].revision /\ record[k].revision <= n
        /\ \A k \in declared[f] : run[f].at < record[k].revision
                                  /\ record[k].revision <= n => k \in P
        /\ Cardinality(P) # PageSize =>
              \A k \in declared[f] : run[f].at < record[k].revision => k \in P
    BY <1>2, PageComplete
  <1>5. /\ r \in Run /\ r.phase = "paged" /\ r.at = run[f].at /\ r.got = page
        /\ r.next = n /\ r.more = (Cardinality(P) = PageSize)
        /\ r.recovering = run[f].recovering /\ r.seen = run[f].seen
        /\ r.resync = run[f].resync
    BY <1>1, <1>3, <1>4 DEF Run, Phase
  <1>6. run' = [run EXCEPT ![f] = r]
    BY <1>1, <1>2, <1>4
  <1>7. \A k \in Key : /\ k \in P => page[k] = record[k]
                       /\ k \notin P => page[k].revision = 0
    BY <1>4, AbsentRow
  <1> HIDE DEF r
  <1>8. /\ OnlyReader(f) /\ FeedTypeOK' /\ run'[f] = r
        /\ UNCHANGED <<revision, record, declared, cursor, cursorFor, known>>
    BY <1>5, <1>6, RunOnly DEF ReadPage, FInv, FeedTypeOK
  <1>9. PageSound(f)'
    <2>1. ASSUME NEW k \in Key, page[k].revision > 0
          PROVE  /\ run[f].at < page[k].revision
                 /\ page[k].revision <= n
                 /\ Sound(page[k], k)'
                 /\ page[k] = record[k]
      <3>1. k \in P /\ page[k] = record[k]
        BY <1>7, <2>1
      <3>2. record[k].revision <= revision
        BY <1>1 DEF IInv, Issued
      <3>3. record[k].revision <= revision' /\ page[k] = record'[k]
        BY <1>8, <3>1, <3>2
      <3>4. page[k].revision = record'[k].revision /\ page[k].revision \in Nat
        BY <1>1, <3>1, <3>3, FeedTypes
      <3>5. Sound(page[k], k)'
        BY <3>1, <3>3, <3>4 DEF Sound
      <3> QED BY <1>3, <3>1, <3>5
    <2>2. ASSUME NEW k \in declared[f], run[f].at < record[k].revision,
                 record[k].revision <= n
          PROVE  page[k] = record[k]
      BY <1>1, <1>3, <1>7, <2>2, FeedTypes
    <2>3. ASSUME ~r.more, NEW k \in declared[f], record[k].revision <= cursor[f]
          PROVE  record[k].revision <= n
      <3>1. Cardinality(P) # PageSize
        BY <1>5, <2>3
      <3>2. run[f].at < record[k].revision => record[k].revision <= n
        BY <1>3, <3>1
      <3>3. k \in Key
        BY <1>1, FeedTypes
      <3> QED BY <1>1, <1>3, <3>2, <3>3, FeedTypes
    <2>4. run'[f].at = run[f].at /\ run'[f].next = n /\ run'[f].got = page
          /\ run'[f].more = r.more
      BY <1>5, <1>8
    <2>5. n <= revision' /\ declared'[f] = declared[f] /\ cursor'[f] = cursor[f]
      BY <1>3, <1>8
    <2> QED BY <1>3, <1>8, <2>1, <2>2, <2>3, <2>4, <2>5 DEF PageSound, Present
  <1>10. RInv(f)'
    <2>0. run[f].phase # "idle"
      BY DEF ReadPage
    <2> QED BY <1>1, <1>5, <1>8, <1>9, <2>0
       DEF RInv, Positions, KnownSound, Sound, CoversUpTo, Mirrors, SeenAll,
           SameBuild, EndSound, AtEnd, Present
  <1> QED BY <1>8, <1>10, OthersKeep

(* Applying a page moves the browser up to the page's cursor. *)
LEMMA AppliedRow ==
    ASSUME NEW k \in Key, NEW old \in Copy, NEW new \in Row, record[k] \in Row,
           revision \in Nat,
           Sound(old, k), new.revision > 0 => Sound(new, k)
    PROVE  /\ Applied(old, new) \in Copy
           /\ Sound(Applied(old, new), k)
           /\ new = record[k] /\ new.revision > 0 =>
                 Applied(old, new) = IF record[k].deleted THEN Absent ELSE record[k]
           /\ new.revision = 0 => Applied(old, new) = old
           /\ Present(k) /\ old = record[k] => Applied(old, new) = old
  <1>1. /\ old.revision \in Nat /\ new.revision \in Nat /\ record[k].revision \in Nat
        /\ ~old.deleted /\ old \in Row
    BY DEF Copy, Row
  <1>2. CASE new.revision = 0 \/ old.revision >= new.revision
    <2>1. Applied(old, new) = old
      BY <1>2 DEF Applied
    <2>2. ASSUME new = record[k], new.revision > 0
          PROVE  old = IF record[k].deleted THEN Absent ELSE record[k]
      BY <1>1, <1>2, <2>2 DEF Sound, Present
    <2> QED BY <2>1, <2>2
  <1>3. CASE ~(new.revision = 0 \/ old.revision >= new.revision)
    <2>1. Applied(old, new) = IF new.deleted THEN Absent ELSE new
      BY <1>3 DEF Applied
    <2>2. new.revision > 0 /\ Sound(new, k) /\ ~(old.revision >= new.revision)
      BY <1>1, <1>3
    <2>3. Applied(old, new) \in Copy
      BY <2>1, AbsentCopy DEF Copy
    <2>4. Sound(Absent, k)
      BY <1>1, AbsentRow DEF Sound, Present
    <2>5. Sound(Applied(old, new), k)
      BY <2>1, <2>2, <2>4
    <2>6. ~(Present(k) /\ old = record[k])
      BY <1>1, <2>2 DEF Sound, Present
    <2> QED BY <1>3, <2>1, <2>3, <2>5, <2>6
  <1> QED BY <1>2, <1>3

LEMMA ApplyKeeps ==
    ASSUME FInv, NEW f \in Reader, ApplyPulled(f) PROVE FInv'
  <1>1. /\ run[f] \in Run /\ run \in [Reader -> Run] /\ FeedTypeOK /\ RInv(f) /\ IInv
        /\ run[f].phase = "paged"
    BY DEF FInv, FeedTypeOK, ApplyPulled
  <1>2. /\ known[f] \in [Key -> Copy] /\ revision \in Nat
        /\ \A k \in Key : record[k] \in Row /\ record[k].revision \in Nat
        /\ \A k \in Key : run[f].got[k] \in Row /\ run[f].got[k].revision \in Nat
        /\ declared[f] \subseteq Key /\ cursorFor[f] \subseteq Key
        /\ run[f].at \in Nat /\ run[f].next \in Nat /\ cursor[f] \in Nat
    BY <1>1, FeedTypes
  <1> DEFINE s == IF run[f].recovering
                  THEN run[f].seen \cup {k \in Key : run[f].got[k].revision > 0}
                  ELSE run[f].seen
             r == [run[f] EXCEPT !.phase = "applied", !.at = run[f].next, !.seen = s]
  <1>3. /\ r \in Run /\ r.phase = "applied" /\ r.at = run[f].next /\ r.seen = s
        /\ r.recovering = run[f].recovering /\ r.resync = run[f].resync
        /\ r.more = run[f].more
    BY <1>1, <1>2 DEF Run, Phase
  <1>4. run' = [run EXCEPT ![f] = r]
    BY <1>1 DEF ApplyPulled
  <1> HIDE DEF r
  <1>5. /\ known' = [known EXCEPT ![f] =
                        [k \in Key |-> Applied(known[f][k], run[f].got[k])]]
        /\ UNCHANGED <<revision, minCursor, record, tx, sweep,
                       declared, cursor, cursorFor, faults>>
        /\ UNCHANGED storeVars
    BY DEF ApplyPulled, storeVars
  <1>6. PageSound(f) /\ KnownSound(f)
    BY <1>1 DEF RInv
  <1>7. \A k \in Key : Sound(known[f][k], k)
                       /\ (run[f].got[k].revision > 0 => Sound(run[f].got[k], k))
    BY <1>1, <1>6 DEF PageSound, KnownSound
  <1>8. \A k \in Key : Applied(known[f][k], run[f].got[k]) \in Copy
    BY <1>2, <1>7, AppliedRow
  <1>9. /\ FeedTypeOK' /\ OnlyReader(f) /\ run'[f] = r
        /\ \A k \in Key : known'[f][k] = Applied(known[f][k], run[f].got[k])
    BY <1>1, <1>3, <1>4, <1>5, <1>8 DEF FeedTypeOK, TypeOK, OnlyReader
  <1>10. KnownSound(f)'
    <2> SUFFICES ASSUME NEW k \in Key PROVE Sound(known[f][k], k)'
      BY DEF KnownSound
    <2>1. Sound(known'[f][k], k)
      BY <1>2, <1>7, <1>9, AppliedRow
    <2> QED BY <1>5, <2>1 DEF Sound, Present
  <1>11. ASSUME NEW k \in Key, Present(k), Mirrors(f, k),
                run[f].got[k].revision > 0 => run[f].got[k] = record[k]
         PROVE  Mirrors(f, k)'
    <2>1. Mirrors(f, k) <=> known[f][k] = IF record[k].deleted THEN Absent ELSE record[k]
      BY DEF Mirrors
    <2>2. known'[f][k] = IF record[k].deleted THEN Absent ELSE record[k]
      BY <1>2, <1>7, <1>9, <1>11, <2>1, AppliedRow
    <2> QED BY <1>5, <2>2 DEF Mirrors
  <1>12. ASSUME NEW k \in declared[f], Present(k), record[k].revision <= run[f].next
         PROVE  Mirrors(f, k)' /\ (run[f].recovering => k \in s)
    <2>1. CASE record[k].revision <= run[f].at
      <3>1. Mirrors(f, k) /\ (run[f].recovering => k \in run[f].seen)
        BY <1>1, <1>12, <2>1 DEF RInv, CoversUpTo, SeenAll
      <3>2. run[f].got[k].revision = 0
        BY <1>1, <1>2, <1>6, <1>12, <2>1 DEF PageSound, Sound
      <3> QED BY <1>2, <1>11, <1>12, <3>1, <3>2
    <2>2. CASE run[f].at < record[k].revision
      <3>1. run[f].got[k] = record[k] /\ record[k].revision > 0 /\ k \in Key
        BY <1>1, <1>2, <1>6, <1>12, <2>2 DEF PageSound, Present
      <3>2. known'[f][k] = IF record[k].deleted THEN Absent ELSE record[k]
        BY <1>2, <1>7, <1>9, <3>1, AppliedRow
      <3>3. Mirrors(f, k)'
        BY <1>5, <3>2 DEF Mirrors
      <3> QED BY <3>1, <3>3
    <2> QED BY <1>2, <2>1, <2>2
  <1>13. CoversUpTo(f, cursorFor[f], cursor[f])'
    <2> SUFFICES ASSUME NEW k \in cursorFor[f], Present(k), record[k].revision <= cursor[f]
                 PROVE  Mirrors(f, k)'
      BY <1>5 DEF CoversUpTo, Present
    <2>1. Mirrors(f, k) /\ k \in Key
      BY <1>1, <1>2 DEF RInv, CoversUpTo
    <2>2. run[f].got[k].revision > 0 => run[f].got[k] = record[k]
      BY <1>1, <1>6, <2>1 DEF PageSound
    <2> QED BY <1>11, <2>1, <2>2
  <1>14. CoversUpTo(f, declared[f], run[f].at)' /\ SeenAll(f)'
    BY <1>3, <1>5, <1>9, <1>12 DEF CoversUpTo, SeenAll, Present
  <1>15. Positions(f)' /\ SameBuild(f)' /\ PageSound(f)'
    BY <1>1, <1>3, <1>5, <1>6, <1>9 DEF RInv, Positions, SameBuild, PageSound
  <1>16. EndSound(f)'
    BY <1>1, <1>3, <1>5, <1>6, <1>9 DEF EndSound, AtEnd, PageSound, Present
  <1>17. RInv(f)'
    BY <1>10, <1>13, <1>14, <1>15, <1>16 DEF RInv
  <1> QED BY <1>9, <1>17, OthersKeep

LEMMA RunEnds ==
    ASSUME FInv, NEW f \in Reader, OnlyReader(f), FeedTypeOK',
           UNCHANGED <<revision, record>>, known'[f] = known[f],
           run'[f] = NoRun, cursor'[f] <= revision,
           CoversUpTo(f, cursorFor[f], cursor[f])'
    PROVE  FInv'
  <1>1. RInv(f) /\ FeedTypeOK
    BY DEF FInv
  <1>2. CoversUpTo(f, declared[f], run[f].at)'
    <2>1. declared'[f] \subseteq Key
      BY FeedAssumption DEF FeedTypeOK
    <2>2. run'[f].at = 0
      BY NoRunType
    <2>3. \A k \in Key : ~(record'[k].revision > 0 /\ record'[k].revision <= 0)
      BY <1>1, FeedTypes
    <2> QED BY <2>1, <2>2, <2>3 DEF CoversUpTo, Present
  <1>3. RInv(f)'
    BY <1>1, <1>2, NoRunType, FeedTypes
       DEF RInv, Positions, KnownSound, Sound, SeenAll, SameBuild, PageSound,
           EndSound, AtEnd, Present
  <1> QED BY <1>3, OthersKeep

LEMMA PageDoneKeeps ==
    ASSUME FInv, NEW f \in Reader, PageDone(f) PROVE FInv'
  <1>1. /\ run[f] \in Run /\ run \in [Reader -> Run] /\ FeedTypeOK /\ RInv(f) /\ IInv
        /\ run[f].phase = "applied"
    BY DEF FInv, FeedTypeOK, PageDone
  <1>2. /\ UNCHANGED <<revision, minCursor, record, tx, sweep, declared, known, faults>>
        /\ UNCHANGED storeVars
    BY DEF PageDone, storeVars
  <1>3. /\ OnlyReader(f)
        /\ cursor' \in [Reader -> Nat] /\ cursorFor' \in [Reader -> Builds]
        /\ \/ run[f].recovering /\ cursor'[f] = cursor[f] /\ cursorFor'[f] = cursorFor[f]
           \/ ~run[f].recovering /\ cursor'[f] = run[f].at /\ cursorFor'[f] = declared[f]
    BY <1>1, <1>2, FeedTypes DEF PageDone, KeepCursor, OnlyReader, FeedTypeOK, After
  <1>4. cursor'[f] <= revision
    BY <1>1, <1>3 DEF RInv, Positions
  <1>5. CoversUpTo(f, cursorFor[f], cursor[f])'
    BY <1>1, <1>2, <1>3 DEF RInv, CoversUpTo, Mirrors, Present
  <1>6. CASE After(f) = "idle"
    <2>1. run' = [run EXCEPT ![f] = NoRun]
      BY <1>6 DEF PageDone
    <2>2. FeedTypeOK' /\ run'[f] = NoRun
      BY <1>1, <1>2, <1>3, <2>1, NoRunType DEF FeedTypeOK, TypeOK
    <2> QED BY <1>2, <1>3, <1>4, <1>5, <2>2, RunEnds
  <1>7. CASE After(f) # "idle"
    <2> DEFINE r == [run[f] EXCEPT !.phase = After(f), !.got = NoRows,
                                   !.next = 0, !.more = FALSE]
    <2>1. /\ After(f) \in {"ask", "drop"}
          /\ After(f) = "drop" => ~run[f].more /\ run[f].recovering
      BY <1>7 DEF After
    <2>2. /\ r \in Run /\ r.phase = After(f) /\ r.at = run[f].at
          /\ r.recovering = run[f].recovering /\ r.seen = run[f].seen
          /\ r.resync = run[f].resync
      BY <1>1, <2>1, AbsentRow DEF Run, Phase, NoRows
    <2>3. run' = [run EXCEPT ![f] = r]
      BY <1>1, <1>7 DEF PageDone
    <2> HIDE DEF r
    <2>4. FeedTypeOK' /\ run'[f] = r
      BY <1>1, <1>2, <1>3, <2>2, <2>3 DEF FeedTypeOK, TypeOK
    <2>5. Positions(f)' /\ KnownSound(f)' /\ SeenAll(f)' /\ PageSound(f)'
      BY <1>1, <1>2, <1>4, <2>1, <2>2, <2>4
         DEF RInv, Positions, KnownSound, Sound, SeenAll, PageSound, Present
    <2>6. CoversUpTo(f, declared[f], run[f].at)'
      BY <1>1, <1>2, <2>2, <2>4 DEF RInv, CoversUpTo, Mirrors, Present
    <2>7. SameBuild(f)'
      BY <1>1, <1>2, <1>3, <2>2, <2>4 DEF RInv, SameBuild
    <2>8. EndSound(f)'
      BY <1>1, <1>2, <1>3, <2>1, <2>2, <2>4 DEF RInv, EndSound, AtEnd, Present
    <2>9. RInv(f)'
      BY <1>5, <2>5, <2>6, <2>7, <2>8 DEF RInv
    <2> QED BY <1>3, <2>4, <2>9, OthersKeep
  <1> QED BY <1>6, <1>7

LEMMA DropKeeps ==
    ASSUME FInv, NEW f \in Reader, DropUnseen(f) PROVE FInv'
  <1>1. /\ run[f] \in Run /\ run \in [Reader -> Run] /\ FeedTypeOK /\ RInv(f) /\ IInv
        /\ run[f].phase = "drop" /\ run[f].recovering
    BY DEF FInv, FeedTypeOK, DropUnseen, RInv, EndSound
  <1>2. /\ UNCHANGED <<revision, minCursor, record, tx, sweep,
                       declared, cursor, cursorFor, faults>>
        /\ UNCHANGED storeVars
        /\ known' = [known EXCEPT ![f] =
                    [k \in Key |-> IF k \in run[f].seen THEN known[f][k] ELSE Absent]]
    BY DEF DropUnseen, storeVars, Kept
  <1> DEFINE r == [run[f] EXCEPT !.phase = "dropped"]
  <1>3. /\ r \in Run /\ r.phase = "dropped" /\ r.at = run[f].at
        /\ r.recovering = run[f].recovering /\ r.seen = run[f].seen
        /\ r.resync = run[f].resync
    BY <1>1 DEF Run, Phase
  <1>4. run' = [run EXCEPT ![f] = r]
    BY <1>1 DEF DropUnseen
  <1> HIDE DEF r
  <1>5. /\ FeedTypeOK' /\ OnlyReader(f) /\ run'[f] = r
        /\ \A k \in Key : /\ k \in run[f].seen => known'[f][k] = known[f][k]
                          /\ k \notin run[f].seen => known'[f][k] = Absent
    BY <1>1, <1>2, <1>3, <1>4, AbsentCopy DEF FeedTypeOK, TypeOK, OnlyReader
  <1>6. KnownSound(f)'
    <2> SUFFICES ASSUME NEW k \in Key PROVE Sound(known[f][k], k)'
      BY DEF KnownSound
    <2>1. Sound(known[f][k], k) /\ revision \in Nat /\ record[k].revision \in Nat
      BY <1>1, FeedTypes DEF RInv, KnownSound
    <2>2. CASE k \in run[f].seen
      BY <1>2, <1>5, <2>1, <2>2 DEF Sound, Present
    <2>3. CASE k \notin run[f].seen
      BY <1>2, <1>5, <2>1, <2>3, AbsentRow DEF Sound, Present
    <2> QED BY <2>2, <2>3
  <1>7. ASSUME NEW k \in declared[f], Present(k),
               record[k].revision <= run[f].at \/ record[k].revision <= cursor[f]
        PROVE  Mirrors(f, k)'
    <2>1. record[k].revision <= run[f].at
      BY <1>1, <1>7 DEF RInv, EndSound, AtEnd
    <2>2. k \in run[f].seen /\ Mirrors(f, k) /\ k \in Key
      BY <1>1, <1>7, <2>1, FeedTypes DEF RInv, SeenAll, CoversUpTo
    <2> QED BY <1>2, <1>5, <2>2 DEF Mirrors
  <1>8. cursorFor[f] = declared[f]
    BY <1>1 DEF RInv, SameBuild
  <1>9. CoversUpTo(f, cursorFor[f], cursor[f])' /\ CoversUpTo(f, declared[f], run[f].at)'
    BY <1>2, <1>3, <1>5, <1>7, <1>8 DEF CoversUpTo, Present
  <1>10. RInv(f)'
    BY <1>1, <1>2, <1>3, <1>5, <1>6, <1>9
       DEF RInv, Positions, SeenAll, SameBuild, PageSound, EndSound, AtEnd, Present
  <1> QED BY <1>5, <1>10, OthersKeep

LEMMA RecoveredKeeps ==
    ASSUME FInv, NEW f \in Reader, Recovered(f) PROVE FInv'
  <1>1. FeedTypeOK /\ RInv(f) /\ run[f].at \in Nat
    BY FeedTypes DEF FInv
  <1>2. /\ UNCHANGED <<revision, minCursor, record, tx, sweep, declared, known, faults>>
        /\ UNCHANGED storeVars
    BY DEF Recovered, storeVars
  <1>3. /\ FeedTypeOK' /\ OnlyReader(f) /\ run'[f] = NoRun
        /\ cursor'[f] = run[f].at /\ cursorFor'[f] = declared[f]
    BY <1>1, <1>2, NoRunType DEF FeedTypeOK, TypeOK, OnlyReader, Recovered
  <1>4. CoversUpTo(f, cursorFor[f], cursor[f])' /\ cursor'[f] <= revision
    BY <1>1, <1>2, <1>3 DEF RInv, Positions, CoversUpTo, Mirrors, Present
  <1> QED BY <1>2, <1>3, <1>4, RunEnds

LEMMA FailKeeps ==
    ASSUME FInv, NEW f \in Reader, Fail(f) PROVE FInv'
  <1>1. FeedTypeOK /\ RInv(f)
    BY DEF FInv
  <1>2. /\ UNCHANGED <<revision, minCursor, record, tx, sweep,
                       declared, cursor, cursorFor, known>>
        /\ UNCHANGED storeVars
        /\ faults' \in 0..MaxFaults
    BY <1>1, FeedAssumption DEF Fail, storeVars, FeedTypeOK
  <1>3. FeedTypeOK' /\ OnlyReader(f) /\ run'[f] = NoRun
    BY <1>1, <1>2, NoRunType DEF FeedTypeOK, TypeOK, OnlyReader, Fail
  <1>4. CoversUpTo(f, cursorFor[f], cursor[f])' /\ cursor'[f] <= revision
    BY <1>1, <1>2 DEF RInv, Positions, CoversUpTo, Mirrors, Present
  <1> QED BY <1>2, <1>3, <1>4, RunEnds

LEMMA UpgradeKeeps ==
    ASSUME FInv, NEW f \in Reader, Upgrade(f) PROVE FInv'
  <1>1. FeedTypeOK /\ RInv(f) /\ run[f].phase = "idle"
    BY DEF FInv, Upgrade
  <1>2. /\ UNCHANGED <<revision, minCursor, record, tx, sweep,
                       cursor, cursorFor, known, run, faults>>
        /\ UNCHANGED storeVars
    BY DEF Upgrade, storeVars
  <1>3. FeedTypeOK' /\ OnlyReader(f)
    BY <1>1, <1>2 DEF FeedTypeOK, TypeOK, OnlyReader, Upgrade
  <1>4. declared'[f] \subseteq Key /\ \A k \in Key : record[k].revision \in Nat
    BY <1>1, <1>3, FeedTypes, FeedAssumption DEF FeedTypeOK
  <1>5. CoversUpTo(f, declared[f], run[f].at)'
    BY <1>1, <1>2, <1>4 DEF RInv, Positions, CoversUpTo, Present
  <1>6. RInv(f)'
    <2>1. CoversUpTo(f, cursorFor[f], cursor[f])'
      BY <1>1, <1>2 DEF RInv, CoversUpTo, Mirrors, Present
    <2>2. Positions(f)' /\ KnownSound(f)'
      BY <1>1, <1>2 DEF RInv, Positions, KnownSound, Sound, Present
    <2>3. SameBuild(f)' /\ PageSound(f)' /\ EndSound(f)'
      BY <1>1, <1>2 DEF SameBuild, PageSound, EndSound, AtEnd
    <2>4. SeenAll(f)'
      BY <1>1, <1>2, <1>4 DEF RInv, Positions, SeenAll, Present
    <2> QED BY <1>5, <2>1, <2>2, <2>3, <2>4 DEF RInv
  <1> QED BY <1>3, <1>6, OthersKeep

LEMMA NextFInv == FInv /\ [Next]_vars => FInv'
  <1> SUFFICES ASSUME FInv, [Next]_vars PROVE FInv'
    OBVIOUS
  <1>1. CASE (\E w \in Writer : Write(w)) /\ UNCHANGED readerVars
    BY <1>1, StoreKeeps DEF NextStore
  <1>2. CASE Sweeping /\ UNCHANGED readerVars
    BY <1>2, StoreKeeps DEF NextStore, Sweeping, SweepOld, RaiseHorizon, Housekeep
  <1>3. CASE \E f \in Reader : Read(f) \/ Fail(f) \/ Upgrade(f)
    BY <1>3, StartKeeps, CheckKeeps, RefusedKeeps, ReadPageKeeps, ApplyKeeps,
       PageDoneKeeps, DropKeeps, RecoveredKeeps, FailKeeps, UpgradeKeeps
       DEF Read, Serve
  <1>4. CASE UNCHANGED vars
    <2>1. UNCHANGED storeVars /\ UNCHANGED readerVars
      BY <1>4 DEF vars, storeVars, readerVars
    <2> QED BY <2>1, StoreKeeps
  <1> QED BY <1>1, <1>2, <1>3, <1>4 DEF Next

(* The inductive invariant of the readers over the store. *)
THEOREM FeedInvariant == Spec => []FInv
  BY InitFInv, NextFInv, PTL DEF Spec

(* A record at or below the cursor a browser has stored, in the collections *)
(* it stored it for, is in the browser as the account has it: no pull,      *)
(* recovery, interruption or upgrade ever steps over one (doc 02 section 3, *)
(* syncOnce and handlePull).                                                *)
THEOREM FeedCursorCovers == Spec => []CursorCovers
  <1>1. FInv => CursorCovers
    BY DEF FInv, RInv, CoversUpTo, CursorCovers
  <1> QED BY <1>1, FeedInvariant, PTL

(* Type correctness, with the browser's rows always live. *)
THEOREM FeedTypeCorrect == Spec => []FeedTypeOK
  <1>1. FInv => FeedTypeOK
    BY DEF FInv
  <1> QED BY <1>1, FeedInvariant, PTL

-----------------------------------------------------------------------------
(* DeletionsReach holds where a pull reads the horizon and the page at one  *)
(* instant, the first page is written with its cursor, and no build reads   *)
(* other collections than another: without any of the three a browser can   *)
(* keep a row for ever.                                                     *)
Narrow == ReadsTogether /\ FirstPageKept /\ \A b, c \in Builds : b = c

(* During a run, a row it took stays on the account, at least as a          *)
(* tombstone the retention still protects.                                  *)
Held(f, k) ==
    Present(k) /\ (record[k].deleted => record[k].revision > run[f].began)

(* What the sweep found is older than the runs in progress. *)
ExpiredOld ==
    \A e \in sweep.expired :
        /\ e[2] <= revision
        /\ \A f \in Reader : run[f].phase # "idle" => e[2] <= run[f].began

Placed(f) ==
    /\ cursorFor[f] = declared[f]
    /\ \A k \in Key : known[f][k].revision > 0 \/ run[f].got[k].revision > 0
                         => k \in declared[f]
    /\ run[f].phase = "idle" => run[f] = NoRun
    /\ run[f].phase # "idle" => run[f].began <= revision
    /\ run[f].recovering => run[f].resync /\ cursor[f] > 0
    /\ run[f].phase # "idle" /\ ~run[f].recovering => cursor[f] <= run[f].at
    /\ run[f].phase # "idle" /\ ~run[f].resync => cursor[f] > 0

(* A browser without a cursor holds nothing, or has just taken it. *)
FirstPage(f) ==
    cursor[f] = 0 => \A k \in Key : known[f][k].revision > 0 =>
        /\ run[f].phase = "applied" /\ ~run[f].recovering
        /\ known[f][k].revision <= run[f].at

(* A row the account has no trace of: the browser is below the horizon, at  *)
(* its stored cursor and where its run stands.                              *)
GhostAtRest(f) ==
    \A k \in Key : known[f][k].revision > 0 /\ ~Present(k) => cursor[f] < minCursor

GhostInRun(f) ==
    ~run[f].resync => \A k \in Key : known[f][k].revision > 0 /\ ~Present(k) =>
        /\ run[f].phase \in {"ask", "checked", "applied"} => run[f].at < minCursor
        /\ run[f].phase = "paged" /\ run[f].got[k].revision = 0 => run[f].next < minCursor

Checked(f) == run[f].phase = "checked" /\ ~run[f].resync => minCursor <= run[f].at

(* A run from nothing has only what it took itself; a recovery will have. *)
FromNothing(f) ==
    /\ run[f].phase # "idle" /\ run[f].resync /\ ~run[f].recovering =>
          \A k \in Key : known[f][k].revision > 0 => Held(f, k)
    /\ run[f].recovering =>
          /\ \A k \in run[f].seen : known[f][k].revision > 0 => Held(f, k)
          /\ run[f].seen # {} => run[f].at > 0
    /\ run[f].phase = "dropped" =>
          \A k \in Key : known[f][k].revision > 0 => k \in run[f].seen

(* A page still stands over what the browser holds when it is applied. *)
PageFresh(f) ==
    run[f].phase = "paged" => \A k \in Key : run[f].got[k].revision > 0 =>
        /\ ~run[f].got[k].deleted => Held(f, k)
        /\ known[f][k].revision <= run[f].got[k].revision
        /\ known[f][k].revision = run[f].got[k].revision => known[f][k] = run[f].got[k]

GInv(f) == /\ Placed(f) /\ FirstPage(f) /\ GhostAtRest(f) /\ GhostInRun(f)
           /\ Checked(f) /\ FromNothing(f) /\ PageFresh(f)

DInv == ExpiredOld /\ \A f \in Reader : GInv(f)

LEMMA NoRunGot == \A k \in Key : NoRun.got[k].revision = 0
  BY AbsentRow DEF NoRun, NoRows

LEMMA InitDInv == Init /\ Narrow => DInv
  <1> SUFFICES ASSUME Init, Narrow PROVE DInv
    OBVIOUS
  <1>1. ExpiredOld
    BY DEF Init, InitStore, NoSweep, ExpiredOld
  <1>2. ASSUME NEW f \in Reader PROVE GInv(f)
    <2>1. /\ cursorFor[f] = declared[f] /\ run[f] = NoRun
          /\ known[f] = [k \in Key |-> Absent]
      BY DEF Init, NoRows
    <2>2. \A k \in Key : known[f][k].revision = 0
      BY <2>1, AbsentRow
    <2> QED BY <2>1, <2>2, NoRunType, NoRunGot
            DEF GInv, Placed, FirstPage, GhostAtRest, GhostInRun, Checked,
                FromNothing, PageFresh
  <1> QED BY <1>1, <1>2 DEF DInv

(* What a step of the store, or none, does to the rows and the horizon. *)
LEMMA HorizonMoves ==
    ASSUME FInv, DInv, Narrow,
           (\E w \in Writer : Write(w)) \/ Sweeping \/ UNCHANGED storeVars,
           UNCHANGED readerVars
    PROVE  /\ revision <= revision' /\ minCursor <= minCursor'
           /\ \A f \in Reader : run[f].phase = "checked" => minCursor' = minCursor
           /\ \A k \in Key :
                 \/ record'[k] = record[k]
                 \/ record'[k].revision > revision
                 \/ /\ record'[k].revision = 0
                    /\ record[k].deleted
                    /\ record[k].revision > 0
                    /\ record[k].revision <= minCursor
                    /\ <<k, record[k].revision>> \in sweep.expired
           /\ ExpiredOld'
  <1>0. IInv /\ TypeOK /\ FeedTypeOK
    BY DEF FInv, IInv
  <1>1. revision \in Nat /\ minCursor \in Nat /\ sweep.horizon \in Nat
    BY <1>0 DEF TypeOK
  <1>2. CASE \E w \in Writer : Commit(w)
    <2>1. PICK w \in Writer : Commit(w)
      BY <1>2
    <2>2. /\ revision' \in Nat /\ revision' >= revision
          /\ \A k \in Key : record'[k] = record[k] \/ record'[k].revision > revision
      BY <1>0, <1>1, <2>1, CommitRows
    <2>3. UNCHANGED <<minCursor, sweep, run>>
      BY <2>1 DEF Commit, readerVars
    <2>4. \A e \in sweep.expired : e[2] \in Nat
      BY <1>0 DEF TypeOK
    <2>5. ExpiredOld'
      BY <1>1, <2>2, <2>3, <2>4 DEF DInv, ExpiredOld
    <2> QED BY <1>1, <2>2, <2>3, <2>5
  <1>3. CASE SweepDelete
    <2>1. UNCHANGED <<revision, minCursor>> /\ sweep' = NoSweep
      BY <1>3 DEF SweepDelete
    <2>2. \A k \in Key : \/ record'[k] = record[k]
                         \/ record'[k] = Absent /\ StillExpired(k)
      BY <1>3 DEF SweepDelete
    <2>3. \A k \in Key : \/ record'[k] = record[k]
                         \/ /\ record'[k].revision = 0
                            /\ record[k].deleted /\ record[k].revision > 0
                            /\ record[k].revision <= minCursor
                            /\ <<k, record[k].revision>> \in sweep.expired
      BY <1>0, <1>3, <2>2, DeleteRows, AbsentRow DEF StillExpired
    <2>4. ExpiredOld'
      BY <2>1 DEF ExpiredOld, NoSweep
    <2> QED BY <1>1, <2>1, <2>3, <2>4
  <1>4. CASE RaiseHorizon
    <2>1. /\ UNCHANGED <<revision, record, run>> /\ sweep'.expired = sweep.expired
          /\ minCursor <= minCursor'
          /\ \A f \in Reader : run[f].phase # "checked"
      BY <1>0, <1>1, <1>4 DEF RaiseHorizon, SweepRaise, TypeOK, Narrow, readerVars
    <2>2. ExpiredOld'
      BY <2>1 DEF DInv, ExpiredOld
    <2> QED BY <1>1, <2>1, <2>2
  <1>5. CASE \E S \in SUBSET Key : SweepOld(S)
    <2>1. PICK S \in SUBSET Key : SweepOld(S)
      BY <1>5
    <2>2. /\ UNCHANGED <<revision, minCursor, record, run>>
          /\ sweep'.expired = {<<k, record[k].revision>> : k \in S}
      BY <2>1 DEF SweepOld, SweepFind, readerVars
    <2>3. \A k \in S : /\ record[k].revision <= revision
                       /\ \A f \in Reader : run[f].phase # "idle"
                                               => record[k].revision <= run[f].began
      BY <1>0, <2>1 DEF SweepOld, IInv, Issued
    <2>4. ExpiredOld'
      BY <2>2, <2>3 DEF ExpiredOld
    <2> QED BY <1>1, <2>2, <2>4
  <1>6. CASE SweepAbandon
    <2>1. UNCHANGED <<revision, minCursor, record>> /\ sweep' = NoSweep
      BY <1>6 DEF SweepAbandon
    <2>2. ExpiredOld'
      BY <2>1 DEF ExpiredOld, NoSweep
    <2> QED BY <1>1, <2>1, <2>2
  <1>7. CASE \/ UNCHANGED storeVars
             \/ \E w \in Writer : Begin(w) \/ (\E in \in Incoming : ApplyOne(w, in))
                                  \/ Rollback(w)
    <2>1. UNCHANGED <<revision, minCursor, record, sweep, run>>
      BY <1>7 DEF storeVars, readerVars, Begin, ApplyOne, Rollback
    <2>2. ExpiredOld'
      BY <2>1 DEF DInv, ExpiredOld
    <2> QED BY <1>1, <2>1, <2>2
  <1> QED BY <1>2, <1>3, <1>4, <1>5, <1>6, <1>7 DEF Write, Sweeping

(* A push or the sweep: a row can lose its last trace only below where the  *)
(* browser stands, which the horizon has been raised to.                    *)
LEMMA StoreKeepsGhosts ==
    ASSUME FInv, DInv, Narrow, FeedTypeOK',
           (\E w \in Writer : Write(w)) \/ Sweeping \/ UNCHANGED storeVars,
           UNCHANGED readerVars
    PROVE  DInv'
  <1>0. FeedTypeOK /\ IInv
    BY DEF FInv
  <1>1. /\ revision <= revision' /\ minCursor <= minCursor'
        /\ \A f \in Reader : run[f].phase = "checked" => minCursor' = minCursor
        /\ ExpiredOld'
    BY HorizonMoves
  <1>2. \A k \in Key : \/ record'[k] = record[k]
                       \/ record'[k].revision > revision
                       \/ /\ record'[k].revision = 0
                          /\ record[k].deleted
                          /\ record[k].revision > 0
                          /\ record[k].revision <= minCursor
                          /\ <<k, record[k].revision>> \in sweep.expired
    BY HorizonMoves
  <1>3. /\ revision \in Nat /\ minCursor \in Nat /\ minCursor' \in Nat /\ revision' \in Nat
        /\ \A k \in Key : record'[k].revision \in Nat /\ record[k].revision \in Nat
    BY <1>0 DEF FeedTypeOK, TypeOK, Row
  <1>4. ASSUME NEW f \in Reader PROVE GInv(f)'
    <2>1. RInv(f) /\ GInv(f)
      BY DEF FInv, DInv
    <2>2. /\ declared'[f] = declared[f] /\ cursor'[f] = cursor[f]
          /\ cursorFor'[f] = cursorFor[f] /\ known'[f] = known[f] /\ run'[f] = run[f]
      BY DEF readerVars
    <2>3. /\ cursor[f] \in Nat /\ run[f].at \in Nat /\ run[f].next \in Nat
          /\ run[f].began \in Nat /\ declared[f] \subseteq Key
          /\ \A k \in Key : known[f][k].revision \in Nat
      BY <1>0, FeedTypes DEF FeedTypeOK, Run
    <2>4. Placed(f)'
      BY <1>1, <1>3, <2>1, <2>2, <2>3 DEF GInv, Placed
    <2>5. FirstPage(f)'
      BY <2>1, <2>2 DEF GInv, FirstPage
    (* A row whose last trace goes in this step. *)
    <2>6. ASSUME NEW k \in Key, known[f][k].revision > 0, ~Present(k)', Present(k)
          PROVE  /\ k \in declared[f] /\ k \in cursorFor[f]
                 /\ record[k].revision > 0 /\ record[k].revision <= minCursor
                 /\ ~Mirrors(f, k)
      <3>0. record'[k] # record[k] /\ ~(record'[k].revision > revision)
        BY <1>3, <2>6 DEF Present
      <3>1. record[k].deleted /\ record[k].revision > 0 /\ record[k].revision <= minCursor
        BY <1>2, <3>0
      <3>2. k \in declared[f] /\ k \in cursorFor[f]
        BY <2>1, <2>6 DEF GInv, Placed
      <3>3. ~Mirrors(f, k)
        BY <2>6, <3>1, AbsentRow DEF Mirrors
      <3> QED BY <3>1, <3>2, <3>3
    <2>7. GhostAtRest(f)'
      <3> SUFFICES ASSUME NEW k \in Key, known[f][k].revision > 0, ~Present(k)'
                   PROVE  cursor[f] < minCursor'
        BY <2>2 DEF GhostAtRest
      <3>1. CASE ~Present(k)
        BY <1>1, <1>3, <2>1, <2>3, <3>1 DEF GInv, GhostAtRest
      <3>2. CASE Present(k)
        <4>1. /\ k \in cursorFor[f] /\ record[k].revision <= minCursor /\ ~Mirrors(f, k)
          BY <2>6, <3>2
        <4>2. ~(record[k].revision <= cursor[f])
          BY <2>1, <3>2, <4>1 DEF RInv, CoversUpTo
        <4> QED BY <1>1, <1>3, <2>3, <4>1, <4>2
      <3> QED BY <3>1, <3>2
    <2>8. GhostInRun(f)'
      <3> SUFFICES ASSUME ~run[f].resync, NEW k \in Key,
                          known[f][k].revision > 0, ~Present(k)'
                   PROVE  /\ run[f].phase \in {"ask", "checked", "applied"}
                                => run[f].at < minCursor'
                          /\ run[f].phase = "paged" /\ run[f].got[k].revision = 0
                                => run[f].next < minCursor'
        BY <2>2 DEF GhostInRun
      <3>1. CASE ~Present(k)
        BY <1>1, <1>3, <2>1, <2>3, <3>1 DEF GInv, GhostInRun
      <3>2. CASE Present(k)
        <4>1. /\ k \in declared[f] /\ record[k].revision <= minCursor /\ ~Mirrors(f, k)
              /\ record[k].revision > 0
          BY <2>6, <3>2
        <4>2. run[f].at < record[k].revision
          BY <1>3, <2>1, <2>3, <3>2, <4>1 DEF RInv, CoversUpTo
        <4>3. ASSUME run[f].phase = "paged", run[f].got[k].revision = 0
              PROVE  run[f].next < record[k].revision
          <5>1. record[k].revision <= run[f].next => run[f].got[k] = record[k]
            BY <2>1, <3>2, <4>1, <4>2, <4>3 DEF RInv, PageSound
          <5> QED BY <1>3, <2>3, <4>1, <4>3, <5>1
        <4> QED BY <1>1, <1>3, <2>3, <4>1, <4>2, <4>3
      <3> QED BY <3>1, <3>2
    <2>9. Checked(f)'
      BY <1>1, <2>1, <2>2 DEF GInv, Checked
    <2>10. ASSUME run[f].phase # "idle", NEW k \in Key, Held(f, k) PROVE Held(f, k)'
      <3>1. run[f].began <= revision
        BY <2>1, <2>10 DEF GInv, Placed
      <3>2. CASE record'[k] = record[k]
        BY <2>2, <2>10, <3>2 DEF Held, Present
      <3>3. CASE record'[k].revision > revision
        BY <1>3, <2>2, <2>3, <3>1, <3>3 DEF Held, Present
      <3>4. ASSUME record[k].deleted, <<k, record[k].revision>> \in sweep.expired
            PROVE  FALSE
        <4>1. record[k].revision <= run[f].began
          BY <2>10, <3>4 DEF DInv, ExpiredOld
        <4> QED BY <1>3, <2>3, <2>10, <3>4, <4>1 DEF Held
      <3> QED BY <1>2, <3>2, <3>3, <3>4
    <2>11. FromNothing(f)'
      <3>1. run[f].recovering => run[f].phase # "idle"
        BY <2>1, NoRunType DEF GInv, Placed
      <3>2. run[f].seen \subseteq Key
        BY <1>0 DEF FeedTypeOK, Run
      <3>3. FromNothing(f)
        BY <2>1 DEF GInv
      <3> QED BY <2>2, <2>10, <3>1, <3>2, <3>3 DEF FromNothing
    <2>12. PageFresh(f)'
      BY <2>1, <2>2, <2>10 DEF GInv, PageFresh
    <2> QED BY <2>4, <2>5, <2>7, <2>8, <2>9, <2>11, <2>12 DEF GInv
  <1> QED BY <1>1, <1>4 DEF DInv

-----------------------------------------------------------------------------
(* A step of one browser: the others and the account stay, and its run is   *)
(* over, or the one it was in, or one that starts now.                      *)
LEMMA OthersKeepGhosts ==
    ASSUME DInv, FeedTypeOK, NEW f \in Reader, OnlyReader(f), GInv(f)',
           \/ run'[f].phase = "idle"
           \/ run[f].phase # "idle" /\ run'[f].began = run[f].began
           \/ run'[f].began = revision
    PROVE  DInv'
  <1>1. UNCHANGED <<revision, minCursor, record, tx, sweep>>
    BY DEF OnlyReader, storeVars
  <1>2. ASSUME NEW g \in Reader \ {f} PROVE GInv(g)'
    <2>1. GInv(g)
      BY DEF DInv
    <2>2. /\ declared'[g] = declared[g] /\ cursor'[g] = cursor[g]
          /\ cursorFor'[g] = cursorFor[g] /\ known'[g] = known[g] /\ run'[g] = run[g]
      BY DEF OnlyReader
    <2>3. \A k : Present(k)' <=> Present(k)
      BY <1>1 DEF Present
    <2>4. \A k : Held(g, k)' <=> Held(g, k)
      BY <1>1, <2>2, <2>3 DEF Held
    <2>5. Placed(g)' /\ FirstPage(g)' /\ Checked(g)'
      BY <1>1, <2>1, <2>2 DEF GInv, Placed, FirstPage, Checked
    <2>6. GhostAtRest(g)' /\ GhostInRun(g)'
      BY <1>1, <2>1, <2>2, <2>3 DEF GInv, GhostAtRest, GhostInRun
    <2>7. FromNothing(g)'
      BY <2>1, <2>2, <2>4 DEF GInv, FromNothing
    <2>8. PageFresh(g)'
      BY <2>1, <2>2, <2>4 DEF GInv, PageFresh
    <2> QED BY <2>5, <2>6, <2>7, <2>8 DEF GInv
  <1>3. ExpiredOld'
    <2> SUFFICES ASSUME NEW e \in sweep.expired
                 PROVE  /\ e[2] <= revision
                        /\ \A g \in Reader : run'[g].phase # "idle" => e[2] <= run'[g].began
      BY <1>1 DEF ExpiredOld
    <2>1. /\ e[2] <= revision
          /\ \A g \in Reader : run[g].phase # "idle" => e[2] <= run[g].began
      BY DEF DInv, ExpiredOld
    <2>2. ASSUME NEW g \in Reader, run'[g].phase # "idle" PROVE e[2] <= run'[g].began
      <3>1. CASE g # f
        BY <2>1, <2>2, <3>1 DEF OnlyReader
      <3>2. CASE g = f
        BY <2>1, <2>2, <3>2
      <3> QED BY <3>1, <3>2
    <2> QED BY <2>1, <2>2
  <1> QED BY <1>2, <1>3 DEF DInv

(* What the reader's lemmas start from. *)
LEMMA GhostFacts ==
    ASSUME FInv, DInv, NEW f \in Reader
    PROVE  /\ RInv(f) /\ GInv(f) /\ FeedTypeOK /\ IInv
           /\ run[f] \in Run /\ run \in [Reader -> Run]
           /\ revision \in Nat /\ minCursor \in Nat
           /\ cursor[f] \in Nat /\ run[f].at \in Nat /\ run[f].next \in Nat
           /\ run[f].began \in Nat /\ run[f].seen \subseteq Key
           /\ declared[f] \subseteq Key
           /\ \A k \in Key : known[f][k].revision \in Nat /\ record[k].revision \in Nat
           /\ \A k \in Key : run[f].got[k].revision \in Nat
  <1>1. FeedTypeOK /\ RInv(f) /\ GInv(f) /\ IInv /\ minCursor \in Nat
    BY DEF FInv, DInv, IInv, TypeOK
  <1> QED BY <1>1, FeedTypes DEF FeedTypeOK, Run

(* Outside its first page, a browser without a cursor holds nothing. *)
LEMMA NothingYet ==
    ASSUME FInv, DInv, NEW f \in Reader, cursor[f] = 0, run[f].phase # "applied"
    PROVE  \A k \in Key : ~(known[f][k].revision > 0)
  BY DEF DInv, GInv, FirstPage

LEMMA StartKeepsGhosts ==
    ASSUME FInv, DInv, NEW f \in Reader, Start(f) PROVE DInv'
  <1> DEFINE r == [NoRun EXCEPT !.phase = "ask", !.at = ReadCursor(f),
                                !.resync = ReadCursor(f) = 0, !.began = revision]
  <1>1. /\ RInv(f) /\ GInv(f) /\ FeedTypeOK /\ run \in [Reader -> Run]
        /\ cursor[f] \in Nat /\ revision \in Nat
    BY GhostFacts
  <1>2. run[f].phase = "idle" /\ cursorFor[f] = declared[f]
    BY <1>1 DEF Start, GInv, Placed
  <1>3. ReadCursor(f) = cursor[f]
    BY <1>2 DEF ReadCursor
  <1>4. /\ r.phase = "ask" /\ r.at = cursor[f] /\ ~r.recovering /\ r.seen = {}
        /\ (r.resync <=> cursor[f] = 0) /\ r.began = revision /\ r.got = NoRun.got
    BY <1>3 DEF NoRun
  <1>5. run' = [run EXCEPT ![f] = r]
    BY DEF Start
  <1> HIDE DEF r
  <1>6. /\ OnlyReader(f) /\ run'[f] = r
        /\ UNCHANGED <<revision, minCursor, record, declared, cursor, cursorFor, known>>
    BY <1>1, <1>5 DEF Start, OnlyReader, storeVars
  <1>7. cursor[f] = 0 => \A k \in Key : ~(known[f][k].revision > 0)
    BY <1>2, NothingYet
  <1>8. Placed(f)'
    <2>1. \A k \in Key : run'[f].got[k].revision = 0
      BY <1>4, <1>6, NoRunGot
    <2>2. \A k \in Key : known'[f][k].revision > 0 => k \in declared'[f]
      BY <1>1, <1>6 DEF GInv, Placed
    <2>3. ~run'[f].resync => cursor'[f] > 0
      BY <1>1, <1>4, <1>6
    <2>4. /\ cursorFor'[f] = declared'[f] /\ run'[f].phase # "idle" /\ ~run'[f].recovering
          /\ run'[f].began <= revision' /\ cursor'[f] <= run'[f].at
      BY <1>1, <1>2, <1>4, <1>6
    <2> QED BY <2>1, <2>2, <2>3, <2>4 DEF Placed
  <1>9. FirstPage(f)' /\ FromNothing(f)'
    BY <1>4, <1>6, <1>7 DEF FirstPage, FromNothing
  <1>10. GhostAtRest(f)' /\ GhostInRun(f)'
    BY <1>1, <1>4, <1>6 DEF GInv, GhostAtRest, GhostInRun, Present
  <1>11. Checked(f)' /\ PageFresh(f)'
    BY <1>4, <1>6 DEF Checked, PageFresh
  <1>12. GInv(f)'
    BY <1>8, <1>9, <1>10, <1>11 DEF GInv
  <1>13. run'[f].began = revision
    BY <1>4, <1>6
  <1> QED BY <1>1, <1>6, <1>12, <1>13, OthersKeepGhosts

LEMMA CheckKeepsGhosts ==
    ASSUME FInv, DInv, NEW f \in Reader, CheckHorizon(f) PROVE DInv'
  <1> DEFINE r == [run[f] EXCEPT !.phase = "checked", !.horizon = minCursor]
  <1>1. /\ RInv(f) /\ GInv(f) /\ FeedTypeOK /\ run \in [Reader -> Run] /\ run[f] \in Run
        /\ cursor[f] \in Nat /\ run[f].at \in Nat /\ minCursor \in Nat
    BY GhostFacts
  <1>2. run[f].phase = "ask" /\ ~TooOld(f)
    BY DEF CheckHorizon
  <1>3. /\ r.phase = "checked" /\ r.at = run[f].at /\ r.recovering = run[f].recovering
        /\ r.seen = run[f].seen /\ r.resync = run[f].resync /\ r.began = run[f].began
        /\ r.got = run[f].got
    BY <1>1 DEF Run
  <1>4. run' = [run EXCEPT ![f] = r]
    BY <1>1 DEF CheckHorizon
  <1> HIDE DEF r
  <1>5. /\ OnlyReader(f) /\ run'[f] = r
        /\ UNCHANGED <<revision, minCursor, record, declared, cursor, cursorFor, known>>
    BY <1>1, <1>4 DEF CheckHorizon, OnlyReader, storeVars
  <1>6. cursor[f] = 0 => \A k \in Key : ~(known[f][k].revision > 0)
    BY <1>2, NothingYet
  <1>7. Placed(f)'
    BY <1>1, <1>2, <1>3, <1>5 DEF GInv, Placed
  <1>8. FirstPage(f)'
    BY <1>5, <1>6 DEF FirstPage
  <1>9. GhostAtRest(f)' /\ GhostInRun(f)'
    BY <1>1, <1>2, <1>3, <1>5 DEF GInv, GhostAtRest, GhostInRun, Present
  <1>10. Checked(f)'
    <2>1. ~run[f].resync => 0 < run[f].at
      BY <1>1, <1>2 DEF GInv, Placed
    <2> QED BY <1>1, <1>2, <1>3, <1>5, <2>1 DEF Checked, TooOld
  <1>11. FromNothing(f)' /\ PageFresh(f)'
    BY <1>1, <1>2, <1>3, <1>5 DEF GInv, FromNothing, PageFresh, Held, Present
  <1>12. GInv(f)'
    BY <1>7, <1>8, <1>9, <1>10, <1>11 DEF GInv
  <1>13. run[f].phase # "idle" /\ run'[f].began = run[f].began
    BY <1>2, <1>3, <1>5
  <1> QED BY <1>1, <1>5, <1>12, <1>13, OthersKeepGhosts

LEMMA RefusedKeepsGhosts ==
    ASSUME FInv, DInv, NEW f \in Reader, Refused(f) PROVE DInv'
  <1> DEFINE r == [run[f] EXCEPT !.recovering = TRUE, !.seen = {},
                                 !.at = 0, !.resync = TRUE]
  <1>1. /\ RInv(f) /\ GInv(f) /\ FeedTypeOK /\ run \in [Reader -> Run] /\ run[f] \in Run
        /\ cursor[f] \in Nat
    BY GhostFacts
  <1>2. run[f].phase = "ask" /\ ~run[f].resync
    BY DEF Refused, TooOld
  <1>3. cursor[f] > 0
    BY <1>1, <1>2 DEF GInv, Placed
  <1>4. /\ r.phase = "ask" /\ r.recovering /\ r.seen = {} /\ r.resync
        /\ r.began = run[f].began /\ r.got = run[f].got
    BY <1>1, <1>2 DEF Run
  <1>5. run' = [run EXCEPT ![f] = r]
    BY <1>1 DEF Refused, RecoverFrom
  <1> HIDE DEF r
  <1>6. /\ OnlyReader(f) /\ run'[f] = r
        /\ UNCHANGED <<revision, minCursor, record, declared, cursor, cursorFor, known>>
    BY <1>1, <1>5 DEF Refused, OnlyReader, storeVars
  <1>7. Placed(f)'
    BY <1>1, <1>2, <1>3, <1>4, <1>6 DEF GInv, Placed
  <1>8. FirstPage(f)' /\ FromNothing(f)' /\ GhostInRun(f)'
    BY <1>1, <1>3, <1>4, <1>6 DEF FirstPage, FromNothing, GhostInRun
  <1>9. GhostAtRest(f)'
    BY <1>1, <1>6 DEF GInv, GhostAtRest, Present
  <1>10. Checked(f)' /\ PageFresh(f)'
    BY <1>4, <1>6 DEF Checked, PageFresh
  <1>11. GInv(f)'
    BY <1>7, <1>8, <1>9, <1>10 DEF GInv
  <1>12. run[f].phase # "idle" /\ run'[f].began = run[f].began
    BY <1>2, <1>4, <1>6
  <1> QED BY <1>1, <1>6, <1>11, <1>12, OthersKeepGhosts

(* The page is read at a horizon that was let through, so a browser that    *)
(* holds a lost row never gets here: this is what ReadsTogether buys.       *)
LEMMA ReadPageKeepsGhosts ==
    ASSUME FInv, DInv, NEW f \in Reader, ReadPage(f) PROVE DInv'
  <1>1. /\ RInv(f) /\ GInv(f) /\ FeedTypeOK /\ IInv /\ run \in [Reader -> Run] /\ run[f] \in Run
        /\ cursor[f] \in Nat /\ run[f].at \in Nat /\ minCursor \in Nat
        /\ \A k \in Key : known[f][k].revision \in Nat /\ record[k].revision \in Nat
        /\ declared[f] \subseteq Key
    BY GhostFacts
  <1>a. PICK P \in SUBSET Key : \E n \in Revisions(P, run[f].at) :
          /\ FirstOf(P, Above(f))
          /\ run' = [run EXCEPT ![f].phase = "paged",
                                ![f].got = [k \in Key |->
                                    IF k \in P THEN record[k] ELSE Absent],
                                ![f].next = n,
                                ![f].more = (Cardinality(P) = PageSize)]
    BY DEF ReadPage
  <1>2. PICK n \in Revisions(P, run[f].at) :
          /\ FirstOf(P, Above(f))
          /\ run' = [run EXCEPT ![f].phase = "paged",
                                ![f].got = [k \in Key |->
                                    IF k \in P THEN record[k] ELSE Absent],
                                ![f].next = n,
                                ![f].more = (Cardinality(P) = PageSize)]
    BY <1>a
  <1>3. run[f].phase = "checked"
    BY DEF ReadPage
  <1>4. PICK page \in [Key -> Row] :
            page = [k \in Key |-> IF k \in P THEN record[k] ELSE Absent]
    BY <1>1, FeedTypes, AbsentRow
  <1> DEFINE r == [run[f] EXCEPT !.phase = "paged", !.got = page, !.next = n,
                                 !.more = (Cardinality(P) = PageSize)]
  <1>5. /\ r.phase = "paged" /\ r.at = run[f].at /\ r.got = page
        /\ r.recovering = run[f].recovering /\ r.seen = run[f].seen
        /\ r.resync = run[f].resync /\ r.began = run[f].began
    BY <1>1 DEF Run
  <1>6. run' = [run EXCEPT ![f] = r]
    BY <1>1, <1>2, <1>4
  <1> HIDE DEF r
  <1>7. /\ OnlyReader(f) /\ run'[f] = r
        /\ UNCHANGED <<revision, minCursor, record, declared, cursor, cursorFor, known>>
    BY <1>1, <1>6 DEF ReadPage, OnlyReader, storeVars
  <1>8. \A k \in Key : page[k].revision > 0 => k \in declared[f] /\ page[k] = record[k]
    <2>1. P \subseteq declared[f]
      BY <1>2 DEF FirstOf, Above
    <2>2. \A k \in Key : page[k] = IF k \in P THEN record[k] ELSE Absent
      BY <1>4
    <2> QED BY <2>1, <2>2, AbsentRow
  <1>9. cursor[f] = 0 => \A k \in Key : ~(known[f][k].revision > 0)
    BY <1>3, NothingYet
  <1>10. Placed(f)'
    BY <1>1, <1>3, <1>5, <1>7, <1>8 DEF GInv, Placed
  <1>11. FirstPage(f)' /\ GhostAtRest(f)' /\ Checked(f)'
    BY <1>1, <1>5, <1>7, <1>9 DEF GInv, FirstPage, GhostAtRest, Checked, Present
  <1>12. GhostInRun(f)'
    <2>1. ~run[f].resync => \A k \in Key : known[f][k].revision > 0 => Present(k)
      BY <1>1, <1>3 DEF GInv, GhostInRun, Checked
    <2> QED BY <1>5, <1>7, <2>1 DEF GhostInRun, Present
  <1>13. FromNothing(f)'
    BY <1>1, <1>3, <1>5, <1>7 DEF GInv, FromNothing, Held, Present
  <1>14. PageFresh(f)'
    <2> SUFFICES ASSUME NEW k \in Key, page[k].revision > 0
                 PROVE  /\ ~page[k].deleted => Held(f, k)'
                        /\ known[f][k].revision <= page[k].revision
                        /\ known[f][k].revision = page[k].revision => known[f][k] = page[k]
      BY <1>5, <1>7 DEF PageFresh
    <2>1. page[k] = record[k] /\ Present(k)
      BY <1>8 DEF Present
    <2>2. Sound(known[f][k], k)
      BY <1>1 DEF RInv, KnownSound
    <2>3. ~page[k].deleted => Held(f, k)'
      BY <1>7, <2>1 DEF Held, Present
    <2> QED BY <2>1, <2>2, <2>3 DEF Sound
  <1>15. GInv(f)'
    BY <1>10, <1>11, <1>12, <1>13, <1>14 DEF GInv
  <1>16. run[f].phase # "idle" /\ run'[f].began = run[f].began
    BY <1>3, <1>5, <1>7
  <1> QED BY <1>1, <1>7, <1>15, <1>16, OthersKeepGhosts

(* What a browser holds after a page: what it held where the page has       *)
(* nothing, and the page's own live rows.                                   *)
LEMMA AppliedFresh ==
    ASSUME FInv, DInv, NEW f \in Reader, run[f].phase = "paged", NEW k \in Key,
           Applied(known[f][k], run[f].got[k]).revision > 0
    PROVE  \/ run[f].got[k].revision = 0
              /\ Applied(known[f][k], run[f].got[k]) = known[f][k]
           \/ run[f].got[k].revision > 0 /\ Held(f, k)
              /\ Applied(known[f][k], run[f].got[k]) = run[f].got[k]
  <1>1. /\ GInv(f) /\ known[f][k].revision \in Nat /\ run[f].got[k].revision \in Nat
        /\ ~known[f][k].deleted
    BY GhostFacts, FeedTypes
  <1>2. CASE run[f].got[k].revision = 0
    BY <1>2 DEF Applied
  <1>3. CASE run[f].got[k].revision > 0
    <2>1. /\ ~run[f].got[k].deleted => Held(f, k)
          /\ known[f][k].revision <= run[f].got[k].revision
          /\ known[f][k].revision = run[f].got[k].revision => known[f][k] = run[f].got[k]
      BY <1>1, <1>3 DEF GInv, PageFresh
    <2>2. CASE known[f][k].revision = run[f].got[k].revision
      <3>1. known[f][k] = run[f].got[k]
        BY <2>1, <2>2
      <3>2. Applied(known[f][k], run[f].got[k]) = known[f][k]
        BY <1>1, <2>2 DEF Applied
      <3>3. ~run[f].got[k].deleted
        BY <1>1, <3>1
      <3> QED BY <1>3, <2>1, <3>1, <3>2, <3>3
    <2>3. CASE known[f][k].revision # run[f].got[k].revision
      <3>1. ~(known[f][k].revision >= run[f].got[k].revision) /\ run[f].got[k].revision # 0
        BY <1>1, <1>3, <2>1, <2>3
      <3>2. CASE run[f].got[k].deleted
        <4>1. Applied(known[f][k], run[f].got[k]) = Absent
          BY <3>1, <3>2 DEF Applied
        <4> QED BY <4>1, AbsentRow
      <3>3. CASE ~run[f].got[k].deleted
        <4>1. Applied(known[f][k], run[f].got[k]) = run[f].got[k]
          BY <3>1, <3>3 DEF Applied
        <4> QED BY <1>3, <2>1, <3>3, <4>1
      <3> QED BY <3>2, <3>3
    <2> QED BY <2>2, <2>3
  <1> QED BY <1>1, <1>2, <1>3

LEMMA ApplyKeepsGhosts ==
    ASSUME FInv, DInv, NEW f \in Reader, ApplyPulled(f) PROVE DInv'
  <1>1. /\ RInv(f) /\ GInv(f) /\ FeedTypeOK /\ run \in [Reader -> Run] /\ run[f] \in Run
        /\ cursor[f] \in Nat /\ run[f].at \in Nat /\ run[f].next \in Nat
        /\ minCursor \in Nat /\ revision \in Nat
        /\ \A k \in Key : known[f][k].revision \in Nat /\ run[f].got[k].revision \in Nat
    BY GhostFacts
  <1>2. run[f].phase = "paged"
    BY DEF ApplyPulled
  <1> DEFINE s == IF run[f].recovering
                  THEN run[f].seen \cup {k \in Key : run[f].got[k].revision > 0}
                  ELSE run[f].seen
             r == [run[f] EXCEPT !.phase = "applied", !.at = run[f].next, !.seen = s]
  <1>3. /\ r.phase = "applied" /\ r.at = run[f].next /\ r.seen = s
        /\ r.recovering = run[f].recovering /\ r.resync = run[f].resync
        /\ r.began = run[f].began /\ r.got = run[f].got
    BY <1>1 DEF Run
  <1>4. run' = [run EXCEPT ![f] = r]
    BY <1>1 DEF ApplyPulled
  <1> HIDE DEF r
  <1>5. /\ OnlyReader(f) /\ run'[f] = r
        /\ UNCHANGED <<revision, minCursor, record, declared, cursor, cursorFor>>
        /\ \A k \in Key : known'[f][k] = Applied(known[f][k], run[f].got[k])
    BY <1>1, <1>4 DEF ApplyPulled, OnlyReader, storeVars, FeedTypeOK
  <1>6. ASSUME NEW k \in Key, known'[f][k].revision > 0
        PROVE  \/ run[f].got[k].revision = 0 /\ known'[f][k] = known[f][k]
               \/ run[f].got[k].revision > 0 /\ Held(f, k) /\ known'[f][k] = run[f].got[k]
    BY <1>2, <1>5, <1>6, AppliedFresh
  <1>7. ASSUME NEW k \in Key, Held(f, k) PROVE Held(f, k)' /\ Present(k)
    BY <1>3, <1>5, <1>7 DEF Held, Present
  <1>8. /\ run[f].at <= run[f].next
        /\ \A k \in Key : run[f].got[k].revision > 0 => run[f].got[k].revision <= run[f].next
    BY <1>1, <1>2 DEF RInv, PageSound
  <1>9. Placed(f)'
    <2>1. \A k \in Key : known'[f][k].revision > 0 \/ run'[f].got[k].revision > 0
                            => k \in declared[f]
      BY <1>1, <1>3, <1>5, <1>6 DEF GInv, Placed
    <2> QED BY <1>1, <1>2, <1>3, <1>5, <1>8, <2>1 DEF GInv, Placed
  <1>10. FirstPage(f)'
    <2> SUFFICES ASSUME cursor[f] = 0, NEW k \in Key, known'[f][k].revision > 0
                 PROVE  ~run[f].recovering /\ known'[f][k].revision <= run[f].next
      BY <1>3, <1>5 DEF FirstPage
    <2>1. ~run[f].recovering
      BY <1>1 DEF GInv, Placed
    <2>2. ~(known[f][k].revision > 0)
      BY <1>2, NothingYet
    <2>3. known'[f][k].revision <= run[f].next
      BY <1>6, <1>8, <2>2
    <2> QED BY <2>1, <2>3
  <1>11. GhostAtRest(f)'
    <2> SUFFICES ASSUME NEW k \in Key, known'[f][k].revision > 0, ~Present(k)
                 PROVE  cursor[f] < minCursor
      BY <1>5 DEF GhostAtRest, Present
    <2>1. known[f][k].revision > 0
      BY <1>6, <1>7
    <2> QED BY <1>1, <2>1 DEF GInv, GhostAtRest
  <1>12. GhostInRun(f)'
    <2> SUFFICES ASSUME ~run[f].resync, NEW k \in Key, known'[f][k].revision > 0, ~Present(k)
                 PROVE  run[f].next < minCursor
      BY <1>3, <1>5 DEF GhostInRun, Present
    <2>1. known[f][k].revision > 0 /\ run[f].got[k].revision = 0
      BY <1>6, <1>7
    <2> QED BY <1>1, <1>2, <2>1 DEF GInv, GhostInRun
  <1>13. Checked(f)' /\ PageFresh(f)'
    BY <1>3, <1>5 DEF Checked, PageFresh
  <1>14. FromNothing(f)'
    <2>1. ASSUME run[f].resync, ~run[f].recovering, NEW k \in Key, known'[f][k].revision > 0
          PROVE  Held(f, k)'
      <3>1. CASE run[f].got[k].revision = 0
        <4>1. known[f][k].revision > 0
          BY <1>6, <2>1, <3>1
        <4> QED BY <1>1, <1>2, <1>7, <2>1, <4>1 DEF GInv, FromNothing
      <3>2. CASE run[f].got[k].revision > 0
        BY <1>6, <1>7, <2>1, <3>2
      <3> QED BY <1>1, <3>1, <3>2
    <2>2. ASSUME run[f].recovering, NEW k \in s, known'[f][k].revision > 0
          PROVE  Held(f, k)'
      <3>0. run[f].seen \subseteq Key
        BY GhostFacts
      <3>1. CASE run[f].got[k].revision = 0
        <4>1. k \in run[f].seen /\ k \in Key
          BY <2>2, <3>0, <3>1
        <4>2. known[f][k].revision > 0
          BY <1>6, <2>2, <3>1, <4>1
        <4> QED BY <1>1, <1>7, <2>2, <4>1, <4>2 DEF GInv, FromNothing
      <3>2. CASE run[f].got[k].revision > 0
        BY <1>6, <1>7, <2>2, <3>0, <3>2
      <3> QED BY <1>1, <2>2, <3>0, <3>1, <3>2
    <2>3. ASSUME run[f].recovering, s # {} PROVE run[f].next > 0
      <3>1. CASE run[f].seen # {}
        BY <1>1, <1>8, <2>3, <3>1 DEF GInv, FromNothing
      <3>2. CASE run[f].seen = {}
        <4>1. PICK k \in Key : run[f].got[k].revision > 0
          BY <2>3, <3>2
        <4> QED BY <1>1, <1>8, <4>1
      <3> QED BY <3>1, <3>2
    <2> HIDE DEF s
    <2> QED BY <1>3, <1>5, <2>1, <2>2, <2>3 DEF FromNothing
  <1>15. GInv(f)'
    BY <1>9, <1>10, <1>11, <1>12, <1>13, <1>14 DEF GInv
  <1>16. run[f].phase # "idle" /\ run'[f].began = run[f].began
    BY <1>2, <1>3, <1>5
  <1> QED BY <1>1, <1>5, <1>15, <1>16, OthersKeepGhosts

(* Between runs only the stored cursor matters. *)
LEMMA RestKeepsGhosts ==
    ASSUME FInv, DInv, NEW f \in Reader, OnlyReader(f), run'[f] = NoRun,
           cursorFor'[f] = declared[f], declared'[f] = declared[f], known'[f] = known[f],
           cursor'[f] = 0 => \A k \in Key : ~(known[f][k].revision > 0),
           \A k \in Key : known[f][k].revision > 0 /\ ~Present(k) => cursor'[f] < minCursor
    PROVE  DInv'
  <1>1. GInv(f) /\ FeedTypeOK
    BY GhostFacts
  <1>2. UNCHANGED <<revision, minCursor, record>>
    BY DEF OnlyReader, storeVars
  <1>3. Placed(f)'
    BY <1>1, NoRunType, NoRunGot DEF GInv, Placed
  <1>4. FirstPage(f)' /\ GhostAtRest(f)'
    BY <1>2 DEF FirstPage, GhostAtRest, Present
  <1>5. GhostInRun(f)' /\ Checked(f)' /\ FromNothing(f)' /\ PageFresh(f)'
    BY NoRunType DEF GhostInRun, Checked, FromNothing, PageFresh
  <1>6. GInv(f)'
    BY <1>3, <1>4, <1>5 DEF GInv
  <1> QED BY <1>1, <1>6, NoRunType, OthersKeepGhosts

(* writeCursor: where the run stands has been let through, or was read from *)
(* nothing, so the stored cursor may follow it.                             *)
LEMMA PageDoneKeepsGhosts ==
    ASSUME FInv, DInv, NEW f \in Reader, PageDone(f) PROVE DInv'
  <1>1. /\ RInv(f) /\ GInv(f) /\ FeedTypeOK /\ run \in [Reader -> Run] /\ run[f] \in Run
        /\ cursor[f] \in Nat /\ run[f].at \in Nat /\ minCursor \in Nat
        /\ \A k \in Key : known[f][k].revision \in Nat
    BY GhostFacts
  <1>2. run[f].phase = "applied"
    BY DEF PageDone
  <1>3. /\ OnlyReader(f)
        /\ UNCHANGED <<revision, minCursor, record, declared, known>>
        /\ \/ run[f].recovering /\ cursor'[f] = cursor[f] /\ cursorFor'[f] = cursorFor[f]
           \/ ~run[f].recovering /\ cursor'[f] = run[f].at /\ cursorFor'[f] = declared[f]
    BY <1>1 DEF PageDone, KeepCursor, OnlyReader, storeVars, FeedTypeOK
  <1>4. cursorFor[f] = declared[f]
    BY <1>1 DEF GInv, Placed
  <1>5. ASSUME cursor'[f] = 0, NEW k \in Key PROVE ~(known[f][k].revision > 0)
    <2>1. ~run[f].recovering /\ run[f].at = 0 /\ cursor[f] = 0
      BY <1>1, <1>2, <1>3, <1>5 DEF GInv, Placed
    <2> QED BY <1>1, <2>1 DEF GInv, FirstPage
  <1>6. ASSUME NEW k \in Key, known[f][k].revision > 0, ~Present(k)
        PROVE  cursor'[f] < minCursor
    <2>1. CASE run[f].recovering
      BY <1>1, <1>3, <1>6, <2>1 DEF GInv, GhostAtRest
    <2>2. CASE ~run[f].recovering /\ run[f].resync
      BY <1>1, <1>2, <1>6, <2>2 DEF GInv, FromNothing, Held
    <2>3. CASE ~run[f].recovering /\ ~run[f].resync
      BY <1>1, <1>2, <1>3, <1>6, <2>3 DEF GInv, GhostInRun
    <2> QED BY <2>1, <2>2, <2>3
  <1>7. CASE After(f) = "idle"
    <2>1. run'[f] = NoRun
      BY <1>1, <1>7 DEF PageDone
    <2> QED BY <1>3, <1>4, <1>5, <1>6, <2>1, RestKeepsGhosts
  <1>8. CASE After(f) # "idle"
    <2> DEFINE r == [run[f] EXCEPT !.phase = After(f), !.got = NoRows,
                                   !.next = 0, !.more = FALSE]
    <2>1. After(f) \in {"ask", "drop"}
      BY <1>8 DEF After
    <2>2. /\ r.phase = After(f) /\ r.at = run[f].at /\ r.got = NoRows
          /\ r.recovering = run[f].recovering /\ r.seen = run[f].seen
          /\ r.resync = run[f].resync /\ r.began = run[f].began
      BY <1>1 DEF Run
    <2>3. run'[f] = r
      BY <1>1, <1>8 DEF PageDone
    <2> HIDE DEF r
    <2>4. \A k \in Key : run'[f].got[k].revision = 0
      BY <2>2, <2>3, AbsentRow DEF NoRows
    <2>5. Placed(f)'
      <3>1. \A k \in Key : known[f][k].revision > 0 => k \in declared[f]
        BY <1>1 DEF GInv, Placed
      <3>2. /\ run[f].recovering => cursor'[f] > 0
            /\ ~run[f].recovering => cursor'[f] <= run[f].at
            /\ ~run[f].resync => cursor'[f] > 0
        BY <1>1, <1>2, <1>3 DEF GInv, Placed
      <3> QED BY <1>1, <1>2, <1>3, <1>4, <2>1, <2>2, <2>3, <2>4, <3>1, <3>2 DEF GInv, Placed
    <2>6. FirstPage(f)' /\ GhostAtRest(f)'
      BY <1>3, <1>5, <1>6 DEF FirstPage, GhostAtRest, Present
    <2>7. GhostInRun(f)'
      BY <1>1, <1>2, <1>3, <2>1, <2>2, <2>3 DEF GInv, GhostInRun, Present
    <2>8. Checked(f)' /\ PageFresh(f)'
      BY <2>1, <2>2, <2>3 DEF Checked, PageFresh
    <2>9. FromNothing(f)'
      BY <1>1, <1>2, <1>3, <2>1, <2>2, <2>3 DEF GInv, FromNothing, Held, Present
    <2>10. GInv(f)'
      BY <2>5, <2>6, <2>7, <2>8, <2>9 DEF GInv
    <2>11. run[f].phase # "idle" /\ run'[f].began = run[f].began
      BY <1>2, <2>2, <2>3
    <2> QED BY <1>1, <1>3, <2>10, <2>11, OthersKeepGhosts
  <1> QED BY <1>7, <1>8

(* dropUnseen leaves a recovery with what it took itself. *)
LEMMA DropKeepsGhosts ==
    ASSUME FInv, DInv, NEW f \in Reader, DropUnseen(f) PROVE DInv'
  <1>1. /\ RInv(f) /\ GInv(f) /\ FeedTypeOK /\ run \in [Reader -> Run] /\ run[f] \in Run
        /\ cursor[f] \in Nat
    BY GhostFacts
  <1>2. run[f].phase = "drop" /\ run[f].recovering
    BY <1>1 DEF DropUnseen, RInv, EndSound
  <1>3. run[f].resync /\ cursor[f] > 0
    BY <1>1, <1>2 DEF GInv, Placed
  <1> DEFINE r == [run[f] EXCEPT !.phase = "dropped"]
  <1>4. /\ r.phase = "dropped" /\ r.at = run[f].at /\ r.recovering
        /\ r.seen = run[f].seen /\ r.resync /\ r.began = run[f].began
        /\ r.got = run[f].got
    BY <1>1, <1>2, <1>3 DEF Run
  <1>5. run' = [run EXCEPT ![f] = r]
    BY <1>1 DEF DropUnseen
  <1> HIDE DEF r
  <1>6. /\ OnlyReader(f) /\ run'[f] = r
        /\ UNCHANGED <<revision, minCursor, record, declared, cursor, cursorFor>>
        /\ \A k \in Key : /\ k \in run[f].seen => known'[f][k] = known[f][k]
                          /\ k \notin run[f].seen => known'[f][k] = Absent
    BY <1>1, <1>5 DEF DropUnseen, Kept, OnlyReader, storeVars, FeedTypeOK
  <1>7. \A k \in Key : known'[f][k].revision > 0 =>
            k \in run[f].seen /\ known'[f][k] = known[f][k] /\ known[f][k].revision > 0
    BY <1>6, AbsentRow
  <1>8. Placed(f)'
    <2>1. \A k \in Key : known'[f][k].revision > 0 \/ run'[f].got[k].revision > 0
                            => k \in declared[f]
      BY <1>1, <1>4, <1>6, <1>7 DEF GInv, Placed
    <2> QED BY <1>1, <1>2, <1>3, <1>4, <1>6, <2>1 DEF GInv, Placed
  <1>9. FirstPage(f)' /\ GhostInRun(f)' /\ Checked(f)' /\ PageFresh(f)'
    BY <1>1, <1>3, <1>4, <1>6 DEF FirstPage, GhostInRun, Checked, PageFresh
  <1>10. GhostAtRest(f)'
    BY <1>1, <1>6, <1>7 DEF GInv, GhostAtRest, Present
  <1>11. FromNothing(f)'
    <2>1. \A k \in run[f].seen : known[f][k].revision > 0 => Held(f, k)
      BY <1>1, <1>2 DEF GInv, FromNothing
    <2>2. run[f].seen # {} => run[f].at > 0
      BY <1>1, <1>2 DEF GInv, FromNothing
    <2>3. run[f].seen \subseteq Key
      BY GhostFacts
    <2>4. \A k \in run[f].seen : known'[f][k].revision > 0 => Held(f, k)'
      BY <1>4, <1>6, <1>7, <2>1, <2>3 DEF Held, Present
    <2> QED BY <1>4, <1>6, <1>7, <2>2, <2>4 DEF FromNothing
  <1>12. GInv(f)'
    BY <1>8, <1>9, <1>10, <1>11 DEF GInv
  <1>13. run[f].phase # "idle" /\ run'[f].began = run[f].began
    BY <1>2, <1>4, <1>6
  <1> QED BY <1>1, <1>6, <1>12, <1>13, OthersKeepGhosts

LEMMA RecoveredKeepsGhosts ==
    ASSUME FInv, DInv, NEW f \in Reader, Recovered(f) PROVE DInv'
  <1>1. /\ RInv(f) /\ GInv(f) /\ FeedTypeOK /\ run \in [Reader -> Run]
        /\ run[f].at \in Nat
    BY GhostFacts
  <1>2. run[f].phase = "dropped" /\ run[f].recovering
    BY <1>1 DEF Recovered, RInv, EndSound
  <1>3. /\ OnlyReader(f) /\ run'[f] = NoRun /\ UNCHANGED <<declared, known>>
        /\ cursor'[f] = run[f].at /\ cursorFor'[f] = declared[f]
    BY <1>1 DEF Recovered, OnlyReader, storeVars, FeedTypeOK
  <1>4. \A k \in Key : known[f][k].revision > 0 => Held(f, k) /\ run[f].at > 0
    BY <1>1, <1>2 DEF GInv, FromNothing
  <1>5. cursor'[f] = 0 => \A k \in Key : ~(known[f][k].revision > 0)
    BY <1>3, <1>4
  <1>6. \A k \in Key : known[f][k].revision > 0 /\ ~Present(k) => cursor'[f] < minCursor
    BY <1>4 DEF Held
  <1> QED BY <1>3, <1>5, <1>6, RestKeepsGhosts

(* An interruption leaves what is stored; FirstPageKept rules out the one   *)
(* that would leave rows without a cursor.                                  *)
LEMMA FailKeepsGhosts ==
    ASSUME FInv, DInv, Narrow, NEW f \in Reader, Fail(f) PROVE DInv'
  <1>1. /\ GInv(f) /\ FeedTypeOK /\ run \in [Reader -> Run] /\ cursor[f] \in Nat
    BY GhostFacts
  <1>2. /\ OnlyReader(f) /\ run'[f] = NoRun /\ UNCHANGED <<declared, cursor, cursorFor, known>>
    BY <1>1 DEF Fail, OnlyReader, storeVars
  <1>3. cursorFor[f] = declared[f]
    BY <1>1 DEF GInv, Placed
  <1>4. cursor[f] = 0 => run[f].phase # "applied"
    BY <1>1 DEF Fail, Narrow
  <1>5. cursor'[f] = 0 => \A k \in Key : ~(known[f][k].revision > 0)
    BY <1>2, <1>4, NothingYet
  <1>6. \A k \in Key : known[f][k].revision > 0 /\ ~Present(k) => cursor'[f] < minCursor
    BY <1>1, <1>2 DEF GInv, GhostAtRest
  <1> QED BY <1>2, <1>3, <1>5, <1>6, RestKeepsGhosts

LEMMA NextDInv ==
    ASSUME FInv, DInv, Narrow, [Next]_vars PROVE DInv'
  <1>0. FeedTypeOK /\ FeedTypeOK'
    BY NextFInv DEF FInv
  <1>1. CASE (\E w \in Writer : Write(w)) /\ UNCHANGED readerVars
    BY <1>0, <1>1, StoreKeepsGhosts
  <1>2. CASE Sweeping /\ UNCHANGED readerVars
    BY <1>0, <1>2, StoreKeepsGhosts
  <1>3. ASSUME NEW f \in Reader, Upgrade(f) PROVE FALSE
    BY <1>0, <1>3 DEF Upgrade, Narrow, FeedTypeOK
  <1>4. CASE \E f \in Reader : Read(f) \/ Fail(f) \/ Upgrade(f)
    BY <1>3, <1>4, StartKeepsGhosts, CheckKeepsGhosts, RefusedKeepsGhosts,
       ReadPageKeepsGhosts, ApplyKeepsGhosts, PageDoneKeepsGhosts, DropKeepsGhosts,
       RecoveredKeepsGhosts, FailKeepsGhosts
       DEF Read, Serve
  <1>5. CASE UNCHANGED vars
    <2>1. UNCHANGED storeVars /\ UNCHANGED readerVars
      BY <1>5 DEF vars, storeVars, readerVars
    <2> QED BY <1>0, <2>1, StoreKeepsGhosts
  <1> QED BY <1>1, <1>2, <1>4, <1>5 DEF Next

(* A row the account has lost every trace of is in a browser at rest only   *)
(* if its next pull will be refused, so that the row goes with the recovery *)
(* (handlePull's horizon, dropUnseen): for any number of browsers, records  *)
(* and writers, whatever the sweep does, in the circumstances Narrow names. *)
THEOREM FeedDeletionsReach == Narrow => (Spec => []DeletionsReach)
  <1>1. FInv /\ DInv => DeletionsReach
    <2> SUFFICES ASSUME FInv, DInv, NEW f \in Reader, NEW k \in Key,
                        run[f].phase = "idle", known[f][k].revision > 0, ~Present(k)
                 PROVE  0 < ReadCursor(f) /\ ReadCursor(f) < minCursor
      BY DEF DeletionsReach
    <2>1. GInv(f) /\ cursor[f] \in Nat
      BY GhostFacts
    <2>2. ReadCursor(f) = cursor[f]
      BY <2>1 DEF ReadCursor, GInv, Placed
    <2>3. cursor[f] < minCursor
      BY <2>1 DEF GInv, GhostAtRest
    <2>4. cursor[f] # 0
      BY NothingYet
    <2> QED BY <2>1, <2>2, <2>3, <2>4
  <1>2. ASSUME Narrow PROVE Init => DInv
    BY <1>2, InitDInv
  <1>3. ASSUME Narrow PROVE FInv /\ DInv /\ [Next]_vars => DInv'
    BY <1>3, NextDInv
  <1>4. ASSUME Narrow PROVE Spec => []DeletionsReach
    BY <1>1, <1>2, <1>3, <1>4, FeedInvariant, PTL DEF Spec
  <1> QED BY <1>4
=============================================================================

---------------------------- MODULE AccountFeed ----------------------------
(***************************************************************************)
(* What the record store promises about one account, as seen by a client   *)
(* that pulls: a set of rows, each stamped with a revision, a counter, and *)
(* the tombstone horizon.  A batch becomes visible in one step, every row  *)
(* it writes lands above everything visible before it, and a row leaves    *)
(* the feed only as a tombstone at or below the horizon.                   *)
(*                                                                         *)
(* server/sync_store.go implements it with a transaction of several        *)
(* statements and a sweep of three: module SyncStore.                      *)
(***************************************************************************)
EXTENDS Integers

CONSTANTS Key,          \* (collection, id) pairs of the account
          AppendOnly,   \* keys of the append-only collection
          Body,         \* bodies the server stores and never reads
          NoBody        \* the body of a tombstone

VARIABLES revision,     \* account.revision, the highest one handed out
          minCursor,    \* account.min_cursor, the tombstone horizon
          record        \* the record table

feed == <<revision, minCursor, record>>

Absent == [revision |-> 0, deleted |-> FALSE, body |-> NoBody]

Present(k) == record[k].revision > 0

Init == /\ revision = 0
        /\ minCursor = 0
        /\ record = [k \in Key |-> Absent]

(* A committed batch. *)
Write ==
    /\ revision' > revision
    /\ UNCHANGED minCursor
    /\ \E K \in SUBSET Key :
          /\ \A k \in Key \ K : record'[k] = record[k]
          /\ \A k \in K : /\ record'[k].revision \in revision+1 .. revision'
                          /\ k \in AppendOnly => ~Present(k)
          /\ \A j, k \in K : record'[j].revision = record'[k].revision => j = k

(* The horizon moves up, and never past what has been handed out. *)
Raise ==
    /\ minCursor' > minCursor
    /\ minCursor' <= revision
    /\ UNCHANGED <<revision, record>>

(* Expired tombstones go, once the horizon covers them. *)
Forget ==
    /\ UNCHANGED <<revision, minCursor>>
    /\ \A k \in Key : \/ record'[k] = record[k]
                      \/ /\ record'[k] = Absent
                         /\ record[k].deleted
                         /\ record[k].revision <= minCursor

Next == Write \/ Raise \/ Forget

Spec == Init /\ [][Next]_feed
=============================================================================

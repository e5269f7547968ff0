------------------------------ MODULE Ratings ------------------------------
(***************************************************************************)
(* The community averages (server/ratings.go): the index of accepted       *)
(* ratings, the per-subject summary moved by difference inside the push    *)
(* that stores the rating, and the cache of served summaries, which many   *)
(* requests fill and empty while pushes and account deletions commit.      *)
(*                                                                         *)
(* An open transaction holds the only database connection, so no other     *)
(* statement runs until it ends; the cache has a lock of its own and is    *)
(* reached at any time.                                                    *)
(***************************************************************************)
EXTENDS Integers, FiniteSets, Functions

CONSTANTS Account,
          Subject,       \* keys that can be rated
          View,          \* bare modular sets: served, never rated
          Feeds,         \* [Subject -> View \cup {NoView}]: "modular:M@S" feeds "modular:M"
          NoView,
          Score,         \* the scores given, within 0..5
          None,          \* no live rating, no account
          Threshold,     \* -rating-threshold
          MaxCached,     \* maxCachedSummaries
          MaxGeneration, \* bound on the pushes of one server lifetime, for TLC
          Handler,       \* requests that write: pushes and account deletions
          Reader         \* requests for summaries

(* Accounts are the rows of a table; a subject is a key of bounded length    *)
(* (handleRatingSummary).                                                    *)
ASSUME RatingsAssumption == /\ IsFiniteSet(Account)
                            /\ IsFiniteSet(Subject) /\ IsFiniteSet(View)
                            /\ Feeds \in [Subject -> View \cup {NoView}]
                            /\ NoView \notin View
                            /\ Score \subseteq 0..5
                            /\ None \notin Score
                            /\ MaxCached \in Nat \ {0}
                            /\ Threshold \in Nat

VARIABLES db,            \* the committed tables
          work,          \* the tables as the open transaction has them
          handler,       \* per writing request, where it is
          reader,        \* per summary request, where it is
          cache,         \* summaryCache.entries
          generation     \* summaryCache.generation

vars == <<db, work, handler, reader, cache, generation>>

Asked == Subject \cup View

(* One row of rating_summary. *)
ZeroRow == [count |-> 0, sum |-> 0, h |-> [c \in Score |-> 0]]

(* accounts; the live records of the collection "ratings"; the index; the summary. *)
EmptyTables == [account |-> Account,
                record  |-> [a \in Account |-> [s \in Subject |-> None]],
                rating  |-> [a \in Account |-> [s \in Subject |-> None]],
                summary |-> [s \in Subject |-> ZeroRow]]

(* `touched': the ratings a push has stored or tombstoned and not forgotten. *)
NoRequest == [phase |-> "idle", account |-> None, touched |-> {}]

NotRead == [count |-> -1]

(* `ask': still to be looked up; `missing': not in the cache. *)
NoQuestion == [phase |-> "idle", ask |-> {}, missing |-> {}, readAt |-> 0,
               fresh |-> [q \in Asked |-> NotRead]]

NotHeld == [held |-> FALSE, expired |-> FALSE, summary |-> NotRead]

Init == /\ db = EmptyTables
        /\ work = EmptyTables
        /\ handler = [h \in Handler |-> NoRequest]
        /\ reader = [r \in Reader |-> NoQuestion]
        /\ cache = [q \in Asked |-> NotHeld]
        /\ generation = 0

(* The connection is free. *)
Quiet == \A h \in Handler : handler[h].phase # "applying"

-----------------------------------------------------------------------------
(* The index and the summary *)

Moved(row, score, delta) == [row EXCEPT !.count = @ + delta,
                                        !.sum = @ + delta * score,
                                        !.h[score] = @ + delta]

(* Mutant: what the account had rated before is not taken out first. *)
IndexedOnTop(d, a, s, score) ==
    [d EXCEPT !.rating[a][s] = score,
              !.summary[s] = Moved(@, score, 1)]

(* indexRating: out with what this account rated before, in with the new. *)
Indexed(d, a, s, score) ==
    LET had == d.rating[a][s]
        without == IF had = None THEN d.summary[s] ELSE Moved(d.summary[s], had, -1)
    IN  [d EXCEPT !.rating[a][s] = score,
                  !.summary[s] = Moved(without, score, 1)]

(* unindexRating: nothing for a rating that was never accepted. *)
Unindexed(d, a, s) ==
    IF d.rating[a][s] = None
    THEN d
    ELSE [d EXCEPT !.rating[a][s] = None,
                   !.summary[s] = Moved(@, d.rating[a][s], -1)]

(* unindexAccountRatings: the sums only; the rows go with the account. *)
AccountUnindexed(d, a) ==
    [d EXCEPT !.summary = [s \in Subject |->
        IF d.rating[a][s] = None THEN @[s] ELSE Moved(@[s], d.rating[a][s], -1)]]

(* DELETE FROM account, and the foreign keys of record and rating. *)
Erased(d, a) ==
    [d EXCEPT !.account = @ \ {a},
              !.record[a] = [s \in Subject |-> None],
              !.rating[a] = [s \in Subject |-> None]]

-----------------------------------------------------------------------------
(* A push *)

(* The request was authenticated, but the account may be gone by now. *)
Begin(h, a) ==
    /\ Quiet
    /\ handler[h].phase = "idle"
    /\ generation < MaxGeneration
    /\ handler' = [handler EXCEPT ![h] = [phase |-> "applying", account |-> a, touched |-> {}]]
    /\ UNCHANGED <<db, work, reader, cache, generation>>

(* A step of h's transaction that stores a record; nextRevision fails when   *)
(* there is no account row.                                                  *)
Storing(h, s) ==
    /\ handler[h].phase = "applying"
    /\ handler[h].account \in work.account
    /\ handler' = [handler EXCEPT ![h].touched = @ \cup {s}]
    /\ UNCHANGED <<db, reader, cache, generation>>

(* A rating that validateRating and the day's allowance let through.  One    *)
(* that is rejected or deferred changes nothing and is no step at all.       *)
Rate(h, s, score) ==
    /\ Storing(h, s)
    /\ work' = Indexed([work EXCEPT !.record[handler[h].account][s] = score],
                       handler[h].account, s, score)

(* A tombstone; it is stored whether or not there was a rating. *)
Withdraw(h, s) ==
    /\ Storing(h, s)
    /\ work' = Unindexed([work EXCEPT !.record[handler[h].account][s] = None],
                         handler[h].account, s)

Commit(h) ==
    /\ handler[h].phase = "applying"
    /\ handler[h].account \in work.account
    /\ db' = work
    /\ handler' = [handler EXCEPT ![h].phase = "forgetting"]
    /\ UNCHANGED <<work, reader, cache, generation>>

(* Any statement fails, or the request is cancelled. *)
Rollback(h) ==
    /\ handler[h].phase = "applying"
    /\ work' = db
    /\ handler' = [handler EXCEPT ![h] = NoRequest]
    /\ UNCHANGED <<db, reader, cache, generation>>

(* forget: the subject, and for a pairing the per-set view it feeds. *)
ForgottenWith(s) == {s, Feeds[s]} \cap Asked

Forget(h, s) ==
    /\ handler[h].phase = "forgetting"
    /\ s \in handler[h].touched
    /\ generation' = generation + 1
    /\ cache' = [q \in Asked |-> IF q \in ForgottenWith(s) THEN NotHeld ELSE cache[q]]
    /\ handler' = [handler EXCEPT ![h].touched = @ \ {s}]
    /\ UNCHANGED <<db, work, reader>>

Pushed(h) ==
    /\ handler[h].phase = "forgetting"
    /\ handler[h].touched = {}
    /\ handler' = [handler EXCEPT ![h] = NoRequest]
    /\ UNCHANGED <<db, work, reader, cache, generation>>

-----------------------------------------------------------------------------
(* An account is deleted *)

(* handleDeleteAccount: one transaction from beginning to end; no row       *)
(* deleted means ErrNotFound.  The other deletion, of a registration whose  *)
(* mail did not go out (api.go:465), does not clear the cache; it has no    *)
(* place here, where an account is one that can sign in and so rate.        *)
DeleteAccount(h, a) ==
    /\ Quiet
    /\ handler[h].phase = "idle"
    /\ generation < MaxGeneration
    /\ a \in db.account
    /\ db' = Erased(AccountUnindexed(db, a), a)
    /\ work' = db'
    /\ handler' = [handler EXCEPT ![h] = [phase |-> "clearing", account |-> a, touched |-> {}]]
    /\ UNCHANGED <<reader, cache, generation>>

Clear(h) ==
    /\ handler[h].phase = "clearing"
    /\ cache' = [q \in Asked |-> NotHeld]
    /\ generation' = generation + 1
    /\ handler' = [handler EXCEPT ![h] = NoRequest]
    /\ UNCHANGED <<db, work, reader>>

-----------------------------------------------------------------------------
(* Summaries are asked for *)

(* The rows a question is about: its own, or every pairing of a bare set. *)
RowsOf(q) == IF q \in Subject THEN {q} ELSE {s \in Subject : Feeds[s] = q}

(* summariesOf for one subject: below the threshold only the count; the mean *)
(* in hundredths, rounded.                                                   *)
SummaryOf(d, q) ==
    LET count == SumFunction([s \in RowsOf(q) |-> d.summary[s].count])
        sum == SumFunction([s \in RowsOf(q) |-> d.summary[s].sum])
    IN  IF count >= Threshold /\ count > 0
        THEN [count |-> count,
              mean |-> (200 * sum + count) \div (2 * count),
              histogram |-> [c \in Score |->
                  SumFunction([s \in RowsOf(q) |-> d.summary[s].h[c]])]]
        ELSE [count |-> count]

Ask(r, Q) ==
    /\ reader[r].phase = "idle"
    /\ Q # {}
    /\ reader' = [reader EXCEPT ![r] = [NoQuestion EXCEPT !.phase = "looking", !.ask = Q]]
    /\ UNCHANGED <<db, work, handler, cache, generation>>

(* get: an entry that is held and has not expired answers. *)
Look(r, q) ==
    /\ reader[r].phase = "looking"
    /\ q \in reader[r].ask
    /\ reader' = [reader EXCEPT
                    ![r].ask = @ \ {q},
                    ![r].missing = IF cache[q].held /\ ~cache[q].expired
                                   THEN @ ELSE @ \cup {q}]
    /\ UNCHANGED <<db, work, handler, cache, generation>>

(* Nothing missing: answered from the cache.  Otherwise the generation is    *)
(* noted before the database is read.                                        *)
Looked(r) ==
    /\ reader[r].phase = "looking"
    /\ reader[r].ask = {}
    /\ reader' = [reader EXCEPT ![r] =
                    IF @.missing = {} THEN NoQuestion
                    ELSE [@ EXCEPT !.phase = "reading", !.readAt = generation,
                                   !.ask = reader[r].missing]]
    /\ UNCHANGED <<db, work, handler, cache, generation>>

(* One query, outside any transaction. *)
Read(r, q) ==
    /\ reader[r].phase = "reading"
    /\ q \in reader[r].ask
    /\ Quiet
    /\ reader' = [reader EXCEPT ![r].ask = @ \ {q},
                                ![r].fresh[q] = SummaryOf(db, q)]
    /\ UNCHANGED <<db, work, handler, cache, generation>>

(* A query fails or is cancelled: an error, and nothing is cached. *)
ReadFails(r) ==
    /\ reader[r].phase = "reading"
    /\ reader' = [reader EXCEPT ![r] = NoQuestion]
    /\ UNCHANGED <<db, work, handler, cache, generation>>

Held(c) == {q \in Asked : c[q].held}

Swept(c) == [q \in Asked |-> IF c[q].expired THEN NotHeld ELSE c[q]]

(* put, with the generation unmoved: into a full cache only once a sweep has *)
(* made room.                                                                *)
Stored(c, q, summary) ==
    LET roomy == IF q \notin Held(c) /\ Cardinality(Held(c)) >= MaxCached
                 THEN Swept(c) ELSE c
    IN  IF q \notin Held(c) /\ Cardinality(Held(roomy)) >= MaxCached
        THEN roomy
        ELSE [roomy EXCEPT ![q] = [held |-> TRUE, expired |-> FALSE, summary |-> summary]]

(* Mutant: what was read is cached whatever happened since. *)
UnmovedAssumed(r) == TRUE

(* Nothing was invalidated since the generation was noted. *)
Unmoved(r) == generation = reader[r].readAt

Put(r, q) ==
    /\ reader[r].phase = "reading"
    /\ reader[r].ask = {}
    /\ q \in reader[r].missing
    /\ cache' = IF Unmoved(r) THEN Stored(cache, q, reader[r].fresh[q]) ELSE cache
    /\ reader' = [reader EXCEPT ![r] =
                    IF reader[r].missing = {q} THEN NoQuestion
                    ELSE [reader[r] EXCEPT !.missing = @ \ {q}, !.fresh[q] = NotRead]]
    /\ UNCHANGED <<db, work, handler, generation>>

-----------------------------------------------------------------------------
(* summaryTTL passes for one entry. *)
Expire(q) ==
    /\ cache[q].held /\ ~cache[q].expired
    /\ cache' = [cache EXCEPT ![q].expired = TRUE]
    /\ UNCHANGED <<db, work, handler, reader, generation>>

(* The housekeeping timer. *)
Sweep ==
    /\ cache' = Swept(cache)
    /\ UNCHANGED <<db, work, handler, reader, generation>>

(* The server stops: only what was committed is left. *)
Restart ==
    /\ work' = db
    /\ handler' = [h \in Handler |-> NoRequest]
    /\ reader' = [r \in Reader |-> NoQuestion]
    /\ cache' = [q \in Asked |-> NotHeld]
    /\ generation' = 0
    /\ UNCHANGED db

Write(h) == \/ \E a \in Account : Begin(h, a) \/ DeleteAccount(h, a)
            \/ \E s \in Subject : \/ \E score \in Score : Rate(h, s, score)
                                  \/ Withdraw(h, s)
                                  \/ Forget(h, s)
            \/ Commit(h)
            \/ Rollback(h)
            \/ Pushed(h)
            \/ Clear(h)

Serve(r) == \/ \E Q \in SUBSET Asked : Ask(r, Q)
            \/ \E q \in Asked : Look(r, q) \/ Read(r, q) \/ Put(r, q)
            \/ Looked(r)
            \/ ReadFails(r)

Next == \/ \E h \in Handler : Write(h)
        \/ \E r \in Reader : Serve(r)
        \/ \E q \in Asked : Expire(q)
        \/ Sweep
        \/ Restart

Spec == Init /\ [][Next]_vars

-----------------------------------------------------------------------------
Rows == [account : SUBSET Account,
         record  : [Account -> [Subject -> Score \cup {None}]],
         rating  : [Account -> [Subject -> Score \cup {None}]],
         summary : [Subject -> [count : Nat, sum : Nat, h : [Score -> Nat]]]]

(* Type invariant, which for the summary says that no count, sum or bin ever *)
(* goes below zero, and for the cache that it never holds more than          *)
(* maxCachedSummaries entries.                                               *)
RatingsTypeOK ==
    /\ db \in Rows
    /\ work \in Rows
    /\ generation \in Nat
    /\ Cardinality(Held(cache)) <= MaxCached
    /\ \A q \in Asked : cache[q].held => cache[q].summary # NotRead
    /\ \A r \in Reader : reader[r].ask \cup reader[r].missing \subseteq Asked
    /\ \A h \in Handler : handler[h].touched \subseteq Subject

(* The accounts whose live rating record gives this subject this score. *)
RatedBy(s, c) == {a \in db.account : db.record[a][s] = c}

(* "It never counts a rating that was not stored or a player who no longer   *)
(* exists" (store.go): every committed summary is what a recount of the      *)
(* rating records of the accounts that exist would give, after any sequence  *)
(* of re-ratings, withdrawals, rolled back pushes and deleted accounts.      *)
SummaryMatches ==
    /\ RatingsTypeOK
    /\ \A s \in Subject :
          /\ \A c \in Score : db.summary[s].h[c] = Cardinality(RatedBy(s, c))
          /\ db.summary[s].count = SumFunction([c \in Score |-> Cardinality(RatedBy(s, c))])
          /\ db.summary[s].sum = SumFunction([c \in Score |-> c * Cardinality(RatedBy(s, c))])

(* A committed write that the cache has not been told of yet may have        *)
(* changed this answer.                                                      *)
ToBeForgotten(q) ==
    \E h \in Handler :
        \/ handler[h].phase = "clearing"
        \/ handler[h].phase = "forgetting" /\ \E s \in handler[h].touched : q \in ForgottenWith(s)

(* "A summary served from memory must not outlive the rating that changed    *)
(* it" (sync.go): what a request would be served from the cache is what the  *)
(* database says, except between a commit and its own forget.                *)
CacheFresh ==
    \A q \in Asked : cache[q].held /\ ~ToBeForgotten(q)
                        => cache[q].summary = SummaryOf(db, q)
=============================================================================

--------------------------- MODULE RatingsProofs ---------------------------
(***************************************************************************)
(* The community averages, for any number of accounts, subjects, scores    *)
(* and requests: the summaries are a recount of the live ratings, and the  *)
(* cache never outlives a change it was told of.                           *)
(*                                                                         *)
(* A sum over a finite set moves by what one element moves (SumTheorems);  *)
(* so a row that tallies with the records still tallies after any push,    *)
(* withdrawal or deletion (TablesOK), for the transaction's tables as for  *)
(* the committed ones.  Then the readers: what one of them has read is     *)
(* current or about to be forgotten for as long as the generation it noted *)
(* stands, which is when it may be cached.                                 *)
(***************************************************************************)
EXTENDS Ratings, SumTheorems

-----------------------------------------------------------------------------
(* A summary row against the records it summarises. *)

Scored == Score \cup {None}

Row == [count : Nat, sum : Nat, h : [Score -> Nat]]

Voters(acc, rec, s, c) == {a \in acc : rec[a][s] = c}

Recount(acc, rec, s) == [c \in Score |-> Cardinality(Voters(acc, rec, s, c))]

Tallies(row, K) == /\ row.h = K
                   /\ row.count = SumFunction(K)
                   /\ row.sum = SumFunction([c \in Score |-> c * K[c]])

(* The index says what the records say, and every summary what a recount of *)
(* them would give.                                                         *)
TablesOK(d) ==
    /\ d \in Rows
    /\ \A a \in d.account, s \in Subject : d.rating[a][s] = d.record[a][s]
    /\ \A s \in Subject : Tallies(d.summary[s], Recount(d.account, d.record, s))

LEMMA Finitely ==
  /\ IsFiniteSet(Score) /\ Score \subseteq Nat /\ None \notin Score
  /\ IsFiniteSet(Account)
  /\ IsFiniteSet(Asked)
<1>1. Score \in SUBSET Nat /\ 5 \in Nat /\ \A c \in Score : c <= 5
  BY RatingsAssumption
<1>2. IsFiniteSet(Score)
  BY <1>1, FS_BoundedSetOfNaturals, Zenon
<1>3. IsFiniteSet(Subject \cup View)
  BY RatingsAssumption, FS_Union
<1> QED
  BY <1>1, <1>2, <1>3, RatingsAssumption DEF Asked

LEMMA RecountType ==
  ASSUME NEW acc \in SUBSET Account, NEW rec, NEW s
  PROVE  Recount(acc, rec, s) \in [Score -> Nat]
<1>1. \A c \in Score : IsFiniteSet(Voters(acc, rec, s, c))
  BY Finitely, FS_Subset DEF Voters
<1>2. \A c \in Score : Cardinality(Voters(acc, rec, s, c)) \in Nat
  BY <1>1, FS_CardinalityType
<1> QED
  BY <1>2 DEF Recount

LEMMA ProductsType ==
  ASSUME NEW K \in [Score -> Nat]
  PROVE  [c \in Score |-> c * K[c]] \in [Score -> Nat]
<1>1. ASSUME NEW c \in Score
      PROVE  c * K[c] \in Nat
  <2>1. c \in Nat /\ K[c] \in Nat
    BY Finitely
  <2> QED
    BY <2>1
<1> QED
  BY <1>1

(* A row that tallies has nothing below zero. *)
LEMMA TallyType ==
  ASSUME NEW K \in [Score -> Nat]
  PROVE  /\ SumFunction(K) \in Nat
         /\ SumFunction([c \in Score |-> c * K[c]]) \in Nat
  BY Finitely, ProductsType, SumIsNat

LEMMA MovedIs ==
  ASSUME NEW row \in Row, NEW score \in Score, NEW delta \in Int
  PROVE  /\ Moved(row, score, delta).count = row.count + delta
         /\ Moved(row, score, delta).sum = row.sum + delta * score
         /\ Moved(row, score, delta).h = [row.h EXCEPT ![score] = @ + delta]
         /\ Moved(row, score, delta) \in [count : Int, sum : Int, h : [Score -> Int]]
<1>1. Moved(row, score, delta) =
        [row EXCEPT !.count = row.count + delta, !.sum = row.sum + delta * score,
                    !.h = [row.h EXCEPT ![score] = @ + delta]]
  BY DEF Moved
<1>2. row.count + delta \in Int /\ row.sum + delta * score \in Int
  <2>1. row.count \in Int /\ row.sum \in Int /\ score \in Int
    BY Finitely DEF Row
  <2> QED
    BY <2>1
<1>3. [row.h EXCEPT ![score] = @ + delta] \in [Score -> Int]
  BY DEF Row
<1>4. PICK n \in Int, t \in Int, b \in [Score -> Int] :
        /\ n = row.count + delta /\ t = row.sum + delta * score
        /\ b = [row.h EXCEPT ![score] = @ + delta]
  BY <1>2, <1>3
<1>5. Moved(row, score, delta) = [row EXCEPT !.count = n, !.sum = t, !.h = b]
  BY <1>1, <1>4
<1>6. Moved(row, score, delta) = [count |-> n, sum |-> t, h |-> b]
  BY <1>5 DEF Row
<1> QED
  BY <1>4, <1>6

LEMMA MovedTallies ==
  ASSUME NEW row \in Row, NEW K \in [Score -> Nat], NEW L \in [Score -> Nat],
         Tallies(row, K), NEW score \in Score, NEW delta \in {1, -1},
         L[score] = K[score] + delta, \A c \in Score \ {score} : L[c] = K[c]
  PROVE  /\ Moved(row, score, delta) \in Row
         /\ Tallies(Moved(row, score, delta), L)
<1> DEFINE m == Moved(row, score, delta)
<1> DEFINE KK == [c \in Score |-> c * K[c]]
<1> DEFINE LL == [c \in Score |-> c * L[c]]
<1>1. /\ m.count = row.count + delta /\ m.sum = row.sum + delta * score
      /\ m.h = [row.h EXCEPT ![score] = @ + delta]
      /\ m \in [count : Int, sum : Int, h : [Score -> Int]]
  BY MovedIs
<1>2. m.h = L
  <2>1. row.h = K
    BY DEF Tallies
  <2> QED
    BY <1>1, <2>1
<1>3. m.count = SumFunction(L)
  <2>0. K \in [Score -> Int] /\ L \in [Score -> Int] /\ IsFiniteSet(Score)
    BY Finitely
  <2>1. SumFunction(L) = SumFunction(K) + L[score] - K[score]
    BY <2>0, SumMoves
  <2>2. SumFunction(K) \in Nat /\ K[score] \in Nat
    BY TallyType
  <2>3. row.count = SumFunction(K)
    BY DEF Tallies
  <2> QED
    BY <1>1, <2>1, <2>2, <2>3
<1>4. m.sum = SumFunction(LL)
  <2>1. KK \in [Score -> Nat] /\ LL \in [Score -> Nat]
    BY ProductsType
  <2>2. \A c \in Score \ {score} : LL[c] = KK[c]
    OBVIOUS
  <2>3. LL[score] = score * L[score] /\ KK[score] = score * K[score]
    OBVIOUS
  <2>4. row.sum = SumFunction(KK)
    BY DEF Tallies
  <2>5. SumFunction(KK) \in Nat
    BY TallyType
  <2> HIDE DEF KK, LL
  <2>6. KK \in [Score -> Int] /\ LL \in [Score -> Int]
    BY <2>1
  <2>7. SumFunction(LL) = SumFunction(KK) + LL[score] - KK[score]
    <3>1. IsFiniteSet(Score)
      BY Finitely
    <3> QED
      BY <2>2, <2>6, <3>1, SumMoves
  <2>8. score \in Nat /\ K[score] \in Nat
    BY Finitely
  <2>9. score * L[score] = score * K[score] + delta * score
    BY <2>8
  <2>10. LL[score] \in Int /\ KK[score] \in Int /\ delta * score \in Int
    BY <2>6, <2>8
  <2> QED
    BY <1>1, <2>3, <2>4, <2>5, <2>7, <2>9, <2>10
<1>5. m.count \in Nat /\ m.sum \in Nat
  BY <1>3, <1>4, TallyType
<1> HIDE DEF m
<1>6. m \in Row
  BY <1>1, <1>2, <1>5 DEF Row
<1>7. Tallies(m, L)
  BY <1>2, <1>3, <1>4 DEF Tallies
<1> QED
  BY <1>6, <1>7 DEF m

(* The counts L are the counts K without one voter of that score. *)
OneFewer(K, L, score) == \A c \in Score : L[c] = IF score = c THEN K[c] - 1 ELSE K[c]

LEMMA OneLess ==
  ASSUME NEW acc \in SUBSET Account, NEW a \in acc,
         NEW rec \in [Account -> [Subject -> Scored]], NEW s \in Subject
  PROVE  OneFewer(Recount(acc, rec, s), Recount(acc \ {a}, rec, s), rec[a][s])
<1> USE DEF OneFewer
<1> TAKE c \in Score
<1>1. Voters(acc \ {a}, rec, s, c) = Voters(acc, rec, s, c) \ {a}
  BY DEF Voters
<1>2. IsFiniteSet(Voters(acc, rec, s, c))
  BY Finitely, FS_Subset DEF Voters
<1>3. a \in Voters(acc, rec, s, c) <=> rec[a][s] = c
  BY DEF Voters
<1>4. Cardinality(Voters(acc, rec, s, c) \ {a}) =
        IF a \in Voters(acc, rec, s, c) THEN Cardinality(Voters(acc, rec, s, c)) - 1
        ELSE Cardinality(Voters(acc, rec, s, c))
  BY <1>2, FS_RemoveElement
<1> QED
  BY <1>1, <1>3, <1>4 DEF Recount

LEMMA SameVoters ==
  ASSUME NEW acc, NEW rec, NEW other, NEW s, \A b \in acc : other[b][s] = rec[b][s]
  PROVE  Recount(acc, other, s) = Recount(acc, rec, s)
<1>1. \A c \in Score : Voters(acc, other, s, c) = Voters(acc, rec, s, c)
  BY DEF Voters
<1> QED
  BY <1>1 DEF Recount

(* What indexRating and unindexRating start with: the account's own rating  *)
(* is taken out of the row.                                                 *)
WithoutOwn(d, a, s) ==
    IF d.rating[a][s] = None THEN d.summary[s] ELSE Moved(d.summary[s], d.rating[a][s], -1)

LEMMA OwnTakenOut ==
  ASSUME NEW d, TablesOK(d), NEW a \in d.account, NEW s \in Subject
  PROVE  /\ WithoutOwn(d, a, s) \in Row
         /\ Tallies(WithoutOwn(d, a, s), Recount(d.account \ {a}, d.record, s))
<1> DEFINE K == Recount(d.account, d.record, s)
<1> DEFINE L == Recount(d.account \ {a}, d.record, s)
<1>1. /\ d.account \in SUBSET Account /\ a \in Account
      /\ d.record \in [Account -> [Subject -> Scored]]
      /\ d.record[a][s] \in Scored /\ d.rating[a][s] = d.record[a][s]
      /\ d.summary[s] \in Row /\ Tallies(d.summary[s], K)
  BY DEF TablesOK, Rows, Row, Scored
<1>2. K \in [Score -> Nat] /\ L \in [Score -> Nat]
  BY <1>1, RecountType
<1>3. OneFewer(K, L, d.record[a][s])
  BY <1>1, OneLess
<1> HIDE DEF K, L
<1>4. CASE d.record[a][s] = None
  <2>1. L = K
    <3>1. \A c \in Score : c # None
      BY Finitely
    <3>2. \A c \in Score : L[c] = K[c]
      BY <1>3, <1>4, <3>1 DEF OneFewer
    <3> QED
      BY <1>2, <3>2
  <2>2. WithoutOwn(d, a, s) = d.summary[s]
    BY <1>1, <1>4 DEF WithoutOwn
  <2> QED
    BY <1>1, <2>1, <2>2 DEF L
<1>5. CASE d.record[a][s] # None
  <2>1. d.record[a][s] \in Score
    BY <1>1, <1>5 DEF Scored
  <2>2. L[d.record[a][s]] = K[d.record[a][s]] + (-1)
    BY <1>2, <1>3, <2>1 DEF OneFewer
  <2>3. \A c \in Score \ {d.record[a][s]} : L[c] = K[c]
    BY <1>3 DEF OneFewer
  <2>4. /\ Moved(d.summary[s], d.record[a][s], -1) \in Row
        /\ Tallies(Moved(d.summary[s], d.record[a][s], -1), L)
    BY <1>1, <1>2, <2>1, <2>2, <2>3, MovedTallies
  <2>5. WithoutOwn(d, a, s) = Moved(d.summary[s], d.record[a][s], -1)
    BY <1>1, <1>5 DEF WithoutOwn
  <2> QED
    BY <2>4, <2>5 DEF L
<1> QED
  BY <1>4, <1>5
-----------------------------------------------------------------------------
(* What a push and a deletion do to the tables. *)

With(rec, a, s, v) == [rec EXCEPT ![a][s] = v]

DiffersAt(new, rec, a, s, v) ==
    /\ new \in [Account -> [Subject -> Scored]]
    /\ new[a][s] = v
    /\ \A b \in Account, t \in Subject : b # a \/ t # s => new[b][t] = rec[b][t]

LEMMA WithType ==
  ASSUME NEW rec \in [Account -> [Subject -> Scored]], NEW a \in Account, NEW s \in Subject,
         NEW v \in Scored
  PROVE  DiffersAt(With(rec, a, s, v), rec, a, s, v)
  BY DEF With, DiffersAt

LEMMA WithTallies ==
  ASSUME NEW acc \in SUBSET Account, NEW a \in acc,
         NEW rec \in [Account -> [Subject -> Scored]], NEW s \in Subject, NEW v \in Scored,
         NEW row \in Row, Tallies(row, Recount(acc \ {a}, rec, s))
  PROVE  /\ v = None => Tallies(row, Recount(acc, With(rec, a, s, v), s))
         /\ v # None => /\ Moved(row, v, 1) \in Row
                        /\ Tallies(Moved(row, v, 1), Recount(acc, With(rec, a, s, v), s))
<1> DEFINE new == With(rec, a, s, v)
<1> DEFINE K == Recount(acc \ {a}, rec, s)
<1> DEFINE L == Recount(acc, new, s)
<1>1. /\ new \in [Account -> [Subject -> Scored]] /\ new[a][s] = v
      /\ \A b \in acc \ {a} : new[b][s] = rec[b][s]
  BY WithType DEF DiffersAt
<1>2. K \in [Score -> Nat] /\ L \in [Score -> Nat]
  BY RecountType
<1> HIDE DEF new
<1>3. Recount(acc \ {a}, new, s) = K
  BY <1>1, SameVoters
<1>4. OneFewer(L, Recount(acc \ {a}, new, s), new[a][s])
  BY <1>1, OneLess
<1> HIDE DEF K, L
<1>5. OneFewer(L, K, v)
  BY <1>1, <1>3, <1>4
<1>6. Tallies(row, K)
  BY DEF K
<1>7. CASE v = None
  <2>1. \A c \in Score : c # None
    BY Finitely
  <2>2. \A c \in Score : K[c] = L[c]
    BY <1>5, <1>7, <2>1 DEF OneFewer
  <2>3. K = L
    BY <1>2, <2>2
  <2> QED
    BY <1>6, <1>7, <2>3 DEF L, new
<1>8. CASE v # None
  <2>1. v \in Score
    BY <1>8 DEF Scored
  <2>2. L[v] = K[v] + 1
    BY <1>2, <1>5, <2>1 DEF OneFewer
  <2>3. \A c \in Score \ {v} : L[c] = K[c]
    BY <1>5 DEF OneFewer
  <2>4. Moved(row, v, 1) \in Row /\ Tallies(Moved(row, v, 1), L)
    BY <1>2, <1>6, <2>1, <2>2, <2>3, MovedTallies
  <2> QED
    BY <1>8, <2>4 DEF L, new
<1> QED
  BY <1>7, <1>8

(* One account's record of one subject, its index entry and the subject's   *)
(* row move together.                                                       *)
Rerated(d, a, s, v, row) ==
    [account |-> d.account, record |-> With(d.record, a, s, v),
     rating |-> With(d.rating, a, s, v), summary |-> [d.summary EXCEPT ![s] = row]]

LEMMA TablesType ==
  ASSUME NEW d, TablesOK(d)
  PROVE  /\ d.account \in SUBSET Account
         /\ d.record \in [Account -> [Subject -> Scored]]
         /\ d.rating \in [Account -> [Subject -> Scored]]
         /\ d.summary \in [Subject -> Row]
         /\ d = [account |-> d.account, record |-> d.record,
                 rating |-> d.rating, summary |-> d.summary]
  BY DEF TablesOK, Rows, Row, Scored

LEMMA ReratedOK ==
  ASSUME NEW d, TablesOK(d), NEW a \in d.account, NEW s \in Subject, NEW v \in Scored,
         NEW row \in Row, Tallies(row, Recount(d.account, With(d.record, a, s, v), s))
  PROVE  TablesOK(Rerated(d, a, s, v, row))
<1> DEFINE e == Rerated(d, a, s, v, row)
<1>1. /\ e.account = d.account /\ e.record = With(d.record, a, s, v)
      /\ e.rating = With(d.rating, a, s, v) /\ e.summary = [d.summary EXCEPT ![s] = row]
      /\ e = [account |-> e.account, record |-> e.record,
              rating |-> e.rating, summary |-> e.summary]
  BY DEF Rerated
<1> HIDE DEF e
<1>2. /\ d.account \in SUBSET Account /\ a \in Account
      /\ d.record \in [Account -> [Subject -> Scored]]
      /\ d.rating \in [Account -> [Subject -> Scored]]
      /\ d.summary \in [Subject -> Row]
  BY TablesType
<1>3. PICK rec \in [Account -> [Subject -> Scored]], rat \in [Account -> [Subject -> Scored]],
            R \in [Account -> [Subject -> Scored]], G \in [Account -> [Subject -> Scored]] :
         /\ rec = d.record /\ rat = d.rating
         /\ R = e.record /\ G = e.rating
         /\ R[a][s] = v /\ G[a][s] = v
         /\ \A b \in Account, t \in Subject : b # a \/ t # s =>
               R[b][t] = rec[b][t] /\ G[b][t] = rat[b][t]
  <2>1. PICK rec \in [Account -> [Subject -> Scored]], rat \in [Account -> [Subject -> Scored]] :
            rec = d.record /\ rat = d.rating
    BY <1>2
  <2>2. DiffersAt(With(rec, a, s, v), rec, a, s, v)
    BY <1>2, WithType
  <2>3. DiffersAt(With(rat, a, s, v), rat, a, s, v)
    BY <1>2, WithType
  <2>4. e.record = With(rec, a, s, v) /\ e.rating = With(rat, a, s, v)
    BY <1>1, <2>1
  <2> QED
    BY <2>1, <2>2, <2>3, <2>4 DEF DiffersAt
<1>4. e.summary \in [Subject -> Row]
  BY <1>1, <1>2
<1>5. e \in Rows
  BY <1>1, <1>2, <1>3, <1>4 DEF Rows, Row, Scored
<1>6. ASSUME NEW b \in e.account, NEW t \in Subject
      PROVE  e.rating[b][t] = e.record[b][t]
  <2>1. b \in Account /\ d.rating[b][t] = d.record[b][t]
    BY <1>1, <1>2 DEF TablesOK
  <2>2. CASE b = a /\ t = s
    BY <1>3, <2>2
  <2>3. CASE ~(b = a /\ t = s)
    <3>1. e.rating[b][t] = d.rating[b][t] /\ e.record[b][t] = d.record[b][t]
      BY <1>3, <2>1, <2>3
    <3> QED
      BY <2>1, <3>1
  <2> QED
    BY <2>2, <2>3
<1>7. ASSUME NEW t \in Subject
      PROVE  Tallies(e.summary[t], Recount(e.account, e.record, t))
  <2>1. CASE t = s
    BY <1>1, <1>2, <2>1
  <2>2. CASE t # s
    <3>1. e.summary[t] = d.summary[t]
      BY <1>1, <1>2, <2>2
    <3>2. \A b \in d.account : e.record[b][t] = d.record[b][t]
      BY <1>2, <1>3, <2>2
    <3>3. Recount(d.account, e.record, t) = Recount(d.account, d.record, t)
      BY <3>2, SameVoters
    <3> QED
      BY <1>1, <3>1, <3>3 DEF TablesOK
  <2> QED
    BY <2>1, <2>2
<1>8. TablesOK(e)
  BY <1>5, <1>6, <1>7 DEF TablesOK
<1> QED
  BY <1>8 DEF e

LEMMA IndexedIs ==
  ASSUME NEW d, TablesOK(d), NEW a \in d.account, NEW s \in Subject, NEW score \in Score
  PROVE  Indexed([d EXCEPT !.record[a][s] = score], a, s, score) =
            Rerated(d, a, s, score, Moved(WithoutOwn(d, a, s), score, 1))
<1>1. PICK acc, rec, rat, sum :
         d = [account |-> acc, record |-> rec, rating |-> rat, summary |-> sum]
  BY TablesType
<1>2. [d EXCEPT !.record[a][s] = score] =
         [account |-> acc, record |-> With(rec, a, s, score), rating |-> rat, summary |-> sum]
  BY <1>1 DEF With
<1>3. WithoutOwn(d, a, s) = IF rat[a][s] = None THEN sum[s] ELSE Moved(sum[s], rat[a][s], -1)
  BY <1>1 DEF WithoutOwn
<1>4. Indexed([account |-> acc, record |-> With(rec, a, s, score), rating |-> rat, summary |-> sum],
              a, s, score) =
         [account |-> acc, record |-> With(rec, a, s, score), rating |-> With(rat, a, s, score),
          summary |-> [sum EXCEPT ![s] = Moved(WithoutOwn(d, a, s), score, 1)]]
  <2>1. PICK R : R = With(rec, a, s, score)
    OBVIOUS
  <2>2. PICK w : w = WithoutOwn(d, a, s)
    OBVIOUS
  <2>3. Indexed([account |-> acc, record |-> R, rating |-> rat, summary |-> sum], a, s, score) =
          [[account |-> acc, record |-> R, rating |-> rat, summary |-> sum]
             EXCEPT !.rating[a][s] = score, !.summary[s] = Moved(w, score, 1)]
    BY <1>3, <2>2 DEF Indexed
  <2>4. PICK g, m : g = [rat EXCEPT ![a][s] = score] /\ m = [sum EXCEPT ![s] = Moved(w, score, 1)]
    OBVIOUS
  <2>5. Indexed([account |-> acc, record |-> R, rating |-> rat, summary |-> sum], a, s, score) =
          [[account |-> acc, record |-> R, rating |-> rat, summary |-> sum]
             EXCEPT !.rating = g, !.summary = m]
    BY <2>3, <2>4
  <2>6. Indexed([account |-> acc, record |-> R, rating |-> rat, summary |-> sum], a, s, score) =
          [account |-> acc, record |-> R, rating |-> g, summary |-> m]
    BY <2>5
  <2> QED
    BY <2>1, <2>2, <2>4, <2>6 DEF With
<1> QED
  BY <1>1, <1>2, <1>4 DEF Rerated

LEMMA UnindexedIs ==
  ASSUME NEW d, TablesOK(d), NEW a \in d.account, NEW s \in Subject
  PROVE  Unindexed([d EXCEPT !.record[a][s] = None], a, s) =
            Rerated(d, a, s, None, WithoutOwn(d, a, s))
<1>1. PICK acc, rec, rat, sum :
         d = [account |-> acc, record |-> rec, rating |-> rat, summary |-> sum]
  BY TablesType
<1>2. [d EXCEPT !.record[a][s] = None] =
         [account |-> acc, record |-> With(rec, a, s, None), rating |-> rat, summary |-> sum]
  BY <1>1 DEF With
<1>3. WithoutOwn(d, a, s) = IF rat[a][s] = None THEN sum[s] ELSE Moved(sum[s], rat[a][s], -1)
  BY <1>1 DEF WithoutOwn
<1>4. rat \in [Account -> [Subject -> Scored]] /\ sum \in [Subject -> Row] /\ a \in Account
  BY <1>1, TablesType
<1>5. Unindexed([account |-> acc, record |-> With(rec, a, s, None), rating |-> rat, summary |-> sum],
                a, s) =
         [account |-> acc, record |-> With(rec, a, s, None), rating |-> With(rat, a, s, None),
          summary |-> [sum EXCEPT ![s] = WithoutOwn(d, a, s)]]
  <2>1. CASE rat[a][s] = None
    <3>1. With(rat, a, s, None) = rat
      BY <1>4, <2>1 DEF With
    <3>2. [sum EXCEPT ![s] = WithoutOwn(d, a, s)] = sum
      BY <1>3, <1>4, <2>1
    <3> QED
      BY <2>1, <3>1, <3>2 DEF Unindexed
  <2>2. CASE rat[a][s] # None
    BY <1>3, <2>2 DEF Unindexed, With
  <2> QED
    BY <2>1, <2>2
<1> QED
  BY <1>1, <1>2, <1>5 DEF Rerated
LEMMA RatedOK ==
  ASSUME NEW d, TablesOK(d), NEW a \in d.account, NEW s \in Subject, NEW score \in Score
  PROVE  TablesOK(Indexed([d EXCEPT !.record[a][s] = score], a, s, score))
<1>1. PICK acc \in SUBSET Account, rec \in [Account -> [Subject -> Scored]] :
         acc = d.account /\ rec = d.record
  BY TablesType
<1>2. a \in acc /\ score \in Scored /\ score # None
  BY <1>1, Finitely DEF Scored
<1>3. PICK row \in Row : row = WithoutOwn(d, a, s) /\ Tallies(row, Recount(acc \ {a}, rec, s))
  BY <1>1, OwnTakenOut
<1>4. /\ Moved(row, score, 1) \in Row
      /\ Tallies(Moved(row, score, 1), Recount(acc, With(rec, a, s, score), s))
  BY <1>2, <1>3, WithTallies
<1>5. TablesOK(Rerated(d, a, s, score, Moved(row, score, 1)))
  BY <1>1, <1>2, <1>4, ReratedOK
<1> QED
  BY <1>3, <1>5, IndexedIs

LEMMA WithdrawnOK ==
  ASSUME NEW d, TablesOK(d), NEW a \in d.account, NEW s \in Subject
  PROVE  TablesOK(Unindexed([d EXCEPT !.record[a][s] = None], a, s))
<1>1. PICK acc \in SUBSET Account, rec \in [Account -> [Subject -> Scored]] :
         acc = d.account /\ rec = d.record
  BY TablesType
<1>2. a \in acc /\ None \in Scored
  BY <1>1 DEF Scored
<1>3. PICK row \in Row : row = WithoutOwn(d, a, s) /\ Tallies(row, Recount(acc \ {a}, rec, s))
  BY <1>1, OwnTakenOut
<1>4. Tallies(row, Recount(acc, With(rec, a, s, None), s))
  BY <1>2, <1>3, WithTallies
<1>5. TablesOK(Rerated(d, a, s, None, row))
  BY <1>1, <1>2, <1>4, ReratedOK
<1> QED
  BY <1>3, <1>5, UnindexedIs

(* Nothing but the subject's row, and not the accounts, is touched. *)
LEMMA ReratedElsewhere ==
  ASSUME NEW d, TablesOK(d), NEW a, NEW s \in Subject, NEW v, NEW row
  PROVE  /\ Rerated(d, a, s, v, row).account = d.account
         /\ \A t \in Subject \ {s} : Rerated(d, a, s, v, row).summary[t] = d.summary[t]
  BY TablesType DEF Rerated

LEMMA ErasedIs ==
  ASSUME NEW d, TablesOK(d), NEW a \in d.account
  PROVE  Erased(AccountUnindexed(d, a), a) =
            [account |-> d.account \ {a},
             record  |-> [d.record EXCEPT ![a] = [s \in Subject |-> None]],
             rating  |-> [d.rating EXCEPT ![a] = [s \in Subject |-> None]],
             summary |-> [s \in Subject |-> WithoutOwn(d, a, s)]]
<1>1. PICK acc, rec, rat, sum :
         d = [account |-> acc, record |-> rec, rating |-> rat, summary |-> sum]
  BY TablesType
<1>2. PICK m : m = [s \in Subject |-> WithoutOwn(d, a, s)]
  OBVIOUS
<1>3. m = [s \in Subject |-> IF rat[a][s] = None THEN sum[s] ELSE Moved(sum[s], rat[a][s], -1)]
  BY <1>1, <1>2 DEF WithoutOwn
<1>4. AccountUnindexed(d, a) =
        [[account |-> acc, record |-> rec, rating |-> rat, summary |-> sum] EXCEPT !.summary = m]
  BY <1>1, <1>3 DEF AccountUnindexed
<1>5. AccountUnindexed(d, a) = [account |-> acc, record |-> rec, rating |-> rat, summary |-> m]
  BY <1>4
<1>6. PICK R, G : /\ R = [rec EXCEPT ![a] = [s \in Subject |-> None]]
                  /\ G = [rat EXCEPT ![a] = [s \in Subject |-> None]]
  OBVIOUS
<1>7. Erased(AccountUnindexed(d, a), a) =
        [[account |-> acc, record |-> rec, rating |-> rat, summary |-> m]
           EXCEPT !.account = acc \ {a}, !.record = R, !.rating = G]
  BY <1>5, <1>6 DEF Erased
<1>8. Erased(AccountUnindexed(d, a), a) =
        [account |-> acc \ {a}, record |-> R, rating |-> G, summary |-> m]
  BY <1>7
<1> QED
  BY <1>1, <1>2, <1>6, <1>8

LEMMA ErasedOK ==
  ASSUME NEW d, TablesOK(d), NEW a \in d.account
  PROVE  TablesOK(Erased(AccountUnindexed(d, a), a))
<1>1. PICK acc \in SUBSET Account, rec \in [Account -> [Subject -> Scored]],
           rat \in [Account -> [Subject -> Scored]] :
         acc = d.account /\ rec = d.record /\ rat = d.rating
  BY TablesType
<1>2. PICK e : e = Erased(AccountUnindexed(d, a), a)
  OBVIOUS
<1>3. e = [account |-> acc \ {a},
           record  |-> [rec EXCEPT ![a] = [s \in Subject |-> None]],
           rating  |-> [rat EXCEPT ![a] = [s \in Subject |-> None]],
           summary |-> [s \in Subject |-> WithoutOwn(d, a, s)]]
  BY <1>1, <1>2, ErasedIs
<1>4. /\ e.account = acc \ {a}
      /\ e.record \in [Account -> [Subject -> Scored]]
      /\ e.rating \in [Account -> [Subject -> Scored]]
      /\ \A b \in Account \ {a} : e.record[b] = rec[b] /\ e.rating[b] = rat[b]
  BY <1>3 DEF Scored
<1>5. \A s \in Subject : /\ WithoutOwn(d, a, s) \in Row
                         /\ Tallies(WithoutOwn(d, a, s), Recount(acc \ {a}, rec, s))
  BY <1>1, OwnTakenOut
<1>6. \A s \in Subject : e.summary[s] = WithoutOwn(d, a, s)
  BY <1>3
<1>7. e.summary \in [Subject -> Row]
  BY <1>3, <1>5
<1>8. e \in Rows
  BY <1>3, <1>4, <1>7 DEF Rows, Row, Scored
<1>9. ASSUME NEW b \in e.account, NEW s \in Subject
      PROVE  e.rating[b][s] = e.record[b][s]
  <2>1. b \in acc /\ b \in Account \ {a}
    BY <1>4
  <2>2. d.rating[b][s] = d.record[b][s]
    BY <1>1, <2>1 DEF TablesOK
  <2> QED
    BY <1>1, <1>4, <2>1, <2>2
<1>10. ASSUME NEW s \in Subject
       PROVE  Tallies(e.summary[s], Recount(e.account, e.record, s))
  <2>1. \A b \in acc \ {a} : e.record[b][s] = rec[b][s]
    BY <1>4
  <2>2. Recount(acc \ {a}, e.record, s) = Recount(acc \ {a}, rec, s)
    BY <2>1, SameVoters
  <2> QED
    BY <1>4, <1>5, <1>6, <2>2
<1>11. TablesOK(e)
  BY <1>8, <1>9, <1>10 DEF TablesOK
<1> QED
  BY <1>2, <1>11

(* Nobody has rated anything. *)
LEMMA EmptyOK == TablesOK(EmptyTables)
<1>1. EmptyTables \in Rows
  BY DEF EmptyTables, ZeroRow, Rows
<1>2. \A a \in EmptyTables.account, s \in Subject :
         EmptyTables.rating[a][s] = EmptyTables.record[a][s]
  BY DEF EmptyTables
<1>3. ASSUME NEW s \in Subject
      PROVE  Tallies(EmptyTables.summary[s], Recount(EmptyTables.account, EmptyTables.record, s))
  <2> DEFINE K == Recount(EmptyTables.account, EmptyTables.record, s)
  <2>1. ASSUME NEW c \in Score
        PROVE  K[c] = 0
    <3>1. Voters(EmptyTables.account, EmptyTables.record, s, c) = {}
      BY Finitely DEF EmptyTables, Voters
    <3> QED
      BY <3>1, FS_EmptySet DEF Recount
  <2>2. K = [c \in Score |-> 0]
    BY <2>1 DEF Recount
  <2> HIDE DEF K
  <2>3. [c \in Score |-> c * K[c]] = [c \in Score |-> 0]
    <3>1. \A c \in Score : c * K[c] = 0
      <4>1. \A c \in Score : c \in Nat
        BY Finitely
      <4> QED
        BY <2>2, <4>1
    <3> QED
      BY <3>1
  <2>4. SumFunction([c \in Score |-> 0]) = 0
    BY Finitely, SumOfZeros
  <2>5. EmptyTables.summary[s] = [count |-> 0, sum |-> 0, h |-> [c \in Score |-> 0]]
    BY DEF EmptyTables, ZeroRow
  <2>6. Tallies(EmptyTables.summary[s], K)
    BY <2>2, <2>3, <2>4, <2>5 DEF Tallies
  <2> QED
    BY <2>6 DEF K
<1> QED
  BY <1>1, <1>2, <1>3 DEF TablesOK
-----------------------------------------------------------------------------
(* The invariant. *)

Answers == [count : Nat] \cup [count : Nat, mean : Int, histogram : [Score -> Nat]]

Request == [phase : {"idle", "applying", "forgetting", "clearing"},
            account : Account \cup {None}, touched : SUBSET Subject]

Question == [phase : {"idle", "looking", "reading"}, ask : SUBSET Asked,
             missing : SUBSET Asked, readAt : Nat,
             fresh : [Asked -> Answers \cup {NotRead}]]

Entry == [held : BOOLEAN, expired : BOOLEAN, summary : Answers \cup {NotRead}]

Typed == /\ handler \in [Handler -> Request]
         /\ reader \in [Reader -> Question]
         /\ cache \in [Asked -> Entry]
         /\ generation \in Nat

Applying(h) == handler[h].phase = "applying"

(* One transaction at a time; its tables differ from the committed ones in  *)
(* the rows of the subjects it has touched, and in no account.              *)
WorkOK ==
    /\ Quiet => work = db
    /\ work.account = db.account
    /\ \A g, h \in Handler : Applying(g) /\ Applying(h) => g = h
    /\ \A h \in Handler : Applying(h) =>
          \A s \in Subject \ handler[h].touched : work.summary[s] = db.summary[s]

(* True of the committed tables, or known to be perhaps out of date.        *)
Current(q, summary) == ~ToBeForgotten(q) => summary = SummaryOf(db, q)

(* What a request has read is current for as long as nothing was forgotten  *)
(* since it noted the generation.                                           *)
ReadOK(r) ==
    /\ reader[r].readAt <= generation
    /\ reader[r].phase = "reading" =>
          /\ reader[r].ask \subseteq reader[r].missing
          /\ \A q \in reader[r].missing \ reader[r].ask :
                /\ reader[r].fresh[q] \in Answers
                /\ Unmoved(r) => Current(q, reader[r].fresh[q])

CacheOK ==
    /\ Cardinality(Held(cache)) <= MaxCached
    /\ \A q \in Asked : cache[q].held =>
          cache[q].summary \in Answers /\ Current(q, cache[q].summary)

IInv == /\ TablesOK(db) /\ TablesOK(work)
        /\ Typed
        /\ WorkOK
        /\ \A r \in Reader : ReadOK(r)
        /\ CacheOK

(* An answer is a count or more, and never what stands for none.            *)
LEMMA SummaryType ==
  ASSUME NEW d, TablesOK(d), NEW q \in Asked
  PROVE  SummaryOf(d, q) \in Answers
<1> DEFINE S == RowsOf(q)
<1>1. S \subseteq Subject
  BY DEF RowsOf
<1>2. IsFiniteSet(S)
  BY <1>1, RatingsAssumption, FS_Subset
<1>3. d.summary \in [Subject -> Row]
  BY TablesType
<1> HIDE DEF S
<1>4. /\ [s \in S |-> d.summary[s].count] \in [S -> Nat]
      /\ [s \in S |-> d.summary[s].sum] \in [S -> Nat]
      /\ \A c \in Score : [s \in S |-> d.summary[s].h[c]] \in [S -> Nat]
  BY <1>1, <1>3 DEF Row
<1>5. /\ SumFunction([s \in S |-> d.summary[s].count]) \in Nat
      /\ SumFunction([s \in S |-> d.summary[s].sum]) \in Nat
      /\ \A c \in Score : SumFunction([s \in S |-> d.summary[s].h[c]]) \in Nat
  BY <1>2, <1>4, SumIsNat
<1>6. PICK n \in Nat, t \in Nat, b \in [Score -> Nat] :
         /\ n = SumFunction([s \in S |-> d.summary[s].count])
         /\ t = SumFunction([s \in S |-> d.summary[s].sum])
         /\ b = [c \in Score |-> SumFunction([s \in S |-> d.summary[s].h[c]])]
  BY <1>5
<1>7. SummaryOf(d, q) = IF n >= Threshold /\ n > 0
                        THEN [count |-> n, mean |-> (200 * t + n) \div (2 * n), histogram |-> b]
                        ELSE [count |-> n]
  BY <1>6 DEF SummaryOf, S
<1>8. CASE n >= Threshold /\ n > 0
  <2>1. (200 * t + n) \div (2 * n) \in Int
    BY <1>8
  <2> QED
    BY <1>7, <1>8, <2>1 DEF Answers
<1>9. CASE ~(n >= Threshold /\ n > 0)
  BY <1>7, <1>9 DEF Answers
<1> QED
  BY <1>8, <1>9

LEMMA AnswersAreRead == ASSUME NEW x \in Answers PROVE x # NotRead
<1>1. x.count \in Nat
  BY DEF Answers
<1>2. NotRead.count = -1
  BY DEF NotRead
<1> QED
  BY <1>1, <1>2

LEMMA SameSummary ==
  ASSUME NEW d, NEW e, NEW q \in Asked, \A s \in RowsOf(q) : d.summary[s] = e.summary[s]
  PROVE  SummaryOf(d, q) = SummaryOf(e, q)
<1>1. /\ [s \in RowsOf(q) |-> d.summary[s].count] = [s \in RowsOf(q) |-> e.summary[s].count]
      /\ [s \in RowsOf(q) |-> d.summary[s].sum] = [s \in RowsOf(q) |-> e.summary[s].sum]
      /\ [c \in Score |-> SumFunction([s \in RowsOf(q) |-> d.summary[s].h[c]])] =
         [c \in Score |-> SumFunction([s \in RowsOf(q) |-> e.summary[s].h[c]])]
  <2>1. \A c \in Score : [s \in RowsOf(q) |-> d.summary[s].h[c]] = [s \in RowsOf(q) |-> e.summary[s].h[c]]
    OBVIOUS
  <2> QED
    BY <2>1
<1> QED
  BY <1>1, Zenon DEF SummaryOf

LEMMA InitIInv == Init => IInv
<1> SUFFICES ASSUME Init PROVE IInv
  OBVIOUS
<1>1. TablesOK(db) /\ TablesOK(work) /\ work = db
  BY EmptyOK DEF Init
<1>2. Typed
  <2>1. handler \in [Handler -> Request]
    BY DEF Init, NoRequest, Request
  <2>2. NoQuestion \in Question
    BY DEF NoQuestion, Question
  <2>3. NotHeld \in Entry
    BY DEF NotHeld, Entry
  <2> QED
    BY <2>1, <2>2, <2>3 DEF Init, Typed
<1>3. WorkOK
  BY <1>1 DEF Init, WorkOK, Applying, NoRequest
<1>4. ASSUME NEW r \in Reader
      PROVE  ReadOK(r)
  BY DEF Init, ReadOK, NoQuestion
<1>5. CacheOK
  <2>1. \A q \in Asked : ~cache[q].held
    BY DEF Init, NotHeld
  <2>2. Held(cache) = {}
    BY <2>1 DEF Held
  <2> QED
    BY <2>1, <2>2, FS_EmptySet, RatingsAssumption DEF CacheOK
<1> QED
  BY <1>1, <1>2, <1>3, <1>4, <1>5 DEF IInv

(* No answer that was current goes out of date untold. *)
Steady == \A q \in Asked : ~ToBeForgotten(q)' =>
             ~ToBeForgotten(q) /\ SummaryOf(db', q) = SummaryOf(db, q)

LEMMA ReadersStay ==
  ASSUME NEW r \in Reader, ReadOK(r), Typed, Steady,
         reader'[r] = reader[r], generation' = generation
  PROVE  ReadOK(r)'
<1>1. reader[r].missing \subseteq Asked
  BY DEF Typed, Question
<1>2. Unmoved(r)' <=> Unmoved(r)
  BY DEF Unmoved
<1>3. ASSUME NEW q \in reader[r].missing \ reader[r].ask, Current(q, reader[r].fresh[q])
      PROVE  Current(q, reader[r].fresh[q])'
  BY <1>1, <1>3 DEF Current, Steady
<1> QED
  BY <1>2, <1>3 DEF ReadOK

LEMMA CacheStays ==
  ASSUME CacheOK, Steady, cache' = cache
  PROVE  CacheOK'
  BY DEF CacheOK, Steady, Current, Held

LEMMA CacheSmaller ==
  ASSUME Cardinality(Held(cache)) <= MaxCached, \A q \in Asked : cache'[q].held => cache[q].held
  PROVE  Cardinality(Held(cache)') <= MaxCached
<1>1. Held(cache)' \subseteq Held(cache) /\ Held(cache) \subseteq Asked
  BY DEF Held
<1>2. IsFiniteSet(Held(cache))
  BY <1>1, Finitely, FS_Subset
<1>3. Cardinality(Held(cache)') <= Cardinality(Held(cache))
  BY <1>1, <1>2, FS_Subset
<1>4. Cardinality(Held(cache)) \in Nat /\ Cardinality(Held(cache)') \in Nat
  BY <1>1, <1>2, FS_Subset, FS_CardinalityType
<1> QED
  BY <1>3, <1>4, RatingsAssumption

(* Fewer entries, none of them new. *)
LEMMA CacheShrinks ==
  ASSUME CacheOK, Steady,
         \A q \in Asked : cache'[q].held => cache[q].held /\ cache'[q].summary = cache[q].summary
  PROVE  CacheOK'
<1>1. Cardinality(Held(cache)') <= MaxCached
  BY CacheSmaller DEF CacheOK
<1> QED
  BY <1>1 DEF CacheOK, Steady, Current
-----------------------------------------------------------------------------
(* The requests that write. *)

(* One request moves on. *)
LEMMA RequestMoves ==
  ASSUME NEW h \in Handler, NEW new \in Request, Typed,
         handler' = [handler EXCEPT ![h] = new]
  PROVE  /\ handler' \in [Handler -> Request] /\ handler'[h] = new
         /\ \A g \in Handler \ {h} : handler'[g] = handler[g]
  BY DEF Typed

(* A push that did not begin applying, or that only applies, tells of       *)
(* nothing.                                                                 *)
LEMMA NothingTold ==
  ASSUME NEW h \in Handler, \A g \in Handler \ {h} : handler'[g] = handler[g],
         handler[h].phase # "clearing",
         handler[h].phase = "forgetting" => handler[h].touched = {},
         db' = db
  PROVE  Steady
<1>1. ASSUME NEW q \in Asked, ToBeForgotten(q)
      PROVE  ToBeForgotten(q)'
  <2>1. PICK g \in Handler :
          \/ handler[g].phase = "clearing"
          \/ handler[g].phase = "forgetting" /\ \E s \in handler[g].touched : q \in ForgottenWith(s)
    BY <1>1 DEF ToBeForgotten
  <2>2. g # h
    BY <2>1
  <2> QED
    BY <2>1, <2>2 DEF ToBeForgotten
<1> QED
  BY <1>1 DEF Steady

LEMMA Unwatched ==
  ASSUME IInv, Steady, UNCHANGED <<reader, cache, generation>>
  PROVE  (\A r \in Reader : ReadOK(r)') /\ CacheOK'
<1>1. \A r \in Reader : ReadOK(r)'
  BY ReadersStay DEF IInv
<1> QED
  BY <1>1, CacheStays DEF IInv

LEMMA BeginKeeps ==
  ASSUME IInv, NEW h \in Handler, NEW a \in Account, Begin(h, a)
  PROVE  IInv'
<1> DEFINE new == [phase |-> "applying", account |-> a, touched |-> {}]
<1>1. /\ Quiet /\ handler[h].phase = "idle"
      /\ handler' = [handler EXCEPT ![h] = new]
      /\ UNCHANGED <<db, work, reader, cache, generation>>
  BY DEF Begin
<1>2. new \in Request
  BY DEF Request
<1>3. /\ handler' \in [Handler -> Request] /\ handler'[h] = new
      /\ \A g \in Handler \ {h} : handler'[g] = handler[g]
  BY <1>1, <1>2, RequestMoves DEF IInv
<1>4. Typed'
  BY <1>1, <1>3 DEF IInv, Typed
<1>5. WorkOK'
  <2>1. work = db /\ work.account = db.account
    BY <1>1 DEF IInv, WorkOK
  <2>2. \A g \in Handler : Applying(g)' => g = h
    BY <1>1, <1>3 DEF Quiet, Applying
  <2> QED
    BY <1>1, <2>1, <2>2 DEF WorkOK
<1>6. Steady
  BY <1>1, <1>3, NothingTold
<1>7. (\A r \in Reader : ReadOK(r)') /\ CacheOK'
  BY <1>1, <1>6, Unwatched
<1> QED
  BY <1>1, <1>4, <1>5, <1>7 DEF IInv

(* A statement of a push. *)
LEMMA StoringKeeps ==
  ASSUME IInv, NEW h \in Handler, NEW s \in Subject, Storing(h, s),
         TablesOK(work'), work'.account = work.account,
         \A t \in Subject \ {s} : work'.summary[t] = work.summary[t]
  PROVE  IInv'
<1> DEFINE new == [handler[h] EXCEPT !.touched = @ \cup {s}]
<1>1. /\ handler[h].phase = "applying"
      /\ handler' = [handler EXCEPT ![h] = new]
      /\ UNCHANGED <<db, reader, cache, generation>>
  BY DEF Storing, IInv, Typed
<1>2. handler[h] \in Request
  BY DEF IInv, Typed
<1>3. new \in Request /\ new.phase = "applying" /\ new.touched = handler[h].touched \cup {s}
  BY <1>1, <1>2 DEF Request
<1> HIDE DEF new
<1>4. /\ handler' \in [Handler -> Request] /\ handler'[h] = new
      /\ \A g \in Handler \ {h} : handler'[g] = handler[g]
  BY <1>1, <1>3, RequestMoves DEF IInv
<1>5. Typed'
  BY <1>1, <1>4 DEF IInv, Typed
<1>6. WorkOK'
  <2>1. ~Quiet'
    BY <1>3, <1>4 DEF Quiet
  <2>2. work'.account = db'.account
    BY <1>1 DEF IInv, WorkOK
  <2>3. \A g \in Handler : Applying(g)' => g = h
    BY <1>1, <1>4 DEF IInv, WorkOK, Applying
  <2>4. ASSUME NEW t \in Subject, t \notin handler'[h].touched
        PROVE  work'.summary[t] = db'.summary[t]
    <3>1. t # s /\ t \notin handler[h].touched
      BY <1>3, <1>4, <2>4
    <3>2. work.summary[t] = db.summary[t]
      BY <1>1, <3>1 DEF IInv, WorkOK, Applying
    <3> QED
      BY <1>1, <3>1, <3>2
  <2> QED
    BY <2>1, <2>2, <2>3, <2>4 DEF WorkOK
<1>7. Steady
  BY <1>1, <1>4, NothingTold
<1>8. (\A r \in Reader : ReadOK(r)') /\ CacheOK'
  BY <1>1, <1>7, Unwatched
<1> QED
  BY <1>1, <1>5, <1>6, <1>8 DEF IInv

LEMMA RateKeeps ==
  ASSUME IInv, NEW h \in Handler, NEW s \in Subject, NEW score \in Score, Rate(h, s, score)
  PROVE  IInv'
<1>1. PICK a \in work.account :
         /\ a = handler[h].account
         /\ work' = Indexed([work EXCEPT !.record[a][s] = score], a, s, score)
  BY DEF Rate, Storing
<1>2. TablesOK(work)
  BY DEF IInv
<1>3. TablesOK(work')
  BY <1>1, <1>2, RatedOK
<1>4. work' = Rerated(work, a, s, score, Moved(WithoutOwn(work, a, s), score, 1))
  BY <1>1, <1>2, IndexedIs
<1>5. /\ work'.account = work.account
      /\ \A t \in Subject \ {s} : work'.summary[t] = work.summary[t]
  BY <1>2, <1>4, ReratedElsewhere
<1> QED
  BY <1>3, <1>5, StoringKeeps DEF Rate

LEMMA WithdrawKeeps ==
  ASSUME IInv, NEW h \in Handler, NEW s \in Subject, Withdraw(h, s)
  PROVE  IInv'
<1>1. PICK a \in work.account :
         /\ a = handler[h].account
         /\ work' = Unindexed([work EXCEPT !.record[a][s] = None], a, s)
  BY DEF Withdraw, Storing
<1>2. TablesOK(work)
  BY DEF IInv
<1>3. TablesOK(work')
  BY <1>1, <1>2, WithdrawnOK
<1>4. work' = Rerated(work, a, s, None, WithoutOwn(work, a, s))
  BY <1>1, <1>2, UnindexedIs
<1>5. /\ work'.account = work.account
      /\ \A t \in Subject \ {s} : work'.summary[t] = work.summary[t]
  BY <1>2, <1>4, ReratedElsewhere
<1> QED
  BY <1>3, <1>5, StoringKeeps DEF Withdraw

(* What a commit changes is what it is about to tell. *)
LEMMA CommitKeeps ==
  ASSUME IInv, NEW h \in Handler, Commit(h)
  PROVE  IInv'
<1> DEFINE new == [handler[h] EXCEPT !.phase = "forgetting"]
<1>1. /\ handler[h].phase = "applying" /\ db' = work
      /\ handler' = [handler EXCEPT ![h] = new]
      /\ UNCHANGED <<work, reader, cache, generation>>
  BY DEF Commit, IInv, Typed
<1>2. handler[h] \in Request
  BY DEF IInv, Typed
<1>3. new \in Request /\ new.phase = "forgetting" /\ new.touched = handler[h].touched
  BY <1>1, <1>2 DEF Request
<1> HIDE DEF new
<1>4. /\ handler' \in [Handler -> Request] /\ handler'[h] = new
      /\ \A g \in Handler \ {h} : handler'[g] = handler[g]
  BY <1>1, <1>3, RequestMoves DEF IInv
<1>5. Typed'
  BY <1>1, <1>4 DEF IInv, Typed
<1>6. \A g \in Handler : ~Applying(g)'
  BY <1>1, <1>3, <1>4 DEF IInv, WorkOK, Applying
<1>7. WorkOK'
  BY <1>1, <1>6 DEF WorkOK
<1>8. ASSUME NEW q \in Asked, ~ToBeForgotten(q)'
      PROVE  ~ToBeForgotten(q) /\ SummaryOf(db', q) = SummaryOf(db, q)
  <2>1. \A s \in handler[h].touched : q \notin ForgottenWith(s)
    BY <1>3, <1>4, <1>8 DEF ToBeForgotten
  <2>2. ~ToBeForgotten(q)
    BY <1>1, <1>4, <1>8 DEF ToBeForgotten
  <2>3. ASSUME NEW s \in RowsOf(q)
        PROVE  db'.summary[s] = db.summary[s]
    <3>1. s \in Subject /\ q \in ForgottenWith(s)
      BY <2>3 DEF RowsOf, ForgottenWith
    <3>2. s \notin handler[h].touched
      BY <2>1, <3>1
    <3> QED
      BY <1>1, <3>1, <3>2 DEF IInv, WorkOK, Applying
  <2>4. SummaryOf(db', q) = SummaryOf(db, q)
    <3>1. PICK d, e : d = db' /\ e = db
      OBVIOUS
    <3>2. SummaryOf(d, q) = SummaryOf(e, q)
      BY <2>3, <3>1, SameSummary
    <3> QED
      BY <3>1, <3>2
  <2> QED
    BY <2>2, <2>4
<1>9. Steady
  BY <1>8 DEF Steady
<1>10. (\A r \in Reader : ReadOK(r)') /\ CacheOK'
  BY <1>1, <1>9, Unwatched
<1> QED
  BY <1>1, <1>5, <1>7, <1>10 DEF IInv

LEMMA RollbackKeeps ==
  ASSUME IInv, NEW h \in Handler, Rollback(h)
  PROVE  IInv'
<1>1. /\ handler[h].phase = "applying" /\ work' = db
      /\ handler' = [handler EXCEPT ![h] = NoRequest]
      /\ UNCHANGED <<db, reader, cache, generation>>
  BY DEF Rollback
<1>2. NoRequest \in Request /\ NoRequest.phase = "idle"
  BY DEF NoRequest, Request
<1>3. /\ handler' \in [Handler -> Request] /\ handler'[h] = NoRequest
      /\ \A g \in Handler \ {h} : handler'[g] = handler[g]
  BY <1>1, <1>2, RequestMoves DEF IInv
<1>4. Typed'
  BY <1>1, <1>3 DEF IInv, Typed
<1>5. \A g \in Handler : ~Applying(g)'
  BY <1>1, <1>2, <1>3 DEF IInv, WorkOK, Applying
<1>6. WorkOK'
  BY <1>1, <1>5 DEF WorkOK
<1>7. Steady
  BY <1>1, <1>3, NothingTold
<1>8. (\A r \in Reader : ReadOK(r)') /\ CacheOK'
  BY <1>1, <1>7, Unwatched
<1> QED
  BY <1>1, <1>4, <1>6, <1>8 DEF IInv

LEMMA PushedKeeps ==
  ASSUME IInv, NEW h \in Handler, Pushed(h)
  PROVE  IInv'
<1>1. /\ handler[h].phase = "forgetting" /\ handler[h].touched = {}
      /\ handler' = [handler EXCEPT ![h] = NoRequest]
      /\ UNCHANGED <<db, work, reader, cache, generation>>
  BY DEF Pushed
<1>2. NoRequest \in Request /\ NoRequest.phase = "idle"
  BY DEF NoRequest, Request
<1>3. /\ handler' \in [Handler -> Request] /\ handler'[h] = NoRequest
      /\ \A g \in Handler \ {h} : handler'[g] = handler[g]
  BY <1>1, <1>2, RequestMoves DEF IInv
<1>4. Typed'
  BY <1>1, <1>3 DEF IInv, Typed
<1>5. \A g \in Handler : Applying(g)' => Applying(g) /\ handler'[g] = handler[g]
  BY <1>2, <1>3 DEF Applying
<1>6. Quiet' => Quiet
  BY <1>1, <1>3 DEF Quiet
<1>7. WorkOK'
  BY <1>1, <1>5, <1>6 DEF IInv, WorkOK
<1>8. Steady
  BY <1>1, <1>3, NothingTold
<1>9. (\A r \in Reader : ReadOK(r)') /\ CacheOK'
  BY <1>1, <1>8, Unwatched
<1> QED
  BY <1>1, <1>4, <1>7, <1>9 DEF IInv

LEMMA DeleteAccountKeeps ==
  ASSUME IInv, NEW h \in Handler, NEW a \in Account, DeleteAccount(h, a)
  PROVE  IInv'
<1> DEFINE new == [phase |-> "clearing", account |-> a, touched |-> {}]
<1>1. /\ Quiet /\ handler[h].phase = "idle" /\ a \in db.account
      /\ db' = Erased(AccountUnindexed(db, a), a) /\ work' = db'
      /\ handler' = [handler EXCEPT ![h] = new]
      /\ UNCHANGED <<reader, cache, generation>>
  BY DEF DeleteAccount
<1>2. new \in Request
  BY DEF Request
<1>3. /\ handler' \in [Handler -> Request] /\ handler'[h] = new
      /\ \A g \in Handler \ {h} : handler'[g] = handler[g]
  BY <1>1, <1>2, RequestMoves DEF IInv
<1>4. Typed'
  BY <1>1, <1>3 DEF IInv, Typed
<1>5. TablesOK(db')
  BY <1>1, ErasedOK DEF IInv
<1>6. \A g \in Handler : ~Applying(g)'
  BY <1>1, <1>3 DEF Quiet, Applying
<1>7. WorkOK'
  BY <1>1, <1>6 DEF WorkOK
<1>8. Steady
  BY <1>3 DEF Steady, ToBeForgotten
<1>9. (\A r \in Reader : ReadOK(r)') /\ CacheOK'
  BY <1>1, <1>8, Unwatched
<1> QED
  BY <1>1, <1>4, <1>5, <1>7, <1>9 DEF IInv

(* The generation moves, and with it nothing read before is current. *)
LEMMA GenerationMoves ==
  ASSUME IInv, NEW r \in Reader, reader' = reader, generation' = generation + 1
  PROVE  ReadOK(r)'
<1>1. reader[r].readAt \in Nat /\ generation \in Nat /\ reader[r].readAt <= generation
  BY DEF IInv, Typed, Question, ReadOK
<1>2. ~Unmoved(r)' /\ reader[r].readAt <= generation'
  BY <1>1 DEF Unmoved
<1> QED
  BY <1>2 DEF IInv, ReadOK

LEMMA ForgetKeeps ==
  ASSUME IInv, NEW h \in Handler, NEW s \in Subject, Forget(h, s)
  PROVE  IInv'
<1> DEFINE new == [handler[h] EXCEPT !.touched = @ \ {s}]
<1>1. /\ handler[h].phase = "forgetting" /\ s \in handler[h].touched
      /\ generation' = generation + 1
      /\ cache' = [q \in Asked |-> IF q \in ForgottenWith(s) THEN NotHeld ELSE cache[q]]
      /\ handler' = [handler EXCEPT ![h] = new]
      /\ UNCHANGED <<db, work, reader>>
  BY DEF Forget, IInv, Typed
<1>2. handler[h] \in Request
  BY DEF IInv, Typed
<1>3. new \in Request /\ new.phase = "forgetting" /\ new.touched = handler[h].touched \ {s}
  BY <1>1, <1>2 DEF Request
<1> HIDE DEF new
<1>4. /\ handler' \in [Handler -> Request] /\ handler'[h] = new
      /\ \A g \in Handler \ {h} : handler'[g] = handler[g]
  BY <1>1, <1>3, RequestMoves DEF IInv
<1>5. cache' \in [Asked -> Entry]
  <2>1. NotHeld \in Entry
    BY DEF NotHeld, Entry
  <2> QED
    BY <1>1, <2>1 DEF IInv, Typed
<1>6. Typed'
  BY <1>1, <1>4, <1>5 DEF IInv, Typed
<1>7. \A g \in Handler : Applying(g)' => Applying(g) /\ handler'[g] = handler[g]
  BY <1>3, <1>4 DEF Applying
<1>8. Quiet' => Quiet
  BY <1>1, <1>4 DEF Quiet
<1>9. WorkOK'
  BY <1>1, <1>7, <1>8 DEF IInv, WorkOK
<1>10. ASSUME NEW q \in Asked, q \notin ForgottenWith(s), ToBeForgotten(q)
       PROVE  ToBeForgotten(q)'
  <2>1. PICK g \in Handler :
          \/ handler[g].phase = "clearing"
          \/ handler[g].phase = "forgetting" /\ \E t \in handler[g].touched : q \in ForgottenWith(t)
    BY <1>10 DEF ToBeForgotten
  <2>2. CASE g # h
    BY <1>4, <2>1, <2>2 DEF ToBeForgotten
  <2>3. CASE g = h
    <3>1. PICK t \in handler[h].touched : q \in ForgottenWith(t)
      BY <1>1, <2>1, <2>3
    <3>2. t \in new.touched
      BY <1>3, <1>10, <3>1
    <3> QED
      BY <1>3, <1>4, <3>1, <3>2 DEF ToBeForgotten
  <2> QED
    BY <2>2, <2>3
<1>11. \A r \in Reader : ReadOK(r)'
  BY <1>1, GenerationMoves
<1>12. CacheOK'
  <2>1. \A q \in Asked : cache'[q].held =>
           q \notin ForgottenWith(s) /\ cache[q].held /\ cache'[q].summary = cache[q].summary
    BY <1>1 DEF NotHeld
  <2>2. Cardinality(Held(cache)') <= MaxCached
    BY <2>1, CacheSmaller DEF IInv, CacheOK, Typed
  <2>3. ASSUME NEW q \in Asked, cache'[q].held
        PROVE  /\ cache'[q].summary \in Answers
               /\ ~ToBeForgotten(q)' => cache'[q].summary = SummaryOf(db', q)
    <3>1. cache[q].summary \in Answers /\ Current(q, cache[q].summary)
      BY <2>1, <2>3 DEF IInv, CacheOK
    <3>2. ~ToBeForgotten(q)' => cache[q].summary = SummaryOf(db, q)
      BY <1>10, <2>1, <2>3, <3>1 DEF Current
    <3> QED
      BY <1>1, <2>1, <2>3, <3>1, <3>2
  <2> QED
    BY <2>2, <2>3 DEF CacheOK, Current
<1> QED
  BY <1>1, <1>6, <1>9, <1>11, <1>12 DEF IInv

LEMMA EmptyCache ==
  ASSUME cache' = [q \in Asked |-> NotHeld]
  PROVE  cache' \in [Asked -> Entry] /\ CacheOK'
<1>1. NotHeld \in Entry /\ ~NotHeld.held
  BY DEF NotHeld, Entry
<1>2. Held(cache)' = {}
  BY <1>1 DEF Held
<1>3. Cardinality(Held(cache)') = 0
  BY <1>2, FS_EmptySet
<1> QED
  BY <1>1, <1>3, RatingsAssumption DEF CacheOK

LEMMA ClearKeeps ==
  ASSUME IInv, NEW h \in Handler, Clear(h)
  PROVE  IInv'
<1>1. /\ handler[h].phase = "clearing"
      /\ cache' = [q \in Asked |-> NotHeld] /\ generation' = generation + 1
      /\ handler' = [handler EXCEPT ![h] = NoRequest]
      /\ UNCHANGED <<db, work, reader>>
  BY DEF Clear
<1>2. NoRequest \in Request /\ NoRequest.phase = "idle"
  BY DEF NoRequest, Request
<1>3. /\ handler' \in [Handler -> Request] /\ handler'[h] = NoRequest
      /\ \A g \in Handler \ {h} : handler'[g] = handler[g]
  BY <1>1, <1>2, RequestMoves DEF IInv
<1>4. cache' \in [Asked -> Entry] /\ CacheOK'
  BY <1>1, EmptyCache
<1>5. Typed'
  BY <1>1, <1>3, <1>4 DEF IInv, Typed
<1>6. \A g \in Handler : Applying(g)' => Applying(g) /\ handler'[g] = handler[g]
  BY <1>2, <1>3 DEF Applying
<1>7. Quiet' => Quiet
  BY <1>1, <1>3 DEF Quiet
<1>8. WorkOK'
  BY <1>1, <1>6, <1>7 DEF IInv, WorkOK
<1>9. \A r \in Reader : ReadOK(r)'
  BY <1>1, GenerationMoves
<1> QED
  BY <1>1, <1>4, <1>5, <1>8, <1>9 DEF IInv
-----------------------------------------------------------------------------
(* The requests that read, and the cache. *)

(* A request that only reads disturbs nobody else. *)
LEMMA ReaderMoves ==
  ASSUME IInv, NEW r \in Reader, NEW new \in Question,
         reader' = [reader EXCEPT ![r] = new],
         UNCHANGED <<db, work, handler, cache, generation>>, ReadOK(r)'
  PROVE  IInv'
<1>1. /\ reader' \in [Reader -> Question]
      /\ \A q \in Reader \ {r} : reader'[q] = reader[q]
  BY DEF IInv, Typed
<1>2. Typed'
  BY <1>1 DEF IInv, Typed
<1>3. \A q \in Asked : ToBeForgotten(q)' <=> ToBeForgotten(q)
  BY DEF ToBeForgotten
<1>4. Steady
  BY <1>3 DEF Steady
<1>5. \A q \in Reader : ReadOK(q)'
  BY <1>1, <1>4, ReadersStay DEF IInv
<1>6. CacheOK'
  BY <1>4, CacheStays DEF IInv
<1>7. WorkOK'
  BY DEF IInv, WorkOK, Quiet, Applying
<1> QED
  BY <1>2, <1>5, <1>6, <1>7 DEF IInv

LEMMA QuestionIs ==
  ASSUME IInv, NEW r \in Reader
  PROVE  /\ reader[r] \in Question
         /\ reader[r] = [phase |-> reader[r].phase, ask |-> reader[r].ask,
                         missing |-> reader[r].missing, readAt |-> reader[r].readAt,
                         fresh |-> reader[r].fresh]
         /\ reader \in [Reader -> Question]
<1>1. reader[r] \in Question
  BY DEF IInv, Typed
<1> QED
  BY <1>1 DEF Question, IInv, Typed

LEMMA NoQuestionOK ==
  /\ NoQuestion \in Question
  /\ NoQuestion.phase = "idle" /\ NoQuestion.readAt = 0
  BY DEF NoQuestion, Question

LEMMA NotReading ==
  ASSUME IInv, NEW r \in Reader, NEW new \in Question, new.phase # "reading", new.readAt = 0,
         reader' = [reader EXCEPT ![r] = new],
         UNCHANGED <<db, work, handler, cache, generation>>
  PROVE  IInv'
<1>1. reader'[r] = new
  BY QuestionIs
<1>2. ReadOK(r)'
  BY <1>1 DEF ReadOK, IInv, Typed
<1> QED
  BY <1>2, ReaderMoves

LEMMA AskKeeps ==
  ASSUME IInv, NEW r \in Reader, NEW Q \in SUBSET Asked, Ask(r, Q)
  PROVE  IInv'
<1> DEFINE new == [NoQuestion EXCEPT !.phase = "looking", !.ask = Q]
<1>1. new \in Question /\ new.phase = "looking" /\ new.readAt = 0
  BY DEF NoQuestion, Question
<1>2. reader' = [reader EXCEPT ![r] = new]
  BY DEF Ask
<1> HIDE DEF new
<1> QED
  BY <1>1, <1>2, NotReading DEF Ask

LEMMA LookKeeps ==
  ASSUME IInv, NEW r \in Reader, NEW q \in Asked, Look(r, q)
  PROVE  IInv'
<1>1. PICK missing \in SUBSET Asked :
         reader' = [reader EXCEPT ![r] = [reader[r] EXCEPT !.ask = reader[r].ask \ {q},
                                                           !.missing = missing]]
  <2>1. reader[r].missing \cup {q} \in SUBSET Asked /\ reader[r].missing \in SUBSET Asked
    BY QuestionIs DEF Question
  <2>2. CASE cache[q].held /\ ~cache[q].expired
    BY <2>1, <2>2 DEF Look
  <2>3. CASE ~(cache[q].held /\ ~cache[q].expired)
    BY <2>1, <2>3 DEF Look
  <2> QED
    BY <2>2, <2>3
<1> DEFINE new == [reader[r] EXCEPT !.ask = reader[r].ask \ {q}, !.missing = missing]
<1>2. reader[r] \in Question /\ reader[r].phase = "looking"
  BY QuestionIs DEF Look
<1>3. new \in Question /\ new.phase = "looking" /\ new.readAt = reader[r].readAt
  BY <1>2 DEF Question
<1>4. reader' = [reader EXCEPT ![r] = new]
  BY <1>1
<1> HIDE DEF new
<1>5. reader'[r] = new
  BY <1>4, QuestionIs
<1>6. ReadOK(r)'
  BY <1>3, <1>5 DEF IInv, ReadOK, Look
<1> QED
  BY <1>3, <1>4, <1>6, ReaderMoves DEF Look

LEMMA LookedKeeps ==
  ASSUME IInv, NEW r \in Reader, Looked(r)
  PROVE  IInv'
<1>1. CASE reader[r].missing = {}
  <2>1. reader' = [reader EXCEPT ![r] = NoQuestion]
    BY <1>1, QuestionIs DEF Looked
  <2> QED
    BY <2>1, NoQuestionOK, NotReading DEF Looked
<1>2. CASE reader[r].missing # {}
  <2> DEFINE new == [reader[r] EXCEPT !.phase = "reading", !.readAt = generation,
                                      !.ask = reader[r].missing]
  <2>1. reader' = [reader EXCEPT ![r] = new]
    BY <1>2, QuestionIs DEF Looked
  <2>2. reader[r] \in Question /\ generation \in Nat
    BY QuestionIs DEF IInv, Typed
  <2>3. /\ new \in Question /\ new.readAt = generation
        /\ new.ask = reader[r].missing /\ new.missing = reader[r].missing
    BY <2>2 DEF Question
  <2> HIDE DEF new
  <2>4. reader'[r] = new
    BY <2>1, QuestionIs
  <2>5. ReadOK(r)'
    BY <2>2, <2>3, <2>4 DEF ReadOK, Looked
  <2> QED
    BY <2>1, <2>3, <2>5, ReaderMoves DEF Looked
<1> QED
  BY <1>1, <1>2

(* Outside any transaction, what is read is what is committed. *)
LEMMA ReadKeeps ==
  ASSUME IInv, NEW r \in Reader, NEW q \in Asked, Read(r, q)
  PROVE  IInv'
<1>1. PICK summary \in Answers : summary = SummaryOf(db, q)
  BY SummaryType DEF IInv
<1>2. PICK old \in Question : old = reader[r]
  BY QuestionIs
<1>3. PICK fresh : fresh = [old.fresh EXCEPT ![q] = summary]
  OBVIOUS
<1>4. /\ fresh \in [Asked -> Answers \cup {NotRead}] /\ fresh[q] = summary
      /\ \A p \in Asked \ {q} : fresh[p] = old.fresh[p]
  BY <1>2, <1>3 DEF Question
<1>5. PICK new : new = [old EXCEPT !.ask = old.ask \ {q}, !.fresh = fresh]
  OBVIOUS
<1>6. reader' = [reader EXCEPT ![r] = new]
  <2>1. reader' = [reader EXCEPT ![r] = [old EXCEPT !.ask = old.ask \ {q},
                                                    !.fresh = [old.fresh EXCEPT ![q] = summary]]]
    BY <1>1, <1>2, QuestionIs DEF Read
  <2> QED
    BY <2>1, <1>3, <1>5
<1>7. /\ new \in Question /\ new.readAt = old.readAt /\ new.phase = old.phase
      /\ new.ask = old.ask \ {q} /\ new.missing = old.missing /\ new.fresh = fresh
  BY <1>4, <1>5 DEF Question
<1>8. reader'[r] = new
  BY <1>6, QuestionIs
<1>9. ReadOK(r)'
  <2>1. ReadOK(r)
    BY DEF IInv
  <2>2. old.missing \subseteq Asked /\ old.phase = "reading"
    BY <1>2 DEF Question, Read
  <2>3. ASSUME NEW p, NEW x, Current(p, x)
        PROVE  Current(p, x)'
    BY <2>3 DEF Current, ToBeForgotten, Read
  <2>4. ASSUME NEW p \in new.missing \ new.ask
        PROVE  /\ fresh[p] \in Answers
               /\ Unmoved(r)' => Current(p, fresh[p])'
    <3>1. CASE p = q
      <4>1. Current(q, summary)
        BY <1>1 DEF Current
      <4> QED
        BY <1>4, <2>3, <3>1, <4>1
    <3>2. CASE p # q
      <4>1. p \in old.missing \ old.ask /\ p \in Asked
        BY <1>7, <2>2, <2>4, <3>2
      <4>2. fresh[p] = old.fresh[p]
        BY <1>4, <3>2, <4>1
      <4>3. Unmoved(r)' => Unmoved(r)
        BY <1>2, <1>7, <1>8 DEF Unmoved, Read
      <4>4. old.fresh[p] \in Answers /\ (Unmoved(r) => Current(p, old.fresh[p]))
        BY <1>2, <2>1, <2>2, <4>1 DEF ReadOK
      <4>5. CASE Unmoved(r)
        <5>1. Current(p, old.fresh[p])'
          BY <2>3, <4>4, <4>5
        <5> QED
          BY <4>2, <4>4, <5>1
      <4> QED
        BY <4>2, <4>3, <4>4, <4>5
    <3> QED
      BY <3>1, <3>2
  <2>5. new.ask \subseteq new.missing /\ new.readAt <= generation'
    BY <1>2, <1>7, <2>1, <2>2 DEF ReadOK, Read
  <2> QED
    BY <1>7, <1>8, <2>4, <2>5 DEF ReadOK
<1> QED
  BY <1>6, <1>7, <1>9, ReaderMoves DEF Read

LEMMA ReadFailsKeeps ==
  ASSUME IInv, NEW r \in Reader, ReadFails(r)
  PROVE  IInv'
  BY NoQuestionOK, NotReading DEF ReadFails
-----------------------------------------------------------------------------
(* Answers are cached, expire and are swept. *)

LEMMA CacheTyped ==
  ASSUME IInv, NEW p \in Asked
  PROVE  cache[p] \in Entry /\ cache \in [Asked -> Entry]
BY DEF IInv, Typed

LEMMA NotHeldOK == NotHeld \in Entry /\ ~NotHeld.held
BY DEF NotHeld, Entry

(* The entry of q is the new answer or what it was; the others were held.   *)
LEMMA SweptIs ==
  ASSUME NEW c \in [Asked -> Entry]
  PROVE  /\ Swept(c) \in [Asked -> Entry]
         /\ \A p \in Asked : Swept(c)[p] = c[p] \/ ~Swept(c)[p].held
         /\ Held(Swept(c)) \subseteq Held(c)
<1>1. Swept(c) \in [Asked -> Entry]
  BY NotHeldOK DEF Swept
<1>2. \A p \in Asked : Swept(c)[p] = c[p] \/ ~Swept(c)[p].held
  BY NotHeldOK DEF Swept
<1> QED
  BY <1>1, <1>2 DEF Held

LEMMA HeldFinite ==
  ASSUME NEW c
  PROVE  /\ IsFiniteSet(Held(c))
         /\ Cardinality(Held(c)) \in Nat
         /\ Held(c) \subseteq Asked
<1>1. Held(c) \subseteq Asked
  BY DEF Held
<1>2. IsFiniteSet(Asked)
  BY Finitely
<1>3. IsFiniteSet(Held(c))
  BY <1>1, <1>2, FS_Subset
<1> QED
  BY <1>1, <1>3, FS_CardinalityType

(* There is room for q in the cache c, and that is where its answer goes.   *)
Room(c, q) == \/ Cardinality(Held(c)) < MaxCached
              \/ q \in Held(c) /\ Cardinality(Held(c)) <= MaxCached

Filled(c, q, summary) == [c EXCEPT ![q] = [held |-> TRUE, expired |-> FALSE, summary |-> summary]]

(* One entry more is one more held, and none when it was held already. *)
LEMMA PutIs ==
  ASSUME NEW c \in [Asked -> Entry], NEW q \in Asked, NEW summary \in Answers,
         Room(c, q), NEW d, d = Filled(c, q, summary)
  PROVE  /\ d \in [Asked -> Entry]
         /\ Cardinality(Held(d)) <= MaxCached
         /\ d[q].summary = summary
         /\ \A p \in Asked \ {q} : d[p] = c[p]
<1>1. d \in [Asked -> Entry] /\ d[q].held /\ d[q].summary = summary
  BY DEF Entry, Filled
<1>2. \A p \in Asked \ {q} : d[p] = c[p]
  BY DEF Filled
<1>3. Held(d) = Held(c) \cup {q}
  BY <1>1, <1>2 DEF Held
<1>4. IsFiniteSet(Held(c)) /\ Cardinality(Held(c)) \in Nat /\ MaxCached \in Nat
  BY HeldFinite, RatingsAssumption
<1>5. CASE q \in Held(c)
  <2>1. Held(d) = Held(c)
    BY <1>3, <1>5
  <2> QED
    BY <1>1, <1>2, <1>4, <2>1 DEF Room
<1>6. CASE q \notin Held(c)
  <2>1. Cardinality(Held(d)) = Cardinality(Held(c)) + 1
    BY <1>3, <1>4, <1>6, FS_AddElement
  <2> QED
    BY <1>1, <1>2, <1>4, <1>6, <2>1 DEF Room
<1> QED
  BY <1>5, <1>6

(* put never holds more than maxCachedSummaries, whatever the sweep freed. *)
LEMMA StoredIs ==
  ASSUME NEW c \in [Asked -> Entry], NEW q \in Asked, NEW summary \in Answers,
         Cardinality(Held(c)) <= MaxCached,
         NEW d, d = Stored(c, q, summary)
  PROVE  /\ d \in [Asked -> Entry]
         /\ Cardinality(Held(d)) <= MaxCached
         /\ \A p \in Asked : d[p].held => (p = q /\ d[p].summary = summary) \/ d[p] = c[p]
<1> DEFINE roomy == IF q \notin Held(c) /\ Cardinality(Held(c)) >= MaxCached THEN Swept(c) ELSE c
<1>1. /\ roomy \in [Asked -> Entry]
      /\ \A p \in Asked : roomy[p] = c[p] \/ ~roomy[p].held
      /\ Held(roomy) \subseteq Held(c)
  BY SweptIs
<1>2. q \in Held(c) => roomy = c
  OBVIOUS
<1>3. d = IF q \notin Held(c) /\ Cardinality(Held(roomy)) >= MaxCached
          THEN roomy
          ELSE [roomy EXCEPT ![q] = [held |-> TRUE, expired |-> FALSE, summary |-> summary]]
  BY DEF Stored
<1> HIDE DEF roomy
<1>4. Cardinality(Held(c)) \in Nat /\ Cardinality(Held(roomy)) \in Nat /\ MaxCached \in Nat
  BY HeldFinite, RatingsAssumption
<1>5. Cardinality(Held(roomy)) <= MaxCached
  <2>1. IsFiniteSet(Held(c))
    BY HeldFinite
  <2>2. Cardinality(Held(roomy)) <= Cardinality(Held(c))
    BY <1>1, <2>1, FS_Subset
  <2> QED
    BY <1>4, <2>2
<1>6. CASE q \notin Held(c) /\ Cardinality(Held(roomy)) >= MaxCached
  <2>1. d = roomy
    BY <1>3, <1>6
  <2> QED
    BY <1>1, <1>5, <2>1
<1>7. CASE ~(q \notin Held(c) /\ Cardinality(Held(roomy)) >= MaxCached)
  <2>1. d = [roomy EXCEPT ![q] = [held |-> TRUE, expired |-> FALSE, summary |-> summary]]
    BY <1>3, <1>7
  <2>2. \/ Cardinality(Held(roomy)) < MaxCached
        \/ q \in Held(roomy) /\ Cardinality(Held(roomy)) <= MaxCached
    BY <1>2, <1>4, <1>5, <1>7
  <2>3. /\ d \in [Asked -> Entry]
        /\ Cardinality(Held(d)) <= MaxCached
        /\ d[q].summary = summary
        /\ \A p \in Asked \ {q} : d[p] = roomy[p]
    <3>1. PICK b \in [Asked -> Entry] : b = roomy
      BY <1>1
    <3>2. d = Filled(b, q, summary)
      BY <2>1, <3>1 DEF Filled
    <3>3. Room(b, q)
      BY <2>2, <3>1 DEF Room
    <3>4. /\ d \in [Asked -> Entry]
          /\ Cardinality(Held(d)) <= MaxCached
          /\ d[q].summary = summary
          /\ \A p \in Asked \ {q} : d[p] = b[p]
      BY <3>2, <3>3, PutIs
    <3> QED
      BY <3>1, <3>4
  <2>4. ASSUME NEW p \in Asked, d[p].held
        PROVE  (p = q /\ d[p].summary = summary) \/ d[p] = c[p]
    <3>1. CASE p = q
      BY <2>3, <3>1
    <3>2. CASE p # q
      <4>1. d[p] = roomy[p]
        BY <2>3, <3>2
      <4> QED
        BY <1>1, <2>4, <4>1
    <3> QED
      BY <3>1, <3>2
  <2> QED
    BY <2>3, <2>4
<1> QED
  BY <1>6, <1>7

(* What a request read is stored while the generation is the one it noted.  *)
LEMMA PutKeeps ==
  ASSUME IInv, NEW r \in Reader, NEW q \in Asked, Put(r, q)
  PROVE  IInv'
<1>1. PICK old \in Question : old = reader[r]
  BY QuestionIs
<1>2. /\ old.phase = "reading" /\ old.ask = {} /\ q \in old.missing /\ old.missing \subseteq Asked
      /\ db' = db /\ work' = work /\ handler' = handler /\ generation' = generation
  BY <1>1 DEF Put, Question
<1>3. ASSUME NEW p \in old.missing
      PROVE  old.fresh[p] \in Answers /\ (Unmoved(r) => Current(p, old.fresh[p]))
  BY <1>1, <1>2, <1>3 DEF IInv, ReadOK
<1>4. ASSUME NEW p, NEW x, Current(p, x)
      PROVE  Current(p, x)'
  BY <1>2, <1>4 DEF Current, ToBeForgotten
<1>5. cache \in [Asked -> Entry] /\ CacheOK
  BY DEF IInv, Typed
<1>6. cache' \in [Asked -> Entry] /\ CacheOK'
  <2>1. CASE ~Unmoved(r)
    <3>1. cache' = cache
      BY <2>1 DEF Put
    <3>2. ASSUME NEW p \in Asked, cache'[p].held
          PROVE  cache'[p].summary \in Answers /\ Current(p, cache[p].summary)
      BY <1>5, <3>1, <3>2 DEF CacheOK
    <3>3. Cardinality(Held(cache)') <= MaxCached
      BY <1>5, <3>1 DEF CacheOK, Held
    <3>4. ASSUME NEW p \in Asked, cache'[p].held
          PROVE  Current(p, cache[p].summary)'
      <4>1. PICK x : x = cache[p].summary
        OBVIOUS
      <4>2. Current(p, x)'
        BY <1>4, <3>2, <3>4, <4>1
      <4> QED
        BY <3>1, <4>1, <4>2
    <3> QED
      BY <1>5, <3>1, <3>2, <3>3, <3>4 DEF CacheOK
  <2>2. CASE Unmoved(r)
    <3>1. PICK summary \in Answers : summary = old.fresh[q]
      BY <1>2, <1>3
    <3>2. PICK c, d : c = cache /\ d = cache'
      OBVIOUS
    <3>3. d = Stored(c, q, summary)
      BY <1>1, <2>2, <3>1, <3>2 DEF Put
    <3>4. c \in [Asked -> Entry] /\ Cardinality(Held(c)) <= MaxCached
      BY <1>5, <3>2 DEF CacheOK
    <3>5. /\ d \in [Asked -> Entry]
          /\ Cardinality(Held(d)) <= MaxCached
          /\ \A p \in Asked : d[p].held => (p = q /\ d[p].summary = summary) \/ d[p] = c[p]
      BY <3>3, <3>4, StoredIs
    <3>6. ASSUME NEW p \in Asked, d[p].held
          PROVE  d[p].summary \in Answers /\ Current(p, d[p].summary)'
      <4>1. CASE p = q /\ d[p].summary = summary
        <5>1. Current(q, summary)
          BY <1>2, <1>3, <2>2, <3>1
        <5> QED
          BY <1>4, <4>1, <5>1
      <4>2. CASE d[p] = c[p]
        <5>1. c[p].summary \in Answers /\ Current(p, c[p].summary)
          BY <1>5, <3>2, <3>6, <4>2 DEF CacheOK
        <5>2. Current(p, c[p].summary)'
          BY <1>4, <5>1
        <5> QED
          BY <4>2, <5>1, <5>2
      <4> QED
        BY <3>5, <3>6, <4>1, <4>2
    <3> QED
      BY <3>2, <3>5, <3>6 DEF CacheOK, Held
  <2> QED
    BY <2>1, <2>2
<1>7. PICK new : new = IF old.missing = {q} THEN NoQuestion
                       ELSE [old EXCEPT !.missing = old.missing \ {q},
                                        !.fresh = [old.fresh EXCEPT ![q] = NotRead]]
  OBVIOUS
<1>8. reader' = [reader EXCEPT ![r] = new]
  <2>1. CASE old.missing = {q}
    <3>1. reader' = [reader EXCEPT ![r] = NoQuestion]
      BY <1>1, <2>1, QuestionIs DEF Put
    <3> QED
      BY <1>7, <2>1, <3>1
  <2>2. CASE old.missing # {q}
    <3>1. reader' = [reader EXCEPT ![r] = [old EXCEPT !.missing = old.missing \ {q},
                                                      !.fresh = [old.fresh EXCEPT ![q] = NotRead]]]
      BY <1>1, <2>2, QuestionIs DEF Put
    <3>2. new = [old EXCEPT !.missing = old.missing \ {q},
                            !.fresh = [old.fresh EXCEPT ![q] = NotRead]]
      BY <1>7, <2>2
    <3> QED
      BY <3>1, <3>2
  <2> QED
    BY <2>1, <2>2
<1>9. reader'[r] = new /\ \A p \in Reader \ {r} : reader'[p] = reader[p]
  BY <1>8, QuestionIs
<1>10. new \in Question /\ ReadOK(r)'
  <2>1. CASE old.missing = {q}
    <3>1. new = NoQuestion
      BY <1>7, <2>1
    <3>2. reader'[r].phase = "idle" /\ reader'[r].readAt = 0 /\ generation' \in Nat
      BY <1>2, <1>9, <3>1, NoQuestionOK DEF IInv, Typed
    <3>3. new \in Question
      BY <3>1, NoQuestionOK
    <3> QED
      BY <3>2, <3>3 DEF ReadOK
  <2>2. CASE old.missing # {q}
    <3>1. PICK fresh : fresh = [old.fresh EXCEPT ![q] = NotRead]
      OBVIOUS
    <3>2. /\ fresh \in [Asked -> Answers \cup {NotRead}]
          /\ \A p \in Asked \ {q} : fresh[p] = old.fresh[p]
      BY <3>1 DEF Question
    <3>3. new = [old EXCEPT !.missing = old.missing \ {q}, !.fresh = fresh]
      BY <1>7, <2>2, <3>1
    <3>4. /\ new \in Question /\ new.ask = {} /\ new.missing = old.missing \ {q}
          /\ new.readAt = old.readAt /\ new.fresh = fresh
      BY <1>2, <3>2, <3>3 DEF Question
    <3>5. ASSUME NEW p \in new.missing \ new.ask
          PROVE  fresh[p] \in Answers /\ (Unmoved(r)' => Current(p, fresh[p])')
      <4>1. p \in old.missing /\ p \in Asked /\ p # q
        BY <1>2, <3>4, <3>5
      <4>2. fresh[p] = old.fresh[p]
        BY <3>2, <4>1
      <4>3. Unmoved(r)' => Unmoved(r)
        BY <1>1, <1>2, <1>9, <3>4 DEF Unmoved
      <4>4. old.fresh[p] \in Answers /\ (Unmoved(r) => Current(p, old.fresh[p]))
        BY <1>3, <4>1
      <4>5. CASE Unmoved(r)
        <5>1. Current(p, old.fresh[p])'
          BY <1>4, <4>4, <4>5
        <5> QED
          BY <4>2, <4>4, <5>1
      <4> QED
        BY <4>2, <4>3, <4>4, <4>5
    <3>6. new.readAt <= generation'
      BY <1>1, <1>2, <3>4 DEF IInv, ReadOK
    <3>7. new.ask \subseteq new.missing
      BY <3>4
    <3> QED
      BY <1>9, <3>4, <3>5, <3>6, <3>7 DEF ReadOK
  <2> QED
    BY <2>1, <2>2
<1>11. Steady
  <2>1. \A p \in Asked : ToBeForgotten(p)' <=> ToBeForgotten(p)
    BY <1>2 DEF ToBeForgotten
  <2> QED
    BY <1>2, <2>1 DEF Steady
<1>12. \A p \in Reader : ReadOK(p)'
  BY <1>2, <1>9, <1>10, <1>11, ReadersStay DEF IInv
<1>13. Typed'
  BY <1>2, <1>6, <1>8, <1>10 DEF IInv, Typed
<1>14. WorkOK'
  BY <1>2 DEF IInv, WorkOK, Quiet, Applying
<1> QED
  BY <1>2, <1>6, <1>12, <1>13, <1>14 DEF IInv

(* The cache alone moves, and holds nothing it did not hold. *)
LEMMA CacheMoves ==
  ASSUME IInv, cache' \in [Asked -> Entry],
         \A p \in Asked : cache'[p].held => cache[p].held /\ cache'[p].summary = cache[p].summary,
         db' = db, work' = work, handler' = handler, reader' = reader, generation' = generation
  PROVE  IInv'
<1>1. Steady
  BY DEF Steady, ToBeForgotten
<1>2. CacheOK'
  BY <1>1, CacheShrinks DEF IInv
<1>3. \A r \in Reader : ReadOK(r)'
  BY <1>1, ReadersStay DEF IInv
<1>4. Typed'
  BY DEF IInv, Typed
<1>5. WorkOK'
  BY DEF IInv, WorkOK, Quiet, Applying
<1> QED
  BY <1>2, <1>3, <1>4, <1>5 DEF IInv

LEMMA ExpireKeeps ==
  ASSUME IInv, NEW q \in Asked, Expire(q)
  PROVE  IInv'
<1>1. /\ cache' \in [Asked -> Entry]
      /\ \A p \in Asked : cache'[p].held = cache[p].held /\ cache'[p].summary = cache[p].summary
  <2>1. cache[q] \in Entry /\ cache \in [Asked -> Entry]
    BY CacheTyped
  <2>2. PICK e : e = [cache[q] EXCEPT !.expired = TRUE]
    OBVIOUS
  <2>3. e \in Entry /\ e.held = cache[q].held /\ e.summary = cache[q].summary
    BY <2>1, <2>2 DEF Entry
  <2>4. cache' = [cache EXCEPT ![q] = e]
    BY <2>1, <2>2 DEF Expire
  <2> QED
    BY <2>1, <2>3, <2>4
<1> QED
  BY <1>1, CacheMoves DEF Expire

LEMMA SweepKeeps ==
  ASSUME IInv, Sweep
  PROVE  IInv'
<1>1. PICK c, d : c = cache /\ d = cache'
  OBVIOUS
<1>2. c \in [Asked -> Entry] /\ d = Swept(c)
  BY <1>1 DEF IInv, Typed, Sweep
<1>3. d \in [Asked -> Entry] /\ \A p \in Asked : d[p] = c[p] \/ ~d[p].held
  BY <1>2, SweptIs
<1>4. /\ cache' \in [Asked -> Entry]
      /\ \A p \in Asked : cache'[p].held => cache[p].held /\ cache'[p].summary = cache[p].summary
  BY <1>1, <1>3
<1> QED
  BY <1>4, CacheMoves DEF Sweep

(* Only what was committed is left, and nobody to be told of it.            *)
LEMMA RestartKeeps ==
  ASSUME IInv, Restart
  PROVE  IInv'
<1>1. TablesOK(db)' /\ TablesOK(work)' /\ work' = db'
  BY DEF IInv, Restart, TablesOK, Tallies
<1>2. Typed'
  <2>1. NoRequest \in Request
    BY DEF NoRequest, Request
  <2> QED
    BY <2>1, NoQuestionOK, NotHeldOK DEF Restart, Typed
<1>3. WorkOK'
  <2>1. \A h \in Handler : ~Applying(h)'
    BY DEF Restart, Applying, NoRequest
  <2> QED
    BY <1>1, <2>1 DEF WorkOK
<1>4. \A r \in Reader : ReadOK(r)'
  BY NoQuestionOK DEF Restart, ReadOK
<1>5. CacheOK'
  <2>1. \A q \in Asked : ~cache'[q].held
    BY NotHeldOK DEF Restart
  <2>2. Held(cache)' = {}
    BY <2>1 DEF Held
  <2> QED
    BY <2>1, <2>2, FS_EmptySet, RatingsAssumption DEF CacheOK
<1> QED
  BY <1>1, <1>2, <1>3, <1>4, <1>5 DEF IInv

-----------------------------------------------------------------------------
LEMMA WriteKeeps ==
  ASSUME IInv, NEW h \in Handler, Write(h)
  PROVE  IInv'
<1>1. ASSUME NEW a \in Account, Begin(h, a)
      PROVE  IInv'
  BY <1>1, BeginKeeps
<1>2. ASSUME NEW a \in Account, DeleteAccount(h, a)
      PROVE  IInv'
  BY <1>2, DeleteAccountKeeps
<1>3. ASSUME NEW s \in Subject, NEW score \in Score, Rate(h, s, score)
      PROVE  IInv'
  BY <1>3, RateKeeps
<1>4. ASSUME NEW s \in Subject, Withdraw(h, s)
      PROVE  IInv'
  BY <1>4, WithdrawKeeps
<1>5. ASSUME NEW s \in Subject, Forget(h, s)
      PROVE  IInv'
  BY <1>5, ForgetKeeps
<1>6. CASE Commit(h)
  BY <1>6, CommitKeeps
<1>7. CASE Rollback(h)
  BY <1>7, RollbackKeeps
<1>8. CASE Pushed(h)
  BY <1>8, PushedKeeps
<1>9. CASE Clear(h)
  BY <1>9, ClearKeeps
<1> QED
  BY <1>1, <1>2, <1>3, <1>4, <1>5, <1>6, <1>7, <1>8, <1>9 DEF Write

LEMMA ServeKeeps ==
  ASSUME IInv, NEW r \in Reader, Serve(r)
  PROVE  IInv'
<1>1. ASSUME NEW Q \in SUBSET Asked, Ask(r, Q)
      PROVE  IInv'
  BY <1>1, AskKeeps
<1>2. ASSUME NEW q \in Asked, Look(r, q)
      PROVE  IInv'
  BY <1>2, LookKeeps
<1>3. ASSUME NEW q \in Asked, Read(r, q)
      PROVE  IInv'
  BY <1>3, ReadKeeps
<1>4. ASSUME NEW q \in Asked, Put(r, q)
      PROVE  IInv'
  BY <1>4, PutKeeps
<1>5. CASE Looked(r)
  BY <1>5, LookedKeeps
<1>6. CASE ReadFails(r)
  BY <1>6, ReadFailsKeeps
<1> QED
  BY <1>1, <1>2, <1>3, <1>4, <1>5, <1>6 DEF Serve

LEMMA StutterKeeps ==
  ASSUME IInv, UNCHANGED vars
  PROVE  IInv'
<1>1. db' = db /\ work' = work /\ handler' = handler /\ reader' = reader
      /\ cache' = cache /\ generation' = generation
  BY DEF vars
<1>2. /\ cache' \in [Asked -> Entry]
      /\ \A p \in Asked : cache'[p].held => cache[p].held /\ cache'[p].summary = cache[p].summary
  BY <1>1 DEF IInv, Typed
<1> QED
  BY <1>1, <1>2, CacheMoves

LEMMA Inductive == Spec => []IInv
<1>1. ASSUME IInv, [Next]_vars
      PROVE  IInv'
  <2>1. ASSUME NEW h \in Handler, Write(h)
        PROVE  IInv'
    BY <1>1, <2>1, WriteKeeps
  <2>2. ASSUME NEW r \in Reader, Serve(r)
        PROVE  IInv'
    BY <1>1, <2>2, ServeKeeps
  <2>3. ASSUME NEW q \in Asked, Expire(q)
        PROVE  IInv'
    BY <1>1, <2>3, ExpireKeeps
  <2>4. CASE Sweep
    BY <1>1, <2>4, SweepKeeps
  <2>5. CASE Restart
    BY <1>1, <2>5, RestartKeeps
  <2>6. CASE UNCHANGED vars
    BY <1>1, <2>6, StutterKeeps
  <2> QED
    BY <1>1, <2>1, <2>2, <2>3, <2>4, <2>5, <2>6 DEF Next
<1> QED
  BY <1>1, InitIInv, PTL DEF Spec

-----------------------------------------------------------------------------
(* What the runs check. *)

LEMMA InvTyped == IInv => RatingsTypeOK
<1> SUFFICES ASSUME IInv PROVE RatingsTypeOK
  OBVIOUS
<1>1. db \in Rows /\ work \in Rows
  BY DEF IInv, TablesOK
<1>2. generation \in Nat /\ Cardinality(Held(cache)) <= MaxCached
  BY DEF IInv, Typed, CacheOK
<1>3. \A q \in Asked : cache[q].held => cache[q].summary # NotRead
  BY AnswersAreRead DEF IInv, CacheOK
<1>4. \A r \in Reader : reader[r].ask \cup reader[r].missing \subseteq Asked
  BY QuestionIs DEF Question
<1>5. ASSUME NEW h \in Handler
      PROVE  handler[h].touched \subseteq Subject
  <2>1. handler[h] \in Request
    BY DEF IInv, Typed
  <2> QED
    BY <2>1 DEF Request
<1> QED
  BY <1>1, <1>2, <1>3, <1>4, <1>5 DEF RatingsTypeOK

LEMMA InvCounted == IInv => SummaryMatches
<1> SUFFICES ASSUME IInv, NEW s \in Subject
             PROVE  /\ \A c \in Score : db.summary[s].h[c] = Cardinality(RatedBy(s, c))
                    /\ db.summary[s].count =
                          SumFunction([c \in Score |-> Cardinality(RatedBy(s, c))])
                    /\ db.summary[s].sum =
                          SumFunction([c \in Score |-> c * Cardinality(RatedBy(s, c))])
  BY InvTyped DEF SummaryMatches
<1>1. Tallies(db.summary[s], Recount(db.account, db.record, s))
  BY DEF IInv, TablesOK
<1>2. PICK K : K = Recount(db.account, db.record, s)
  OBVIOUS
<1>3. K = [c \in Score |-> Cardinality(RatedBy(s, c))]
  BY <1>2 DEF Recount, Voters, RatedBy
<1>4. [c \in Score |-> c * K[c]] = [c \in Score |-> c * Cardinality(RatedBy(s, c))]
  BY <1>3
<1> QED
  BY <1>1, <1>2, <1>3, <1>4 DEF Tallies

(* Type correctness; with it, no count, sum or histogram bin that a push, a  *)
(* withdrawal or an account's deletion subtracts from goes below zero, and   *)
(* the cache of summaries never exceeds its bound.                           *)
THEOREM RatingsTypeCorrect == Spec => []RatingsTypeOK
  BY Inductive, InvTyped, PTL

(* Every committed summary is a recount of the live ratings of the accounts  *)
(* that exist, whatever was re-rated, withdrawn, rolled back or deleted.     *)
THEOREM SummariesCounted == Spec => []SummaryMatches
  BY Inductive, InvCounted, PTL

(* Between a commit and its own forget aside, a cached summary is what the   *)
(* database would answer, however many requests read and fill the cache.     *)
THEOREM CacheNeverStale == Spec => []CacheFresh
<1>1. IInv => CacheFresh
  BY DEF IInv, CacheOK, Current, CacheFresh
<1> QED
  BY <1>1, Inductive, PTL
=============================================================================

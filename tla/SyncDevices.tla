---------------------------- MODULE SyncDevices ----------------------------
(***************************************************************************)
(* Browsers that edit: syncOnce (web/src/lib/sync/engine.ts) over its      *)
(* IndexedDB ports (ports.ts), several browsers of one account, a user who *)
(* edits and deletes at any moment, and a network that loses requests,     *)
(* loses answers and delivers late.                                        *)
(*                                                                         *)
(* Change detection is by digest: a row and the digest of what the server  *)
(* last confirmed.  The server is AccountFeed's: a push is one step, and   *)
(* how it gets to be one is module SyncStore.  Paging, the tombstone       *)
(* horizon and upgrades are module SyncFeed: a pull here is one page.      *)
(***************************************************************************)
EXTENDS Integers, FiniteSets

CONSTANTS Device,       \* browsers signed in to the account
          Key,          \* (collection, id) pairs
          Body,         \* bodies, as the number their merge rule compares
          NoBody,       \* no row, or a tombstone
          Rule,         \* the merge rule of each key's collection
          Cites,        \* the play a rating cites as evidence
          TableOrder,   \* pairs of keys, in the order of COLLECTIONS
          Refusals,     \* outcomes besides "applied" the server may give
          MaxRevision,  \* bounds, for TLC
          MaxEdits,
          MaxFaults

ASSUME DevicesAssumption ==
    /\ Body \subseteq Nat /\ NoBody \notin Body
    /\ Rule \in [Key -> {"take", "latest", "earliest", "event"}]
    /\ Cites \in [Key -> SUBSET Key]
    /\ TableOrder \subseteq Key \X Key
    /\ Refusals \subseteq {"rejected", "deferred"}
    /\ {MaxRevision, MaxEdits, MaxFaults} \subseteq Nat

VARIABLES revision,     \* the account's counter
          record,       \* its rows and tombstones
          row,          \* per browser, the user's own tables
          state,        \* per browser, syncRecords: what was last confirmed
          cursor,       \* per browser, syncState.cursor
          run,          \* per browser, the syncOnce in progress
          wire,         \* per browser, a push on its way to the server
          edits, faults \* what has been used of the bounds

vars == <<revision, record, row, state, cursor, run, wire, edits, faults>>

Absent == [revision |-> 0, body |-> NoBody]     \* no record, no state

Entry == [revision : 0..MaxRevision, body : Body \cup {NoBody}]

Tombstone(e) == e.revision > 0 /\ e.body = NoBody

Nothing == [k \in Key |-> Absent]

Outgoing == [key : Key, body : Body \cup {NoBody}]

NoAnswer == [outcome |-> "none", revision |-> 0]

Answer == [outcome : {"none", "applied", "already_present", "rejected", "deferred"},
           revision : 0..MaxRevision]

(* syncOnce, by the await it stands at.  `page' and `next' are the pull's   *)
(* answer, `unread' the tables left to read and `local' the rows read,      *)
(* `owed' the records left to push, `out' the batch in flight (here of one  *)
(* record) and `answer' its result.                                         *)
NoRun == [phase |-> "idle", page |-> Nothing, next |-> 0, unread |-> {},
          local |-> [k \in Key |-> NoBody], owed |-> {}, out |-> {},
          answer |-> NoAnswer]

Phase == {"idle", "pulled", "applied", "reading", "push",
          "sent", "answered", "confirmed"}

-----------------------------------------------------------------------------
Init ==
    /\ revision = 0
    /\ record = Nothing
    /\ row = [d \in Device |-> [k \in Key |-> NoBody]]
    /\ state = [d \in Device |-> Nothing]
    /\ cursor = [d \in Device |-> 0]
    /\ run = [d \in Device |-> NoRun]
    /\ wire = [d \in Device |-> {}]
    /\ edits = 0
    /\ faults = 0

(* --- the user ----------------------------------------------------------- *)

(* "Ids are generated once and never reused" (collections.ts), so a         *)
(* campaign event has one body, wherever and however often it is written.   *)
EventBody == CHOOSE b \in Body : TRUE

(* A row is added, changed or deleted.  Campaign events are not changed;    *)
(* they go with the whole campaign (deleteRun).                             *)
Edit(d, k, b) ==
    /\ edits < MaxEdits
    /\ edits' = edits + 1
    /\ b # row[d][k]
    /\ Rule[k] = "event" => b \in {NoBody, EventBody}
    /\ row' = [row EXCEPT ![d][k] = b]
    /\ UNCHANGED <<revision, record, state, cursor, run, wire, faults>>

(* --- reading ------------------------------------------------------------ *)

(* The request reaches the server, which answers with all above the cursor. *)
Pull(d) ==
    /\ run[d].phase = "idle"
    /\ run' = [run EXCEPT ![d].phase = "pulled",
                          ![d].page = [k \in Key |->
                              IF record[k].revision > cursor[d] THEN record[k] ELSE Absent],
                          ![d].next = IF revision > cursor[d] THEN revision ELSE cursor[d]]
    /\ UNCHANGED <<revision, record, row, state, cursor, wire, edits, faults>>

(* mergeBodies on a row that is there: the incoming body, but for the date  *)
(* a rating, a folder or a favourite is compared by.                        *)
Merge(k, local, incoming) ==
    CASE Rule[k] = "latest" /\ local > incoming   -> local
      [] Rule[k] = "earliest" /\ local < incoming -> local
      [] OTHER                                    -> incoming

(* applyPulled's skip: already applied. *)
IsNews(d, k) == run[d].page[k].revision > state[d][k].revision

Incoming(d, k) == run[d].page[k].body

RowAfterPull(d, k) ==
    IF ~IsNews(d, k) THEN row[d][k]
    ELSE IF Incoming(d, k) = NoBody \/ row[d][k] = NoBody THEN Incoming(d, k)
    ELSE Merge(k, row[d][k], Incoming(d, k))

(* Mutant: a tombstone leaves a state behind. *)
StateOfTombstone(d, k) ==
    IF ~IsNews(d, k) THEN state[d][k] ELSE run[d].page[k]

(* Mutant: the digest recorded is that of the merged row. *)
StateOfMerged(d, k) ==
    IF ~IsNews(d, k) THEN state[d][k]
    ELSE IF Incoming(d, k) = NoBody THEN Absent
    ELSE [revision |-> run[d].page[k].revision, body |-> RowAfterPull(d, k)]

(* The digest of the server's body, so that what the merge kept is owed.    *)
StateAfterPull(d, k) ==
    IF ~IsNews(d, k) THEN state[d][k]
    ELSE IF Incoming(d, k) = NoBody THEN Absent
    ELSE run[d].page[k]

(* One transaction for the page. *)
ApplyPulled(d) ==
    /\ run[d].phase = "pulled"
    /\ row' = [row EXCEPT ![d] = [k \in Key |-> RowAfterPull(d, k)]]
    /\ state' = [state EXCEPT ![d] = [k \in Key |-> StateAfterPull(d, k)]]
    /\ run' = [run EXCEPT ![d].phase = "applied", ![d].page = Nothing]
    /\ UNCHANGED <<revision, record, cursor, wire, edits, faults>>

WriteCursor(d) ==
    /\ run[d].phase = "applied"
    /\ cursor' = [cursor EXCEPT ![d] = run[d].next]
    /\ run' = [run EXCEPT ![d].phase = "reading", ![d].next = 0, ![d].unread = Key]
    /\ UNCHANGED <<revision, record, row, state, wire, edits, faults>>

(* --- writing ------------------------------------------------------------ *)

(* readLocal reads one table after another, in the order of COLLECTIONS and *)
(* in no transaction.                                                       *)
NextTable(d) ==
    {k \in run[d].unread : \A j \in run[d].unread : <<j, k>> \notin TableOrder}

ReadLocal(d) ==
    /\ run[d].phase = "reading"
    /\ run[d].unread # {}
    /\ run' = [run EXCEPT
                  ![d].local = [k \in Key |-> IF k \in NextTable(d) THEN row[d][k] ELSE @[k]],
                  ![d].unread = @ \ NextTable(d)]
    /\ UNCHANGED <<revision, record, row, state, cursor, wire, edits, faults>>

(* Mutant: a confirmed record with no row is not looked for. *)
OwedRows(local, states) ==
    {[key |-> k, body |-> local[k]] : k \in
        {k \in Key : local[k] \notin {states[k].body, NoBody}}}

(* pendingChanges: a row that is not what the server confirmed, or a        *)
(* confirmed record with no row, which is a deletion unless it is an event. *)
Owed(local, states) ==
    {[key |-> k, body |-> local[k]] : k \in
        {k \in Key : /\ local[k] # states[k].body
                     /\ Rule[k] = "event" => local[k] # NoBody}}

ReadStates(d) ==
    /\ run[d].phase = "reading"
    /\ run[d].unread = {}
    /\ run' = [run EXCEPT ![d] =
                  [NoRun EXCEPT !.phase = "push", !.owed = Owed(run[d].local, state[d])]]
    /\ UNCHANGED <<revision, record, row, state, cursor, wire, edits, faults>>

(* Live rows in table order, plays before ratings; then the tombstones.     *)
Precedes(a, b) ==
    \/ a.body # NoBody /\ b.body = NoBody
    \/ (a.body = NoBody <=> b.body = NoBody) /\ <<a.key, b.key>> \in TableOrder

(* The next batch, under its own new batch id.  One that was given up on    *)
(* may still be on its way; bound: one such per browser.                    *)
Push(d) ==
    /\ run[d].phase = "push"
    /\ wire[d] = {}
    /\ \E out \in run[d].owed :
          /\ \A other \in run[d].owed : ~Precedes(other, out)
          /\ run' = [run EXCEPT ![d].phase = "sent", ![d].out = {out},
                                ![d].owed = @ \ {out}]
          /\ wire' = [wire EXCEPT ![d] = {out}]
    /\ UNCHANGED <<revision, record, row, state, cursor, edits, faults>>

Done(d) ==
    /\ run[d].phase = "push"
    /\ run[d].owed = {}
    /\ run' = [run EXCEPT ![d] = NoRun]
    /\ UNCHANGED <<revision, record, row, state, cursor, wire, edits, faults>>

(* validateRating: the play a rating cites has to be on the account.        *)
Unsupported(out) ==
    /\ "rejected" \in Refusals
    /\ out.body # NoBody
    /\ \E p \in Cites[out.key] : record[p].body = NoBody

(* Mutant: an event that exists is rewritten. *)
NeverAlready(out) == FALSE

(* applyOne's `immutable && exists'. *)
AlreadyPresent(out) == Rule[out.key] = "event" /\ record[out.key].revision > 0

(* applyOne, and the transaction around it. *)
Store(out, answer) ==
    \/ /\ Unsupported(out)
       /\ answer = [outcome |-> "rejected", revision |-> 0]
       /\ UNCHANGED <<revision, record>>
    \/ /\ ~Unsupported(out)
       /\ "deferred" \in Refusals /\ Cites[out.key] # {} /\ out.body # NoBody
       /\ answer = [outcome |-> "deferred", revision |-> 0]
       /\ UNCHANGED <<revision, record>>
    \/ /\ ~Unsupported(out)
       /\ AlreadyPresent(out)
       /\ answer = [outcome |-> "already_present",
                    revision |-> record[out.key].revision]
       /\ UNCHANGED <<revision, record>>
    \/ /\ ~Unsupported(out)
       /\ ~AlreadyPresent(out)
       /\ revision < MaxRevision
       /\ answer = [outcome |-> "applied", revision |-> revision + 1]
       /\ revision' = revision + 1
       /\ record' = [record EXCEPT ![out.key] =
                        [revision |-> revision + 1, body |-> out.body]]

(* The push arrives.  Its answer finds the browser waiting, or nobody.      *)
Arrive(d) ==
    \E out \in wire[d], answer \in Answer :
        /\ Store(out, answer)
        /\ wire' = [wire EXCEPT ![d] = {}]
        /\ run' = IF run[d].phase = "sent"
                  THEN [run EXCEPT ![d].phase = "answered", ![d].answer = answer]
                  ELSE run
        /\ UNCHANGED <<row, state, cursor, edits, faults>>

(* It never does. *)
Vanish(d) ==
    /\ wire[d] # {} /\ run[d].phase # "sent"
    /\ wire' = [wire EXCEPT ![d] = {}]
    /\ UNCHANGED <<revision, record, row, state, cursor, run, edits, faults>>

(* What confirmPushed records: the body that was sent. *)
ConfirmedAs(d, out) ==
    [revision |-> run[d].answer.revision, body |-> out.body]

(* confirmPushed, one transaction.  A deletion leaves no state; a record    *)
(* refused for good takes the row with it; a deferred one stays owed.       *)
ConfirmPushed(d) ==
    /\ run[d].phase = "answered"
    /\ \E out \in run[d].out :
          LET k == out.key
              outcome == run[d].answer.outcome
          IN  \/ /\ out.body = NoBody
                 /\ state' = [state EXCEPT ![d][k] = Absent]
                 /\ UNCHANGED row
              \/ /\ out.body # NoBody /\ outcome = "rejected"
                 /\ state' = [state EXCEPT ![d][k] = Absent]
                 /\ row' = [row EXCEPT ![d][k] = NoBody]
              \/ /\ out.body # NoBody /\ outcome = "deferred"
                 /\ UNCHANGED <<row, state>>
              \/ /\ out.body # NoBody /\ outcome \in {"applied", "already_present"}
                 /\ state' = [state EXCEPT ![d][k] = ConfirmedAs(d, out)]
                 /\ UNCHANGED row
    /\ run' = [run EXCEPT ![d].phase = "confirmed"]
    /\ UNCHANGED <<revision, record, cursor, wire, edits, faults>>

(* Mutant: past its own write, whatever lies between. *)
CursorAfterAny(d) ==
    IF run[d].answer.revision > cursor[d] THEN run[d].answer.revision ELSE cursor[d]

(* cursorAfterPush: past its own write only when nobody wrote in between.   *)
CursorAfterPush(d) ==
    IF run[d].answer.revision = cursor[d] + 1 THEN cursor[d] + 1 ELSE cursor[d]

AdvanceCursor(d) ==
    /\ run[d].phase = "confirmed"
    /\ cursor' = [cursor EXCEPT ![d] = CursorAfterPush(d)]
    /\ run' = [run EXCEPT ![d].phase = "push", ![d].out = {}, ![d].answer = NoAnswer]
    /\ UNCHANGED <<revision, record, row, state, wire, edits, faults>>

(* The request or its answer is lost, or the tab is closed: the run ends    *)
(* where it is.  A push already sent may still arrive.                      *)
Fail(d) ==
    /\ run[d].phase # "idle"
    /\ faults < MaxFaults
    /\ faults' = faults + 1
    /\ run' = [run EXCEPT ![d] = NoRun]
    /\ UNCHANGED <<revision, record, row, state, cursor, wire, edits>>

-----------------------------------------------------------------------------
Step(d) == \/ ApplyPulled(d) \/ WriteCursor(d)
           \/ ReadLocal(d) \/ ReadStates(d)
           \/ Push(d) \/ Done(d)
           \/ ConfirmPushed(d) \/ AdvanceCursor(d)

Next == \E d \in Device :
            \/ \E k \in Key, b \in Body \cup {NoBody} : Edit(d, k, b)
            \/ Pull(d) \/ Step(d)
            \/ Arrive(d) \/ Vanish(d) \/ Fail(d)

Spec == Init /\ [][Next]_vars

(* A run in progress goes on, a request on the wire is handled or dropped,  *)
(* and the next run starts: on a timer, on focus, after an edit.            *)
Fairness == \A d \in Device : /\ WF_vars(Pull(d)) /\ WF_vars(Step(d))
                              /\ WF_vars(Arrive(d) \/ Vanish(d))

LiveSpec == Spec /\ Fairness

-----------------------------------------------------------------------------
(* Type invariant.  A sync state never stands for a tombstone, which would  *)
(* be a deletion this browser owes the server for ever (applyPulled).       *)
TypeOK ==
    /\ revision \in 0..MaxRevision
    /\ record \in [Key -> Entry]
    /\ row \in [Device -> [Key -> Body \cup {NoBody}]]
    /\ state \in [Device -> [Key -> {e \in Entry : e = Absent \/ e.body \in Body}]]
    /\ cursor \in [Device -> 0..MaxRevision]
    /\ run \in [Device -> [phase : Phase, page : [Key -> Entry],
                           next : 0..MaxRevision, unread : SUBSET Key,
                           local : [Key -> Body \cup {NoBody}],
                           owed : SUBSET Outgoing, out : SUBSET Outgoing,
                           answer : Answer]]
    /\ wire \in [Device -> SUBSET Outgoing]
    /\ edits \in 0..MaxEdits /\ faults \in 0..MaxFaults

(* A state is never a lie: at the revision it names, its digest is that of  *)
(* the body the server holds.  Through lost answers, late pushes and edits  *)
(* made in between, a row is never taken for confirmed when it is not.      *)
StateHonest ==
    \A d \in Device, k \in Key :
        state[d][k].revision > 0 /\ state[d][k].revision = record[k].revision
            => state[d][k].body = record[k].body

(* Nothing the account holds at or below the cursor is unknown to the       *)
(* browser, its own pushes included: cursorAfterPush never walks over       *)
(* another browser's record.                                                *)
CursorCovers ==
    \A d \in Device, k \in Key :
        record[k].revision \in 1..cursor[d] =>
            state[d][k] = IF Tombstone(record[k]) THEN Absent ELSE record[k]

Clean(d) == run[d].phase = "idle" /\ Owed(row[d], state[d]) = {}

(* What "synchronised" tells the user: a browser at rest that owes nothing  *)
(* shows every record up to its cursor as the account has it, and nothing   *)
(* the account does not have, the events of a deleted campaign excepted --  *)
(* also while a push it gave up on is still on its way.                     *)
CleanMeansEqual ==
    \A d \in Device, k \in Key :
        /\ Clean(d) /\ record[k].revision <= cursor[d]
        /\ Rule[k] = "event" => row[d][k] # NoBody
        => row[d][k] = record[k].body

(* Union merge (doc 02 section 6): an event the account holds stays as it   *)
(* is, with its revision, whoever sends it again or deletes it locally.     *)
EventsStay ==
    [][\A k \in Key : Rule[k] = "event" /\ record[k].revision > 0
                         => record'[k] = record[k]]_vars

(* What the server promises a client that pulls; nothing is swept here, so *)
(* the horizon stays at 0.                                                 *)
Feed == INSTANCE AccountFeed
            WITH AppendOnly <- {k \in Key : Rule[k] = "event"},
                 minCursor  <- 0,
                 record     <- [k \in Key |->
                     [revision |-> record[k].revision,
                      deleted  |-> Tombstone(record[k]),
                      body     |-> record[k].body]]

(* However pushes are lost, late, repeated or sent again by another         *)
(* browser, what they do to the account is the abstract feed: a browser may *)
(* rely here on what module SyncStore shows of the statements of the server.*)
ImplementsFeed == Feed!Spec

(* Every browser ends up with the same rows as the account, for good.       *)
Converges ==
    <>[](revision < MaxRevision =>
            \A d \in Device, k \in Key : row[d][k] = record[k].body)
=============================================================================

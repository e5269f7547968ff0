# Thwart-Web: a verification of its core

Thwart-Web is a companion for a card game. It runs in the browser, keeps its
data in IndexedDB, and works without an account. With an account, a Go server
over SQLite keeps a copy of the rows so that several browsers share them. The
server reads neither the bodies of the rows nor their merge rules: it gives each
stored record a revision, and browsers pull what lies above the cursor they have
kept, merge it, and push what differs from what the server last confirmed. On
top of those rows the browser plays campaigns (an event log and a fold), drafts
decks from a limited shelf, and takes games from setup to the history and to
BoardGameGeek.

Little in the program that is hard to test is in one function. It is in what
happens when browsers, tabs, requests, transactions and timers meet, and in what
long sequences of legal taps lead to. That is what these modules describe:
thirteen detailed modules and one abstract specification, checked by TLC on
small instances, all of them proved about with TLAPS.

Paths below are relative to the repository's `src`.

## 1. Inventory

| component | state it keeps | operations | hard behaviour |
|---|---|---|---|
| Record store and push, `server/sync_store.go`, `store.go`, `handlePush` in `sync.go` | per account a revision counter and a tombstone horizon (`min_cursor`); the record table; the responses of recent batches | `ApplyBatch`/`applyOne`, `Changes`, `Sweep`, `BatchResponse`, `SaveBatchResponse` | pushes of several goroutines, rollback half-way, a sweep of several statements with no transaction, a batch delivered twice |
| Pull, `handlePull` in `server/sync.go`, the loop of `web/src/lib/sync/engine.ts`, `ports.ts` | cursor, the collections it is for, rows with their sync states | `pull`, `applyPulled`, `writeCursor`, `dropUnseen` | paging against concurrent writers, `cursor_too_old` and recovery, a closed tab at any await, a new build that reads other collections |
| Push and change detection, `engine.ts`, `ports.ts`, `merge.ts` | per row the digest and revision of what the server confirmed | `readLocal`, `pendingChanges`, `push`, `confirmPushed`, `cursorAfterPush` | edits in the middle of a run, lost answers, late pushes, rejections, two browsers |
| Adoption, session and sign-out, `adoption.ts`, `session.svelte.ts`, `device.ts`, `sync.svelte.ts` | session, adopted and enabled flags, the staged plan | sign in, stage, ask, accept, cancel, sign out, clear | a plan computed before the user answers and applied after; a sign-out of several writes |
| Scheduling, `auto.svelte.ts`, `sync.svelte.ts` | the debt, in memory and on disk; its timer; the run in flight; a lock shared by the tabs, where the browser has Web Locks | edit, `flush`, `runSync`, retry, wake | joining a run already under way, offline, tabs closed and opened |
| Live stream, `live.svelte.ts`, `server/stream.go` | subscribers with bounded buffers; one tab that leads, or every tab where there are no Web Locks | `subscribe`, `notify`, `changed`, reconnection | dropped invalidations, writes between two connections |
| Ratings, `server/ratings.go` | an index of accepted ratings, a summary per subject, a cache of served summaries with a generation | rate, withdraw, delete the account, `summaries`, `forget`, `put`, `sweep` | sums moved by difference inside transactions that may roll back; a cache filled from reads that overlap commits |
| Accounts, devices, confirmation, recovery, `server/api.go`, `auth.go`, `verify.go`, `mail.go`, `store.go` | accounts with their password, recovery code and link; devices; open streams | register, confirm, send again, sign in, recover, change the password, sign a device out, erase | handlers of several transactions that overtake one another; a message sent although its request failed |
| Campaign engine, `lib/campaign/engine.ts`, `conditions.ts`, `rules.ts`, `deal.ts` | none: a fold over an event log | `fold`, `choosableScenarios`, `setupDrawsFor`, `canPurchase`, ... | defeats, replays, withdrawn events, any order of another device's events |
| Campaign log and page, `lib/campaign/store.ts`, `CampaignRun.svelte`, `CampaignMarket.svelte` | the log, the run's row, the page's own state | every append, the clock, resuming a finished run | the page acts on a fold that is out of date; logs are united later |
| Draft and sealed, `lib/draft/`, `lib/deckRules.ts`, `DraftPage.svelte` | the shelf, packs, picks; one row on disk | identity, `pick`, `skipCurrent`, boosters, save | a shelf that runs short; packs older than the picks; a page closed around a write |
| Games at the table and put away, `lib/session.svelte.ts`, `PlayPage.svelte`, `LongBreak.svelte`, `pausedGame.ts` | the session of each tab; one put-away row; recorded plays | start, finish, record, put away, resume, throw away | two tabs, one row, closed between two writes |
| BoardGameGeek, `lib/bgg.svelte.ts`, `PlayDetail.svelte`, `server/bgg.go` | whether a play is marked as logged | post, mark by hand | the connection breaks on either side of the relay |
| Rate limiter and hash gate, `server/ratelimit.go` | sliding windows per key, a bounded gate | allow, forget, sweep | counters at their limit |
| Server process, `server/main.go`, `errors.go` | timers | start, housekeeping, shutdown | - |
| Encounter tracker, `lib/encounter*.ts` | counters of one page | increment, undo | little |
| Plays, statistics, achievements, decks, randomiser | derived only | pure functions over rows | - |
| Backup and restore, `backup.ts`, `backupArchive.ts` | none of its own | read and rewrite the tables | a restore looks to synchronisation like a burst of edits |
| User interface, texts, art, service worker, build | presentation | - | - |

How they interact. A write in the browser, whether of a play, a campaign event, a
draft or a rating, reaches Dexie's hooks, which tell the scheduler that a sync is
owed. The scheduler's timer, the live stream or the button calls `runSync`, which
takes the cross-tab lock, if the browser has one, and calls `syncOnce`: pull until
the server has no more, read the local tables, push what is owed. `handlePull` and
`handlePush` call the store. A push that stored something tells the account's
listeners, the pushing browser's own stream included, and invalidates the rating
cache. Signing in stages and adopts the account before any of this starts; signing
out waits for it to stop. Signing a device out, changing the password and erasing
the account end streams. Campaign logs of two devices are united by the pull.
IndexedDB, localStorage and `navigator.locks` are shared by a browser's tabs; the
SQLite connection is shared by all requests and is the only one.

What makes each part correct:

- *Store*: nothing becomes visible, or changes, at or below a revision a client
  could already have read; no two rows share a revision; a row disappears only
  as a tombstone, only after the horizon covers it; a repeated batch is not
  applied twice, and overwriting is told.
- *Pull*: a stored cursor never steps over a record; a deletion is not missed
  for good; the copy converges.
- *Push*: what a browser believes to be confirmed is; an edit nobody has
  received is never lost; a browser that owes nothing shows what the account has.
- *Adoption*: agreeing to a merge removes nothing; signing out deletes nothing
  from the account and removes only what can be fetched again.
- *Scheduling*: every write is eventually sent; a tab that listens hears of what
  other devices wrote.
- *Ratings*: the summary is what a recount would give; the cache never keeps an
  answer past the write that changed it.
- *Accounts*: nobody is locked out half-way; nothing outlives what it belongs to;
  what the confirmation message promises is kept.
- *Campaign*: whatever is appended, in whatever order it is seen, the finale
  comes last, what is handed out is what the rules allow, and there is a way on.
- *Draft*: a copy is in one place; a table never offers what cannot be taken; it
  ends, with legal decks, saved once.
- *Table*: a game is in one place, counted once; what is called logged is.

The hazards, each at its line, are in `PROJECT.json`.

## 2. Modules

```
AccountFeed          what the store promises a reader           (abstract)
   ^ implemented by
SyncStore            batches, transactions, the sweep           SyncProofs
   ^ EXTENDS
   |-- SyncPush      the endpoint and its remembered answers    SyncProofs
   |-- SyncFeed      the pull loop over that store              SyncProofs
SyncDevices          browsers that edit, push and pull          BrowserProofs
   ^ EXTENDS         (implements AccountFeed too)
   Adoption          signing in, adopting, signing out          BrowserProofs
Tabs                 the tabs of one browser
   ^ EXTENDS
   |-- AutoSync      when a run starts, the lock, the stream    TabsProofs
   |-- PlayTable     games, put-away row, BoardGameGeek         TabsProofs
Ratings              the server's averages and their cache      RatingsProofs
Accounts             the account handlers, by statement         AccountsProofs
CampaignEngine       the fold and what it offers                CampaignProofs
   ^ EXTENDS
   Campaign          devices, logs, and the page between        CampaignProofs
                     load and append
DraftEngine          packs, turns, boosters, legality           DraftProofs
   ^ EXTENDS
   Draft             the page and its row on disk               DraftProofs
```

The proofs about ratings, drafts and campaigns share SumTheorems, facts about
sums over finite sets. `MC*.tla` give the constants their values; no other module
instantiates for TLC.

### AccountFeed

The record table as a reader may imagine it, in three atomic steps. `Write`
takes fresh revisions above all earlier ones; `Raise` moves the horizon up and
never past what was handed out; `Forget` removes tombstones at or below the
horizon. Events, once present, are never overwritten.

### SyncStore

`revision`, `minCursor` and `record` are the committed tables, `tx[w]` what the
transaction of goroutine `w` has done so far, `sweep` the progress of
`Store.Sweep`.

| code | action or operator |
|---|---|
| `ApplyBatch`: write lock, `BeginTx` | `Begin` (`Quiet`: there is a single connection) |
| `applyOne`, `nextRevision` | `ApplyOne`, `AlreadyPresent`, `RowOf` |
| `Commit`; the deferred `Rollback`; the process killed | `Commit`, `Rollback` |
| the sweep's SELECT, UPDATE, DELETE; an error between two | `SweepFind`, `SweepRaise`, `SweepDelete`, `SweepAbandon` |

Which tombstones are past the retention is a matter of wall clock, so the first
statement finds any set of them. `Changes` is a read: it is in SyncFeed.

### SyncPush

`handler[w]` is one request in `handlePush`, at the transaction it stands before.
`Lookup` is `BatchResponse`, `StartBatch`, `ApplyNext` and `Finish` are the
store's transaction for the records of one batch (`told` collects the overwrites,
`OverConflict`), `Save` is `SaveBatchResponse`. `Receive` delivers a batch once
more, on whatever cursor it was built. `FailBatch` ends a handler at any point,
and `SweepBatches` forgets a remembered answer. Every step is a SyncStore step or
leaves the store alone, so the refinement of AccountFeed is checked and proved for
the whole endpoint.

### SyncFeed

Extends SyncStore with browsers that only read. Each await of `syncOnce` is the
end of a step; each database read of `handlePull` is one: `CheckHorizon` reads
`min_cursor`, `ReadPage` the records, and pushes, sweeps and rollbacks run in
between. `Refused` restarts from zero and remembers what comes back;
`DropUnseen` deletes the rest. `Fail` is a lost request, a lost answer, or a
closed tab: what was not written is gone. `Upgrade` puts any other build in place,
with more, fewer or other collections, and `ReadCursor` then ignores the cursor.

A reader's `known[k]` is a row together with its sync state, which `applyPulled`
writes in one transaction.

### SyncDevices

Several browsers that edit. `row` is IndexedDB, `state` the sync states, with the
body itself in place of its digest. The code's digest is a 32-bit FNV-1a of a
canonical form (`state.ts:79`), of which it says that a collision can hide an
edit: that is outside the model. `Edit` may happen between any two steps.
`ReadLocal` reads table after table, in the order of `COLLECTIONS` and in no
transaction, as `readLocal` does. A push leaves through `wire` and may arrive late
(`Arrive`), also after its browser has given it up, or never (`Vanish`). Merge
rules are modelled by what they compare: "take" (the incoming body), "latest" and
"earliest" (a date decides), "event" (the first is kept; its id, and so its one
body `EventBody`, is generated once and never used for another,
`campaign/store.ts`). `Store` is `applyOne` again, here atomic: SyncStore shows
that it may be. A rating is rejected when the play it cites is not on the account
(`Unsupported`), and may be deferred, as when the day's allowance is used up.

### Adoption

Extends SyncDevices, some of whose browsers are `Mover`s. `session[d]` holds the
persisted flags and how far a sign-out has come, `plan[d]` the adoption staged.
`Synchronise` is SyncDevices' run, allowed only where sync is on; a run whose
token has been revoked is refused by the server (`RunEnded`). `Stage` reads the
account, `Ask` plans (`PlannedRow`, `PlannedState`: the plan is made of the rows
as they were), `Accept` carries the plan out whenever the answer comes.
`Revoke`, `SwitchOff`, `Release`, `Drop` and `Clear` are the awaits of `signOut`,
in order (a release that fails is passed over, `session.svelte.ts:201`); `Crash`
closes the tab between any two. `erased` and `torn` are
history variables: what a user deleted on purpose, and which browser was closed
between `Release` and `Clear`.

### AutoSync

`tab[t]` is the state of the modules one tab has loaded: `owed`, its timer, the
one retry, whether `flush` is running, and the promise in `inFlight` by the
await it stands at. `kept` is the flag in localStorage. A run is three awaits and
is only characterised by the writes it was in time for: `Pull`, `Scan`
(`readLocal`), `Push`, `Answer`. `Locks` says whether the browser has
`navigator.locks`. With it, `exclusive` lets one tab in at a time (`Free`) and
one tab leads the live stream; without it, `exclusive` just runs, and every tab
connects (`Leaderships`).

| code | action or operator |
|---|---|
| `watchWrites`, `syncAfter` | `Edit` |
| `flush`, the timer; joining the run in flight | `Flush`, `Joined` |
| `exclusive`; `syncOnce` by its awaits | `Enter`, `Pull`, `Scan`, `Push`, `Answer` |
| a request that fails, and what `flush` does then | `Fail`, `Retried` |
| `handleStream` subscribes, and greets who is behind | `Connect`, `Greeting` |
| `broadcaster.notify`, a bounded buffer | `Heard`, `Notified` |
| the `changed` listener | `Changed` |
| a stream that breaks; a tab closed and opened | `Drop`, `Reload` |
| `wake`, when the network is back | `GoOnline`, `Woken` |

Two history variables name what is lost and how: `excused`, the two ways in
which an edit waits for an unrelated trigger, and `missed`, the two in which another
device's change does (section 3, items 5 and 18).

### Ratings

`db` is committed, `work` the open transaction. `Rate`, `Withdraw` and
`DeleteAccount` move the summary by difference as `indexRating`,
`unindexRating` and `unindexAccountRatings` do, `Rollback` discards `work`.
After the commit `Forget` runs per touched subject, outside the transaction.
`DeleteAccount` is also what becomes of a registration that is taken back; that
caller forgets nothing (`api.go:465`), and has no ratings to forget.
A reader goes through `Ask`, `Look`, `Looked`, `Read` (one query per missing
subject) and `Put`. `generation` counts invalidations.
Bare modular sets are `View`s: served as the sum of every pairing, never rated.
Timers are `Expire` and `Sweep`; `Restart` loses everything not committed.

### Accounts

A request is a list of steps, and `Steps` writes the handlers down: for
`handleRecover`, say, hash twice, set the password, set the new code, issue a
device, sign the others out, end their streams, answer. Each step is one
statement (a transaction of its own in `store.go`), one hash, one message or one
look at the open streams, and the others go on in between.

| code | action |
|---|---|
| a request arrives, with what its sender typed | `Arrive` |
| `AccountByEmail`, `AccountByIdentifier` | `Find` |
| `DeviceByTokenHash`, then `AccountByID` | `ResolveDevice`, `ResolveAccount` |
| a hash, a comparison, a verdict on the row read | `Check` |
| `CreateAccount`, `SetVerification`, the message, taking the registration back | `Create`, `SetLink`, `Send`, `Undo` |
| `CreateDevice`; `SetPasswordHash`, `SetRecoveryHash`; `DeleteDevice`, `DeleteOtherDevices`; `DeleteAccount` | `Issue`, `SetSecret`, `Revoke`, `DeleteAccount` |
| `AccountByVerifyHash`, `MarkEmailVerified` | `ByLink`, `Mark` |
| `subscribe`, `endDevices`, the answer | `Subscribe`, `EndStreams`, `Answer` |
| `DeleteUnverifiedAccountsBefore`, a day | `SweepUnverified`, `DayPasses` |
| an error, a cancelled request, a killed server | `Fail` |

There is one address and one pseudonym, so at most one account at a time: the
cases in which handlers meet over it are the interesting ones. Passwords, codes
and links are numbered by the request that made them; `remembered` and `written`
are what people have typed and been shown; `Forget` loses a password.

### CampaignEngine and Campaign

CampaignEngine is pure: `Fold(events, L)` is the campaign that the log `L` means,
through `Apply` with one operator per event type and `ApplyEffect` with one per
effect; withdrawn events are left out first, as `fold` does. `Choosable`,
`DrawsOwed`, `VillainsFor`, `OffersFor` and `CanBuy` are what `rules.ts` and
`deal.ts` answer. A template is a constant.

In Campaign, `log[d]` is the set of events device `d` has, numbered by when they
were appended, `row[d]` the `campaignRuns` row as far as it is written (finished,
the clock, the scenario it is for), `page[d]` the page: the state it last folded,
whether a reload is due, the deals `ensureDealt` has yet to append, the rest of a
handler that has several awaits and the copy of the row it holds meanwhile
(`held`). Every button (`Act`, `Keep`, `Begin`, `Finish`, `Record`, `MoveOn`,
`Retry`, `Pick`, `ReadEnvironments`, `Shop`, `Buy`, `Refund`, `DoneShopping`,
`Concede`, `Resume`) is offered by the state folded *before*, and appends to the
log as it is *now*. `Sync` unites one device's log with another's (the fold orders
events by time); a run row may or may not come along. `state[d]` is a history
variable: what device `d`'s whole log folds to. Conceding stops the clock and then
appends (`Concede`, `Conceded`). The market is a page of its own after a result
and a part of the briefing and of the page between scenarios (`AtMarket`); a
purchase notes which others its page had folded (`knew`, a history), for the
property about the market's rules. One page is open at a time, on whichever
device: a table plays on one screen, and what two pages could do to one log is
done by `Sync` and by pages that are out of date.

### DraftEngine and Draft

Shuffles are seeded by a fresh seed, so an operator that draws (`BuildPacks`,
`OpenPack`, `Pick`, `SkipCurrent`, `DealSealed`, `OpenBooster`) returns the set
of states the draw can lead to. `Legal`, `CanTake`, `Takeable` and `LegalOffers`
are `deckRules.ts` and `canTake`: deck limits, unique cards, aspects, one
identity that balances two aspects, own cards.

Draft is the page: each handler computes a new draft and `Commit`s it, to the
page at once and to the row through `writes`, the puts not yet on disk.
`Finish` saves the decks and deletes the row in one transaction; `Written` is a
write done, `Refused` one that failed (full disk), `Close` and `Open` the page.

### PlayTable

`table[t]` is a tab's session, `paused` the one put-away row, `plays` the
recorded games, `page[t]` the screen with the write it is waiting for.
`StartGame`, `Finish`, `BackToGame`, `DiscardGame`, `NewGame`, `PutAway`,
`Record`, `Resume`, `ThrowAway` are its buttons; `Written` is the end of the
write and what the handler does after it. A play is posted through `posts`:
`Relay` is the server's request to BoardGameGeek, accepted, refused, or cut off
before or after it got there (`CutOff`, `Answered`), or accepted and answered with
an error (`Misread`); `Lose` loses the browser's
own connection; `Settle` is the answer reaching the screen, which marks the play
and says what happened. `copies` is what BoardGameGeek has. Two history variables
speak of the open screen: `said` holds the plays it has said may be there
already, `blind` counts the copies it made of a play it had not said that of.

## 3. Runs

| run | asks | instance |
|---|---|---|
| `SyncPush` | types, `RetryIsNoOp`, `OverwritesTold`, and that the endpoint implements AccountFeed | 2 handlers, a batch of an event and an edit, a batch that deletes the edited row, revisions to 6, 3 deliveries, 2 mishaps |
| `SyncFeed` | types, `DeletionsReach`, `Converges` | 1 browser, 1 writer, 2 keys, pages of 1, revisions to 3, 1 fault |
| `SyncFeedUpgrade` | `CursorCovers` in the widest setting | as above, three builds (the one collection, the other, both), each followed by any other, no restriction on the sweep or the first page |
| `SyncDevices` | `StateHonest`, `CleanMeansEqual`, `Converges` | 2 browsers, a play and a rating, 2 bodies, 2 edits, revisions to 4, 1 fault |
| `SyncDevicesRefused` | types, and that the account as these browsers write it implements AccountFeed | with a campaign event, rejections and deferrals, 3 edits |
| `Adoption` | `OnlyUsersDelete`, `AdoptedMeansEqual`, `ReleasedComesBack`, `AdoptionKeepsEdits` | 1 browser that comes and goes, 1 that stays, 1 dated row, 2 bodies, 2 edits, revisions to 3, 3 sign-ins or sign-outs, 1 fault, sign-out offline |
| `AutoSync` | `OwedIsScheduled`, `UnsentIsRemembered`, `ChangesAnnounced`, `EditsReach` | 2 tabs, Web Locks, 2 ways to start besides the timer, 2 edits, 1 foreign write, 2 faults, a buffer of 1 |
| `Ratings` | `SummaryMatches`, `CacheFresh` | 2 accounts, 2 pairings of a set, scores 1 and 4, 1 writer, 1 reader, a cache of 1, one invalidation |
| `Accounts` | `NoOrphans`, `NeverLockedOut`, `StreamsEnd`, `FirstLinkWorks`, `NeverConfirmedIsDeleted` | any 3 requests of 9 kinds, 2 at a time, links of 1 day, accounts of 2 |
| `Campaign` | `FinaleLast`, `MarketHonest`, `NoDeadEnd`, `VillainKept` | 2 devices, 2 jobs and a finale, 1 hero, a market of 2 cards, 9 events, 3 detours |
| `Draft` | `CopiesConserved`, `OfferHonest`, `FullDecksLegal`, `SavedOnce`, `DraftEnds` | drafts and sealed pools of 1 and 2 players, 4 cards, decks of 3 and 4, packs of 2, 1 closed page or refused write |
| `PlayTable` | `OnePlace`, `SaidIsThere`, `NoBlindCopy` | 2 tabs, 2 games, 2 plays, 3 posts, 2 detours |

What they show:

- **SyncPush.** The response of a batch is looked up, the batch applied and the
  response saved in three transactions. As long as two deliveries of one batch do
  not meet between them, and the response was saved, a retry changes nothing;
  when they do meet (`unsafe`), the store still implements the feed, events are
  still kept, and nobody overwrites another's row without being told.
- **SyncFeed.** A deletion is either applied, or still to come, or covered by a
  refusal that ends in `dropUnseen`; and the copy converges. Two assumptions are
  constants of the module. `ReadsTogether`: the horizon is not raised between the
  two reads of one pull (`server/sync.go:132` and `:182`). With it FALSE the
  property does not hold: a sweep completing exactly there removes tombstones
  from a page the first read has already allowed, and the browser keeps the deleted
  row until it is next refused. `FirstPageKept`: the tab is not closed between
  the very first page and its cursor. A cursor of zero is never refused, so a
  first sync interrupted there and resumed after the retention keeps what was
  deleted meanwhile. A new build has the same effect (`ports.ts:222` starts again
  from zero and drops nothing), so this run has one build. All three windows need
  the sweep of a 180-day-old tombstone; they are stated here rather than hidden
  in the model.
- **SyncFeedUpgrade.** The other half of the promise needs none of those
  assumptions, nor does it matter which collections the next build reads: no live
  record is stepped over.
- **SyncDevices.** A digest stored next to a revision is that of the server's
  body at that revision, through merges, lost answers, late arrivals and edits
  between `readLocal` and `confirmPushed`. A browser that owes nothing shows the
  account, and when the edits stop both browsers end up with it.
- **SyncDevicesRefused.** Resending, restoring and deleting locally, and pushes
  that arrive late or are refused, do to the account only what the abstract feed
  does: a write takes a revision above all others, and no event the account holds
  is rewritten or removed. So SyncDevices may take the server as one step per
  record where SyncStore has its statements.
- **Adoption.** With the server out of reach, a run under way and tabs closed, a
  sign-out never makes the account lose a row, and removes from the browser only
  rows that the account holds as they were. However it signed in before, a
  browser that synchronises and owes nothing shows the account. A plan that is
  answered late removes nothing and keeps the later rating.
- **AutoSync.** A tab that owes and is online has a timer, a flush, or has spent
  its one retry; a write the account does not have is remembered by somebody; and
  it arrives. A tab whose stream is open hears of what its browser has not pulled,
  through a full buffer, a stream that dropped, a reload and a lock that passed to
  another tab, except in the two ways of item 18. The instance has the locks. The
  proofs of the three invariants hold with them and without, where two runs of
  one browser do overlap.
- **Ratings.** The averages are what a recount of the rating records of existing
  accounts gives. An answer in the cache that the database has moved past is
  always about to be forgotten by the push that moved it.
- **Accounts.** Three requests in any interleaving of their statements, each
  free to stop anywhere. No device outlives its account although every insert
  follows a check made earlier (the foreign key and its cascade do it); the order
  of `handleRecover` leaves a working secret wherever it stops; a signed-out
  device's stream ends; the link in the registration's message works as long as it
  says; an account that nobody confirms is deleted, whatever failed.
- **Campaign.** Out-of-date pages and united logs may withdraw, repeat and
  contradict, and the fold still holds the finale back, balances the credits and
  keeps the villains of a job over its replays. Purchases that each followed the
  ones before give a card once and leave nobody in debt, through results, refunds
  and united logs (item 19 has the others). On one device there is always a
  next step.
- **Draft.** Copies are conserved through packs being built, broken up, rebuilt
  and laid out; a card on the table can be taken; a full deck is legal including
  the balance of aspects; the page closed or a write refused never saves a draft
  twice, unless it is written down again while its decks are being saved (item
  17); and drafting ends.
- **PlayTable.** A game leaves one place only when it is in the next, except
  where somebody lets go of it; what is called logged is on BoardGameGeek; and
  the relay's "uncertain" is what keeps a screen from making a second copy.

### Where the code falls short of a broader promise

Each property is stated as strongly as it holds. What had to be set apart, and
why, is part of the result. These are the places where a comment, a document or
a reader's expectation says more than the code does; every one of them is a
behaviour of the modules, reached by dropping the condition named.

1. *A resync can be refused again* (`server/sync.go:188`). A pull's cursor is the
   revision of the last record it returned. When the newest revision of the
   account was a tombstone, since swept, it is below the horizon: a browser that has
   just resynchronised in full is "too old" again at every run until somebody
   writes. `Converges` still holds.
2. *An older write of one's own over a newer edit* (`engine.ts:378`). The answer
   to a push is lost; the user edits the row again; the next run pulls the
   browser's own earlier write as news and puts it over the edit. The server
   remembers batches by their id for exactly this retry
   (`docs/design/02-sync-protocol.md`); the client makes a new id after pulling.
3. *A rejected re-rating* (`ports.ts:198`). The local row is deleted while the
   earlier rating is still on the account: the browser shows none, owes nothing,
   and the average counts one. `CleanMeansEqual` is checked, and proved, without
   rejections; `StateHonest` and `ImplementsFeed` hold with them.
4. *A play and its rating saved between two table reads* (`ports.ts:67`) are seen
   as a rating without a play, pushed, rejected, and deleted locally.
5. *Two ways an edit waits for an unrelated trigger* (`auto.svelte.ts:204`, `:205`).
   `flush` clears the debt, then joins a run that may be past its `readLocal`
   (`excused` "joined"); or the tab is closed while it waits for that run
   ("closed"). `UnsentIsRemembered` and `EditsReach` show that there is no third.
6. *Rows changed after the question* (`sync.svelte.ts:123`). The adoption's plan is
   carried out as it was shown; a row edited between is overwritten by it.
7. *A torn sign-out* (`session.svelte.ts:203`). Rows are released, then the session
   dropped, then the states cleared. A tab closed in between leaves a signed-in
   browser whose rows are gone and whose states say the account has them: its next
   run sends deletions.
8. *A deletion not pushed before signing out comes back* at the next sign-in: the
   states it would be detected from are cleared.
9. *Late streams* (`stream.go:250`). A stream that subscribes after its device was
   signed out, having authenticated before, is not among those ended. A sign-in
   whose password was checked before a password change gets its device after it.
10. *A link sent again* (`verify.go:43`) lives a week of its own while the account
    is deleted by the account's age: it can stop working sooner than its message
    says.
11. *A registration taken back after delivery* (`mail.go:161`). When only QUIT
    fails, the message has been accepted and the account is removed; its link
    leads nowhere. If the owner follows it, signs in and opens a stream before the
    request takes the account back, that stream is not ended either
    (`handleRegister` deletes the account and tells no listener). It takes four
    requests, one more than the run has; the proof of `StreamsEnd` found it.
12. *Two devices of one campaign* can both deal, both buy, and both record; the
    logs keep both. `NoDeadEnd` is stated for events of one device. A run's row
    says "finished" from the device that saw it last; dealing an environment
    afterwards does not revise it. A subtraction with a hero-scoped counter is
    applied as the code does it (`applyPerHeroCounter` knows "set" and otherwise
    adds).
13. *An empty table* (`draft/engine.ts:394`). It is offered when the shelf has
    nothing for the player, although legal cards may lie in the packs still
    sealed for others.
14. *The put-away row read by a second tab* is not read again before it is
    resumed or thrown away; `OnePlace` sets such games apart (`strays`).
15. *A connection broken between browser and relay* is told as "not sent" although
    the relay may have posted; `NoBlindCopy` counts only screens whose answers
    arrived. A screen that records the next game while an answer is due would put
    it on the wrong game; the model has it wait. Likewise an error BoardGameGeek,
    or a gateway, answers after the play was saved is passed on as a refusal
    (`server/bgg.go:275`), and the screen offers to send it again without a warning.
16. *"It may be there" is said once* (`PlayPage.svelte:427`). The warning is the
    last answer's: when an uncertain attempt is followed by a refused one, the
    screen offers the third like the first. `NoBlindCopy` therefore says "without
    having said once". With two attempts the difference cannot be seen; the proof
    for any number of them found it, and the run now has three.
17. *A deck named while the decks are saved* (`DraftPage.svelte:966`). `finish`
    deletes the draft's row in the transaction that saves the decks. The buttons
    beside it are disabled meanwhile (`saving`); the field for the name is not. A
    name typed then is a put that comes after the
    deletion: the draft is back on disk, is offered at the next visit, and its
    decks can be saved again. `SavedOnce` sets these drafts apart (`late`).
    `docs/product/specs/004-LIMITED-MODES-AND-GAME-SETUP.md:63` asks, of going back
    and of reloading, that the same decks are not saved twice.
18. *A change announced and not fetched* (`live.svelte.ts:161`,
    `sync.svelte.ts:181`). The event of a change that lands after the pull of a
    run in flight is joined to that run, which does not pull again (`missed`
    "late"; `flush` can spend a debt the same way); or the event starts a run, the
    run's pull fails, and nobody tries again while the stream stays open
    ("failed"). The change then waits for the next event, edit or reload.
    `ChangesAnnounced` shows that there is no third way. `auto.svelte.ts:19` says
    of the stream that "the server tells every open client about a change the
    moment it lands, so a deck built here is on the phone before the hand leaves
    the mouse, provided the phone is open": true of the telling.
19. *The market asks nobody* (`CampaignMarket.svelte:37`). `take` appends a purchase
    without asking whether the card is still on sale, and its button is not
    disabled while it does. A second tap before the page has folded the first, or a
    second device, buys the card again, and may charge more than the hero has.
    `canPurchase` (`rules.ts:207`) would refuse, and nobody calls it; `rules.ts:178`
    promises "one copy of each card per campaign across the whole group".
    `MarketHonest` speaks of the folds all of whose purchases had seen the
    earlier ones (`Informed`). The credits balance in every fold.

### Bounds

Every bound is a constant, named in the module and given in its cfg.

*Store, push, pull.* Revisions to 3 or 4 are enough for a live write, its
deletion, a sweep and a write after the horizon has moved; SyncPush needs 6 for
two batches delivered three times. Pages of one record put a page boundary
between any two records. Two keys distinguish "this record" from "the record
that came in between"; an append-only key is added where the event rule matters,
and two bodies tell an old write from a new one.

*Browsers.* Two edits are a write and a concurrent or later write in the middle
of a run; SyncDevices had three of them and one body in the run with refusals.
Adoption has one mover and one that stays, and one dated row: the cases of
sign-out are about one row's state, the cases of merging about its date. Three
visits are sign in, sign out, sign in again; one fault closes a tab at any await.

*AutoSync.* Two tabs are the fewest that share a lock, two edits the fewest of
which one is in time for a run and one is not; a buffer of one drops the second
invalidation. Two faults close both tabs, or lose a request and close one. `Locks`
is TRUE: without locks the instance has five times the states, and its liveness
does not end in reasonable time with two faults. With one fault all four
properties hold there as well, and the invariants are proved for both.

*Ratings.* Two pairings are the fewest that sum into a bare set, and a cache of
one is full when the second answer arrives.

*Accounts.* Three requests, of which two at a time: every pair of handlers meets
over an account made by a third. Links live one day, accounts two, so that each
clock can run out before the other.

*Campaign.* Nine events reach the finale through both jobs with room for what goes
wrong, and two cards in the market are enough to buy one twice, or both with the
credits for one; what is off that way (defeats, closed pages, buys, refunds,
conceding, other devices) is counted by `MaxDetours`, and three of those can be
combined.

*Draft.* Packs of two, decks of three or four from a shelf of seven copies: packs
run short, are rebuilt, and a table can be left empty. Besides the save of the
decks, one write of the page is outstanding at most (`MaxWrites`): enough for a
put behind a save. One write is refused or one page closed (`MaxFaults`).

*PlayTable.* Two games and two tabs: one put-away row is fought over. Two
detours (a closed tab, a discarded game, a broken connection, an error after the
save, a mark by hand)
can be combined. Three posts are an uncertain attempt, a refused one, and the
next.

`Writer`, `Device`, `Tab`, `Account`, `Game` are symmetric where the properties
do not depend on which; runs of liveness properties use no symmetry. The bound
on revisions makes pushes stop, so SyncDevices' `Converges` only speaks of
behaviours that do not use up `MaxRevision`: four, where two edits take two.

CHECK_DEADLOCK is off where a bounded counter (requests, events, edits, detours,
drafts, deliveries) ends what people do: Accounts, Adoption, Campaign, Draft,
PlayTable, SyncPush.

### Fairness

- *SyncFeed*: awaited promises continue (weak fairness on the browser's steps)
  and runs are started again (focus, timer, edit). A statement waits for the
  single connection, which other transactions keep taking; `database/sql` hands
  it out in the order it was asked for, hence strong fairness on `Serve`. A
  transaction ends, one way or the other (`TxEnds`). Nothing is assumed of the
  sweep or the writers.
- *SyncDevices*: a run in progress goes on, a request on the wire is handled or
  dropped, the next run starts.
- *AutoSync*: timers go off; the lock, where there is one, is a FIFO queue (strong
  fairness on `Enter`); a request is answered or fails; a tab that may listen
  connects, and events on an open stream are dispatched; a network that is gone
  comes back. Nothing is assumed of the user
  or of a tab being reopened.
- *Accounts*: a handler goes on or gives up, days pass, the hourly sweep comes
  round (`GoesOn`, one weak fairness: which of them moves is left open). Links
  are not assumed to be followed.
- *Draft*: the disk answers, and somebody at a table that can go on goes on,
  either by taking a card or by stopping an empty turn. It is written as
  `[]<>~TableReady \/ []<><<Table>>_vars`, which is weak fairness with what enables
  it spelled out.

## 4. Proofs

TLAPS checks these for every value of the constants: any keys, bodies, writers,
batches, readers, page size, builds, browsers, merge rules, refusals, tabs, games,
requests, accounts, scores, cards, identities, players, campaign templates, devices
and bounds. They assume only what the modules assume of their constants
(`StoreAssumption`, `PushAssumption`, `FeedAssumption`, `DevicesAssumption`,
`AdoptionAssumption`, `AutoAssumption`, `RatingsAssumption`, `AccountsAssumption`,
`TemplateAssumption`, `SizesAssumption` and `CardsAssumption`, and the
`TableAssumption` of PlayTable and that of Draft), which TLC evaluates in every
run of those modules, and, where a theorem says so, a hypothesis on the constants
that is the one its run has too (`Narrow`, no rejected ratings). What they say of
data is what the code's types say: a template's lists are lists and name its own
scenarios, the draw that notes the villain is none of its setup draws, sizes are
whole boosters, scores are small numbers.

Hardly any of these properties is inductive: they speak of what is at rest, and
are threatened by what is in flight. So each invariant below adds what the things
in flight (a page, a batch, an answer, a plan, a handler's next statement) may
still know or do. The lemmas go action by action; where actions have many
parts, a first layer of lemmas says what an action does to each variable, and
the invariants are then shown from that alone.

**SyncProofs, the store.** None of the store's properties is inductive. `IInv` is:

- `TypeOK`;
- `TxAlone`: at most one transaction is open;
- `TxAhead`, `TxWrote`: its counter is at or above the committed one, and every
  row it has written lies between the two, at distinct revisions;
- `Issued`: no committed row is above the committed counter;
- `RevisionsDistinct`;
- `SweepSound`: every row the sweep has found lies at or below its own horizon
  and, if it kept its revision, is still a tombstone; once the second statement
  ran, `min_cursor` is at least that horizon.

`InitIInv` and one lemma per action (`BeginKeeps`, `ApplyOneKeeps`, `CommitKeeps`,
...) give `StoreInvariant`. From it follow `StoreTypeOK`,
`StoreRevisionsDistinct`, the action properties `StoreNothingAppearsBelow` and
`StoreLeavesBelowHorizon`, and `StoreImplementsFeed`: Commit is the abstract
`Write` (or a stutter for an empty batch), SweepRaise is `Raise`, SweepDelete is
`Forget`, and everything else changes nothing a reader can see.

**SyncProofs, the push.** Every step of the endpoint is a step of the store or
leaves it alone, which carries all of the above over (`PushImplementsFeed`). For
the retries the invariant says, of each batch whose deliveries never met: at most
one handler has it (`Solo`); that handler has not committed it, or has and still
holds the answer; and once it has gone, the answer is remembered (`Once`).
`Holding` ties a handler to its transaction. `PushRetryIsNoOp` follows.

`PushOverwritesTold` needs `Telling`: of what an open transaction has written, every
row that was newer than its sender's base is in `told`. It stays true because no
other transaction commits meanwhile, so a row seen old when it was written is old
at the commit; `Delivered` fixes the sender's base over the life of the handler.

**SyncProofs, the pull.** `CursorCovers` only speaks of the stored cursor; a page in
flight was read under an older table. `FInv` adds to `IInv`, for each reader:

- `Positions`: cursors never exceed the account's counter;
- `KnownSound`: a row held at the record's own revision is that record;
- `CoversUpTo`, for the stored cursor and for the run's own position: everything
  at or below it is held as the account has it;
- `SeenAll`: in a recovery, everything at or below the position has been noted,
  so `dropUnseen` removes nothing live;
- `SameBuild`, `PageSound`, `EndSound`: the page's cursor does not pass a record
  the page leaves out, even if rows were rewritten after it was read.

The store's step is handled once, from `StoreNothingAppearsBelow`: whatever
moves, moves above every position. `FeedCursorCovers` is the theorem a reader
should know: through paging, recovery, crashes and upgrades the cursor never
lies past a live record the browser does not hold.

`FeedDeletionsReach` is the other half, under `Narrow`: the two reads of a pull at
one instant, a first cursor that is kept, builds that read the same collections.
Section 3 says what each window costs; the run `SyncFeed` has the same three. `DInv`
follows the *ghosts*, rows a browser holds and the account has no trace of:
`GhostAtRest` and `GhostInRun` put the browser below the horizon at its stored
cursor, where its run stands, and past the page in hand; `Checked` keeps the
horizon check true until the page is read; `FromNothing` says that a run from
zero has taken only rows still on the account, at least as tombstones that the
sweep may not take during this run (`Held`, `ExpiredOld`), and that `dropUnseen`
leaves no others; `PageFresh` that a page applied late does not bring a ghost
back.

**BrowserProofs, edits and pushes.** `HInv` holds whatever is refused. Of the
account it says that a revision names one record and an event has its one body
(`RecordsOK`); of each browser (`BrowserOK`), that every state and every page is a
copy of the record, perhaps out of date, but never another body at the same
revision (`CopiesOK`); that one record is in flight at a time and, while it is
waited for, is what is on the wire (`BatchOK`); and that an answer is about the
record that was sent (`AnswerOK`: it is a copy, its revision is this record's and
no other's). From it follow `DevicesTypeOK`, `DevicesStateHonest`,
`DevicesEventsStay` and `DevicesImplementFeed`: the arrival of a push is the
abstract `Write`, of one record at the next revision, a refused or repeated one a
stutter, and the horizon never moves.

`IInv` adds `CoversOK`: everything up to the cursor has been told to the browser;
a pulled page is the account between the cursor and its end; an applied one
extends what was told; and a confirmed push was told too, so `cursorAfterPush` may
step over it but over nothing between. This is where a rejection breaks the
chain: it removes the local row and its state while the account keeps the earlier
rating below the cursor (section 3, item 3), so `DevicesCursorCovers` and
`DevicesCleanMeansEqual` assume `"rejected" \notin Refusals`. The proof did not
need what the property first said, that nothing of the browser is on the wire: a
push given up on may still arrive, and then lies above the cursor. The property
was strengthened accordingly.

**BrowserProofs, coming and going.** A step of a run is the same step, the
sign-in and sign-out handlers are new. `BInv` adds where a browser can be in its
session (`SessionOK`: no run between the last writes of a sign-out, nothing
adopted without a session) and that a plan stages the account as it was at one
revision (`PlanOK`). `AdoptionReleasedComesBack` and `AdoptionNeverReplaces` are
action properties that follow from it. `AdoptionOnlyUsersDelete` needs `EInv`: a
deletion reaches the account through a missing row, what a run has read of it,
what it owes, what it sends and what is on the wire, and `DeletionsOK` says of
each of these stations that what lacks a body was erased by a user, or is being
released by a sign-out that no run sees. It is stated under `torn = {}`, like the
property. `AdoptionMeansEqual` needs `CInv`: `CoversOK` survives adopting, releasing
and clearing, because a browser without an account confirms nothing (`FreshOK`).
`AdoptionImplementsFeed` carries the refinement over to browsers that come and go.

**TabsProofs, the scheduling.** `OwedIsScheduled` needs `Sound` for each tab: what
is owed while a flush is under way has a timer of its own, and a run has scanned
no write that was not made. `UnsentIsRemembered` needs `Remembered`, which relates
disk and memory: a flag on disk means that some tab owes; without the flag, a
write not sent is one that some flush is in time for, or one of the two exceptions
happened. `IInv` is the conjunction, with the types; each action has a lemma,
those of one tab through what the helpers `Joined`, `Woken`, `Retried`, ...
return. Nothing in it says that one run excludes another, so it holds in a browser
without locks.

`AutoChangesAnnounced` is about the stream, and its invariant `HInv` is separate:
a tab listens only while it is in `leading`; the cursor it was loaded with is one
the account has been at (so a greeting is withheld only from a tab that lacks
nothing); and a tab with an open stream, of a browser that is behind, is `Aware`.
What could break it is that the event is dropped because the buffer is full, and
then another one is in it; that a stream ends, and then the next greets; that a
run ends without having pulled, and then either a flush owes again or `missed` says
so.

**AccountsProofs.** What a handler holds depends on how far it has come, and
`Steps` is data: the lemmas `Programs`, `Facts` and `Where` tabulate, for each kind
of request and each number of steps left, which step is next. `TInv` is types and
`Knows` (past its first step a handler has its account, a token's handler its
device). `Writes` says for each variable which steps of which requests can have
changed it. On that:

- `AccountsNoOrphans`: `Parented`, a device in the table has its account in the
  table, which the foreign key and its cascade keep;
- `AccountsNeverLockedOut`: the person of a handler that sets a password remembers
  it (`Minded`), and a recovery about to replace the code has a password that works
  (`Covered`), which is the order of `handleRecover`;
- `AccountsStreamsEnd`: accounts and devices that no request has made yet do not
  exist and nobody refers to them (`Fresh`, `Unused`); a stream's token stays its
  account's (`Owned`) and its account stays confirmed (`Confirmed`); a stream whose
  device has gone is `late`, or the request that took the device is at the very step
  that will end it (`Ending`), not merely at some such step;
- `AccountsFirstLinkWorks`: an account has no age while it is being registered
  (`Young`), and a mailed link's account is there, has that link, and is confirmed
  or younger than the link (`NoLink`, `Linked`): so the sweep, whose clock is the
  account's, does not come first.

**TabsProofs, the table.** The `...Does` lemmas describe each action; `Fits`
relates posts, pages and plays by type. `PlayOnePlace` needs `Games`: what a page
asks the disk about is the game on its table or one it has let go of (`Taken`,
`Known`); and a game that no other tab met is on one table at most, is both put
away and on a table only while the row it came from is being deleted, and is
nowhere else once recorded (`Once`). `PlaySaidIsThere` needs that a post answered
"ok" made a copy (`Honest`). `PlayNoBlindCopy` is `Careful`: a screen waits for
one answer at a time and offers nothing meanwhile (`OneAnswer`), and after a copy
it has said so once, or has no way left to send that play (`Closed`, `Settled`).

**RatingsProofs and SumTheorems.** `SummaryMatches` compares a row that was moved
by differences with a recount, so its proof is about sums. SumTheorems has the few
facts needed of the library's `SumFunction` and `SumFunctionOnSet` (a sum moves by
what one element moves, a sum over a larger set, a sum of zeros). Each is an
induction, done without an operator parameter: the *set* of naturals for which it
holds has 0 and with n has n + 1, hence is everything (`FromZeroUp`, from the
well-foundedness of <), or likewise over finite sets (`FromEmptyUp`). `IInv` then
says that the committed tables and the open transaction's both tally (`TablesOK`),
that the transaction's summaries differ from the committed ones only in the
subjects it has touched (`WorkOK`: what it will forget is what it moved), and of
each request, that what it has read is current, or about to be forgotten, for as
long as the generation it noted stands (`ReadOK`); the same of each cached answer
(`CacheOK`). `SummariesCounted` and `CacheNeverStale` follow.

**DraftProofs.** `CopiesAlwaysConserved`, `OffersAlwaysHonest` and
`FullDecksAlwaysLegal` have one invariant, `AllGood`: every draft anywhere, on the
page, on disk or in a write still queued, is a good one, which is why closing and
opening the page costs nothing. `GoodAt` goes phase by phase. Before the table is
set, nothing is dealt and no identity sits twice (`Waiting`, `Seating`). Then
every deck is sound: nothing blocks it, and unless its player was stopped short
the picks left can still even its aspects out (`DecksSound`, `BalanceOpen`). This
last part is what makes a *full* deck legal: `canTake` asks it of one card against
the picks of that moment, and it must survive packs built many picks earlier. A
draft conserves each card over shelf, packs, table and decks and offers only what
can be taken (`Drafted`); a sealed pool conserves it over shelf and pools, with
every deck within its own (`Pooled`). Packs are built with folds and CHOOSE; the
lemmas about `BuildPacks` and `OpenPack` say what every possible outcome has in
common. `SavedAtMostOnce` needs `SavedInv`: once the decks of a draft are saved,
nothing on the page, on disk or in the queue can bring it back (`Over`), and as
long as a save is queued, no put of that draft is behind it (`SavedLast`).

**CampaignProofs.** `VillainKept` compares the folds of two logs, the second of
which may have events anywhere in between, from another device. A fold is a
recursive function over an arbitrary log, and what it computes is out of reach;
but that two folds *agree* in one component is again an induction over the set of
the positions up to which they do. `FoldVillains`: of two logs, one with more than
the other and no deal among what it has more, both note the same villains. Its
step needs that no other event touches that note (`EffectLeaves` and one lemma per
event type), that `replayedDraws` keeps it, and that an event that is withdrawn in
one log and not in the other is none that notes a villain. So the invariant `CInv`
has to say what a log may hold: `LogSound`, that only concessions and purchases
are taken back, that a setup choice is never of the villain's draw, that results
name scenarios of the template. It holds because each page acts on something some
log of these events folds to, however old (`PagesSound`), and because a device's
state is what its log folds to (`StatesSound`). `CampaignVillainKept` is the
theorem, for every template.

**What attempts at proofs found.** `StreamsEnd` was false with four requests
(section 3, item 11), `NoBlindCopy` held only because the run had two posts (item
16): both properties now name the exception, and their runs still pass. Two
hypotheses turned out not to be needed and are gone: that nothing is on the wire
in `CleanMeansEqual` and `AdoptedMeansEqual`. And an append-only row in SyncDevices
could be edited into another body under the same id, which the code cannot do
(`newId`); `EventBody` repairs that. `SavedOnce` was true only because the model let
nothing be written while a save was queued, as the page's buttons do but its
text field does not (item 17): the model now lets it, and the property names the
exception. And the legality of full decks turned out to rest on assumptions that
were nowhere written: `CardsAssumption` and `SizesAssumption` state them.

**Only model-checked**:

- Every liveness property (`Converges`, `EditsReach`, `NeverConfirmedIsDeleted`,
  `DraftEnds`): liveness under fairness and ENABLED are out of the prover's reach.
- `FinaleLast`, `MarketHonest` and `NoDeadEnd` of Campaign. They are not true of
  every template `TemplateAssumption` admits, and the code does not make them so:
  whether the finale can be reached early, whether every purchase has its price on
  the heroes' counters, whether a job remains to be chosen is written in each
  template's data. A proof would need a predicate on templates that says most of
  what the properties say. TLC checks them on a template with each of the
  mechanisms.
- What a fold computes (the credits as a sum over a log, the completed
  scenarios): inductions over data whose statement is the fold itself.

## 5. What is left out, and why

- Bodies, field-level merges and local-only fields: data. Only what a merge
  compares is modelled. The merges that combine (`merge.ts:117`: a play reported by
  either side, settings united, the larger number of owned packs) take the incoming
  row in the model, and forking a deck that two sides edited is the merge of one row
  in Adoption.
- Collisions of the 32-bit digest by which a browser notices an edit
  (`state.ts:79`): the model compares bodies.
- What two runs of one browser without Web Locks do to its rows: SyncFeed,
  SyncDevices and Adoption have one run of a browser at a time. AutoSync has the
  overlapping runs, and only asks which writes they were in time for.
- In Adoption: the settings, which releasing leaves in place (`device.ts:118`).
- Batches of several records in SyncDevices (each record is its own batch;
  SyncStore and SyncPush have the batches).
- What the server validates in ratings is a verdict in Ratings; the evidence
  itself is in SyncDevices.
- `SweepOld` in SyncFeed assumes that the retention (180 days) outlasts a run.
- Dexie's hooks and their global `remoteDepth`; which user writes fall in that
  window is the library's scheduling.
- In Accounts: the hash gate and rate limits (a request turned away is one that
  never arrives or fails at its hash), the alpha gate, changing the pseudonym,
  renaming a device, the account export.
- In CampaignEngine: heroes' printed health, the printed order of villains, answer
  cards, the ally a hero opens with and recovery lists (`engine.ts:440`, `:632`,
  `:948`), per-hero numbers read from answers, clocks. Credits are one counter:
  the fold falls back on "credits" where the market asks the template
  (`engine.ts:795`, `rules.ts:190`), which differs only for a template whose
  market names another. In Campaign: the list of campaigns (restart, delete), the
  briefing's texts, two pages open at once.
- In DraftEngine: the stock built from decks on a shelf (it is in the collection a
  behaviour starts with), seeds, subtitles and the signature cards among the
  unique ones (`deckRules.ts:278`), more than one deck option of an identity
  (`deckRules.ts:349`). In Draft: everything that is only shown, the mode that
  offers five random identities (`DraftPage.svelte:200`), and two tabs over the
  one row of the draft.
- In PlayTable: seats, clock and counters of a game; editing, deleting and merging
  recorded plays; entering BoardGameGeek credentials; the place remembered between
  a game's recording and its post (`PlayPage.svelte:539`), and that recording the
  next game clears what was said of the last (`:550`). A screen acts once its own
  write is done, and records nothing while it waits for BoardGameGeek.

### Not modelled

- *Rate limiter and hash gate*: sliding windows over a clock, sequential under
  one mutex, with their own tests.
- *Server process*: starts and stops timers that are actions of the other modules.
- *Encounter tracker*: counters of one page, nothing runs beside them.
- *Plays, statistics, achievements, decks, randomiser*: pure functions over rows,
  compared with the repository's test vectors; a bounded instance says little
  about a statistic.
- *Backup and restore*: one transaction over the local tables; to synchronisation
  it is a burst of edits, which SyncDevices has.
- *User interface, texts, art, service worker, build*: most of the repository's
  lines (components, two languages of texts, generated card data, scripts) keep no
  state that a property here is about. This is why the modules map about a
  fifteenth of the lines: they map a third to four fifths of most files they are
  about.

## 6. Plan

Done: all the modules above with their runs, and a theorem for every safety
property but the three of Campaign that depend on the template.

Worth doing next, in this order:

1. **The torn sign-out** (section 3, item 7), the adoption of rows changed after
   the question (item 6), and the deck named while it is saved (item 17), should the
   code come to handle them: the exceptions `torn`, `here` and `late` would then go.
2. **Well-formed templates**: the predicate under which `MarketHonest` and
   `FinaleLast` hold, evaluated on the repository's own campaigns, and then the
   theorems under it.
3. **SyncDevices over SyncFeed**: batches of several records and a horizon in the
   module with edits. Both implement AccountFeed, so nothing in the account would
   differ; what a browser believes during a recovery would.
4. **Backup**: a restore in the middle of a run, as one large edit of Adoption.

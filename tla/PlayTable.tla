------------------------------ MODULE PlayTable ------------------------------
(***************************************************************************)
(* The game on the table, from setup to the history and to BoardGameGeek:  *)
(* the session a tab holds in memory (web/src/lib/session.svelte.ts), the  *)
(* Play page over it (PlayPage.svelte), the one put-away game on disk      *)
(* (LongBreak.svelte, pausedGame.ts), the recorded games, and the relay    *)
(* that posts them (bgg.svelte.ts, PlayDetail.svelte, server/bgg.go).      *)
(*                                                                         *)
(* Tabs share the disk and nothing else.  A tab is closed at any moment,   *)
(* with the session it holds; a request or an answer is lost at any stage. *)
(* What a game is made of (its seats, its clock, its counters) is data.    *)
(***************************************************************************)
EXTENDS Integers, FiniteSets, SequencesExt, Tabs

CONSTANTS Game,         \* games that are started
          NoGame,
          MaxPlays,     \* bounds, for TLC
          MaxSends,
          MaxDetours    \* of all that is off the way from setup to BGG

ASSUME TableAssumption ==
    /\ NoGame \notin Game
    /\ {MaxPlays, MaxSends, MaxDetours} \subseteq Nat

Play == 1..MaxPlays     \* rows of db.plays
NoPlay == 0

VARIABLES table,        \* per tab, session.current: its phase and its game
          page,         \* per tab, the screen that is open
          paused,       \* the row of pausedGames
          plays,        \* db.plays, in the order recorded
          posts,        \* the calls of sendPlayToBgg in progress, in order
          sends,        \* how many there have been
          copies,       \* external: what BoardGameGeek holds, by play
          detours,      \* what has been used of the bounds
          started,      \* history: games started
          given,        \* history: games somebody let go of
          strays,       \* history: games another tab met through the put-away
                        \* row, when it had been taken or replaced
          byHand,       \* history: plays marked by the reader
          said,         \* history: the plays the open screen has said may be
                        \* on BoardGameGeek (bggUncertain)
          blind         \* history: copies made by the open screen, those of
                        \* plays it had said that of, and those it got no
                        \* answer about or a wrong one, excepted

vars == <<table, page, paused, plays, posts, sends, copies, detours,
          started, given, strays, byHand, said, blind>>

sending == <<posts, sends, copies, byHand, said, blind>>

OnTables == {table[t].game : t \in Tab}

Empty == [phase |-> "setup", game |-> NoGame]

Idle == [kind |-> "none", game |-> NoGame]

(* A screen as it opens.  `shown' is the put-away game it read, `op' what   *)
(* it is asking of the disk, `play' the game it offers to send.             *)
Screen(at, shown, p) ==
    [at |-> at, shown |-> shown, op |-> Idle, over |-> FALSE, recorded |-> FALSE,
     play |-> p, bgg |-> "idle"]

Elsewhere == Screen("elsewhere", NoGame, NoPlay)

(* The reader acts on a screen once its write is done. *)
On(t, at) == page[t].at = at /\ page[t].op = Idle

(* Bound: what is off the straight way is counted. *)
Detour == detours < MaxDetours /\ detours' = detours + 1

NoCount == [p \in Play |-> 0]

-----------------------------------------------------------------------------
Init ==
    /\ table = [t \in Tab |-> Empty]
    /\ page = [t \in Tab |-> Elsewhere]
    /\ paused = NoGame
    /\ plays = <<>> /\ posts = <<>> /\ sends = 0
    /\ copies = NoCount
    /\ detours = 0
    /\ started = {} /\ given = {} /\ strays = {} /\ byHand = {}
    /\ said = [t \in Tab |-> {}]
    /\ blind = [t \in Tab |-> NoCount]

(* --- coming and going --------------------------------------------------- *)

(* Who waits for the answers to a tab's calls: its screen, or only the tab, *)
(* or nobody.                                                               *)
Waits(t, who) ==
    posts' = [i \in DOMAIN posts |->
                 IF posts[i].tab = t /\ posts[i].waits # "nobody"
                 THEN [posts[i] EXCEPT !.waits = who] ELSE posts[i]]

(* The Play page, with the put-away game it finds (refreshPutAway). *)
Open(t) ==
    /\ On(t, "elsewhere")
    /\ page' = [page EXCEPT ![t] = Screen("play", paused, NoPlay)]
    /\ UNCHANGED <<table, paused, plays, detours, started, given, strays, sending>>

(* A recorded game, in the history. *)
Look(t) ==
    /\ On(t, "elsewhere")
    /\ \E p \in DOMAIN plays :
          page' = [page EXCEPT ![t] = Screen("history", NoGame, p)]
    /\ UNCHANGED <<table, paused, plays, detours, started, given, strays, sending>>

(* A screen left forgets everything but the session. *)
Leave(t) ==
    /\ (On(t, "play") \/ On(t, "history"))
    /\ Detour
    /\ page' = [page EXCEPT ![t] = Elsewhere]
    /\ Waits(t, "tab")
    /\ said' = [said EXCEPT ![t] = {}]
    /\ blind' = [blind EXCEPT ![t] = NoCount]
    /\ UNCHANGED <<table, paused, plays, sends, copies, started, given, strays, byHand>>

(* --- from setup to the end of a game ------------------------------------ *)

Move(t, from, to) ==
    /\ On(t, "play") /\ ~page[t].recorded
    /\ table[t] = [phase |-> from, game |-> NoGame]
    /\ table' = [table EXCEPT ![t].phase = to]
    /\ UNCHANGED <<page, paused, plays, detours, started, given, strays, sending>>

GoToBriefing(t) == Move(t, "setup", "briefing")
BackToSetup(t) == Move(t, "briefing", "setup")

StartGame(t) ==
    /\ On(t, "play") /\ ~page[t].recorded
    /\ table[t].phase = "briefing"
    /\ \E g \in Game \ started :
          /\ table' = [table EXCEPT ![t] = [phase |-> "playing", game |-> g]]
          /\ started' = started \cup {g}
    /\ UNCHANGED <<page, paused, plays, detours, given, strays, sending>>

Playing(t) == On(t, "play") /\ ~page[t].recorded /\ table[t].phase = "playing"

Finish(t) ==
    /\ Playing(t) /\ ~page[t].over
    /\ page' = [page EXCEPT ![t].over = TRUE]
    /\ UNCHANGED <<table, paused, plays, detours, started, given, strays, sending>>

BackToGame(t) ==
    /\ Playing(t) /\ page[t].over
    /\ Detour
    /\ page' = [page EXCEPT ![t].over = FALSE]
    /\ UNCHANGED <<table, paused, plays, started, given, strays, sending>>

Forget(t) == [page[t] EXCEPT !.over = FALSE, !.recorded = FALSE,
                             !.play = NoPlay, !.bgg = "idle"]

(* newGame: the game is thrown away; or the last one is put out of sight,   *)
(* and, by playAgain, laid out again.                                       *)
Cleared(t) ==
    /\ table' = [table EXCEPT ![t] = Empty]
    /\ page' = [page EXCEPT ![t] = Forget(t)]

DiscardGame(t) ==
    /\ Playing(t) /\ ~page[t].over
    /\ Detour
    /\ Cleared(t)
    /\ given' = given \cup {table[t].game}
    /\ UNCHANGED <<paused, plays, started, strays, sending>>

NewGame(t) ==
    /\ On(t, "play") /\ page[t].recorded
    /\ Cleared(t)
    /\ UNCHANGED <<paused, plays, detours, started, given, strays, sending>>

(* --- what a page asks of the disk --------------------------------------- *)

(* Mutant: the table is cleared before the game is on disk. *)
TableClearedFirst(t) == Empty

TableWhileWriting(t) == table[t]

Ask(t, kind, game) == page' = [page EXCEPT ![t].op = [kind |-> kind, game |-> game]]

(* LongBreak's save, and record. *)
PutAway(t) ==
    /\ Playing(t) /\ ~page[t].over
    /\ Detour
    /\ Ask(t, "put away", table[t].game)
    /\ table' = [table EXCEPT ![t] = TableWhileWriting(t)]
    /\ UNCHANGED <<paused, plays, started, given, strays, sending>>

(* Bound: no game is recorded while the screen still waits for BGG's answer *)
(* about the one before.                                                    *)
Record(t) ==
    /\ Playing(t) /\ page[t].over
    /\ \A i \in DOMAIN posts : posts[i].tab = t => posts[i].waits # "screen"
    /\ Len(plays) < MaxPlays
    /\ Ask(t, "record", table[t].game)
    /\ UNCHANGED <<table, paused, plays, detours, started, given, strays, sending>>

Offered(t) == /\ On(t, "play") /\ ~page[t].recorded
              /\ table[t].phase = "setup" /\ page[t].shown # NoGame

(* resume: the game is on the table before its row is deleted.  A row read  *)
(* before another tab changed it is taken as it was read.                   *)
Resume(t) ==
    /\ Offered(t)
    /\ table' = [table EXCEPT ![t] = [phase |-> "playing", game |-> page[t].shown]]
    /\ Ask(t, "discard", page[t].shown)
    /\ strays' = strays \cup ({page[t].shown} \ ({paused} \ OnTables))
    /\ UNCHANGED <<paused, plays, detours, started, given, sending>>

ThrowAway(t) ==
    /\ Offered(t)
    /\ Detour
    /\ Ask(t, "discard", page[t].shown)
    /\ given' = given \cup {page[t].shown}
    /\ UNCHANGED <<table, paused, plays, started, strays, sending>>

(* What the disk does of it, while `gone' are let go of.  The row deleted   *)
(* is the one that is there, and a game put away replaces another.          *)
Write(op, gone) ==
    \/ /\ op.kind = "none"
       /\ given' = given \cup gone
       /\ UNCHANGED <<paused, plays, strays>>
    \/ /\ op.kind = "discard"
       /\ paused' = NoGame
       /\ strays' = strays \cup ({paused} \ {NoGame, op.game})
       /\ given' = given \cup gone
       /\ UNCHANGED plays
    \/ /\ op.kind = "put away"
       /\ paused' = op.game
       /\ given' = given \cup gone \cup ({paused} \ {NoGame})
       /\ UNCHANGED <<plays, strays>>
    \/ /\ op.kind = "record"
       /\ Len(plays) < MaxPlays
       /\ plays' = Append(plays, [game |-> op.game, reported |-> FALSE])
       /\ given' = given \cup gone
       /\ UNCHANGED <<paused, strays>>

(* endGame. *)
TableAfterWrite(t) == Empty

(* A call of sendPlayToBgg leaves the tab. *)
Post(t, p) ==
    /\ sends' = sends + 1
    /\ sends' <= MaxSends
    /\ posts' = Append(posts, [tab |-> t, waits |-> "screen", play |-> p, at |-> "wire",
                               copy |-> FALSE, code |-> "none"])

(* The write is done and the page goes on: back to setup with the row that  *)
(* is now there, or to the debrief, from where the play is sent at once if  *)
(* the reader wants that.                                                   *)
Written(t) ==
    /\ page[t].op # Idle
    /\ Write(page[t].op, {})
    /\ table' = IF page[t].op.kind = "discard" THEN table
                ELSE [table EXCEPT ![t] = TableAfterWrite(t)]
    /\ IF page[t].op.kind = "record"
       THEN \E always \in BOOLEAN :
               /\ page' = [page EXCEPT ![t].op = Idle, ![t].recorded = TRUE,
                              ![t].play = Len(plays'),
                              ![t].bgg = IF always THEN "sending" ELSE "idle"]
               /\ IF always THEN Post(t, Len(plays')) ELSE UNCHANGED <<posts, sends>>
       ELSE /\ page' = [page EXCEPT ![t].op = Idle, ![t].shown = paused']
            /\ UNCHANGED <<posts, sends>>
    /\ UNCHANGED <<copies, detours, started, byHand, said, blind>>

(* The tab is closed, before or after a write it had asked for: the game on *)
(* its table goes with it.                                                  *)
Close(t) ==
    /\ Detour
    /\ \E op \in {page[t].op, Idle} : Write(op, {table[t].game} \ {NoGame})
    /\ table' = [table EXCEPT ![t] = Empty]
    /\ page' = [page EXCEPT ![t] = Elsewhere]
    /\ Waits(t, "nobody")
    /\ said' = [said EXCEPT ![t] = {}]
    /\ blind' = [blind EXCEPT ![t] = NoCount]
    /\ UNCHANGED <<sends, copies, started, byHand>>

(* --- sending to BoardGameGeek ------------------------------------------- *)

(* The button of the debrief: not while one is on its way or has arrived.   *)
SendFromDebrief(t) ==
    /\ On(t, "play") /\ page[t].recorded
    /\ page[t].bgg \notin {"sending", "sent"}

(* The button of the history: not while one is on its way, nor for a play   *)
(* that is marked.                                                          *)
SendFromHistory(t) ==
    /\ On(t, "history")
    /\ page[t].bgg # "sending" /\ ~plays[page[t].play].reported

Send(t) ==
    /\ SendFromDebrief(t) \/ SendFromHistory(t)
    /\ Post(t, page[t].play)
    /\ page' = [page EXCEPT ![t].bgg = "sending"]
    /\ UNCHANGED <<table, paused, plays, copies, detours,
                   started, given, strays, byHand, said, blind>>

(* Mutant: no answer is read as BGG out of reach. *)
CutOffAsUnreachable == [copy : BOOLEAN, code : {"bgg_unreachable"}]

(* postPlay once the whole request has left: with no answer, or half of     *)
(* one, BGG may have the play.                                              *)
CutOff == [copy : BOOLEAN, code : {"bgg_uncertain"}]

(* External: BGG refuses the login, or the play, or takes it.               *)
Answered == {[copy |-> FALSE, code |-> "bgg_rejected"], [copy |-> TRUE, code |-> "ok"]}

(* External: BGG takes the play and answers with an error all the same, or  *)
(* a gateway before it does.                                                *)
Misread == {[copy |-> TRUE, code |-> "bgg_rejected"]}

(* handleBggPlay: it signs in, posts, and says how it went. *)
Relay(i) ==
    /\ posts[i].at = "wire"
    /\ \E o \in Answered \cup CutOff \cup Misread :
          /\ IF o \in Answered THEN UNCHANGED detours ELSE Detour
          /\ posts' = [posts EXCEPT ![i].at = "back", ![i].copy = o.copy, ![i].code = o.code]
          /\ copies' = IF o.copy THEN [copies EXCEPT ![posts[i].play] = @ + 1] ELSE copies
    /\ UNCHANGED <<table, page, paused, plays, sends,
                   started, given, strays, byHand, said, blind>>

(* The request, or the answer, is lost between the browser and the relay:   *)
(* call() says `offline' in both cases.                                     *)
Lose(i) ==
    /\ posts[i].code # "offline"
    /\ Detour
    /\ posts' = [posts EXCEPT ![i].at = "back", ![i].code = "offline"]
    /\ UNCHANGED <<table, page, paused, plays, sends, copies,
                   started, given, strays, byHand, said, blind>>

(* Mutant: a play that may be there is marked. *)
MarksUnlessRefused(code) == code \in {"ok", "bgg_uncertain"}

(* sendPlayToBgg marks the play only once BGG has it. *)
Marks(code) == code = "ok"

(* What the screen says next.  The debrief puts the play of the answer      *)
(* before the reader, the history shows the mark.                           *)
Told(t, post) ==
    IF page[t].at = "history"
    THEN [page[t] EXCEPT !.bgg = IF Marks(post.code) THEN "idle" ELSE "failed"]
    ELSE IF Marks(post.code)
    THEN [page[t] EXCEPT !.bgg = "sent", !.play = post.play]
    ELSE [page[t] EXCEPT !.bgg = "failed"]

Counted(post) ==
    /\ post.copy /\ post.waits = "screen" /\ post.code \notin {"offline", "bgg_rejected"}
    /\ post.play \notin said[post.tab]

(* The answer is read by the tab, if it is still open.                      *)
Settle(i) ==
    /\ posts[i].at = "back"
    /\ posts' = RemoveAt(posts, i)
    /\ plays' = IF Marks(posts[i].code) /\ posts[i].waits # "nobody"
                THEN [plays EXCEPT ![posts[i].play].reported = TRUE] ELSE plays
    /\ page' = IF posts[i].waits = "screen"
               THEN [page EXCEPT ![posts[i].tab] = Told(posts[i].tab, posts[i])] ELSE page
    /\ said' = IF posts[i].waits = "screen" /\ posts[i].code = "bgg_uncertain"
               THEN [said EXCEPT ![posts[i].tab] = @ \cup {posts[i].play}] ELSE said
    /\ blind' = IF Counted(posts[i])
                THEN [blind EXCEPT ![posts[i].tab][posts[i].play] = @ + 1] ELSE blind
    /\ UNCHANGED <<table, paused, sends, copies, detours, started, given, strays, byHand>>

(* markReported: logged by hand on BGG's own form, or not there after all,  *)
(* in which case another copy is what the reader wants.                     *)
Mark(t) ==
    /\ On(t, "history") /\ page[t].bgg # "sending"
    /\ Detour
    /\ LET p == page[t].play IN
          /\ plays' = [plays EXCEPT ![p].reported = ~@]
          /\ byHand' = byHand \cup {p}
          /\ blind' = [s \in Tab |-> [blind[s] EXCEPT ![p] = 0]]
    /\ UNCHANGED <<table, page, paused, posts, sends, copies,
                   started, given, strays, said>>

-----------------------------------------------------------------------------
Next ==
    \/ \E t \in Tab :
          \/ Open(t) \/ Look(t) \/ Leave(t)
          \/ GoToBriefing(t) \/ BackToSetup(t) \/ StartGame(t)
          \/ Finish(t) \/ BackToGame(t) \/ DiscardGame(t) \/ NewGame(t)
          \/ PutAway(t) \/ Record(t) \/ Resume(t) \/ ThrowAway(t) \/ Written(t)
          \/ Close(t)
          \/ Send(t) \/ Mark(t)
    \/ \E i \in DOMAIN posts : Relay(i) \/ Lose(i) \/ Settle(i)

Spec == Init /\ [][Next]_vars

-----------------------------------------------------------------------------
(* Type invariant.  The debrief is never over a game still on the table.    *)
TypeOK ==
    /\ table \in [Tab -> [phase : {"setup", "briefing", "playing"}, game : Game \cup {NoGame}]]
    /\ \A t \in Tab : table[t].phase = "playing" <=> table[t].game # NoGame
    /\ page \in [Tab -> [at : {"elsewhere", "play", "history"}, shown : Game \cup {NoGame},
                         op : [kind : {"none", "discard", "put away", "record"},
                               game : Game \cup {NoGame}],
                         over : BOOLEAN, recorded : BOOLEAN, play : Play \cup {NoPlay},
                         bgg : {"idle", "sending", "sent", "failed"}]]
    /\ \A t \in Tab : page[t].recorded => table[t] = Empty
    /\ paused \in Game \cup {NoGame}
    /\ plays \in Seq([game : Game, reported : BOOLEAN]) /\ Len(plays) <= MaxPlays
    /\ sends \in 0..MaxSends /\ Len(posts) <= sends
    /\ copies \in [Play -> Nat] /\ blind \in [Tab -> [Play -> Nat]]
    /\ said \in [Tab -> SUBSET Play]
    /\ detours \in 0..MaxDetours
    /\ UNION {started, given, strays} \subseteq Game /\ byHand \subseteq Play

RecordsOf(g) == {p \in DOMAIN plays : plays[p].game = g}

(* A game that was started is on a table, put away or recorded, whatever    *)
(* page is left and whenever a tab is closed, unless somebody let go of it  *)
(* (the tab it was on was closed, or another game was put away over it), or *)
(* another tab handled the put-away row it had read before.                 *)
GameKept ==
    \A g \in started : \/ g \in OnTables \cup {paused} \cup given \cup strays
                       \/ RecordsOf(g) # {}

(* A game counts once: it is not recorded twice, nor still to be recorded   *)
(* when it has been, unless another tab took it up from a stale row.        *)
CountedOnce ==
    \A g \in started \ strays :
        /\ Cardinality(RecordsOf(g)) <= 1
        /\ RecordsOf(g) # {} =>
              /\ g # paused
              /\ \A t \in Tab : table[t].game = g => page[t].op.kind = "record"

(* A game is in one place: kept until it is recorded, and then nowhere else *)
(* (startGame, LongBreak's save, record, newGame, resume and throwAway).    *)
OnePlace == TypeOK /\ GameKept /\ CountedOnce

(* What the history and the debrief say is on BoardGameGeek is there.       *)
SaidIsThere ==
    /\ \A p \in DOMAIN plays : plays[p].reported => p \in byHand \/ copies[p] > 0
    /\ \A t \in Tab : page[t].bgg = "sent" => copies[page[t].play] > 0

(* One screen does not post a second copy of a play without having said     *)
(* once that the first may be there, as long as the relay's answers reach   *)
(* it and an error of BoardGameGeek means that it did not keep the play: an *)
(* answer BGG cut off is told apart from a play that was not sent.          *)
(* It says so once: when the next attempt is refused, the one after it is   *)
(* offered like any other (PlayPage.svelte bggMaybe, PlayDetail bggFailure). *)
NoBlindCopy == \A t \in Tab, p \in Play : blind[t][p] <= 1
=============================================================================

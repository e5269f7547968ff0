------------------------------ MODULE Adoption ------------------------------
(***************************************************************************)
(* Signing in, adopting an account and signing out again (web/src/lib/sync *)
(* session.svelte.ts, sync.svelte.ts, adoption.ts, device.ts), around the  *)
(* synchronisation of module SyncDevices.                                  *)
(*                                                                         *)
(* A browser that holds rows of its own may sign in; turning sync on reads *)
(* the account, plans the merge, and asks; the plan is carried out when    *)
(* the answer comes.  Signing out revokes the token, waits for the run in  *)
(* progress, removes the rows the account holds a copy of, and forgets the *)
(* account, each a write of its own with the tab free to close in between. *)
(***************************************************************************)
EXTENDS SyncDevices

CONSTANTS Mover,      \* browsers that sign in and out; the others stay in
          Offline,    \* TRUE: the server may be out of reach at sign-out
          MaxVisits   \* bound on sign-ins and sign-outs

ASSUME AdoptionAssumption == /\ Mover \subseteq Device
                             /\ Offline \in BOOLEAN
                             /\ MaxVisits \in Nat

VARIABLES session,    \* per browser, syncState and the module's own state
          plan,       \* per browser, the adoption it has staged
          visits,
          erased,     \* history: keys a user deleted on some browser
          torn        \* history: browsers closed between Release and Clear

adoptionVars == <<session, plan, visits, erased, torn>>
allVars == <<vars, adoptionVars>>

(* `signedIn', `adopted' and `enabled' are persisted; `valid' is whether    *)
(* the server still knows the token; `leaving' is how far signOut got.      *)
Joined == [signedIn |-> TRUE, adopted |-> TRUE, enabled |-> TRUE, valid |-> TRUE,
           leaving |-> "no"]
Guest  == [signedIn |-> FALSE, adopted |-> FALSE, enabled |-> FALSE, valid |-> FALSE,
           leaving |-> "no"]

NoPlan == [phase |-> "none", staged |-> Nothing, version |-> 0,
           here |-> [k \in Key |-> NoBody]]

InitAdoption ==
    /\ Init
    /\ session = [d \in Device |-> IF d \in Mover THEN Guest ELSE Joined]
    /\ plan = [d \in Device |-> NoPlan]
    /\ visits = 0
    /\ erased = {}
    /\ torn = {}

-----------------------------------------------------------------------------
(* The user plays on, whatever the session is at.                           *)
Play(d) ==
    \E k \in Key, b \in Body \cup {NoBody} :
        /\ Edit(d, k, b)
        /\ erased' = IF b = NoBody THEN erased \cup {k} ELSE erased
        /\ UNCHANGED <<session, plan, visits, torn>>

(* runSync starts only where sync is on; a run under way is not stopped,    *)
(* and the server refuses a token it has revoked.                           *)
Enabled(d) == session[d].signedIn /\ session[d].adopted /\ session[d].enabled

Unauthorised(d) ==
    /\ wire[d] # {} /\ ~session[d].valid
    /\ wire' = [wire EXCEPT ![d] = {}]
    /\ run' = IF run[d].phase = "sent" THEN [run EXCEPT ![d] = NoRun] ELSE run
    /\ UNCHANGED <<revision, record, row, state, cursor, edits, faults>>

Synchronise(d) ==
    /\ \/ Pull(d) /\ Enabled(d) /\ session[d].valid
       \/ Step(d)
       \/ Arrive(d) /\ session[d].valid
       \/ Unauthorised(d)
       \/ Vanish(d)
    /\ UNCHANGED adoptionVars

-----------------------------------------------------------------------------
(* Until signOut reaches resetSync its panel still answers.                 *)
AtHome(d) == session[d].signedIn /\ session[d].leaving \in {"no", "revoked"}

(* remember: a token, and a cursor at nothing.                              *)
SignIn(d) ==
    /\ d \in Mover /\ ~session[d].signedIn /\ session[d].leaving = "no"
    /\ visits < MaxVisits
    /\ visits' = visits + 1
    /\ session' = [session EXCEPT ![d] = [Guest EXCEPT !.signedIn = TRUE, !.valid = TRUE]]
    /\ cursor' = [cursor EXCEPT ![d] = 0]
    /\ UNCHANGED <<revision, record, row, state, run, wire, edits, faults, plan, erased, torn>>

(* turnOn, and turnOff, which leaves the run in progress to end.            *)
Switch(d) ==
    /\ d \in Mover /\ AtHome(d) /\ session[d].adopted
    /\ session' = [session EXCEPT ![d].enabled = ~@]
    /\ UNCHANGED <<vars, plan, visits, erased, torn>>

(* turnOn where nothing was adopted yet: stageAccount, readLocal, ask.      *)
Stage(d) ==
    /\ AtHome(d) /\ ~session[d].adopted /\ session[d].valid
    /\ plan[d].phase = "none"
    /\ plan' = [plan EXCEPT ![d] = [NoPlan EXCEPT !.phase = "staged", !.staged = record,
                                                  !.version = revision]]
    /\ UNCHANGED <<vars, session, visits, erased, torn>>

Ask(d) ==
    /\ plan[d].phase = "staged"
    /\ plan' = [plan EXCEPT ![d].phase = "asking", ![d].here = row[d]]
    /\ UNCHANGED <<vars, session, visits, erased, torn>>

(* cancelAdoption, or an answer that never comes.                           *)
Cancel(d) ==
    /\ plan[d].phase # "none" /\ AtHome(d)
    /\ plan' = [plan EXCEPT ![d] = NoPlan]
    /\ UNCHANGED <<vars, session, visits, erased, torn>>

(* planAdoption: what the account has arrives or is merged with what was    *)
(* here when the plan was made; a tombstone, or a row of this browser only, *)
(* is not written.                                                          *)
Writes(d, k) == plan[d].staged[k].body # NoBody

(* Mutant: what the account has replaces what was here. *)
PlannedReplacement(d, k) == plan[d].staged[k].body

PlannedRow(d, k) ==
    IF plan[d].here[k] = NoBody THEN plan[d].staged[k].body
    ELSE Merge(k, plan[d].here[k], plan[d].staged[k].body)

(* Mutant: the state recorded is that of the merged row. *)
PlannedStateOfMerged(d, k) ==
    [revision |-> plan[d].staged[k].revision, body |-> PlannedRow(d, k)]

(* The digest is that of the body the server holds.                         *)
PlannedState(d, k) == plan[d].staged[k]

(* acceptAdoption: applyAdoption is one transaction.                        *)
Accept(d) ==
    /\ plan[d].phase = "asking"
    /\ AtHome(d)
    /\ row' = [row EXCEPT ![d] = [k \in Key |->
                  IF Writes(d, k) THEN PlannedRow(d, k) ELSE @[k]]]
    /\ state' = [state EXCEPT ![d] = [k \in Key |->
                  IF Writes(d, k) THEN PlannedState(d, k) ELSE @[k]]]
    /\ cursor' = [cursor EXCEPT ![d] = plan[d].version]
    /\ session' = [session EXCEPT ![d].adopted = TRUE, ![d].enabled = TRUE]
    /\ plan' = [plan EXCEPT ![d] = NoPlan]
    /\ UNCHANGED <<revision, record, run, wire, edits, faults, visits, erased, torn>>

-----------------------------------------------------------------------------
(* signOut: listDevices and revokeDevice, whose failure is not heeded.      *)
Revoke(d) ==
    /\ d \in Mover /\ session[d].signedIn /\ session[d].leaving = "no"
    /\ visits < MaxVisits
    /\ visits' = visits + 1
    /\ \E reached \in IF Offline THEN BOOLEAN ELSE {TRUE} :
          session' = [session EXCEPT ![d].leaving = "revoked",
                                     ![d].valid = @ /\ ~reached]
    /\ UNCHANGED <<vars, plan, erased, torn>>

(* resetSync: off, and the run in progress has ended.                       *)
SwitchOff(d) ==
    /\ session[d].leaving = "revoked"
    /\ session' = [session EXCEPT ![d].enabled = FALSE, ![d].leaving = "off"]
    /\ plan' = [plan EXCEPT ![d] = NoPlan]
    /\ UNCHANGED <<vars, visits, erased, torn>>

(* Mutant: sign-out does not wait for the run in progress. *)
RunForgotten(d) == TRUE

(* turnOff awaits inFlight and then the lock.                               *)
RunEnded(d) == run[d].phase = "idle"

(* Mutant: every row with a state goes. *)
ConfirmedOnce(d, k) == row[d][k] # NoBody /\ state[d][k].revision > 0

(* partition: a row is released when the account holds an identical copy.   *)
Confirmed(d, k) == row[d][k] # NoBody /\ row[d][k] = state[d][k].body

(* releaseAccountData, in one transaction; a sign-out it fails goes on.      *)
Release(d) ==
    /\ session[d].leaving = "off"
    /\ RunEnded(d)
    /\ \E released \in {{k \in Key : Confirmed(d, k)}, {}} :
          row' = [row EXCEPT ![d] = [k \in Key |-> IF k \in released THEN NoBody ELSE @[k]]]
    /\ session' = [session EXCEPT ![d].leaving = "released"]
    /\ UNCHANGED <<revision, record, state, cursor, run, wire, edits, faults,
                   plan, visits, erased, torn>>

(* syncState is deleted, then syncRecords cleared.                          *)
Drop(d) ==
    /\ session[d].leaving = "released"
    /\ session' = [session EXCEPT ![d] = [Guest EXCEPT !.valid = session[d].valid,
                                                       !.leaving = "dropped"]]
    /\ cursor' = [cursor EXCEPT ![d] = 0]
    /\ UNCHANGED <<revision, record, row, state, run, wire, edits, faults,
                   plan, visits, erased, torn>>

Clear(d) ==
    /\ session[d].leaving = "dropped"
    /\ state' = [state EXCEPT ![d] = Nothing]
    /\ session' = [session EXCEPT ![d].leaving = "no"]
    /\ UNCHANGED <<revision, record, row, cursor, run, wire, edits, faults,
                   plan, visits, erased, torn>>

(* The tab is closed: what was only in memory is gone.                      *)
Crash(d) ==
    /\ faults < MaxFaults
    /\ run[d].phase # "idle" \/ plan[d].phase # "none" \/ session[d].leaving # "no"
    /\ faults' = faults + 1
    /\ run' = [run EXCEPT ![d] = NoRun]
    /\ plan' = [plan EXCEPT ![d] = NoPlan]
    /\ session' = [session EXCEPT ![d].leaving = "no"]
    /\ torn' = IF session[d].leaving \in {"released", "dropped"} THEN torn \cup {d} ELSE torn
    /\ UNCHANGED <<revision, record, row, state, cursor, wire, edits, visits, erased>>

-----------------------------------------------------------------------------
SignOut(d) == Revoke(d) \/ SwitchOff(d) \/ Release(d) \/ Drop(d) \/ Clear(d)

NextAdoption ==
    \E d \in Device :
        \/ Play(d) \/ Synchronise(d)
        \/ SignIn(d) \/ Switch(d)
        \/ Stage(d) \/ Ask(d) \/ Cancel(d) \/ Accept(d)
        \/ SignOut(d) \/ Crash(d)

SpecAdoption == InitAdoption /\ [][NextAdoption]_allVars

-----------------------------------------------------------------------------
(* No run outlives the session it was started in, and a plan is only there  *)
(* while a browser that adopted nothing is being asked.                     *)
SessionTypeOK ==
    /\ session \in [Device -> [signedIn : BOOLEAN, adopted : BOOLEAN, enabled : BOOLEAN,
                               valid : BOOLEAN,
                               leaving : {"no", "revoked", "off", "released", "dropped"}]]
    /\ \A d \in Device :
          /\ plan[d].phase \in {"none", "staged", "asking"}
          /\ plan[d].phase # "none" => session[d].signedIn /\ ~session[d].adopted
          /\ session[d].leaving \in {"released", "dropped"} => run[d].phase = "idle"

(* Signing out "releases confirmed account copies" from the browser only:   *)
(* a record is deleted from the account only if a user deleted it on some   *)
(* browser, whatever the network does at sign-out and whatever run was      *)
(* under way.  This needs the sign-out to get to its end.                   *)
DeletedByUsers == \A k \in Key : Tombstone(record[k]) => k \in erased

OnlyUsersDelete == TypeOK /\ SessionTypeOK /\ (torn = {} => DeletedByUsers)

(* "Only what the server can give back" (device.ts): a row removed by       *)
(* signing out is on the account as it was, unless somebody has written it  *)
(* since.                                                                   *)
ReleasedComesBack ==
    [][\A d \in Device, k \in Key :
          Release(d) /\ row'[d][k] # row[d][k]
              => \/ record[k].body = row[d][k]
                 \/ record[k].revision > state[d][k].revision]_allVars

(* However it signed in, adopted and was interrupted before, a browser that *)
(* synchronises, is at rest and owes nothing shows the account, if none of  *)
(* its sign-outs was cut short between its last writes.                     *)
AdoptedMeansEqual ==
    \A d \in Device \ torn, k \in Key :
        /\ Enabled(d) /\ session[d].leaving = "no" /\ Clean(d)
        /\ record[k].revision <= cursor[d]
        /\ Rule[k] = "event" => row[d][k] # NoBody
        => row[d][k] = record[k].body

(* "A merge, never a replace" (adoption.ts): agreeing to an adoption removes *)
(* nothing from this browser, and a rating the user made later than the one  *)
(* the account had stays, unless it was made after the question was asked.   *)
AdoptionKeepsEdits ==
    [][\A d \in Device, k \in Key :
          Accept(d) /\ row[d][k] # NoBody =>
              /\ row'[d][k] # NoBody
              /\ row[d][k] = plan[d].here[k] /\ Rule[k] = "latest"
                  => row'[d][k] >= row[d][k]]_allVars
=============================================================================

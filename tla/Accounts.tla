------------------------------ MODULE Accounts ------------------------------
(***************************************************************************)
(* Accounts and devices: the handlers of server/api.go and verify.go as    *)
(* requests that run at the same time, each a sequence of steps between    *)
(* which the others go on: one SQL statement, one slow hash, one message,  *)
(* one look at the open streams.  server/store.go gives each statement its *)
(* own transaction, so what two handlers did is seen by a third half-done. *)
(*                                                                         *)
(* Everybody here shares one address and one pseudonym, so that at most    *)
(* one account exists at a time.  Request n makes at most one of each: the *)
(* account n, the device n, the password n it typed, the recovery code n   *)
(* and the link n.  What was there before is numbered 0.                   *)
(***************************************************************************)
EXTENDS Integers, Sequences, FiniteSets

CONSTANTS MaxRequests,  \* requests of one behaviour, for TLC
          InFlight,     \* requests being served at once, for TLC
          Window,       \* verifyWindow, in days
          Lifetime      \* unverifiedLifetime, in days

ASSUME AccountsAssumption ==
    /\ {MaxRequests, InFlight} \subseteq Nat \ {0}
    /\ {Window, Lifetime} \subseteq Nat
    /\ Window < Lifetime

VARIABLES account,      \* the account table
          device,       \* the device table: whose each device is, or None
          req,          \* the requests
          begun,        \* how many have been sent
          pending,      \* mailed links nobody has used: how old, and whose
          remembered,   \* passwords the owner still knows
          written       \* recovery codes the owner was shown

vars == <<account, device, req, begun, pending, remembered, written>>

Request == 1..MaxRequests
Account == 0..MaxRequests
Device == 0..MaxRequests
None == -1
Day == 0..Lifetime+1

NoRow == [exists |-> FALSE, verified |-> FALSE, age |-> 0, link |-> None,
          linkAge |-> 0, password |-> None, recovery |-> None]

Row == [exists : BOOLEAN, verified : BOOLEAN, age : Day,
        link : Request \cup {None}, linkAge : Day,
        password : Account \cup {None}, recovery : Account \cup {None}]

NoMail == [age |-> None, of |-> None]

(* Mutant: the code on paper is spent before the new password is set. *)
RecoverSpendingFirst ==
    <<"find", "code", "hash", "hash", "setRecovery", "setPassword",
      "issue", "resolve", "deleteOthers", "endOthers", "answer">>

(* What each handler does, in order.  "find" looks an account up by what    *)
(* was typed, "device" and "row" are the middleware; "password", "code" and *)
(* "hash" are slow hashes; "answer" is when the person learns a code.       *)
RegisterSteps == <<"hash", "hash", "create", "link", "send", "issue", "answer">>

LoginSteps == <<"find", "password", "confirmed", "issue">>

(* The new password works before the code on paper is spent.                *)
RecoverSteps ==
    <<"find", "code", "hash", "hash", "setPassword", "setRecovery",
      "issue", "resolve", "deleteOthers", "endOthers", "answer">>

PasswordSteps == <<"device", "row", "password", "hash", "setPassword",
                   "deleteOthers", "endOthers">>

DeleteDeviceSteps == <<"device", "row", "deleteDevice", "endDevice">>

DeleteAccountSteps == <<"device", "row", "password", "deleteAccount", "endAll">>

VerifySteps == <<"byLink", "mark">>

ResendSteps == <<"find", "password", "unconfirmed", "link", "send">>

StreamSteps == <<"device", "row", "subscribe", "listen">>

Steps == [register |-> RegisterSteps, login |-> LoginSteps, recover |-> RecoverSteps,
          change |-> PasswordSteps, signOut |-> DeleteDeviceSteps,
          erase |-> DeleteAccountSteps, verify |-> VerifySteps,
          resend |-> ResendSteps, stream |-> StreamSteps]

Kind == DOMAIN Steps

Step == {"undo"} \cup UNION {{Steps[k][i] : i \in 1..Len(Steps[k])} : k \in Kind}

(* `typed' is the password, code or link sent; `who' and `row' what the     *)
(* handler has read; `dev' the device of the token, or the one it made;     *)
(* `target' the one to revoke; `late' (history) whether nobody is left to   *)
(* end a stream: it was subscribed when its device had already been signed  *)
(* out, or its account was taken back by the registration that made it.     *)
Over == [kind |-> "over", todo |-> <<>>, typed |-> None,
         who |-> None, row |-> NoRow, dev |-> None, target |-> None, late |-> FALSE]

Now(n) == IF req[n].todo = <<>> THEN "over" ELSE Head(req[n].todo)

Busy == {n \in Request : Now(n) \notin {"over", "listen"}}

Listening(n) == Now(n) = "listen"

-----------------------------------------------------------------------------
Init ==
    /\ \E there \in BOOLEAN :
          /\ account = [a \in Account |->
                IF a = 0 /\ there
                THEN [NoRow EXCEPT !.exists = TRUE, !.verified = TRUE,
                                   !.password = 0, !.recovery = 0]
                ELSE NoRow]
          /\ device = [d \in Device |-> IF d = 0 /\ there THEN 0 ELSE None]
    /\ req = [n \in Request |-> Over]
    /\ begun = 0
    /\ pending = [n \in Request |-> NoMail]
    /\ remembered = {0}
    /\ written = {0}

(* What the person types: a password or a code they know, a link they were  *)
(* sent.  Anything else is refused and changes nothing.                     *)
Typed(kind) ==
    CASE kind \in {"login", "change", "erase", "resend"} -> remembered
      [] kind = "recover" -> written
      [] kind = "verify" -> {l \in Request : pending[l] # NoMail}
      [] OTHER -> {None}

Tokens(kind) == IF Steps[kind][1] = "device"
                THEN {d \in Device : device[d] # None} ELSE {None}

Targets(kind) == IF kind = "signOut" THEN {d \in Device : device[d] # None} ELSE {None}

(* A request arrives.  A token that is not in the device table is refused   *)
(* at once.                                                                 *)
Arrive ==
    /\ begun < MaxRequests
    /\ Cardinality(Busy) < InFlight
    /\ begun' = begun + 1
    /\ \E kind \in Kind : \E typed \in Typed(kind), dev \in Tokens(kind),
                             target \in Targets(kind) :
          /\ req' = [req EXCEPT ![begun + 1] =
                [Over EXCEPT !.kind = kind, !.todo = Steps[kind], !.typed = typed,
                             !.dev = dev, !.target = target]]
          /\ remembered' = IF kind \in {"register", "recover", "change"}
                           THEN remembered \cup {begun + 1} ELSE remembered
    /\ UNCHANGED <<account, device, pending, written>>

(* On to the next step, or answered. *)
Forward(r) == IF Len(r.todo) = 1 THEN Over
              ELSE [r EXCEPT !.todo = Tail(@)]

Proceed(n) == req' = [req EXCEPT ![n] = Forward(req[n])]

ProceedOrStop(n, ok) ==
    req' = [req EXCEPT ![n] = IF ok THEN Forward(req[n]) ELSE Over]

At(n, step) == Now(n) = step

-----------------------------------------------------------------------------
(* --- reading and checking ----------------------------------------------- *)

(* AccountByIdentifier: by address, then by pseudonym. *)
Find(n) ==
    /\ At(n, "find")
    /\ \/ \E a \in Account :
             /\ account[a].exists
             /\ req' = [req EXCEPT ![n] = Forward([req[n] EXCEPT !.who = a,
                                                                 !.row = account[a]])]
       \/ /\ \A a \in Account : ~account[a].exists
          /\ req' = [req EXCEPT ![n] = Over]
    /\ UNCHANGED <<account, device, begun, pending, remembered, written>>

(* authenticatedBy: DeviceByTokenHash, then AccountByID, two statements.    *)
ResolveDevice(n) ==
    /\ At(n, "device")
    /\ req' = [req EXCEPT ![n] =
                  IF device[req[n].dev] = None THEN Over
                  ELSE Forward([req[n] EXCEPT !.who = device[req[n].dev]])]
    /\ UNCHANGED <<account, device, begun, pending, remembered, written>>

ResolveAccount(n) ==
    /\ At(n, "row")
    /\ LET row == account[req[n].who]
       IN  req' = [req EXCEPT ![n] = IF row.exists /\ row.verified
                                     THEN Forward([req[n] EXCEPT !.row = row]) ELSE Over]
    /\ UNCHANGED <<account, device, begun, pending, remembered, written>>

(* verifySecret against the row as it was read, which may have changed.     *)
Check(n) ==
    /\ \/ At(n, "password") /\ ProceedOrStop(n, req[n].typed = req[n].row.password)
       \/ At(n, "code") /\ ProceedOrStop(n, req[n].typed = req[n].row.recovery)
       \/ At(n, "hash") /\ Proceed(n)
       \/ At(n, "confirmed") /\ ProceedOrStop(n, req[n].row.verified)
       \/ At(n, "unconfirmed") /\ ProceedOrStop(n, ~req[n].row.verified)
       \/ At(n, "resolve") /\ ProceedOrStop(n, device[n] # None)
    /\ UNCHANGED <<account, device, begun, pending, remembered, written>>

-----------------------------------------------------------------------------
(* --- writing ------------------------------------------------------------ *)

(* CreateAccount: the unique indexes refuse a second one.                   *)
Create(n) ==
    /\ At(n, "create")
    /\ IF \E a \in Account : account[a].exists
       THEN /\ req' = [req EXCEPT ![n] = Over]
            /\ UNCHANGED account
       ELSE /\ account' = [account EXCEPT ![n] =
                  [NoRow EXCEPT !.exists = TRUE, !.password = n, !.recovery = n]]
            /\ req' = [req EXCEPT ![n] = Forward([req[n] EXCEPT !.who = n])]
    /\ UNCHANGED <<device, begun, pending, remembered, written>>

Without(link) == [l \in Request |-> IF l = link THEN NoMail ELSE pending[l]]

(* SetVerification: the link replaces the one before it.  An UPDATE of a    *)
(* row that has gone changes nothing and is no error.                       *)
SetLink(n) ==
    /\ At(n, "link")
    /\ LET a == req[n].who
       IN  /\ account' = IF account[a].exists
                         THEN [account EXCEPT ![a] = [@ EXCEPT !.link = n, !.linkAge = 0]]
                         ELSE account
           /\ pending' = Without(account[a].link)
    /\ Proceed(n)
    /\ UNCHANGED <<device, begun, remembered, written>>

(* The message is delivered.  Send may still report an error: it returns    *)
(* what QUIT answers, after the message was accepted.                       *)
Send(n) ==
    /\ At(n, "send")
    /\ pending' = [pending EXCEPT ![n] = IF account[req[n].who].link = n
                                         THEN [age |-> 0, of |-> req[n].who] ELSE @]
    /\ \/ Proceed(n)
       \/ req' = [req EXCEPT ![n] = IF req[n].kind = "register"
                                    THEN [@ EXCEPT !.todo = <<"undo">>] ELSE Over]
    /\ UNCHANGED <<account, device, begun, remembered, written>>

Gone(a) == [account EXCEPT ![a] = NoRow]

(* Mutant: foreign keys are not enforced. *)
DevicesKept(a) == device

(* ON DELETE CASCADE. *)
DevicesWithout(a) == [d \in Device |-> IF device[d] = a THEN None ELSE device[d]]

(* The registration that could not send its message takes the row back, and *)
(* ends no stream: nobody can have confirmed the account, it assumes.       *)
Undo(n) ==
    /\ At(n, "undo")
    /\ account' = Gone(n)
    /\ device' = DevicesWithout(n)
    /\ pending' = Without(account[n].link)
    /\ req' = [m \in Request |->
          IF m = n THEN Forward(req[n])
          ELSE [req[m] EXCEPT !.late = @ \/ (Listening(m) /\ req[m].who = n)]]
    /\ UNCHANGED <<begun, remembered, written>>

(* CreateDevice.  A device of an account that has gone is refused.          *)
Issue(n) ==
    /\ At(n, "issue")
    /\ LET there == account[req[n].who].exists
       IN  /\ device' = IF there THEN [device EXCEPT ![n] = req[n].who] ELSE device
           /\ req' = [req EXCEPT ![n] = IF there THEN Forward([req[n] EXCEPT !.dev = n])
                                        ELSE Over]
    /\ UNCHANGED <<account, begun, pending, remembered, written>>

SetSecret(n) ==
    /\ \/ /\ At(n, "setPassword")
          /\ account' = IF account[req[n].who].exists
                        THEN [account EXCEPT ![req[n].who].password = n] ELSE account
       \/ /\ At(n, "setRecovery")
          /\ account' = IF account[req[n].who].exists
                        THEN [account EXCEPT ![req[n].who].recovery = n] ELSE account
    /\ Proceed(n)
    /\ UNCHANGED <<device, begun, pending, remembered, written>>

(* DeleteOtherDevices; DeleteDevice, which answers not_found for one that   *)
(* is not the account's.                                                    *)
Revoke(n) ==
    /\ \/ /\ At(n, "deleteOthers")
          /\ device' = [d \in Device |->
                IF device[d] = req[n].who /\ d # req[n].dev THEN None ELSE device[d]]
          /\ Proceed(n)
       \/ /\ At(n, "deleteDevice")
          /\ device' = IF device[req[n].target] = req[n].who
                       THEN [device EXCEPT ![req[n].target] = None] ELSE device
          /\ ProceedOrStop(n, device[req[n].target] = req[n].who)
    /\ UNCHANGED <<account, begun, pending, remembered, written>>

DeleteAccount(n) ==
    /\ At(n, "deleteAccount")
    /\ account' = Gone(req[n].who)
    /\ device' = DevicesWithout(req[n].who)
    /\ pending' = Without(account[req[n].who].link)
    /\ ProceedOrStop(n, account[req[n].who].exists)
    /\ UNCHANGED <<begun, remembered, written>>

(* The answer: the recovery code is shown, this once. *)
Answer(n) ==
    /\ At(n, "answer")
    /\ written' = written \cup {n}
    /\ Proceed(n)
    /\ UNCHANGED <<account, device, begun, pending, remembered>>

-----------------------------------------------------------------------------
(* --- confirming an address ---------------------------------------------- *)

(* AccountByVerifyHash and the age of the link. *)
ByLink(n) ==
    /\ At(n, "byLink")
    /\ \/ \E a \in Account :
             /\ account[a].exists
             /\ account[a].link = req[n].typed
             /\ account[a].linkAge <= Window
             /\ req' = [req EXCEPT ![n] = Forward([req[n] EXCEPT !.who = a])]
       \/ /\ \A a \in Account : account[a].exists /\ account[a].link = req[n].typed
                                   => account[a].linkAge > Window
          /\ req' = [req EXCEPT ![n] = Over]
    /\ UNCHANGED <<account, device, begun, pending, remembered, written>>

(* MarkEmailVerified: confirms, and spends whatever link is there by now.   *)
Mark(n) ==
    /\ At(n, "mark")
    /\ LET a == req[n].who
       IN  /\ account' = IF account[a].exists /\ account[a].link # None
                         THEN [account EXCEPT ![a] = [@ EXCEPT !.verified = TRUE, !.link = None,
                                                               !.linkAge = 0, !.age = 0]]
                         ELSE account
           /\ pending' = Without(account[a].link)
    /\ Proceed(n)
    /\ UNCHANGED <<device, begun, remembered, written>>

(* Mutant: an account nobody sent a link for is left alone. *)
ExpiredIfMailed(a) ==
    account[a].exists /\ ~account[a].verified /\ account[a].age > Lifetime
        /\ account[a].link # None

(* Mutant: no slack between the link and its account. *)
ExpiredAtOnce(a) ==
    account[a].exists /\ ~account[a].verified /\ account[a].age >= Window

(* DeleteUnverifiedAccountsBefore: by the age of the account. *)
Expired(a) == account[a].exists /\ ~account[a].verified /\ account[a].age > Lifetime

SweepUnverified ==
    /\ \E a \in Account : Expired(a)
    /\ account' = [a \in Account |-> IF Expired(a) THEN NoRow ELSE account[a]]
    /\ device' = [d \in Device |->
                    IF device[d] # None /\ Expired(device[d]) THEN None ELSE device[d]]
    /\ UNCHANGED <<req, begun, pending, remembered, written>>

(* A day goes by.  No request lasts that long: hashWait, the write timeout  *)
(* and the mailer's deadline are seconds.                                   *)
DayPasses ==
    /\ Busy = {}
    /\ \E a \in Account : account[a].exists /\ ~account[a].verified
    /\ account' = [a \in Account |->
          LET r == account[a]
          IN  IF r.exists /\ ~r.verified
              THEN [r EXCEPT !.age = IF @ > Lifetime THEN @ ELSE @ + 1,
                             !.linkAge = IF r.link = None \/ @ > Lifetime THEN @ ELSE @ + 1]
              ELSE r]
    /\ pending' = [l \in Request |-> IF pending[l].age \in 0..Lifetime
                                     THEN [pending[l] EXCEPT !.age = @ + 1]
                                     ELSE pending[l]]
    /\ UNCHANGED <<device, req, begun, remembered, written>>

-----------------------------------------------------------------------------
(* --- the streams -------------------------------------------------------- *)

(* handleStream, authenticated some time ago. *)
Subscribe(n) ==
    /\ At(n, "subscribe")
    /\ req' = [req EXCEPT ![n] =
                  Forward([req[n] EXCEPT !.late = device[req[n].dev] = None])]
    /\ UNCHANGED <<account, device, begun, pending, remembered, written>>

(* Mutant: endDevices ends the streams of the device it should keep. *)
EndedBySwapped(n, m) ==
    \/ Now(n) = "endOthers" /\ req[m].dev = req[n].dev
    \/ Now(n) = "endDevice" /\ req[m].dev = req[n].target
    \/ Now(n) = "endAll"

(* endDevices but the one kept, endDevice, endDevices of them all.          *)
EndedBy(n, m) ==
    \/ Now(n) = "endOthers" /\ req[m].dev # req[n].dev
    \/ Now(n) = "endDevice" /\ req[m].dev = req[n].target
    \/ Now(n) = "endAll"

EndStreams(n) ==
    /\ Now(n) \in {"endOthers", "endDevice", "endAll"}
    /\ req' = [m \in Request |->
          IF m = n THEN Forward(req[n])
          ELSE IF Listening(m) /\ req[m].who = req[n].who /\ EndedBy(n, m) THEN Over
          ELSE req[m]]
    /\ UNCHANGED <<account, device, begun, pending, remembered, written>>

-----------------------------------------------------------------------------
(* A statement fails, the hash gate stays full for hashWait, the caller     *)
(* goes away, the server stops: the handler ends where it is.  Only a       *)
(* registration that has a row and no message cleans up, unless it is the   *)
(* process that died.  Ending streams cannot fail on its own.               *)
Fail(n) ==
    /\ Now(n) \notin {"over", "endOthers", "endDevice", "endAll"}
    /\ \/ req' = [req EXCEPT ![n] = Over]
       \/ /\ req[n].kind = "register" /\ Now(n) \in {"link", "send"}
          /\ req' = [req EXCEPT ![n].todo = <<"undo">>]
    /\ UNCHANGED <<account, device, begun, pending, remembered, written>>

(* Between two visits the owner forgets every password, and still has the   *)
(* code on paper.                                                           *)
Forget ==
    /\ Busy = {}
    /\ remembered # {}
    /\ \A a \in Account : account[a].exists => account[a].recovery \in written
    /\ remembered' = {}
    /\ UNCHANGED <<account, device, req, begun, pending, written>>

Serve(n) == \/ Find(n) \/ ResolveDevice(n) \/ ResolveAccount(n)
            \/ Check(n) \/ Create(n) \/ SetLink(n) \/ Send(n) \/ Undo(n) \/ Issue(n)
            \/ SetSecret(n) \/ Revoke(n) \/ DeleteAccount(n) \/ Answer(n)
            \/ ByLink(n) \/ Mark(n) \/ Subscribe(n) \/ EndStreams(n)

Next == \/ Arrive
        \/ \E n \in Request : Serve(n) \/ Fail(n)
        \/ SweepUnverified
        \/ DayPasses
        \/ Forget

Spec == Init /\ [][Next]_vars

(* Nothing stands still for ever: a handler goes on or gives up, the hourly *)
(* sweep comes round, days pass.                                            *)
GoesOn == \/ \E n \in Request : Serve(n) \/ (~Listening(n) /\ Fail(n))
          \/ SweepUnverified
          \/ DayPasses

Fairness == WF_vars(GoesOn)

LiveSpec == Spec /\ Fairness

-----------------------------------------------------------------------------
(* Type invariant. *)
TypeOK ==
    /\ account \in [Account -> Row]
    /\ device \in [Device -> Account \cup {None}]
    /\ \A n \in Request :
          /\ req[n].kind \in Kind \/ req[n] = Over
          /\ Now(n) = "over" => req[n] = Over
          /\ \A i \in 1..Len(req[n].todo) : req[n].todo[i] \in Step
          /\ req[n].who \in Account \cup {None}
          /\ req[n].row \in Row
          /\ {req[n].dev, req[n].target} \subseteq Device \cup {None}
    /\ begun \in 0..MaxRequests
    /\ pending \in [Request -> [age : Day \cup {None}, of : Account \cup {None}]]
    /\ remembered \subseteq Account
    /\ written \subseteq Account

(* Every row is well formed, and a device is of an account that exists,     *)
(* whichever of a sign-in, a recovery, an erasure and the sweep of          *)
(* unconfirmed accounts is overtaken by another between two statements.     *)
NoOrphans ==
    /\ TypeOK
    /\ \A d \in Device : device[d] # None => account[device[d]].exists

(* The owner of an account always has a secret that opens it: a password    *)
(* typed, or a code shown.  A recovery interrupted after any statement,     *)
(* lost on the way back, or run twice at once, never spends the code on     *)
(* paper before the new password works (handleRecover's order).             *)
NeverLockedOut ==
    \A a \in Account :
        account[a].exists => \/ account[a].password \in remembered
                             \/ account[a].recovery \in written

(* A stream of a device that was signed out is about to be ended, unless it *)
(* was subscribed after its device had gone (the token is checked at        *)
(* connect, and endDevices only finds who has subscribed by then,           *)
(* stream.go), or its account was confirmed from a message that its         *)
(* registration took for unsent, and so took back (api.go handleRegister).  *)
StreamsEnd ==
    \A n \in Request :
        Listening(n) /\ device[req[n].dev] = None
            => \/ req[n].late
               \/ \E m \in Request : Now(m) \in {"endOthers", "endDevice", "endAll"}

(* The link of the registration itself works for as long as the message     *)
(* says, whatever else happened: the account it confirms is not swept       *)
(* first, and only a newer link has replaced it.                            *)
FirstLinkWorks ==
    \A l \in Request :
        pending[l].age \in 0..Window /\ pending[l].of = l
            => account[l].exists /\ account[l].link = l

(* The message's promise: an account that is never confirmed is deleted,    *)
(* also when its message was never sent or its registration died half-way.  *)
(* Requests are bounded, so this is about the time after the last one.      *)
NeverConfirmedIsDeleted ==
    <>[](\A a \in Account : account[a].exists => account[a].verified)
=============================================================================

---------------------------- MODULE AccountsProofs ----------------------------
(***************************************************************************)
(* Accounts and devices for any number of requests, served at once in any  *)
(* number: no orphaned device, nobody locked out, no stream left behind,   *)
(* and a registration's link that works as long as its message says.       *)
(***************************************************************************)
EXTENDS Accounts, TLAPS

(* A request, as the server holds it. *)
Ask == [kind : Kind \cup {"over"}, todo : Seq(Step), typed : Account \cup {None},
        who : Account \cup {None}, row : Row, dev : Device \cup {None},
        target : Device \cup {None}, late : BOOLEAN]

(* What is left to do is an end of the handler's program, or the taking     *)
(* back of a registration.                                                  *)
Sound(r) ==
    \/ r = Over
    \/ r.kind = "register" /\ r.todo = <<"undo">>
    \/ /\ r.kind \in Kind
       /\ Len(r.todo) \in 1..Len(Steps[r.kind])
       /\ \A i \in 1..Len(r.todo) :
             r.todo[i] = Steps[r.kind][Len(Steps[r.kind]) - Len(r.todo) + i]

Left(r) == Len(r.todo)

(* The handlers behind the middleware. *)
Tokened == {"change", "signOut", "erase", "stream"}

-----------------------------------------------------------------------------
(* The programs, read as tables. *)
LEMMA Programs ==
    /\ Kind = {"register", "login", "recover", "change", "signOut", "erase",
               "verify", "resend", "stream"}
    /\ Steps["register"] = RegisterSteps /\ Steps["login"] = LoginSteps
    /\ Steps["recover"] = RecoverSteps /\ Steps["change"] = PasswordSteps
    /\ Steps["signOut"] = DeleteDeviceSteps /\ Steps["erase"] = DeleteAccountSteps
    /\ Steps["verify"] = VerifySteps /\ Steps["resend"] = ResendSteps
    /\ Steps["stream"] = StreamSteps
  BY DEF Kind, Steps

LEMMA RegisterTable ==
    /\ Len(RegisterSteps) = 7
    /\ RegisterSteps[1] = "hash" /\ RegisterSteps[2] = "hash"
    /\ RegisterSteps[3] = "create" /\ RegisterSteps[4] = "link"
    /\ RegisterSteps[5] = "send" /\ RegisterSteps[6] = "issue"
    /\ RegisterSteps[7] = "answer"
  BY DEF RegisterSteps

LEMMA LoginTable ==
    /\ Len(LoginSteps) = 4
    /\ LoginSteps[1] = "find" /\ LoginSteps[2] = "password"
    /\ LoginSteps[3] = "confirmed" /\ LoginSteps[4] = "issue"
  BY DEF LoginSteps

LEMMA RecoverTable ==
    /\ Len(RecoverSteps) = 11
    /\ RecoverSteps[1] = "find" /\ RecoverSteps[2] = "code"
    /\ RecoverSteps[3] = "hash" /\ RecoverSteps[4] = "hash"
    /\ RecoverSteps[5] = "setPassword" /\ RecoverSteps[6] = "setRecovery"
    /\ RecoverSteps[7] = "issue" /\ RecoverSteps[8] = "resolve"
    /\ RecoverSteps[9] = "deleteOthers" /\ RecoverSteps[10] = "endOthers"
    /\ RecoverSteps[11] = "answer"
  BY DEF RecoverSteps

LEMMA PasswordTable ==
    /\ Len(PasswordSteps) = 7
    /\ PasswordSteps[1] = "device" /\ PasswordSteps[2] = "row"
    /\ PasswordSteps[3] = "password" /\ PasswordSteps[4] = "hash"
    /\ PasswordSteps[5] = "setPassword" /\ PasswordSteps[6] = "deleteOthers"
    /\ PasswordSteps[7] = "endOthers"
  BY DEF PasswordSteps

LEMMA DeletingTable ==
    /\ Len(DeleteDeviceSteps) = 4
    /\ DeleteDeviceSteps[1] = "device" /\ DeleteDeviceSteps[2] = "row"
    /\ DeleteDeviceSteps[3] = "deleteDevice" /\ DeleteDeviceSteps[4] = "endDevice"
    /\ Len(DeleteAccountSteps) = 5
    /\ DeleteAccountSteps[1] = "device" /\ DeleteAccountSteps[2] = "row"
    /\ DeleteAccountSteps[3] = "password" /\ DeleteAccountSteps[4] = "deleteAccount"
    /\ DeleteAccountSteps[5] = "endAll"
  BY DEF DeleteDeviceSteps, DeleteAccountSteps

LEMMA ConfirmingTable ==
    /\ Len(VerifySteps) = 2
    /\ VerifySteps[1] = "byLink" /\ VerifySteps[2] = "mark"
    /\ Len(ResendSteps) = 5
    /\ ResendSteps[1] = "find" /\ ResendSteps[2] = "password"
    /\ ResendSteps[3] = "unconfirmed" /\ ResendSteps[4] = "link"
    /\ ResendSteps[5] = "send"
  BY DEF VerifySteps, ResendSteps

LEMMA StreamTable ==
    /\ Len(StreamSteps) = 4
    /\ StreamSteps[1] = "device" /\ StreamSteps[2] = "row"
    /\ StreamSteps[3] = "subscribe" /\ StreamSteps[4] = "listen"
  BY DEF StreamSteps

LEMMA Lengths ==
    /\ Len(Steps["register"]) = 7 /\ Len(Steps["login"]) = 4
    /\ Len(Steps["recover"]) = 11 /\ Len(Steps["change"]) = 7
    /\ Len(Steps["signOut"]) = 4 /\ Len(Steps["erase"]) = 5
    /\ Len(Steps["verify"]) = 2 /\ Len(Steps["resend"]) = 5
    /\ Len(Steps["stream"]) = 4
    /\ \A k \in Kind : Len(Steps[k]) \in 2..11
  <1>1. Len(Steps["register"]) = 7 /\ Len(Steps["login"]) = 4
    BY Programs, RegisterTable, LoginTable
  <1>2. Len(Steps["recover"]) = 11 /\ Len(Steps["change"]) = 7
    BY Programs, RecoverTable, PasswordTable
  <1>3. Len(Steps["signOut"]) = 4 /\ Len(Steps["erase"]) = 5
    BY Programs, DeletingTable
  <1>4. Len(Steps["verify"]) = 2 /\ Len(Steps["resend"]) = 5
    BY Programs, ConfirmingTable
  <1>5. Len(Steps["stream"]) = 4
    BY Programs, StreamTable
  <1>6. \A k \in Kind : Len(Steps[k]) \in 2..11
    BY <1>1, <1>2, <1>3, <1>4, <1>5, Programs
  <1> QED BY <1>1, <1>2, <1>3, <1>4, <1>5, <1>6

(* Which handler is where, told from how much it has left to do. *)
LEMMA Place ==
    ASSUME NEW r \in Ask, r.kind \in Kind, r.todo # <<"undo">>,
           Sound(r)
    PROVE  /\ Len(r.todo) \in 1..Len(Steps[r.kind])
           /\ Head(r.todo) = Steps[r.kind][Len(Steps[r.kind]) - Len(r.todo) + 1]
  <1>1. r # Over
    BY Programs DEF Over
  <1>2. /\ Len(r.todo) \in 1..Len(Steps[r.kind])
        /\ \A i \in 1..Len(r.todo) :
              r.todo[i] = Steps[r.kind][Len(Steps[r.kind]) - Len(r.todo) + i]
    BY <1>1 DEF Sound
  <1>3. Head(r.todo) = r.todo[1] /\ 1 \in 1..Len(r.todo)
    BY <1>2, Lengths DEF Ask
  <1>4. r.todo[1] = Steps[r.kind][Len(Steps[r.kind]) - Len(r.todo) + 1]
    BY <1>2, <1>3
  <1> QED BY <1>2, <1>3, <1>4, Lengths

(* The step a handler is about to take, told from where it is. *)
Facts(k, i, h) ==
    /\ h \notin {"undo", "over"}
    /\ (h = "find") <=> (<<k, i>> \in {<<"login", 4>>, <<"recover", 11>>, <<"resend", 5>>})
    /\ (h = "device") <=> (k \in Tokened /\ i = Len(Steps[k]))
    /\ (h = "row") <=> (k \in Tokened /\ i = Len(Steps[k]) - 1)
    /\ (h = "byLink") <=> (k = "verify" /\ i = 2)
    /\ (h = "mark") <=> (k = "verify" /\ i = 1)
    /\ (h = "create") <=> (k = "register" /\ i = 5)
    /\ (h = "link") <=> (<<k, i>> \in {<<"register", 4>>, <<"resend", 2>>})
    /\ (h = "send") <=> (<<k, i>> \in {<<"register", 3>>, <<"resend", 1>>})
    /\ (h = "issue") <=> (<<k, i>> \in {<<"register", 2>>, <<"login", 1>>, <<"recover", 5>>})
    /\ (h = "setPassword") <=> (<<k, i>> \in {<<"recover", 7>>, <<"change", 3>>})
    /\ (h = "setRecovery") <=> (k = "recover" /\ i = 6)
    /\ (h = "resolve") <=> (k = "recover" /\ i = 4)
    /\ (h = "deleteOthers") <=> (<<k, i>> \in {<<"recover", 3>>, <<"change", 2>>})
    /\ (h = "endOthers") <=> (<<k, i>> \in {<<"recover", 2>>, <<"change", 1>>})
    /\ (h = "deleteDevice") <=> (k = "signOut" /\ i = 2)
    /\ (h = "endDevice") <=> (k = "signOut" /\ i = 1)
    /\ (h = "deleteAccount") <=> (k = "erase" /\ i = 2)
    /\ (h = "endAll") <=> (k = "erase" /\ i = 1)
    /\ (h = "subscribe") <=> (k = "stream" /\ i = 2)
    /\ (h = "listen") <=> (k = "stream" /\ i = 1)

LEMMA Where ==
    ASSUME NEW k \in Kind, NEW i \in 1..Len(Steps[k])
    PROVE  Facts(k, i, Steps[k][Len(Steps[k]) - i + 1])
  <1> DEFINE h == Steps[k][Len(Steps[k]) - i + 1]
  <1>1. CASE k = "register"
    <2>1. \/ i = 7 /\ h = "hash"
          \/ i = 6 /\ h = "hash"
          \/ i = 5 /\ h = "create"
          \/ i = 4 /\ h = "link"
          \/ i = 3 /\ h = "send"
          \/ i = 2 /\ h = "issue"
          \/ i = 1 /\ h = "answer"
      <3>1. i \in 1..7 /\ Len(Steps[k]) = 7
        BY <1>1, Lengths
      <3>2. Steps[k] = RegisterSteps
        BY <1>1, Programs
      <3>3. h = RegisterSteps[7 - i + 1]
        BY <3>1, <3>2
      <3> HIDE DEF h
      <3> QED BY <3>1, <3>3, RegisterTable
    <2>2. Len(Steps[k]) = 7
      BY <1>1, Lengths
    <2>3. Facts(k, i, h)
      <3> HIDE DEF h
      <3> QED BY <2>1, <2>2, <1>1 DEF Facts, Tokened
    <2> QED BY <2>3
  <1>2. CASE k = "login"
    <2>1. \/ i = 4 /\ h = "find"
          \/ i = 3 /\ h = "password"
          \/ i = 2 /\ h = "confirmed"
          \/ i = 1 /\ h = "issue"
      <3>1. i \in 1..4 /\ Len(Steps[k]) = 4
        BY <1>2, Lengths
      <3>2. Steps[k] = LoginSteps
        BY <1>2, Programs
      <3>3. h = LoginSteps[4 - i + 1]
        BY <3>1, <3>2
      <3> HIDE DEF h
      <3> QED BY <3>1, <3>3, LoginTable
    <2>2. Len(Steps[k]) = 4
      BY <1>2, Lengths
    <2>3. Facts(k, i, h)
      <3> HIDE DEF h
      <3> QED BY <2>1, <2>2, <1>2 DEF Facts, Tokened
    <2> QED BY <2>3
  <1>3. CASE k = "recover"
    <2>1. \/ i = 11 /\ h = "find"
          \/ i = 10 /\ h = "code"
          \/ i = 9 /\ h = "hash"
          \/ i = 8 /\ h = "hash"
          \/ i = 7 /\ h = "setPassword"
          \/ i = 6 /\ h = "setRecovery"
          \/ i = 5 /\ h = "issue"
          \/ i = 4 /\ h = "resolve"
          \/ i = 3 /\ h = "deleteOthers"
          \/ i = 2 /\ h = "endOthers"
          \/ i = 1 /\ h = "answer"
      <3>1. i \in 1..11 /\ Len(Steps[k]) = 11
        BY <1>3, Lengths
      <3>2. Steps[k] = RecoverSteps
        BY <1>3, Programs
      <3>3. h = RecoverSteps[11 - i + 1]
        BY <3>1, <3>2
      <3> HIDE DEF h
      <3> QED BY <3>1, <3>3, RecoverTable
    <2>2. Len(Steps[k]) = 11
      BY <1>3, Lengths
    <2>3. Facts(k, i, h)
      <3> HIDE DEF h
      <3> QED BY <2>1, <2>2, <1>3 DEF Facts, Tokened
    <2> QED BY <2>3
  <1>4. CASE k = "change"
    <2>1. \/ i = 7 /\ h = "device"
          \/ i = 6 /\ h = "row"
          \/ i = 5 /\ h = "password"
          \/ i = 4 /\ h = "hash"
          \/ i = 3 /\ h = "setPassword"
          \/ i = 2 /\ h = "deleteOthers"
          \/ i = 1 /\ h = "endOthers"
      <3>1. i \in 1..7 /\ Len(Steps[k]) = 7
        BY <1>4, Lengths
      <3>2. Steps[k] = PasswordSteps
        BY <1>4, Programs
      <3>3. h = PasswordSteps[7 - i + 1]
        BY <3>1, <3>2
      <3> HIDE DEF h
      <3> QED BY <3>1, <3>3, PasswordTable
    <2>2. Len(Steps[k]) = 7
      BY <1>4, Lengths
    <2>3. Facts(k, i, h)
      <3> HIDE DEF h
      <3> QED BY <2>1, <2>2, <1>4 DEF Facts, Tokened
    <2> QED BY <2>3
  <1>5. CASE k = "signOut"
    <2>1. \/ i = 4 /\ h = "device"
          \/ i = 3 /\ h = "row"
          \/ i = 2 /\ h = "deleteDevice"
          \/ i = 1 /\ h = "endDevice"
      <3>1. i \in 1..4 /\ Len(Steps[k]) = 4
        BY <1>5, Lengths
      <3>2. Steps[k] = DeleteDeviceSteps
        BY <1>5, Programs
      <3>3. h = DeleteDeviceSteps[4 - i + 1]
        BY <3>1, <3>2
      <3> HIDE DEF h
      <3> QED BY <3>1, <3>3, DeletingTable
    <2>2. Len(Steps[k]) = 4
      BY <1>5, Lengths
    <2>3. Facts(k, i, h)
      <3> HIDE DEF h
      <3> QED BY <2>1, <2>2, <1>5 DEF Facts, Tokened
    <2> QED BY <2>3
  <1>6. CASE k = "erase"
    <2>1. \/ i = 5 /\ h = "device"
          \/ i = 4 /\ h = "row"
          \/ i = 3 /\ h = "password"
          \/ i = 2 /\ h = "deleteAccount"
          \/ i = 1 /\ h = "endAll"
      <3>1. i \in 1..5 /\ Len(Steps[k]) = 5
        BY <1>6, Lengths
      <3>2. Steps[k] = DeleteAccountSteps
        BY <1>6, Programs
      <3>3. h = DeleteAccountSteps[5 - i + 1]
        BY <3>1, <3>2
      <3> HIDE DEF h
      <3> QED BY <3>1, <3>3, DeletingTable
    <2>2. Len(Steps[k]) = 5
      BY <1>6, Lengths
    <2>3. Facts(k, i, h)
      <3> HIDE DEF h
      <3> QED BY <2>1, <2>2, <1>6 DEF Facts, Tokened
    <2> QED BY <2>3
  <1>7. CASE k = "verify"
    <2>1. \/ i = 2 /\ h = "byLink"
          \/ i = 1 /\ h = "mark"
      <3>1. i \in 1..2 /\ Len(Steps[k]) = 2
        BY <1>7, Lengths
      <3>2. Steps[k] = VerifySteps
        BY <1>7, Programs
      <3>3. h = VerifySteps[2 - i + 1]
        BY <3>1, <3>2
      <3> HIDE DEF h
      <3> QED BY <3>1, <3>3, ConfirmingTable
    <2>2. Len(Steps[k]) = 2
      BY <1>7, Lengths
    <2>3. Facts(k, i, h)
      <3> HIDE DEF h
      <3> QED BY <2>1, <2>2, <1>7 DEF Facts, Tokened
    <2> QED BY <2>3
  <1>8. CASE k = "resend"
    <2>1. \/ i = 5 /\ h = "find"
          \/ i = 4 /\ h = "password"
          \/ i = 3 /\ h = "unconfirmed"
          \/ i = 2 /\ h = "link"
          \/ i = 1 /\ h = "send"
      <3>1. i \in 1..5 /\ Len(Steps[k]) = 5
        BY <1>8, Lengths
      <3>2. Steps[k] = ResendSteps
        BY <1>8, Programs
      <3>3. h = ResendSteps[5 - i + 1]
        BY <3>1, <3>2
      <3> HIDE DEF h
      <3> QED BY <3>1, <3>3, ConfirmingTable
    <2>2. Len(Steps[k]) = 5
      BY <1>8, Lengths
    <2>3. Facts(k, i, h)
      <3> HIDE DEF h
      <3> QED BY <2>1, <2>2, <1>8 DEF Facts, Tokened
    <2> QED BY <2>3
  <1>9. CASE k = "stream"
    <2>1. \/ i = 4 /\ h = "device"
          \/ i = 3 /\ h = "row"
          \/ i = 2 /\ h = "subscribe"
          \/ i = 1 /\ h = "listen"
      <3>1. i \in 1..4 /\ Len(Steps[k]) = 4
        BY <1>9, Lengths
      <3>2. Steps[k] = StreamSteps
        BY <1>9, Programs
      <3>3. h = StreamSteps[4 - i + 1]
        BY <3>1, <3>2
      <3> HIDE DEF h
      <3> QED BY <3>1, <3>3, StreamTable
    <2>2. Len(Steps[k]) = 4
      BY <1>9, Lengths
    <2>3. Facts(k, i, h)
      <3> HIDE DEF h
      <3> QED BY <2>1, <2>2, <1>9 DEF Facts, Tokened
    <2> QED BY <2>3
  <1> QED
    BY <1>1, <1>2, <1>3, <1>4, <1>5, <1>6, <1>7, <1>8, <1>9, Programs

-----------------------------------------------------------------------------
(* --- requests, one step at a time ---------------------------------------- *)

LEMMA Ended == Over \in Ask /\ Over.kind = "over" /\ Over.todo = <<>> /\ Over.who = None
               /\ Over.dev = None /\ Over.target = None /\ ~Over.late /\ Sound(Over)
               /\ "over" \notin Kind /\ NoRow \in Row
  <1>1. NoRow \in Row
    BY AccountsAssumption DEF NoRow, Row, Day, None
  <1>2. "over" \notin Kind
    BY Programs
  <1>3. Over \in Ask
    BY <1>1 DEF Over, Ask
  <1> QED BY <1>1, <1>2, <1>3 DEF Over, Sound

(* What the next step of a request tells. *)
LEMMA Told ==
    ASSUME NEW r \in Ask, Sound(r),
           NEW now, now = IF r.todo = <<>> THEN "over" ELSE Head(r.todo)
    PROVE  /\ now = "over" <=> r.kind = "over"
           /\ r.kind = "over" => r = Over
           /\ r.kind # "over" =>
                /\ r.kind \in Kind
                /\ r.todo # <<>>
                /\ \/ now = "undo" /\ r.kind = "register" /\ Len(r.todo) = 1
                   \/ /\ Len(r.todo) \in 1..Len(Steps[r.kind])
                      /\ Facts(r.kind, Len(r.todo), now)
  <1>1. CASE r = Over
    BY <1>1, Ended
  <1>2. CASE r.kind = "register" /\ r.todo = <<"undo">>
    BY <1>2, Programs
  <1>3. CASE /\ r # Over
             /\ r.kind \in Kind
             /\ r.todo # <<"undo">>
    <2>1. /\ Len(r.todo) \in 1..Len(Steps[r.kind])
          /\ Head(r.todo) = Steps[r.kind][Len(Steps[r.kind]) - Len(r.todo) + 1]
      BY <1>3, Place
    <2>2. Facts(r.kind, Len(r.todo), Head(r.todo))
      BY <1>3, <2>1, Where
    <2>3. r.todo # <<>>
      BY <2>1, Lengths, <1>3
    <2>4. now = Head(r.todo) /\ now # "over"
      BY <2>2, <2>3 DEF Facts
    <2> QED BY <1>3, <2>1, <2>2, <2>3, <2>4, Ended
  <1>4. \/ r = Over
        \/ r.kind = "register" /\ r.todo = <<"undo">>
        \/ r.kind \in Kind /\ r.todo # <<"undo">>
    <2>1. CASE r.todo = <<"undo">> /\ r # Over
      <3>1. CASE r.kind \in Kind /\ r.kind # "register" /\ Len(r.todo) \in 1..Len(Steps[r.kind])
                   /\ \A i \in 1..Len(r.todo) :
                        r.todo[i] = Steps[r.kind][Len(Steps[r.kind]) - Len(r.todo) + i]
        <4>1. Len(r.todo) = 1 /\ r.todo[1] = "undo"
          BY <2>1
        <4>2. r.todo[1] = Steps[r.kind][Len(Steps[r.kind]) - 1 + 1]
          BY <3>1, <4>1
        <4>3. Facts(r.kind, 1, Steps[r.kind][Len(Steps[r.kind]) - 1 + 1])
          BY <3>1, <4>1, Where
        <4> QED BY <4>1, <4>2, <4>3 DEF Facts
      <3> QED BY <3>1, <2>1 DEF Sound
    <2>2. CASE r.todo # <<"undo">>
      BY <2>2 DEF Sound
    <2> QED BY <2>1, <2>2
  <1> QED BY <1>1, <1>2, <1>3, <1>4

LEMMA Same ==
    ASSUME NEW r \in Ask, Sound(r), r.kind # "over",
           NEW f \in Ask, f.kind = r.kind, f.todo = r.todo
    PROVE  Sound(f)
  BY Ended DEF Sound

(* On to the next step, or answered: nothing but the steps left changes.    *)
LEMMA Forwarded ==
    ASSUME NEW r \in Ask, Sound(r), r.kind # "over"
    PROVE  /\ Forward(r) \in Ask /\ Sound(Forward(r))
           /\ Len(r.todo) = 1 => Forward(r) = Over
           /\ \/ Forward(r) = Over
              \/
                /\ Len(r.todo) > 1
                /\ Forward(r).kind = r.kind
                /\ Len(Forward(r).todo) = Len(r.todo) - 1
                /\ Forward(r).who = r.who /\ Forward(r).dev = r.dev
                /\ Forward(r).target = r.target /\ (Forward(r).late <=> r.late)
  <1>0. r # Over /\ r.kind \in Kind /\ r.todo \in Seq(Step)
    BY Ended DEF Ask
  <1>n. Len(r.todo) \in Nat
    BY <1>0
  <1>1. CASE Len(r.todo) = 1
    BY <1>1, Ended DEF Forward
  <1>2. CASE Len(r.todo) # 1
    <2>1. r.todo # <<"undo">>
      BY <1>2
    <2>2. /\ Len(r.todo) \in 1..Len(Steps[r.kind])
          /\ \A i \in 1..Len(r.todo) :
                r.todo[i] = Steps[r.kind][Len(Steps[r.kind]) - Len(r.todo) + i]
      BY <1>0, <2>1 DEF Sound
    <2>3. Len(r.todo) > 1 /\ r.todo # <<>> /\ Len(Steps[r.kind]) \in Nat
      <3>1. Len(Steps[r.kind]) \in 2..11
        BY <1>0, Lengths
      <3>2. Len(r.todo) > 1
        <4>1. Len(r.todo) \in 1..Len(Steps[r.kind])
          BY <2>2
        <4> DEFINE a == Len(r.todo)
                   b == Len(Steps[r.kind])
        <4>2. a \in 1..b /\ a # 1 /\ b \in 2..11
          BY <4>1, <1>2, <3>1
        <4>3. a > 1
          <5> HIDE DEF a, b
          <5> QED BY <4>2
        <4> QED BY <4>3
      <3>3. r.todo # <<>>
        BY <3>2
      <3> QED BY <3>1, <3>2, <3>3
    <2> DEFINE t == Tail(r.todo)
    <2>4. t \in Seq(Step) /\ Len(t) = Len(r.todo) - 1
          /\ \A i \in 1..Len(t) : t[i] = r.todo[i + 1]
      BY <1>0, <2>3
    <2>5. \A i \in 1..Len(t) : t[i] = Steps[r.kind][Len(Steps[r.kind]) - Len(t) + i]
      <3> TAKE i \in 1..Len(t)
      <3>1. i + 1 \in 1..Len(r.todo) /\ t[i] = r.todo[i + 1]
        BY <2>4, <1>0, <1>n
      <3>2. r.todo[i + 1] = Steps[r.kind][Len(Steps[r.kind]) - Len(r.todo) + (i + 1)]
        BY <2>2, <3>1
      <3>3. Len(Steps[r.kind]) - Len(r.todo) + (i + 1) = Len(Steps[r.kind]) - Len(t) + i
        <4>1. i \in Int /\ Len(t) = Len(r.todo) - 1
          BY <2>4
        <4> HIDE DEF t
        <4> DEFINE a == Len(Steps[r.kind])
                   b == Len(r.todo)
                   d == Len(t)
        <4>2. a \in Int /\ b \in Int /\ d = b - 1 /\ i \in Int
          BY <2>3, <4>1, <1>n
        <4>3. a - b + (i + 1) = a - d + i
          <5> HIDE DEF a, b, d
          <5> QED BY <4>2
        <4> QED BY <4>3
      <3> QED BY <3>1, <3>2, <3>3
    <2>6. Forward(r) = [r EXCEPT !.todo = t]
      BY <1>2 DEF Forward
    <2>7. /\ Forward(r) \in Ask /\ Forward(r).kind = r.kind /\ Forward(r).todo = t
          /\ Forward(r).who = r.who /\ Forward(r).dev = r.dev
          /\ Forward(r).target = r.target /\ (Forward(r).late <=> r.late)
      <3> HIDE DEF t
      <3> QED BY <2>6, <2>4 DEF Ask
    <2>8. Sound(Forward(r))
      <3> HIDE DEF t
      <3>1. Len(t) \in 1..Len(Steps[r.kind])
        BY <2>4, <2>2, <2>3, <1>0, <1>n
      <3> QED BY <2>7, <2>5, <3>1, <1>0 DEF Sound
    <2> QED
      <3> HIDE DEF t
      <3> QED BY <2>7, <2>8, <2>4, <2>3, <1>2
  <1> QED BY <1>1, <1>2

(* The same, for a step that first writes down what it read. *)
LEMMA GoesOnward ==
    ASSUME NEW r \in Ask, Sound(r), r.kind # "over",
           NEW f \in Ask, f.kind = r.kind, f.todo = r.todo,
           NEW s, s = Forward(f) \/ s = Over
    PROVE  /\ s \in Ask /\ Sound(s)
           /\ Left(r) = 1 => s = Over
           /\ \/ s = Over
              \/ /\ Left(r) # 1 /\ s.kind = r.kind /\ Left(s) = Left(r) - 1
                 /\ s.who = f.who /\ s.dev = f.dev /\ s.target = f.target
                 /\ (s.late <=> f.late)
  <1>1. CASE s = Over
    BY <1>1, Ended
  <1>2. CASE s = Forward(f)
    <2>1. Sound(f) /\ f.kind # "over"
      BY Same
    <2>2. /\ s \in Ask /\ Sound(s)
          /\ Len(f.todo) = 1 => s = Over
      BY <2>1, <1>2, Forwarded
    <2>3. \/ s = Over
          \/ /\ Len(f.todo) # 1 /\ s.kind = f.kind /\ Len(s.todo) = Len(f.todo) - 1
             /\ s.who = f.who /\ s.dev = f.dev /\ s.target = f.target
             /\ (s.late <=> f.late)
      BY <2>1, <1>2, Forwarded
    <2> QED BY <2>2, <2>3 DEF Left
  <1> QED BY <1>1, <1>2

-----------------------------------------------------------------------------
(* --- the first invariant: types, and what a handler knows where it is ---- *)

(* Registered, or about to be taken back. *)
Made(n) == req[n].kind = "register" /\ Left(req[n]) <= 4

(* Past its first step. *)
Past(n) == Left(req[n]) < Len(Steps[req[n].kind])

Knows(n) ==
    /\ Sound(req[n])
    /\ n > begun => req[n] = Over
    /\ Made(n) => req[n].who = n
    /\ req[n].kind \in Kind \ {"register"} /\ Past(n) => req[n].who \in Account
    /\ req[n].kind \in Tokened => req[n].dev \in Device
    /\ req[n].kind = "signOut" => req[n].target \in Device

Typed1 ==
    /\ account \in [Account -> Row]
    /\ device \in [Device -> Account \cup {None}]
    /\ req \in [Request -> Ask]
    /\ begun \in 0..MaxRequests
    /\ pending \in [Request -> [age : Day \cup {None}, of : Account \cup {None}]]
    /\ remembered \subseteq Account
    /\ written \subseteq Account

TInv == Typed1 /\ \A n \in Request : Knows(n)

LEMMA Standing ==
    ASSUME TInv, NEW n \in Request
    PROVE  /\ req[n] \in Ask /\ Sound(req[n])
           /\ (Now(n) = "over") <=> (req[n].kind = "over")
           /\ req[n].kind = "over" => req[n] = Over
           /\ req[n].kind # "over" =>
                /\ n <= begun /\ req[n].kind \in Kind
                /\ \/ /\ Now(n) = "undo" /\ req[n].kind = "register"
                      /\ Left(req[n]) = 1
                   \/ /\ Left(req[n]) \in 1..Len(Steps[req[n].kind])
                      /\ Facts(req[n].kind, Left(req[n]), Now(n))
  <1>1. req[n] \in Ask /\ Knows(n) /\ begun \in Nat
    BY AccountsAssumption DEF TInv, Typed1
  <1>2. Sound(req[n]) /\ (n > begun => req[n] = Over)
    BY <1>1 DEF Knows
  <1>3. PICK now : now = Now(n)
    OBVIOUS
  <1>4. now = IF req[n].todo = <<>> THEN "over" ELSE Head(req[n].todo)
    BY <1>3 DEF Now
  <1>5. /\ now = "over" <=> req[n].kind = "over"
        /\ req[n].kind = "over" => req[n] = Over
        /\ req[n].kind # "over" =>
             /\ req[n].kind \in Kind
             /\ \/ now = "undo" /\ req[n].kind = "register" /\ Len(req[n].todo) = 1
                \/ /\ Len(req[n].todo) \in 1..Len(Steps[req[n].kind])
                   /\ Facts(req[n].kind, Len(req[n].todo), now)
    <2>1. PICK r \in Ask : r = req[n]
      BY <1>1
    <2>2. Sound(r) /\ now = IF r.todo = <<>> THEN "over" ELSE Head(r.todo)
      BY <1>2, <1>4, <2>1
    <2>3. /\ now = "over" <=> r.kind = "over"
          /\ r.kind = "over" => r = Over
          /\ r.kind # "over" =>
               /\ r.kind \in Kind
               /\ \/ now = "undo" /\ r.kind = "register" /\ Len(r.todo) = 1
                  \/ /\ Len(r.todo) \in 1..Len(Steps[r.kind])
                     /\ Facts(r.kind, Len(r.todo), now)
      BY <2>2, Told
    <2> QED BY <2>1, <2>3
  <1>6. req[n].kind # "over" => n <= begun
    <2>1. req[n].kind # "over" => ~(n > begun)
      BY <1>2, Ended
    <2> QED BY <2>1, <1>1 DEF Request
  <1> QED BY <1>1, <1>2, <1>3, <1>5, <1>6 DEF Left

(* What a step of request n may do to it: end it, turn a registration back, *)
(* or take it one step on, with what that step read.                        *)
Learns(n, s) ==
    LET r == req[n]
    IN  /\ Now(n) \in {"find", "byLink"} => s.who \in Account /\ account[s.who].exists
        /\ Now(n) = "device" => s.who = device[r.dev] /\ s.who # None
        /\ Now(n) = "create" => s.who = n /\ \A a \in Account : ~account[a].exists
        /\ Now(n) \notin {"find", "byLink", "device", "create"} => s.who = r.who
        /\ Now(n) = "row" => account[r.who].exists /\ account[r.who].verified
        /\ s.dev = IF Now(n) = "issue" THEN n ELSE r.dev
        /\ s.late <=> IF Now(n) = "subscribe" THEN device[r.dev] = None ELSE r.late

Moved(n, s) ==
    LET r == req[n]
    IN  /\ s \in Ask /\ Sound(s)
        /\ \/ s = Over
           \/ /\ r.kind = "register" /\ Left(r) \in {3, 4}
              /\ s.kind = "register" /\ s.todo = <<"undo">>
              /\ Left(s) = 1 /\ s.who = r.who
           \/ /\ Left(r) # 1 /\ s.kind = r.kind /\ Left(s) = Left(r) - 1
              /\ s.target = r.target
              /\ Learns(n, s)

(* The others go on waiting; a stream may be ended, or left behind.         *)
Waits(m, s) ==
    \/ s = req[m]
    \/ Listening(m) /\ s = Over
    \/ Listening(m) /\ s = [req[m] EXCEPT !.late = TRUE]

(* A step that goes on, or ends, after writing down f.                      *)
LEMMA StepOn ==
    ASSUME TInv, NEW n \in Request, req[n].kind # "over",
           NEW f \in Ask, f.kind = req[n].kind, f.todo = req[n].todo,
           f.target = req[n].target, Learns(n, f),
           NEW s, s = Forward(f) \/ s = Over
    PROVE  Moved(n, s)
  <1>1. PICK r : r = req[n]
    OBVIOUS
  <1>2. r \in Ask /\ Sound(r) /\ r.kind # "over"
    BY <1>1, Standing
  <1>3. f.kind = r.kind /\ f.todo = r.todo
    BY <1>1
  <1>4. /\ s \in Ask /\ Sound(s)
        /\ \/ s = Over
           \/ /\ Left(r) # 1 /\ s.kind = r.kind /\ Left(s) = Left(r) - 1
              /\ s.who = f.who /\ s.dev = f.dev /\ s.target = f.target
              /\ (s.late <=> f.late)
    BY <1>2, <1>3, GoesOnward
  <1>5. CASE s = Over
    BY <1>4, <1>5 DEF Moved
  <1>6. CASE s.who = f.who /\ s.dev = f.dev /\ (s.late <=> f.late)
    <2>1. Learns(n, s)
      BY <1>6 DEF Learns
    <2> QED BY <2>1, <1>4, <1>1 DEF Moved
  <1> QED BY <1>4, <1>5, <1>6

(* Nothing written down. *)
LEMMA StepPlain ==
    ASSUME TInv, NEW n \in Request, req[n].kind # "over",
           NEW s, s = Forward(req[n]) \/ s = Over,
           Now(n) \notin {"find", "byLink", "device", "row", "create", "issue", "subscribe"}
    PROVE  Moved(n, s)
  <1>1. req[n] \in Ask
    BY Standing
  <1>2. Learns(n, req[n])
    BY DEF Learns
  <1> QED BY <1>1, <1>2, StepOn

(* Turned back. *)
LEMMA StepBack ==
    ASSUME TInv, NEW n \in Request, req[n].kind = "register", Now(n) \in {"link", "send"},
           NEW s, s = [req[n] EXCEPT !.todo = <<"undo">>]
    PROVE  Moved(n, s)
  <1>0. req[n].kind # "over" /\ "undo" \in Step
    BY Zenon DEF Step
  <1>1. Left(req[n]) \in {3, 4}
    <2>1. Facts(req[n].kind, Left(req[n]), Now(n))
      BY <1>0, Standing
    <2>2. <<req[n].kind, Left(req[n])>>
            \in {<<"register", 4>>, <<"resend", 2>>, <<"register", 3>>, <<"resend", 1>>}
      BY <2>1 DEF Facts
    <2> QED BY <2>2
  <1>2. PICK r : r = req[n]
    OBVIOUS
  <1>3. r \in Ask
    BY <1>2, Standing
  <1>t. <<"undo">> \in Seq(Step)
    BY <1>0
  <1>4. s \in Ask /\ s.kind = "register" /\ s.todo = <<"undo">> /\ s.who = r.who
    BY <1>2, <1>3, <1>t DEF Ask
  <1>5. Sound(s) /\ Left(s) = 1
    BY <1>4 DEF Sound, Left
  <1> QED BY <1>1, <1>2, <1>4, <1>5 DEF Moved

Served(n) ==
    /\ req' \in [Request -> Ask]
    /\ Moved(n, req'[n])
    /\ \A m \in Request \ {n} : Waits(m, req'[m])

LEMMA Placed ==
    ASSUME TInv, NEW n \in Request, NEW e, Moved(n, e), req' = [req EXCEPT ![n] = e]
    PROVE  Served(n)
  <1>1. req \in [Request -> Ask] /\ e \in Ask
    BY DEF TInv, Typed1, Moved
  <1>2. req' \in [Request -> Ask] /\ req'[n] = e
    BY <1>1
  <1>3. \A m \in Request \ {n} : req'[m] = req[m]
    BY <1>1
  <1> QED BY <1>2, <1>3 DEF Served, Waits

LEMMA PlacedPlain ==
    ASSUME TInv, NEW n \in Request, req[n].kind # "over",
           \/ req' = [req EXCEPT ![n] = Forward(req[n])]
           \/ req' = [req EXCEPT ![n] = Over],
           Now(n) \notin {"find", "byLink", "device", "row", "create", "issue", "subscribe"}
    PROVE  Served(n)
  <1>1. Moved(n, Forward(req[n])) /\ Moved(n, Over)
    BY StepPlain
  <1>2. CASE req' = [req EXCEPT ![n] = Forward(req[n])]
    BY <1>1, <1>2, Placed
  <1>3. CASE req' = [req EXCEPT ![n] = Over]
    BY <1>1, <1>3, Placed
  <1> QED BY <1>2, <1>3

(* Whatever request n does, it does one step of its program.                *)
LEMMA Serving ==
    ASSUME TInv, NEW n \in Request, Serve(n) \/ Fail(n)
    PROVE  req[n].kind # "over" /\ n <= begun /\ Served(n)
  <1> DEFINE r == req[n]
  <1>0. r \in Ask /\ account \in [Account -> Row] /\ device \in [Device -> Account \cup {None}]
        /\ n \in Account /\ n \in Device
    BY Standing DEF TInv, Typed1, Request, Account, Device
  <1>a. Now(n) # "over" => r.kind # "over" /\ n <= begun
    BY Standing
  <1>1. CASE Find(n)
    <2>1. Now(n) = "find" /\ r.kind # "over" /\ n <= begun
      BY <1>1, <1>a DEF Find, At
    <2>2. CASE \A a \in Account : ~account[a].exists
      <3>1. req' = [req EXCEPT ![n] = Over]
        BY <1>1, <2>2 DEF Find
      <3>2. Moved(n, Over)
        BY Ended DEF Moved
      <3> QED BY <3>1, <3>2, <2>1, Placed
    <2>3. ASSUME NEW a \in Account, account[a].exists,
                 req' = [req EXCEPT ![n] = Forward([req[n] EXCEPT !.who = a, !.row = account[a]])]
          PROVE  Served(n)
      <3> DEFINE f == [req[n] EXCEPT !.who = a, !.row = account[a]]
      <3>1. account[a] \in Row
        BY <1>0
      <3>2. f \in Ask /\ f.kind = r.kind /\ f.todo = r.todo /\ f.target = r.target
            /\ f.who = a /\ f.dev = r.dev /\ (f.late <=> r.late)
        BY <3>1, <1>0 DEF Ask
      <3> HIDE DEF f
      <3>3. Learns(n, f)
        BY <3>2, <2>3, <2>1 DEF Learns
      <3>4. Moved(n, Forward(f))
        BY <3>2, <3>3, <2>1, StepOn
      <3>5. req' = [req EXCEPT ![n] = Forward(f)]
        BY <2>3 DEF f
      <3> QED BY <3>4, <3>5, Placed
    <2> QED BY <1>1, <2>1, <2>2, <2>3 DEF Find
  <1>2. CASE ResolveDevice(n)
    <2>1. Now(n) = "device" /\ r.kind # "over" /\ n <= begun
      BY <1>2, <1>a DEF ResolveDevice, At
    <2>2. CASE device[r.dev] = None
      <3>1. req' = [req EXCEPT ![n] = Over]
        BY <1>2, <2>2 DEF ResolveDevice
      <3>2. Moved(n, Over)
        BY Ended DEF Moved
      <3> QED BY <3>1, <3>2, <2>1, Placed
    <2>3. CASE device[r.dev] # None
      <3> DEFINE f == [req[n] EXCEPT !.who = device[req[n].dev]]
      <3>0. r.dev \in Device
        <4>1. r.kind \in Tokened
          BY <2>1, Standing DEF Facts
        <4> QED BY <4>1 DEF TInv, Knows
      <3>1. device[r.dev] \in Account
        BY <1>0, <3>0, <2>3
      <3>2. f \in Ask /\ f.kind = r.kind /\ f.todo = r.todo /\ f.target = r.target
            /\ f.who = device[r.dev] /\ f.dev = r.dev /\ (f.late <=> r.late)
        BY <3>1, <1>0 DEF Ask
      <3> HIDE DEF f
      <3>3. Learns(n, f)
        BY <3>2, <2>3, <2>1 DEF Learns
      <3>4. Moved(n, Forward(f))
        BY <3>2, <3>3, <2>1, StepOn
      <3>5. req' = [req EXCEPT ![n] = Forward(f)]
        BY <1>2, <2>3 DEF f, ResolveDevice
      <3> QED BY <3>4, <3>5, Placed, <2>1
    <2> QED BY <2>2, <2>3
  <1>3. CASE ResolveAccount(n)
    <2>1. Now(n) = "row" /\ r.kind # "over" /\ n <= begun
      BY <1>3, <1>a DEF ResolveAccount, At
    <2> DEFINE row == account[r.who]
    <2>2. CASE ~(row.exists /\ row.verified)
      <3>1. req' = [req EXCEPT ![n] = Over]
        BY <1>3, <2>2 DEF ResolveAccount
      <3>2. Moved(n, Over)
        BY Ended DEF Moved
      <3> QED BY <3>1, <3>2, <2>1, Placed
    <2>3. CASE row.exists /\ row.verified
      <3> DEFINE f == [req[n] EXCEPT !.row = row]
      <3>0. r.who \in Account
        <4>1. r.kind \in Tokened /\ r.kind # "over"
              /\ Left(r) = Len(Steps[r.kind]) - 1
          BY <2>1, Standing DEF Facts
        <4>2. r.kind \in Kind \ {"register"} /\ Len(Steps[r.kind]) \in 2..11
          BY <4>1, Programs, Lengths DEF Tokened
        <4>3. Past(n)
          BY <4>1, <4>2 DEF Past
        <4>4. Knows(n)
          BY DEF TInv
        <4> QED BY <4>2, <4>3, <4>4 DEF Knows
      <3>1. row \in Row
        BY <1>0, <3>0
      <3>2. f \in Ask /\ f.kind = r.kind /\ f.todo = r.todo /\ f.target = r.target
            /\ f.who = r.who /\ f.dev = r.dev /\ (f.late <=> r.late)
        BY <3>1, <1>0 DEF Ask
      <3>5. req' = [req EXCEPT ![n] = Forward(f)]
        BY <1>3, <2>3 DEF ResolveAccount
      <3> HIDE DEF f
      <3>3. Learns(n, f)
        BY <3>2, <2>3, <2>1 DEF Learns
      <3>4. Moved(n, Forward(f))
        BY <3>2, <3>3, <2>1, StepOn
      <3> QED BY <3>4, <3>5, Placed, <2>1
    <2> QED BY <2>2, <2>3
  <1>4. CASE Check(n)
    <2>1. Now(n) \in {"password", "code", "hash", "confirmed", "unconfirmed", "resolve"}
      BY <1>4 DEF Check, At
    <2>2. \/ req' = [req EXCEPT ![n] = Forward(req[n])]
          \/ req' = [req EXCEPT ![n] = Over]
      BY <1>4 DEF Check, Proceed, ProceedOrStop
    <2> QED BY <2>1, <2>2, <1>a, PlacedPlain
  <1>5. CASE Create(n)
    <2>1. Now(n) = "create" /\ r.kind # "over" /\ n <= begun
      BY <1>5, <1>a DEF Create, At
    <2>2. CASE \E a \in Account : account[a].exists
      <3>1. req' = [req EXCEPT ![n] = Over]
        BY <1>5, <2>2 DEF Create
      <3>2. Moved(n, Over)
        BY Ended DEF Moved
      <3> QED BY <3>1, <3>2, <2>1, Placed
    <2>3. CASE \A a \in Account : ~account[a].exists
      <3> DEFINE f == [req[n] EXCEPT !.who = n]
      <3>2. f \in Ask /\ f.kind = r.kind /\ f.todo = r.todo /\ f.target = r.target
            /\ f.who = n /\ f.dev = r.dev /\ (f.late <=> r.late)
        BY <1>0 DEF Ask
      <3>5. req' = [req EXCEPT ![n] = Forward(f)]
        BY <1>5, <2>3 DEF Create
      <3> HIDE DEF f
      <3>3. Learns(n, f)
        BY <3>2, <2>3, <2>1 DEF Learns
      <3>4. Moved(n, Forward(f))
        BY <3>2, <3>3, <2>1, StepOn
      <3> QED BY <3>4, <3>5, Placed, <2>1
    <2> QED BY <2>2, <2>3
  <1>6. CASE SetLink(n)
    <2>1. Now(n) = "link" /\ req' = [req EXCEPT ![n] = Forward(req[n])]
      BY <1>6 DEF SetLink, At, Proceed
    <2> QED BY <2>1, <1>a, PlacedPlain
  <1>7. CASE Send(n)
    <2>1. Now(n) = "send" /\ r.kind # "over"
      BY <1>7, <1>a DEF Send, At
    <2>2. CASE req' = [req EXCEPT ![n] = Forward(req[n])] \/ req' = [req EXCEPT ![n] = Over]
      BY <2>1, <2>2, <1>a, PlacedPlain
    <2>3. CASE r.kind = "register" /\ req' = [req EXCEPT ![n] = [@ EXCEPT !.todo = <<"undo">>]]
      BY <2>1, <2>3, <1>a, StepBack, Placed
    <2>4. \/ req' = [req EXCEPT ![n] = Forward(req[n])]
          \/ req' = [req EXCEPT ![n] = Over]
          \/ r.kind = "register" /\ req' = [req EXCEPT ![n] = [@ EXCEPT !.todo = <<"undo">>]]
      BY <1>7 DEF Send, Proceed
    <2> QED BY <2>1, <2>2, <2>3, <2>4, <1>a
  <1>8. CASE Undo(n)
    <2>1. Now(n) = "undo" /\ r.kind # "over"
      BY <1>8, <1>a DEF Undo, At
    <2>2. req' = [m \in Request |->
                    IF m = n THEN Forward(req[n])
                    ELSE [req[m] EXCEPT !.late = @ \/ (Listening(m) /\ req[m].who = n)]]
      BY <1>8 DEF Undo
    <2>3. Moved(n, req'[n])
      BY <2>1, <2>2, StepPlain
    <2>4. ASSUME NEW m \in Request \ {n} PROVE Waits(m, req'[m]) /\ req'[m] \in Ask
      <3>1. req[m] \in Ask
        BY Standing
      <3>2. CASE Listening(m) /\ req[m].who = n
        BY <2>2, <3>1, <3>2 DEF Waits, Ask
      <3>3. CASE ~(Listening(m) /\ req[m].who = n)
        BY <2>2, <3>1, <3>3 DEF Waits, Ask
      <3> QED BY <3>2, <3>3
    <2>5. req' \in [Request -> Ask]
      <3>1. \A m \in Request : req'[m] \in Ask
        BY <2>3, <2>4 DEF Moved
      <3> QED BY <3>1, <2>2
    <2> QED BY <2>1, <2>3, <2>4, <2>5, <1>a DEF Served
  <1>9. CASE Issue(n)
    <2>1. Now(n) = "issue" /\ r.kind # "over" /\ n <= begun
      BY <1>9, <1>a DEF Issue, At
    <2> DEFINE f == [req[n] EXCEPT !.dev = n]
    <2>2. f \in Ask /\ f.kind = r.kind /\ f.todo = r.todo /\ f.target = r.target
          /\ f.who = r.who /\ f.dev = n /\ (f.late <=> r.late)
      BY <1>0 DEF Ask
    <2>5. req' = [req EXCEPT ![n] = Forward(f)] \/ req' = [req EXCEPT ![n] = Over]
      BY <1>9 DEF Issue
    <2> HIDE DEF f
    <2>3. Learns(n, f)
      BY <2>2, <2>1 DEF Learns
    <2>4. Moved(n, Forward(f)) /\ Moved(n, Over)
      BY <2>2, <2>3, <2>1, StepOn
    <2> QED BY <2>4, <2>5, Placed, <2>1
  <1>10. CASE SetSecret(n)
    <2>1. Now(n) \in {"setPassword", "setRecovery"} /\ req' = [req EXCEPT ![n] = Forward(req[n])]
      BY <1>10 DEF SetSecret, At, Proceed
    <2> QED BY <2>1, <1>a, PlacedPlain
  <1>11. CASE Revoke(n)
    <2>1. Now(n) \in {"deleteOthers", "deleteDevice"}
      BY <1>11 DEF Revoke, At
    <2>2. \/ req' = [req EXCEPT ![n] = Forward(req[n])]
          \/ req' = [req EXCEPT ![n] = Over]
      BY <1>11 DEF Revoke, Proceed, ProceedOrStop
    <2> QED BY <2>1, <2>2, <1>a, PlacedPlain
  <1>12. CASE DeleteAccount(n)
    <2>1. Now(n) = "deleteAccount"
      BY <1>12 DEF DeleteAccount, At
    <2>2. \/ req' = [req EXCEPT ![n] = Forward(req[n])]
          \/ req' = [req EXCEPT ![n] = Over]
      BY <1>12 DEF DeleteAccount, ProceedOrStop
    <2> QED BY <2>1, <2>2, <1>a, PlacedPlain
  <1>13. CASE Answer(n)
    <2>1. Now(n) = "answer" /\ req' = [req EXCEPT ![n] = Forward(req[n])]
      BY <1>13 DEF Answer, At, Proceed
    <2> QED BY <2>1, <1>a, PlacedPlain
  <1>14. CASE ByLink(n)
    <2>1. Now(n) = "byLink" /\ r.kind # "over" /\ n <= begun
      BY <1>14, <1>a DEF ByLink, At
    <2>2. CASE req' = [req EXCEPT ![n] = Over]
      <3>1. Moved(n, Over)
        BY Ended DEF Moved
      <3> QED BY <2>2, <3>1, <2>1, Placed
    <2>3. ASSUME NEW a \in Account, account[a].exists,
                 req' = [req EXCEPT ![n] = Forward([req[n] EXCEPT !.who = a])]
          PROVE  Served(n)
      <3> DEFINE f == [req[n] EXCEPT !.who = a]
      <3>2. f \in Ask /\ f.kind = r.kind /\ f.todo = r.todo /\ f.target = r.target
            /\ f.who = a /\ f.dev = r.dev /\ (f.late <=> r.late)
        BY <1>0 DEF Ask
      <3> HIDE DEF f
      <3>3. Learns(n, f)
        BY <3>2, <2>3, <2>1 DEF Learns
      <3>4. Moved(n, Forward(f))
        BY <3>2, <3>3, <2>1, StepOn
      <3>5. req' = [req EXCEPT ![n] = Forward(f)]
        BY <2>3 DEF f
      <3> QED BY <3>4, <3>5, Placed
    <2> QED BY <1>14, <2>1, <2>2, <2>3 DEF ByLink
  <1>15. CASE Mark(n)
    <2>1. Now(n) = "mark" /\ req' = [req EXCEPT ![n] = Forward(req[n])]
      BY <1>15 DEF Mark, At, Proceed
    <2> QED BY <2>1, <1>a, PlacedPlain
  <1>16. CASE Subscribe(n)
    <2>1. Now(n) = "subscribe" /\ r.kind # "over" /\ n <= begun
      BY <1>16, <1>a DEF Subscribe, At
    <2> DEFINE f == [req[n] EXCEPT !.late = device[req[n].dev] = None]
    <2>2. f \in Ask /\ f.kind = r.kind /\ f.todo = r.todo /\ f.target = r.target
          /\ f.who = r.who /\ f.dev = r.dev /\ (f.late <=> device[r.dev] = None)
      BY <1>0 DEF Ask
    <2>5. req' = [req EXCEPT ![n] = Forward(f)]
      BY <1>16 DEF Subscribe
    <2> HIDE DEF f
    <2>3. Learns(n, f)
      BY <2>2, <2>1 DEF Learns
    <2>4. Moved(n, Forward(f))
      BY <2>2, <2>3, <2>1, StepOn
    <2> QED BY <2>4, <2>5, Placed, <2>1
  <1>17. CASE EndStreams(n)
    <2>1. Now(n) \in {"endOthers", "endDevice", "endAll"} /\ r.kind # "over"
      BY <1>17, <1>a DEF EndStreams
    <2>2. req' = [m \in Request |->
                    IF m = n THEN Forward(req[n])
                    ELSE IF Listening(m) /\ req[m].who = req[n].who /\ EndedBy(n, m) THEN Over
                    ELSE req[m]]
      BY <1>17 DEF EndStreams
    <2>3. Moved(n, req'[n])
      BY <2>1, <2>2, StepPlain
    <2>4. ASSUME NEW m \in Request \ {n} PROVE Waits(m, req'[m]) /\ req'[m] \in Ask
      BY <2>2, Standing, Ended DEF Waits
    <2>5. req' \in [Request -> Ask]
      <3>1. \A m \in Request : req'[m] \in Ask
        BY <2>3, <2>4 DEF Moved
      <3> QED BY <3>1, <2>2
    <2> QED BY <2>1, <2>3, <2>4, <2>5, <1>a DEF Served
  <1>18. CASE Fail(n)
    <2>1. Now(n) # "over" /\ r.kind # "over" /\ n <= begun
      BY <1>18, <1>a DEF Fail
    <2>2. CASE req' = [req EXCEPT ![n] = Over]
      <3>1. Moved(n, Over)
        BY Ended DEF Moved
      <3> QED BY <2>2, <3>1, <2>1, Placed
    <2>3. CASE r.kind = "register" /\ Now(n) \in {"link", "send"}
                 /\ req' = [req EXCEPT ![n].todo = <<"undo">>]
      BY <2>1, <2>3, StepBack, Placed
    <2> QED BY <1>18, <2>1, <2>2, <2>3 DEF Fail
  <1> QED
    BY <1>1, <1>2, <1>3, <1>4, <1>5, <1>6, <1>7, <1>8, <1>9, <1>10, <1>11, <1>12,
       <1>13, <1>14, <1>15, <1>16, <1>17, <1>18 DEF Serve

(* What a request is when it arrives. *)
Came(n) ==
    /\ n \in Request /\ n = begun + 1 /\ begun' = begun + 1 /\ req[n] = Over
    /\ req' \in [Request -> Ask] /\ Sound(req'[n])
    /\ req'[n].kind \in Kind /\ Left(req'[n]) = Len(Steps[req'[n].kind])
    /\ req'[n].who = None /\ ~req'[n].late
    /\ req'[n].kind \in Tokened => req'[n].dev \in Device /\ device[req'[n].dev] # None
    /\ req'[n].kind = "signOut" => req'[n].target \in Device /\ device[req'[n].target] # None
    /\ \A m \in Request \ {n} : req'[m] = req[m]
    /\ remembered' = IF req'[n].kind \in {"register", "recover", "change"}
                     THEN remembered \cup {n} ELSE remembered

LEMMA Arriving ==
    ASSUME TInv, Arrive
    PROVE  \E n \in Request : Came(n)
  <1> DEFINE n == begun + 1
  <1>1. PICK kind \in Kind : \E typed \in Typed(kind), dev \in Tokens(kind),
                                target \in Targets(kind) :
          /\ req' = [req EXCEPT ![begun + 1] =
                [Over EXCEPT !.kind = kind, !.todo = Steps[kind], !.typed = typed,
                             !.dev = dev, !.target = target]]
          /\ remembered' = IF kind \in {"register", "recover", "change"}
                           THEN remembered \cup {begun + 1} ELSE remembered
    BY DEF Arrive
  <1>2. PICK typed \in Typed(kind), dev \in Tokens(kind), target \in Targets(kind) :
          /\ req' = [req EXCEPT ![n] =
                [Over EXCEPT !.kind = kind, !.todo = Steps[kind], !.typed = typed,
                             !.dev = dev, !.target = target]]
          /\ remembered' = IF kind \in {"register", "recover", "change"}
                           THEN remembered \cup {n} ELSE remembered
    BY <1>1
  <1>3. n \in Request /\ begun' = n /\ begun \in Nat
    BY AccountsAssumption DEF Arrive, TInv, Typed1, Request
  <1>4. req[n] = Over
    BY <1>3 DEF TInv, Knows
  <1>5. typed \in Account \cup {None}
    <2>1. remembered \subseteq Account /\ written \subseteq Account /\ Request \subseteq Account
      BY DEF TInv, Typed1, Request, Account
    <2> QED BY <2>1 DEF Typed
  <1>6. Steps[kind] \in Seq(Step) /\ Len(Steps[kind]) \in 2..11
    <2>1. Len(Steps[kind]) \in 2..11
      BY Lengths
    <2> DEFINE N == {"find", "device", "row", "password", "code", "hash", "confirmed",
                     "unconfirmed", "resolve", "create", "link", "send", "issue",
                     "setPassword", "setRecovery", "deleteOthers", "deleteDevice",
                     "deleteAccount", "answer", "byLink", "mark", "subscribe", "listen",
                     "endOthers", "endDevice", "endAll"}
    <2>2. Steps[kind] \in Seq(N)
      <3>1. RegisterSteps \in Seq(N) /\ LoginSteps \in Seq(N)
            /\ RecoverSteps \in Seq(N)
        BY DEF RegisterSteps, LoginSteps, RecoverSteps
      <3>2. PasswordSteps \in Seq(N) /\ DeleteDeviceSteps \in Seq(N)
            /\ DeleteAccountSteps \in Seq(N)
        BY DEF PasswordSteps, DeleteDeviceSteps, DeleteAccountSteps
      <3>3. VerifySteps \in Seq(N) /\ ResendSteps \in Seq(N)
            /\ StreamSteps \in Seq(N)
        BY DEF VerifySteps, ResendSteps, StreamSteps
      <3> QED
        <4> HIDE DEF N
        <4> QED BY <3>1, <3>2, <3>3, Programs
    <2>3. \A i \in 1..Len(Steps[kind]) : Steps[kind][i] \in Step
      <3> TAKE i \in 1..Len(Steps[kind])
      <3> DEFINE Of(k) == {Steps[k][j] : j \in 1..Len(Steps[k])}
      <3>1. Step = {"undo"} \cup UNION {Of(k) : k \in Kind}
        BY DEF Step
      <3>2. Steps[kind][i] \in Of(kind)
        OBVIOUS
      <3> HIDE DEF Of
      <3> QED BY <3>1, <3>2
    <2> QED
      <3> HIDE DEF N
      <3> QED BY <2>1, <2>2, <2>3
  <1>7. (Steps[kind][1] = "device") <=> (kind \in Tokened)
    <2>1. Len(Steps[kind]) \in 1..Len(Steps[kind]) /\ Len(Steps[kind]) - Len(Steps[kind]) + 1 = 1
      BY <1>6
    <2>2. Facts(kind, Len(Steps[kind]), Steps[kind][1])
      BY <2>1, Where
    <2> QED BY <2>2 DEF Facts
  <1>8. /\ dev \in Device \cup {None} /\ target \in Device \cup {None}
        /\ kind \in Tokened => dev \in Device /\ device[dev] # None
        /\ kind = "signOut" => target \in Device /\ device[target] # None
    BY <1>7 DEF Tokens, Targets
  <1> DEFINE s == [Over EXCEPT !.kind = kind, !.todo = Steps[kind], !.typed = typed,
                               !.dev = dev, !.target = target]
  <1>9. /\ s \in Ask /\ s.kind = kind /\ s.todo = Steps[kind] /\ s.dev = dev
        /\ s.target = target /\ s.who = None /\ ~s.late
    <2>1. NoRow \in Row
      BY Ended
    <2> QED BY <2>1, <1>5, <1>6, <1>8 DEF Over, Ask
  <1>10. req \in [Request -> Ask] /\ req' = [req EXCEPT ![n] = s]
    BY <1>2 DEF TInv, Typed1
  <1> HIDE DEF s
  <1>11. Sound(s) /\ Left(s) = Len(Steps[kind])
    <2>1. \A i \in 1..Len(s.todo) :
            s.todo[i] = Steps[kind][Len(Steps[kind]) - Len(s.todo) + i]
      <3> TAKE i \in 1..Len(s.todo)
      <3> DEFINE a == Len(Steps[kind])
      <3>1. a \in Int /\ i \in Int /\ Len(s.todo) = a
        BY <1>9, <1>6
      <3>2. a - a + i = i
        <4> HIDE DEF a
        <4> QED BY <3>1
      <3> QED BY <3>1, <3>2, <1>9
    <2>2. Len(s.todo) \in 1..Len(Steps[kind])
      <3> DEFINE a == Len(Steps[kind])
      <3>1. Len(s.todo) = a /\ a \in 2..11
        BY <1>9, <1>6
      <3>2. a \in 1..a
        <4> HIDE DEF a
        <4> QED BY <3>1
      <3> QED BY <3>1, <3>2
    <2>3. s.kind = kind /\ kind \in Kind
      BY <1>9
    <2>4. Sound(s)
      BY <2>1, <2>2, <2>3 DEF Sound
    <2> QED BY <2>4, <1>9 DEF Left
  <1>12. req'[n] = s /\ req' \in [Request -> Ask]
         /\ \A m \in Request \ {n} : req'[m] = req[m]
    BY <1>9, <1>10, <1>3
  <1> HIDE DEF n
  <1>13. n = begun + 1
    BY DEF n
  <1>14. remembered' = IF kind \in {"register", "recover", "change"}
                       THEN remembered \cup {n} ELSE remembered
    BY <1>2
  <1>15. Came(n)
    BY <1>3, <1>4, <1>8, <1>9, <1>11, <1>12, <1>13, <1>14 DEF Came
  <1> QED BY <1>3, <1>15

(* What any step of the system does to the requests. *)
Moves ==
    \/ \E n \in Request : Came(n)
    \/ \E n \in Request :
          /\ req[n].kind # "over" /\ n <= begun
          /\ Served(n) /\ begun' = begun /\ remembered' = remembered
    \/ req' = req /\ begun' = begun

LEMMA NextMoves ==
    ASSUME TInv, [Next]_vars
    PROVE  Moves
  <1>1. CASE Arrive
    BY <1>1, Arriving DEF Moves
  <1>2. ASSUME NEW n \in Request, Serve(n) \/ Fail(n)
        PROVE  Moves
    <2>1. begun' = begun /\ remembered' = remembered
      BY <1>2 DEF Serve, Fail, Find, ResolveDevice, ResolveAccount, Check, Create, SetLink,
                  Send, Undo, Issue, SetSecret, Revoke, DeleteAccount, Answer, ByLink, Mark,
                  Subscribe, EndStreams
    <2> QED BY <2>1, <1>2, Serving DEF Moves
  <1>3. CASE SweepUnverified \/ DayPasses \/ Forget \/ vars' = vars
    BY <1>3 DEF Moves, SweepUnverified, DayPasses, Forget, vars
  <1> QED BY <1>1, <1>2, <1>3 DEF Next

LEMMA KnowsStep ==
    ASSUME TInv, Moves, NEW m \in Request
    PROVE  Knows(m)'
  <1>0. Knows(m) /\ begun \in Nat /\ req[m] \in Ask
    BY Standing, AccountsAssumption DEF TInv, Typed1
  <1>1. ASSUME NEW n \in Request, Came(n)
        PROVE  Knows(m)'
    <2>1. CASE m = n
      <3>1. PICK s : s = req'[n]
        OBVIOUS
      <3>2. /\ Sound(s) /\ s.kind \in Kind /\ Left(s) = Len(Steps[s.kind])
            /\ s.kind \in Tokened => s.dev \in Device
            /\ s.kind = "signOut" => s.target \in Device
            /\ begun' = n
        BY <3>1, <1>1 DEF Came
      <3>3. s.kind = "register" => Left(s) = 7
        BY <3>2, Lengths
      <3>4. ~(Left(s) < Len(Steps[s.kind]))
        BY <3>2, Lengths
      <3>5. ~(m > begun')
        BY <2>1, <3>2 DEF Request
      <3>6. ~(s.kind = "register" /\ Left(s) <= 4)
        BY <3>3
      <3> QED BY <2>1, <3>1, <3>2, <3>4, <3>5, <3>6 DEF Knows, Made, Past
    <2>2. CASE m # n
      <3>1. req'[m] = req[m] /\ begun' = begun + 1
        BY <2>2, <1>1 DEF Came
      <3>2. m > begun' => m > begun
        BY <3>1, <1>0 DEF Request
      <3> QED BY <3>1, <3>2, <1>0 DEF Knows, Made, Past
    <2> QED BY <2>1, <2>2
  <1>2. ASSUME NEW n \in Request, req[n].kind # "over", n <= begun, Served(n), begun' = begun
        PROVE  Knows(m)'
    <2>1. CASE m = n
      <3>1. PICK s : s = req'[n]
        OBVIOUS
      <3>2. PICK r : r = req[n]
        OBVIOUS
      <3>3. s \in Ask /\ Sound(s) /\ ~(n > begun')
        <4>1. Moved(n, s)
          BY <3>1, <1>2 DEF Served
        <4>2. ~(n > begun')
          BY <1>0, <1>2 DEF Request
        <4> QED BY <4>1, <4>2 DEF Moved
      <3>4. CASE s = Over
        BY <3>1, <3>3, <3>4, <2>1, Ended DEF Knows, Made, Tokened
      <3>5. CASE /\ r.kind = "register" /\ Left(r) \in {3, 4}
                 /\ s.kind = "register" /\ Left(s) = 1 /\ s.who = r.who
        <4>1. s.who = n
          BY <3>2, <3>5, <1>0, <2>1 DEF Knows, Made
        <4> QED BY <4>1, <3>1, <3>3, <3>5, <2>1 DEF Knows, Tokened
      <3>6. CASE /\ Left(r) # 1 /\ s.kind = r.kind /\ Left(s) = Left(r) - 1
                 /\ s.target = r.target /\ Learns(n, s)
        <4>1. /\ r.kind \in Kind /\ Left(r) \in 1..Len(Steps[r.kind])
              /\ Facts(r.kind, Left(r), Now(n))
          <5>1. r.kind # "over" /\ Left(r) # 1
            BY <3>2, <3>6, <1>2
          <5>2. /\ r.kind \in Kind
                /\ \/ Left(r) = 1
                   \/ /\ Left(r) \in 1..Len(Steps[r.kind])
                      /\ Facts(r.kind, Left(r), Now(n))
            BY <3>2, <5>1, Standing
          <5> QED BY <5>1, <5>2
        <4>2. Len(Steps[r.kind]) \in 2..11 /\ Left(r) \in 1..11
          <5> DEFINE a == Len(Steps[r.kind])
          <5>1. a \in 2..11 /\ Left(r) \in 1..a
            BY <4>1, Lengths
          <5>2. Left(r) \in 1..11
            <6> HIDE DEF a
            <6> QED BY <5>1
          <5> QED BY <5>1, <5>2
        <4>3. s.kind = "register" /\ Left(s) <= 4 => s.who = n
          <5>1. CASE r.kind = "register" /\ Left(r) = 5
            <6>1. Now(n) = "create"
              BY <4>1, <5>1 DEF Facts
            <6> QED BY <6>1, <3>6 DEF Learns
          <5>2. CASE r.kind = "register" /\ Left(r) <= 4
            <6>1. Now(n) \notin {"find", "byLink", "device", "create"}
              BY <4>1, <5>2 DEF Facts, Tokened
            <6>2. s.who = r.who
              BY <6>1, <3>6, <3>2 DEF Learns
            <6> QED BY <6>2, <5>2, <3>2, <1>0, <2>1 DEF Knows, Made
          <5> QED BY <5>1, <5>2, <3>6, <4>2
        <4>4. s.kind \in Kind \ {"register"} => s.who \in Account
          <5> SUFFICES ASSUME r.kind \in Kind \ {"register"} PROVE s.who \in Account
            BY <3>6
          <5>1. CASE Left(r) < Len(Steps[r.kind])
            <6>1. Now(n) \notin {"device", "create"}
              BY <4>1, <4>2, <5>1 DEF Facts, Tokened
            <6>2. r.who \in Account
              BY <5>1, <3>2, <1>0, <2>1 DEF Knows, Past
            <6> QED BY <6>1, <6>2, <3>6, <3>2 DEF Learns
          <5>2. CASE Left(r) = Len(Steps[r.kind])
            <6>1. Now(n) \in {"find", "byLink", "device"}
              BY <4>1, <5>2, Lengths, Programs DEF Facts, Tokened
            <6>2. Now(n) = "device" => device[r.dev] \in Account \cup {None}
              <7>1. Now(n) = "device" => r.kind \in Tokened
                BY <4>1 DEF Facts
              <7> QED BY <7>1, <3>2, <2>1, <1>0 DEF Knows, TInv, Typed1
            <6> QED BY <6>1, <6>2, <3>6, <3>2 DEF Learns
          <5> QED BY <5>1, <5>2, <4>1, <4>2
        <4>5. s.kind \in Tokened => s.dev \in Device
          <5>1. r.kind \in Tokened => Now(n) # "issue"
            BY <4>1 DEF Facts, Tokened
          <5>2. r.kind \in Tokened => r.dev \in Device
            BY <3>2, <2>1, <1>0 DEF Knows
          <5> QED BY <5>1, <5>2, <3>6, <3>2 DEF Learns
        <4>6. s.kind = "signOut" => s.target \in Device
          BY <3>2, <3>6, <2>1, <1>0 DEF Knows
        <4> QED BY <4>3, <4>4, <4>5, <4>6, <3>1, <3>3, <2>1 DEF Knows, Made
      <3> QED BY <3>1, <3>2, <3>4, <3>5, <3>6, <1>2 DEF Served, Moved
    <2>2. CASE m # n
      <3>1. Waits(m, req'[m])
        BY <2>2, <1>2 DEF Served
      <3>2. CASE req'[m] = req[m]
        BY <3>2, <1>0, <1>2 DEF Knows, Made, Past
      <3>3. CASE req'[m] = Over
        BY <3>3, Ended DEF Knows, Made, Tokened
      <3>4. CASE req'[m] = [req[m] EXCEPT !.late = TRUE] /\ Listening(m)
        <4>1. PICK s : s = req'[m]
          OBVIOUS
        <4>2. /\ s.kind = req[m].kind /\ s.todo = req[m].todo /\ s.who = req[m].who
              /\ s.dev = req[m].dev /\ s.target = req[m].target /\ s \in Ask
          BY <4>1, <3>4, <1>0 DEF Ask
        <4>3. req[m].kind # "over"
          BY <3>4, Standing DEF Listening
        <4>4. PICK r : r = req[m]
          OBVIOUS
        <4>5. Sound(s)
          <5>1. r \in Ask /\ Sound(r) /\ r.kind # "over" /\ s.kind = r.kind /\ s.todo = r.todo
            BY <4>2, <4>3, <4>4, <1>0, Standing
          <5> QED BY <5>1, <4>2, Same
        <4>6. Left(s) = Left(r)
          BY <4>2, <4>4 DEF Left
        <4>7. m > begun => FALSE
          BY <4>3, Standing, <1>0 DEF Request
        <4> QED BY <4>1, <4>2, <4>4, <4>5, <4>6, <4>7, <1>0, <1>2 DEF Knows, Made, Past
      <3> QED BY <3>1, <3>2, <3>3, <3>4 DEF Waits
    <2> QED BY <2>1, <2>2
  <1>3. CASE req' = req /\ begun' = begun
    BY <1>3, <1>0 DEF Knows, Made, Past
  <1> QED BY <1>1, <1>2, <1>3 DEF Moves

-----------------------------------------------------------------------------
(* --- what a step writes --------------------------------------------------- *)

(* Whoever writes knows whose account it is.                                *)
Writing == {"row", "link", "send", "undo", "issue", "setPassword", "setRecovery",
            "deleteOthers", "deleteDevice", "deleteAccount", "mark", "subscribe",
            "endOthers", "endDevice", "endAll", "listen"}

LEMMA WhoWrites ==
    ASSUME TInv, NEW n \in Request, Now(n) \in Writing
    PROVE  req[n].who \in Account /\ (Now(n) = "undo" => req[n].who = n)
  <1>0. n \in Account /\ Knows(n) /\ req[n].kind # "over"
    BY Standing DEF Account, Request, TInv, Writing
  <1>1. CASE Now(n) = "undo"
    <2>1. \/ req[n].kind = "register" /\ Left(req[n]) = 1
          \/ Facts(req[n].kind, Left(req[n]), Now(n))
      BY <1>0, Standing
    <2>2. ~Facts(req[n].kind, Left(req[n]), Now(n))
      BY <1>1 DEF Facts
    <2> QED BY <2>1, <2>2, <1>0 DEF Knows, Made
  <1>2. CASE Now(n) # "undo"
    <2>1. /\ req[n].kind \in Kind
          /\ Left(req[n]) \in 1..Len(Steps[req[n].kind])
          /\ Facts(req[n].kind, Left(req[n]), Now(n))
      BY <1>0, <1>2, Standing
    <2>2. CASE req[n].kind = "register"
      <3>1. Left(req[n]) \in {2, 3, 4}
        <4>1. Facts("register", Left(req[n]), Now(n)) /\ Now(n) \in Writing
          BY <2>1, <2>2
        <4>2. "register" \notin Tokened
          BY DEF Tokened
        <4>3. Now(n) \in {"link", "send", "issue"}
          BY <4>1, <4>2, <1>2 DEF Facts, Writing
        <4> QED BY <4>1, <4>3 DEF Facts
      <3> QED BY <3>1, <2>2, <1>0 DEF Knows, Made
    <2>3. CASE req[n].kind # "register"
      <3>1. Left(req[n]) # Len(Steps[req[n].kind])
        BY <1>2, <2>1, <2>3, Lengths, Programs DEF Facts, Writing, Tokened
      <3>2. Past(n)
        <4> DEFINE a == Len(Steps[req[n].kind])
        <4>1. a \in 2..11 /\ Left(req[n]) \in 1..a /\ Left(req[n]) # a
          BY <2>1, <3>1, Lengths
        <4>2. Left(req[n]) < a
          <5> HIDE DEF a
          <5> QED BY <4>1
        <4> QED BY <4>2 DEF Past
      <3> QED BY <3>2, <2>1, <2>3, <1>0, <1>2 DEF Knows
    <2> QED BY <2>2, <2>3
  <1> QED BY <1>1, <1>2

(* One row of the account table. *)
RowStep(n, a) ==
    LET r == account[a]
        s == account'[a]
    IN  \/ s = r
        \/ /\ Now(n) = "create" /\ a = n /\ \A b \in Account : ~account[b].exists
           /\ s.exists /\ ~s.verified /\ s.age = 0 /\ s.link = None
           /\ s.password = n /\ s.recovery = n
        \/ /\ Now(n) \in {"undo", "deleteAccount"} /\ a = req[n].who
           /\ ~s.exists /\ s.link = None /\ s.age = 0
        \/ /\ Now(n) = "link" /\ a = req[n].who /\ r.exists
           /\ s.exists /\ (s.verified <=> r.verified) /\ s.age = r.age /\ s.link = n
           /\ s.password = r.password /\ s.recovery = r.recovery
        \/ /\ Now(n) = "setPassword" /\ a = req[n].who /\ r.exists
           /\ s.exists /\ (s.verified <=> r.verified) /\ s.age = r.age /\ s.link = r.link
           /\ s.password = n /\ s.recovery = r.recovery
        \/ /\ Now(n) = "setRecovery" /\ a = req[n].who /\ r.exists
           /\ s.exists /\ (s.verified <=> r.verified) /\ s.age = r.age /\ s.link = r.link
           /\ s.password = r.password /\ s.recovery = n
        \/ /\ Now(n) = "mark" /\ a = req[n].who /\ r.exists
           /\ s.exists /\ s.verified /\ s.age = 0 /\ s.link = None
           /\ s.password = r.password /\ s.recovery = r.recovery

(* One device. *)
DeviceStep(n, d) ==
    LET o == device[d]
        w == req[n].who
    IN  /\ \/ device'[d] = o
           \/ Now(n) = "issue" /\ d = n /\ device'[d] = w /\ account[w].exists
           \/ Now(n) = "deleteOthers" /\ device'[d] = None /\ o = w /\ d # req[n].dev
              /\ req'[n] = Forward(req[n])
           \/ Now(n) = "deleteDevice" /\ device'[d] = None /\ o = w /\ d = req[n].target
              /\ req'[n] = Forward(req[n])
           \/ Now(n) = "deleteAccount" /\ device'[d] = None /\ o = w
              /\ (account[w].exists => req'[n] = Forward(req[n]))
           \/ Now(n) = "undo" /\ device'[d] = None /\ o = n
              /\ \A m \in Request \ {n} : Listening(m) /\ req[m].who = n => req'[m].late
        /\ Now(n) \in {"undo", "deleteAccount"} => device'[d] # w

(* One mailed link. *)
MailStep(n, l) ==
    LET w == req[n].who
    IN  /\ \/ pending'[l] = pending[l]
           \/ pending'[l] = NoMail
           \/ Now(n) = "send" /\ l = n /\ account[w].link = n
              /\ pending'[l] = [age |-> 0, of |-> w]
        /\ Now(n) \in {"link", "undo", "deleteAccount", "mark"} /\ account[w].link = l
              => pending'[l] = NoMail

Writes(n) ==
    /\ account' \in [Account -> Row]
    /\ device' \in [Device -> Account \cup {None}]
    /\ pending' \in [Request -> [age : Day \cup {None}, of : Account \cup {None}]]
    /\ written \subseteq written' /\ written' \subseteq Account
    /\ \A a \in Account : RowStep(n, a)
    /\ \A d \in Device : DeviceStep(n, d)
    /\ \A l \in Request : MailStep(n, l)

LEMMA Unwritten ==
    ASSUME TInv, NEW n \in Request,
           UNCHANGED <<account, device, pending>>, written \subseteq written',
           written' \subseteq Account, Now(n) \notin {"undo", "deleteAccount", "link", "mark"}
    PROVE  Writes(n)
  <1>1. \A a \in Account : RowStep(n, a)
    BY DEF RowStep
  <1>2. \A d \in Device : DeviceStep(n, d)
    BY DEF DeviceStep
  <1>3. \A l \in Request : MailStep(n, l)
    BY DEF MailStep
  <1> QED BY <1>1, <1>2, <1>3 DEF Writes, TInv, Typed1

(* A step that writes one row and no device. *)
LEMMA RowWritten ==
    ASSUME TInv, NEW n \in Request, NEW b \in Account, NEW e \in Row,
           account' = [account EXCEPT ![b] = e],
           account'[b] = e => RowStep(n, b)
    PROVE  account' \in [Account -> Row] /\ \A a \in Account : RowStep(n, a)
  <1>1. account \in [Account -> Row]
    BY DEF TInv, Typed1
  <1>2. account' \in [Account -> Row] /\ account'[b] = e
        /\ \A a \in Account \ {b} : account'[a] = account[a]
    BY <1>1
  <1>3. \A a \in Account \ {b} : RowStep(n, a)
    BY <1>2 DEF RowStep
  <1> QED BY <1>2, <1>3

LEMMA DevicesKeptStep ==
    ASSUME TInv, NEW n \in Request, device' = device, Now(n) \notin {"undo", "deleteAccount"}
    PROVE  device' \in [Device -> Account \cup {None}] /\ \A d \in Device : DeviceStep(n, d)
  BY DEF TInv, Typed1, DeviceStep

LEMMA MailTaken ==
    ASSUME TInv, NEW n \in Request, NEW k, pending' = Without(k),
           Now(n) \in {"link", "undo", "deleteAccount", "mark"} => k = account[req[n].who].link
    PROVE  /\ pending' \in [Request -> [age : Day \cup {None}, of : Account \cup {None}]]
           /\ \A l \in Request : MailStep(n, l)
  <1>1. NoMail \in [age : Day \cup {None}, of : Account \cup {None}]
    BY DEF NoMail
  <1>2. pending' \in [Request -> [age : Day \cup {None}, of : Account \cup {None}]]
    BY <1>1 DEF TInv, Typed1, Without
  <1>3. \A l \in Request : MailStep(n, l)
    BY DEF MailStep, Without
  <1> QED BY <1>2, <1>3

(* What a request writes when it takes a step.                              *)
LEMMA WritesStep ==
    ASSUME TInv, NEW n \in Request, Serve(n)
    PROVE  Writes(n)
  <1> DEFINE r == req[n]
             w == req[n].who
  <1>0. /\ account \in [Account -> Row] /\ device \in [Device -> Account \cup {None}]
        /\ written \subseteq Account /\ n \in Account /\ n \in Device
        /\ pending \in [Request -> [age : Day \cup {None}, of : Account \cup {None}]]
    BY DEF TInv, Typed1, Request, Account, Device
  <1>w. Now(n) \in Writing => w \in Account /\ account[w] \in Row
    BY WhoWrites, <1>0
  <1>1. CASE Find(n) \/ ResolveDevice(n) \/ ResolveAccount(n) \/ Check(n) \/ ByLink(n)
             \/ Subscribe(n) \/ EndStreams(n)
    <2>1. Now(n) \notin {"undo", "deleteAccount", "link", "mark"}
      BY <1>1 DEF Find, ResolveDevice, ResolveAccount, Check, ByLink, Subscribe, EndStreams, At
    <2>2. UNCHANGED <<account, device, pending, written>>
      BY <1>1 DEF Find, ResolveDevice, ResolveAccount, Check, ByLink, Subscribe, EndStreams
    <2> QED BY <2>1, <2>2, <1>0, Unwritten
  <1>2. CASE Answer(n)
    <2>1. Now(n) = "answer" /\ UNCHANGED <<account, device, pending>>
          /\ written' = written \cup {n}
      BY <1>2 DEF Answer, At
    <2> QED BY <2>1, <1>0, Unwritten
  <1>4. CASE Create(n)
    <2>1. Now(n) = "create" /\ device' = device /\ pending' = pending /\ written' = written
      BY <1>4 DEF Create, At
    <2>2. CASE \E a \in Account : account[a].exists
      <3>1. account' = account
        BY <1>4, <2>2 DEF Create
      <3> QED BY <2>1, <3>1, <1>0, Unwritten
    <2>3. CASE \A a \in Account : ~account[a].exists
      <3>0. NoRow \in Row /\ ~NoRow.verified /\ NoRow.age = 0 /\ NoRow.link = None
        BY Ended DEF NoRow
      <3>a. PICK x \in Row : x = NoRow
        BY <3>0
      <3> DEFINE e == [x EXCEPT !.exists = TRUE, !.password = n, !.recovery = n]
      <3>1. account' = [account EXCEPT ![n] = e]
        BY <1>4, <2>3, <3>a DEF Create
      <3>b. ~x.verified /\ x.age = 0 /\ x.link = None
        BY <3>0, <3>a
      <3>2. e \in Row /\ e.exists /\ ~e.verified /\ e.age = 0 /\ e.link = None
            /\ e.password = n /\ e.recovery = n
        BY <1>0, <3>b DEF Row
      <3> HIDE DEF e
      <3>3. account'[n] = e => RowStep(n, n)
        BY <2>1, <2>3, <3>2 DEF RowStep
      <3>4. account' \in [Account -> Row] /\ \A a \in Account : RowStep(n, a)
        BY <3>1, <3>2, <3>3, <1>0, RowWritten
      <3>5. \A l \in Request : MailStep(n, l)
        BY <2>1 DEF MailStep
      <3> QED BY <3>4, <3>5, <2>1, <1>0, DevicesKeptStep DEF Writes
    <2> QED BY <2>2, <2>3
  <1>5. CASE SetLink(n)
    <2>1. Now(n) = "link" /\ device' = device /\ written' = written
          /\ pending' = Without(account[w].link)
      BY <1>5 DEF SetLink, At
    <2>2. w \in Account /\ account[w] \in Row
      BY <2>1, <1>w DEF Writing
    <2>3. pending' \in [Request -> [age : Day \cup {None}, of : Account \cup {None}]]
          /\ \A l \in Request : MailStep(n, l)
      BY <2>1, MailTaken
    <2>4. account' \in [Account -> Row] /\ \A a \in Account : RowStep(n, a)
      <3>1. CASE ~account[w].exists
        <4>1. account' = account
          BY <1>5, <3>1 DEF SetLink
        <4> QED BY <4>1, <1>0 DEF RowStep
      <3>2. CASE account[w].exists
        <4>0. 0 \in Day
          BY AccountsAssumption DEF Day
        <4>a. PICK x \in Row : x = account[w]
          BY <2>2
        <4> DEFINE e == [x EXCEPT !.link = n, !.linkAge = 0]
        <4>1. account' = [account EXCEPT ![w] = e]
          BY <1>5, <3>2, <1>0, <2>2, <4>a DEF SetLink
        <4>2. e \in Row /\ e.exists /\ (e.verified <=> account[w].verified)
              /\ e.age = account[w].age /\ e.link = n
              /\ e.password = account[w].password /\ e.recovery = account[w].recovery
          <5>1. e \in Row /\ e.exists = x.exists /\ e.verified = x.verified
                /\ e.age = x.age /\ e.link = n
                /\ e.password = x.password /\ e.recovery = x.recovery
            BY <4>0 DEF Row
          <5> HIDE DEF e
          <5> QED BY <5>1, <4>a, <3>2
        <4> HIDE DEF e
        <4>3. account'[w] = e => RowStep(n, w)
          BY <2>1, <3>2, <4>2 DEF RowStep
        <4> QED BY <4>1, <4>2, <4>3, <2>2, RowWritten
      <3> QED BY <3>1, <3>2
    <2> QED BY <2>1, <2>3, <2>4, <1>0, DevicesKeptStep DEF Writes
  <1>6. CASE Send(n)
    <2>1. Now(n) = "send" /\ account' = account /\ device' = device /\ written' = written
      BY <1>6 DEF Send, At
    <2>2. w \in Account
      BY <2>1, <1>w DEF Writing
    <2>3. pending' = [pending EXCEPT ![n] = IF account[w].link = n
                                            THEN [age |-> 0, of |-> w] ELSE pending[n]]
      BY <1>6, <1>0 DEF Send
    <2>4. [age |-> 0, of |-> w] \in [age : Day \cup {None}, of : Account \cup {None}]
      BY <2>2, AccountsAssumption DEF Day
    <2>5. pending' \in [Request -> [age : Day \cup {None}, of : Account \cup {None}]]
      BY <2>3, <2>4, <1>0
    <2>6. \A l \in Request : MailStep(n, l)
      BY <2>3, <2>1, <1>0 DEF MailStep
    <2>7. \A a \in Account : RowStep(n, a)
      BY <2>1 DEF RowStep
    <2> QED BY <2>1, <2>5, <2>6, <2>7, <1>0, DevicesKeptStep DEF Writes
  <1>7. CASE Issue(n)
    <2>1. Now(n) = "issue" /\ account' = account /\ pending' = pending /\ written' = written
          /\ device' = IF account[w].exists THEN [device EXCEPT ![n] = w] ELSE device
      BY <1>7 DEF Issue, At
    <2>2. w \in Account
      BY <2>1, <1>w DEF Writing
    <2>3. device' \in [Device -> Account \cup {None}]
      BY <2>1, <2>2, <1>0
    <2>4. \A d \in Device : DeviceStep(n, d)
      BY <2>1, <1>0 DEF DeviceStep
    <2>5. (\A a \in Account : RowStep(n, a)) /\ (\A l \in Request : MailStep(n, l))
      BY <2>1 DEF RowStep, MailStep
    <2> QED BY <2>1, <2>3, <2>4, <2>5, <1>0 DEF Writes
  <1>8. CASE SetSecret(n)
    <2>1. Now(n) \in {"setPassword", "setRecovery"} /\ device' = device /\ pending' = pending
          /\ written' = written
      BY <1>8 DEF SetSecret, At
    <2>2. w \in Account /\ account[w] \in Row
      BY <2>1, <1>w DEF Writing
    <2>a. PICK x \in Row : x = account[w]
      BY <2>2
    <2>3. account' \in [Account -> Row] /\ \A a \in Account : RowStep(n, a)
      <3>1. CASE ~account[w].exists
        <4>1. account' = account
          BY <1>8, <3>1 DEF SetSecret
        <4> QED BY <4>1, <1>0 DEF RowStep
      <3>2. CASE account[w].exists /\ Now(n) = "setPassword"
        <4> DEFINE e == [x EXCEPT !.password = n]
        <4>1. account' = [account EXCEPT ![w] = e]
          BY <1>8, <3>2, <1>0, <2>2, <2>a DEF SetSecret, At
        <4>2. e \in Row /\ e.exists = x.exists /\ e.verified = x.verified
              /\ e.age = x.age /\ e.link = x.link
              /\ e.password = n /\ e.recovery = x.recovery
          BY <1>0 DEF Row
        <4> HIDE DEF e
        <4>3. account'[w] = e => RowStep(n, w)
          BY <3>2, <4>2, <2>a DEF RowStep
        <4> QED BY <4>1, <4>2, <4>3, <2>2, RowWritten
      <3>3. CASE account[w].exists /\ Now(n) = "setRecovery"
        <4> DEFINE e == [x EXCEPT !.recovery = n]
        <4>1. account' = [account EXCEPT ![w] = e]
          BY <1>8, <3>3, <1>0, <2>2, <2>a DEF SetSecret, At
        <4>2. e \in Row /\ e.exists = x.exists /\ e.verified = x.verified
              /\ e.age = x.age /\ e.link = x.link
              /\ e.password = x.password /\ e.recovery = n
          BY <1>0 DEF Row
        <4> HIDE DEF e
        <4>3. account'[w] = e => RowStep(n, w)
          BY <3>3, <4>2, <2>a DEF RowStep
        <4> QED BY <4>1, <4>2, <4>3, <2>2, RowWritten
      <3> QED BY <2>1, <3>1, <3>2, <3>3
    <2>4. \A l \in Request : MailStep(n, l)
      BY <2>1 DEF MailStep
    <2> QED BY <2>1, <2>3, <2>4, <1>0, DevicesKeptStep DEF Writes
  <1>9. CASE Revoke(n)
    <2>1. Now(n) \in {"deleteOthers", "deleteDevice"} /\ account' = account
          /\ pending' = pending /\ written' = written
      BY <1>9 DEF Revoke, At
    <2>2. ASSUME Now(n) = "deleteOthers"
          PROVE  device' \in [Device -> Account \cup {None}] /\ \A d \in Device : DeviceStep(n, d)
      <3>1. device' = [d \in Device |-> IF device[d] = w /\ d # r.dev THEN None ELSE device[d]]
            /\ req' = [req EXCEPT ![n] = Forward(r)]
        BY <1>9, <2>2 DEF Revoke, At, Proceed
      <3>2. device' \in [Device -> Account \cup {None}]
        BY <3>1, <1>0
      <3>3. req'[n] = Forward(r)
        BY <3>1 DEF TInv, Typed1
      <3>4. \A d \in Device : DeviceStep(n, d)
        BY <3>1, <3>3, <2>2 DEF DeviceStep
      <3> QED BY <3>2, <3>4
    <2>3. ASSUME Now(n) = "deleteDevice"
          PROVE  device' \in [Device -> Account \cup {None}] /\ \A d \in Device : DeviceStep(n, d)
      <3> DEFINE t == r.target
      <3>1. device' = IF device[t] = w THEN [device EXCEPT ![t] = None] ELSE device
        BY <1>9, <2>3 DEF Revoke, At
      <3>2. device' \in [Device -> Account \cup {None}]
        BY <3>1, <1>0
      <3>3. device[t] = w => req' = [req EXCEPT ![n] = Forward(r)]
        BY <1>9, <2>3 DEF Revoke, At, ProceedOrStop
      <3>4. device[t] = w => req'[n] = Forward(r)
        BY <3>3 DEF TInv, Typed1
      <3>5. \A d \in Device : DeviceStep(n, d)
        BY <3>1, <3>4, <2>3, <1>0 DEF DeviceStep
      <3> QED BY <3>2, <3>5
    <2>4. device' \in [Device -> Account \cup {None}] /\ \A d \in Device : DeviceStep(n, d)
      BY <2>1, <2>2, <2>3
    <2>5. (\A a \in Account : RowStep(n, a)) /\ (\A l \in Request : MailStep(n, l))
      BY <2>1 DEF RowStep, MailStep
    <2> QED BY <2>1, <2>4, <2>5, <1>0 DEF Writes
  <1>10. CASE DeleteAccount(n) \/ Undo(n)
    <2>1. Now(n) \in {"deleteAccount", "undo"} /\ w \in Account /\ (Now(n) = "undo" => w = n)
      <3>1. Now(n) \in {"deleteAccount", "undo"}
        BY <1>10 DEF DeleteAccount, Undo, At
      <3> QED BY <3>1, WhoWrites DEF Writing
    <2>2. /\ account' = [account EXCEPT ![w] = NoRow]
          /\ device' = [d \in Device |-> IF device[d] = w THEN None ELSE device[d]]
          /\ pending' = Without(account[w].link) /\ written' = written
      <3>1. CASE DeleteAccount(n)
        BY <3>1 DEF DeleteAccount, Gone, DevicesWithout
      <3>2. CASE Undo(n)
        <4>1. w = n
          BY <2>1, <3>2 DEF Undo, At
        <4> QED BY <3>2, <4>1 DEF Undo, Gone, DevicesWithout
      <3> QED BY <1>10, <3>1, <3>2
    <2>3. NoRow \in Row /\ ~NoRow.exists /\ NoRow.age = 0 /\ NoRow.link = None
      BY Ended DEF NoRow
    <2>4. account' \in [Account -> Row] /\ \A a \in Account : RowStep(n, a)
      <3>1. account'[w] = NoRow => RowStep(n, w)
        BY <2>1, <2>3 DEF RowStep
      <3> QED BY <2>1, <2>2, <2>3, <3>1, RowWritten
    <2>5. pending' \in [Request -> [age : Day \cup {None}, of : Account \cup {None}]]
          /\ \A l \in Request : MailStep(n, l)
      BY <2>2, MailTaken
    <2>6. device' \in [Device -> Account \cup {None}]
      BY <2>2, <1>0
    <2>7. Now(n) = "deleteAccount" => (account[w].exists => req'[n] = Forward(r))
      <3>1. Now(n) = "deleteAccount" => DeleteAccount(n)
        BY <1>10 DEF Undo, At
      <3>2. DeleteAccount(n) /\ account[w].exists => req' = [req EXCEPT ![n] = Forward(r)]
        BY DEF DeleteAccount, ProceedOrStop
      <3> QED BY <3>1, <3>2 DEF TInv, Typed1
    <2>8. Now(n) = "undo" =>
            \A m \in Request \ {n} : Listening(m) /\ req[m].who = n => req'[m].late
      <3> SUFFICES ASSUME Now(n) = "undo", NEW m \in Request \ {n},
                          Listening(m), req[m].who = n
                   PROVE  req'[m].late
        OBVIOUS
      <3>1. Undo(n)
        BY <1>10 DEF DeleteAccount, At
      <3>2. req'[m] = [req[m] EXCEPT !.late = @ \/ (Listening(m) /\ req[m].who = n)]
        BY <3>1 DEF Undo
      <3>3. req[m] \in Ask
        BY Standing
      <3> QED BY <3>2, <3>3 DEF Ask
    <2>9. \A d \in Device : DeviceStep(n, d)
      <3> TAKE d \in Device
      <3>1. device'[d] = IF device[d] = w THEN None ELSE device[d]
        BY <2>2
      <3>2. device'[d] # w
        BY <3>1, <2>1 DEF Account, None
      <3>3. CASE device[d] = w /\ Now(n) = "undo"
        BY <3>1, <3>2, <3>3, <2>1, <2>8 DEF DeviceStep
      <3>4. CASE device[d] = w /\ Now(n) = "deleteAccount"
        BY <3>1, <3>2, <3>4, <2>1, <2>7 DEF DeviceStep
      <3>5. CASE device[d] # w
        BY <3>1, <3>2, <3>5 DEF DeviceStep
      <3> QED BY <2>1, <3>3, <3>4, <3>5
    <2> QED BY <2>2, <2>4, <2>5, <2>6, <2>9, <1>0 DEF Writes
  <1>11. CASE Mark(n)
    <2>1. Now(n) = "mark" /\ device' = device /\ written' = written
          /\ pending' = Without(account[w].link)
      BY <1>11 DEF Mark, At
    <2>2. w \in Account /\ account[w] \in Row
      BY <2>1, <1>w DEF Writing
    <2>3. pending' \in [Request -> [age : Day \cup {None}, of : Account \cup {None}]]
          /\ \A l \in Request : MailStep(n, l)
      BY <2>1, MailTaken
    <2>4. account' \in [Account -> Row] /\ \A a \in Account : RowStep(n, a)
      <3>1. CASE ~(account[w].exists /\ account[w].link # None)
        <4>1. account' = account
          BY <1>11, <3>1 DEF Mark
        <4> QED BY <4>1, <1>0 DEF RowStep
      <3>2. CASE account[w].exists /\ account[w].link # None
        <4>0. 0 \in Day
          BY AccountsAssumption DEF Day
        <4>a. PICK x \in Row : x = account[w]
          BY <2>2
        <4> DEFINE e == [x EXCEPT !.verified = TRUE, !.link = None, !.linkAge = 0, !.age = 0]
        <4>1. account' = [account EXCEPT ![w] = e]
          BY <1>11, <3>2, <1>0, <2>2, <4>a DEF Mark
        <4>2. e \in Row /\ e.exists = x.exists /\ e.verified
              /\ e.age = 0 /\ e.link = None
              /\ e.password = x.password /\ e.recovery = x.recovery
          BY <4>0 DEF Row
        <4> HIDE DEF e
        <4>3. account'[w] = e => RowStep(n, w)
          BY <2>1, <3>2, <4>2, <4>a DEF RowStep
        <4> QED BY <4>1, <4>2, <4>3, <2>2, RowWritten
      <3> QED BY <3>1, <3>2
    <2> QED BY <2>1, <2>3, <2>4, <1>0, DevicesKeptStep DEF Writes
  <1> QED
    BY <1>1, <1>2, <1>4, <1>5, <1>6, <1>7, <1>8, <1>9, <1>10, <1>11 DEF Serve

(* A day changes only ages, and only of accounts nobody has confirmed.      *)
RowAges(a) ==
    LET r == account[a]
        s == account'[a]
    IN  /\ (s.exists <=> r.exists) /\ (s.verified <=> r.verified) /\ s.link = r.link
        /\ s.password = r.password /\ s.recovery = r.recovery
        /\ s.age = IF r.exists /\ ~r.verified /\ ~(r.age > Lifetime) THEN r.age + 1 ELSE r.age

LEMMA DayStep ==
    ASSUME TInv, DayPasses
    PROVE  /\ account' \in [Account -> Row] /\ \A a \in Account : RowAges(a)
           /\ pending' \in [Request -> [age : Day \cup {None}, of : Account \cup {None}]]
           /\ \A l \in Request :
                pending'[l] = IF pending[l].age \in 0..Lifetime
                              THEN [pending[l] EXCEPT !.age = @ + 1] ELSE pending[l]
  <1>0. /\ account \in [Account -> Row]
        /\ pending \in [Request -> [age : Day \cup {None}, of : Account \cup {None}]]
    BY DEF TInv, Typed1
  <1>1. \A a \in Account : account'[a] \in Row /\ RowAges(a)
    <2> TAKE a \in Account
    <2>1. PICK r \in Row : r = account[a]
      BY <1>0
    <2>2. account'[a] = IF r.exists /\ ~r.verified
              THEN [r EXCEPT !.age = IF @ > Lifetime THEN @ ELSE @ + 1,
                             !.linkAge = IF r.link = None \/ @ > Lifetime THEN @ ELSE @ + 1]
              ELSE r
      BY <2>1 DEF DayPasses
    <2>3. CASE r.exists /\ ~r.verified
      <3> DEFINE x == IF r.age > Lifetime THEN r.age ELSE r.age + 1
                 y == IF r.link = None \/ r.linkAge > Lifetime THEN r.linkAge ELSE r.linkAge + 1
      <3>1. x \in Day /\ y \in Day
        BY AccountsAssumption DEF Row, Day
      <3>2. account'[a] = [r EXCEPT !.age = x, !.linkAge = y]
        BY <2>2, <2>3
      <3>3. x = IF r.exists /\ ~r.verified /\ ~(r.age > Lifetime) THEN r.age + 1 ELSE r.age
        BY <2>3
      <3> HIDE DEF x, y
      <3>4. [r EXCEPT !.age = x, !.linkAge = y] \in Row
            /\ [r EXCEPT !.age = x, !.linkAge = y].exists = r.exists
            /\ [r EXCEPT !.age = x, !.linkAge = y].verified = r.verified
            /\ [r EXCEPT !.age = x, !.linkAge = y].age = x
            /\ [r EXCEPT !.age = x, !.linkAge = y].link = r.link
            /\ [r EXCEPT !.age = x, !.linkAge = y].password = r.password
            /\ [r EXCEPT !.age = x, !.linkAge = y].recovery = r.recovery
        BY <3>1 DEF Row
      <3>5. PICK s : s = [r EXCEPT !.age = x, !.linkAge = y]
        OBVIOUS
      <3>6. s \in Row /\ s.exists = r.exists /\ s.verified = r.verified /\ s.age = x
            /\ s.link = r.link /\ s.password = r.password /\ s.recovery = r.recovery
            /\ account'[a] = s
        BY <3>2, <3>4, <3>5
      <3> QED BY <3>6, <3>3, <2>1 DEF RowAges
    <2>4. CASE ~(r.exists /\ ~r.verified)
      BY <2>1, <2>2, <2>4 DEF RowAges
    <2> QED BY <2>3, <2>4
  <1>2. account' \in [Account -> Row]
    BY <1>1 DEF DayPasses
  <1>3. \A l \in Request :
          /\ pending'[l] = IF pending[l].age \in 0..Lifetime
                           THEN [pending[l] EXCEPT !.age = @ + 1] ELSE pending[l]
          /\ pending'[l] \in [age : Day \cup {None}, of : Account \cup {None}]
    <2> TAKE l \in Request
    <2>1. PICK q \in [age : Day \cup {None}, of : Account \cup {None}] : q = pending[l]
      BY <1>0
    <2>2. pending'[l] = IF q.age \in 0..Lifetime THEN [q EXCEPT !.age = @ + 1] ELSE q
      BY <2>1 DEF DayPasses
    <2>3. q.age \in 0..Lifetime => q.age + 1 \in Day
      BY AccountsAssumption DEF Day
    <2> QED BY <2>1, <2>2, <2>3
  <1>4. pending' \in [Request -> [age : Day \cup {None}, of : Account \cup {None}]]
    <2>1. DOMAIN pending' = Request /\ pending' = [l \in Request |-> pending'[l]]
      BY DEF DayPasses
    <2> QED BY <1>3, <2>1
  <1> QED BY <1>1, <1>2, <1>3, <1>4

LEMMA SweepStep ==
    ASSUME TInv, SweepUnverified
    PROVE  /\ account' \in [Account -> Row]
           /\ device' \in [Device -> Account \cup {None}]
           /\ \A a \in Account :
                \/ ~Expired(a) /\ account'[a] = account[a]
                \/ /\ Expired(a) /\ account'[a] = NoRow
                   /\ ~account'[a].exists /\ account'[a].link = None /\ account'[a].age = 0
           /\ \A d \in Device :
                \/ device'[d] = device[d] /\ (device[d] # None => ~Expired(device[d]))
                \/ device'[d] = None /\ device[d] # None /\ Expired(device[d])
  <1>0. /\ account \in [Account -> Row] /\ device \in [Device -> Account \cup {None}]
        /\ NoRow \in Row /\ ~NoRow.exists /\ NoRow.link = None /\ NoRow.age = 0
    BY Ended DEF TInv, Typed1, NoRow
  <1>1. account' = [a \in Account |-> IF Expired(a) THEN NoRow ELSE account[a]]
    BY DEF SweepUnverified
  <1>2. device' = [d \in Device |->
                    IF device[d] # None /\ Expired(device[d]) THEN None ELSE device[d]]
    BY DEF SweepUnverified
  <1> QED BY <1>0, <1>1, <1>2

-----------------------------------------------------------------------------
(* --- every step, in one place --------------------------------------------- *)

Rest == UNCHANGED <<account, device, pending, written>>

LEMMA StepKinds ==
    ASSUME TInv, [Next]_vars
    PROVE  \/ (\E n \in Request : Came(n)) /\ Rest
           \/ \E n \in Request :
                 /\ req[n].kind # "over" /\ n <= begun /\ Served(n)
                 /\ begun' = begun /\ remembered' = remembered
                 /\ \/ Serve(n) /\ Writes(n)
                    \/ Fail(n) /\ Rest
           \/ SweepUnverified
           \/ DayPasses
           \/ Forget
           \/ UNCHANGED vars
  <1>1. CASE Arrive
    BY <1>1, Arriving DEF Rest, Arrive
  <1>2. ASSUME NEW n \in Request, Serve(n)
        PROVE  /\ req[n].kind # "over" /\ n <= begun /\ Served(n)
               /\ begun' = begun /\ remembered' = remembered
               /\ Writes(n)
    <2>1. begun' = begun /\ remembered' = remembered
      BY <1>2 DEF Serve, Find, ResolveDevice, ResolveAccount, Check, Create, SetLink,
                  Send, Undo, Issue, SetSecret, Revoke, DeleteAccount, Answer, ByLink, Mark,
                  Subscribe, EndStreams
    <2> QED BY <2>1, <1>2, Serving, WritesStep
  <1>3. ASSUME NEW n \in Request, Fail(n)
        PROVE  /\ req[n].kind # "over" /\ n <= begun /\ Served(n)
               /\ begun' = begun /\ remembered' = remembered
               /\ Rest
    <2>1. begun' = begun /\ remembered' = remembered /\ Rest
      BY <1>3 DEF Fail, Rest
    <2> QED BY <2>1, <1>3, Serving
  <1> QED BY <1>1, <1>2, <1>3 DEF Next

LEMMA TInvInit == Init => TInv
  <1> SUFFICES ASSUME Init PROVE TInv
    OBVIOUS
  <1>1. PICK there \in BOOLEAN :
          /\ account = [a \in Account |->
                IF a = 0 /\ there
                THEN [NoRow EXCEPT !.exists = TRUE, !.verified = TRUE,
                                   !.password = 0, !.recovery = 0]
                ELSE NoRow]
          /\ device = [d \in Device |-> IF d = 0 /\ there THEN 0 ELSE None]
    BY DEF Init
  <1>2. 0 \in Account /\ 0 \in Device /\ 0 \in 0..MaxRequests
    BY AccountsAssumption DEF Account, Device
  <1>3. account \in [Account -> Row]
    <2>1. PICK x \in Row : x = NoRow
      BY Ended
    <2>2. [x EXCEPT !.exists = TRUE, !.verified = TRUE, !.password = 0, !.recovery = 0] \in Row
      BY <1>2 DEF Row
    <2> QED BY <1>1, <2>1, <2>2
  <1>4. device \in [Device -> Account \cup {None}]
    BY <1>1, <1>2
  <1>5. NoMail \in [age : Day \cup {None}, of : Account \cup {None}]
    BY DEF NoMail
  <1>6. Typed1
    BY <1>2, <1>3, <1>4, <1>5, Ended DEF Init, Typed1
  <1>7. ASSUME NEW n \in Request PROVE Knows(n)
    <2>1. req[n] = Over
      BY DEF Init
    <2> QED BY <2>1, Ended DEF Knows, Made, Tokened
  <1> QED BY <1>6, <1>7 DEF TInv

LEMMA TInvStep == TInv /\ [Next]_vars => TInv'
  <1> SUFFICES ASSUME TInv, [Next]_vars PROVE TInv'
    OBVIOUS
  <1>1. \A n \in Request : Knows(n)'
    BY NextMoves, KnowsStep
  <1>2. Typed1'
    <2>0. Typed1 /\ Request \subseteq Account
      BY DEF TInv, Request, Account
    <2>1. CASE (\E n \in Request : Came(n)) /\ Rest
      <3>1. PICK n \in Request : Came(n)
        BY <2>1
      <3>2. begun' = n /\ n \in 0..MaxRequests /\ req' \in [Request -> Ask]
            /\ remembered' \subseteq remembered \cup {n}
        BY <3>1 DEF Came, Request
      <3> QED BY <2>0, <2>1, <3>2 DEF Typed1, Rest
    <2>2. ASSUME NEW n \in Request, Served(n), begun' = begun, remembered' = remembered,
                 Writes(n) \/ Rest
          PROVE  Typed1'
      <3>1. req' \in [Request -> Ask]
        BY <2>2 DEF Served
      <3>2. CASE Writes(n)
        BY <3>1, <3>2, <2>0, <2>2 DEF Writes, Typed1
      <3>3. CASE Rest
        BY <3>1, <3>3, <2>0, <2>2 DEF Rest, Typed1
      <3> QED BY <2>2, <3>2, <3>3
    <2>3. CASE SweepUnverified
      <3>1. UNCHANGED <<req, begun, pending, remembered, written>>
        BY <2>3 DEF SweepUnverified
      <3> QED BY <3>1, <2>0, <2>3, SweepStep DEF Typed1
    <2>4. CASE DayPasses
      <3>1. UNCHANGED <<device, req, begun, remembered, written>>
        BY <2>4 DEF DayPasses
      <3>2. /\ account' \in [Account -> Row]
            /\ pending' \in [Request -> [age : Day \cup {None}, of : Account \cup {None}]]
        BY <2>4, DayStep
      <3> QED BY <3>1, <3>2, <2>0 DEF Typed1
    <2>5. CASE Forget
      BY <2>5, <2>0 DEF Forget, Typed1
    <2>6. CASE UNCHANGED vars
      BY <2>6, <2>0 DEF vars, Typed1
    <2> QED BY <2>1, <2>2, <2>3, <2>4, <2>5, <2>6, StepKinds
  <1> QED BY <1>1, <1>2 DEF TInv

-----------------------------------------------------------------------------
(* --- no orphans ------------------------------------------------------------ *)

Parented == \A d \in Device : device[d] # None => account[device[d]].exists

LEMMA ParentedStep == TInv /\ Parented /\ [Next]_vars => Parented'
  <1> SUFFICES ASSUME TInv, Parented, [Next]_vars, NEW d \in Device, device'[d] # None
               PROVE  account'[device'[d]].exists
    BY DEF Parented
  <1>0. device \in [Device -> Account \cup {None}]
    BY DEF TInv, Typed1
  <1>1. CASE Rest \/ UNCHANGED vars \/ Forget
    BY <1>1 DEF Rest, vars, Forget, Parented
  <1>2. ASSUME NEW n \in Request, Writes(n)
        PROVE  account'[device'[d]].exists
    <2>1. DeviceStep(n, d)
      BY <1>2 DEF Writes
    <2>2. CASE device'[d] = device[d]
      <3>1. PICK a \in Account : a = device[d]
        BY <2>2, <1>0
      <3>2. account[a].exists /\ RowStep(n, a)
        BY <3>1, <2>2, <1>2 DEF Parented, Writes
      <3>3. Now(n) \in {"undo", "deleteAccount"} => a # req[n].who
        BY <2>1, <2>2, <3>1 DEF DeviceStep
      <3>4. account'[a].exists
        BY <3>2, <3>3 DEF RowStep
      <3> QED BY <3>1, <3>4, <2>2
    <2>3. CASE Now(n) = "issue" /\ device'[d] = req[n].who /\ account[req[n].who].exists
      <3>1. PICK a \in Account : a = req[n].who
        BY <2>3, WhoWrites DEF Writing
      <3>2. RowStep(n, a)
        BY <1>2 DEF Writes
      <3>3. account'[a].exists
        BY <3>1, <3>2, <2>3 DEF RowStep
      <3> QED BY <3>1, <3>3, <2>3
    <2> QED BY <2>1, <2>2, <2>3 DEF DeviceStep
  <1>3. CASE SweepUnverified
    <2>1. device'[d] = device[d] /\ ~Expired(device[d])
      BY <1>3, SweepStep
    <2>2. device[d] \in Account
      BY <2>1, <1>0
    <2>3. account'[device[d]] = account[device[d]]
      BY <1>3, <2>1, <2>2, SweepStep
    <2> QED BY <2>1, <2>3 DEF Parented
  <1>4. CASE DayPasses
    <2>1. device' = device /\ device[d] \in Account
      BY <1>4, <1>0 DEF DayPasses
    <2>2. RowAges(device[d])
      BY <1>4, <2>1, DayStep
    <2> QED BY <2>1, <2>2 DEF RowAges, Parented
  <1> QED BY <1>1, <1>2, <1>3, <1>4, StepKinds

LEMMA TypeOKFollows == TInv => TypeOK
  <1> SUFFICES ASSUME TInv PROVE TypeOK
    OBVIOUS
  <1>1. ASSUME NEW n \in Request
        PROVE  /\ req[n].kind \in Kind \/ req[n] = Over
               /\ Now(n) = "over" => req[n] = Over
               /\ \A i \in 1..Len(req[n].todo) : req[n].todo[i] \in Step
               /\ req[n].who \in Account \cup {None}
               /\ req[n].row \in Row
               /\ {req[n].dev, req[n].target} \subseteq Device \cup {None}
    <2>1. req[n] \in Ask
      BY Standing
    <2>2. \A i \in 1..Len(req[n].todo) : req[n].todo[i] \in Step
      <3>1. req[n].todo \in Seq(Step)
        BY <2>1 DEF Ask
      <3> QED BY <3>1
    <2>3. /\ req[n].who \in Account \cup {None} /\ req[n].row \in Row
          /\ {req[n].dev, req[n].target} \subseteq Device \cup {None}
      BY <2>1 DEF Ask
    <2>4. (req[n].kind \in Kind \/ req[n] = Over) /\ (Now(n) = "over" => req[n] = Over)
      BY Standing
    <2> QED BY <2>2, <2>3, <2>4
  <1> QED BY <1>1 DEF TypeOK, TInv, Typed1

LEMMA ParentedInit == Init => Parented
  <1> SUFFICES ASSUME Init, NEW d \in Device, device[d] # None
               PROVE  account[device[d]].exists
    BY DEF Parented
  <1>1. PICK there \in BOOLEAN :
          /\ account = [a \in Account |->
                IF a = 0 /\ there
                THEN [NoRow EXCEPT !.exists = TRUE, !.verified = TRUE,
                                   !.password = 0, !.recovery = 0]
                ELSE NoRow]
          /\ device = [e \in Device |-> IF e = 0 /\ there THEN 0 ELSE None]
    BY DEF Init
  <1>2. 0 \in Account
    BY AccountsAssumption DEF Account
  <1>3. there /\ device[d] = 0
    BY <1>1
  <1>4. PICK x \in Row : x = NoRow
    BY Ended
  <1>5. account[0] = [x EXCEPT !.exists = TRUE, !.verified = TRUE,
                               !.password = 0, !.recovery = 0]
    BY <1>1, <1>2, <1>3, <1>4
  <1>6. account[0].exists
    BY <1>5 DEF Row
  <1> QED BY <1>3, <1>6

(* Whatever the handlers of any number of requests have done, interrupted   *)
(* each other in or failed to do, every device in the table is of an        *)
(* account that exists (api.go, verify.go; store.go's foreign key).         *)
THEOREM AccountsNoOrphans == Spec => []NoOrphans
  <1>1. Init => TInv /\ Parented
    BY TInvInit, ParentedInit
  <1>2. TInv /\ Parented /\ [Next]_vars => (TInv /\ Parented)'
    BY TInvStep, ParentedStep
  <1>3. TInv /\ Parented => NoOrphans
    BY TypeOKFollows DEF NoOrphans, Parented
  <1> QED BY <1>1, <1>2, <1>3, PTL DEF Spec

-----------------------------------------------------------------------------
(* --- nobody is locked out --------------------------------------------------- *)

(* What is about to be done tells whose handler it is.                      *)
LEMMA NowTells ==
    ASSUME TInv, NEW n \in Request, Now(n) \notin {"over", "undo"}
    PROVE  /\ req[n].kind \in Kind /\ Left(req[n]) \in 1..Len(Steps[req[n].kind])
           /\ Facts(req[n].kind, Left(req[n]), Now(n))
  <1>1. Facts(req[n].kind, Left(req[n]), Now(n)) => Now(n) # "undo"
    BY DEF Facts
  <1> QED BY <1>1, Standing

LEMMA KindTells ==
    ASSUME TInv, NEW n \in Request, req[n].kind \notin {"over", "register"}
    PROVE  /\ Now(n) \notin {"over", "undo"}
           /\ req[n].kind \in Kind /\ Left(req[n]) \in 1..Len(Steps[req[n].kind])
           /\ Facts(req[n].kind, Left(req[n]), Now(n))
  <1>1. Facts(req[n].kind, Left(req[n]), Now(n)) => Now(n) # "undo"
    BY DEF Facts
  <1> QED BY <1>1, Standing

(* The person of a handler that sets a password has not forgotten it.       *)
Minded == \A n \in Request :
            req[n].kind \in {"register", "recover", "change"} => n \in remembered

(* The code on paper is spent only when the new password works.             *)
Covered == \A n \in Request :
             req[n].kind = "recover" /\ Left(req[n]) = 6 /\ account[req[n].who].exists
                => account[req[n].who].password \in remembered

LEMMA MindedStep == TInv /\ Minded /\ [Next]_vars => Minded'
  <1> SUFFICES ASSUME TInv, Minded, [Next]_vars, NEW m \in Request,
                      req'[m].kind \in {"register", "recover", "change"}
               PROVE  m \in remembered'
    BY DEF Minded
  <1>1. ASSUME NEW n \in Request, Came(n) PROVE m \in remembered'
    <2>1. CASE m = n
      BY <1>1, <2>1 DEF Came
    <2>2. CASE m # n
      BY <1>1, <2>2 DEF Came, Minded
    <2> QED BY <2>1, <2>2
  <1>2. ASSUME NEW n \in Request, Served(n), remembered' = remembered
        PROVE  m \in remembered'
    <2>1. CASE m = n
      <3>1. req[m].kind = req'[m].kind
        <4>1. PICK s : s = req'[n]
          OBVIOUS
        <4>2. Moved(n, s) /\ s # Over
          BY <4>1, <1>2, <2>1, Ended DEF Served
        <4> QED BY <4>1, <4>2, <2>1 DEF Moved
      <3> QED BY <3>1, <1>2 DEF Minded
    <2>2. CASE m # n
      <3>1. Waits(m, req'[m])
        BY <1>2, <2>2 DEF Served
      <3>2. req'[m] # Over
        BY Ended
      <3>3. CASE req'[m] = req[m]
        BY <3>3, <1>2 DEF Minded
      <3>4. CASE req'[m] = [req[m] EXCEPT !.late = TRUE]
        <4>1. req[m] \in Ask
          BY Standing
        <4>2. req'[m].kind = req[m].kind
          BY <3>4, <4>1 DEF Ask
        <4> QED BY <4>2, <1>2 DEF Minded
      <3> QED BY <3>1, <3>2, <3>3, <3>4 DEF Waits
    <2> QED BY <2>1, <2>2
  <1>3. CASE SweepUnverified \/ DayPasses \/ UNCHANGED vars
    BY <1>3 DEF SweepUnverified, DayPasses, vars, Minded
  <1>4. CASE Forget
    <2>1. req' = req /\ Now(m) \in {"over", "listen"}
      BY <1>4 DEF Forget, Busy
    <2>2. req[m].kind # "over"
      BY <2>1, Programs
    <2>3. Now(m) = "listen"
      BY <2>1, <2>2, Standing
    <2>4. req[m].kind = "stream"
      BY <2>3, NowTells DEF Facts
    <2> QED BY <2>1, <2>4
  <1> QED BY <1>1, <1>2, <1>3, <1>4, StepKinds

(* A row whose password changes takes one its person minds.                 *)
LEMMA PasswordMinded ==
    ASSUME TInv, Minded, NEW n \in Request, Writes(n), NEW a \in Account, account'[a].exists
    PROVE  \/ account[a].exists /\ account'[a].password = account[a].password
           \/ n \in remembered /\ account'[a].password = n
  <1>1. RowStep(n, a)
    BY DEF Writes
  <1>2. Now(n) = "create" => n \in remembered
    <2>1. Now(n) = "create" => req[n].kind = "register"
      BY NowTells DEF Facts
    <2> QED BY <2>1 DEF Minded
  <1>3. Now(n) = "setPassword" => n \in remembered
    <2>1. Now(n) = "setPassword" => req[n].kind \in {"recover", "change"}
      BY NowTells DEF Facts
    <2> QED BY <2>1 DEF Minded
  <1> QED BY <1>1, <1>2, <1>3 DEF RowStep

LEMMA CoveredStep == TInv /\ Minded /\ Covered /\ [Next]_vars => Covered'
  <1> SUFFICES ASSUME TInv, Minded, Covered, [Next]_vars, NEW m \in Request,
                      req'[m].kind = "recover", Left(req'[m]) = 6,
                      account'[req'[m].who].exists
               PROVE  account'[req'[m].who].password \in remembered'
    BY DEF Covered
  <1>a. TInv'
    BY TInvStep
  <1>b. req'[m].who \in Account
    <2>1. Knows(m)'
      BY <1>a DEF TInv
    <2>2. Left(req'[m]) < Len(Steps[req'[m].kind]) /\ req'[m].kind \in Kind \ {"register"}
      BY Lengths, Programs
    <2> QED BY <2>1, <2>2 DEF Knows, Past
  <1>1. ASSUME NEW n \in Request, Came(n), Rest PROVE account'[req'[m].who].password \in remembered'
    <2>1. m # n
      <3>1. Left(req'[n]) = Len(Steps[req'[n].kind])
        BY <1>1 DEF Came
      <3>2. CASE m = n
        <4>1. Left(req'[m]) = 11
          BY <3>1, <3>2, Lengths
        <4> QED BY <4>1
      <3> QED BY <3>2
    <2>2. req'[m] = req[m] /\ account' = account /\ remembered \subseteq remembered'
      BY <1>1, <2>1 DEF Came, Rest
    <2> QED BY <2>2 DEF Covered
  <1>2. ASSUME NEW n \in Request, n # m, Served(n), remembered' = remembered,
               Writes(n) \/ Rest
        PROVE  account'[req'[m].who].password \in remembered'
    <2>1. req'[m].who = req[m].who /\ req[m].kind = "recover" /\ Left(req[m]) = 6
      <3>1. Waits(m, req'[m]) /\ req'[m] # Over
        BY <1>2, Ended DEF Served
      <3>2. Listening(m) => req[m].kind = "stream"
        BY NowTells DEF Facts, Listening
      <3>3. req[m] \in Ask
        BY Standing
      <3>4. req'[m] = req[m]
        <4>1. CASE req'[m] = [req[m] EXCEPT !.late = TRUE] /\ Listening(m)
          BY <4>1, <3>2, <3>3 DEF Ask
        <4> QED BY <3>1, <4>1 DEF Waits
      <3> QED BY <3>4
    <2>2. PICK a \in Account : a = req'[m].who
      BY <1>b
    <2>3. CASE Writes(n)
      <3>1. \/ account[a].exists /\ account'[a].password = account[a].password
            \/ n \in remembered /\ account'[a].password = n
        BY <2>2, <2>3, PasswordMinded
      <3> QED BY <3>1, <2>1, <2>2, <1>2 DEF Covered
    <2>4. CASE Rest
      BY <2>1, <2>2, <2>4, <1>2 DEF Rest, Covered
    <2> QED BY <1>2, <2>3, <2>4
  <1>3. ASSUME Served(m), remembered' = remembered, Serve(m) \/ Fail(m)
        PROVE  account'[req'[m].who].password \in remembered'
    <2>1. PICK s : s = req'[m]
      OBVIOUS
    <2>2. PICK r : r = req[m]
      OBVIOUS
    <2>3. Moved(m, s) /\ s.kind = "recover" /\ Left(s) = 6 /\ s # Over
      BY <2>1, <1>3, Ended DEF Served
    <2>4. r.kind = "recover" /\ 6 = Left(r) - 1 /\ Learns(m, s)
      BY <2>2, <2>3 DEF Moved
    <2>5. Left(r) = 7
      <3>1. Left(r) \in 1..Len(Steps[r.kind]) /\ Len(Steps[r.kind]) = 11
        BY <2>2, <2>4, KindTells, Lengths
      <3> QED BY <3>1, <2>4
    <2>6. Now(m) = "setPassword"
      BY <2>2, <2>4, <2>5, KindTells DEF Facts
    <2>7. s.who = r.who
      BY <2>2, <2>4, <2>6 DEF Learns
    <2>8. SetSecret(m)
      <3>1. ~Fail(m)
        <4>1. Fail(m) => req' = [req EXCEPT ![m] = Over]
          BY <2>6 DEF Fail
        <4>2. req \in [Request -> Ask]
          BY DEF TInv, Typed1
        <4> QED BY <4>1, <4>2, <2>1, <2>3
      <3> QED
        BY <1>3, <2>6, <3>1
           DEF Serve, Find, ResolveDevice, ResolveAccount, Check, Create, SetLink, Send, Undo,
               Issue, Revoke, DeleteAccount, Answer, ByLink, Mark, Subscribe, EndStreams, At
    <2>9. account' = IF account[r.who].exists THEN [account EXCEPT ![r.who].password = m]
                     ELSE account
      BY <2>8, <2>6, <2>2 DEF SetSecret, At
    <2>10. account \in [Account -> Row] /\ r.who \in Account
      BY <1>b, <2>1, <2>7 DEF TInv, Typed1
    <2>11. account'[r.who].password = m
      <3>1. account'[r.who].exists
        BY <2>1, <2>7
      <3>2. account[r.who].exists
        BY <2>9, <3>1
      <3>3. PICK x \in Row : x = account[r.who]
        BY <2>10
      <3>4. account'[r.who] = [x EXCEPT !.password = m]
        BY <2>9, <2>10, <3>2, <3>3
      <3> QED BY <3>4 DEF Row
    <2>12. m \in remembered
      BY <2>2, <2>4 DEF Minded
    <2> QED BY <2>1, <2>7, <2>11, <2>12, <1>3
  <1>4. CASE SweepUnverified
    <2>1. req' = req /\ remembered' = remembered
      BY <1>4 DEF SweepUnverified
    <2>2. account'[req[m].who] = account[req[m].who]
      BY <1>4, <1>b, <2>1, SweepStep
    <2> QED BY <2>1, <2>2 DEF Covered
  <1>5. CASE DayPasses
    <2>1. req' = req /\ remembered' = remembered
      BY <1>5 DEF DayPasses
    <2>2. RowAges(req[m].who)
      BY <1>5, <1>b, <2>1, DayStep
    <2> QED BY <2>1, <2>2 DEF Covered, RowAges
  <1>6. CASE Forget
    <2>1. req' = req /\ Now(m) \in {"over", "listen"}
      BY <1>6 DEF Forget, Busy
    <2>2. Now(m) = "setRecovery"
      BY <2>1, KindTells DEF Facts
    <2> QED BY <2>1, <2>2
  <1>7. CASE UNCHANGED vars
    BY <1>7 DEF vars, Covered
  <1> QED BY <1>1, <1>2, <1>3, <1>4, <1>5, <1>6, <1>7, StepKinds

LEMMA NeverLockedOutStep ==
    TInv /\ Minded /\ Covered /\ NeverLockedOut /\ [Next]_vars => NeverLockedOut'
  <1> SUFFICES ASSUME TInv, Minded, Covered, NeverLockedOut, [Next]_vars,
                      NEW a \in Account, account'[a].exists
               PROVE  \/ account'[a].password \in remembered'
                      \/ account'[a].recovery \in written'
    BY DEF NeverLockedOut
  <1>1. ASSUME NEW n \in Request, Came(n), Rest
        PROVE  \/ account'[a].password \in remembered'
               \/ account'[a].recovery \in written'
    <2>1. remembered \subseteq remembered' /\ account' = account /\ written' = written
      BY <1>1 DEF Came, Rest
    <2> QED BY <2>1 DEF NeverLockedOut
  <1>2. ASSUME NEW n \in Request, remembered' = remembered, Writes(n)
        PROVE  \/ account'[a].password \in remembered'
               \/ account'[a].recovery \in written'
    <2>1. RowStep(n, a) /\ written \subseteq written'
      BY <1>2 DEF Writes
    <2>2. CASE n \in remembered /\ account'[a].password = n
      BY <2>2, <1>2
    <2>3. CASE account[a].exists /\ account'[a].password = account[a].password
      <3>1. CASE Now(n) = "setRecovery" /\ a = req[n].who
        <4>1. req[n].kind = "recover" /\ Left(req[n]) = 6
          BY <3>1, NowTells DEF Facts
        <4> QED BY <4>1, <3>1, <2>3, <1>2 DEF Covered
      <3>2. CASE account'[a].recovery = account[a].recovery
        BY <3>2, <2>1, <2>3, <1>2 DEF NeverLockedOut
      <3> QED BY <2>1, <2>3, <3>1, <3>2 DEF RowStep
    <2> QED BY <2>2, <2>3, <1>2, PasswordMinded
  <1>3. CASE Rest /\ remembered' = remembered
    BY <1>3 DEF Rest, NeverLockedOut
  <1>4. CASE SweepUnverified
    BY <1>4, SweepStep DEF SweepUnverified, NeverLockedOut
  <1>5. CASE DayPasses
    <2>1. RowAges(a) /\ remembered' = remembered /\ written' = written
      BY <1>5, DayStep DEF DayPasses
    <2> QED BY <2>1 DEF RowAges, NeverLockedOut
  <1>6. CASE Forget
    BY <1>6 DEF Forget, NeverLockedOut
  <1>7. CASE UNCHANGED vars
    BY <1>7 DEF vars, NeverLockedOut
  <1> QED BY <1>1, <1>2, <1>3, <1>4, <1>5, <1>6, <1>7, StepKinds

(* handleRecover's order: the owner of an account always has a password     *)
(* they remember or a code they were shown, however many recoveries and     *)
(* changes of password run at once, and wherever they are interrupted.      *)
THEOREM AccountsNeverLockedOut == Spec => []NeverLockedOut
  <1>1. Init => TInv /\ Minded /\ Covered /\ NeverLockedOut
    <2> SUFFICES ASSUME Init PROVE TInv /\ Minded /\ Covered /\ NeverLockedOut
      OBVIOUS
    <2>1. Minded /\ Covered
      <3>1. \A n \in Request : req[n] = Over
        BY DEF Init
      <3> QED BY <3>1, Ended DEF Minded, Covered
    <2>2. NeverLockedOut
      <3> SUFFICES ASSUME NEW a \in Account, account[a].exists
                   PROVE  account[a].password \in remembered
        BY DEF NeverLockedOut
      <3>1. PICK there \in BOOLEAN :
              account = [b \in Account |->
                    IF b = 0 /\ there
                    THEN [NoRow EXCEPT !.exists = TRUE, !.verified = TRUE,
                                       !.password = 0, !.recovery = 0]
                    ELSE NoRow]
        BY DEF Init
      <3>2. PICK x \in Row : x = NoRow /\ ~x.exists
        BY Ended DEF NoRow
      <3>3. account[a] = [x EXCEPT !.exists = TRUE, !.verified = TRUE,
                                   !.password = 0, !.recovery = 0]
        BY <3>1, <3>2
      <3>4. account[a].password = 0
        BY <3>3 DEF Row
      <3> QED BY <3>4 DEF Init
    <2> QED BY <2>1, <2>2, TInvInit
  <1>2. TInv /\ Minded /\ Covered /\ NeverLockedOut /\ [Next]_vars
           => (TInv /\ Minded /\ Covered /\ NeverLockedOut)'
    BY TInvStep, MindedStep, CoveredStep, NeverLockedOutStep
  <1> QED BY <1>1, <1>2, PTL DEF Spec

-----------------------------------------------------------------------------
(* --- one request over one step ---------------------------------------------- *)

(* The same as before, but perhaps left behind. *)
Stays(m) ==
    /\ req'[m].kind = req[m].kind /\ req'[m].todo = req[m].todo
    /\ req'[m].who = req[m].who /\ req'[m].dev = req[m].dev
    /\ req'[m].target = req[m].target
    /\ req[m].late => req'[m].late

GoesOn1(m) ==
    /\ Left(req[m]) # 1 /\ req'[m].kind = req[m].kind
    /\ Left(req'[m]) = Left(req[m]) - 1
    /\ req'[m].target = req[m].target /\ Learns(m, req'[m])

GoesBack(m) ==
    /\ req[m].kind = "register" /\ Left(req[m]) \in {3, 4}
    /\ req'[m].kind = "register" /\ Left(req'[m]) = 1 /\ req'[m].who = req[m].who

(* Request m over a step in which request n is served. *)
LEMMA MoveOf ==
    ASSUME TInv, NEW n \in Request, Served(n), NEW m \in Request
    PROVE  \/ req'[m] = Over /\ (m = n \/ Listening(m))
           \/ Stays(m) /\ m # n
           \/ m = n /\ (GoesOn1(m) \/ GoesBack(m))
  <1>1. CASE m = n
    <2>1. Moved(n, req'[n])
      BY DEF Served
    <2>2. PICK s : s = req'[n]
      OBVIOUS
    <2>3. PICK r : r = req[n]
      OBVIOUS
    <2>4. \/ s = Over
          \/ /\ r.kind = "register" /\ Left(r) \in {3, 4}
             /\ s.kind = "register" /\ Left(s) = 1 /\ s.who = r.who
          \/ /\ Left(r) # 1 /\ s.kind = r.kind /\ Left(s) = Left(r) - 1
             /\ s.target = r.target
             /\ Learns(n, s)
      BY <2>1, <2>2, <2>3 DEF Moved
    <2> QED BY <2>2, <2>3, <2>4, <1>1 DEF GoesOn1, GoesBack
  <1>2. CASE m # n
    <2>1. Waits(m, req'[m]) /\ req[m] \in Ask
      BY <1>2, Standing DEF Served
    <2>2. CASE req'[m] = [req[m] EXCEPT !.late = TRUE]
      BY <2>1, <2>2, <1>2 DEF Stays, Ask
    <2>3. CASE req'[m] = req[m]
      BY <2>3, <1>2 DEF Stays
    <2> QED BY <2>1, <2>2, <2>3 DEF Waits
  <1> QED BY <1>1, <1>2

(* What the next step will be, after a step. *)
LEMMA NextTells ==
    ASSUME TInv, [Next]_vars, NEW m \in Request
    PROVE  /\ req'[m] \in Ask
           /\ req'[m].kind \notin {"over", "register"} =>
                Facts(req'[m].kind, Left(req'[m]), Now(m)')
           /\ Now(m)' = "listen" => req'[m].kind = "stream" /\ Left(req'[m]) = 1
  <1>1. PICK s : s = req'[m]
    OBVIOUS
  <1>2. PICK now : now = Now(m)'
    OBVIOUS
  <1>3. s \in Ask /\ Sound(s)
    <2>1. TInv'
      BY TInvStep
    <2>2. Typed1' /\ Knows(m)'
      BY <2>1 DEF TInv
    <2> QED BY <2>2, <1>1 DEF Typed1, Knows
  <1>4. now = IF s.todo = <<>> THEN "over" ELSE Head(s.todo)
    BY <1>1, <1>2 DEF Now
  <1>5. /\ now = "over" <=> s.kind = "over"
        /\ s.kind # "over" =>
             \/ now = "undo" /\ s.kind = "register"
             \/ Facts(s.kind, Left(s), now)
    BY <1>3, <1>4, Told DEF Left
  <1>6. now = "listen" => s.kind = "stream" /\ Left(s) = 1
    BY <1>5 DEF Facts
  <1>7. s.kind \notin {"over", "register"} => Facts(s.kind, Left(s), now)
    BY <1>5
  <1> QED BY <1>1, <1>2, <1>3, <1>6, <1>7

-----------------------------------------------------------------------------
(* --- accounts and devices that are not there yet ----------------------------- *)

Uncreated(m) == m > begun \/ (req[m].kind # "over" /\ ~Made(m))

Unissued(m) ==
    \/ m > begun
    \/ req[m].kind = "register" /\ Left(req[m]) >= 2
    \/ req[m].kind = "login"
    \/ req[m].kind = "recover" /\ Left(req[m]) >= 5

Fresh == \A m \in Request : Uncreated(m) =>
            ~account[m].exists /\ \A n \in Request : req[n].who # m

Unused == \A m \in Request : Unissued(m) =>
            device[m] = None /\ \A n \in Request : req[n].kind \in Tokened => req[n].dev # m

(* The token of a stream, once looked up, stays its account's. *)
Owned == \A n \in Request :
            req[n].kind \in Tokened /\ Past(n) => device[req[n].dev] \in {None, req[n].who}

LEMMA StillUncreated ==
    ASSUME TInv, [Next]_vars, NEW m \in Request, Uncreated(m)'
    PROVE  Uncreated(m)
  <1>0. begun \in Nat /\ m \in Nat /\ Left(req[m]) \in Nat
    <2>1. req[m] \in Ask
      BY Standing
    <2>2. Len(req[m].todo) \in Nat
      BY <2>1 DEF Ask
    <2> QED BY <2>2, AccountsAssumption DEF TInv, Typed1, Left, Request
  <1>1. ASSUME NEW n \in Request, Came(n) PROVE Uncreated(m)
    <2>1. CASE m = n
      BY <1>0, <1>1, <2>1 DEF Came, Uncreated
    <2>2. CASE m # n
      BY <1>0, <1>1, <2>2 DEF Came, Uncreated, Made
    <2> QED BY <2>1, <2>2
  <1>2. ASSUME NEW n \in Request, Served(n), req[n].kind # "over", begun' = begun
        PROVE  Uncreated(m)
    <2>1. CASE req'[m] = Over
      BY <2>1, <1>2, Ended DEF Uncreated
    <2>2. CASE Stays(m)
      BY <2>2, <1>2 DEF Stays, Uncreated, Made, Left
    <2>3. CASE m = n /\ GoesOn1(m)
      BY <2>3, <1>0, <1>2 DEF GoesOn1, Uncreated, Made
    <2>4. CASE GoesBack(m)
      BY <2>4, <1>2 DEF GoesBack, Uncreated, Made
    <2> QED BY <2>1, <2>2, <2>3, <2>4, <1>2, MoveOf
  <1>3. CASE req' = req /\ begun' = begun
    BY <1>3 DEF Uncreated, Made
  <1> QED BY <1>1, <1>2, <1>3, NextMoves DEF Moves

LEMMA StillUnissued ==
    ASSUME TInv, [Next]_vars, NEW m \in Request, Unissued(m)'
    PROVE  Unissued(m)
  <1>0. begun \in Nat /\ m \in Nat /\ Left(req[m]) \in Nat
    <2>1. req[m] \in Ask
      BY Standing
    <2>2. Len(req[m].todo) \in Nat
      BY <2>1 DEF Ask
    <2> QED BY <2>2, AccountsAssumption DEF TInv, Typed1, Left, Request
  <1>1. ASSUME NEW n \in Request, Came(n) PROVE Unissued(m)
    <2>1. CASE m = n
      BY <1>0, <1>1, <2>1 DEF Came, Unissued
    <2>2. CASE m # n
      BY <1>0, <1>1, <2>2 DEF Came, Unissued
    <2> QED BY <2>1, <2>2
  <1>2. ASSUME NEW n \in Request, Served(n), begun' = begun
        PROVE  Unissued(m)
    <2>1. CASE req'[m] = Over
      BY <2>1, <1>2, Ended DEF Unissued
    <2>2. CASE Stays(m)
      BY <2>2, <1>2 DEF Stays, Unissued, Left
    <2>3. CASE GoesOn1(m)
      BY <2>3, <1>0, <1>2 DEF GoesOn1, Unissued
    <2>4. CASE GoesBack(m)
      BY <2>4, <1>2 DEF GoesBack, Unissued
    <2> QED BY <2>1, <2>2, <2>3, <2>4, <1>2, MoveOf
  <1>3. CASE req' = req /\ begun' = begun
    BY <1>3 DEF Unissued
  <1> QED BY <1>1, <1>2, <1>3, NextMoves DEF Moves

LEMMA FreshStep == TInv /\ Parented /\ Fresh /\ [Next]_vars => Fresh'
  <1> SUFFICES ASSUME TInv, Parented, Fresh, [Next]_vars, NEW m \in Request, Uncreated(m)'
               PROVE  ~account'[m].exists /\ \A k \in Request : req'[k].who # m
    BY DEF Fresh
  <1>0. Uncreated(m)
    BY StillUncreated
  <1>a. ~account[m].exists /\ (\A k \in Request : req[k].who # m) /\ m \in Account /\ m # None
    BY <1>0 DEF Fresh, Request, Account, None
  <1>1. ASSUME NEW n \in Request, Came(n), Rest
        PROVE  ~account'[m].exists /\ \A k \in Request : req'[k].who # m
    BY <1>1, <1>a DEF Came, Rest
  <1>2. ASSUME NEW n \in Request, Served(n), req[n].kind # "over", n <= begun, begun' = begun,
               Writes(n) \/ Rest
        PROVE  ~account'[m].exists /\ \A k \in Request : req'[k].who # m
    <2>1. Now(n) = "create" /\ m = n => req'[n] = Over /\ FALSE
      <3> SUFFICES ASSUME Now(n) = "create", m = n PROVE FALSE
        OBVIOUS
      <3>1. req[n].kind = "register" /\ Left(req[n]) = 5
        BY NowTells DEF Facts
      <3>2. ~(m > begun')
        BY <1>2, AccountsAssumption DEF Request, TInv, Typed1
      <3>3. CASE req'[n] = Over
        BY <3>2, <3>3, Ended DEF Uncreated
      <3>4. CASE GoesOn1(n)
        BY <3>1, <3>2, <3>4 DEF GoesOn1, Uncreated, Made
      <3>5. CASE GoesBack(n)
        BY <3>1, <3>5 DEF GoesBack
      <3> QED BY <3>3, <3>4, <3>5, <1>2, MoveOf
    <2>2. ~account'[m].exists
      <3>1. CASE Writes(n)
        <4>1. RowStep(n, m)
          BY <3>1, <1>a DEF Writes
        <4> QED BY <4>1, <2>1, <1>a DEF RowStep
      <3>2. CASE Rest
        BY <3>2, <1>a DEF Rest
      <3> QED BY <1>2, <3>1, <3>2
    <2>3. ASSUME NEW k \in Request PROVE req'[k].who # m
      <3>1. CASE req'[k] = Over
        BY <3>1, <1>a, Ended
      <3>2. CASE Stays(k)
        BY <3>2, <1>a DEF Stays
      <3>3. CASE GoesBack(k)
        BY <3>3, <1>a DEF GoesBack
      <3>4. CASE k = n /\ GoesOn1(n)
        <4>1. Learns(n, req'[n])
          BY <3>4 DEF GoesOn1
        <4>2. CASE Now(n) \in {"find", "byLink"}
          BY <3>4, <4>1, <4>2, <1>a DEF Learns
        <4>3. CASE Now(n) = "device"
          <5>1. req[n].kind \in Tokened
            BY <4>3, NowTells DEF Facts
          <5>2. req[n].dev \in Device
            BY <5>1 DEF TInv, Knows
          <5>3. device[req[n].dev] # None => account[device[req[n].dev]].exists
            BY <5>2 DEF Parented
          <5> QED BY <3>4, <4>1, <4>3, <5>3, <1>a DEF Learns
        <4>4. CASE Now(n) = "create"
          BY <3>4, <4>1, <4>4, <2>1 DEF Learns
        <4>5. CASE Now(n) \notin {"find", "byLink", "device", "create"}
          BY <3>4, <4>1, <4>5, <1>a DEF Learns
        <4> QED BY <4>2, <4>3, <4>4, <4>5
      <3> QED BY <3>1, <3>2, <3>3, <3>4, <1>2, MoveOf
    <2> QED BY <2>2, <2>3
  <1>3. CASE SweepUnverified
    BY <1>3, <1>a, SweepStep DEF SweepUnverified
  <1>4. CASE DayPasses
    <2>1. RowAges(m) /\ req' = req
      BY <1>4, <1>a, DayStep DEF DayPasses
    <2> QED BY <2>1, <1>a DEF RowAges
  <1>5. CASE Forget \/ UNCHANGED vars
    BY <1>5, <1>a DEF Forget, vars
  <1> QED BY <1>1, <1>2, <1>3, <1>4, <1>5, StepKinds

LEMMA UnusedStep == TInv /\ Unused /\ [Next]_vars => Unused'
  <1> SUFFICES ASSUME TInv, Unused, [Next]_vars, NEW m \in Request, Unissued(m)'
               PROVE  /\ device'[m] = None
                      /\ \A k \in Request : req'[k].kind \in Tokened => req'[k].dev # m
    BY DEF Unused
  <1>0. Unissued(m)
    BY StillUnissued
  <1>a. /\ device[m] = None /\ m \in Device
        /\ \A k \in Request : req[k].kind \in Tokened => req[k].dev # m
    BY <1>0 DEF Unused, Request, Device
  <1>b. Over.kind \notin Tokened
    BY Ended DEF Tokened
  <1>1. ASSUME NEW n \in Request, Came(n), Rest
        PROVE  /\ device'[m] = None
               /\ \A k \in Request : req'[k].kind \in Tokened => req'[k].dev # m
    <2>1. req'[n].kind \in Tokened => req'[n].dev # m
      BY <1>1, <1>a DEF Came
    <2> QED BY <2>1, <1>1, <1>a DEF Came, Rest
  <1>2. ASSUME NEW n \in Request, Served(n), req[n].kind # "over", n <= begun, begun' = begun,
               Writes(n) \/ Rest
        PROVE  /\ device'[m] = None
               /\ \A k \in Request : req'[k].kind \in Tokened => req'[k].dev # m
    <2>1. ~(Now(n) = "issue" /\ m = n)
      <3> SUFFICES ASSUME Now(n) = "issue", m = n PROVE FALSE
        OBVIOUS
      <3>1. /\ Left(req[n]) \in 1..Len(Steps[req[n].kind])
            /\ <<req[n].kind, Left(req[n])>>
                  \in {<<"register", 2>>, <<"login", 1>>, <<"recover", 5>>}
        BY NowTells DEF Facts
      <3>2. ~(m > begun')
        BY <1>2, AccountsAssumption DEF Request, TInv, Typed1
      <3>3. CASE req'[n] = Over
        BY <3>2, <3>3, Ended DEF Unissued
      <3>4. CASE GoesOn1(n)
        BY <3>1, <3>2, <3>4 DEF GoesOn1, Unissued
      <3>5. CASE GoesBack(n)
        BY <3>1, <3>5 DEF GoesBack
      <3> QED BY <3>3, <3>4, <3>5, <1>2, MoveOf
    <2>2. device'[m] = None
      <3>1. CASE Writes(n)
        <4>1. DeviceStep(n, m)
          BY <3>1, <1>a DEF Writes
        <4> QED BY <4>1, <2>1, <1>a DEF DeviceStep
      <3>2. CASE Rest
        BY <3>2, <1>a DEF Rest
      <3> QED BY <1>2, <3>1, <3>2
    <2>3. ASSUME NEW k \in Request, req'[k].kind \in Tokened PROVE req'[k].dev # m
      <3>1. CASE req'[k] = Over
        BY <3>1, <1>b, <2>3
      <3>2. CASE Stays(k)
        BY <3>2, <1>a, <2>3 DEF Stays
      <3>3. CASE GoesBack(k)
        BY <3>3, <2>3 DEF GoesBack, Tokened
      <3>4. CASE k = n /\ GoesOn1(n)
        <4>1. Learns(n, req'[n]) /\ req[n].kind \in Tokened
          BY <3>4, <2>3 DEF GoesOn1
        <4>2. Now(n) # "issue"
          <5>1. Now(n) = "issue" => req[n].kind \in {"register", "login", "recover"}
            BY NowTells DEF Facts
          <5> QED BY <4>1, <5>1 DEF Tokened
        <4> QED BY <3>4, <4>1, <4>2, <1>a DEF Learns
      <3> QED BY <3>1, <3>2, <3>3, <3>4, <1>2, MoveOf
    <2> QED BY <2>2, <2>3
  <1>3. CASE SweepUnverified
    BY <1>3, <1>a, SweepStep DEF SweepUnverified
  <1>4. CASE DayPasses
    BY <1>4, <1>a DEF DayPasses
  <1>5. CASE Forget \/ UNCHANGED vars
    BY <1>5, <1>a DEF Forget, vars
  <1> QED BY <1>1, <1>2, <1>3, <1>4, <1>5, StepKinds

LEMMA OwnedStep == TInv /\ Unused /\ Owned /\ [Next]_vars => Owned'
  <1> SUFFICES ASSUME TInv, Unused, Owned, [Next]_vars, NEW k \in Request,
                      req'[k].kind \in Tokened, Past(k)'
               PROVE  device'[req'[k].dev] \in {None, req'[k].who}
    BY DEF Owned
  <1>a. req'[k].dev \in Device
    BY TInvStep DEF TInv, Knows
  <1>b. Over.kind \notin Tokened
    BY Ended DEF Tokened
  <1>1. ASSUME NEW n \in Request, Came(n), Rest
        PROVE  device'[req'[k].dev] \in {None, req'[k].who}
    <2>1. k # n
      <3>1. Left(req'[n]) = Len(Steps[req'[n].kind]) /\ req'[n].kind \in Kind
        BY <1>1 DEF Came
      <3>2. k = n => ~Past(k)'
        BY <3>1, Lengths DEF Past
      <3> QED BY <3>2
    <2>2. req'[k] = req[k] /\ device' = device
      BY <2>1, <1>1 DEF Came, Rest
    <2> QED BY <2>2 DEF Owned, Past
  <1>2. ASSUME NEW n \in Request, Served(n), req[n].kind # "over", begun' = begun,
               Writes(n) \/ Rest
        PROVE  device'[req'[k].dev] \in {None, req'[k].who}
    <2> DEFINE d == req'[k].dev
    <2>1. req[k].kind = req'[k].kind /\ req[k].dev = d /\ req[k].kind \in Tokened
          /\ device[d] \in {None, req'[k].who}
      <3>1. CASE Stays(k)
        <4>1. Past(k) <=> Past(k)'
          BY <3>1 DEF Stays, Past, Left
        <4> QED BY <3>1, <4>1 DEF Stays, Owned
      <3>2. CASE k = n /\ GoesOn1(n)
        <4>1. Learns(n, req'[n]) /\ req[n].kind \in Tokened /\ req'[n].kind = req[n].kind
          BY <3>2 DEF GoesOn1
        <4>2. req[n].kind \notin {"over", "register"}
          BY <4>1 DEF Tokened
        <4>3. /\ Left(req[n]) \in 1..Len(Steps[req[n].kind])
              /\ Facts(req[n].kind, Left(req[n]), Now(n))
          BY <4>2, KindTells
        <4>4. Now(n) \notin {"issue", "find", "byLink", "create"}
          BY <4>3, <4>1 DEF Facts, Tokened
        <4>5. req'[n].dev = req[n].dev
          BY <4>1, <4>4 DEF Learns
        <4>6. CASE Now(n) = "device"
          BY <3>2, <4>1, <4>5, <4>6 DEF Learns
        <4>7. CASE Now(n) # "device"
          <5>1. Left(req[n]) # Len(Steps[req[n].kind])
            BY <4>1, <4>3, <4>7 DEF Facts
          <5>2. Past(n)
            <6> DEFINE a == Len(Steps[req[n].kind])
            <6>1. a \in 2..11 /\ Left(req[n]) \in 1..a /\ Left(req[n]) # a
              BY <4>3, <5>1, <4>1, Lengths, KindTells, <4>2
            <6>2. Left(req[n]) < a
              <7> HIDE DEF a
              <7> QED BY <6>1
            <6> QED BY <6>2 DEF Past
          <5>3. device[req[n].dev] \in {None, req[n].who}
            BY <5>2, <4>1 DEF Owned
          <5>4. req'[n].who = req[n].who
            BY <4>1, <4>4, <4>7 DEF Learns
          <5> QED BY <3>2, <4>1, <4>5, <5>3, <5>4
        <4> QED BY <4>6, <4>7
      <3>3. CASE GoesBack(k)
        BY <3>3 DEF GoesBack, Tokened
      <3> QED BY <3>1, <3>2, <3>3, <1>2, <1>b, MoveOf
    <2>2. CASE Rest
      BY <2>1, <2>2 DEF Rest
    <2>3. CASE Writes(n)
      <3>1. DeviceStep(n, d)
        BY <2>3, <1>a DEF Writes
      <3>2. ~(Now(n) = "issue" /\ d = n)
        <4> SUFFICES ASSUME Now(n) = "issue", d = n PROVE FALSE
          OBVIOUS
        <4>1. /\ Left(req[n]) \in 1..Len(Steps[req[n].kind])
              /\ <<req[n].kind, Left(req[n])>>
                    \in {<<"register", 2>>, <<"login", 1>>, <<"recover", 5>>}
          BY NowTells DEF Facts
        <4>2. Unissued(n)
          BY <4>1 DEF Unissued
        <4> QED BY <4>2, <2>1 DEF Unused
      <3>3. device'[d] \in {device[d], None}
        BY <3>1, <3>2 DEF DeviceStep
      <3> QED BY <2>1, <3>3
    <2> QED BY <1>2, <2>2, <2>3
  <1>3. CASE SweepUnverified
    <2>1. req' = req /\ device'[req[k].dev] \in {device[req[k].dev], None}
      BY <1>3, <1>a, SweepStep DEF SweepUnverified
    <2> QED BY <2>1 DEF Owned, Past
  <1>4. CASE DayPasses \/ Forget \/ UNCHANGED vars
    BY <1>4 DEF DayPasses, Forget, vars, Owned, Past
  <1> QED BY <1>1, <1>2, <1>3, <1>4, StepKinds

-----------------------------------------------------------------------------
(* --- streams ------------------------------------------------------------------ *)

(* The account of a stream was confirmed, so the sweep leaves it alone.     *)
Confirmed == \A n \in Request :
                req[n].kind = "stream" /\ Left(req[n]) <= 2 /\ account[req[n].who].exists
                    => account[req[n].who].verified

LEMMA ConfirmedStep == TInv /\ Fresh /\ Confirmed /\ [Next]_vars => Confirmed'
  <1> SUFFICES ASSUME TInv, Fresh, Confirmed, [Next]_vars, NEW k \in Request,
                      req'[k].kind = "stream", Left(req'[k]) <= 2,
                      account'[req'[k].who].exists
               PROVE  account'[req'[k].who].verified
    BY DEF Confirmed, Left
  <1>a. Left(req'[k]) < Len(Steps[req'[k].kind]) /\ req'[k].kind \in Kind \ {"register"}
    <2>1. Left(req'[k]) \in Nat
      <3>1. Len(req'[k].todo) \in Nat
        BY NextTells DEF Ask
      <3> QED BY <3>1 DEF Left
    <2> QED BY <2>1, Lengths, Programs
  <1>b. req'[k].who \in Account
    BY <1>a, TInvStep DEF TInv, Knows, Past
  <1>1. ASSUME NEW n \in Request, Came(n), Rest
        PROVE  account'[req'[k].who].verified
    <2>1. k # n
      BY <1>1, <1>a DEF Came
    <2> QED BY <2>1, <1>1 DEF Came, Rest, Confirmed
  <1>2. ASSUME NEW n \in Request, Served(n), Writes(n) \/ Rest
        PROVE  account'[req'[k].who].verified
    <2> DEFINE w == req'[k].who
    <2>1. req[k].who = w /\ (account[w].exists => account[w].verified)
      <3>1. CASE Stays(k)
        BY <3>1 DEF Stays, Confirmed, Left
      <3>2. CASE k = n /\ GoesOn1(n)
        <4>1. req[n].kind = "stream" /\ Learns(n, req'[n]) /\ Left(req'[n]) = Left(req[n]) - 1
              /\ Left(req[n]) # 1
          BY <3>2 DEF GoesOn1
        <4>2. /\ Left(req[n]) \in 1..Len(Steps[req[n].kind]) /\ Len(Steps[req[n].kind]) = 4
              /\ Facts(req[n].kind, Left(req[n]), Now(n))
          BY <4>1, KindTells, Lengths
        <4>3. Left(req[n]) \in {2, 3}
          BY <4>1, <4>2, <3>2
        <4>4. CASE Left(req[n]) = 3
          <5>1. Now(n) = "row"
            BY <4>1, <4>2, <4>4 DEF Facts, Tokened
          <5> QED BY <4>1, <5>1, <3>2 DEF Learns
        <4>5. CASE Left(req[n]) = 2
          <5>1. Now(n) = "subscribe"
            BY <4>1, <4>2, <4>5 DEF Facts
          <5>2. req'[n].who = req[n].who
            BY <4>1, <5>1 DEF Learns
          <5> QED BY <4>1, <4>5, <5>2, <3>2 DEF Confirmed
        <4> QED BY <4>3, <4>4, <4>5
      <3>3. CASE GoesBack(k)
        BY <3>3 DEF GoesBack
      <3>4. req'[k] # Over
        BY Ended, Programs
      <3> QED BY <3>1, <3>2, <3>3, <3>4, <1>2, MoveOf
    <2>2. CASE Rest
      BY <2>1, <2>2 DEF Rest
    <2>3. CASE Writes(n)
      <3>1. RowStep(n, w)
        BY <2>3, <1>b DEF Writes
      <3>2. ~(Now(n) = "create" /\ w = n)
        <4> SUFFICES ASSUME Now(n) = "create", w = n PROVE FALSE
          OBVIOUS
        <4>1. req[n].kind = "register" /\ Left(req[n]) = 5
          BY NowTells DEF Facts
        <4>2. Uncreated(n)
          BY <4>1 DEF Uncreated, Made
        <4> QED BY <4>2, <2>1 DEF Fresh
      <3> QED BY <3>1, <3>2, <2>1 DEF RowStep
    <2> QED BY <1>2, <2>2, <2>3
  <1>3. CASE SweepUnverified
    <2>1. req' = req /\ account'[req[k].who] = account[req[k].who]
      BY <1>3, <1>b, SweepStep DEF SweepUnverified
    <2> QED BY <2>1 DEF Confirmed
  <1>4. CASE DayPasses
    <2>1. req' = req /\ RowAges(req[k].who)
      BY <1>4, <1>b, DayStep DEF DayPasses
    <2> QED BY <2>1 DEF RowAges, Confirmed
  <1>5. CASE Forget \/ UNCHANGED vars
    BY <1>5 DEF Forget, vars, Confirmed
  <1> QED BY <1>1, <1>2, <1>3, <1>4, <1>5, StepKinds

(* Request m is about to end the stream n. *)
Ends(m, n) ==
    /\ Now(m) \in {"endOthers", "endDevice", "endAll"}
    /\ req[m].who = req[n].who /\ EndedBy(m, n)

Ending == \A n \in Request :
            Listening(n) /\ device[req[n].dev] = None
                => req[n].late \/ \E m \in Request : Ends(m, n)

LEMMA NotOver ==
    ASSUME NEW r \in Ask, r.kind # "over", Left(r) # 1
    PROVE  Forward(r) # Over
  <1>1. Forward(r).kind = r.kind
    <2> DEFINE t == Tail(r.todo)
    <2>1. Forward(r) = [r EXCEPT !.todo = t]
      BY DEF Forward, Left
    <2> HIDE DEF t
    <2> QED BY <2>1 DEF Ask
  <1> QED BY <1>1, Ended

(* Who is about to end a stream goes on to do it, and does. *)
LEMMA EndsStays ==
    ASSUME TInv, [Next]_vars, NEW m \in Request, NEW n \in Request, Ends(m, n),
           Stays(n), Listening(n)'
    PROVE  Ends(m, n)'
  <1>1. /\ req[m].kind \in {"recover", "change", "signOut", "erase"}
        /\ Now(m) \notin {"over", "listen"}
    BY NowTells DEF Facts, Ends
  <1>2. CASE Stays(m)
    BY <1>2 DEF Stays, Ends, EndedBy, Now
  <1>3. ASSUME NEW k \in Request, Came(k) PROVE Ends(m, n)'
    <2>1. m # k
      BY <1>3, <1>1, Ended DEF Came
    <2>2. Stays(m)
      BY <2>1, <1>3 DEF Came, Stays
    <2> QED BY <2>2, <1>2
  <1>4. ASSUME NEW k \in Request, Served(k), Serve(k) \/ Fail(k) PROVE Ends(m, n)'
    <2>1. CASE m # k
      <3>1. Stays(m)
        BY <1>1, <1>4, <2>1, MoveOf DEF Listening
      <3> QED BY <3>1, <1>2
    <2>2. CASE m = k
      <3>1. Now(k) \in {"endOthers", "endDevice", "endAll"}
        BY <2>2 DEF Ends
      <3>2. EndStreams(k)
        BY <1>4, <3>1
           DEF Serve, Find, ResolveDevice, ResolveAccount, Check, Create, SetLink, Send, Undo,
               Issue, SetSecret, Revoke, DeleteAccount, Answer, ByLink, Mark, Subscribe, At, Fail
      <3>3. n # k /\ Listening(n)
        <4>1. n # k
          <5>1. req'[n].kind = req[n].kind /\ req'[n].kind = "stream"
            BY NextTells DEF Stays, Listening
          <5> QED BY <5>1, <1>1, <2>2
        <4>2. Listening(n)
          BY DEF Stays, Listening, Now
        <4> QED BY <4>1, <4>2
      <3>4. req'[n] = Over
        BY <3>2, <3>3, <2>2 DEF EndStreams, Ends
      <3> QED BY <3>4, NextTells, Ended DEF Listening
    <2> QED BY <2>1, <2>2
  <1>5. CASE req' = req
    BY <1>5, <1>2 DEF Stays
  <1>6. \/ \E k \in Request : Came(k)
        \/ \E k \in Request : Served(k) /\ (Serve(k) \/ Fail(k))
        \/ req' = req
    BY StepKinds DEF SweepUnverified, DayPasses, Forget, vars
  <1> QED BY <1>3, <1>4, <1>5, <1>6

(* Whoever takes a device out of the table goes on to end its streams, or   *)
(* leaves them behind.                                                      *)
LEMMA TakerEnds ==
    ASSUME TInv, Parented, Owned, [Next]_vars,
           NEW k \in Request, Serve(k), Served(k), Writes(k),
           NEW n \in Request, n # k, Stays(n), Listening(n)', Listening(n),
           device[req[n].dev] # None, device'[req[n].dev] = None
    PROVE  req'[n].late \/ Ends(k, n)'
  <1> DEFINE d == req[n].dev
             w == req[k].who
  <1>1. /\ req[n].kind = "stream" /\ Left(req[n]) = 1 /\ d \in Device
        /\ device[d] = req[n].who
    <2>1. req[n].kind = "stream" /\ Left(req[n]) = 1
      BY NowTells DEF Facts, Listening
    <2>2. Past(n) /\ req[n].kind \in Tokened
      BY <2>1, Lengths DEF Past, Tokened
    <2>3. d \in Device
      BY <2>2 DEF TInv, Knows
    <2> QED BY <2>1, <2>2, <2>3 DEF Owned
  <1>2. DeviceStep(k, d) /\ device'[d] # device[d]
    BY <1>1 DEF Writes
  <1>3. req'[n].who = req[n].who /\ req'[n].dev = d
    BY DEF Stays
  <1>4. CASE Now(k) = "undo" /\ device[d] = k
             /\ \A m \in Request \ {k} : Listening(m) /\ req[m].who = k => req'[m].late
    BY <1>1, <1>4
  <1>5. CASE Now(k) = "issue" /\ d = k /\ device'[d] = w /\ account[w].exists
    <2>1. w \in Account
      BY <1>5, WhoWrites DEF Writing
    <2> QED BY <1>5, <2>1 DEF Account, None
  <1>6. CASE /\ Now(k) \in {"deleteOthers", "deleteDevice", "deleteAccount"}
             /\ device[d] = w /\ req'[k] = Forward(req[k])
             /\ Now(k) = "deleteOthers" => d # req[k].dev
             /\ Now(k) = "deleteDevice" => d = req[k].target
    <2>1. /\ req[k].kind \in {"recover", "change", "signOut", "erase"}
          /\ Facts(req[k].kind, Left(req[k]), Now(k))
      BY <1>6, NowTells DEF Facts
    <2>2. Left(req[k]) \in {2, 3} /\ req[k].kind # "over" /\ req[k].kind # "register"
      BY <1>6, <2>1 DEF Facts
    <2>3. req'[k] # Over
      <3>1. req[k] \in Ask
        BY Standing
      <3>2. PICK r \in Ask : r = req[k]
        BY <3>1
      <3>3. Forward(r) # Over
        BY <2>2, <3>2, NotOver
      <3> QED BY <3>2, <3>3, <1>6
    <2>4. GoesOn1(k)
      BY <2>2, <2>3, MoveOf DEF GoesBack
    <2>5. /\ req'[k].kind = req[k].kind /\ Left(req'[k]) = Left(req[k]) - 1
          /\ req'[k].who = w /\ req'[k].dev = req[k].dev /\ req'[k].target = req[k].target
      BY <2>4, <1>6 DEF GoesOn1, Learns
    <2>6. Facts(req'[k].kind, Left(req'[k]), Now(k)')
      BY <2>2, <2>5, NextTells
    <2>7. CASE Now(k) = "deleteOthers"
      <3>1. <<req[k].kind, Left(req[k])>> \in {<<"recover", 3>>, <<"change", 2>>}
        BY <2>1, <2>7 DEF Facts
      <3>2. <<req'[k].kind, Left(req'[k])>> \in {<<"recover", 2>>, <<"change", 1>>}
        BY <3>1, <2>5
      <3>3. Now(k)' = "endOthers"
        BY <3>2, <2>6 DEF Facts
      <3> QED BY <3>3, <2>5, <2>7, <1>1, <1>3, <1>6 DEF Ends, EndedBy
    <2>8. CASE Now(k) = "deleteDevice"
      <3>1. req[k].kind = "signOut" /\ Left(req[k]) = 2
        BY <2>1, <2>8 DEF Facts
      <3>2. Now(k)' = "endDevice"
        BY <3>1, <2>5, <2>6 DEF Facts
      <3> QED BY <3>2, <2>5, <2>8, <1>1, <1>3, <1>6 DEF Ends, EndedBy
    <2>9. CASE Now(k) = "deleteAccount"
      <3>1. req[k].kind = "erase" /\ Left(req[k]) = 2
        BY <2>1, <2>9 DEF Facts
      <3>2. Now(k)' = "endAll"
        BY <3>1, <2>5, <2>6 DEF Facts
      <3> QED BY <3>2, <2>5, <1>1, <1>3, <1>6 DEF Ends, EndedBy
    <2> QED BY <1>6, <2>7, <2>8, <2>9
  <1>7. device[d] = w => account[w].exists
    BY <1>1 DEF Parented
  <1> QED BY <1>2, <1>4, <1>5, <1>6, <1>7 DEF DeviceStep

LEMMA EndingStep ==
    TInv /\ Parented /\ Owned /\ Confirmed /\ Ending /\ [Next]_vars => Ending'
  <1> SUFFICES ASSUME TInv, Parented, Owned, Confirmed, Ending, [Next]_vars,
                      NEW n \in Request, Listening(n)', device'[req'[n].dev] = None
               PROVE  req'[n].late \/ \E m \in Request : Ends(m, n)'
    BY DEF Ending
  <1>1. ASSUME Stays(n), device' = device
        PROVE  req'[n].late \/ \E m \in Request : Ends(m, n)'
    <2>1. Listening(n) /\ device[req[n].dev] = None
      BY <1>1 DEF Stays, Listening, Now
    <2>2. CASE req[n].late
      BY <2>2, <1>1 DEF Stays
    <2>3. CASE \E m \in Request : Ends(m, n)
      BY <2>3, <1>1, EndsStays
    <2> QED BY <2>1, <2>2, <2>3 DEF Ending
  <1>2. ASSUME NEW k \in Request, Came(k), Rest
        PROVE  req'[n].late \/ \E m \in Request : Ends(m, n)'
    <2>1. k # n
      <3>1. Left(req'[k]) = Len(Steps[req'[k].kind])
        BY <1>2 DEF Came
      <3>2. req'[n].kind = "stream" /\ Left(req'[n]) = 1
        BY NextTells DEF Listening
      <3>3. CASE k = n
        <4>1. Left(req'[n]) = 4
          BY <3>1, <3>2, <3>3, Lengths
        <4> QED BY <4>1, <3>2
      <3> QED BY <3>3
    <2>2. Stays(n) /\ device' = device
      BY <2>1, <1>2 DEF Came, Stays, Rest
    <2> QED BY <2>2, <1>1
  <1>3. ASSUME NEW k \in Request, Served(k),
               (Serve(k) /\ Writes(k)) \/ (Fail(k) /\ Rest)
        PROVE  req'[n].late \/ \E m \in Request : Ends(m, n)'
    <2>0. req'[n].kind = "stream" /\ Left(req'[n]) = 1 /\ req'[n] # Over
      BY NextTells, Ended, Programs DEF Listening
    <2>1. CASE Stays(n) /\ n # k
      <3>0. Listening(n)
        BY <2>1 DEF Stays, Listening, Now
      <3>1. CASE device[req[n].dev] = None
        <4>1. CASE req[n].late
          BY <4>1, <2>1 DEF Stays
        <4>2. CASE \E m \in Request : Ends(m, n)
          BY <4>2, <2>1, EndsStays
        <4> QED BY <3>0, <3>1, <4>1, <4>2 DEF Ending
      <3>2. CASE device[req[n].dev] # None
        <4>1. device'[req[n].dev] = None
          BY <2>1 DEF Stays
        <4>2. ~Rest
          BY <4>1, <3>2 DEF Rest
        <4>3. Serve(k) /\ Writes(k)
          BY <4>2, <1>3
        <4> QED BY <4>1, <4>3, <3>0, <3>2, <2>1, <1>3, TakerEnds
      <3> QED BY <3>1, <3>2
    <2>2. CASE n = k /\ GoesOn1(k)
      <3>1. req[k].kind = "stream" /\ Left(req[k]) # 1 /\ Left(req'[k]) = Left(req[k]) - 1
            /\ Learns(k, req'[k])
        BY <2>0, <2>2 DEF GoesOn1
      <3>2. /\ Left(req[k]) \in 1..Len(Steps[req[k].kind]) /\ Len(Steps[req[k].kind]) = 4
            /\ Facts(req[k].kind, Left(req[k]), Now(k))
        BY <3>1, KindTells, Lengths
      <3>3. Left(req[k]) = 2
        BY <3>1, <3>2, <2>0, <2>2
      <3>4. Now(k) = "subscribe"
        BY <3>1, <3>2, <3>3 DEF Facts
      <3>5. req[k].dev \in Device /\ req'[k].dev = req[k].dev
            /\ (req'[k].late <=> device[req[k].dev] = None)
        <4>1. req[k].dev \in Device
          BY <3>1 DEF TInv, Knows, Tokened
        <4> QED BY <4>1, <3>1, <3>4 DEF Learns
      <3>6. device'[req[k].dev] = device[req[k].dev]
        <4>1. CASE Rest
          BY <4>1 DEF Rest
        <4>2. CASE Writes(k)
          <5>1. DeviceStep(k, req[k].dev)
            BY <4>2, <3>5 DEF Writes
          <5> QED BY <5>1, <3>4 DEF DeviceStep
        <4> QED BY <1>3, <4>1, <4>2
      <3> QED BY <3>5, <3>6, <2>2
    <2>3. CASE GoesBack(n)
      BY <2>0, <2>3 DEF GoesBack
    <2> QED BY <2>0, <2>1, <2>2, <2>3, <1>3, MoveOf
  <1>4. CASE SweepUnverified
    <2>1. req' = req /\ Stays(n) /\ Listening(n)
      BY <1>4 DEF SweepUnverified, Stays, Listening, Now
    <2>2. req[n].kind = "stream" /\ Left(req[n]) = 1
      BY <2>1, NowTells DEF Facts, Listening
    <2>3. Past(n) /\ req[n].kind \in Tokened
      BY <2>2, Lengths DEF Past, Tokened
    <2>4. req[n].dev \in Device /\ device[req[n].dev] \in {None, req[n].who}
      BY <2>3 DEF TInv, Knows, Owned
    <2>5. CASE device[req[n].dev] = None
      <3>1. CASE req[n].late
        BY <3>1, <2>1 DEF Stays
      <3>2. CASE \E m \in Request : Ends(m, n)
        BY <3>2, <2>1, EndsStays
      <3> QED BY <2>1, <2>5, <3>1, <3>2 DEF Ending
    <2>6. CASE device[req[n].dev] # None
      <3>1. Expired(req[n].who)
        BY <1>4, <2>1, <2>4, <2>6, SweepStep
      <3> QED BY <3>1, <2>2 DEF Expired, Confirmed
    <2> QED BY <2>5, <2>6
  <1>5. CASE DayPasses \/ Forget \/ UNCHANGED vars
    <2>1. Stays(n) /\ device' = device
      BY <1>5 DEF DayPasses, Forget, vars, Stays
    <2> QED BY <2>1, <1>1
  <1> QED BY <1>2, <1>3, <1>4, <1>5, StepKinds

LEMMA FreshInit ==
    ASSUME Init
    PROVE  /\ \A n \in Request : req[n] = Over /\ ~account[n].exists /\ device[n] = None
           /\ \A a \in Account : account[a].link = None
           /\ Fresh /\ Unused
  <1>1. PICK there \in BOOLEAN :
          /\ account = [a \in Account |->
                IF a = 0 /\ there
                THEN [NoRow EXCEPT !.exists = TRUE, !.verified = TRUE,
                                   !.password = 0, !.recovery = 0]
                ELSE NoRow]
          /\ device = [e \in Device |-> IF e = 0 /\ there THEN 0 ELSE None]
    BY DEF Init
  <1>2. PICK x \in Row : x = NoRow /\ ~x.exists /\ x.link = None
    BY Ended DEF NoRow
  <1>3. \A a \in Account : account[a] = IF a = 0 /\ there
             THEN [x EXCEPT !.exists = TRUE, !.verified = TRUE, !.password = 0, !.recovery = 0]
             ELSE x
    BY <1>1, <1>2
  <1>4. \A n \in Request : n \in Account /\ n \in Device /\ n # 0 /\ n # None
    BY AccountsAssumption DEF Request, Account, Device, None
  <1>5. \A n \in Request : req[n] = Over /\ ~account[n].exists /\ device[n] = None
    BY <1>1, <1>2, <1>3, <1>4 DEF Init
  <1>6. \A a \in Account : account[a].link = None
    BY <1>2, <1>3 DEF Row
  <1>7. Over.kind \notin Tokened
    BY Ended DEF Tokened
  <1> QED BY <1>4, <1>5, <1>6, <1>7, Ended DEF Fresh, Unused

(* A stream whose device has been taken out of the table has a request      *)
(* that is about to end it, unless it subscribed too late or its account    *)
(* was taken back (stream.go endDevices, after every way to revoke).        *)
THEOREM AccountsStreamsEnd == Spec => []StreamsEnd
  <1> DEFINE EInv == TInv /\ Parented /\ Fresh /\ Unused /\ Owned /\ Confirmed /\ Ending
  <1>1. Init => EInv
    <2> SUFFICES ASSUME Init PROVE EInv
      OBVIOUS
    <2>1. Owned /\ Confirmed
      BY FreshInit, Ended DEF Owned, Confirmed, Tokened
    <2>2. Ending
      BY FreshInit, Ended DEF Ending, Listening, Now
    <2> QED BY <2>1, <2>2, TInvInit, ParentedInit, FreshInit
  <1>2. EInv /\ [Next]_vars => EInv'
    BY TInvStep, ParentedStep, FreshStep, UnusedStep, OwnedStep, ConfirmedStep, EndingStep
  <1>3. EInv => StreamsEnd
    BY DEF Ending, Ends, StreamsEnd
  <1> QED BY <1>1, <1>2, <1>3, PTL DEF Spec

-----------------------------------------------------------------------------
(* --- the link of a registration --------------------------------------------- *)

(* While a registration is being served, its account has no age: no request *)
(* lasts a day.                                                             *)
Young == \A n \in Request : Made(n) /\ account[n].exists => account[n].age = 0

NoLink == \A a \in Account : account[a].exists \/ account[a].link = None

(* The mailed link is the account's, and older than the account is.         *)
Linked == \A l \in Request :
            pending[l].age \in 0..Window /\ pending[l].of = l
                => /\ account[l].exists /\ account[l].link = l
                   /\ account[l].verified \/ account[l].age <= pending[l].age

LEMMA YoungStep == TInv /\ Fresh /\ Young /\ [Next]_vars => Young'
  <1> SUFFICES ASSUME TInv, Fresh, Young, [Next]_vars, NEW m \in Request,
                      Made(m)', account'[m].exists
               PROVE  account'[m].age = 0
    BY DEF Young
  <1>a. m \in Account /\ req'[m].kind = "register" /\ Left(req'[m]) <= 4
    BY DEF Request, Account, Made, Left
  <1>1. ASSUME NEW n \in Request, Came(n), Rest PROVE account'[m].age = 0
    <2>1. m # n
      <3>1. CASE m = n
        <4>1. Left(req'[m]) = 7
          BY <3>1, <1>a, <1>1, Lengths DEF Came
        <4> QED BY <4>1, <1>a
      <3> QED BY <3>1
    <2>2. Made(m) /\ account' = account
      BY <2>1, <1>a, <1>1 DEF Came, Rest, Made
    <2> QED BY <2>2 DEF Young
  <1>2. ASSUME NEW n \in Request, Served(n), req[n].kind # "over", Writes(n) \/ Rest
        PROVE  account'[m].age = 0
    <2>1. Left(req[m]) \in Nat
      <3>1. req[m] \in Ask
        BY Standing
      <3>2. Len(req[m].todo) \in Nat
        BY <3>1 DEF Ask
      <3> QED BY <3>2 DEF Left
    <2>2. Made(m) \/ (m = n /\ req[n].kind = "register" /\ Left(req[n]) = 5)
      <3>1. CASE Stays(m)
        BY <3>1, <1>a DEF Stays, Made, Left
      <3>2. CASE m = n /\ GoesOn1(m)
        BY <3>2, <1>a, <2>1 DEF GoesOn1, Made
      <3>3. CASE GoesBack(m)
        BY <3>3 DEF GoesBack, Made
      <3>4. req'[m] # Over
        BY <1>a, Ended
      <3> QED BY <3>1, <3>2, <3>3, <3>4, <1>2, MoveOf
    <2>3. account[m].exists => account[m].age = 0
      <3>1. CASE Made(m)
        BY <3>1 DEF Young
      <3>2. CASE m = n /\ req[n].kind = "register" /\ Left(req[n]) = 5
        BY <3>2 DEF Fresh, Uncreated, Made
      <3> QED BY <2>2, <3>1, <3>2
    <2>4. CASE Rest
      BY <2>3, <2>4 DEF Rest
    <2>5. CASE Writes(n)
      <3>1. RowStep(n, m)
        BY <2>5, <1>a DEF Writes
      <3> QED BY <3>1, <2>3 DEF RowStep
    <2> QED BY <1>2, <2>4, <2>5
  <1>3. CASE SweepUnverified
    <2>1. req' = req /\ account'[m] = account[m]
      BY <1>3, <1>a, SweepStep DEF SweepUnverified
    <2> QED BY <2>1 DEF Young, Made
  <1>4. CASE DayPasses
    <2>1. Now(m) \in {"over", "listen"} /\ req' = req
      BY <1>4 DEF DayPasses, Busy
    <2>2. req[m].kind = "register"
      BY <2>1, <1>a
    <2>3. Now(m) # "over"
      BY <2>2, Standing
    <2>4. CASE Now(m) = "listen"
      BY <2>2, <2>4, NowTells DEF Facts
    <2> QED BY <2>1, <2>3, <2>4
  <1>5. CASE Forget \/ UNCHANGED vars
    BY <1>5 DEF Forget, vars, Young, Made
  <1> QED BY <1>1, <1>2, <1>3, <1>4, <1>5, StepKinds

LEMMA NoLinkStep == TInv /\ NoLink /\ [Next]_vars => NoLink'
  <1> SUFFICES ASSUME TInv, NoLink, [Next]_vars, NEW a \in Account
               PROVE  account'[a].exists \/ account'[a].link = None
    BY DEF NoLink
  <1>0. account[a].exists \/ account[a].link = None
    BY DEF NoLink
  <1>1. CASE account' = account
    BY <1>0, <1>1
  <1>2. ASSUME NEW n \in Request, Writes(n)
        PROVE  account'[a].exists \/ account'[a].link = None
    <2>1. RowStep(n, a)
      BY <1>2 DEF Writes
    <2> QED BY <2>1, <1>0 DEF RowStep
  <1>3. CASE SweepUnverified
    BY <1>0, <1>3, SweepStep
  <1>4. CASE DayPasses
    <2>1. RowAges(a)
      BY <1>4, DayStep
    <2> QED BY <2>1, <1>0 DEF RowAges
  <1> QED BY <1>1, <1>2, <1>3, <1>4, StepKinds DEF Rest, Forget, vars

LEMMA LinkedStep ==
    TInv /\ Fresh /\ Young /\ NoLink /\ Linked /\ [Next]_vars => Linked'
  <1> SUFFICES ASSUME TInv, Fresh, Young, NoLink, Linked, [Next]_vars, NEW l \in Request,
                      pending'[l].age \in 0..Window, pending'[l].of = l
               PROVE  /\ account'[l].exists /\ account'[l].link = l
                      /\ account'[l].verified \/ account'[l].age <= pending'[l].age
    BY DEF Linked
  <1>a. /\ l \in Account /\ l # None /\ Window \in Nat /\ Lifetime \in Nat /\ Window < Lifetime
        /\ account[l] \in Row /\ account[l].age \in Nat
    <2>1. account[l] \in Row /\ l \in Account /\ l # None
      BY DEF TInv, Typed1, Request, Account, None
    <2>2. account[l].age \in Nat
      BY <2>1, AccountsAssumption DEF Row, Day
    <2> QED BY <2>1, <2>2, AccountsAssumption
  <1>1. CASE account' = account /\ pending' = pending
    BY <1>1 DEF Linked
  <1>2. ASSUME NEW n \in Request, req[n].kind # "over", n <= begun, Writes(n)
        PROVE  /\ account'[l].exists /\ account'[l].link = l
               /\ account'[l].verified \/ account'[l].age <= pending'[l].age
    <2>0. RowStep(n, l) /\ MailStep(n, l) /\ pending'[l] # NoMail
      BY <1>2, <1>a DEF Writes, NoMail, None
    <2>1. CASE pending'[l] = pending[l]
      <3>1. /\ account[l].exists /\ account[l].link = l
            /\ account[l].verified \/ account[l].age <= pending[l].age
        BY <2>1 DEF Linked
      <3>2. Now(n) \in {"link", "undo", "deleteAccount", "mark"} => req[n].who # l
        BY <2>0, <3>1 DEF MailStep
      <3> QED BY <2>0, <2>1, <3>1, <3>2, <1>a DEF RowStep
    <2>2. CASE /\ Now(n) = "send" /\ l = n /\ account[req[n].who].link = n
               /\ pending'[l] = [age |-> 0, of |-> req[n].who]
      <3>1. req[n].who = l /\ account[l].link = l /\ pending'[l].age = 0
        BY <2>2
      <3>2. account[l].exists /\ account'[l] = account[l]
        BY <3>1, <2>0, <2>2, <1>a DEF NoLink, RowStep
      <3>3. Made(n)
        <4>1. ~Uncreated(n)
          BY <3>1, <2>2 DEF Fresh
        <4> QED BY <4>1, <1>2 DEF Uncreated
      <3>4. account[l].age = 0
        BY <3>2, <3>3, <2>2 DEF Young
      <3> QED BY <3>1, <3>2, <3>4
    <2> QED BY <2>0, <2>1, <2>2 DEF MailStep
  <1>3. CASE SweepUnverified
    <2>1. pending' = pending
      BY <1>3 DEF SweepUnverified
    <2>2. /\ account[l].exists /\ account[l].link = l
          /\ account[l].verified \/ account[l].age <= pending[l].age
          /\ pending[l].age \in 0..Window
      BY <2>1 DEF Linked
    <2>3. ~Expired(l)
      BY <2>2, <1>a DEF Expired
    <2>4. account'[l] = account[l]
      BY <2>3, <1>3, <1>a, SweepStep
    <2> QED BY <2>1, <2>2, <2>4
  <1>4. CASE DayPasses
    <2>1. RowAges(l)
      BY <1>4, <1>a, DayStep
    <2>2. PICK q \in [age : Day \cup {None}, of : Account \cup {None}] : q = pending[l]
      BY DEF TInv, Typed1
    <2>3. pending'[l] = IF q.age \in 0..Lifetime THEN [q EXCEPT !.age = @ + 1] ELSE q
      BY <1>4, <2>2, DayStep
    <2>4. /\ q.of = l
          /\ q.age \in 0..Lifetime => pending'[l].age = q.age + 1
          /\ q.age \notin 0..Lifetime => pending'[l].age = q.age
      BY <2>3
    <2>5. q.age \in Day \cup {None}
      OBVIOUS
    <2>6. q.age \in 0..Window /\ pending'[l].age = q.age + 1
      BY <2>4, <2>5, <1>a DEF Day, None
    <2>7. /\ account[l].exists /\ account[l].link = l
          /\ account[l].verified \/ account[l].age <= q.age
      BY <2>2, <2>4, <2>6 DEF Linked
    <2> QED BY <2>1, <2>6, <2>7, <1>a DEF RowAges
  <1> QED BY <1>1, <1>2, <1>3, <1>4, StepKinds DEF Rest, Forget, vars

(* As long as the message says its link works, the account it is the first  *)
(* link of is there and has it: neither the sweep nor another request took  *)
(* either (verify.go, DeleteUnverifiedAccountsBefore's slack).              *)
THEOREM AccountsFirstLinkWorks == Spec => []FirstLinkWorks
  <1> DEFINE LInv == TInv /\ Parented /\ Fresh /\ Young /\ NoLink /\ Linked
  <1>1. Init => LInv
    <2> SUFFICES ASSUME Init PROVE LInv
      OBVIOUS
    <2>1. Young /\ NoLink
      BY FreshInit DEF Young, NoLink
    <2>2. Linked
      BY AccountsAssumption DEF Init, Linked, NoMail, None
    <2> QED BY <2>1, <2>2, TInvInit, ParentedInit, FreshInit
  <1>2. LInv /\ [Next]_vars => LInv'
    BY TInvStep, ParentedStep, FreshStep, YoungStep, NoLinkStep, LinkedStep
  <1>3. LInv => FirstLinkWorks
    BY DEF Linked, FirstLinkWorks
  <1> QED BY <1>1, <1>2, <1>3, PTL DEF Spec

=============================================================================

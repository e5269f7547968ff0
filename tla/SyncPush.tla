------------------------------ MODULE SyncPush ------------------------------
(***************************************************************************)
(* The push endpoint around the record store (server/sync.go handlePush):  *)
(* the response remembered for a batch id is looked up, the batch applied  *)
(* and its response remembered, in three transactions.  A batch may be     *)
(* delivered again: the client that never got the answer sends the same    *)
(* one, and the network may still hold the first.                          *)
(*                                                                         *)
(* Every step is a step of SyncStore, or leaves its variables alone.       *)
(***************************************************************************)
EXTENDS SyncStore, Sequences

CONSTANTS Batch,          \* batch ids
          Records,        \* per batch id, the records the client put in it
          MaxDeliveries,  \* bound on how often one batch reaches the server
          MaxMishaps      \* bound on failed statements, killed handlers and
                          \* answers forgotten after a day

ASSUME PushAssumption == /\ Records \in [Batch -> Seq(Incoming)]
                         /\ MaxDeliveries \in Nat
                         /\ MaxMishaps \in Nat

VARIABLES handler,   \* per goroutine, the request it is at
          base,      \* per batch, the baseRevision it carries; 0 for none
          memory,    \* the batch table: the cursor answered, or NotKept
          sent,      \* how often each batch has been delivered
          mishaps,   \* the mishaps so far
          \* history:
          applied,   \* how often each batch has been committed
          unsafe     \* batches whose deliveries met, or whose response was
                     \* not remembered or is remembered no more

pushVars == <<handler, base, memory, sent, mishaps, applied, unsafe>>
allVars == <<storeVars, pushVars>>

NotKept == -1

(* phase "idle" -> "lookup" -> "apply" -> "done" (committed).  `at' is the  *)
(* record applyOne has reached, `told' the keys reported over a conflict.   *)
Idle(b) == [phase |-> "idle", batch |-> b, at |-> 0, told |-> {}, cursor |-> 0]

InitPush ==
    /\ InitStore
    /\ handler \in [Writer -> {Idle(b) : b \in Batch}]
    /\ base = [b \in Batch |-> 0]
    /\ memory = [b \in Batch |-> NotKept]
    /\ sent = [b \in Batch |-> 0]
    /\ mishaps = 0
    /\ applied = [b \in Batch |-> 0]
    /\ unsafe = {}

-----------------------------------------------------------------------------
Busy(b) == \E w \in Writer : handler[w].batch = b /\ handler[w].phase # "idle"

(* A delivery arrives; the first carries what its sender had seen by then.  *)
Receive(w, b) ==
    /\ handler[w].phase = "idle"
    /\ sent[b] < MaxDeliveries
    /\ sent' = [sent EXCEPT ![b] = @ + 1]
    /\ base' \in IF sent[b] = 0 THEN {[base EXCEPT ![b] = r] : r \in 0..revision} ELSE {base}
    /\ handler' = [handler EXCEPT ![w] = [Idle(b) EXCEPT !.phase = "lookup"]]
    /\ unsafe' = IF Busy(b) THEN unsafe \cup {b} ELSE unsafe
    /\ UNCHANGED <<storeVars, memory, mishaps, applied>>

(* Mutant: the handler never looks. *)
NeverReplayed(b) == FALSE

(* BatchResponse found a row.                                               *)
Replayed(b) == memory[b] # NotKept

(* BatchResponse: the stored answer again, or on to the batch.              *)
Lookup(w) ==
    /\ handler[w].phase = "lookup"
    /\ Quiet
    /\ LET b == handler[w].batch
       IN  handler' = [handler EXCEPT ![w] = IF Replayed(b) THEN Idle(b)
                                             ELSE [@ EXCEPT !.phase = "apply"]]
    /\ UNCHANGED <<storeVars, base, memory, sent, mishaps, applied, unsafe>>

StartBatch(w) ==
    /\ handler[w].phase = "apply"
    /\ Begin(w)
    /\ handler' = [handler EXCEPT ![w].at = 1]
    /\ UNCHANGED <<base, memory, sent, mishaps, applied, unsafe>>

(* applyOne's outcome: applied_over_conflict names a row that was written   *)
(* since the sender saw it.                                                 *)
OverConflict(w, in) ==
    /\ ~AlreadyPresent(w, in)
    /\ base[handler[w].batch] # 0
    /\ Seen(w, in.key).revision > base[handler[w].batch]

ApplyNext(w) ==
    LET h == handler[w]
    IN  /\ h.phase = "apply"
        /\ h.at \in DOMAIN Records[h.batch]
        /\ LET in == Records[h.batch][h.at]
           IN  /\ ApplyOne(w, in)
               /\ handler' = [handler EXCEPT ![w].at = @ + 1,
                                  ![w].told = IF OverConflict(w, in) THEN @ \cup {in.key} ELSE @]
        /\ UNCHANGED <<base, memory, sent, mishaps, applied, unsafe>>

Finish(w) ==
    LET b == handler[w].batch
    IN  /\ handler[w].at = Len(Records[b]) + 1
        /\ Commit(w)
        /\ handler' = [handler EXCEPT ![w].phase = "done", ![w].cursor = revision']
        /\ applied' = [applied EXCEPT ![b] = @ + 1]
        /\ UNCHANGED <<base, memory, sent, mishaps, unsafe>>

(* INSERT ... ON CONFLICT DO NOTHING: the first answer stays.               *)
Remembered(b, cursor) == [memory EXCEPT ![b] = IF @ = NotKept THEN cursor ELSE @]

(* SaveBatchResponse, and the answer.                                       *)
Save(w) ==
    /\ handler[w].phase = "done"
    /\ Quiet
    /\ memory' = Remembered(handler[w].batch, handler[w].cursor)
    /\ handler' = [handler EXCEPT ![w] = Idle(@.batch)]
    /\ UNCHANGED <<storeVars, base, sent, mishaps, applied, unsafe>>

(* The handler ends here: a statement fails, the request is cancelled, or   *)
(* the server is killed.  Before the commit the client is owed nothing;     *)
(* after it the batch is written and not remembered, answered or not.       *)
FailBatch(w) ==
    /\ handler[w].phase # "idle"
    /\ mishaps < MaxMishaps
    /\ mishaps' = mishaps + 1
    /\ IF tx[w].open THEN Rollback(w) ELSE UNCHANGED storeVars
    /\ unsafe' = IF handler[w].phase = "done" THEN unsafe \cup {handler[w].batch} ELSE unsafe
    /\ handler' = [handler EXCEPT ![w] = Idle(@.batch)]
    /\ UNCHANGED <<base, memory, sent, applied>>

(* Sweep, last statement: the answers of more than a day ago.               *)
SweepBatches(b) ==
    /\ Quiet
    /\ memory[b] # NotKept
    /\ mishaps < MaxMishaps
    /\ mishaps' = mishaps + 1
    /\ memory' = [memory EXCEPT ![b] = NotKept]
    /\ unsafe' = unsafe \cup {b}
    /\ UNCHANGED <<storeVars, handler, base, sent, applied>>

-----------------------------------------------------------------------------
Handle(w) == \/ \E b \in Batch : Receive(w, b)
             \/ Lookup(w)
             \/ StartBatch(w)
             \/ ApplyNext(w)
             \/ Finish(w)
             \/ Save(w)
             \/ FailBatch(w)

NextPush == \/ \E w \in Writer : Handle(w)
            \/ Housekeep /\ UNCHANGED pushVars
            \/ \E b \in Batch : SweepBatches(b)

SpecPush == InitPush /\ [][NextPush]_allVars

-----------------------------------------------------------------------------
(* A transaction is open exactly while its handler applies a batch, and     *)
(* what is remembered was once the counter.                                 *)
PushTypeOK ==
    /\ handler \in [Writer -> [phase : {"idle", "lookup", "apply", "done"}, batch : Batch,
                               at : Nat, told : SUBSET Key, cursor : Nat]]
    /\ \A w \in Writer : tx[w].open <=> handler[w].phase = "apply" /\ handler[w].at > 0
    /\ \A b \in Batch : memory[b] \in {NotKept} \cup 0..revision /\ base[b] \in 0..revision

(* "A retry after a timeout [...] returns the stored response rather than   *)
(* applying twice" (doc 02): as long as two deliveries of the batch never   *)
(* meet and its response was remembered, it is committed once, however many *)
(* deliveries there are and whatever else is pushed in between.             *)
RetryIsNoOp == \A b \in Batch : b \in unsafe \/ applied[b] <= 1

(* No silent overwrite (applyOne): whoever replaces a row written since it  *)
(* looked is told which, also when that write came in while its own batch   *)
(* was on the way or waited for the lock.                                   *)
OverwritesTold ==
    [][\A w \in Writer, k \in Key :
          LET b == handler[w].batch
          IN  /\ applied'[b] > applied[b]
              /\ handler[w].phase = "apply" /\ handler'[w].phase = "done"
              /\ record'[k] # record[k]
              /\ base[b] # 0
              /\ record[k].revision > base[b]
              => k \in handler[w].told]_allVars

=============================================================================

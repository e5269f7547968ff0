----------------------------- MODULE MCSyncPush -----------------------------
(* Two goroutines, a batch with an event and an edit, and a batch from      *)
(* elsewhere that deletes the row the first one edits.                      *)
EXTENDS SyncPush, TLC

CONSTANTS event, play, w1, w2, b1, mine, theirs

MCKey == {event, play}
MCAppendOnly == {event}
MCRecords == mine :> <<[key |-> event, deleted |-> FALSE, body |-> b1],
                       [key |-> play, deleted |-> FALSE, body |-> b1]>>
          @@ theirs :> <<[key |-> play, deleted |-> TRUE, body |-> b1]>>
Symmetry == Permutations({w1, w2})
=============================================================================

--------------------------- MODULE MCSyncDevices ---------------------------
(* A play, a rating that cites it, and a campaign event. *)
EXTENDS SyncDevices, TLC

CONSTANTS play, rating, event, d1, d2

PlayAndRating == {play, rating}
AllThree == {play, rating, event}
MCRule == [k \in Key |-> IF k = play THEN "take"
                         ELSE IF k = rating THEN "latest" ELSE "event"]
MCCites == [k \in Key |-> IF k = rating THEN {play} ELSE {}]
(* COLLECTIONS: campaign events, then plays, then ratings. *)
MCOrder == {<<event, play>>, <<event, rating>>, <<play, rating>>}
            \cap (Key \X Key)
Swap == Permutations({d1, d2})
=============================================================================

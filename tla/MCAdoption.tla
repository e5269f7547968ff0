----------------------------- MODULE MCAdoption -----------------------------
(* One browser that comes and goes beside one that stays. *)
EXTENDS Adoption

CONSTANTS play, rating, d1, d2

MCKey == {play, rating}
MCRule == [k \in Key |-> IF k = rating THEN "latest" ELSE "take"]
MCCites == [k \in Key |-> {}]
MCOrder == {<<play, rating>>} \cap (Key \X Key)
=============================================================================

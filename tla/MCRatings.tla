----------------------------- MODULE MCRatings -----------------------------
(* Two pairings of one modular set, and the bare set they feed. *)
EXTENDS Ratings, TLC

CONSTANTS atRhino, atKlaw, bombScare

MCFeeds == [s \in {atRhino, atKlaw} |-> bombScare]

(* Accounts are interchangeable, and so are two pairings of the same set. *)
Symmetric == Permutations(Account) \cup Permutations(Subject)
=============================================================================

---------------------------- MODULE MCSyncFeed ----------------------------
(* One browser, one writer, two records, each of a collection that one of  *)
(* the builds does not read.                                               *)
EXTENDS SyncFeed

CONSTANTS play, rating

MCKey == {play, rating}
OneBuild == {MCKey}
ThreeBuilds == {{play}, {rating}, MCKey}
=============================================================================

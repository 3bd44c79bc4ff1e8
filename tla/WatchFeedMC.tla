---------------------------- MODULE WatchFeedMC ----------------------------
(* An instance of WatchFeed for TLC. *)
EXTENDS WatchFeed
=============================================================================

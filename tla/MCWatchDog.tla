----------------------------- MODULE MCWatchDog -----------------------------
(* An instance of WatchDog for TLC: its constants are numbers.             *)
EXTENDS WatchDog
=============================================================================

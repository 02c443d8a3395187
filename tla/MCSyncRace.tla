----------------------------- MODULE MCSyncRace -----------------------------
(* The fuzzers and the maps of MCGlobalSync, with the race recorded.       *)
EXTENDS SyncRace, MCGlobalSync
=============================================================================

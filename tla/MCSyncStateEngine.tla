-------------------------- MODULE MCSyncStateEngine --------------------------
(* Values for checking SyncStateEngineHistory.  The offsets sit on, just    *)
(* below and just above each threshold, on both sides of zero.              *)
EXTENDS SyncStateEngineHistory

MCOffset == {-4, -2, 1, 3}
MCPrecision == {0, 2}
=============================================================================

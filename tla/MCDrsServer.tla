----------------------------- MODULE MCDrsServer -----------------------------
(* Values for checking DrsServer: one good and one lost       *)
(* offset, one variant.   *)
EXTENDS DrsServer

MCOffset == {-3, 1}
MCPrecision == {1}
=============================================================================

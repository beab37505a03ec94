--------------------------- MODULE MCRosterRuntime ---------------------------
(* Values for checking RosterRuntime: two instances and entries that cover  *)
(* a shared port, a move, a change of variant only, an unknown variant and  *)
(* an unsupported transport.                                                *)
EXTENDS RosterRuntime

CONSTANTS rdfs, jam, ghost

At(v, port, protocol) == [variant |-> v, port |-> port, peer |-> 9, protocol |-> protocol]

MCVariant == {rdfs, jam, ghost}
MCProfiles == {rdfs, jam}
MCEntry ==
  {At(rdfs, 1, "tcp"), At(rdfs, 2, "tcp"), At(jam, 1, "tcp"), At(ghost, 1, "tcp"),
   At(rdfs, 2, "udp")}
=============================================================================

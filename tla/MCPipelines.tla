---------------------------- MODULE MCPipelines ----------------------------
(***************************************************************************)
(* The pipelines for TLC: a run computes either one exercise's document    *)
(* from its scenario or mvp's synthetic line of sight.                     *)
(***************************************************************************)
EXTENDS CzmlDocument, LosScan

PlanBudget == [AreaTarget |-> 2, Aircraft |-> 3, Facility |-> 1, Sensor |-> 1]

Column(a, b, c) == [lat |-> a, lon |-> b, val |-> c]

ColumnLengths == {Column(0, 0, 0), Column(3, 3, 3), Column(3, 3, 2), Column(1, 1, 1)}

\* A file with a coverage over the second of its two areas, and one with none.
Files ==
  LET plane == Object("Aircraft", "P", None)
      site  == Object("Facility", "F", None)
      areas == <<Object("AreaTarget", "T1", None), Object("AreaTarget", "T2", None)>>
  IN {[objects |-> <<plane, Object("Sensor", "S", plane), site, Object("Sensor", "S", site)>> \o areas,
       coverage |-> [target |-> "T2", assets |-> {plane}], accesses |-> <<<<plane, site>>>>],
      [objects |-> <<site>>, coverage |-> None, accesses |-> <<>>]}

ExerciseDurations == {-3, 0, 1, 12, 13}

Renaming == Permutations(Names)

Init == LosInit /\ DocumentInit

Next ==
  \/ step = "scenario" /\ stage = "drawing" /\ entities = <<>>
     /\ LosNext /\ UNCHANGED <<planVars, docVars>>
  \/ losStep = "tracks" /\ duration = 0
     /\ DocumentNext /\ UNCHANGED losVars

Spec == Init /\ [][Next]_<<planVars, docVars, losVars>>
=============================================================================

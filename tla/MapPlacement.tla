----------------------------- MODULE MapPlacement -----------------------------
(***************************************************************************)
(* mvp4: entities are placed by clicks on the map.  Everything runs on one  *)
(* thread, but the backend pumps the message loop after each change, so a   *)
(* handler may be suspended in its backend call while others run to their   *)
(* end: InteractionController, the mouse forwarders of StkDisplayHost and   *)
(* StkScenarioBackend.                                                      *)
(*                                                                          *)
(* A step is what the thread does up to the next pump or the handler's end. *)
(***************************************************************************)
EXTENDS Naturals, Sequences, FiniteSets, Functions

CONSTANTS
  Points,       \* places the mouse can pick on the globe
  Kinds,        \* what the toolbar offers, out of DOMAIN Minimum
  None,
  MaxGestures,  \* bound: placements begun
  MaxNumber,    \* bound: entities of a kind
  MaxPoints,    \* bound: points and dots on the map when a click adds one
  MaxDepth      \* bound: handlers suspended in a pump at a time

VARIABLES
  mode,         \* Mode: "Idle", "EditingEntity" or the kind being placed
  pending,      \* _pendingPoints
  editingPath,  \* EditingPath
  entities,     \* STK: name -> shape (the points it was given) and gesture (history)
  stack,        \* suspended finalizations, innermost first
  placed,       \* StkDisplayHost._placedPoints: the dots of the preview
  preview,      \* StkDisplayHost._previewPointBatch exists
  gesture,      \* history: placements begun
  drawn,        \* history: what the operator ended each of them with
  gone          \* history: names removed while their placement was suspended

controller == <<mode, pending, editingPath>>
host == <<placed, preview>>
history == <<gesture, drawn, gone>>
mapVars == <<controller, entities, stack, host, history>>

Minimum == [Facility |-> 1, Aircraft |-> 2, AreaTarget |-> 3]

Gestures == 1..MaxGestures

\* A name is its kind and its number, "Aircraft" 1 and so on.
Names == Kinds \X (1..MaxNumber)

MapAssumption ==
  /\ Kinds \subseteq DOMAIN Minimum
  /\ None \notin Points \union Names
  /\ MaxGestures \in Nat /\ MaxNumber \in Nat /\ MaxPoints \in Nat /\ MaxDepth \in Nat
ASSUME MapAssumption

Undrawn == [shape |-> <<>>, ending |-> "none"]

Multipoint == Kinds \ {"Facility"}

Placing == mode \in Kinds

-----------------------------------------------------------------------------
Init ==
  /\ mode = "Idle" /\ pending = <<>> /\ editingPath = None
  /\ entities = <<>>
  /\ stack = <<>>
  /\ placed = <<>> /\ preview = FALSE
  /\ gesture = 0 /\ drawn = [g \in Gestures |-> Undrawn] /\ gone = {}

(* The mode, and with it the host's preview.                                *)

\* Where STK cannot create the primitives, placement goes on without them.
CreatePlacementPreview == placed' = <<>> /\ preview' \in BOOLEAN

DisposePlacementPreview == placed' = <<>> /\ preview' = FALSE

ModeChanged(m) ==
  /\ mode' = m
  /\ IF m \in Kinds THEN CreatePlacementPreview ELSE DisposePlacementPreview

\* Fault: the mode and the points outlive the placement.
FaultReturnToIdle == UNCHANGED <<mode, pending, host>>

ReturnToIdle == ModeChanged("Idle") /\ pending' = <<>>

\* What Cancel leaves to the method that calls it first; idle, it does nothing.
AfterCancel(value, cleared) == IF mode = "Idle" THEN value ELSE cleared

BeginPlace(kind) ==
  /\ gesture < MaxGestures
  /\ pending' = AfterCancel(pending, <<>>)
  /\ editingPath' = AfterCancel(editingPath, None)
  /\ ModeChanged(kind)
  /\ gesture' = gesture + 1
  /\ UNCHANGED <<entities, stack, drawn, gone>>

StartEditingOnMap(path) ==
  /\ pending' = AfterCancel(pending, <<>>)
  /\ ModeChanged("EditingEntity")
  /\ editingPath' = path
  /\ UNCHANGED <<entities, stack, history>>

\* ApplyEdit and CancelEdit do the same to the controller.
EndEdit ==
  /\ mode = "EditingEntity"
  /\ editingPath' = None
  /\ ReturnToIdle
  /\ UNCHANGED <<entities, stack, history>>

Cancel ==
  /\ mode # "Idle"
  /\ editingPath' = None
  /\ ReturnToIdle
  /\ UNCHANGED <<entities, stack, history>>

-----------------------------------------------------------------------------
(* Finalizing: name and shape are fixed, the mode is reset, and only then   *)
(* does the backend create the entity and pump.                             *)

UniqueName(name) ==
  /\ name \notin DOMAIN entities
  /\ \A i \in 1..(name[2] - 1) : <<name[1], i>> \in DOMAIN entities

Finalize(shape, ending, click) ==
  /\ Len(stack) < MaxDepth
  /\ \E i \in 1..MaxNumber :
       LET name == <<mode, i>> IN
       /\ UniqueName(name)
       /\ entities' = [n \in DOMAIN entities \union {name} |->
                         IF n = name THEN [shape |-> <<>>, gesture |-> gesture] ELSE entities[n]]
       /\ stack' = <<[at |-> "adding", name |-> name, gesture |-> gesture,
                       shape |-> shape, click |-> click]>> \o stack
  /\ drawn' = [drawn EXCEPT ![gesture] = [shape |-> shape, ending |-> ending]]
  /\ ReturnToIdle
  /\ UNCHANGED <<editingPath, gesture, gone>>

\* A left click while a facility is placed.
PlaceFacility(p) ==
  /\ mode = "Facility"
  /\ Finalize(<<p>>, "click", p)

\* The forwarder's dot, if there is a preview to put it in.
AppendPlacedPoint(p) == placed' = IF preview THEN Append(placed, p) ELSE placed

\* A left click on a route or an area; the forwarder adds a dot.
AddPoint(p) ==
  /\ mode \in Multipoint
  /\ Len(placed) < MaxPoints /\ Len(pending) < MaxPoints
  /\ pending' = Append(pending, p)
  /\ AppendPlacedPoint(p)
  /\ UNCHANGED <<mode, editingPath, entities, stack, preview, history>>

\* Fault: one copy of the double-clicked point is taken off, not all of them.
FaultTrimTrailingDuplicates(p) ==
  {IF pending # <<>> /\ pending[Len(pending)] = p
   THEN SubSeq(pending, 1, Len(pending) - 1) ELSE pending}

\* The pending points without the copies of p at their end (one sequence).
TrimTrailingDuplicates(p) ==
  {SubSeq(pending, 1, k) : k \in
     {k \in 0..Len(pending) : /\ k > 0 => pending[k] # p
                              /\ \A i \in (k + 1)..Len(pending) : pending[i] = p}}

\* What a double click at p leaves, p being None if it was off the globe.
AtDblClick(p) == IF p = None THEN {pending} ELSE TrimTrailingDuplicates(p)

\* Fault: a point is added though the click was off the globe.
FaultWithDblClick(points, p) ==
  IF Len(points) >= Minimum[mode] - 1 THEN Append(points, p) ELSE points

\* The double-clicked point joins points that can be completed.
WithDblClick(points, p) ==
  IF p # None /\ Len(points) >= Minimum[mode] - 1 THEN Append(points, p) ELSE points

\* The second click of a double click or a right click; no dot is added.
DblClickFinalizes(p) ==
  /\ mode \in Multipoint
  /\ \E points \in AtDblClick(p) :
       /\ Len(WithDblClick(points, p)) >= Minimum[mode]
       /\ Finalize(WithDblClick(points, p), IF p = None THEN "off map" ELSE "double click", None)

DblClickGoesOn(p) ==
  /\ mode \in Multipoint
  /\ \E points \in AtDblClick(p) :
       /\ Len(WithDblClick(points, p)) < Minimum[mode]
       /\ pending' = WithDblClick(points, p)
  /\ UNCHANGED <<mode, editingPath, entities, stack, host, history>>

\* Enter.
FinalizePlacement ==
  /\ mode \in Multipoint
  /\ Len(pending) >= Minimum[mode]
  /\ Finalize(pending, "Enter", None)

-----------------------------------------------------------------------------
(* The pump ends and the innermost suspended handler goes on.               *)

Waiting(at) == stack # <<>> /\ Head(stack).at = at

\* Fault: the shape is read after the pump.
FaultAddReturns ==
  /\ Waiting("adding")
  /\ LET f == Head(stack) IN
     /\ f.name \in DOMAIN entities
     /\ entities' = [entities EXCEPT ![f.name].shape = pending]
     /\ stack' = <<[f EXCEPT !.at = "updating"]>> \o Tail(stack)
  /\ UNCHANGED <<controller, host, history>>

\* AddEntity has returned: UpdateFacility, UpdateAircraft or UpdateAreaTarget.
AddReturns ==
  /\ Waiting("adding")
  /\ LET f == Head(stack) IN
     /\ f.name \in DOMAIN entities
     /\ entities' = [entities EXCEPT ![f.name].shape = f.shape]
     /\ stack' = <<[f EXCEPT !.at = "updating"]>> \o Tail(stack)
  /\ UNCHANGED <<controller, host, history>>

\* Its entity has been removed meanwhile, even if the name is taken again:
\* AddEntity or the update throws.
UpdateFails ==
  /\ Waiting("adding")
  /\ LET f == Head(stack) IN
     \A n \in DOMAIN entities : n = f.name => entities[n].gesture # f.gesture
  /\ stack' = Tail(stack)
  /\ UNCHANGED <<controller, entities, host, history>>

\* Back in the forwarder, which adds a dot if something is being placed now.
UpdateReturns ==
  /\ Waiting("updating")
  /\ IF Placing /\ Head(stack).click # None
     THEN AppendPlacedPoint(Head(stack).click) ELSE UNCHANGED placed
  /\ stack' = Tail(stack)
  /\ UNCHANGED <<controller, entities, preview, history>>

-----------------------------------------------------------------------------
(* Other commands that change the scenario.                                 *)

SuspendedNames == {stack[i].name : i \in DOMAIN stack}

Drop(names) ==
  /\ entities' = Restrict(entities, DOMAIN entities \ names)
  /\ gone' = gone \union (names \intersect SuspendedNames)
  /\ UNCHANGED <<controller, stack, host, gesture, drawn>>

RemoveEntity(name) == name \in DOMAIN entities /\ Drop({name})

NewScenario == entities # <<>> /\ Drop(DOMAIN entities)

-----------------------------------------------------------------------------
\* Steps after which the backend raises ScenarioChanged.
ChangesScenario ==
  \/ \E p \in Points : PlaceFacility(p)
  \/ \E p \in Points \union {None} : DblClickFinalizes(p)
  \/ FinalizePlacement
  \/ AddReturns
  \/ \E name \in Names : RemoveEntity(name)
  \/ NewScenario

Places ==
  \/ \E kind \in Kinds : BeginPlace(kind)
  \/ \E p \in Points : AddPoint(p)
  \/ \E p \in Points \union {None} : DblClickGoesOn(p)
  \/ UpdateFails \/ UpdateReturns

Next ==
  \/ ChangesScenario
  \/ Places
  \/ \E path \in DOMAIN entities : StartEditingOnMap(path)
  \/ EndEdit \/ Cancel

Spec == Init /\ [][Next]_mapVars

-----------------------------------------------------------------------------
(* Properties.                                                              *)

Endings == {"none", "click", "double click", "off map", "Enter"}

Frame == [at : {"adding", "updating"}, name : Names, gesture : Gestures,
          shape : Seq(Points), click : Points \union {None}]

\* Types of the controller's, STK's, the host's and the history's variables.
MapTypeOK ==
  /\ mode \in {"Idle", "EditingEntity"} \union Kinds
  /\ pending \in Seq(Points)
  /\ editingPath \in Names \union {None}
  /\ entities \in [DOMAIN entities -> [shape : Seq(Points), gesture : Gestures]]
  /\ DOMAIN entities \subseteq Names
  /\ stack \in Seq(Frame)
  /\ placed \in Seq(Points) /\ preview \in BOOLEAN
  /\ gesture \in 0..MaxGestures
  /\ drawn \in [Gestures -> [shape : Seq(Points), ending : Endings]]
  /\ gone \subseteq Names

\* Points are pending only while a route or an area is drawn, and a path is
\* edited only in that mode, whatever was interrupted by what
\* (InteractionController's Cancel before each new gesture).
ModeOwnsItsState ==
  /\ pending # <<>> => mode \in Multipoint
  /\ editingPath # None <=> mode = "EditingEntity"

\* One placement makes one entity, however many clicks re-enter the controller
\* from the pumps of AddEntity and Update (the reset before the backend calls).
OneEntityPerGesture ==
  \A m, n \in DOMAIN entities : entities[m].gesture = entities[n].gesture => m = n

\* An entity has the shape its placement was ended with, whatever ran while the
\* backend pumped, unless it was removed in the meantime; before, it has none
\* and its update is under way (the DTO is built before AddEntity).
PlacedAsDrawn ==
  \A n \in DOMAIN entities \ gone :
    \/ entities[n].shape = drawn[entities[n].gesture].shape
    \/ /\ entities[n].shape = <<>>
       /\ \E i \in DOMAIN stack : stack[i].name = n /\ stack[i].at = "adding"

\* A route or area that a double click on the globe ended does not end with
\* coincident points (TrimTrailingDuplicates).
DblClickEndsOnce ==
  \A g \in Gestures :
    drawn[g].ending = "double click" =>
      LET s == drawn[g].shape IN s[Len(s)] # s[Len(s) - 1]

\* While there is a preview, every point that will be in the entity has its dot
\* on the map, whatever the pump did between them ("orange-red dots mark committed
\* points"); without one no dot is left from before.  The converse fails when a
\* double click takes points back (StkDisplayHost._placedPoints).
PointsAreDotted ==
  /\ preview => Range(pending) \subseteq Range(placed)
  /\ ~preview => placed = <<>>
===============================================================================

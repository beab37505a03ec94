---------------------------- MODULE ScenarioPlan ----------------------------
(***************************************************************************)
(* mvp2's plan and the STK scenario built from it.  The planner page keeps *)
(* a list of drawn entities, addressed by their names; Submit sends the    *)
(* list, and build_stk_scenario_v2 creates one STK object per entity, then *)
(* a coverage of the first area target and the accesses between aircraft.  *)
(* The builder, too, finds its objects by name.                            *)
(***************************************************************************)
EXTENDS Naturals, Sequences, FiniteSets, SequencesExt

CONSTANTS
  Names,     (* names of entities: generated on drawing or typed *)
  Budget,    (* bound: entities of each type in a plan *)
  None       (* no parent, no object, no coverage *)

EntityTypes == {"AreaTarget", "Aircraft", "Facility", "Sensor"}

ASSUME PlanAssumption ==
  /\ Budget \in [EntityTypes -> Nat]
  /\ None \notin Names

VARIABLES
  entities,    (* DrawingStateService.entities *)
  stage,       (* "drawing", "adding", "pairing", "built", "failed" *)
  k,           (* the entity the builder is at *)
  objects,     (* the scenario's objects in the order of their creation *)
  stkObjects,  (* name -> the object the builder finds under it *)
  coverage,    (* the coverage definition: its target and assets *)
  accesses     (* the computed accesses, in order *)

planVars == <<entities, stage, k, objects, stkObjects, coverage, accesses>>

Entity(type, name, parent) == [type |-> type, name |-> name, parent |-> parent]

\* An STK object: its class, its name, and the object above it.
Object(class, name, under) == [class |-> class, name |-> name, under |-> under]

NamesIn(plan) == {e.name : e \in ToSet(plan)}

\* The elements of s that are in T, in their order.
Filter(s, T) ==
  LET upTo[i \in 0..Len(s)] ==
        IF i = 0 THEN <<>>
        ELSE IF s[i] \in T THEN Append(upTo[i - 1], s[i]) ELSE upTo[i - 1]
  IN upTo[Len(s)]

OfType(plan, type) == Filter(plan, {e \in ToSet(plan) : e.type = type})

HasRoom(type) == Len(OfType(entities, type)) < Budget[type]

(***************************************************************************)
(* The planner page.                                                       *)
(***************************************************************************)
CommitEntity(e) ==
  /\ stage = "drawing"
  /\ HasRoom(e.type)
  /\ entities' = Append(entities, e)
  /\ UNCHANGED <<stage, k, objects, stkObjects, coverage, accesses>>

\* A drawn entity is named after its type and the time of day.
Draw(type, name) ==
  /\ type # "Sensor"
  /\ name \notin NamesIn(entities)
  /\ CommitEntity(Entity(type, name, None))

\* A sensor's name and parent are typed; neither is checked.
AddSensor(name, parent) == CommitEntity(Entity("Sensor", name, parent))

\* A new name must be free.  Sensors that name the entity as parent keep the old one.
SetName(old, new) ==
  /\ stage = "drawing"
  /\ old \in NamesIn(entities) /\ new \notin NamesIn(entities)
  /\ entities' = [i \in DOMAIN entities |->
       IF entities[i].name = old THEN [entities[i] EXCEPT !.name = new] ELSE entities[i]]
  /\ UNCHANGED <<stage, k, objects, stkObjects, coverage, accesses>>

\* Only a sensor's form shows the field; every entity of its name is updated.
SetSensorParent(name, parent) ==
  /\ stage = "drawing"
  /\ \E e \in ToSet(entities) : e.name = name /\ e.type = "Sensor"
  /\ entities' = [i \in DOMAIN entities |->
       IF entities[i].name = name THEN [entities[i] EXCEPT !.parent = parent] ELSE entities[i]]
  /\ UNCHANGED <<stage, k, objects, stkObjects, coverage, accesses>>

DeleteEntity(name) ==
  /\ stage = "drawing"
  /\ name \in NamesIn(entities)
  /\ entities' = Filter(entities, {e \in ToSet(entities) : e.name # name})
  /\ UNCHANGED <<stage, k, objects, stkObjects, coverage, accesses>>

\* The old scenario is closed and an empty one opened.
Submit ==
  /\ stage = "drawing"
  /\ stage' = "adding"
  /\ UNCHANGED <<entities, k, objects, stkObjects, coverage, accesses>>

(***************************************************************************)
(* The builder.                                                            *)
(***************************************************************************)
\* STK refuses a second object of a class and name in one place, and a sensor
\* on anything but a vehicle or a facility.
Accepts(o) ==
  /\ o \notin ToSet(objects)
  /\ o.class = "Sensor" => o.under # None /\ o.under.class \in {"Aircraft", "Facility"}

Create(o) ==
  IF Accepts(o)
  THEN /\ objects' = Append(objects, o)
       /\ stkObjects' = [stkObjects EXCEPT ![o.name] = o]
       /\ k' = k + 1
       /\ UNCHANGED stage
  ELSE /\ stage' = "failed"
       /\ UNCHANGED <<objects, stkObjects, k>>

AddPlaced ==
  /\ stage = "adding" /\ k <= Len(entities)
  /\ entities[k].type # "Sensor"
  /\ Create(Object(entities[k].type, entities[k].name, None))
  /\ UNCHANGED <<entities, coverage, accesses>>

\* A parent that is not there yet raises ValueError; one that was replaced under
\* its name is not noticed.
AddSensorObject ==
  /\ stage = "adding" /\ k <= Len(entities)
  /\ entities[k].type = "Sensor"
  /\ LET parent == IF entities[k].parent \in Names THEN stkObjects[entities[k].parent] ELSE None
     IN Create(Object("Sensor", entities[k].name, parent))
  /\ UNCHANGED <<entities, coverage, accesses>>

\* The objects found under the names of the plan's aircraft.
AircraftObjects ==
  LET planes == OfType(entities, "Aircraft")
  IN [i \in DOMAIN planes |-> stkObjects[planes[i].name]]

\* Coverage is built for the first area target.  An asset is named by class and
\* name, which names no object when it lies under another.
AddCoverage ==
  /\ stage = "adding" /\ k > Len(entities)
  /\ LET targets == OfType(entities, "AreaTarget") IN
       IF targets # <<>> /\ AircraftObjects # <<>>
       THEN IF \A o \in ToSet(AircraftObjects) : o.under = None
            THEN /\ coverage' = [target |-> targets[1].name, assets |-> ToSet(AircraftObjects)]
                 /\ stage' = "pairing"
            ELSE stage' = "failed" /\ UNCHANGED coverage
       ELSE stage' = "pairing" /\ UNCHANGED coverage
  /\ UNCHANGED <<entities, k, objects, stkObjects, accesses>>

FaultPairs(objs) ==        \* the inner loop starts at the object itself
  FlattenSeq([i \in DOMAIN objs |-> [j \in 1..Len(objs) - i + 1 |-> <<objs[i], objs[i + j - 1]>>]])

\* Every pair of the list, in the order of the two nested loops.
Pairs(objs) ==
  FlattenSeq([i \in DOMAIN objs |-> [j \in 1..Len(objs) - i |-> <<objs[i], objs[i + j]>>]])

ComputeAccesses ==
  /\ stage = "pairing"
  /\ accesses' = Pairs(AircraftObjects)
  /\ stage' = "built"
  /\ UNCHANGED <<entities, k, objects, stkObjects, coverage>>

PlanInit ==
  /\ entities = <<>> /\ stage = "drawing" /\ k = 1
  /\ objects = <<>> /\ stkObjects = [n \in Names |-> None]
  /\ coverage = None /\ accesses = <<>>

PlanNext ==
  \/ \E type \in EntityTypes, name \in Names : Draw(type, name)
  \/ \E name, parent \in Names : AddSensor(name, parent) \/ SetName(name, parent)
  \/ \E name \in Names, parent \in Names \union {None} : SetSensorParent(name, parent)
  \/ \E name \in Names : DeleteEntity(name)
  \/ Submit \/ AddPlaced \/ AddSensorObject \/ AddCoverage \/ ComputeAccesses

PlanSpec == PlanInit /\ [][PlanNext]_planVars

(***************************************************************************)
(* Properties.                                                             *)
(***************************************************************************)
UniqueNames == \A i, j \in DOMAIN entities : entities[i].name = entities[j].name => i = j

Aircraft == {o \in ToSet(objects) : o.class = "Aircraft"}

Joins(access, a, b) == {access[1], access[2]} = {a, b}

\* Of a plan whose names differ, whatever was renamed, reparented or deleted in
\* between, every two aircraft get one access and nothing else gets any.
AircraftPairsOnce ==
  stage = "built" /\ UniqueNames =>
    /\ \A i \in DOMAIN accesses :
         /\ accesses[i][1] \in Aircraft /\ accesses[i][2] \in Aircraft
         /\ accesses[i][1] # accesses[i][2]
    /\ \A a, b \in Aircraft : a # b =>
         \E i \in DOMAIN accesses :
           /\ Joins(accesses[i], a, b)
           /\ \A j \in DOMAIN accesses : Joins(accesses[j], a, b) => j = i
=============================================================================

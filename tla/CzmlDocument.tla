---------------------------- MODULE CzmlDocument ----------------------------
(***************************************************************************)
(* From a scenario to the CZML document a client loads, by each service:   *)
(*                                                                         *)
(*   mvp    STK's ExportCZML, sensors patched, heatmap, overlay; also the  *)
(*          upload of a user's image after the fact                        *)
(*   v13    mvp2's copy of that pipeline over a planned scenario           *)
(*   mvp3   a document read from data providers                            *)
(*   mock2, mock3   the documents of the services without STK              *)
(*                                                                         *)
(* A packet is its id, its kind, the packets it refers to, the number of   *)
(* its own position samples and, for an area, the polygon it shows; colours, *)
(* labels and coordinates are left out.                                    *)
(***************************************************************************)
EXTENDS ScenarioPlan

CONSTANTS
  Services,       (* the services considered *)
  FileScenarios,  (* scenarios a .sc or .vdf file may hold (mvp) *)
  Columns,        (* lengths of a data provider's columns *)
  MaxSamples      (* bound: position samples of an aircraft *)

(***************************************************************************)
(* Scenarios.  mvp and mvp3 build one of their own, with two aircraft, a   *)
(* sensor on each and the access both ways; mvp also loads files.          *)
(***************************************************************************)
FixedObjects ==
  LET emitter == Object("Aircraft", "EmitterAC", None)
      radar   == Object("Aircraft", "RadarAC", None)
  IN <<emitter, Object("Sensor", "EmissionCone", emitter),
       radar, Object("Sensor", "RadarCone", radar)>>

\* The objects STK can have: those that stand by themselves, and sensors on them.
Standing(o) ==
  /\ o = Object(o.class, o.name, None)
  /\ o.class \in {"AreaTarget", "Aircraft", "Facility"} /\ o.name # None

Mounted(o) ==
  /\ o = Object("Sensor", o.name, o.under) /\ o.name # None
  /\ o.under # None /\ Standing(o.under) /\ o.under.class # "AreaTarget"

WellFormed(objs) ==
  /\ objs \in Seq(ToSet(objs))
  /\ \A i \in DOMAIN objs :
       Standing(objs[i]) \/ (Mounted(objs[i]) /\ objs[i].under \in ToSet(objs))
  /\ \A i, j \in DOMAIN objs : objs[i] = objs[j] => i = j

\* Accesses are computed between objects that are somewhere.
Linked(pairs, objs) ==
  /\ pairs \in Seq(ToSet(pairs))
  /\ \A i \in DOMAIN pairs : \A end \in {1, 2} :
       pairs[i][end] \in ToSet(objs) /\ pairs[i][end].class # "AreaTarget"

ASSUME DocumentAssumption ==
  /\ Services \subseteq {"mvp", "v13", "mvp3", "mock2", "mock3"}
  /\ \A s \in FileScenarios : WellFormed(s.objects) /\ Linked(s.accesses, s.objects)
  /\ Columns \subseteq [lat : Nat, lon : Nat, val : Nat]
  /\ MaxSamples \in Nat
  /\ None \notin ToSet(FixedObjects) /\ None \notin {o.name : o \in ToSet(FixedObjects)}

VARIABLES
  service,    (* the service that computes *)
  step,       (* "scenario", "patch", "grid", "render", "inject", "done", "failed" *)
  packets,    (* the document *)
  provider,   (* data providers asked for the grid so far *)
  rows,       (* rows of the grid *)
  extent      (* what the image shows: a polygon's box, the grid's, a user's *)

docVars == <<service, step, packets, provider, rows, extent>>

Packet(id, kind, refs, samples, area) ==
  [id |-> id, kind |-> kind, refs |-> refs, samples |-> samples, area |-> area]

DocumentPacket == Packet(<<"document">>, "document", {}, 0, None)

PathOf(o) ==
  IF o.under = None THEN <<o.class, o.name>>
  ELSE <<o.under.class, o.under.name, o.class, o.name>>

Least(S) == CHOOSE x \in S : \A y \in S : x <= y

(***************************************************************************)
(* How a scenario comes about.                                             *)
(***************************************************************************)
BuildFixed ==
  /\ service \in {"mvp", "mvp3", "mock3"} /\ stage = "drawing"
  /\ objects' = FixedObjects
  /\ accesses' = <<<<FixedObjects[1], FixedObjects[3]>>, <<FixedObjects[3], FixedObjects[1]>>>>
  /\ stage' = "loaded"
  /\ UNCHANGED <<entities, k, stkObjects, coverage, docVars>>

LoadScenario ==
  /\ service = "mvp" /\ stage = "drawing"
  /\ \E s \in FileScenarios :
       objects' = s.objects /\ coverage' = s.coverage /\ accesses' = s.accesses
  /\ stage' = "loaded"
  /\ UNCHANGED <<entities, k, stkObjects, docVars>>

Built == stage \in {"built", "loaded"}

\* mvp2: the client plans; without STK the plan is only recorded.
BuildPlan ==
  /\ service = "v13" \/ (service = "mock2" /\ stage = "drawing")
  /\ step = "scenario"
  /\ PlanNext
  /\ UNCHANGED docVars

(***************************************************************************)
(* ExportCZML is STK's.  It writes the objects in the order of their       *)
(* creation; an aircraft's position is a list of samples or some other     *)
(* property; an area's polygon, each by itself, may be in a form the code   *)
(* does not read.                                                          *)
(***************************************************************************)
Areas == {o \in ToSet(objects) : o.class = "AreaTarget"}

ExportedObject(o, sampled, readable) ==
  CASE o.class = "Aircraft" ->
         Packet(PathOf(o), "platform", {}, IF o \in sampled THEN MaxSamples ELSE 0, None)
    [] o.class = "Facility" -> Packet(PathOf(o), "platform", {}, 0, None)
    [] o.class = "AreaTarget" ->
         Packet(PathOf(o), "area", {}, 0, IF o \in readable THEN o.name ELSE None)
    [] o.class = "Sensor" -> Packet(PathOf(o), "conic", {PathOf(o.under)}, 0, None)

FomPackets ==
  IF coverage = None THEN <<>>
  ELSE <<Packet(<<"CoverageDefinition", coverage.target, "FigureOfMerit", coverage.target>>,
                "figureofmerit", {}, 0, None)>>

LinePacket(p) ==
  Packet(<<"Access", PathOf(p[1]), PathOf(p[2])>>, "line", {PathOf(p[1]), PathOf(p[2])}, 0, None)

ExportCzml ==
  /\ service \in {"mvp", "v13"} /\ step = "scenario" /\ Built
  /\ \E sampled \in SUBSET Aircraft, readable \in SUBSET Areas :
       packets' = <<DocumentPacket>>
                  \o [i \in DOMAIN objects |-> ExportedObject(objects[i], sampled, readable)]
                  \o FomPackets
                  \o [i \in DOMAIN accesses |-> LinePacket(accesses[i])]
  /\ step' = "patch"
  /\ UNCHANGED <<planVars, service, provider, rows, extent>>

(***************************************************************************)
(* Sensors.  The cone gets the samples of its parent, moved down, or else  *)
(* refers to the parent's position.                                        *)
(***************************************************************************)
ConePositionAndOrientation(samples) == samples    \* one per sample of the aircraft

FaultPatched(p, doc) ==    \* a parent without samples gives the cone no position
  IF p.kind # "conic" THEN p
  ELSE LET parent == CHOOSE q \in ToSet(doc) : q.id \in p.refs IN
       [p EXCEPT !.kind = "cylinder", !.samples = parent.samples, !.refs = {}]

Patched(p, doc) ==
  IF p.kind # "conic" THEN p
  ELSE LET parent == CHOOSE q \in ToSet(doc) : q.id \in p.refs IN
       IF parent.samples > 0
       THEN [p EXCEPT !.kind = "cylinder", !.refs = {},
                      !.samples = ConePositionAndOrientation(parent.samples)]
       ELSE [p EXCEPT !.kind = "cylinder"]

PatchCzmlSensors ==
  /\ step = "patch"
  /\ packets' = [i \in DOMAIN packets |-> Patched(packets[i], packets)]
  /\ step' = IF coverage = None THEN "done" ELSE "grid"
  /\ UNCHANGED <<planVars, service, provider, rows, extent>>

(***************************************************************************)
(* The figure-of-merit image.                                              *)
(***************************************************************************)
\* Rows of a provider's columns: mvp truncates to the shortest, v13 gives up.
RowsMvp(c) == Least({c.lat, c.lon, c.val})

RowsV13(c) == IF c.lat = c.lon /\ c.lat = c.val THEN c.lat ELSE 0

\* "Value By Point", "Static Satisfaction" and "Percent Coverage" in turn; mvp
\* at last puts the rows of "Grid Point Locations" beside "Value By Point".
Providers == IF service = "mvp" THEN 4 ELSE 3

ReadFomGrid ==
  /\ step = "grid"
  /\ provider < Providers
  /\ \E c \in Columns : rows' = IF service = "mvp" THEN RowsMvp(c) ELSE RowsV13(c)
  /\ provider' = provider + 1
  /\ step' = IF rows' > 0 THEN "render" ELSE "grid"
  /\ UNCHANGED <<planVars, service, packets, extent>>

\* Without a grid there is no image, and the document is left as it is.
NoGrid ==
  /\ step = "grid"
  /\ provider = Providers
  /\ step' = "done"
  /\ UNCHANGED <<planVars, service, packets, provider, rows, extent>>

FaultFirstPolygon ==       \* the last polygon of the document
  LET polygons == Filter(packets, {p \in ToSet(packets) : p.area # None}) IN
  IF polygons = <<>> THEN None ELSE polygons[Len(polygons)].area

\* The first area of the document whose polygon can be read.
FirstPolygon ==
  LET polygons == Filter(packets, {p \in ToSet(packets) : p.area # None}) IN
  IF polygons = <<>> THEN None ELSE polygons[1].area

\* Points on one line, or fewer than three, cannot be interpolated linearly.
Degenerate == rows < 3

FaultRender ==             \* the image shows the grid's box
  /\ step = "render" /\ ~Degenerate
  /\ extent' = "grid"
  /\ step' = "inject"
  /\ UNCHANGED <<planVars, service, packets, provider, rows>>

RenderFomHeatmap ==
  /\ step = "render" /\ ~Degenerate
  /\ extent' = IF FirstPolygon = None THEN "grid" ELSE FirstPolygon
  /\ step' = "inject"
  /\ UNCHANGED <<planVars, service, packets, provider, rows>>

FaultInjected ==           \* the overlay of before stays
  IF FirstPolygon = None \/ \A p \in ToSet(packets) : p.kind # "figureofmerit"
  THEN packets
  ELSE Append(packets, Packet(<<"fom-overlay">>, "overlay", {}, 0, FirstPolygon))

\* The overlay of before is removed, the new one appended; without a figure of
\* merit or a polygon the document stays.
Injected ==
  IF FirstPolygon = None \/ \A p \in ToSet(packets) : p.kind # "figureofmerit"
  THEN packets
  ELSE Append(Filter(packets, {p \in ToSet(packets) : p.kind # "overlay"}),
              Packet(<<"fom-overlay">>, "overlay", {}, 0, FirstPolygon))

InjectFomRectangle ==
  /\ step = "inject"
  /\ packets' = Injected
  /\ step' = "done"
  /\ UNCHANGED <<planVars, service, provider, rows, extent>>

\* mvp: a user's image takes the place of the heatmap under the same overlay.
UploadFomImage ==
  /\ service = "mvp" /\ step = "done"
  /\ extent' = "user"
  /\ packets' = Injected
  /\ UNCHANGED <<planVars, service, step, provider, rows>>

\* An exception anywhere ends the computation with an error.
Fail ==
  /\ Built
  /\ step \in {"scenario", "patch", "render", "inject"}
  /\ step' = "failed"
  /\ UNCHANGED <<planVars, service, packets, provider, rows, extent>>

(***************************************************************************)
(* mvp3's own builder.  Positions are read for every aircraft first; then  *)
(* each sensor gets its packets and each pair of aircraft its line.        *)
(***************************************************************************)
\* Columns of positions are cut to the shortest.
ReadCartesianPositions(c) == Least({c.lat, c.lon, c.val, MaxSamples})

AircraftPacket(o, n) == Packet(<<o.name>>, "platform", {}, n, None)

\* The emission cone aims at the radar, at as many instants as both have samples.
AimQuaternionSamples(own, target) == Least({own, target})

NadirQuaternionSamples(own) == own

Contours == <<"-20dB", "-10dB", "-6dB", "-3dB">>

SensorGaussianLobePackets(o, n) ==
  [i \in DOMAIN Contours |->
     Packet(<<o.under.name, o.name, Contours[i]>>, "lobe", {<<o.under.name>>}, n, None)]

FaultSensorConePacket(o, n) ==    \* refers to the sensor's own name
  Packet(<<o.under.name, o.name>>, "cone", {<<o.name>>}, n, None)

SensorConePacket(o, n) == Packet(<<o.under.name, o.name>>, "cone", {<<o.under.name>>}, n, None)

SensorPackets(o, samples) ==
  LET own   == samples[o.under.name]
      radar == IF "RadarAC" \in DOMAIN samples THEN samples["RadarAC"] ELSE own
  IN IF o.name = "EmissionCone"
     THEN SensorGaussianLobePackets(o, AimQuaternionSamples(own, radar))
     ELSE <<SensorConePacket(o, NadirQuaternionSamples(own))>>

AccessPolylinePacket(a, b) ==
  Packet(<<"Access", a.name, b.name>>, "line", {<<a.name>>, <<b.name>>}, 0, None)

BuildCzml ==
  /\ service \in {"mvp3", "mock3"} /\ step = "scenario" /\ Built
  /\ LET planes  == Filter(objects, Aircraft)
         sensors == Filter(objects, {o \in ToSet(objects) : o.class = "Sensor"})
     IN \E columns \in [{o.name : o \in Aircraft} -> Columns], seen \in SUBSET ToSet(Pairs(planes)) :
          LET samples == [n \in DOMAIN columns |-> ReadCartesianPositions(columns[n])]
              lines   == Filter(Pairs(planes), seen)
          IN packets' = <<DocumentPacket>>
               \o [i \in DOMAIN planes |-> AircraftPacket(planes[i], samples[planes[i].name])]
               \o FlattenSeq([i \in DOMAIN sensors |-> SensorPackets(sensors[i], samples)])
               \o [i \in DOMAIN lines |-> AccessPolylinePacket(lines[i][1], lines[i][2])]
  /\ step' = "done"
  /\ UNCHANGED <<planVars, service, provider, rows, extent>>

(***************************************************************************)
(* mvp2 without STK: the plan itself, without its sensors.                 *)
(***************************************************************************)
SyntheticPacket(e) ==
  IF e.type = "AreaTarget" THEN Packet(<<e.type, e.name>>, "area", {}, 0, e.name)
  ELSE Packet(<<e.type, e.name>>, "platform", {},
              IF e.type = "Aircraft" THEN MaxSamples ELSE 0, None)

BuildSyntheticCzml ==
  /\ service = "mock2" /\ step = "scenario" /\ stage = "adding"
  /\ LET placed == Filter(entities, {e \in ToSet(entities) : e.type # "Sensor"})
     IN packets' = <<DocumentPacket>> \o [i \in DOMAIN placed |-> SyntheticPacket(placed[i])]
  /\ step' = "done"
  /\ UNCHANGED <<planVars, service, provider, rows, extent>>

DocumentInit ==
  /\ PlanInit
  /\ service \in Services
  /\ step = "scenario" /\ packets = <<>>
  /\ provider = 0 /\ rows = 0 /\ extent = None

DocumentNext ==
  \/ BuildFixed \/ LoadScenario \/ BuildPlan
  \/ ExportCzml \/ PatchCzmlSensors
  \/ ReadFomGrid \/ NoGrid \/ RenderFomHeatmap \/ InjectFomRectangle \/ UploadFomImage
  \/ BuildCzml \/ BuildSyntheticCzml \/ Fail

DocumentSpec == DocumentInit /\ [][DocumentNext]_<<planVars, docVars>>

(***************************************************************************)
(* Properties.                                                             *)
(***************************************************************************)
Done == step = "done"

Overlays == Filter(packets, {p \in ToSet(packets) : p.kind = "overlay"})

HasPosition(p) == p.kind \in {"platform", "cylinder", "cone"}

PacketKinds ==
  {"document", "platform", "area", "conic", "cylinder", "figureofmerit", "line",
   "overlay", "lobe", "cone"}

AreaNames == {None} \union NamesIn(entities) \union {o.name : o \in ToSet(objects)}

\* A packet has every field; it refers to objects, by path or (mvp3) by name, and
\* shows an area of the plan or the scenario, if any.
PacketOK(p) ==
  /\ p = Packet(p.id, p.kind, p.refs, p.samples, p.area)
  /\ p.kind \in PacketKinds /\ p.samples \in 0..MaxSamples /\ p.area \in AreaNames
  /\ p.refs \subseteq {PathOf(o) : o \in ToSet(objects)} \union {<<o.name>> : o \in ToSet(objects)}

\* Packets of a scenario as exported, before any overlay.
Exported == 1 + Len(objects) + Len(FomPackets) + Len(accesses)

\* Types of the plan, the scenario, its accesses and the document's packets; a
\* document that STK exported keeps one packet for each object, figure of merit
\* and access, and grows by one overlay at most, however often an image is
\* rendered or uploaded (inject_fom_rectangle).
DocumentTypeOK ==
  /\ entities \in Seq([type : EntityTypes, name : Names, parent : Names \union {None}])
  /\ stage \in {"drawing", "adding", "pairing", "built", "failed", "loaded"}
  /\ k \in 1..Len(entities) + 1
  /\ WellFormed(objects) /\ Linked(accesses, objects)
  /\ stkObjects \in [Names -> ToSet(objects) \union {None}]
  /\ service \in Services
  /\ step \in {"scenario", "patch", "grid", "render", "inject", "done", "failed"}
  /\ \A i \in DOMAIN packets : PacketOK(packets[i])
  /\ packets # <<>> => packets[1] = DocumentPacket
  /\ service \in {"mvp", "v13"} /\ packets # <<>> => Len(packets) = Exported + Len(Overlays)
  /\ Len(Overlays) <= 1
  /\ provider \in 0..Providers /\ rows \in Nat

\* Whatever a packet of a finished document refers to is there, once, and has a
\* position: lines between aircraft, sensors on their parents.
ReferencesResolve ==
  Done => \A i \in DOMAIN packets : \A r \in packets[i].refs :
    \E j \in DOMAIN packets :
      /\ packets[j].id = r /\ HasPosition(packets[j])
      /\ \A l \in DOMAIN packets : packets[l].id = r => l = j

\* No conic sensor of STK's is left for the viewer, and every cone follows its
\* parent: by the parent's own samples or by reference (patch_czml_sensors); in
\* mvp3 no sensor points at an instant its parent has no position for.
ConesRideParents ==
  Done /\ service # "mock2" =>
    \A i \in DOMAIN packets :
      /\ service # "mvp3" => packets[i].kind # "conic"
      /\ packets[i].kind = "cylinder" =>
           \E o \in ToSet(objects) :
             /\ o.class = "Sensor" /\ packets[i].id = PathOf(o)
             /\ \/ packets[i].refs = {PathOf(o.under)}
                \/ \E q \in ToSet(packets) :
                     q.id = PathOf(o.under) /\ q.samples = packets[i].samples /\ q.samples > 0
      /\ packets[i].kind \in {"lobe", "cone"} =>
           \E q \in ToSet(packets) : {q.id} = packets[i].refs /\ packets[i].samples <= q.samples

\* "the same bounds used for the CZML rectangle": a rendered heatmap shows what
\* its overlay covers, whichever area that is and however often it is replaced.
ImageMatchesOverlay ==
  Done /\ Overlays # <<>> => extent \in {Overlays[1].area, "user"}

\* mvp2: the overlay lies on the area the coverage was computed for, though the
\* one is the first polygon of the document that can be read and the other the
\* first of the plan; it lies on another area only if the target's own packet
\* shows no polygon that can be read (inject_fom_rectangle goes on to the next).
OverlayCoversTarget ==
  service = "v13" /\ Done /\ Overlays # <<>> =>
    \/ Overlays[1].area = coverage.target
    \/ \E i \in DOMAIN packets :
         packets[i].id = <<"AreaTarget", coverage.target>> /\ packets[i].area = None
=============================================================================

# EWTSS in TLA+

A specification of EWTSS: the time-synchronisation and instance-management core
(`drs-server`, `drs-bridge`, the exercise control of `Sg.App`), the exercise
computation services of `mvp`, `mvp2` and `mvp3` with their document pipelines,
and the scenario editor `mvp4`.  Every definition is translated from the source; `PROJECT.json` maps each one to the
lines it stands for.  TLC checks the modules on small instances; TLAPS proves
the main safety properties for every value of the constants.

## 1. Inventory

### The system

```
 NTP daemon --ntpq--> drs-server --system.timesync--> (log, displays)
                        |  ^  \
          GET /time/status  |   drs.control (variant.registered)
             |              |    ^
   Sg.App <--+--> drs-webapp     |
   (exercise control)          drs-bridge <--drs.roster-- SG
                                 |  one TCP command server + UDP sender
                                 v  per instance
                           Entity Controllers
```

The prototypes are separate programs in the same repository:

```
 Angular client --HTTP--> FastAPI service --pool--> worker --COM--> STK
 (mvp2: planner page)     exercise records          builder, CZML, image

 mvp4 (WPF, one thread):  map clicks --> InteractionController --> backend --COM--> STK
                          tree, panel <-- ScenarioChanged --+  (pumps messages)
```

| Component | State | Operations | Interacts through | Hard behaviour | Correct when |
|---|---|---|---|---|---|
| drs-server, `sync_state_engine.py` | status, window of readings, per-variant precision and status | `record`, `current_status`, `register_variant` | direct calls, transition callbacks | verdict depends on history; status queries change state | the status is the one the readings call for; no flapping |
| drs-server, service | poll task, consumer task, requests in flight, publish tasks | poll iteration, `GET /time/status`, `variant.registered`, publish, shutdown | asyncio tasks on one loop; Kafka; the `ntpq` subprocess | interleaving at awaits, failing `ntpq`, lost sends, shutdown order | event stream without gaps, answers never stale, recovery, silence noticed |
| drs-bridge, `runtime.py` | bound instances, registered variants, parsers, lock | `apply_roster`, `_bind`, `_teardown`, `shutdown` | Kafka snapshots, TCP/UDP endpoints | failure at any of four awaits, cancellation, port reuse, peers that stay | the bound set follows the roster; siblings isolated; shutdown completes |
| drs-bridge, `transport.py` with the reference detector | buffer, probation flag | read, extract, reject, close | TCP stream, parser library | segmentation, garbage, timeouts that restart | provisional peers bounded; framed peers kept; frames intact |
| drs-bridge, `bridge.py`, `tick_lag_detector.py`, `time_beacon.py` | lag window and latches, beacon tasks | `register_variant`, `record_tick`, beacon loop | health events, UDP sender | latch set after an awaited publish | one event per episode of lag |
| sg-app | exercise state, last status, pause reason | Start, Pause, Resume, Stop, poll iteration | UI thread and poll loop on shared fields; events | check-then-act across threads, late notifications, exceptions in handlers | no run hidden; loss of sync pauses; start gated |
| drs-webapp | last polled status | polling observable | HTTP | error ends the stream, `switchMap` cancels slow requests | the card shows the present status or says it cannot |
| mvp, mvp2, mvp3 services | exercise records, worker pool, the one STK service and its open scenario, files and images | create, compute, status, czml, upload, shutdown; a computation's COM calls | HTTP handlers, thread pool, event loop, COM | two workers over one scenario (mvp), shutdown under a running job, files of earlier attempts | `ready` means the exercise's own document is there, for good; every computation ends |
| mvp2 planner and builder | list of entities; objects by name | draw, add sensor, rename, reparent, delete, submit; create objects, coverage, accesses | names | names typed without a check, parents that were renamed | each pair of aircraft once; coverage of the first area |
| CZML and figure-of-merit pipelines | documents, images | export, patch sensors, read grid, render, inject overlay; build packets | data providers, files | columns of different length, missing polygons, uploads | references resolve, cones follow parents, image and overlay agree |
| mvp synthetic line of sight | samples and intervals | one pass over the samples | none | first and last sample, duration no multiple of the step | lines shown exactly when there is sight |
| mvp4 map interaction | mode, pending points, edited path | place, add point, double click, Enter, Esc, edit | events re-entering from the pumps of the STK backend | re-entrancy, double-click sequences | one entity per placement, with the shape that was drawn |
| mvp4 tree, panels, display host | nodes, selection, panel with its dirty flag, drag handles | select, edit, apply, reset, drag, delete, new, open | `ScenarioChanged`, `ModeChanged` | order of event and mode change, rebuild during Apply | tree, panel and handles follow STK and the mode |
| infrastructure | none | one-shot scripts | | | |

`PROJECT.json` lists the hazards, each at its line, with the properties that
cover it or the reason why none does yet.

### What is modelled now, and the plan

Done, in the order of importance that was chosen:

1. `SyncStateEngine` with `SyncTiers` and `SyncStateEngineHistory`: what every other part relies on.
2. `DrsServer`: the process around the engine.
3. `RosterRuntime`: the largest concurrent component.
4. `Probation`: its connections.
5. `ExerciseControl`: the consumer of the status.
6. `ExerciseJobs` with the abstract `ExerciseLifecycle`: the computation services of three generations.
7. `ScenarioPlan`, `CzmlDocument` and `LosScan`: what they compute.
8. `MapPlacement`, and `EditorPanels` composed with it: the editor.

Left, in this order:

| Module | Composes | Questions | Bounds |
|---|---|---|---|
| `ControlPlane` | `RosterRuntime`'s registrations, the `drs.control` log, `SyncStateEngine`'s variants | does the server know the precision of every bound variant, across restarts of either side and committed offsets | 2 variants, 1 restart each, log of 3 |
| `TickLag` | `Bridge`, `TickLagDetector` | one event per episode of lag; worth writing when `record_tick` gets a caller | 2 calls, window of 2 |
| `StatusPolling` | drs-webapp with `DrsServer`'s answers | a card is not stale for ever | 1 client |
| rest of `mvp4` | saving, coverage, children of entities | files and dirty flags | 2 entities |

Every invariant, action property and refinement that a run expects to hold is
now also a theorem; only the liveness properties rest on TLC alone (section 4).
Theorems worth proving next are those of the modules in this table, and that a
computation of `ExerciseJobs` hands over a document as `CzmlDocument` builds it.

## 2. Modules

| Module | Role |
|---|---|
| `SyncStateEngine` | the engine: state, one action per method, its invariants |
| `SyncTiers` | abstract: the tiers as run lengths over all readings, no window |
| `SyncStateEngineHistory` | engine plus history variables; refinement mapping to `SyncTiers` |
| `MCSyncStateEngine` | offsets and precisions for TLC |
| `SyncStateEngineProofs` | theorems of the two modules above |
| `DrsServer`, `MCDrsServer`, `DrsServerProofs` | the process, `EXTENDS SyncStateEngine` |
| `RosterRuntime`, `MCRosterRuntime`, `RosterRuntimeProofs` | the bridge runtime |
| `Probation`, `ProbationProofs` | one inbound connection |
| `ExerciseControl`, `ExerciseControlProofs` | `Sg.App`'s two threads |
| `ExerciseLifecycle` | abstract: status and served document of an exercise, as clients see them |
| `ExerciseJobs`, `MCExerciseJobs`, `ExerciseJobsProofs` | the services of mvp, mvp2 and mvp3; refinement mapping to `ExerciseLifecycle` |
| `ScenarioPlan` | mvp2's planner page and the builder of its scenario |
| `CzmlDocument` | from a scenario to a document in five services, `EXTENDS ScenarioPlan` |
| `LosScan` | mvp's pass over the line-of-sight samples |
| `MCPipelines`, `PipelinesProofs` | the last three together: for TLC, and their theorems |
| `MapPlacement` | mvp4's placement of entities by clicks |
| `EditorPanels`, `EditorPanelsProofs` | tree, panel and drag handles, `EXTENDS MapPlacement`; theorems of both |

Operators named `Fault...`, or whose comment begins with `Fault:`, are
deliberately wrong variants of the definition next to them.  Nothing uses them; putting one in place of
its neighbour shows that a property notices the difference.

### SyncStateEngine

`status`, `window`, `precision`, `variantStatus` are `_status`, `_window` and the
two fields of `_variants`.  All methods are coroutines without a suspending
await, so each is one action: `Record` (append, classify, transition, then all
variants), `CurrentStatus` (with the transition it makes on silence),
`RegisterVariant`.  Offsets are integers in milliseconds; jitter, stratum and
peer do not enter the classification.  `silence` is the age of the newest
reading, advanced by `Tick` and capped one unit beyond `LostSilence`, the only
boundary the code compares it with.  `RecordFires` and `QueryFires` are the
scopes whose callbacks a step calls.

`SyncTiers` keeps no window: a tier is entered when the run of consecutive
readings that defines it is long enough, counted from start-up.  That the engine
implements it (`ImplementsTiers`) says that `maxlen` never forgets a reading that
matters, for both thresholds and whichever is larger.

### DrsServer

One asyncio loop; code between two awaits is one action.  A request or a poll is
`sampling` while `ntpq` runs.  `ntpq` is external: `good`, `erratic` or
`failing`, changing at any time.  A transition appends to `pending[scope]`, the
publish tasks of that scope in the order they were created, and `Publish` moves
the head to the topic; a failed send marks the scope `incomplete`.  The shutdown
follows the `finally` block: consumer, poll loop, producer.

### RosterRuntime

`step` is the program counter of the consumer task, `phase` that of the main
task.  An action ends where an await can suspend; `Cancel` is possible exactly
there.  `_bind` is `Bind` (guards), `Registered`/`RegistrationFails`,
`LoadParser`/`LoadFails`, `Connect`, `Listen`/`ListenFails`, `Report`/`ReportFails`.
An entry is (variant, port, peer, protocol); `_addr` compares all but the
variant.  `waits` chooses between Python 3.12's `wait_closed`, which waits for
open connections, and 3.11's, which does not; the project file allows both.
Removing and binding pick any instance next, where the code follows the
dictionaries' order: every order a dictionary can have is covered.
One snapshot never names an instance twice here.

### Probation

A byte is a number that doubles as a payload length; `Magic` begins a frame.
`Read` appends a nonempty segment, `Extract` is one round of the drain loop and
removes as many bytes *from the front* as the frame has, as the code does.
`waited` is the time in the present `wait_for`; `held` and `stream` are history.
The handler given to the connection in production neither suspends nor raises.

### ExerciseControl

The UI thread and the poll loop are two processes over fields without a lock;
a step is the code between two accesses to shared state.
`ExerciseStateService.Transition` changes the state under its lock in one step
and shows it in a later one, on the same thread.  `strict` says whether the
bound buttons reject a notification from another thread, which depends on the
bindings; both are explored.  Statuses other than `healthy` and `sync_lost` act
alike and are one value.

### ExerciseJobs

`gen` is the generation of the process: it fixes the number of threads (`Seats`),
the table of a computation's steps (`JobMvp`, `JobMvp2`, `JobMvp3`) and the way
the process ends.  `status`, `path` and `fromFile` are the exercise's record;
`queue`, `job` and `step` are the pool; `instance` is `_service_instance`,
`scenario` what each STK application has open, `file` and `image` what is on disk.
A worker's step is one COM call or one write; each may raise.
`get_stk_service` is three steps (look, start STK, return what the global holds
then), because two threads may be in it.  In mvp the pool's thread only wakes a
coroutine, which records the result in two assignments: `completed` holds what is
on its way.  The mock service takes no STK step.  `ExerciseLifecycle` has the
status a client polls and the scenario its document shows; the mapping counts a
document as served once status and path allow `GET .../czml`.

### ScenarioPlan, CzmlDocument

The planner keeps a list of entities and addresses them by name; drawn names are
free, typed names of sensors are not checked.  The builder creates one object per
entity in the list's order and finds objects by name in `stk_objects`, of which
the last one wins.  `CzmlDocument` takes the scenario of one of five services
(`mvp`, `v13`, `mvp3`, `mock2`, `mock3`) and follows its pipeline.  STK's export is
external: it writes objects in the order of their creation, an aircraft with
samples or without, each area by itself with a polygon that can be read or not
(`ExportCzml` chooses both sets freely).  A packet
keeps its id, kind, references, number of samples and area.  A file that mvp
loads holds what STK can hold (`WellFormed`, `Linked`): each object once, sensors
on aircraft or facilities of the same scenario, accesses between objects that
have a position.  `DocumentAssumption` says so of every file scenario; nothing is
assumed of the order of the objects or of their number.

### LosScan

One action per sample.  `Profiles` are the interior points of the path above the
terrain; both tracks start where the path is clear.  A duration of zero divides
by zero and a negative one has no samples, as in the code.

### MapPlacement, EditorPanels

Everything runs on one thread.  The backend pumps the message loop after a
change, so a handler is a frame on `stack` while others run to their end, and the
innermost goes on first.  `Finalize` fixes name and shape, resets the mode and
adds the entity; `AddReturns` updates it, or `UpdateFails` when it is gone;
`UpdateReturns` is the forwarder, which asks for the mode again.  `mode` is
`"Idle"`, `"EditingEntity"` or the kind that is placed.  On entering a placement
the host creates its preview, which STK may refuse (`preview`); placement then goes
on without dots.
`ScenarioChanged` lets the tree react first and the panel second, in the order of
their subscriptions.  A view model that was replaced while its Apply was
suspended is an orphan (`applying.live` is false); `applying.path` is the entity it
belongs to.  A panel is a facility's: its
value is its place; the other five panels inherit the same `Apply`, `Reset` and
`MarkDirty`.  `StopObjectEditing(true)` is STK's; it is taken to drop what no
mouse release has applied, and Enter, Esc and STK's own cancel reach it by the
same call.

## 3. Runs

| Run | Instance | Shows |
|---|---|---|
| `sync_engine` | one variant; offsets of every class and both signs; windows of 3 and 2; silence of 1 | refinement of `SyncTiers`; `RecoveryIsSustained` |
| `drs_server` | a good and a lost offset, one variant, one client, two pending events per scope | `GlobalEventsChain`, `NoStaleAnswer`; `GoodReadingsHeal` under fairness |
| `roster` | two instances; entries with a shared port, a move, another variant, an unknown variant, an unsupported transport | `SettledMatchesRoster`, `PortsFreedFirst`, `SiblingsUntouched`; `ApplyTerminates`, `ShutdownCompletes` under fairness |
| `probation` | three byte values, reads of up to 3, ceiling 3, timeout 2, 8 bytes in all | `ProvisionalIsBounded`, `CleanStreamIntact`, `ProbationEnds` |
| `exercise` | no parameters | `RunningIsShown`, `LostKeepsPausing` |
| `jobs` | three generations, two exercises, two threads, two engines, two attempts | `RunningIsAccounted`, `SeatServesOwnDocument`, `Mvp3ServesLastAttempt`; refinement of `ExerciseLifecycle`; `EveryJobEnds` under fairness |
| `pipelines` | plans of up to two areas, three aircraft, a facility and a sensor under four names; two files; every set of sampled aircraft and of readable areas; columns of equal and unequal length; durations around the step of 3 | `AircraftPairsOnce`, `DocumentTypeOK` with the length of exported documents, `ReferencesResolve`, `ConesRideParents`, `ImageMatchesOverlay`, `OverlayCoversTarget`, `LosShownExactly` |
| `map_placement` | two places, three kinds, two placements with a preview or without, three points, two suspended handlers | `OneEntityPerGesture`, `PlacedAsDrawn`, `DblClickEndsOnce` |
| `editor_panels` | two places, facilities, two placements, two numbers, one suspended handler and an Apply | `TreeMirrorsScenario`, `DragReachesPanel`; an interrupted Apply spares other panels (`ApplySparesOthers`) |
| `silence_is_lost` | as `drs_server` | the design's "no NTP response > 60 s" is not met when `ntpq` fails |
| `exercise_gate` | no parameters | an exercise runs that no gated Start began |
| `jobs_isolation` | as `jobs` | in mvp an exercise serves the document of another |

The last three are expected to be violated: each states what a document or a
comment says, and the counterexample is what the code does instead
(`PROJECT.json`, "findings").

**Bounds.** The engine's classification depends on the order of `WarnMs`,
`AlertMs`, `LostMs` and the two lengths only: one offset in each interval, two
different lengths and one variant reach every branch, and the theorems cover the
rest.  Two instances are the least that can swap ports or be siblings; every
entry class is present once.  `MaxPending` holds up a transition when its queue
is full; two pending events are enough for a chain to break between them.
In the stream of 8 bytes a frame with payload, an empty frame, a header split
between reads, and garbage beyond the ceiling all occur; `MaxStream` is named in
the guard of `Read`.  Two computations are the least that interfere, and a second
attempt the least that can meet the files of a first; `MaxAccepted` lets mvp,
whose threads interleave, accept two in all and the others four.  Three aircraft
give more than one pair of pairs, two areas a first and another one, and a fourth
name a rename to something free; the names are interchangeable, which the run's
symmetry uses.  Two placements are the least of which one can interrupt the
other, and a stack of two the least that nests; three points make every kind, a
repeated point and a double click possible.  In `editor_panels` one suspended
finalization and one suspended Apply nest either way.  `CHECK_DEADLOCK FALSE`
stands where the program may legitimately stop or a bound stops it.

**Fairness.** `DrsServer`: the poll loop, the handlers, publish tasks and time go
on, because the loop runs every ready task and every `ntpq` call is assumed to
end; nothing is assumed of registrations, of failures or of `ntpq`'s mood.
Strong fairness of a poll's recording compensates for `MaxPending` only.
`RosterRuntime`: weak for the consumer (its awaits end, except `wait_closed`),
strong for the main task, which the loop schedules at some suspension of the
consumer.  Nothing makes a peer leave: hence the exception `HeldByPeer` in both
liveness properties.  `Probation`: the drain loop, the clock and the timer; none
for the peer.  `ExerciseControl`: both threads run; nobody has to click.
`ExerciseJobs`: each thread of the pool and mvp's event loop go on, and each COM
call returns or raises; nothing is assumed of requests or of the shutdown.
`EveryJobEnds` therefore covers the jobs that the shutdown meets, but not those it
cancelled.  The pipelines and the editor state no liveness.

### Divergences seen without a run of their own

The list of runs is kept short; what follows was met while modelling, and the
steps of the models named here are the code's.

- `apply_roster` compares addresses only: a snapshot that changes just the variant of an instance leaves it on its old parser (`runtime.py:147`).
- The health event of a failed bind is published from the `except` handler (`runtime.py:235`); when that fails the consumer ends, though it should "never crash the consumer loop" (`roster_consumer.py:41`).  In `RosterRuntime` this is the step to `"dead"`.
- Bytes before a frame are not discarded: as many bytes as the frame has leave the front of the buffer (`transport.py:67`).
- The poll loop's handler of exceptions makes the call that raised (`MainWindowViewModel.cs:130`).
- A sensor typed with the name of an aircraft takes its place in `stk_objects`: accesses, "all aircraft pairs" (`scenario_builder_v2.py:178`), are then computed from the sensor, and coverage fails.  `AircraftPairsOnce` assumes distinct names.
- A double click that does not end a placement takes points back whose dots stay on the map (`InteractionController.cs:79`; mvp4's `README.md:35` says "orange-red dots mark committed points"); so does a facility's click in whose pump another placement began (`StkDisplayHost.xaml.cs:278`).  `PointsAreDotted` is the direction that holds.  Where the preview could not be created there are no dots at all (`StkDisplayHost.xaml.cs:422`).
- The overlay and the heatmap are for the first polygon that can be read (`czml_utils.py:102-105`, `:247-249`), the coverage for the first area of the plan: when the polygon of that area cannot be read, the figures of one area are painted on the next.  `OverlayCoversTarget` states that this is the only way.
- mvp's record says `ready` one assignment before it has a path, and `GET .../czml` then answers 409 (`main.py:144`); mvp2 accepts the file of an earlier attempt as the output of an export that wrote none (`stk_com_service_v13.py:199`).
- A stop request that cancels the consumer inside `_teardown` or `_bind` leaves an endpoint that nobody closes (`runtime.py:263`, `orphaned` in the model), and a consumer that died before makes `shutdown` raise (`runtime.py:265`).
- Opening a file with the same names, or the update after `AddEntity`, leaves the panel with old values: the tree is not rebuilt, and the panel refreshes only while its entity is edited on the map (`ObjectTreeViewModel.cs:61`, `PropertyPanelHostViewModel.cs:33-34`).
- Enter ("Apply current handle positions") and Esc ("revert in-progress changes", mvp4's `README.md:52-53`) leave an edit by the same `StopObjectEditing(true)` (`StkDisplayHost.xaml.cs:139`, `:648`), after each release was applied: what was released stays, and if the call took it back Enter would lose it too.
- The tail of Apply clears the dirty flag of an edit made during its pump (`EntityViewModelBase.cs:31`); a rebuild of the tree discards the unsaved edits of the panel (`ObjectTreeViewModel.cs:64-67`).
- `IsDirty` is only ever set to false, so New and Open never ask (`MainWindowViewModel.cs:53`); New keeps the path of the file before (`StkScenarioBackend.cs:75`); a load that fails leaves the tree of a closed scenario (`StkScenarioBackend.cs:627`).  Files are not modelled.

## 4. Proofs

All proofs assume only the named assumptions on constants in the modules
(`ThresholdsAssumption`, `ServerAssumption`, `RosterAssumption`,
`ProbationAssumption`, `JobsAssumption`, `PlanAssumption`, `DocumentAssumption`,
`LosAssumption`, `MapAssumption`).

The provers cannot use an induction theorem that takes an operator, but they can
use sets: that 0 is in a set and that i + 1 is whenever i is puts every number
into it, because the set of the others would have a least element
(`SetInduction`).  Where a proof below needs induction over the length of a
stream or of a list, it is this one.

- `SyncStateEngineProofs`: `TypeCorrect`, then `StatusFollowsDecisiveWindow` and
  `VariantHealthIsEarned` from the lemmas on `Push`, `Sustained` and `Classify`.
  `EngineImplementsTiers` needs an invariant that links history to window: each
  run length is the length of the longest matching suffix of the window, up to
  its cap.  It is inductive because a suffix as long as the cap fits into
  `MaxLen`.  `RecoveryTakesHealthyRequired` strengthens the status by what a
  degraded entry says of the readings since.
- `DrsServerProofs`: `GlobalEventsAreChained` by induction over the steps of the
  process: a transition of the engine appends to the queue an event that starts
  where the chain ended (`ChainGrows`), a publish removes the first one and moves
  the reported status to its end (`ChainShrinks`), and a failed send gives the
  claim up for good.  `AnswersAreFresh` follows from what one answer step reads.
  Both need only the shapes of the queues, the answers and the statuses.
  `ServiceImplementsEngine` maps each step of the process to a method of the engine
  or to a stutter, so that `ServerSpec` implies the engine's `Spec`: tasks
  interleaved on the loop never take the engine through a step that is not one of
  its methods.  (The theorems of `SyncStateEngineProofs` are stated for `HSpec`,
  which only adds history variables to `Spec`; that step is not proved.)
  `ServerTypeCorrect` takes the engine's types
  through the same steps and adds the service's own (`ServiceTypes`): a queue stays
  within `MaxPending`, and the poll task is cancelled exactly from the second stage
  of the shutdown on.
- `RosterRuntimeProofs`: one inductive invariant: what each `step` implies for
  `bound`, `todo`, `failed` and `current` (in "removing" nothing new is bound, in
  "binding" every bound instance matches the snapshot, and bound, to-do, current
  and failed instances together are exactly the desired ones).
  `SettledMatchesRoster`, `PortsFreedFirst`, `BoundIsReady` and the action
  property `SiblingsUntouched` follow.
- `ProbationProofs`: `held` is bounded by the timeout times the number of bytes
  read so far plus the time waited since; while provisional the bytes are all in
  the buffer, which the ceiling bounds.  `CleanStreamsAreIntact` keeps a cut of the
  stream at the boundaries of its frames (`Reassembled`): what was handed over is
  the stream up to one of them, and the buffer is the rest.  A frame at the front
  of the buffer ends at the next boundary, because a header fixes the length.
- `ExerciseControlProofs`: the invariant says which notifications may still be
  under way when the shown state differs from the real one.

- `ExerciseJobsProofs`: the invariant is built in layers.  Types first; then
  accounts (each running exercise is in the queue, with one thread, reported or
  cancelled, and nowhere twice); then what each `step` says of its thread and of
  the record.  For pools of one thread a further part says what the open scenario,
  the file and the image hold at each step, from which `SeatServesOwnDocument`,
  `Mvp3ServesLastAttempt` and `OneSeat` follow.  The refinement to
  `ExerciseLifecycle` needs only that a served file is never taken away from a
  ready exercise.
- `PipelinesProofs`: first the model's recursive functions by their positions.
  `Filter` and `FlattenSeq` yield the elements they should, each from one place of
  the argument, in its order; with this `Pairs` yields each pair of positions once.
  The plan's invariant `PlanInv` then says what the objects are at each step of the
  builder (one per entity up to `k`, sensors on objects created before, and with
  distinct names each entity's object under its name), which gives
  `AircraftPairsOnce`.  For documents `DocInv` names the shape at each step: `Bare`
  as STK exports it (one packet per object at its object's place, then coverage,
  then lines), `Laid` once the sensors are patched, `Overlaid` with the overlay,
  `Sound` for the services that build it in one step; `TypedInv` beside it types
  every packet and counts the packets of an exported document.  Ids are paths of
  distinct objects, so a reference has one packet to go to; the first polygon of the
  document is the first area of the plan, or the packet of that area comes before it
  and has none to show, because packets keep the order of the objects.
  `ReferencesResolve`, `ConesRideParents`, `ImageMatchesOverlay`,
  `OverlayCoversTarget` and `DocumentTypeOK` follow.  For the scan of the line of
  sight: every visible sample lies in a closed interval or in the open one, every
  blocked one outside all of them, and all lie before the next sample; with it
  `LosShownExactly` and `IntervalsAreApart`.
- `EditorPanelsProofs`: for placement, that each gesture is with one entity or one
  suspended frame only, that the frame knows the shape that was drawn, and that
  pending points exist in a placement mode only; the trimmed list ends in another
  point than the one that is appended.  `TreeMirrorsScenario` needs in addition the
  shape of the panel record and that handles exist only in the editing mode; the
  two properties of drags are proved from it.  `PanelTypesHold` and
  `AppliesSpareOthers` need what a suspended Apply still owes: while its view model
  is live the panel shown is its own (`ApplyHasPanel`), because every change of
  selection and every rebuild makes it an orphan.

Proved, and not among the runs' properties: `DecisiveWindow` (the refinement of
`SyncTiers` is the stronger check), `VariantPrecisionKept`, `BoundIsReady`,
`FramedPeerIsKept`, `OneSeat`, `IntervalsAreApart`, `ModeOwnsItsState`,
`HandlesFollowMode`, `OthersKeepTheirEdits`, `PanelsTypeOK`, `PointsAreDotted`.
TLC agreed with each on the instance of its module's run before it was proved.

Model-checked only: liveness and the fairness it rests on, which the prover
cannot treat: `GoodReadingsHeal`, `ApplyTerminates`, `ShutdownCompletes`,
`ProbationEnds`, `LostKeepsPausing`, `EveryJobEnds`.  The three properties that
are violated have no theorem either.

## 5. Not modelled, and why

- Payload parsing, response formatting, UDP output: pure functions or output without consequences for the modelled state.
- The timestamps of readings: only the age of the newest one is compared by the code.  The 30 s of the design's HEALTHY tier therefore appear as a number of readings, as in the code.
- An `ntpq` that never returns: the code has no timeout; all progress properties assume that each call ends.
- Restart of drs-server and of drs-bridge: planned, see section 1.
- `TickLagDetector`: no code outside the tests calls `record_tick`, so which calls may overlap cannot be read from the code.
- The web application's polling and the loader pages of mvp and mvp3: what they could get wrong is in the semantics of RxJS; their requests reach `ExerciseJobs` at any time and in any order.
- mvp3's `fom_pipeline`: its fixed scenario has no figure of merit, so it is never called.
- Coordinates, quaternions, colours and labels of documents: only counts, identities and references are kept.
- The rest of mvp4: saving and file paths, coverage and its computation, sensors and other children of entities, ephemeris and graphics.
- Installation scripts, presentation, rendering and COM automation.

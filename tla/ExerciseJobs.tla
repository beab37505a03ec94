---------------------------- MODULE ExerciseJobs ----------------------------
(***************************************************************************)
(* The exercise computation services of mvp, mvp2 and mvp3.  A FastAPI     *)
(* process keeps every exercise in memory and hands computations to a      *)
(* ThreadPoolExecutor, whose threads drive STK through one module-level    *)
(* service object: they close the open scenario, build or load their own,  *)
(* export it to a CZML file and add a figure-of-merit image.               *)
(*                                                                         *)
(* The three generations share this machine and differ in the pool's size, *)
(* in the thread that records a result, in the export and in the shutdown. *)
(* A worker's steps are its COM calls and file writes: between any two of  *)
(* them the other worker, the event loop and the shutdown may act.         *)
(***************************************************************************)
EXTENDS Naturals, Sequences, FiniteSets, SequencesExt

CONSTANTS
  Exercises,     (* exercise ids (uuid4) *)
  Workers,       (* threads of the largest pool, mvp's two *)
  Engines,       (* STK applications that can be started *)
  Generations,   (* which of "mvp", "mvp2", "mvp3" are considered *)
  MaxTries,      (* bound: computations accepted per exercise *)
  MaxAccepted,   (* bound: computations accepted in all, by generation *)
  Mock,          (* the service object that needs no STK *)
  Uploaded,      (* an image that came from a user *)
  None           (* no exercise, no service, no scenario, no file *)

ASSUME JobsAssumption ==
  /\ Workers # {}
  /\ Generations \subseteq {"mvp", "mvp2", "mvp3"}
  /\ MaxTries \in Nat \ {0}
  /\ MaxAccepted \in [Generations -> Nat]
  /\ Mock \notin Engines
  /\ None \notin Engines \union Exercises \union {Mock, Uploaded}
  /\ None \notin [of : Exercises, try : Nat]
  /\ None \notin [of : [of : Exercises, try : Nat], whole : BOOLEAN,
                   patched : BOOLEAN, overlay : BOOLEAN]
  /\ Uploaded \notin [of : Exercises, try : Nat]

VARIABLES
  gen,        (* the generation of this process *)
  phase,      (* "up", "closing" (lifespan's end has begun), "down" *)
  status,     (* exercise -> _exercises[id]["status"], or "absent" *)
  path,       (* exercise -> czml_path is set *)
  fromFile,   (* exercise -> created from a scenario file (mvp) *)
  try,        (* exercise -> computations accepted so far *)
  queue,      (* work items of the executor no thread has taken *)
  cancelled,  (* exercises whose work item was cancelled at shutdown (mvp3) *)
  job,        (* worker -> exercise it computes *)
  step,       (* worker -> next step of that computation *)
  svc,        (* worker -> service object it holds *)
  doc,        (* worker -> document being built in memory (mvp3) *)
  completed,  (* results on their way to mvp's event loop *)
  instance,   (* the module-level _service_instance *)
  started,    (* engines ever started *)
  alive,      (* engines not terminated *)
  scenario,   (* engine -> its open scenario *)
  file,       (* exercise -> content of czml_output/<id>.czml *)
  image       (* exercise -> image that GET .../fom-image serves *)

store   == <<status, path, fromFile, try>>
pool    == <<queue, cancelled, job, step, svc, doc, completed>>
stk     == <<instance, started, alive, scenario>>
disk    == <<file, image>>
vars    == <<gen, phase, store, pool, stk, disk>>

(***************************************************************************)
(* Data.  A computation is named by its exercise and attempt; a scenario   *)
(* is whole once every object and access is computed.                      *)
(***************************************************************************)
Computations == [of : Exercises, try : 1..MaxTries]
Scenarios    == [of : Computations, whole : BOOLEAN]
Documents    == [of : Computations, whole : BOOLEAN, patched : BOOLEAN, overlay : BOOLEAN]

Mine(w) == [of |-> job[w], try |-> try[job[w]]]

Export(s, patched) ==
  [of |-> s.of, whole |-> s.whole, patched |-> patched, overlay |-> FALSE]

FaultSeats == Workers      \* a second thread for the single seat

\* Threads of the pool: two in mvp, and one where STK has a single seat.
Seats == IF gen = "mvp" THEN Workers ELSE {CHOOSE w \in Workers : TRUE}

(***************************************************************************)
(* The computations as step tables: what follows each step that succeeds.  *)
(***************************************************************************)
JobMvp ==
  [close |-> "open", open |-> "fill", fill |-> "export", export |-> "patch",
   patch |-> "heatmap", heatmap |-> "overlay", overlay |-> "done"]

JobMvp2 == JobMvp

JobMvp3 ==
  [close |-> "open", open |-> "fill", fill |-> "document", document |-> "render",
   render |-> "write", write |-> "done"]

After(s) ==
  CASE gen = "mvp"  -> JobMvp[s]
    [] gen = "mvp2" -> JobMvp2[s]
    [] gen = "mvp3" -> JobMvp3[s]

FirstStep(service) == IF service = Mock THEN "mock" ELSE "close"

Steps ==
  {"idle", "service", "connect", "take", "mock", "close", "open", "fill", "export",
   "patch", "heatmap", "overlay", "document", "render", "write", "done"}

Fallible == Steps \ {"idle", "service", "connect", "take", "close", "done"}

\* The bound on requests: an exercise is computed at most MaxTries times.
Accepted == FoldFunction(+, 0, try)

MayAccept(e) == try[e] < MaxTries /\ Accepted < MaxAccepted[gen]

At(w, s) == w \in Seats /\ step[w] = s

Goto(w, s) == step' = [step EXCEPT ![w] = s]

(***************************************************************************)
(* HTTP requests that change an exercise.                                  *)
(***************************************************************************)
CreateExercise(e) ==
  /\ phase = "up"
  /\ status[e] = "absent"
  /\ status' = [status EXCEPT ![e] = "created"]
  /\ UNCHANGED <<gen, phase, path, fromFile, try, pool, stk, disk>>

\* mvp: an uploaded scenario file creates the exercise and computes it at once.
CreateFromScenarioFile(e) ==
  /\ gen = "mvp" /\ phase = "up"
  /\ status[e] = "absent"
  /\ MayAccept(e)
  /\ status' = [status EXCEPT ![e] = "running"]
  /\ fromFile' = [fromFile EXCEPT ![e] = TRUE]
  /\ try' = [try EXCEPT ![e] = 1]
  /\ queue' = Append(queue, e)
  /\ UNCHANGED <<gen, phase, path, cancelled, job, step, svc, doc, completed, stk, disk>>

\* Faults: the guard forgets one of its two statuses.
FaultComputeAgain(e) ==
  /\ phase = "up"
  /\ status[e] \notin {"absent", "ready"}
  /\ MayAccept(e)
  /\ status' = [status EXCEPT ![e] = "running"]
  /\ try' = [try EXCEPT ![e] = @ + 1]
  /\ queue' = Append(queue, e)
  /\ UNCHANGED <<gen, phase, path, fromFile, cancelled, job, step, svc, doc, completed, stk, disk>>

FaultRecompute(e) ==
  /\ phase = "up"
  /\ status[e] \notin {"absent", "running"}
  /\ MayAccept(e)
  /\ status' = [status EXCEPT ![e] = "running"]
  /\ try' = [try EXCEPT ![e] = @ + 1]
  /\ queue' = Append(queue, e)
  /\ UNCHANGED <<gen, phase, path, fromFile, cancelled, job, step, svc, doc, completed, stk, disk>>

\* A running or ready exercise answers its status and nothing is submitted.
TriggerCompute(e) ==
  /\ phase = "up"
  /\ status[e] \notin {"absent", "running", "ready"}
  /\ MayAccept(e)
  /\ status' = [status EXCEPT ![e] = "running"]
  /\ try' = [try EXCEPT ![e] = @ + 1]
  /\ queue' = Append(queue, e)
  /\ UNCHANGED <<gen, phase, path, fromFile, cancelled, job, step, svc, doc, completed, stk, disk>>

\* GET .../czml answers with a document.
ServesCzml(e) == status[e] = "ready" /\ path[e]

\* mvp: a user's image replaces the heatmap and puts an overlay in the document.
\* GET .../fom-image looks for .png first, so another suffix is served only
\* when no .png was written.
UploadFomImage(e) ==
  /\ gen = "mvp" /\ phase = "up"
  /\ ServesCzml(e)
  /\ \E suffix \in {".png", ".jpg"} :
       image' = [image EXCEPT ![e] = IF suffix = ".png" \/ @ = None THEN Uploaded ELSE @]
  /\ \E placed \in {TRUE, FALSE} :          \* the document has a FOM and a polygon
       file' = [file EXCEPT ![e].overlay = @ \/ placed]
  /\ UNCHANGED <<gen, phase, store, pool, stk>>

(***************************************************************************)
(* The pool.  A thread takes the oldest item and asks for the service;     *)
(* get_stk_service is not atomic: it looks at the global, connects when    *)
(* there is none, assigns it, and returns what the global holds then.      *)
(***************************************************************************)
TakeJob(w) ==
  /\ At(w, "idle")
  /\ queue # <<>>
  /\ job' = [job EXCEPT ![w] = Head(queue)]
  /\ queue' = Tail(queue)
  /\ Goto(w, "service")
  /\ UNCHANGED <<gen, phase, store, cancelled, svc, doc, completed, stk, disk>>

GetService(w) ==
  /\ At(w, "service")
  /\ IF instance = None
     THEN Goto(w, "connect") /\ UNCHANGED svc
     ELSE Goto(w, FirstStep(instance)) /\ svc' = [svc EXCEPT ![w] = instance]
  /\ UNCHANGED <<gen, phase, store, queue, cancelled, job, doc, completed, stk, disk>>

\* An STK application is started, or none can be and the mock stands in.
Connect(w) ==
  /\ At(w, "connect")
  /\ \/ /\ Engines \ started # {}
        /\ instance' = CHOOSE g \in Engines \ started : TRUE
        /\ started' = started \union {instance'}
        /\ alive' = alive \union {instance'}
     \/ /\ instance' = Mock
        /\ UNCHANGED <<started, alive>>
  /\ Goto(w, "take")
  /\ UNCHANGED <<gen, phase, store, queue, cancelled, job, svc, doc, completed, scenario, disk>>

TakeService(w) ==
  /\ At(w, "take")
  /\ svc' = [svc EXCEPT ![w] = instance]
  /\ Goto(w, FirstStep(instance))
  /\ UNCHANGED <<gen, phase, store, queue, cancelled, job, doc, completed, stk, disk>>

(***************************************************************************)
(* The computation.  Each step is one call into STK or one file written.   *)
(***************************************************************************)
\* Errors of CloseScenario are ignored: there may be nothing to close.
CloseScenario(w) ==
  /\ At(w, "close")
  /\ scenario' = IF svc[w] \in alive THEN [scenario EXCEPT ![svc[w]] = None] ELSE scenario
  /\ Goto(w, After("close"))
  /\ UNCHANGED <<gen, phase, store, queue, cancelled, job, svc, doc, completed,
                 instance, started, alive, disk>>

\* STK allows one open scenario: NewScenario and LoadScenario fail over another.
\* A loaded file is whole; a new scenario is empty and its objects follow.
OpenScenario(w) ==
  /\ At(w, "open")
  /\ svc[w] \in alive
  /\ scenario[svc[w]] = None
  /\ scenario' = [scenario EXCEPT ![svc[w]] =
                    [of |-> Mine(w), whole |-> fromFile[job[w]]]]
  /\ Goto(w, IF fromFile[job[w]] THEN After("fill") ELSE After("open"))
  /\ UNCHANGED <<gen, phase, store, queue, cancelled, job, svc, doc, completed,
                 instance, started, alive, disk>>

\* Objects are added through the handle of the scenario this worker opened.
FillScenario(w) ==
  /\ At(w, "fill")
  /\ svc[w] \in alive
  /\ scenario[svc[w]] = [of |-> Mine(w), whole |-> FALSE]
  /\ scenario' = [scenario EXCEPT ![svc[w]].whole = TRUE]
  /\ Goto(w, After("fill"))
  /\ UNCHANGED <<gen, phase, store, queue, cancelled, job, svc, doc, completed,
                 instance, started, alive, disk>>

\* mvp, mvp2: ExportCZML writes CurrentScenario, whosever it is.  When the
\* command writes nothing, a file left by an earlier attempt passes the check.
ExportConnect(w) ==
  /\ At(w, "export")
  /\ svc[w] \in alive
  /\ scenario[svc[w]] # None
  /\ \/ file' = [file EXCEPT ![job[w]] = Export(scenario[svc[w]], FALSE)]
     \/ file[job[w]] # None /\ UNCHANGED file
  /\ Goto(w, After("export"))
  /\ UNCHANGED <<gen, phase, store, queue, cancelled, job, svc, doc, completed, stk, image>>

PatchSensors(w) ==
  /\ At(w, "patch")
  /\ file' = [file EXCEPT ![job[w]].patched = TRUE]
  /\ Goto(w, After("patch"))
  /\ UNCHANGED <<gen, phase, store, queue, cancelled, job, svc, doc, completed, stk, image>>

\* The grid comes from the open scenario; without one there is no image.
RenderHeatmap(w) ==
  /\ At(w, "heatmap")
  /\ svc[w] \in alive
  /\ scenario[svc[w]] # None
  /\ \/ /\ image' = [image EXCEPT ![job[w]] = scenario[svc[w]].of]
        /\ Goto(w, After("heatmap"))
     \/ Goto(w, "done") /\ UNCHANGED image
  /\ UNCHANGED <<gen, phase, store, queue, cancelled, job, svc, doc, completed, stk, file>>

\* The overlay is skipped when the document has no FOM or no polygon.
InjectOverlay(w) ==
  /\ At(w, "overlay")
  /\ \/ file' = [file EXCEPT ![job[w]].overlay = TRUE]
     \/ UNCHANGED file
  /\ Goto(w, After("overlay"))
  /\ UNCHANGED <<gen, phase, store, queue, cancelled, job, svc, doc, completed, stk, image>>

\* mvp3 builds the document in memory from the open scenario and writes it last.
BuildDocument(w) ==
  /\ At(w, "document")
  /\ svc[w] \in alive
  /\ scenario[svc[w]] # None
  /\ doc' = [doc EXCEPT ![w] = Export(scenario[svc[w]], TRUE)]
  /\ Goto(w, After("document"))
  /\ UNCHANGED <<gen, phase, store, queue, cancelled, job, svc, completed, stk, disk>>

FaultRenderImage(w) ==     \* an overlay without an image of this attempt
  /\ At(w, "render")
  /\ svc[w] \in alive
  /\ image' \in {image, [image EXCEPT ![job[w]] = doc[w].of]}
  /\ doc' = [doc EXCEPT ![w].overlay = TRUE]
  /\ Goto(w, After("render"))
  /\ UNCHANGED <<gen, phase, store, queue, cancelled, job, svc, completed, stk, file>>

\* Nothing is rendered when the scenario has no figure of merit, which is so for
\* mvp3's fixed scenario; the code's branch for one that has is kept.
RenderImage(w) ==
  /\ At(w, "render")
  /\ svc[w] \in alive
  /\ \/ /\ image' = [image EXCEPT ![job[w]] = doc[w].of]
        /\ \E bounds \in BOOLEAN : doc' = [doc EXCEPT ![w].overlay = bounds]
     \/ UNCHANGED <<image, doc>>
  /\ Goto(w, After("render"))
  /\ UNCHANGED <<gen, phase, store, queue, cancelled, job, svc, completed, stk, file>>

WriteDocument(w) ==
  /\ At(w, "write")
  /\ file' = [file EXCEPT ![job[w]] = doc[w]]
  /\ Goto(w, After("write"))
  /\ UNCHANGED <<gen, phase, store, queue, cancelled, job, svc, doc, completed, stk, image>>

\* The mock builds its own document from the request; no other thread reads it.
MockCompute(w) ==
  /\ At(w, "mock")
  /\ file' = [file EXCEPT ![job[w]] = Export([of |-> Mine(w), whole |-> TRUE], TRUE)]
  /\ Goto(w, "done")
  /\ UNCHANGED <<gen, phase, store, queue, cancelled, job, svc, doc, completed, stk, image>>

\* The end of a computation.  mvp2 and mvp3 record it in the worker, under the
\* lock; in mvp the future wakes a coroutine of the event loop, which records it.
EndJob(w, result) ==
  /\ job' = [job EXCEPT ![w] = None]
  /\ svc' = [svc EXCEPT ![w] = None]
  /\ doc' = [doc EXCEPT ![w] = None]
  /\ Goto(w, "idle")
  /\ IF gen = "mvp"
     THEN /\ completed' = completed \union {[of |-> job[w], result |-> result]}
          /\ UNCHANGED <<status, path>>
     ELSE /\ status' = [status EXCEPT ![job[w]] = result]
          /\ path' = [path EXCEPT ![job[w]] = @ \/ result = "ready"]
          /\ UNCHANGED completed
  /\ UNCHANGED <<gen, phase, fromFile, try, queue, cancelled, stk, disk>>

FaultFinish(w) == At(w, "done") /\ EndJob(w, "done")    \* a status nobody knows

Finish(w) == At(w, "done") /\ EndJob(w, "ready")

FaultRaise(w) ==           \* the error ends the thread's job unrecorded
  /\ \E s \in Fallible : At(w, s)
  /\ job' = [job EXCEPT ![w] = None]
  /\ Goto(w, "idle")
  /\ UNCHANGED <<gen, phase, store, queue, cancelled, svc, doc, completed, stk, disk>>

\* Any COM call or file write of a computation may raise.
Raise(w) == (\E s \in Fallible : At(w, s)) /\ EndJob(w, "error")

\* mvp, on the event loop: the status first, the path after it.  Readers run in
\* other threads and may look between the two.
RunComputeBackground(c) ==
  /\ c \in completed
  /\ CASE c.result = "ready" ->
            /\ status' = [status EXCEPT ![c.of] = "ready"]
            /\ completed' = (completed \ {c}) \union {[of |-> c.of, result |-> "path"]}
            /\ UNCHANGED path
       [] c.result = "path" ->
            /\ path' = [path EXCEPT ![c.of] = TRUE]
            /\ completed' = completed \ {c}
            /\ UNCHANGED status
       [] c.result = "error" ->
            /\ status' = [status EXCEPT ![c.of] = "error"]
            /\ completed' = completed \ {c}
            /\ UNCHANGED path
  /\ UNCHANGED <<gen, phase, fromFile, try, queue, cancelled, job, step, svc, doc, stk, disk>>

(***************************************************************************)
(* Shutdown.                                                               *)
(***************************************************************************)
StopServing ==
  /\ phase = "up"
  /\ phase' = "closing"
  /\ UNCHANGED <<gen, store, pool, stk, disk>>

\* mvp's server waits for its background tasks first; mvp2 has none to wait for.
Lifespan ==
  /\ gen \in {"mvp", "mvp2"} /\ phase = "closing"
  /\ gen = "mvp" => completed = {} /\ \A e \in Exercises : status[e] # "running"
  /\ phase' = "down"
  /\ alive' = alive \ {instance}
  /\ UNCHANGED <<gen, store, pool, instance, started, scenario, disk>>

\* mvp3 cancels the work items no thread has taken and leaves the others.
DropPool ==
  /\ gen = "mvp3" /\ phase = "closing"
  /\ phase' = "dropped"
  /\ cancelled' = ToSet(queue)
  /\ queue' = <<>>
  /\ UNCHANGED <<gen, store, job, step, svc, doc, completed, stk, disk>>

StartStopper ==
  /\ phase = "dropped"
  /\ phase' = IF instance = None THEN "down" ELSE "stopping"
  /\ UNCHANGED <<gen, store, pool, stk, disk>>

\* The stopper thread ends STK, within the join's five seconds or after them.
StopStk ==
  /\ phase \in {"stopping", "detached"}
  /\ phase' = "down"
  /\ alive' = alive \ {instance}
  /\ UNCHANGED <<gen, store, pool, instance, started, scenario, disk>>

JoinTimesOut ==
  /\ phase = "stopping"
  /\ phase' = "detached"
  /\ UNCHANGED <<gen, store, pool, stk, disk>>

Init ==
  /\ gen \in Generations
  /\ phase = "up"
  /\ status = [e \in Exercises |-> "absent"]
  /\ path = [e \in Exercises |-> FALSE]
  /\ fromFile = [e \in Exercises |-> FALSE]
  /\ try = [e \in Exercises |-> 0]
  /\ queue = <<>> /\ cancelled = {} /\ completed = {}
  /\ job = [w \in Workers |-> None]
  /\ step = [w \in Workers |-> "idle"]
  /\ svc = [w \in Workers |-> None]
  /\ doc = [w \in Workers |-> None]
  /\ instance = None /\ started = {} /\ alive = {}
  /\ scenario = [g \in Engines |-> None]
  /\ file = [e \in Exercises |-> None]
  /\ image = [e \in Exercises |-> None]

Request == \E e \in Exercises :
  CreateExercise(e) \/ CreateFromScenarioFile(e) \/ TriggerCompute(e) \/ UploadFomImage(e)

Work(w) ==
  \/ TakeJob(w) \/ GetService(w) \/ Connect(w) \/ TakeService(w) \/ MockCompute(w)
  \/ CloseScenario(w) \/ OpenScenario(w) \/ FillScenario(w)
  \/ ExportConnect(w) \/ PatchSensors(w) \/ RenderHeatmap(w) \/ InjectOverlay(w)
  \/ BuildDocument(w) \/ RenderImage(w) \/ WriteDocument(w)
  \/ Finish(w) \/ Raise(w)

Loop == \E c \in completed : RunComputeBackground(c)

Shutdown ==
  StopServing \/ Lifespan \/ DropPool \/ StartStopper \/ StopStk \/ JoinTimesOut

Next == Request \/ (\E w \in Workers : Work(w)) \/ Loop \/ Shutdown

\* Threads and the event loop keep running; COM calls return or raise.
Fairness == WF_vars(Loop) /\ \A w \in Workers : WF_vars(Work(w))

Spec == Init /\ [][Next]_vars

FairSpec == Spec /\ Fairness

(***************************************************************************)
(* Properties.                                                             *)
(***************************************************************************)
\* Every variable has its type; an idle thread holds nothing.
JobsTypeOK ==
  /\ gen \in Generations
  /\ phase \in {"up", "closing", "dropped", "stopping", "detached", "down"}
  /\ status \in [Exercises -> {"absent", "created", "running", "ready", "error"}]
  /\ path \in [Exercises -> BOOLEAN]
  /\ fromFile \in [Exercises -> BOOLEAN]
  /\ try \in [Exercises -> 0..MaxTries]
  /\ queue \in Seq(Exercises)
  /\ cancelled \subseteq Exercises
  /\ job \in [Workers -> Exercises \union {None}]
  /\ step \in [Workers -> Steps]
  /\ svc \in [Workers -> Engines \union {Mock, None}]
  /\ doc \in [Workers -> Documents \union {None}]
  /\ completed \subseteq [of : Exercises, result : {"ready", "path", "error"}]
  /\ instance \in Engines \union {Mock, None}
  /\ started \subseteq Engines
  /\ alive \subseteq Engines
  /\ scenario \in [Engines -> Scenarios \union {None}]
  /\ file \in [Exercises -> Documents \union {None}]
  /\ image \in [Exercises -> Computations \union {Uploaded, None}]

Queued   == ToSet(queue)
Held     == {job[w] : w \in Workers} \ {None}
Reported == {c.of : c \in completed}

\* A running exercise is in the pool, with a thread or on its way to the event
\* loop, unless shutdown cancelled it; and it is there once.  (The guard of
\* trigger_compute, the pool's queue and the except clause that records errors.)
RunningIsAccounted ==
  /\ \A e \in Exercises : status[e] = "running" =>
        e \in Queued \union Held \union Reported \union cancelled
  /\ \A e \in Queued \union Held \union cancelled : status[e] = "running"
  /\ \A i, j \in 1..Len(queue) : queue[i] = queue[j] => i = j
  /\ \A v, w \in Workers : job[v] = job[w] => v = w \/ job[v] = None
  /\ \A c, d \in completed : c.of = d.of => c = d
  /\ Queued \intersect Held = {}
  /\ Reported \intersect (Queued \union Held) = {}
  /\ cancelled \intersect (Queued \union Held) = {}

\* What a ready exercise serves was computed for it: a whole scenario, with its
\* sensors patched, and an overlay only with an image of its own.
OwnDocument(e) ==
  /\ file[e] # None
  /\ file[e].of.of = e /\ file[e].whole /\ file[e].patched
  /\ file[e].overlay => image[e] # None /\ (image[e] # Uploaded => image[e].of = e)

\* mvp2 and mvp3: with a single seat no other exercise's scenario is exported,
\* whatever failed before and however the shutdown falls.
SeatServesOwnDocument ==
  gen # "mvp" => \A e \in Exercises : status[e] = "ready" => path[e] /\ OwnDocument(e)

\* mvp3: the document is that of the last accepted request, not of an earlier
\* attempt whose file or image was left behind.
Mvp3ServesLastAttempt ==
  gen = "mvp3" => \A e \in Exercises : status[e] = "ready" =>
    /\ file[e].of.try = try[e]
    /\ file[e].overlay => image[e] = file[e].of

\* One STK application at most is ever started by a pool of one thread.
OneSeat == gen # "mvp" => \A g, h \in started : g = h

\* "Runs inside ProcessPoolExecutor. Must import its own IStkService - cannot
\* share state with the main process" (mvp computation_job.py): computations are
\* isolated, so a served document shows its own exercise.  mvp's two threads
\* share one service object and its one open scenario.
ComputationsAreIsolated ==
  \A e \in Exercises : ServesCzml(e) => file[e].of.of = e

\* What a client may observe of an exercise, as the GET .../czml handler sees it.
SeenStatus == [e \in Exercises |->
  IF status[e] = "ready" /\ ~path[e] THEN "running" ELSE status[e]]

Served == [e \in Exercises |-> IF ServesCzml(e) THEN file[e].of ELSE None]

Lifecycle == INSTANCE ExerciseLifecycle WITH
  Scenarios <- Computations, NoScenario <- None, status <- SeenStatus, served <- Served

\* The services keep the promise of the lifecycle: in every generation a served
\* document never changes the scenario it shows and no client sees a step back.
JobsImplementLifecycle == Lifecycle!Spec

\* No computation is pending for ever: it ends, or shutdown cancelled it.
EveryJobEnds == \A e \in Exercises :
  status[e] = "running" ~> (status[e] # "running" \/ e \in cancelled)
=============================================================================

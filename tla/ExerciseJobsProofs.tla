------------------------- MODULE ExerciseJobsProofs -------------------------
(***************************************************************************)
(* Proofs about ExerciseJobs for every set of exercises, threads, engines  *)
(* and generations and every bound: its types, that no computation is lost *)
(* or doubled, that a pool of one thread starts one engine, and that the   *)
(* services implement ExerciseLifecycle.                                   *)
(***************************************************************************)
EXTENDS ExerciseJobs, TLAPS

\* What a thread's next step says about its generation and its documents.
Threads ==
  \A w \in Workers :
    /\ step[w] = "idle" <=> job[w] = None
    /\ step[w] # "idle" => w \in Seats
    /\ step[w] \in {"export", "patch", "heatmap", "overlay"} => gen # "mvp3"
    /\ step[w] \in {"document", "render", "write"} => gen = "mvp3"
    /\ step[w] \in {"patch", "heatmap", "overlay", "done"} => file[job[w]] # None
    /\ step[w] \in {"render", "write"} => doc[w] # None

\* What the record of an exercise says about its computation and its file.
Records ==
  /\ \A e \in Exercises :
       /\ status[e] \in {"running", "ready"} => try[e] # 0
       /\ path[e] => status[e] = "ready"
       /\ status[e] = "ready" => file[e] # None /\ (gen # "mvp" => path[e])
       /\ gen # "mvp" => ~fromFile[e]
  /\ \A c \in completed :
       /\ gen = "mvp"
       /\ status[c.of] = IF c.result = "path" THEN "ready" ELSE "running"
       /\ c.result = "path" => ~path[c.of]
       /\ c.result # "error" => file[c.of] # None
  /\ phase \in {"up", "closing"} \/ gen # "mvp3" => cancelled = {}

\* Engines are started by the thread that found no service.
Engineering ==
  /\ alive \subseteq started
  /\ gen # "mvp" =>
       /\ \A g, h \in started : g = h
       /\ instance = None => started = {}
       /\ \A w \in Workers : step[w] = "connect" => instance = None

JobsInv == JobsTypeOK /\ RunningIsAccounted /\ Threads /\ Records /\ Engineering

-----------------------------------------------------------------------------
(* Data.                                                                   *)

LEMMA NoneIsNoData ==
  /\ None \notin Exercises /\ None \notin Engines /\ None # Mock /\ None # Uploaded
  /\ Mock \notin Engines
  /\ None \notin Computations /\ Uploaded \notin Computations
  /\ None \notin Documents
<1>1. Computations \subseteq [of : Exercises, try : Nat]
  BY JobsAssumption DEF Computations
<1>2. Documents \subseteq [of : [of : Exercises, try : Nat], whole : BOOLEAN,
                          patched : BOOLEAN, overlay : BOOLEAN]
  BY <1>1 DEF Documents
<1>3. QED
  BY <1>1, <1>2, JobsAssumption

LEMMA DocumentShapes ==
  ASSUME NEW d \in Documents
  PROVE  /\ [d EXCEPT !.patched = TRUE] \in Documents
         /\ \A b \in BOOLEAN : [d EXCEPT !.overlay = b] \in Documents
         /\ [d EXCEPT !.patched = TRUE].of = d.of
         /\ \A b \in BOOLEAN : [d EXCEPT !.overlay = b].of = d.of
         /\ d.of \in Computations
BY DEF Documents

LEMMA FilledScenario ==
  ASSUME NEW s \in Scenarios
  PROVE  /\ [s EXCEPT !.whole = TRUE] \in Scenarios
         /\ [s EXCEPT !.whole = TRUE].of = s.of /\ [s EXCEPT !.whole = TRUE].whole
BY DEF Scenarios

LEMMA ExportShapes ==
  ASSUME NEW s \in Scenarios, NEW b \in BOOLEAN
  PROVE  Export(s, b) \in Documents /\ Export(s, b).of = s.of
BY DEF Export, Scenarios, Documents

\* A thread at work computes an attempt of an exercise that is running.
LEMMA BusyThread ==
  ASSUME JobsInv, NEW w \in Workers, step[w] # "idle"
  PROVE  /\ job[w] \in Exercises /\ job[w] # None
         /\ status[job[w]] = "running" /\ try[job[w]] \in 1..MaxTries
         /\ Mine(w) \in Computations
<1>1. job[w] # None
  BY DEF JobsInv, Threads
<1>2. job[w] \in Exercises
  BY <1>1 DEF JobsInv, JobsTypeOK
<1>3. status[job[w]] = "running"
  BY <1>1, <1>2 DEF JobsInv, RunningIsAccounted, Held
<1>4. try[job[w]] \in 0..MaxTries /\ try[job[w]] # 0
  BY <1>2, <1>3 DEF JobsInv, JobsTypeOK, Records
<1>5. try[job[w]] \in 1..MaxTries
  BY <1>4, JobsAssumption
<1>6. QED
  BY <1>1, <1>2, <1>3, <1>5 DEF Mine, Computations

\* The one thread of a pool with a single seat.
LEMMA SingleSeat ==
  ASSUME JobsInv, gen # "mvp", NEW v \in Workers, NEW w \in Workers,
         step[v] # "idle", step[w] # "idle"
  PROVE  v = w
BY DEF JobsInv, Threads, Seats

LEMMA AfterIsAStep ==
  ASSUME JobsInv, NEW s \in {"close", "open", "fill", "export", "patch", "heatmap", "overlay",
                            "document", "render", "write"},
         s \in {"export", "patch", "heatmap", "overlay"} => gen # "mvp3",
         s \in {"document", "render", "write"} => gen = "mvp3"
  PROVE  /\ After(s) \in Steps /\ After(s) # "idle" /\ After(s) # "connect"
         /\ s = "close" => After(s) = "open"
         /\ s = "open" => After(s) = "fill"
         /\ s = "fill" => After(s) = IF gen = "mvp3" THEN "document" ELSE "export"
         /\ s = "export" => After(s) = "patch"
         /\ s = "patch" => After(s) = "heatmap"
         /\ s = "heatmap" => After(s) = "overlay"
         /\ s = "document" => After(s) = "render"
         /\ s = "render" => After(s) = "write"
         /\ s \in {"overlay", "write"} => After(s) = "done"
<1>1. gen \in {"mvp", "mvp2", "mvp3"}
  BY JobsAssumption DEF JobsInv, JobsTypeOK
<1>2. QED
  BY <1>1 DEF After, JobMvp, JobMvp2, JobMvp3, Steps

LEMMA QueueGrows ==
  ASSUME NEW q \in Seq(Exercises), NEW e \in Exercises
  PROVE  /\ Append(q, e) \in Seq(Exercises)
         /\ ToSet(Append(q, e)) = ToSet(q) \union {e}
<1>1. /\ Append(q, e) \in Seq(Exercises)
      /\ DOMAIN Append(q, e) = 1..Len(q) + 1 /\ DOMAIN q = 1..Len(q)
      /\ Len(q) \in Nat
      /\ \A i \in 1..Len(q) : Append(q, e)[i] = q[i]
      /\ Append(q, e)[Len(q) + 1] = e
  OBVIOUS
<1>2. QED
  BY <1>1 DEF ToSet

Distinct(q) == \A i, j \in 1..Len(q) : q[i] = q[j] => i = j

LEMMA QueueStaysDistinct ==
  ASSUME NEW q \in Seq(Exercises), NEW e \in Exercises, e \notin ToSet(q), Distinct(q)
  PROVE  Distinct(Append(q, e))
<1>1. /\ Len(Append(q, e)) = Len(q) + 1 /\ DOMAIN q = 1..Len(q)
      /\ Len(q) \in Nat
      /\ \A i \in 1..Len(q) : Append(q, e)[i] = q[i]
      /\ Append(q, e)[Len(q) + 1] = e
  OBVIOUS
<1>2. QED
  BY <1>1 DEF ToSet, Distinct

LEMMA QueueShrinks ==
  ASSUME NEW q \in Seq(Exercises), q # <<>>, Distinct(q)
  PROVE  /\ Tail(q) \in Seq(Exercises) /\ Head(q) \in Exercises
         /\ ToSet(q) = ToSet(Tail(q)) \union {Head(q)}
         /\ Head(q) \notin ToSet(Tail(q))
         /\ Distinct(Tail(q))
<1>1. /\ Tail(q) \in Seq(Exercises) /\ Head(q) \in Exercises /\ Head(q) = q[1]
      /\ DOMAIN q = 1..Len(q) /\ DOMAIN Tail(q) = 1..Len(q) - 1
      /\ Len(Tail(q)) = Len(q) - 1 /\ Len(q) \in Nat \ {0}
      /\ \A i \in 1..Len(q) - 1 : Tail(q)[i] = q[i + 1]
  OBVIOUS
<1>2. ToSet(q) \subseteq ToSet(Tail(q)) \union {Head(q)}
  <2>1. SUFFICES ASSUME NEW i \in 1..Len(q), i # 1 PROVE q[i] \in ToSet(Tail(q))
    BY <1>1 DEF ToSet
  <2>2. i - 1 \in 1..Len(q) - 1 /\ Tail(q)[i - 1] = q[i]
    BY <1>1, <2>1
  <2>3. QED
    BY <1>1, <2>2 DEF ToSet
<1>3. ToSet(Tail(q)) \union {Head(q)} \subseteq ToSet(q)
  BY <1>1 DEF ToSet
<1>4. Head(q) \notin ToSet(Tail(q))
  BY <1>1 DEF ToSet, Distinct
<1>5. Distinct(Tail(q))
  BY <1>1 DEF Distinct
<1>6. QED
  BY <1>1, <1>2, <1>3, <1>4, <1>5

-----------------------------------------------------------------------------
(* Types.                                                                  *)

LEMMA TypesKept ==
  ASSUME JobsInv, [Next]_vars
  PROVE  JobsTypeOK'
<1> USE NoneIsNoData
<1>0. JobsTypeOK
  BY DEF JobsInv
<1>1. ASSUME NEW e \in Exercises, CreateExercise(e) PROVE JobsTypeOK'
  BY <1>0, <1>1 DEF CreateExercise, JobsTypeOK, store, pool, stk, disk
<1>2. ASSUME NEW e \in Exercises, CreateFromScenarioFile(e) PROVE JobsTypeOK'
  <2>1. queue' \in Seq(Exercises)
    BY <1>0, <1>2, QueueGrows DEF CreateFromScenarioFile, JobsTypeOK
  <2>2. 1 \in 0..MaxTries
    BY JobsAssumption
  <2>3. QED
    BY <1>0, <1>2, <2>1, <2>2 DEF CreateFromScenarioFile, JobsTypeOK, stk, disk
<1>3. ASSUME NEW e \in Exercises, TriggerCompute(e) PROVE JobsTypeOK'
  <2>1. queue' \in Seq(Exercises)
    BY <1>0, <1>3, QueueGrows DEF TriggerCompute, JobsTypeOK
  <2>2. try[e] + 1 \in 0..MaxTries
    BY <1>0, <1>3, JobsAssumption DEF TriggerCompute, MayAccept, JobsTypeOK
  <2>3. QED
    BY <1>0, <1>3, <2>1, <2>2 DEF TriggerCompute, JobsTypeOK, stk, disk
<1>4. ASSUME NEW e \in Exercises, UploadFomImage(e) PROVE JobsTypeOK'
  <2>1. image' \in [Exercises -> Computations \union {Uploaded, None}]
    BY <1>0, <1>4 DEF UploadFomImage, JobsTypeOK
  <2>2. file[e] \in Documents
    BY <1>0, <1>4 DEF UploadFomImage, ServesCzml, JobsInv, Records, JobsTypeOK
  <2>3. PICK placed \in {TRUE, FALSE} : file' = [file EXCEPT ![e].overlay = @ \/ placed]
    BY <1>4 DEF UploadFomImage
  <2>4. file' = [file EXCEPT ![e] = [file[e] EXCEPT !.overlay = file[e].overlay \/ placed]]
    BY <2>3
  <2>5. (file[e].overlay \/ placed) \in BOOLEAN
    OBVIOUS
  <2>6. file' \in [Exercises -> Documents \union {None}]
    BY <1>0, <2>2, <2>4, <2>5, DocumentShapes DEF JobsTypeOK
  <2>7. QED
    BY <1>0, <1>4, <2>1, <2>6 DEF UploadFomImage, JobsTypeOK, store, pool, stk
<1>5. ASSUME NEW w \in Workers, TakeJob(w) PROVE JobsTypeOK'
  <2>1. queue' \in Seq(Exercises) /\ Head(queue) \in Exercises
    BY <1>0, <1>5 DEF TakeJob, JobsTypeOK
  <2>2. QED
    BY <1>0, <1>5, <2>1 DEF TakeJob, Goto, JobsTypeOK, Steps, store, stk, disk
<1>6. ASSUME NEW w \in Workers, GetService(w) PROVE JobsTypeOK'
  <2>1. step' \in [Workers -> Steps]
    BY <1>0, <1>6 DEF GetService, Goto, FirstStep, JobsTypeOK, Steps
  <2>2. svc' \in [Workers -> Engines \union {Mock, None}]
    BY <1>0, <1>6 DEF GetService, JobsTypeOK
  <2>3. QED
    BY <1>0, <1>6, <2>1, <2>2 DEF GetService, JobsTypeOK, store, stk, disk
<1>7. ASSUME NEW w \in Workers, Connect(w) PROVE JobsTypeOK'
  <2>1. /\ instance' \in Engines \union {Mock, None}
        /\ started' \subseteq Engines /\ alive' \subseteq Engines
    BY <1>0, <1>7 DEF Connect, JobsTypeOK
  <2>2. QED
    BY <1>0, <1>7, <2>1 DEF Connect, Goto, JobsTypeOK, Steps, store, disk
<1>8. ASSUME NEW w \in Workers, TakeService(w) PROVE JobsTypeOK'
  BY <1>0, <1>8 DEF TakeService, Goto, FirstStep, JobsTypeOK, Steps, store, stk, disk
<1>9. ASSUME NEW w \in Workers, MockCompute(w) PROVE JobsTypeOK'
  <2>1. job[w] \in Exercises /\ Mine(w) \in Computations
    BY <1>9, BusyThread DEF MockCompute, At
  <2>2. Export([of |-> Mine(w), whole |-> TRUE], TRUE) \in Documents
    BY <2>1, ExportShapes DEF Scenarios
  <2>3. file' \in [Exercises -> Documents \union {None}]
    BY <1>0, <1>9, <2>1, <2>2 DEF MockCompute, JobsTypeOK
  <2>4. QED
    BY <1>0, <1>9, <2>3 DEF MockCompute, Goto, JobsTypeOK, Steps, store, stk
<1>10. ASSUME NEW w \in Workers, CloseScenario(w) PROVE JobsTypeOK'
  <2>1. After("close") \in Steps
    BY AfterIsAStep
  <2>2. scenario' \in [Engines -> Scenarios \union {None}]
    BY <1>0, <1>10 DEF CloseScenario, JobsTypeOK
  <2>3. QED
    BY <1>0, <1>10, <2>1, <2>2 DEF CloseScenario, Goto, JobsTypeOK, store, disk
<1>11. ASSUME NEW w \in Workers, OpenScenario(w) PROVE JobsTypeOK'
  <2>1. job[w] \in Exercises /\ Mine(w) \in Computations
    BY <1>11, BusyThread DEF OpenScenario, At
  <2>2. After("open") \in Steps /\ After("fill") \in Steps
    BY AfterIsAStep
  <2>3. [of |-> Mine(w), whole |-> fromFile[job[w]]] \in Scenarios
    BY <1>0, <2>1 DEF JobsTypeOK, Scenarios
  <2>4. scenario' \in [Engines -> Scenarios \union {None}]
    BY <1>0, <1>11, <2>3 DEF OpenScenario, JobsTypeOK
  <2>5. QED
    BY <1>0, <1>11, <2>2, <2>4 DEF OpenScenario, Goto, JobsTypeOK, store, disk
<1>12. ASSUME NEW w \in Workers, FillScenario(w) PROVE JobsTypeOK'
  <2>1. Mine(w) \in Computations
    BY <1>12, BusyThread DEF FillScenario, At
  <2>2. After("fill") \in Steps
    BY AfterIsAStep
  <2>3. scenario[svc[w]] \in Scenarios
    BY <1>0, <1>12, <2>1 DEF FillScenario, JobsTypeOK, Scenarios
  <2>4. scenario' \in [Engines -> Scenarios \union {None}]
    BY <1>0, <1>12, <2>3, FilledScenario DEF FillScenario, JobsTypeOK
  <2>5. QED
    BY <1>0, <1>12, <2>2, <2>4 DEF FillScenario, Goto, JobsTypeOK, store, disk
<1>13. ASSUME NEW w \in Workers, ExportConnect(w) PROVE JobsTypeOK'
  <2>1. scenario[svc[w]] \in Scenarios
    BY <1>0, <1>13 DEF ExportConnect, JobsTypeOK
  <2>2. file' \in [Exercises -> Documents \union {None}]
    BY <1>0, <1>13, <2>1, ExportShapes, ZenonT(60) DEF ExportConnect, JobsTypeOK
  <2>3. After("export") \in Steps
    BY <1>13, AfterIsAStep DEF ExportConnect, At, JobsInv, Threads
  <2>4. QED
    BY <1>0, <1>13, <2>2, <2>3 DEF ExportConnect, Goto, JobsTypeOK, store, stk
<1>14. ASSUME NEW w \in Workers, PatchSensors(w) PROVE JobsTypeOK'
  <2>1. job[w] \in Exercises /\ file[job[w]] \in Documents
    BY <1>0, <1>14, BusyThread DEF PatchSensors, At, JobsInv, Threads, JobsTypeOK
  <2>2. file' \in [Exercises -> Documents \union {None}]
    BY <1>0, <1>14, <2>1, DocumentShapes DEF PatchSensors, JobsTypeOK
  <2>3. After("patch") \in Steps
    BY <1>14, AfterIsAStep DEF PatchSensors, At, JobsInv, Threads
  <2>4. QED
    BY <1>0, <1>14, <2>2, <2>3 DEF PatchSensors, Goto, JobsTypeOK, store, stk
<1>15. ASSUME NEW w \in Workers, RenderHeatmap(w) PROVE JobsTypeOK'
  <2>1. scenario[svc[w]].of \in Computations
    BY <1>0, <1>15 DEF RenderHeatmap, JobsTypeOK, Scenarios
  <2>2. After("heatmap") \in Steps
    BY <1>15, AfterIsAStep DEF RenderHeatmap, At, JobsInv, Threads
  <2>3. image' \in [Exercises -> Computations \union {Uploaded, None}]
    BY <1>0, <1>15, <2>1 DEF RenderHeatmap, JobsTypeOK
  <2>4. step' \in [Workers -> Steps]
    BY <1>0, <1>15, <2>2 DEF RenderHeatmap, Goto, JobsTypeOK, Steps
  <2>5. QED
    BY <1>0, <1>15, <2>3, <2>4 DEF RenderHeatmap, JobsTypeOK, store, stk
<1>16. ASSUME NEW w \in Workers, InjectOverlay(w) PROVE JobsTypeOK'
  <2>1. job[w] \in Exercises /\ file[job[w]] \in Documents
    BY <1>0, <1>16, BusyThread DEF InjectOverlay, At, JobsInv, Threads, JobsTypeOK
  <2>2. file' \in [Exercises -> Documents \union {None}]
    <3>1. [file[job[w]] EXCEPT !.overlay = TRUE] \in Documents
      BY <2>1, DocumentShapes
    <3>2. \/ file' = [file EXCEPT ![job[w]] = [file[job[w]] EXCEPT !.overlay = TRUE]]
          \/ UNCHANGED file
      BY <1>16 DEF InjectOverlay
    <3>3. QED
      BY <1>0, <3>1, <3>2, ZenonT(60) DEF JobsTypeOK
  <2>3. After("overlay") \in Steps
    BY <1>16, AfterIsAStep DEF InjectOverlay, At, JobsInv, Threads
  <2>4. QED
    BY <1>0, <1>16, <2>2, <2>3 DEF InjectOverlay, Goto, JobsTypeOK, store, stk
<1>17. ASSUME NEW w \in Workers, BuildDocument(w) PROVE JobsTypeOK'
  <2>1. Export(scenario[svc[w]], TRUE) \in Documents
    BY <1>0, <1>17, ExportShapes DEF BuildDocument, JobsTypeOK
  <2>2. After("document") \in Steps
    BY <1>17, AfterIsAStep DEF BuildDocument, At, JobsInv, Threads
  <2>3. QED
    BY <1>0, <1>17, <2>1, <2>2 DEF BuildDocument, Goto, JobsTypeOK, store, stk, disk
<1>18. ASSUME NEW w \in Workers, RenderImage(w) PROVE JobsTypeOK'
  <2>1. job[w] \in Exercises /\ doc[w] \in Documents
    BY <1>0, <1>18, BusyThread DEF RenderImage, At, JobsInv, Threads, JobsTypeOK
  <2>2. doc[w].of \in Computations
    BY <2>1, DocumentShapes
  <2>3. doc' \in [Workers -> Documents \union {None}]
    <3>1. CASE UNCHANGED doc
      BY <1>0, <3>1 DEF JobsTypeOK
    <3>2. ASSUME NEW b \in BOOLEAN, doc' = [doc EXCEPT ![w].overlay = b]
          PROVE  doc' \in [Workers -> Documents \union {None}]
      <4>1. [doc[w] EXCEPT !.overlay = b] \in Documents
        BY <2>1, DocumentShapes
      <4>2. doc' = [doc EXCEPT ![w] = [doc[w] EXCEPT !.overlay = b]]
        BY <3>2
      <4>3. QED
        BY <1>0, <4>1, <4>2 DEF JobsTypeOK
    <3>3. QED
      BY <1>18, <3>1, <3>2 DEF RenderImage
  <2>4. After("render") \in Steps
    BY <1>18, AfterIsAStep DEF RenderImage, At, JobsInv, Threads
  <2>5. QED
    BY <1>0, <1>18, <2>2, <2>3, <2>4 DEF RenderImage, Goto, JobsTypeOK, store, stk
<1>19. ASSUME NEW w \in Workers, WriteDocument(w) PROVE JobsTypeOK'
  <2>1. doc[w] \in Documents
    BY <1>0, <1>19 DEF WriteDocument, At, JobsInv, Threads, JobsTypeOK
  <2>2. After("write") \in Steps
    BY <1>19, AfterIsAStep DEF WriteDocument, At, JobsInv, Threads
  <2>3. QED
    BY <1>0, <1>19, <2>1, <2>2 DEF WriteDocument, Goto, JobsTypeOK, store, stk
<1>20. ASSUME NEW w \in Workers, NEW result \in {"ready", "error"},
              step[w] # "idle", EndJob(w, result)
       PROVE JobsTypeOK'
  <2>1. job[w] \in Exercises
    BY <1>20, BusyThread
  <2>2. /\ completed' \subseteq [of : Exercises, result : {"ready", "path", "error"}]
        /\ status' \in [Exercises -> {"absent", "created", "running", "ready", "error"}]
        /\ path' \in [Exercises -> BOOLEAN]
    <3>1. CASE gen = "mvp"
      BY <1>0, <1>20, <2>1, <3>1 DEF EndJob, JobsTypeOK
    <3>2. CASE gen # "mvp"
      <4>1. (path[job[w]] \/ result = "ready") \in BOOLEAN
        OBVIOUS
      <4>2. QED
        BY <1>0, <1>20, <2>1, <3>2, <4>1 DEF EndJob, JobsTypeOK
    <3>3. QED
      BY <3>1, <3>2
  <2>3. QED
    BY <1>0, <1>20, <2>2 DEF EndJob, Goto, JobsTypeOK, Steps, stk, disk
<1>21. ASSUME NEW c \in completed, RunComputeBackground(c) PROVE JobsTypeOK'
  <2>1. c \in [of : Exercises, result : {"ready", "path", "error"}]
    BY <1>0 DEF JobsTypeOK
  <2>2. /\ status' \in [Exercises -> {"absent", "created", "running", "ready", "error"}]
        /\ path' \in [Exercises -> BOOLEAN]
        /\ completed' \subseteq [of : Exercises, result : {"ready", "path", "error"}]
    <3>1. CASE c.result = "ready"
      <4>1. /\ status' = [status EXCEPT ![c.of] = "ready"] /\ path' = path
            /\ completed' = (completed \ {c}) \union {[of |-> c.of, result |-> "path"]}
        BY <1>21, <3>1 DEF RunComputeBackground
      <4>2. [of |-> c.of, result |-> "path"] \in [of : Exercises, result : {"ready", "path", "error"}]
        BY <2>1
      <4>3. QED
        BY <1>0, <4>1, <4>2 DEF JobsTypeOK
    <3>2. CASE c.result = "path"
      BY <1>0, <1>21, <2>1, <3>2 DEF RunComputeBackground, JobsTypeOK
    <3>3. CASE c.result = "error"
      BY <1>0, <1>21, <2>1, <3>3 DEF RunComputeBackground, JobsTypeOK
    <3>4. QED
      BY <2>1, <3>1, <3>2, <3>3
  <2>3. QED
    BY <1>0, <1>21, <2>2 DEF RunComputeBackground, JobsTypeOK, stk, disk
<1>22. CASE Shutdown
  <2>1. CASE DropPool
    <3>1. ToSet(queue) \subseteq Exercises
      BY <1>0 DEF JobsTypeOK, ToSet
    <3>2. <<>> \in Seq(Exercises)
      OBVIOUS
    <3>3. QED
      BY <1>0, <2>1, <3>1, <3>2 DEF DropPool, JobsTypeOK, store, stk, disk
  <2>2. CASE StopServing \/ Lifespan \/ StartStopper \/ StopStk \/ JoinTimesOut
    BY <1>0, <2>2 DEF StopServing, Lifespan, StartStopper, StopStk, JoinTimesOut, JobsTypeOK,
                      store, pool, stk, disk
  <2>3. QED
    BY <1>22, <2>1, <2>2 DEF Shutdown
<1>23. CASE UNCHANGED vars
  BY <1>0, <1>23 DEF vars, JobsTypeOK, store, pool, stk, disk
<1>24. ASSUME NEW w \in Workers, Work(w) PROVE JobsTypeOK'
  <2>1. CASE Finish(w)
    BY <1>20, <2>1 DEF Finish, At
  <2>2. CASE Raise(w)
    BY <1>20, <2>2 DEF Raise, At, Fallible
  <2>3. QED
    BY <1>5, <1>6, <1>7, <1>8, <1>9, <1>10, <1>11, <1>12, <1>13, <1>14, <1>15, <1>16, <1>17,
       <1>18, <1>19, <1>24, <2>1, <2>2 DEF Work
<1>25. QED
  BY <1>1, <1>2, <1>3, <1>4, <1>21, <1>22, <1>23, <1>24 DEF Next, Request, Loop

-----------------------------------------------------------------------------
(* No computation is lost or doubled.                                      *)

LEMMA QuietAccounts ==
  ASSUME RunningIsAccounted, UNCHANGED <<status, queue, job, completed, cancelled>>
  PROVE  RunningIsAccounted'
<1>1. Queued' = Queued /\ Held' = Held /\ Reported' = Reported
  BY DEF Queued, Held, Reported
<1>2. QED
  BY <1>1 DEF RunningIsAccounted

\* What a set of reports is about when one is added or replaced.
LEMMA ReportsOf ==
  ASSUME NEW S, NEW e, NEW r
  PROVE  /\ {c.of : c \in S \union {[of |-> e, result |-> r]}} = {c.of : c \in S} \union {e}
<1> DEFINE n == [of |-> e, result |-> r]
<1>1. n.of = e
  OBVIOUS
<1> HIDE DEF n
<1>2. {c.of : c \in S \union {n}} = {c.of : c \in S} \union {e}
  BY <1>1
<1>3. QED
  BY <1>2 DEF n

LEMMA ReportReplaced ==
  ASSUME NEW S, NEW x \in S, NEW r
  PROVE  {c.of : c \in (S \ {x}) \union {[of |-> x.of, result |-> r]}} = {c.of : c \in S}
<1> DEFINE n == [of |-> x.of, result |-> r]
<1>1. n.of = x.of
  OBVIOUS
<1> HIDE DEF n
<1>2. {c.of : c \in (S \ {x}) \union {n}} = {c.of : c \in S}
  BY <1>1
<1>3. QED
  BY <1>2 DEF n

\* Statuses that no computation has.
LEMMA OutsideThePool ==
  ASSUME JobsInv, NEW e \in Exercises, status[e] \notin {"running", "ready"}
  PROVE  e \notin Queued \union Held \union Reported \union cancelled
BY DEF JobsInv, RunningIsAccounted, Records, Reported

LEMMA EnqueueKeepsAccounts ==
  ASSUME JobsInv, NEW e \in Exercises, status[e] \notin {"running", "ready"},
         status' = [status EXCEPT ![e] = "running"], queue' = Append(queue, e),
         UNCHANGED <<job, completed, cancelled>>
  PROVE  RunningIsAccounted'
<1>1. /\ status \in [Exercises -> {"absent", "created", "running", "ready", "error"}]
      /\ queue \in Seq(Exercises)
  BY DEF JobsInv, JobsTypeOK
<1>2. e \notin Queued \union Held \union Reported \union cancelled
  BY OutsideThePool
<1>3. /\ Queued' = Queued \union {e} /\ Held' = Held /\ Reported' = Reported
      /\ cancelled' = cancelled
  BY <1>1, QueueGrows DEF Queued, Held, Reported
<1>4. /\ status'[e] = "running"
      /\ \A d \in Exercises : d # e => status'[d] = status[d]
  BY <1>1
<1>5. Distinct(queue')
  BY <1>1, <1>2, QueueStaysDistinct DEF JobsInv, RunningIsAccounted, Queued, Distinct
<1>6. Queued \union Held \union cancelled \subseteq Exercises
  BY <1>1 DEF JobsInv, JobsTypeOK, Queued, Held, ToSet
<1>7. /\ \A d \in Exercises : status'[d] = "running" =>
            d \in Queued' \union Held' \union Reported' \union cancelled'
      /\ \A d \in Queued' \union Held' \union cancelled' : status'[d] = "running"
  BY <1>2, <1>3, <1>4, <1>6 DEF JobsInv, RunningIsAccounted
<1>8. /\ Queued' \intersect Held' = {} /\ Reported' \intersect (Queued' \union Held') = {}
      /\ cancelled' \intersect (Queued' \union Held') = {}
  BY <1>2, <1>3 DEF JobsInv, RunningIsAccounted
<1>9. /\ \A v, w \in Workers : job'[v] = job'[w] => v = w \/ job'[v] = None
      /\ \A c, d \in completed' : c.of = d.of => c = d
  BY DEF JobsInv, RunningIsAccounted
<1>10. QED
  BY <1>5, <1>7, <1>8, <1>9 DEF RunningIsAccounted, Distinct

LEMMA TakeJobKeepsAccounts ==
  ASSUME JobsInv, NEW w \in Workers, TakeJob(w)
  PROVE  RunningIsAccounted'
<1>1. /\ queue \in Seq(Exercises) /\ queue # <<>> /\ Distinct(queue)
      /\ job \in [Workers -> Exercises \union {None}] /\ job[w] = None
  BY DEF TakeJob, At, JobsInv, JobsTypeOK, RunningIsAccounted, Threads, Distinct
<1>2. /\ queue' = Tail(queue) /\ job' = [job EXCEPT ![w] = Head(queue)]
      /\ UNCHANGED <<status, completed, cancelled>>
  BY DEF TakeJob, store
<1>3. /\ Head(queue) \in Exercises /\ Queued = Queued' \union {Head(queue)}
      /\ Head(queue) \notin Queued' /\ Distinct(queue')
  BY <1>1, <1>2, QueueShrinks DEF Queued
<1>4. Head(queue) \notin Held
  BY <1>3 DEF JobsInv, RunningIsAccounted
<1>5. Held' = Held \union {Head(queue)}
  BY <1>1, <1>2, <1>3, NoneIsNoData DEF Held
<1>6. \A v, u \in Workers : job'[v] = job'[u] => v = u \/ job'[v] = None
  BY <1>1, <1>2, <1>3, <1>4, NoneIsNoData DEF Held, JobsInv, RunningIsAccounted
<1>7. Reported' = Reported
  BY <1>2 DEF Reported
<1>8. /\ \A e \in Exercises : status'[e] = "running" =>
            e \in Queued' \union Held' \union Reported' \union cancelled'
      /\ \A e \in Queued' \union Held' \union cancelled' : status'[e] = "running"
  BY <1>2, <1>3, <1>5, <1>7 DEF JobsInv, RunningIsAccounted
<1>9. /\ Queued' \intersect Held' = {} /\ Reported' \intersect (Queued' \union Held') = {}
      /\ cancelled' \intersect (Queued' \union Held') = {}
  BY <1>2, <1>3, <1>5, <1>7 DEF JobsInv, RunningIsAccounted
<1>10. \A c, d \in completed' : c.of = d.of => c = d
  BY <1>2 DEF JobsInv, RunningIsAccounted
<1>11. QED
  BY <1>3, <1>6, <1>8, <1>9, <1>10 DEF RunningIsAccounted, Distinct

LEMMA EndJobKeepsAccounts ==
  ASSUME JobsInv, NEW w \in Workers, NEW result \in {"ready", "error"},
         step[w] # "idle", EndJob(w, result)
  PROVE  RunningIsAccounted'
<1> DEFINE e == job[w]
<1>1. /\ e \in Exercises /\ e # None /\ status[e] = "running" /\ e \in Held
  BY BusyThread DEF Held
<1> HIDE DEF e
<1>2. /\ e \notin Queued /\ e \notin Reported /\ e \notin cancelled
  BY <1>1 DEF JobsInv, RunningIsAccounted
<1>3. /\ job \in [Workers -> Exercises \union {None}] /\ job' = [job EXCEPT ![w] = None]
      /\ UNCHANGED <<queue, cancelled>>
  BY DEF EndJob, JobsInv, JobsTypeOK
<1>4. \A v \in Workers : job[v] = e => v = w
  BY <1>1, <1>3 DEF JobsInv, RunningIsAccounted, e
<1>5. Held' = Held \ {e}
  BY <1>1, <1>3, <1>4 DEF Held, e
<1>6. Queued' = Queued /\ Distinct(queue')
  BY <1>3 DEF Queued, JobsInv, RunningIsAccounted, Distinct
<1>7. \A v, u \in Workers : job'[v] = job'[u] => v = u \/ job'[v] = None
  BY <1>3 DEF JobsInv, RunningIsAccounted
<1>8. Queued \union Held \union cancelled \subseteq Exercises
  BY <1>3 DEF JobsInv, JobsTypeOK, Queued, Held, ToSet
<1>9. CASE gen = "mvp"
  <2>1. /\ status' = status
        /\ completed' = completed \union {[of |-> e, result |-> result]}
    BY <1>9 DEF EndJob, e
  <2>2. Reported' = Reported \union {e}
    BY <2>1, ReportsOf DEF Reported
  <2>3. \A c, d \in completed' : c.of = d.of => c = d
    BY <1>2, <2>1 DEF JobsInv, RunningIsAccounted, Reported
  <2>4. /\ \A d \in Exercises : status'[d] = "running" =>
              d \in Queued' \union Held' \union Reported' \union cancelled'
        /\ \A d \in Queued' \union Held' \union cancelled' : status'[d] = "running"
    BY <1>3, <1>5, <1>6, <2>1, <2>2 DEF JobsInv, RunningIsAccounted
  <2>5. /\ Queued' \intersect Held' = {} /\ Reported' \intersect (Queued' \union Held') = {}
        /\ cancelled' \intersect (Queued' \union Held') = {}
    BY <1>2, <1>3, <1>5, <1>6, <2>2 DEF JobsInv, RunningIsAccounted
  <2>6. QED
    BY <1>6, <1>7, <2>3, <2>4, <2>5 DEF RunningIsAccounted, Distinct
<1>10. CASE gen # "mvp"
  <2>1. /\ status' = [status EXCEPT ![e] = result] /\ completed' = completed
        /\ status \in [Exercises -> {"absent", "created", "running", "ready", "error"}]
    BY <1>10 DEF EndJob, e, JobsInv, JobsTypeOK
  <2>2. /\ status'[e] = result /\ result # "running"
        /\ \A d \in Exercises : d # e => status'[d] = status[d]
    BY <1>1, <2>1
  <2>3. Reported' = Reported
    BY <2>1 DEF Reported
  <2>4. /\ \A d \in Exercises : status'[d] = "running" =>
              d \in Queued' \union Held' \union Reported' \union cancelled'
        /\ \A d \in Queued' \union Held' \union cancelled' : status'[d] = "running"
    BY <1>2, <1>3, <1>5, <1>6, <1>8, <2>2, <2>3 DEF JobsInv, RunningIsAccounted
  <2>5. /\ Queued' \intersect Held' = {} /\ Reported' \intersect (Queued' \union Held') = {}
        /\ cancelled' \intersect (Queued' \union Held') = {}
    BY <1>3, <1>5, <1>6, <2>3 DEF JobsInv, RunningIsAccounted
  <2>6. \A c, d \in completed' : c.of = d.of => c = d
    BY <2>1 DEF JobsInv, RunningIsAccounted
  <2>7. QED
    BY <1>6, <1>7, <2>4, <2>5, <2>6 DEF RunningIsAccounted, Distinct
<1>11. QED
  BY <1>9, <1>10

LEMMA ReportKeepsAccounts ==
  ASSUME JobsInv, NEW c \in completed, RunComputeBackground(c)
  PROVE  RunningIsAccounted'
<1>1. /\ c.of \in Exercises /\ c.result \in {"ready", "path", "error"}
      /\ c = [of |-> c.of, result |-> c.result]
      /\ status \in [Exercises -> {"absent", "created", "running", "ready", "error"}]
  BY DEF JobsInv, JobsTypeOK
<1>2. c.of \in Reported /\ c.of \notin Queued \union Held \union cancelled
  <2>1. c.of \in Reported
    BY DEF Reported
  <2>2. gen = "mvp"
    BY DEF JobsInv, Records
  <2>3. c.of \notin cancelled
    BY <2>2 DEF JobsInv, Records
  <2>4. QED
    BY <2>1, <2>3 DEF JobsInv, RunningIsAccounted
<1>3. /\ Queued' = Queued /\ Held' = Held /\ cancelled' = cancelled
      /\ queue' = queue /\ job' = job
  BY DEF RunComputeBackground, Queued, Held
<1>4. Queued \union Held \union cancelled \subseteq Exercises
  BY DEF JobsInv, JobsTypeOK, Queued, Held, ToSet
<1>5. /\ \A d \in Exercises : d # c.of => status'[d] = status[d]
      /\ status'[c.of] # "running"
      /\ Reported' \subseteq Reported /\ Reported \subseteq Reported' \union {c.of}
      /\ \A a, b \in completed' : a.of = b.of => a = b
  <2>1. CASE c.result = "ready"
    <3>1. /\ status' = [status EXCEPT ![c.of] = "ready"]
          /\ completed' = (completed \ {c}) \union {[of |-> c.of, result |-> "path"]}
      BY <2>1 DEF RunComputeBackground
    <3>2. Reported' = Reported
      <4>1. Reported' = {d.of : d \in (completed \ {c}) \union {[of |-> c.of, result |-> "path"]}}
        BY <3>1 DEF Reported
      <4>2. {d.of : d \in (completed \ {c}) \union {[of |-> c.of, result |-> "path"]}}
            = {d.of : d \in completed}
        BY ReportReplaced
      <4>3. QED
        BY <4>1, <4>2 DEF Reported
    <3>3. \A a, b \in completed' : a.of = b.of => a = b
      BY <3>1 DEF JobsInv, RunningIsAccounted
    <3>4. QED
      BY <1>1, <3>1, <3>2, <3>3
  <2>2. CASE c.result = "path"
    <3>1. status' = status /\ completed' = completed \ {c}
      BY <2>2 DEF RunComputeBackground
    <3>2. status[c.of] = "ready"
      BY <2>2 DEF JobsInv, Records
    <3>3. QED
      BY <3>1, <3>2 DEF Reported, JobsInv, RunningIsAccounted
  <2>3. CASE c.result = "error"
    <3>1. status' = [status EXCEPT ![c.of] = "error"] /\ completed' = completed \ {c}
      BY <2>3 DEF RunComputeBackground
    <3>2. QED
      BY <1>1, <3>1 DEF Reported, JobsInv, RunningIsAccounted
  <2>4. QED
    BY <1>1, <2>1, <2>2, <2>3
<1>6. /\ \A d \in Exercises : status'[d] = "running" =>
            d \in Queued' \union Held' \union Reported' \union cancelled'
      /\ \A d \in Queued' \union Held' \union cancelled' : status'[d] = "running"
  BY <1>2, <1>3, <1>4, <1>5 DEF JobsInv, RunningIsAccounted
<1>7. /\ Queued' \intersect Held' = {} /\ Reported' \intersect (Queued' \union Held') = {}
      /\ cancelled' \intersect (Queued' \union Held') = {}
  BY <1>3, <1>5 DEF JobsInv, RunningIsAccounted
<1>8. QED
  BY <1>3, <1>5, <1>6, <1>7 DEF JobsInv, RunningIsAccounted

LEMMA AccountsKept ==
  ASSUME JobsInv, [Next]_vars
  PROVE  RunningIsAccounted'
<1>0. RunningIsAccounted
  BY DEF JobsInv
<1>1. ASSUME NEW e \in Exercises, CreateExercise(e) PROVE RunningIsAccounted'
  <2>1. /\ status \in [Exercises -> {"absent", "created", "running", "ready", "error"}]
        /\ status' = [status EXCEPT ![e] = "created"] /\ status[e] = "absent"
        /\ UNCHANGED <<queue, job, completed, cancelled>>
    BY <1>1 DEF CreateExercise, JobsInv, JobsTypeOK, pool
  <2>2. e \notin Queued \union Held \union Reported \union cancelled
    BY <2>1, OutsideThePool
  <2>3. /\ Queued' = Queued /\ Held' = Held /\ Reported' = Reported
    BY <2>1 DEF Queued, Held, Reported
  <2>4. Queued \union Held \union cancelled \subseteq Exercises
    BY DEF JobsInv, JobsTypeOK, Queued, Held, ToSet
  <2>5. /\ \A d \in Exercises : status'[d] = "running" =>
              d \in Queued' \union Held' \union Reported' \union cancelled'
        /\ \A d \in Queued' \union Held' \union cancelled' : status'[d] = "running"
    BY <1>0, <2>1, <2>2, <2>3, <2>4 DEF RunningIsAccounted
  <2>6. QED
    BY <1>0, <2>1, <2>3, <2>5 DEF RunningIsAccounted
<1>2. ASSUME NEW e \in Exercises, CreateFromScenarioFile(e) \/ TriggerCompute(e)
      PROVE RunningIsAccounted'
  <2>1. /\ status[e] \notin {"running", "ready"}
        /\ status' = [status EXCEPT ![e] = "running"] /\ queue' = Append(queue, e)
        /\ UNCHANGED <<job, completed, cancelled>>
    BY <1>2 DEF CreateFromScenarioFile, TriggerCompute
  <2>2. QED
    BY <2>1, EnqueueKeepsAccounts
<1>3. ASSUME NEW e \in Exercises, UploadFomImage(e) PROVE RunningIsAccounted'
  BY <1>0, <1>3, QuietAccounts DEF UploadFomImage, store, pool
<1>4. ASSUME NEW w \in Workers, Work(w) PROVE RunningIsAccounted'
  <2>1. CASE TakeJob(w)
    BY <2>1, TakeJobKeepsAccounts
  <2>2. CASE Finish(w)
    BY <2>2, EndJobKeepsAccounts DEF Finish, At
  <2>3. CASE Raise(w)
    BY <2>3, EndJobKeepsAccounts DEF Raise, At, Fallible
  <2>4. CASE GetService(w) \/ Connect(w) \/ TakeService(w) \/ MockCompute(w)
    BY <1>0, <2>4, QuietAccounts DEF GetService, Connect, TakeService, MockCompute, store
  <2>5. CASE CloseScenario(w) \/ OpenScenario(w) \/ FillScenario(w) \/ ExportConnect(w)
    BY <1>0, <2>5, QuietAccounts
       DEF CloseScenario, OpenScenario, FillScenario, ExportConnect, store
  <2>6. CASE \/ PatchSensors(w) \/ RenderHeatmap(w) \/ InjectOverlay(w)
             \/ BuildDocument(w) \/ RenderImage(w) \/ WriteDocument(w)
    BY <1>0, <2>6, QuietAccounts
       DEF PatchSensors, RenderHeatmap, InjectOverlay, BuildDocument, RenderImage, WriteDocument,
           store
  <2>7. QED
    BY <1>4, <2>1, <2>2, <2>3, <2>4, <2>5, <2>6 DEF Work
<1>5. ASSUME NEW c \in completed, RunComputeBackground(c) PROVE RunningIsAccounted'
  BY <1>5, ReportKeepsAccounts
<1>6. CASE DropPool
  <2>1. cancelled = {}
    BY <1>6 DEF DropPool, JobsInv, Records
  <2>2. /\ cancelled' = Queued /\ queue' = <<>>
        /\ UNCHANGED <<status, job, completed>>
    BY <1>6 DEF DropPool, Queued, store
  <2>3. Queued' = {} /\ Held' = Held /\ Reported' = Reported
    BY <2>2 DEF Queued, Held, Reported, ToSet
  <2>4. QED
    BY <1>0, <2>1, <2>2, <2>3 DEF RunningIsAccounted
<1>7. CASE StopServing \/ Lifespan \/ StartStopper \/ StopStk \/ JoinTimesOut
  BY <1>0, <1>7, QuietAccounts
     DEF StopServing, Lifespan, StartStopper, StopStk, JoinTimesOut, store, pool
<1>8. CASE UNCHANGED vars
  BY <1>0, <1>8, QuietAccounts DEF vars, store, pool
<1>9. QED
  BY <1>1, <1>2, <1>3, <1>4, <1>5, <1>6, <1>7, <1>8 DEF Next, Request, Loop, Shutdown

-----------------------------------------------------------------------------
(* What the threads hold.                                                  *)

\* A document that was written stays, whatever is done to it.
FilesStay == \A e \in Exercises : file[e] # None => file'[e] # None

LEMMA WorkKeepsFiles ==
  ASSUME JobsInv, NEW w \in Workers, Work(w)
  PROVE  FilesStay
<1>0. JobsTypeOK
  BY DEF JobsInv
<1>1. CASE ExportConnect(w)
  <2>1. scenario[svc[w]] \in Scenarios
    BY <1>0, <1>1 DEF ExportConnect, JobsTypeOK
  <2>2. Export(scenario[svc[w]], FALSE) # None
    BY <2>1, ExportShapes, NoneIsNoData
  <2>3. QED
    BY <1>0, <1>1, <2>2 DEF ExportConnect, JobsTypeOK, FilesStay
<1>2. CASE PatchSensors(w)
  <2>1. job[w] \in Exercises /\ file[job[w]] \in Documents
    BY <1>0, <1>2, BusyThread DEF PatchSensors, At, JobsInv, Threads, JobsTypeOK
  <2>2. [file[job[w]] EXCEPT !.patched = TRUE] # None
    BY <2>1, DocumentShapes, NoneIsNoData
  <2>3. file' = [file EXCEPT ![job[w]] = [file[job[w]] EXCEPT !.patched = TRUE]]
    BY <1>2 DEF PatchSensors
  <2>4. QED
    BY <1>0, <2>2, <2>3 DEF JobsTypeOK, FilesStay
<1>3. CASE InjectOverlay(w)
  <2>1. job[w] \in Exercises /\ file[job[w]] \in Documents
    BY <1>0, <1>3, BusyThread DEF InjectOverlay, At, JobsInv, Threads, JobsTypeOK
  <2>2. [file[job[w]] EXCEPT !.overlay = TRUE] # None
    BY <2>1, DocumentShapes, NoneIsNoData
  <2>3. \/ file' = [file EXCEPT ![job[w]] = [file[job[w]] EXCEPT !.overlay = TRUE]]
        \/ file' = file
    BY <1>3 DEF InjectOverlay
  <2>4. QED
    BY <1>0, <2>2, <2>3 DEF JobsTypeOK, FilesStay
<1>4. CASE WriteDocument(w)
  <2>1. doc[w] # None
    BY <1>4 DEF WriteDocument, At, JobsInv, Threads
  <2>2. QED
    BY <1>0, <1>4, <2>1 DEF WriteDocument, JobsTypeOK, FilesStay
<1>5. CASE MockCompute(w)
  <2>1. Mine(w) \in Computations
    BY <1>5, BusyThread DEF MockCompute, At
  <2>2. Export([of |-> Mine(w), whole |-> TRUE], TRUE) # None
    BY <2>1, ExportShapes, NoneIsNoData DEF Scenarios
  <2>3. QED
    BY <1>0, <1>5, <2>2 DEF MockCompute, JobsTypeOK, FilesStay
<1>6. CASE file' = file
  BY <1>6 DEF FilesStay
<1>7. CASE TakeJob(w) \/ GetService(w) \/ Connect(w) \/ TakeService(w)
  BY <1>6, <1>7 DEF TakeJob, GetService, Connect, TakeService, disk
<1>8. CASE \/ CloseScenario(w) \/ OpenScenario(w) \/ FillScenario(w) \/ RenderHeatmap(w)
           \/ BuildDocument(w) \/ RenderImage(w) \/ Finish(w) \/ Raise(w)
  BY <1>6, <1>8 DEF CloseScenario, OpenScenario, FillScenario, RenderHeatmap, BuildDocument,
                    RenderImage, Finish, Raise, EndJob, disk
<1>9. QED
  BY <1>1, <1>2, <1>3, <1>4, <1>5, <1>7, <1>8 DEF Work

LEMMA UploadKeepsFiles ==
  ASSUME JobsInv, NEW e \in Exercises, UploadFomImage(e)
  PROVE  FilesStay
<1>1. file \in [Exercises -> Documents \union {None}] /\ file[e] \in Documents
  BY DEF UploadFomImage, ServesCzml, JobsInv, Records, JobsTypeOK
<1>2. PICK placed \in {TRUE, FALSE} : file' = [file EXCEPT ![e].overlay = @ \/ placed]
  BY DEF UploadFomImage
<1>3. file' = [file EXCEPT ![e] = [file[e] EXCEPT !.overlay = file[e].overlay \/ placed]]
  BY <1>2
<1>4. (file[e].overlay \/ placed) \in BOOLEAN
  OBVIOUS
<1>5. [file[e] EXCEPT !.overlay = file[e].overlay \/ placed] # None
  BY <1>1, <1>4, DocumentShapes, NoneIsNoData
<1>6. QED
  BY <1>1, <1>3, <1>5 DEF FilesStay

LEMMA QuietThreads ==
  ASSUME JobsInv, UNCHANGED <<gen, step, job, doc>>, FilesStay
  PROVE  Threads'
<1>1. Seats' = Seats
  BY DEF Seats
<1>2. \A w \in Workers : job[w] # None => job[w] \in Exercises
  BY DEF JobsInv, JobsTypeOK
<1>3. QED
  BY <1>1, <1>2 DEF JobsInv, Threads, FilesStay

\* One thread moves on and the others stay where they are.
LEMMA StepKeepsThreads ==
  ASSUME JobsInv, NEW w \in Workers, NEW s \in Steps, step' = [step EXCEPT ![w] = s],
         step[w] # "idle", s # "idle", UNCHANGED <<gen, job>>, FilesStay,
         \A v \in Workers : v # w => doc'[v] = doc[v],
         s \in {"export", "patch", "heatmap", "overlay"} => gen # "mvp3",
         s \in {"document", "render", "write"} => gen = "mvp3",
         s \in {"patch", "heatmap", "overlay", "done"} => file'[job[w]] # None,
         s \in {"render", "write"} => doc'[w] # None
  PROVE  Threads'
<1>1. Seats' = Seats
  BY DEF Seats
<1>2. /\ step'[w] = s
      /\ \A v \in Workers : v # w => step'[v] = step[v]
  BY DEF JobsInv, JobsTypeOK
<1>3. \A v \in Workers : job[v] # None => job[v] \in Exercises
  BY DEF JobsInv, JobsTypeOK
<1>4. Threads
  BY DEF JobsInv
<1>5. QED
  <2>1. SUFFICES ASSUME NEW v \in Workers
                 PROVE  /\ step'[v] = "idle" <=> job'[v] = None
                        /\ step'[v] # "idle" => v \in Seats'
                        /\ step'[v] \in {"export", "patch", "heatmap", "overlay"} => gen' # "mvp3"
                        /\ step'[v] \in {"document", "render", "write"} => gen' = "mvp3"
                        /\ step'[v] \in {"patch", "heatmap", "overlay", "done"} => file'[job'[v]] # None
                        /\ step'[v] \in {"render", "write"} => doc'[v] # None
    BY DEF Threads
  <2>2. CASE v = w
    BY <1>1, <1>2, <1>4, <2>2 DEF Threads
  <2>3. CASE v # w
    BY <1>1, <1>2, <1>3, <1>4, <2>3 DEF Threads, FilesStay
  <2>4. QED
    BY <2>2, <2>3

LEMMA EndJobKeepsThreads ==
  ASSUME JobsInv, NEW w \in Workers, NEW result, EndJob(w, result)
  PROVE  Threads'
<1>1. Seats' = Seats /\ file' = file
  BY DEF EndJob, Seats, disk
<1>2. /\ step'[w] = "idle" /\ job'[w] = None
      /\ \A v \in Workers : v # w => step'[v] = step[v] /\ job'[v] = job[v] /\ doc'[v] = doc[v]
  BY DEF EndJob, Goto, JobsInv, JobsTypeOK
<1>3. gen' = gen
  BY DEF EndJob
<1>4. QED
  BY <1>1, <1>2, <1>3 DEF JobsInv, Threads

LEMMA TakeJobKeepsThreads ==
  ASSUME JobsInv, NEW w \in Workers, TakeJob(w)
  PROVE  Threads'
<1>1. Seats' = Seats /\ file' = file /\ doc' = doc /\ gen' = gen
  BY DEF TakeJob, Seats, disk
<1>2. Head(queue) \in Exercises /\ w \in Seats
  BY DEF TakeJob, At, JobsInv, JobsTypeOK
<1>3. /\ step'[w] = "service" /\ job'[w] = Head(queue)
      /\ \A v \in Workers : v # w => step'[v] = step[v] /\ job'[v] = job[v]
  BY DEF TakeJob, Goto, JobsInv, JobsTypeOK
<1>4. QED
  BY <1>1, <1>2, <1>3, NoneIsNoData DEF JobsInv, Threads

LEMMA ThreadsKept ==
  ASSUME JobsInv, [Next]_vars
  PROVE  Threads'
<1>0. JobsTypeOK
  BY DEF JobsInv
<1>1. ASSUME NEW e \in Exercises,
             CreateExercise(e) \/ CreateFromScenarioFile(e) \/ TriggerCompute(e)
      PROVE  Threads'
  BY <1>1, QuietThreads
     DEF CreateExercise, CreateFromScenarioFile, TriggerCompute, pool, disk, FilesStay
<1>2. ASSUME NEW e \in Exercises, UploadFomImage(e) PROVE Threads'
  BY <1>2, QuietThreads, UploadKeepsFiles DEF UploadFomImage, pool
<1>3. ASSUME NEW w \in Workers, Work(w) PROVE Threads'
  <2>0. FilesStay
    BY <1>3, WorkKeepsFiles
  <2>1. CASE TakeJob(w)
    BY <2>1, TakeJobKeepsThreads
  <2>2. CASE Finish(w) \/ Raise(w)
    BY <2>2, EndJobKeepsThreads DEF Finish, Raise
  <2>3. CASE GetService(w)
    <3>1. PICK s \in {"connect", "mock", "close"} : step' = [step EXCEPT ![w] = s]
      BY <2>3 DEF GetService, Goto, FirstStep
    <3>2. QED
      BY <2>0, <2>3, <3>1, StepKeepsThreads DEF GetService, At, Steps
  <2>4. CASE Connect(w)
    BY <2>0, <2>4, StepKeepsThreads DEF Connect, At, Goto, Steps
  <2>5. CASE TakeService(w)
    <3>1. PICK s \in {"mock", "close"} : step' = [step EXCEPT ![w] = s]
      BY <2>5 DEF TakeService, Goto, FirstStep
    <3>2. QED
      BY <2>0, <2>5, <3>1, StepKeepsThreads DEF TakeService, At, Steps
  <2>6. CASE MockCompute(w)
    <3>1. job[w] \in Exercises /\ Mine(w) \in Computations
      BY <2>6, BusyThread DEF MockCompute, At
    <3>2. Export([of |-> Mine(w), whole |-> TRUE], TRUE) # None
      BY <3>1, ExportShapes, NoneIsNoData DEF Scenarios
    <3>3. file'[job[w]] # None
      BY <1>0, <2>6, <3>1, <3>2 DEF MockCompute, JobsTypeOK
    <3>4. QED
      BY <2>0, <2>6, <3>3, StepKeepsThreads DEF MockCompute, At, Goto, Steps
  <2>7. CASE CloseScenario(w)
    <3>1. After("close") = "open"
      BY AfterIsAStep
    <3>2. QED
      BY <2>0, <2>7, <3>1, StepKeepsThreads DEF CloseScenario, At, Goto, Steps
  <2>8. CASE OpenScenario(w)
    <3>1. /\ After("open") = "fill"
          /\ After("fill") = IF gen = "mvp3" THEN "document" ELSE "export"
      BY AfterIsAStep
    <3>2. PICK s \in {"fill", "document", "export"} :
            /\ step' = [step EXCEPT ![w] = s]
            /\ s = "document" => gen = "mvp3"
            /\ s = "export" => gen # "mvp3"
      BY <2>8, <3>1 DEF OpenScenario, Goto
    <3>3. QED
      BY <2>0, <2>8, <3>2, StepKeepsThreads DEF OpenScenario, At, Steps
  <2>9. CASE FillScenario(w)
    <3>1. After("fill") = IF gen = "mvp3" THEN "document" ELSE "export"
      BY AfterIsAStep
    <3>2. QED
      BY <2>0, <2>9, <3>1, StepKeepsThreads DEF FillScenario, At, Goto, Steps
  <2>10. CASE ExportConnect(w)
    <3>1. gen # "mvp3" /\ After("export") = "patch"
      BY <2>10, AfterIsAStep DEF ExportConnect, At, JobsInv, Threads
    <3>2. job[w] \in Exercises
      BY <2>10, BusyThread DEF ExportConnect, At
    <3>3. scenario[svc[w]] \in Scenarios
      BY <1>0, <2>10 DEF ExportConnect, JobsTypeOK
    <3>4. Export(scenario[svc[w]], FALSE) # None
      BY <3>3, ExportShapes, NoneIsNoData
    <3>5. file'[job[w]] # None
      BY <1>0, <2>10, <3>2, <3>4 DEF ExportConnect, JobsTypeOK
    <3>6. QED
      BY <2>0, <2>10, <3>1, <3>5, StepKeepsThreads DEF ExportConnect, At, Goto, Steps
  <2>11. CASE PatchSensors(w)
    <3>1. gen # "mvp3" /\ After("patch") = "heatmap" /\ file[job[w]] # None
      BY <2>11, AfterIsAStep DEF PatchSensors, At, JobsInv, Threads
    <3>2. job[w] \in Exercises
      BY <2>11, BusyThread DEF PatchSensors, At
    <3>3. QED
      BY <2>0, <2>11, <3>1, <3>2, StepKeepsThreads DEF PatchSensors, At, Goto, Steps, FilesStay
  <2>12. CASE RenderHeatmap(w)
    <3>1. gen # "mvp3" /\ After("heatmap") = "overlay" /\ file[job[w]] # None
      BY <2>12, AfterIsAStep DEF RenderHeatmap, At, JobsInv, Threads
    <3>2. job[w] \in Exercises
      BY <2>12, BusyThread DEF RenderHeatmap, At
    <3>3. PICK s \in {"overlay", "done"} : step' = [step EXCEPT ![w] = s]
      BY <2>12, <3>1 DEF RenderHeatmap, Goto
    <3>4. QED
      BY <2>0, <2>12, <3>1, <3>2, <3>3, StepKeepsThreads DEF RenderHeatmap, At, Steps, FilesStay
  <2>13. CASE InjectOverlay(w)
    <3>1. After("overlay") = "done" /\ file[job[w]] # None
      BY <2>13, AfterIsAStep DEF InjectOverlay, At, JobsInv, Threads
    <3>2. job[w] \in Exercises
      BY <2>13, BusyThread DEF InjectOverlay, At
    <3>3. QED
      BY <2>0, <2>13, <3>1, <3>2, StepKeepsThreads DEF InjectOverlay, At, Goto, Steps, FilesStay
  <2>14. CASE BuildDocument(w)
    <3>1. gen = "mvp3" /\ After("document") = "render"
      BY <2>14, AfterIsAStep DEF BuildDocument, At, JobsInv, Threads
    <3>2. scenario[svc[w]] \in Scenarios
      BY <1>0, <2>14 DEF BuildDocument, JobsTypeOK
    <3>3. Export(scenario[svc[w]], TRUE) # None
      BY <3>2, ExportShapes, NoneIsNoData
    <3>4. /\ doc'[w] # None
          /\ \A v \in Workers : v # w => doc'[v] = doc[v]
      BY <1>0, <2>14, <3>3 DEF BuildDocument, JobsTypeOK
    <3>5. QED
      BY <2>0, <2>14, <3>1, <3>4, StepKeepsThreads DEF BuildDocument, At, Goto, Steps
  <2>15. CASE RenderImage(w)
    <3>1. gen = "mvp3" /\ After("render") = "write" /\ doc[w] # None
      BY <2>15, AfterIsAStep DEF RenderImage, At, JobsInv, Threads
    <3>2. doc[w] \in Documents
      BY <1>0, <3>1 DEF JobsTypeOK
    <3>3. /\ doc'[w] # None
          /\ \A v \in Workers : v # w => doc'[v] = doc[v]
      <4>1. CASE doc' = doc
        BY <3>1, <4>1
      <4>2. ASSUME NEW b \in BOOLEAN, doc' = [doc EXCEPT ![w].overlay = b]
            PROVE  /\ doc'[w] # None
                   /\ \A v \in Workers : v # w => doc'[v] = doc[v]
        <5>1. doc' = [doc EXCEPT ![w] = [doc[w] EXCEPT !.overlay = b]]
          BY <4>2
        <5>2. [doc[w] EXCEPT !.overlay = b] # None
          BY <3>2, DocumentShapes, NoneIsNoData
        <5>3. QED
          BY <1>0, <5>1, <5>2 DEF JobsTypeOK
      <4>3. QED
        BY <2>15, <4>1, <4>2 DEF RenderImage
    <3>4. QED
      BY <2>0, <2>15, <3>1, <3>3, StepKeepsThreads DEF RenderImage, At, Goto, Steps
  <2>16. CASE WriteDocument(w)
    <3>1. After("write") = "done" /\ doc[w] # None
      BY <2>16, AfterIsAStep DEF WriteDocument, At, JobsInv, Threads
    <3>2. job[w] \in Exercises
      BY <2>16, BusyThread DEF WriteDocument, At
    <3>3. file'[job[w]] # None
      BY <1>0, <2>16, <3>1, <3>2 DEF WriteDocument, JobsTypeOK
    <3>4. QED
      BY <2>0, <2>16, <3>1, <3>3, StepKeepsThreads DEF WriteDocument, At, Goto, Steps
  <2>17. QED
    BY <1>3, <2>1, <2>2, <2>3, <2>4, <2>5, <2>6, <2>7, <2>8, <2>9, <2>10, <2>11, <2>12, <2>13,
       <2>14, <2>15, <2>16 DEF Work
<1>4. ASSUME NEW c \in completed, RunComputeBackground(c) PROVE Threads'
  BY <1>4, QuietThreads DEF RunComputeBackground, disk, FilesStay
<1>5. CASE Shutdown
  BY <1>5, QuietThreads
     DEF Shutdown, StopServing, Lifespan, DropPool, StartStopper, StopStk, JoinTimesOut, pool,
         disk, FilesStay
<1>6. CASE UNCHANGED vars
  BY <1>6, QuietThreads DEF vars, pool, disk, FilesStay
<1>7. QED
  BY <1>1, <1>2, <1>3, <1>4, <1>5, <1>6 DEF Next, Request, Loop

-----------------------------------------------------------------------------
(* What the records say.                                                   *)

LEMMA QuietRecords ==
  ASSUME JobsInv, UNCHANGED <<gen, phase, status, path, fromFile, try, completed, cancelled>>,
         FilesStay
  PROVE  Records'
<1>1. \A c \in completed : c.of \in Exercises
  BY DEF JobsInv, JobsTypeOK
<1>2. QED
  BY <1>1 DEF JobsInv, Records, FilesStay

LEMMA EnqueueKeepsRecords ==
  ASSUME JobsInv, NEW e \in Exercises, status[e] \notin {"running", "ready"},
         status' = [status EXCEPT ![e] = "running"],
         try' \in [Exercises -> Nat], try'[e] # 0, \A d \in Exercises : d # e => try'[d] = try[d],
         \A d \in Exercises : gen # "mvp" => fromFile'[d] = fromFile[d],
         UNCHANGED <<gen, phase, path, completed, cancelled, file>>
  PROVE  Records'
<1>1. /\ status \in [Exercises -> {"absent", "created", "running", "ready", "error"}]
      /\ \A c \in completed : c.of \in Exercises /\ c.of # e
  BY DEF JobsInv, JobsTypeOK, Records
<1>2. /\ status'[e] = "running"
      /\ \A d \in Exercises : d # e => status'[d] = status[d]
  BY <1>1
<1>3. QED
  BY <1>1, <1>2 DEF JobsInv, Records

LEMMA EndJobKeepsRecords ==
  ASSUME JobsInv, NEW w \in Workers, NEW result \in {"ready", "error"}, step[w] # "idle",
         result = "ready" => file[job[w]] # None, EndJob(w, result)
  PROVE  Records'
<1> DEFINE e == job[w]
<1>1. /\ e \in Exercises /\ status[e] = "running" /\ try[e] # 0 /\ ~path[e]
      /\ result = "ready" => file[e] # None
  BY BusyThread DEF JobsInv, Records
<1>2. /\ status \in [Exercises -> {"absent", "created", "running", "ready", "error"}]
      /\ path \in [Exercises -> BOOLEAN]
      /\ \A c \in completed : c.of \in Exercises
  BY DEF JobsInv, JobsTypeOK
<1>3. UNCHANGED <<gen, phase, fromFile, try, cancelled, file>>
  BY DEF EndJob, disk
<1>4. CASE gen = "mvp"
  <2>1. /\ status' = status /\ path' = path
        /\ completed' = completed \union {[of |-> e, result |-> result]}
    BY <1>4 DEF EndJob
  <2> HIDE DEF e
  <2>2. QED
    BY <1>1, <1>2, <1>3, <1>4, <2>1 DEF JobsInv, Records
<1>5. CASE gen # "mvp"
  <2>1. /\ status' = [status EXCEPT ![e] = result] /\ completed' = completed
        /\ path' = [path EXCEPT ![e] = path[e] \/ result = "ready"]
    BY <1>5 DEF EndJob
  <2> HIDE DEF e
  <2>2. completed' = {}
    BY <1>5, <2>1 DEF JobsInv, Records
  <2>3. /\ status'[e] = result /\ path'[e] = (result = "ready")
        /\ \A d \in Exercises : d # e => status'[d] = status[d] /\ path'[d] = path[d]
    BY <1>1, <1>2, <2>1
  <2>4. QED
    BY <1>1, <1>3, <2>2, <2>3 DEF JobsInv, Records
<1>6. QED
  BY <1>4, <1>5

LEMMA ReportKeepsRecords ==
  ASSUME JobsInv, NEW c \in completed, RunComputeBackground(c)
  PROVE  Records'
<1>1. /\ c.of \in Exercises /\ c.result \in {"ready", "path", "error"}
      /\ status \in [Exercises -> {"absent", "created", "running", "ready", "error"}]
      /\ path \in [Exercises -> BOOLEAN]
      /\ \A d \in completed : d.of \in Exercises
  BY DEF JobsInv, JobsTypeOK
<1>2. /\ gen = "mvp"
      /\ status[c.of] = IF c.result = "path" THEN "ready" ELSE "running"
      /\ try[c.of] # 0 /\ ~path[c.of]
      /\ c.result # "error" => file[c.of] # None
  BY <1>1 DEF JobsInv, Records
<1>3. \A d \in completed : d # c => d.of # c.of
  BY DEF JobsInv, RunningIsAccounted
<1>4. UNCHANGED <<gen, phase, fromFile, try, cancelled, file>>
  BY DEF RunComputeBackground, disk
<1>5. CASE c.result = "ready"
  <2>1. /\ status' = [status EXCEPT ![c.of] = "ready"] /\ path' = path
        /\ completed' = (completed \ {c}) \union {[of |-> c.of, result |-> "path"]}
    BY <1>5 DEF RunComputeBackground
  <2>2. /\ status'[c.of] = "ready"
        /\ \A d \in Exercises : d # c.of => status'[d] = status[d]
    BY <1>1, <2>1
  <2>3. \A d \in completed' : (d.of = c.of /\ d.result = "path") \/ d \in completed \ {c}
    BY <2>1
  <2>4. QED
    BY <1>1, <1>2, <1>3, <1>4, <1>5, <2>1, <2>2, <2>3 DEF JobsInv, Records
<1>6. CASE c.result = "path"
  <2>1. /\ path' = [path EXCEPT ![c.of] = TRUE] /\ status' = status
        /\ completed' = completed \ {c}
    BY <1>6 DEF RunComputeBackground
  <2>2. /\ path'[c.of] /\ status'[c.of] = "ready"
        /\ \A d \in Exercises : d # c.of => path'[d] = path[d]
    BY <1>1, <1>2, <1>6, <2>1
  <2>3. QED
    BY <1>1, <1>2, <1>3, <1>4, <2>1, <2>2 DEF JobsInv, Records
<1>7. CASE c.result = "error"
  <2>1. /\ status' = [status EXCEPT ![c.of] = "error"] /\ path' = path
        /\ completed' = completed \ {c}
    BY <1>7 DEF RunComputeBackground
  <2>2. /\ status'[c.of] = "error"
        /\ \A d \in Exercises : d # c.of => status'[d] = status[d]
    BY <1>1, <2>1
  <2>3. QED
    BY <1>1, <1>2, <1>3, <1>4, <2>1, <2>2 DEF JobsInv, Records
<1>8. QED
  BY <1>1, <1>5, <1>6, <1>7

LEMMA RecordsKept ==
  ASSUME JobsInv, [Next]_vars
  PROVE  Records'
<1>1. ASSUME NEW e \in Exercises, CreateExercise(e) PROVE Records'
  <2>1. /\ status \in [Exercises -> {"absent", "created", "running", "ready", "error"}]
        /\ \A c \in completed : c.of \in Exercises
    BY DEF JobsInv, JobsTypeOK
  <2>2. /\ status[e] = "absent" /\ status'[e] = "created"
        /\ \A d \in Exercises : d # e => status'[d] = status[d]
        /\ UNCHANGED <<gen, phase, path, fromFile, try, completed, cancelled, file>>
    BY <1>1, <2>1 DEF CreateExercise, pool, disk
  <2>3. QED
    BY <2>1, <2>2 DEF JobsInv, Records
<1>2. ASSUME NEW e \in Exercises, CreateFromScenarioFile(e) PROVE Records'
  <2>1. try \in [Exercises -> 0..MaxTries]
    BY DEF JobsInv, JobsTypeOK
  <2>2. /\ try' \in [Exercises -> Nat] /\ try'[e] # 0
        /\ \A d \in Exercises : d # e => try'[d] = try[d]
    BY <1>2, <2>1, JobsAssumption DEF CreateFromScenarioFile
  <2>3. QED
    BY <1>2, <2>2, EnqueueKeepsRecords DEF CreateFromScenarioFile, disk
<1>3. ASSUME NEW e \in Exercises, TriggerCompute(e) PROVE Records'
  <2>1. try \in [Exercises -> 0..MaxTries]
    BY DEF JobsInv, JobsTypeOK
  <2>2. /\ try' \in [Exercises -> Nat] /\ try'[e] # 0
        /\ \A d \in Exercises : d # e => try'[d] = try[d]
    BY <1>3, <2>1, JobsAssumption DEF TriggerCompute
  <2>3. QED
    BY <1>3, <2>2, EnqueueKeepsRecords DEF TriggerCompute, disk
<1>4. ASSUME NEW e \in Exercises, UploadFomImage(e) PROVE Records'
  BY <1>4, QuietRecords, UploadKeepsFiles DEF UploadFomImage, store, pool
<1>5. ASSUME NEW w \in Workers, Work(w) PROVE Records'
  <2>0. FilesStay
    BY <1>5, WorkKeepsFiles
  <2>1. CASE Finish(w)
    <3>1. step[w] = "done" /\ file[job[w]] # None
      BY <2>1 DEF Finish, At, JobsInv, Threads
    <3>2. QED
      BY <2>1, <3>1, EndJobKeepsRecords DEF Finish
  <2>2. CASE Raise(w)
    BY <2>2, EndJobKeepsRecords DEF Raise, At, Fallible
  <2>3. CASE TakeJob(w) \/ GetService(w) \/ Connect(w) \/ TakeService(w) \/ MockCompute(w)
    BY <2>0, <2>3, QuietRecords
       DEF TakeJob, GetService, Connect, TakeService, MockCompute, store
  <2>4. CASE CloseScenario(w) \/ OpenScenario(w) \/ FillScenario(w) \/ ExportConnect(w)
    BY <2>0, <2>4, QuietRecords
       DEF CloseScenario, OpenScenario, FillScenario, ExportConnect, store
  <2>5. CASE \/ PatchSensors(w) \/ RenderHeatmap(w) \/ InjectOverlay(w)
             \/ BuildDocument(w) \/ RenderImage(w) \/ WriteDocument(w)
    BY <2>0, <2>5, QuietRecords
       DEF PatchSensors, RenderHeatmap, InjectOverlay, BuildDocument, RenderImage, WriteDocument,
           store
  <2>6. QED
    BY <1>5, <2>1, <2>2, <2>3, <2>4, <2>5 DEF Work
<1>6. ASSUME NEW c \in completed, RunComputeBackground(c) PROVE Records'
  BY <1>6, ReportKeepsRecords
<1>7. CASE Shutdown
  <2>1. UNCHANGED <<gen, status, path, fromFile, try, completed, file>>
    BY <1>7 DEF Shutdown, StopServing, Lifespan, DropPool, StartStopper, StopStk, JoinTimesOut,
                store, pool, disk
  <2>2. phase' \in {"up", "closing"} \/ gen # "mvp3" => cancelled' = {}
    BY <1>7 DEF Shutdown, StopServing, Lifespan, DropPool, StartStopper, StopStk, JoinTimesOut,
                pool, JobsInv, Records
  <2>3. QED
    BY <2>1, <2>2 DEF JobsInv, Records
<1>8. CASE UNCHANGED vars
  BY <1>8, QuietRecords DEF vars, store, pool, disk, FilesStay
<1>9. QED
  BY <1>1, <1>2, <1>3, <1>4, <1>5, <1>6, <1>7, <1>8 DEF Next, Request, Loop

-----------------------------------------------------------------------------
(* Engines.                                                                *)

LEMMA EngineeringKept ==
  ASSUME JobsInv, [Next]_vars
  PROVE  Engineering'
<1>1. CASE UNCHANGED <<gen, step, instance, started>> /\ alive' \subseteq alive
  BY <1>1 DEF JobsInv, Engineering
<1>2. ASSUME NEW w \in Workers, NEW s, s # "connect", step' = [step EXCEPT ![w] = s],
             UNCHANGED <<gen, instance, started, alive>>
      PROVE  Engineering'
  <2>1. \A v \in Workers : step'[v] = "connect" => step[v] = "connect"
    BY <1>2 DEF JobsInv, JobsTypeOK
  <2>2. QED
    BY <1>2, <2>1 DEF JobsInv, Engineering
<1>3. ASSUME NEW w \in Workers, GetService(w) PROVE Engineering'
  <2>1. CASE instance # None
    <3>1. PICK s \in {"mock", "close"} : step' = [step EXCEPT ![w] = s]
      BY <1>3, <2>1 DEF GetService, Goto, FirstStep
    <3>2. QED
      BY <1>2, <1>3, <3>1 DEF GetService, stk
  <2>2. CASE instance = None
    BY <1>3, <2>2 DEF GetService, stk, JobsInv, Engineering
  <2>3. QED
    BY <2>1, <2>2
<1>4. ASSUME NEW w \in Workers, Connect(w) PROVE Engineering'
  <2>1. alive' \subseteq started'
    BY <1>4 DEF Connect, JobsInv, Engineering
  <2>2. ASSUME gen # "mvp"
        PROVE  /\ \A g, h \in started' : g = h
               /\ instance' # None
               /\ \A v \in Workers : step'[v] # "connect"
    <3>1. step[w] = "connect" /\ started = {}
      BY <1>4, <2>2 DEF Connect, At, JobsInv, Engineering
    <3>2. \A g, h \in started' : g = h
      BY <1>4, <3>1 DEF Connect
    <3>3. instance' # None
      BY <1>4, NoneIsNoData DEF Connect
    <3>4. \A v \in Workers : v # w => step[v] # "connect"
      BY <2>2, <3>1, SingleSeat
    <3>5. step' = [step EXCEPT ![w] = "take"]
      BY <1>4 DEF Connect, Goto
    <3>6. QED
      BY <3>2, <3>3, <3>4, <3>5 DEF JobsInv, JobsTypeOK
  <2>3. gen' = gen
    BY <1>4 DEF Connect
  <2>4. QED
    BY <2>1, <2>2, <2>3 DEF Engineering
<1>5. ASSUME NEW w \in Workers, Work(w) PROVE Engineering'
  <2>1. CASE TakeJob(w) \/ MockCompute(w)
    BY <1>2, <2>1 DEF TakeJob, MockCompute, Goto, stk
  <2>2. CASE TakeService(w)
    <3>1. PICK s \in {"mock", "close"} : step' = [step EXCEPT ![w] = s]
      BY <2>2 DEF TakeService, Goto, FirstStep
    <3>2. QED
      BY <1>2, <2>2, <3>1 DEF TakeService, stk
  <2>3. CASE Finish(w) \/ Raise(w)
    BY <1>2, <2>3 DEF Finish, Raise, EndJob, Goto, stk
  <2>4. CASE CloseScenario(w) \/ OpenScenario(w) \/ FillScenario(w)
    <3>1. After("close") # "connect" /\ After("open") # "connect" /\ After("fill") # "connect"
      BY AfterIsAStep
    <3>2. PICK s : s # "connect" /\ step' = [step EXCEPT ![w] = s]
      BY <2>4, <3>1 DEF CloseScenario, OpenScenario, FillScenario, Goto
    <3>3. QED
      BY <1>2, <2>4, <3>2 DEF CloseScenario, OpenScenario, FillScenario
  <2>5. CASE ExportConnect(w) \/ PatchSensors(w) \/ RenderHeatmap(w) \/ InjectOverlay(w)
    <3>1. gen # "mvp3"
      BY <2>5 DEF ExportConnect, PatchSensors, RenderHeatmap, InjectOverlay, At, JobsInv, Threads
    <3>2. \A s \in {"export", "patch", "heatmap", "overlay"} : After(s) # "connect"
      BY <3>1, AfterIsAStep
    <3>3. PICK s : s # "connect" /\ step' = [step EXCEPT ![w] = s]
      BY <2>5, <3>2 DEF ExportConnect, PatchSensors, RenderHeatmap, InjectOverlay, Goto
    <3>4. QED
      BY <1>2, <2>5, <3>3 DEF ExportConnect, PatchSensors, RenderHeatmap, InjectOverlay, stk
  <2>6. CASE BuildDocument(w) \/ RenderImage(w) \/ WriteDocument(w)
    <3>1. gen = "mvp3"
      BY <2>6 DEF BuildDocument, RenderImage, WriteDocument, At, JobsInv, Threads
    <3>2. \A s \in {"document", "render", "write"} : After(s) # "connect"
      BY <3>1, AfterIsAStep
    <3>3. PICK s : s # "connect" /\ step' = [step EXCEPT ![w] = s]
      BY <2>6, <3>2 DEF BuildDocument, RenderImage, WriteDocument, Goto
    <3>4. QED
      BY <1>2, <2>6, <3>3 DEF BuildDocument, RenderImage, WriteDocument, stk
  <2>7. QED
    BY <1>3, <1>4, <1>5, <2>1, <2>2, <2>3, <2>4, <2>5, <2>6 DEF Work
<1>6. ASSUME NEW e \in Exercises,
             CreateExercise(e) \/ CreateFromScenarioFile(e) \/ TriggerCompute(e) \/ UploadFomImage(e)
      PROVE  Engineering'
  BY <1>1, <1>6
     DEF CreateExercise, CreateFromScenarioFile, TriggerCompute, UploadFomImage, pool, stk
<1>7. ASSUME NEW c \in completed, RunComputeBackground(c) PROVE Engineering'
  BY <1>1, <1>7 DEF RunComputeBackground, stk
<1>8. CASE Shutdown
  BY <1>1, <1>8
     DEF Shutdown, StopServing, Lifespan, DropPool, StartStopper, StopStk, JoinTimesOut, pool, stk
<1>9. CASE UNCHANGED vars
  BY <1>1, <1>9 DEF vars, pool, stk
<1>10. QED
  BY <1>5, <1>6, <1>7, <1>8, <1>9 DEF Next, Request, Loop

-----------------------------------------------------------------------------
(* The invariant and what follows from it.                                 *)

LEMMA JobsInvInit ==
  ASSUME Init
  PROVE  JobsInv
<1> USE NoneIsNoData
<1>1. JobsTypeOK
  <2>1. queue \in Seq(Exercises) /\ try \in [Exercises -> 0..MaxTries]
    BY JobsAssumption DEF Init
  <2>2. step \in [Workers -> Steps]
    BY DEF Init, Steps
  <2>3. QED
    BY <2>1, <2>2 DEF Init, JobsTypeOK
<1>2. RunningIsAccounted
  <2>1. Queued = {} /\ Held = {} /\ Reported = {}
    BY DEF Init, Queued, Held, Reported, ToSet
  <2>2. QED
    BY <2>1 DEF Init, RunningIsAccounted
<1>3. Threads
  BY DEF Init, Threads
<1>4. Records
  BY DEF Init, Records
<1>5. Engineering
  BY DEF Init, Engineering
<1>6. QED
  BY <1>1, <1>2, <1>3, <1>4, <1>5 DEF JobsInv

LEMMA JobsInvInvariant == Spec => []JobsInv
<1>1. JobsInv /\ [Next]_vars => JobsInv'
  BY TypesKept, AccountsKept, ThreadsKept, RecordsKept, EngineeringKept DEF JobsInv
<1>2. QED
  BY JobsInvInit, <1>1, PTL DEF Spec

-----------------------------------------------------------------------------
(* The services implement the lifecycle.                                   *)

\* What a client sees changes only where a status, a path or a served document does.
LEMMA SameView ==
  ASSUME UNCHANGED <<status, path>>,
         \A e \in Exercises : ServesCzml(e) => file'[e].of = file[e].of
  PROVE  SeenStatus' = SeenStatus /\ Served' = Served
<1>1. \A e \in Exercises : ServesCzml(e)' = ServesCzml(e)
  BY DEF ServesCzml
<1>2. SeenStatus' = SeenStatus
  BY DEF SeenStatus
<1>3. Served' = Served
  BY <1>1 DEF Served
<1>4. QED
  BY <1>2, <1>3

LEMMA OneView ==
  ASSUME NEW e \in Exercises, file' = file,
         \A d \in Exercises : d # e => status'[d] = status[d] /\ path'[d] = path[d]
  PROVE  /\ SeenStatus' = [SeenStatus EXCEPT ![e] = SeenStatus'[e]]
         /\ Served' = [Served EXCEPT ![e] = Served'[e]]
<1>1. \A d \in Exercises : d # e => SeenStatus'[d] = SeenStatus[d]
  BY DEF SeenStatus
<1>2. \A d \in Exercises : d # e => Served'[d] = Served[d]
  BY DEF Served, ServesCzml
<1>3. /\ SeenStatus = [d \in Exercises |-> SeenStatus[d]]
      /\ SeenStatus' = [d \in Exercises |-> SeenStatus'[d]]
  BY DEF SeenStatus
<1>4. /\ Served = [d \in Exercises |-> Served[d]]
      /\ Served' = [d \in Exercises |-> Served'[d]]
  BY DEF Served
<1>5. SeenStatus' = [SeenStatus EXCEPT ![e] = SeenStatus'[e]]
  BY <1>1, <1>3
<1>6. Served' = [Served EXCEPT ![e] = Served'[e]]
  BY <1>2, <1>4
<1>7. QED
  BY <1>5, <1>6

\* An exercise that shows nothing before and after a step leaves Served alone.
LEMMA NothingServed ==
  ASSUME NEW e \in Exercises, Served' = [Served EXCEPT ![e] = Served'[e]],
         ~ServesCzml(e), ~ServesCzml(e)'
  PROVE  Served' = Served
<1>1. Served[e] = None /\ Served'[e] = None
  BY DEF Served
<1>2. Served = [d \in Exercises |-> Served[d]]
  BY DEF Served
<1>3. QED
  BY <1>1, <1>2

\* A document that becomes served shows a computation.
LEMMA FirstServed ==
  ASSUME JobsInv, NEW e \in Exercises, Served' = [Served EXCEPT ![e] = Served'[e]],
         file' = file, file[e] # None, ServesCzml(e)'
  PROVE  \E s \in Computations : Served' = [Served EXCEPT ![e] = s]
<1>1. Served'[e] = file[e].of
  BY DEF Served
<1>2. file[e].of \in Computations
  BY DocumentShapes DEF JobsInv, JobsTypeOK
<1>3. QED
  BY <1>1, <1>2

\* A computing thread writes no file that a client can read.
LEMMA WorkIsUnseen ==
  ASSUME JobsInv, NEW w \in Workers, step[w] # "idle", UNCHANGED <<status, path>>,
         \A e \in Exercises : e # job[w] => file'[e] = file[e]
  PROVE  SeenStatus' = SeenStatus /\ Served' = Served
<1>1. status[job[w]] = "running"
  BY BusyThread
<1>2. \A e \in Exercises : ServesCzml(e) => e # job[w]
  BY <1>1 DEF ServesCzml
<1>3. QED
  BY <1>2, SameView

LEMMA EndJobIsALifecycleStep ==
  ASSUME JobsInv, NEW w \in Workers, NEW result \in {"ready", "error"}, step[w] # "idle",
         result = "ready" => file[job[w]] # None, EndJob(w, result)
  PROVE  [Lifecycle!Next]_Lifecycle!vars
<1>1. CASE gen = "mvp"
  BY <1>1, SameView DEF EndJob, disk, Lifecycle!vars
<1>2. CASE gen # "mvp"
  <2>1. PICK e \in Exercises : e = job[w] /\ status[e] = "running" /\ ~path[e]
    BY BusyThread DEF JobsInv, Records
  <2>2. /\ status \in [Exercises -> {"absent", "created", "running", "ready", "error"}]
        /\ path \in [Exercises -> BOOLEAN]
    BY DEF JobsInv, JobsTypeOK
  <2>3. /\ status'[e] = result /\ path'[e] = (result = "ready") /\ file' = file
        /\ \A d \in Exercises : d # e => status'[d] = status[d] /\ path'[d] = path[d]
    BY <1>2, <2>1, <2>2 DEF EndJob, disk
  <2>4. /\ SeenStatus' = [SeenStatus EXCEPT ![e] = SeenStatus'[e]]
        /\ Served' = [Served EXCEPT ![e] = Served'[e]]
    BY <2>1, <2>3, OneView
  <2>5. SeenStatus[e] = "running" /\ SeenStatus'[e] = result
    BY <2>1, <2>3 DEF SeenStatus
  <2>6. CASE result = "ready"
    <3>1. ServesCzml(e)' /\ file[e] # None
      BY <2>1, <2>3, <2>6 DEF ServesCzml
    <3>2. \E s \in Computations : Served' = [Served EXCEPT ![e] = s]
      BY <2>1, <2>3, <2>4, <3>1, FirstServed
    <3>3. SeenStatus' = [SeenStatus EXCEPT ![e] = "ready"]
      BY <2>4, <2>5, <2>6
    <3>4. Lifecycle!Serve(e)
      BY <2>5, <3>2, <3>3 DEF Lifecycle!Serve, Lifecycle!Move
    <3>5. QED
      BY <3>4 DEF Lifecycle!Next
  <2>7. CASE result = "error"
    <3>1. ~ServesCzml(e) /\ ~ServesCzml(e)'
      BY <2>1, <2>3, <2>7 DEF ServesCzml
    <3>2. Served' = Served
      BY <2>1, <2>4, <3>1, NothingServed
    <3>3. QED
      BY <2>1, <2>4, <2>5, <2>7, <3>2 DEF Lifecycle!Next, Lifecycle!Fail, Lifecycle!Move
  <2>8. QED
    BY <2>6, <2>7
<1>3. QED
  BY <1>1, <1>2

LEMMA ReportIsALifecycleStep ==
  ASSUME JobsInv, NEW c \in completed, RunComputeBackground(c)
  PROVE  [Lifecycle!Next]_Lifecycle!vars
<1>1. PICK e \in Exercises : e = c.of
  BY DEF JobsInv, JobsTypeOK
<1>2. /\ c.result \in {"ready", "path", "error"}
      /\ status \in [Exercises -> {"absent", "created", "running", "ready", "error"}]
      /\ path \in [Exercises -> BOOLEAN]
      /\ status[e] = IF c.result = "path" THEN "ready" ELSE "running"
      /\ ~path[e]
      /\ c.result # "error" => file[e] # None
  BY <1>1 DEF JobsInv, JobsTypeOK, Records
<1>3. /\ status'[e] = IF c.result = "error" THEN "error" ELSE "ready"
      /\ path'[e] = (c.result = "path") /\ file' = file
      /\ \A d \in Exercises : d # e => status'[d] = status[d] /\ path'[d] = path[d]
  BY <1>1, <1>2 DEF RunComputeBackground, disk
<1>4. /\ SeenStatus' = [SeenStatus EXCEPT ![e] = SeenStatus'[e]]
      /\ Served' = [Served EXCEPT ![e] = Served'[e]]
  BY <1>1, <1>3, OneView
<1>5. SeenStatus[e] = "running" /\ ~ServesCzml(e)
  BY <1>1, <1>2 DEF SeenStatus, ServesCzml
<1>6. CASE c.result = "ready"
  <2>1. SeenStatus'[e] = "running" /\ ~ServesCzml(e)'
    BY <1>1, <1>2, <1>3, <1>6 DEF SeenStatus, ServesCzml
  <2>2. Served' = Served
    BY <1>1, <1>4, <1>5, <2>1, NothingServed
  <2>3. SeenStatus' = SeenStatus
    BY <1>1, <1>4, <1>5, <2>1 DEF SeenStatus
  <2>4. QED
    BY <2>2, <2>3 DEF Lifecycle!vars
<1>7. CASE c.result = "path"
  <2>1. SeenStatus'[e] = "ready" /\ ServesCzml(e)' /\ file[e] # None
    BY <1>1, <1>2, <1>3, <1>7 DEF SeenStatus, ServesCzml
  <2>2. \E s \in Computations : Served' = [Served EXCEPT ![e] = s]
    BY <1>1, <1>3, <1>4, <2>1, FirstServed
  <2>3. QED
    BY <1>1, <1>4, <1>5, <2>1, <2>2 DEF Lifecycle!Next, Lifecycle!Serve, Lifecycle!Move
<1>8. CASE c.result = "error"
  <2>1. SeenStatus'[e] = "error" /\ ~ServesCzml(e)'
    BY <1>1, <1>2, <1>3, <1>8 DEF SeenStatus, ServesCzml
  <2>2. Served' = Served
    BY <1>1, <1>4, <1>5, <2>1, NothingServed
  <2>3. QED
    BY <1>1, <1>4, <1>5, <2>1, <2>2 DEF Lifecycle!Next, Lifecycle!Fail, Lifecycle!Move
<1>9. QED
  BY <1>2, <1>6, <1>7, <1>8

LEMMA RequestIsALifecycleStep ==
  ASSUME JobsInv, NEW e \in Exercises,
         CreateExercise(e) \/ CreateFromScenarioFile(e) \/ TriggerCompute(e)
  PROVE  [Lifecycle!Next]_Lifecycle!vars
<1>1. status \in [Exercises -> {"absent", "created", "running", "ready", "error"}]
  BY DEF JobsInv, JobsTypeOK
<1>2. PICK s \in {"created", "running"} :
        /\ status' = [status EXCEPT ![e] = s] /\ path' = path /\ file' = file
        /\ \/ status[e] = "absent"
           \/ status[e] \in {"created", "error"} /\ s = "running"
  BY <1>1 DEF CreateExercise, CreateFromScenarioFile, TriggerCompute, disk
<1>3. /\ status'[e] = s
      /\ \A d \in Exercises : d # e => status'[d] = status[d] /\ path'[d] = path[d]
  BY <1>1, <1>2
<1>4. /\ SeenStatus' = [SeenStatus EXCEPT ![e] = SeenStatus'[e]]
      /\ Served' = [Served EXCEPT ![e] = Served'[e]]
  BY <1>2, <1>3, OneView
<1>5. /\ SeenStatus[e] = status[e] /\ SeenStatus'[e] = s
      /\ ~ServesCzml(e) /\ ~ServesCzml(e)'
  BY <1>2, <1>3 DEF SeenStatus, ServesCzml
<1>6. Served' = Served
  BY <1>4, <1>5, NothingServed
<1>7. QED
  BY <1>2, <1>4, <1>5, <1>6
     DEF Lifecycle!Next, Lifecycle!Create, Lifecycle!Compute, Lifecycle!Move

LEMMA UploadIsUnseen ==
  ASSUME JobsInv, NEW e \in Exercises, UploadFomImage(e)
  PROVE  SeenStatus' = SeenStatus /\ Served' = Served
<1>1. file \in [Exercises -> Documents \union {None}] /\ file[e] \in Documents
  BY DEF UploadFomImage, ServesCzml, JobsInv, Records, JobsTypeOK
<1>2. PICK placed \in {TRUE, FALSE} : file' = [file EXCEPT ![e].overlay = @ \/ placed]
  BY DEF UploadFomImage
<1>3. file' = [file EXCEPT ![e] = [file[e] EXCEPT !.overlay = file[e].overlay \/ placed]]
  BY <1>2
<1>4. (file[e].overlay \/ placed) \in BOOLEAN
  OBVIOUS
<1>5. [file[e] EXCEPT !.overlay = file[e].overlay \/ placed].of = file[e].of
  BY <1>1, <1>4, DocumentShapes
<1>6. \A d \in Exercises : file'[d].of = file[d].of
  BY <1>1, <1>3, <1>5
<1>7. UNCHANGED <<status, path>>
  BY DEF UploadFomImage, store
<1>8. QED
  BY <1>6, <1>7, SameView

LEMMA JobsStepIsALifecycleStep ==
  ASSUME JobsInv, [Next]_vars
  PROVE  [Lifecycle!Next]_Lifecycle!vars
<1>1. ASSUME NEW e \in Exercises, UploadFomImage(e) PROVE [Lifecycle!Next]_Lifecycle!vars
  BY <1>1, UploadIsUnseen DEF Lifecycle!vars
<1>2. ASSUME NEW w \in Workers, Work(w) PROVE [Lifecycle!Next]_Lifecycle!vars
  <2>1. CASE Finish(w)
    <3>1. step[w] = "done" /\ file[job[w]] # None
      BY <2>1 DEF Finish, At, JobsInv, Threads
    <3>2. QED
      BY <2>1, <3>1, EndJobIsALifecycleStep DEF Finish
  <2>2. CASE Raise(w)
    BY <2>2, EndJobIsALifecycleStep DEF Raise, At, Fallible
  <2>3. CASE /\ UNCHANGED <<status, path>>
             /\ file' = file
    BY <2>3, SameView DEF Lifecycle!vars
  <2>4. CASE TakeJob(w) \/ GetService(w) \/ Connect(w) \/ TakeService(w) \/ CloseScenario(w)
    BY <2>3, <2>4
       DEF TakeJob, GetService, Connect, TakeService, CloseScenario, store, disk
  <2>5. CASE OpenScenario(w) \/ FillScenario(w) \/ RenderHeatmap(w) \/ BuildDocument(w) \/ RenderImage(w)
    BY <2>3, <2>5
       DEF OpenScenario, FillScenario, RenderHeatmap, BuildDocument, RenderImage, store, disk
  <2>6. CASE \/ MockCompute(w) \/ ExportConnect(w) \/ PatchSensors(w) \/ InjectOverlay(w)
             \/ WriteDocument(w)
    <3>1. step[w] # "idle" /\ UNCHANGED <<status, path>>
      BY <2>6 DEF MockCompute, ExportConnect, PatchSensors, InjectOverlay, WriteDocument, At, store
    <3>2. \A e \in Exercises : e # job[w] => file'[e] = file[e]
      BY <2>6 DEF MockCompute, ExportConnect, PatchSensors, InjectOverlay, WriteDocument,
                  JobsInv, JobsTypeOK
    <3>3. QED
      BY <3>1, <3>2, WorkIsUnseen DEF Lifecycle!vars
  <2>7. QED
    BY <1>2, <2>1, <2>2, <2>4, <2>5, <2>6 DEF Work
<1>3. CASE Shutdown \/ UNCHANGED vars
  <2>1. UNCHANGED <<status, path, file>>
    BY <1>3 DEF Shutdown, StopServing, Lifespan, DropPool, StartStopper, StopStk, JoinTimesOut,
                vars, store, disk
  <2>2. QED
    BY <2>1, SameView DEF Lifecycle!vars
<1>4. QED
  BY <1>1, <1>2, <1>3, RequestIsALifecycleStep, ReportIsALifecycleStep DEF Next, Request, Loop

LEMMA JobsInitIsALifecycleInit ==
  ASSUME Init
  PROVE  Lifecycle!Init
<1>1. SeenStatus = [e \in Exercises |-> "absent"]
  BY DEF Init, SeenStatus
<1>2. Served = [e \in Exercises |-> None]
  BY DEF Init, Served, ServesCzml
<1>3. QED
  BY <1>1, <1>2 DEF Lifecycle!Init

\* The variables keep their types and an idle thread holds nothing, for any
\* number of exercises, threads and attempts.
THEOREM JobsTypeCorrect == Spec => []JobsTypeOK
BY JobsInvInvariant, PTL DEF JobsInv

\* A running exercise is in the queue, with a thread, on its way to the event
\* loop or cancelled at shutdown, and never in two of these places: the guard of
\* trigger_compute and the except clauses neither lose nor double a computation.
THEOREM ComputationsAreAccounted == Spec => []RunningIsAccounted
BY JobsInvInvariant, PTL DEF JobsInv

\* get_stk_service looks at its global and assigns it in two steps, yet a pool
\* of one thread (mvp2, mvp3) never starts a second STK.
THEOREM OneSeatHolds == Spec => []OneSeat
<1>1. JobsInv => OneSeat
  BY DEF JobsInv, Engineering, OneSeat
<1>2. QED
  BY <1>1, JobsInvInvariant, PTL

\* The services of all three generations implement the lifecycle: a client sees
\* no status step back, mvp's two assignments included, and what a ready exercise
\* serves never becomes another scenario, whoever writes files meanwhile.
THEOREM JobsImplementLifecycleHolds == Spec => JobsImplementLifecycle
<1>1. Init => Lifecycle!Init
  BY JobsInitIsALifecycleInit
<1>2. JobsInv /\ [Next]_vars => [Lifecycle!Next]_Lifecycle!vars
  BY JobsStepIsALifecycleStep
<1>3. QED
  BY <1>1, <1>2, JobsInvInvariant, PTL DEF Spec, JobsImplementLifecycle, Lifecycle!Spec

-----------------------------------------------------------------------------
(* Whose document a ready exercise serves.                                 *)

\* In a pool of one thread an exercise's file and image are its own, and the
\* thread's next step says how far its scenario and its document have come.
OwnFile(e) ==
  /\ file[e] # None => file[e].of.of = e /\ file[e].whole
  /\ image[e] # None => image[e] # Uploaded /\ image[e].of = e
  /\ file[e] # None /\ file[e].overlay => image[e] # None
  /\ status[e] = "ready" => file[e].patched
  /\ status[e] = "ready" /\ gen = "mvp3" =>
       file[e].of.try = try[e] /\ (file[e].overlay => image[e] = file[e].of)

OwnWork(w) ==
  /\ step[w] \in {"export", "patch", "heatmap", "document"} =>
       scenario[svc[w]] = [of |-> Mine(w), whole |-> TRUE]
  /\ step[w] \in {"heatmap", "overlay", "done"} => file[job[w]].patched
  /\ step[w] = "overlay" => image[job[w]] # None
  /\ step[w] \in {"render", "write"} =>
       doc[w].of = Mine(w) /\ doc[w].whole /\ doc[w].patched
  /\ step[w] = "render" => ~doc[w].overlay
  /\ step[w] = "write" /\ doc[w].overlay => image[job[w]] = Mine(w)
  /\ step[w] = "done" /\ gen = "mvp3" =>
       /\ file[job[w]].of = Mine(w)
       /\ file[job[w]].overlay => image[job[w]] = Mine(w)

Documented ==
  gen # "mvp" => (\A e \in Exercises : OwnFile(e)) /\ (\A w \in Workers : OwnWork(w))

LEMMA DocumentFields ==
  ASSUME NEW d \in Documents
  PROVE  /\ [d EXCEPT !.patched = TRUE].of = d.of /\ [d EXCEPT !.patched = TRUE].patched
         /\ [d EXCEPT !.patched = TRUE].whole = d.whole
         /\ [d EXCEPT !.patched = TRUE].overlay = d.overlay
         /\ \A b \in BOOLEAN :
              /\ [d EXCEPT !.overlay = b].of = d.of /\ [d EXCEPT !.overlay = b].whole = d.whole
              /\ [d EXCEPT !.overlay = b].patched = d.patched
              /\ [d EXCEPT !.overlay = b].overlay = b
BY DEF Documents

LEMMA ExportFields ==
  ASSUME NEW c, NEW b \in BOOLEAN
  PROVE  LET d == Export([of |-> c, whole |-> TRUE], b)
         IN  d.of = c /\ d.whole = TRUE /\ d.patched = b /\ d.overlay = FALSE
BY DEF Export

LEMMA ScenarioFilled ==
  ASSUME NEW c, NEW s, s = [of |-> c, whole |-> FALSE]
  PROVE  [s EXCEPT !.whole = TRUE] = [of |-> c, whole |-> TRUE]
<1>1. s \in [of : {c}, whole : BOOLEAN]
  OBVIOUS
<1> DEFINE t == [s EXCEPT !.whole = TRUE]
<1>2. t \in [of : {c}, whole : BOOLEAN] /\ t.of = c /\ t.whole = TRUE
  BY <1>1
<1>3. t = [of |-> t.of, whole |-> t.whole]
  <2> HIDE DEF t
  <2>1. QED
    BY <1>2
<1>4. QED
  BY <1>2, <1>3

\* A thread that is left alone keeps what it has.
LEMMA OwnWorkStays ==
  ASSUME NEW v \in Workers, OwnWork(v), gen' = gen, scenario' = scenario,
         step'[v] = step[v], step[v] # "idle" =>
           /\ job'[v] = job[v] /\ svc'[v] = svc[v] /\ doc'[v] = doc[v]
           /\ try'[job[v]] = try[job[v]]
           /\ file'[job[v]] = file[job[v]] /\ image'[job[v]] = image[job[v]]
  PROVE  OwnWork(v)'
<1>1. step[v] # "idle" => Mine(v)' = Mine(v)
  BY DEF Mine
<1>2. QED
  BY <1>1 DEF OwnWork

\* Only the one thread at work has documents to account for.
LEMMA WorkKeepsDocuments ==
  ASSUME JobsInv, Documented, gen # "mvp", NEW w \in Workers, step[w] # "idle",
         UNCHANGED <<gen, status, try>>,
         \A v \in Workers : v # w => step'[v] = step[v],
         \A e \in Exercises : e # job[w] => file'[e] = file[e] /\ image'[e] = image[e],
         file'[job[w]] # None => file'[job[w]].of.of = job[w] /\ file'[job[w]].whole,
         image'[job[w]] # None => image'[job[w]] # Uploaded /\ image'[job[w]].of = job[w],
         file'[job[w]] # None /\ file'[job[w]].overlay => image'[job[w]] # None,
         OwnWork(w)'
  PROVE  Documented'
<1>1. PICK x \in Exercises : x = job[w] /\ status[x] = "running"
  BY BusyThread
<1>2. ASSUME NEW e \in Exercises PROVE OwnFile(e)'
  <2>1. CASE e = x
    BY <1>1, <2>1 DEF OwnFile
  <2>2. CASE e # x
    BY <1>1, <2>2 DEF OwnFile, Documented
  <2>3. QED
    BY <2>1, <2>2
<1>3. ASSUME NEW v \in Workers PROVE OwnWork(v)'
  <2>1. CASE v = w
    BY <2>1
  <2>2. CASE v # w
    <3>1. step'[v] = "idle"
      BY <2>2, SingleSeat
    <3>2. QED
      BY <3>1 DEF OwnWork
  <2>3. QED
    BY <2>1, <2>2
<1>4. QED
  BY <1>2, <1>3 DEF Documented

LEMMA RequestKeepsDocuments ==
  ASSUME JobsInv, Documented, gen # "mvp", NEW e \in Exercises,
         CreateExercise(e) \/ CreateFromScenarioFile(e) \/ TriggerCompute(e) \/ UploadFomImage(e)
  PROVE  Documented'
<1>1. /\ status \in [Exercises -> {"absent", "created", "running", "ready", "error"}]
      /\ try \in [Exercises -> 0..MaxTries]
  BY DEF JobsInv, JobsTypeOK
<1>2. CreateExercise(e) \/ TriggerCompute(e)
  BY DEF CreateFromScenarioFile, UploadFomImage
<1>3. /\ status[e] # "running" /\ status'[e] # "ready"
      /\ \A d \in Exercises : d # e => status'[d] = status[d] /\ try'[d] = try[d]
      /\ UNCHANGED <<gen, scenario, step, job, svc, doc, file, image>>
  BY <1>1, <1>2 DEF CreateExercise, TriggerCompute, pool, stk, disk
<1>4. ASSUME NEW d \in Exercises PROVE OwnFile(d)'
  BY <1>3 DEF OwnFile, Documented
<1>5. ASSUME NEW v \in Workers PROVE OwnWork(v)'
  <2>1. step[v] # "idle" => job[v] \in Exercises /\ job[v] # e
    BY <1>3, BusyThread
  <2>2. QED
    BY <1>3, <2>1, OwnWorkStays DEF Documented
<1>6. QED
  BY <1>4, <1>5 DEF Documented

LEMMA EndJobKeepsDocuments ==
  ASSUME JobsInv, Documented, gen # "mvp", NEW w \in Workers, NEW result \in {"ready", "error"},
         step[w] # "idle", result = "ready" => step[w] = "done", EndJob(w, result)
  PROVE  Documented'
<1>1. /\ status \in [Exercises -> {"absent", "created", "running", "ready", "error"}]
      /\ step \in [Workers -> Steps]
  BY DEF JobsInv, JobsTypeOK
<1>2. PICK x \in Exercises : x = job[w]
  BY BusyThread
<1>3. /\ step' = [step EXCEPT ![w] = "idle"] /\ status' = [status EXCEPT ![x] = result]
      /\ UNCHANGED <<gen, try, file, image>>
  BY <1>2 DEF EndJob, Goto, disk
<1>4. ASSUME NEW e \in Exercises PROVE OwnFile(e)'
  <2>1. CASE e = x /\ result = "ready"
    <3>1. /\ OwnFile(e) /\ OwnWork(w) /\ step[w] = "done"
      BY <2>1 DEF Documented
    <3>2. Mine(w).of = x /\ Mine(w).try = try[x]
      BY <1>2 DEF Mine
    <3>3. QED
      BY <1>2, <1>3, <2>1, <3>1, <3>2 DEF OwnFile, OwnWork
  <2>2. CASE e = x /\ result = "error"
    BY <1>1, <1>3, <2>2 DEF OwnFile, Documented
  <2>3. CASE e # x
    BY <1>1, <1>3, <2>3 DEF OwnFile, Documented
  <2>4. QED
    BY <2>1, <2>2, <2>3
<1>5. ASSUME NEW v \in Workers PROVE OwnWork(v)'
  <2>1. step'[v] = "idle"
    BY <1>1, <1>3, SingleSeat
  <2>2. QED
    BY <2>1 DEF OwnWork
<1>6. QED
  BY <1>4, <1>5 DEF Documented

LEMMA TakeJobKeepsDocuments ==
  ASSUME JobsInv, Documented, gen # "mvp", NEW w \in Workers, TakeJob(w)
  PROVE  Documented'
<1>1. /\ step \in [Workers -> Steps] /\ job \in [Workers -> Exercises \union {None}]
  BY DEF JobsInv, JobsTypeOK
<1>2. /\ step' = [step EXCEPT ![w] = "service"] /\ job' = [job EXCEPT ![w] = Head(queue)]
      /\ UNCHANGED <<gen, status, try, scenario, svc, doc, file, image>>
  BY DEF TakeJob, Goto, store, stk, disk
<1>3. \A e \in Exercises : OwnFile(e)'
  BY <1>2 DEF OwnFile, Documented
<1>4. ASSUME NEW v \in Workers PROVE OwnWork(v)'
  <2>1. CASE v = w
    BY <1>1, <1>2, <2>1 DEF OwnWork
  <2>2. CASE v # w
    BY <1>1, <1>2, <2>2, OwnWorkStays DEF Documented
  <2>3. QED
    BY <2>1, <2>2
<1>5. QED
  BY <1>3, <1>4 DEF Documented

LEMMA DocumentsKept ==
  ASSUME JobsInv, Documented, [Next]_vars
  PROVE  Documented'
<1>0. gen' = gen
  BY ZenonT(60) DEF Next, Request, CreateExercise, CreateFromScenarioFile, TriggerCompute, UploadFomImage,
     Work, TakeJob, GetService, Connect, TakeService, MockCompute, CloseScenario, OpenScenario,
     FillScenario, ExportConnect, PatchSensors, RenderHeatmap, InjectOverlay, BuildDocument,
     RenderImage, WriteDocument, Finish, Raise, EndJob, Loop, RunComputeBackground, Shutdown,
     StopServing, Lifespan, DropPool, StartStopper, StopStk, JoinTimesOut, vars
<1>1. CASE gen = "mvp"
  BY <1>0, <1>1 DEF Documented
<1>2. CASE gen # "mvp"
  <2>1. ASSUME NEW w \in Workers, Work(w) PROVE Documented'
    <3>0. JobsTypeOK
      BY DEF JobsInv
    <3>1. CASE TakeJob(w)
      BY <1>2, <3>1, TakeJobKeepsDocuments
    <3>2. CASE Finish(w) \/ Raise(w)
      BY <1>2, <3>2, EndJobKeepsDocuments DEF Finish, Raise, At, Fallible
    <3> SUFFICES ASSUME ~TakeJob(w), ~Finish(w), ~Raise(w) PROVE Documented'
      BY <3>1, <3>2
    <3>3. /\ step[w] # "idle" /\ UNCHANGED <<gen, status, try, job>>
          /\ \A v \in Workers : v # w => step'[v] = step[v]
      BY <2>1, <3>0 DEF Work, GetService, Connect, TakeService, MockCompute, CloseScenario,
         OpenScenario, FillScenario, ExportConnect, PatchSensors, RenderHeatmap, InjectOverlay,
         BuildDocument, RenderImage, WriteDocument, At, Goto, store, JobsTypeOK
    <3>4. PICK x \in Exercises : x = job[w] /\ x # None
      BY <3>3, BusyThread
    <3>5. /\ OwnFile(x) /\ OwnWork(w)
          /\ file \in [Exercises -> Documents \union {None}]
          /\ image \in [Exercises -> Computations \union {Uploaded, None}]
      BY <1>2, <3>0 DEF Documented, JobsTypeOK
    <3>6. /\ Mine(w)' = Mine(w) /\ Mine(w).of = x /\ Mine(w) \in Computations
      BY <3>3, <3>4, BusyThread DEF Mine
    \* Steps that write neither file nor image.
    <3>7. CASE /\ UNCHANGED <<file, image>>
               /\ OwnWork(w)'
      BY <1>2, <3>3, <3>4, <3>5, <3>7, WorkKeepsDocuments DEF OwnFile
    <3>8. CASE GetService(w) \/ Connect(w) \/ TakeService(w)
      <4>1. step'[w] \in {"connect", "take", "mock", "close"} /\ UNCHANGED <<file, image>>
        BY <3>0, <3>8 DEF GetService, Connect, TakeService, Goto, FirstStep, JobsTypeOK, disk
      <4>2. QED
        BY <3>7, <4>1 DEF OwnWork
    <3>9. CASE CloseScenario(w)
      <4>1. step'[w] = "open" /\ UNCHANGED <<file, image>>
        BY <3>0, <3>9, AfterIsAStep DEF CloseScenario, Goto, JobsTypeOK, disk
      <4>2. QED
        BY <3>7, <4>1 DEF OwnWork
    <3>10. CASE OpenScenario(w)
      <4>1. ~fromFile[x]
        BY <1>2 DEF JobsInv, Records
      <4>2. step'[w] = "fill" /\ UNCHANGED <<file, image>>
        BY <3>0, <3>4, <3>10, <4>1, AfterIsAStep DEF OpenScenario, Goto, JobsTypeOK, disk
      <4>3. QED
        BY <3>7, <4>2 DEF OwnWork
    <3>11. CASE FillScenario(w)
      <4>1. step'[w] \in {"document", "export"} /\ UNCHANGED <<file, image, svc>>
        BY <3>0, <3>11, AfterIsAStep DEF FillScenario, Goto, JobsTypeOK, disk
      <4>2. scenario'[svc[w]] = [of |-> Mine(w), whole |-> TRUE]
        <5>1. /\ scenario[svc[w]] = [of |-> Mine(w), whole |-> FALSE]
              /\ scenario' = [scenario EXCEPT ![svc[w]] = [scenario[svc[w]] EXCEPT !.whole = TRUE]]
              /\ svc[w] \in Engines
          BY <3>0, <3>11 DEF FillScenario, JobsTypeOK
        <5>2. scenario'[svc[w]] = [scenario[svc[w]] EXCEPT !.whole = TRUE]
          BY <3>0, <5>1 DEF JobsTypeOK
        <5>3. QED
          BY <5>1, <5>2, ScenarioFilled
      <4>3. QED
        BY <3>6, <3>7, <4>1, <4>2 DEF OwnWork
    <3>12. CASE ExportConnect(w)
      <4>1. /\ step'[w] = "patch" /\ UNCHANGED <<svc, scenario, image>> /\ step[w] = "export"
        BY <3>0, <3>12, AfterIsAStep
           DEF ExportConnect, Goto, At, JobsTypeOK, JobsInv, Threads, stk
      <4>2. scenario[svc[w]] = [of |-> Mine(w), whole |-> TRUE]
        BY <3>5, <4>1 DEF OwnWork
      <4>3. OwnWork(w)'
        BY <3>6, <4>1, <4>2 DEF OwnWork
      <4>4. \A e \in Exercises : e # x => file'[e] = file[e]
        BY <3>4, <3>5, <3>12 DEF ExportConnect
      <4>5. CASE file' = file
        BY <1>2, <3>3, <3>4, <3>5, <4>1, <4>3, <4>5, WorkKeepsDocuments DEF OwnFile
      <4>6. CASE file'[x] = Export(scenario[svc[w]], FALSE)
        <5>1. file'[x].of = Mine(w) /\ file'[x].whole /\ ~file'[x].overlay
          <6>1. file'[x] = Export([of |-> Mine(w), whole |-> TRUE], FALSE)
            BY <4>2, <4>6
          <6>2. QED
            BY <6>1, ExportFields
        <5>2. QED
          BY <1>2, <3>3, <3>4, <3>5, <3>6, <4>1, <4>3, <4>4, <5>1, WorkKeepsDocuments DEF OwnFile
      <4>7. QED
        BY <3>4, <3>5, <3>12, <4>5, <4>6 DEF ExportConnect
    <3>13. CASE PatchSensors(w)
      <4>1. /\ step'[w] = "heatmap" /\ UNCHANGED <<svc, scenario, image>> /\ step[w] = "patch"
            /\ file[x] \in Documents
        BY <3>0, <3>4, <3>13, AfterIsAStep
           DEF PatchSensors, Goto, At, JobsTypeOK, JobsInv, Threads, stk
      <4>2. file' = [file EXCEPT ![x] = [file[x] EXCEPT !.patched = TRUE]]
        BY <3>4, <3>13 DEF PatchSensors
      <4>3. /\ file'[x].of = file[x].of /\ file'[x].whole = file[x].whole
            /\ file'[x].overlay = file[x].overlay /\ file'[x].patched
            /\ \A e \in Exercises : e # x => file'[e] = file[e]
        BY <3>5, <4>1, <4>2, DocumentFields
      <4>4. OwnWork(w)'
        BY <3>3, <3>4, <3>5, <3>6, <4>1, <4>3 DEF OwnWork
      <4>5. file[x] # None
        BY <4>1, NoneIsNoData
      <4>6. QED
        BY <1>2, <3>3, <3>4, <3>5, <4>1, <4>3, <4>4, <4>5, WorkKeepsDocuments DEF OwnFile
    <3>14. CASE RenderHeatmap(w)
      <4>1. /\ step[w] = "heatmap" /\ UNCHANGED file /\ gen # "mvp3"
            /\ After("heatmap") = "overlay"
        BY <3>14, AfterIsAStep DEF RenderHeatmap, At, JobsInv, Threads
      <4>2. scenario[svc[w]].of = Mine(w) /\ file[x].patched
        BY <3>4, <3>5, <4>1 DEF OwnWork
      <4>3. \/ image'[x] = Mine(w) /\ step'[w] = "overlay"
            \/ image' = image /\ step'[w] = "done"
        BY <3>0, <3>4, <3>5, <3>14, <4>1, <4>2 DEF RenderHeatmap, Goto, JobsTypeOK
      <4>4. \A e \in Exercises : e # x => image'[e] = image[e]
        BY <3>4, <3>5, <3>14 DEF RenderHeatmap
      <4>5. /\ image'[x] # None => image'[x] # Uploaded /\ image'[x].of = x
            /\ image[x] # None \/ step'[w] = "overlay" => image'[x] # None
        BY <3>5, <3>6, <4>3, NoneIsNoData DEF OwnFile
      <4>6. OwnWork(w)'
        BY <3>3, <3>4, <4>1, <4>2, <4>3, <4>5 DEF OwnWork
      <4>7. QED
        BY <1>2, <3>3, <3>4, <3>5, <4>1, <4>4, <4>5, <4>6, WorkKeepsDocuments DEF OwnFile
    <3>15. CASE InjectOverlay(w)
      <4>1. /\ step'[w] = "done" /\ UNCHANGED image /\ step[w] = "overlay"
            /\ file[x] \in Documents /\ gen # "mvp3"
        BY <3>0, <3>4, <3>15, AfterIsAStep
           DEF InjectOverlay, Goto, At, JobsTypeOK, JobsInv, Threads
      <4>2. \/ file' = [file EXCEPT ![x] = [file[x] EXCEPT !.overlay = TRUE]]
            \/ file' = file
        BY <3>4, <3>15 DEF InjectOverlay
      <4>3. /\ file'[x].of = file[x].of /\ file'[x].whole = file[x].whole
            /\ file'[x].patched = file[x].patched
            /\ \A e \in Exercises : e # x => file'[e] = file[e]
        <5>1. CASE file' = file
          BY <5>1
        <5>2. CASE file' = [file EXCEPT ![x] = [file[x] EXCEPT !.overlay = TRUE]]
          BY <3>5, <4>1, <5>2, DocumentFields
        <5>3. QED
          BY <4>2, <5>1, <5>2
      <4>4. image[x] # None /\ file[x].patched
        BY <3>4, <3>5, <4>1 DEF OwnWork
      <4>5. OwnWork(w)'
        BY <3>3, <3>4, <4>1, <4>3, <4>4 DEF OwnWork
      <4>6. file[x] # None
        BY <4>1, NoneIsNoData
      <4>7. QED
        BY <1>2, <3>3, <3>4, <3>5, <4>1, <4>3, <4>4, <4>5, <4>6, WorkKeepsDocuments DEF OwnFile
    <3>16. CASE BuildDocument(w)
      <4>1. /\ step'[w] = "render" /\ UNCHANGED <<file, image>> /\ step[w] = "document"
        BY <3>0, <3>16, AfterIsAStep
           DEF BuildDocument, Goto, At, JobsTypeOK, JobsInv, Threads, disk
      <4>2. scenario[svc[w]] = [of |-> Mine(w), whole |-> TRUE]
        BY <3>5, <4>1 DEF OwnWork
      <4>3. doc'[w] = Export(scenario[svc[w]], TRUE)
        BY <3>0, <3>16 DEF BuildDocument, JobsTypeOK
      <4>4. doc'[w].of = Mine(w) /\ doc'[w].whole /\ doc'[w].patched /\ ~doc'[w].overlay
        <5>1. doc'[w] = Export([of |-> Mine(w), whole |-> TRUE], TRUE)
          BY <4>2, <4>3
        <5>2. QED
          BY <5>1, ExportFields
      <4>5. QED
        BY <3>6, <3>7, <4>1, <4>4 DEF OwnWork
    <3>17. CASE RenderImage(w)
      <4>1. /\ step'[w] = "write" /\ UNCHANGED file /\ step[w] = "render"
            /\ doc[w] \in Documents
        BY <3>0, <3>17, AfterIsAStep
           DEF RenderImage, Goto, At, JobsTypeOK, JobsInv, Threads
      <4>2. doc[w].of = Mine(w) /\ doc[w].whole /\ doc[w].patched /\ ~doc[w].overlay
        BY <3>5, <4>1 DEF OwnWork
      <4>3. CASE image' = image /\ doc' = doc
        <5>1. OwnWork(w)'
          BY <3>6, <4>1, <4>2, <4>3 DEF OwnWork
        <5>2. QED
          BY <3>7, <4>1, <4>3, <5>1
      <4>4. ASSUME NEW b \in BOOLEAN, image' = [image EXCEPT ![job[w]] = doc[w].of],
                   doc' = [doc EXCEPT ![w].overlay = b]
            PROVE  Documented'
        <5>1. doc' = [doc EXCEPT ![w] = [doc[w] EXCEPT !.overlay = b]]
          BY <4>4
        <5>2. doc'[w].of = Mine(w) /\ doc'[w].whole /\ doc'[w].patched
          BY <3>0, <4>1, <4>2, <5>1, DocumentFields DEF JobsTypeOK
        <5>3. /\ image'[x] = Mine(w) /\ image'[x] # None /\ image'[x] # Uploaded
              /\ \A e \in Exercises : e # x => image'[e] = image[e]
          BY <3>4, <3>5, <3>6, <4>2, <4>4, NoneIsNoData
        <5>4. OwnWork(w)'
          BY <3>3, <3>4, <3>6, <4>1, <5>2, <5>3 DEF OwnWork
        <5>5. QED
          BY <1>2, <3>3, <3>4, <3>5, <3>6, <4>1, <5>3, <5>4, WorkKeepsDocuments DEF OwnFile
      <4>5. QED
        BY <3>17, <4>3, <4>4 DEF RenderImage
    <3>18. CASE WriteDocument(w)
      <4>1. /\ step'[w] = "done" /\ UNCHANGED <<image, doc>> /\ step[w] = "write"
        BY <3>0, <3>18, AfterIsAStep
           DEF WriteDocument, Goto, At, JobsTypeOK, JobsInv, Threads
      <4>2. /\ doc[w].of = Mine(w) /\ doc[w].whole /\ doc[w].patched
            /\ doc[w].overlay => image[x] = Mine(w)
        BY <3>4, <3>5, <4>1 DEF OwnWork
      <4>3. /\ file'[x] = doc[w]
            /\ \A e \in Exercises : e # x => file'[e] = file[e]
        BY <3>4, <3>5, <3>18 DEF WriteDocument
      <4>4. OwnWork(w)'
        BY <3>3, <3>4, <3>6, <4>1, <4>2, <4>3 DEF OwnWork
      <4>5. QED
        BY <1>2, <3>3, <3>4, <3>5, <3>6, <4>1, <4>2, <4>3, <4>4, WorkKeepsDocuments, NoneIsNoData
           DEF OwnFile
    <3>19. CASE MockCompute(w)
      <4>1. step'[w] = "done" /\ UNCHANGED image
        BY <3>0, <3>19 DEF MockCompute, Goto, JobsTypeOK
      <4>2. /\ file'[x] = Export([of |-> Mine(w), whole |-> TRUE], TRUE)
            /\ \A e \in Exercises : e # x => file'[e] = file[e]
        BY <3>4, <3>5, <3>19 DEF MockCompute
      <4>3. /\ file'[x].of = Mine(w) /\ file'[x].whole /\ file'[x].patched /\ ~file'[x].overlay
        BY <4>2, ExportFields, ZenonT(60)
      <4>4. OwnWork(w)'
        BY <3>3, <3>4, <3>6, <4>1, <4>3 DEF OwnWork
      <4>5. QED
        BY <1>2, <3>3, <3>4, <3>5, <3>6, <4>1, <4>2, <4>3, <4>4, WorkKeepsDocuments DEF OwnFile
    <3>20. QED
      BY <2>1, <3>8, <3>9, <3>10, <3>11, <3>12, <3>13, <3>14, <3>15, <3>16, <3>17, <3>18, <3>19
         DEF Work
  <2>2. ASSUME NEW c \in completed, RunComputeBackground(c) PROVE Documented'
    BY <1>2, <2>2 DEF JobsInv, Records
  <2>3. CASE Shutdown \/ UNCHANGED vars
    <3>1. UNCHANGED <<gen, status, try, step, job, svc, doc, scenario, file, image>>
      BY <2>3 DEF Shutdown, StopServing, Lifespan, DropPool, StartStopper, StopStk, JoinTimesOut,
                  vars, store, pool, stk, disk
    <3>2. \A e \in Exercises : OwnFile(e)'
      BY <1>2, <3>1 DEF OwnFile, Documented
    <3>3. \A v \in Workers : OwnWork(v)'
      BY <1>2, <3>1, OwnWorkStays DEF Documented
    <3>4. QED
      BY <3>2, <3>3 DEF Documented
  <2>4. QED
    BY <1>2, <2>1, <2>2, <2>3, RequestKeepsDocuments DEF Next, Request, Loop
<1>3. QED
  BY <1>1, <1>2

LEMMA DocumentsInvariant == Spec => [](JobsInv /\ Documented)
<1>1. Init => Documented
  BY DEF Init, Documented, OwnFile, OwnWork
<1>2. JobsInv /\ Documented /\ [Next]_vars => Documented'
  BY DocumentsKept
<1>3. QED
  BY <1>1, <1>2, JobsInvInvariant, PTL DEF Spec

\* mvp2 and mvp3: what a ready exercise serves was computed for it, whole and
\* patched, for any number of exercises and attempts and wherever a COM call
\* failed or the shutdown fell.
THEOREM SeatServesOwnDocumentHolds == Spec => []SeatServesOwnDocument
<1>1. JobsInv /\ Documented => SeatServesOwnDocument
  BY DEF JobsInv, Records, Documented, OwnFile, SeatServesOwnDocument, OwnDocument
<1>2. QED
  BY <1>1, DocumentsInvariant, PTL

\* mvp3: the document of a ready exercise is that of its last accepted request,
\* and an overlay in it shows the image of the same attempt.
THEOREM Mvp3ServesLastAttemptHolds == Spec => []Mvp3ServesLastAttempt
<1>1. JobsInv /\ Documented => Mvp3ServesLastAttempt
  BY DEF Documented, OwnFile, Mvp3ServesLastAttempt
<1>2. QED
  BY <1>1, DocumentsInvariant, PTL
=============================================================================

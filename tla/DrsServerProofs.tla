--------------------------- MODULE DrsServerProofs ---------------------------
(***************************************************************************)
(* Safety of DrsServer for every set of clients, variants and offsets and  *)
(* every threshold: the service uses the engine as the engine specifies,   *)
(* the stream of global events has no gap, and the endpoint never answers  *)
(* from stale readings.                                                    *)
(***************************************************************************)
EXTENDS DrsServer, TLAPS

Event == [from : Status, to : Status]

\* What the publish tasks and the answers are made of.
Shapes ==
  /\ status \in Status
  /\ variantStatus \in [Variant -> Status]
  /\ pending \in [Scope -> Seq(Event)]
  /\ reported \in [Scope -> Status \cup {"incomplete"}]
  /\ answer \in [Client -> Status \cup {"none", "sampling", "error"}]

\* The events q lead from status r to status h.
Leads(q, r, h) ==
  IF q = <<>> THEN r = h
  ELSE /\ q[1].from = r
       /\ \A i \in 2 .. Len(q) : q[i].from = q[i - 1].to
       /\ q[Len(q)].to = h

\* A further event that starts where the chain ends prolongs it.
LEMMA ChainGrows ==
  ASSUME NEW q \in Seq(Event), NEW r \in Status, NEW h \in Status, NEW k \in Status,
         Leads(q, r, h)
  PROVE  Leads(Append(q, [from |-> h, to |-> k]), r, k)
<1> DEFINE e == [from |-> h, to |-> k]
           a == Append(q, e)
<1>1. e \in Event /\ e.from = h /\ e.to = k
  BY DEF Event
<1> HIDE DEF e
<1>2. /\ Len(a) = Len(q) + 1 /\ a # <<>> /\ a[Len(q) + 1] = e
      /\ \A i \in 1 .. Len(q) : a[i] = q[i]
  BY <1>1
<1> HIDE DEF a
<1>3. CASE q = <<>>
  <2>1. Len(a) = 1 /\ r = h
    BY <1>2, <1>3 DEF Leads
  <2>2. QED
    BY <2>1, <1>1, <1>2, <1>3 DEF Leads
<1>4. CASE q # <<>>
  <2>1. /\ Len(q) \in Nat \ {0} /\ q[1].from = r /\ q[Len(q)].to = h
        /\ \A i \in 2 .. Len(q) : q[i].from = q[i - 1].to
    BY <1>4 DEF Leads
  <2>2. a[1].from = r /\ a[Len(a)].to = k
    BY <2>1, <1>1, <1>2
  <2>3. ASSUME NEW i \in 2 .. Len(a) PROVE a[i].from = a[i - 1].to
    <3>1. CASE i = Len(q) + 1
      BY <3>1, <2>1, <1>1, <1>2
    <3>2. CASE i # Len(q) + 1
      BY <3>2, <2>1, <2>3, <1>2
    <3>3. QED
      BY <3>1, <3>2
  <2>4. QED
    BY <2>2, <2>3, <1>2 DEF Leads
<1>5. QED
  BY <1>3, <1>4 DEF a, e

\* Publishing the oldest event moves the start of the chain to its end.
LEMMA ChainShrinks ==
  ASSUME NEW q \in Seq(Event), NEW r, NEW h, q # <<>>, Leads(q, r, h)
  PROVE  Leads(Tail(q), Head(q).to, h)
<1> DEFINE t == Tail(q)
<1>1. /\ t \in Seq(Event) /\ Len(t) = Len(q) - 1 /\ Head(q) = q[1]
      /\ Len(q) \in Nat \ {0}
      /\ \A i \in 1 .. Len(t) : t[i] = q[i + 1]
  OBVIOUS
<1>2. /\ q[Len(q)].to = h
      /\ \A i \in 2 .. Len(q) : q[i].from = q[i - 1].to
  BY DEF Leads
<1> HIDE DEF t
<1>3. CASE t = <<>>
  <2>1. Len(t) = 0
    BY <1>3
  <2>2. Len(q) = 1
    BY <2>1, <1>1
  <2>3. Head(q).to = h
    BY <2>2, <1>1, <1>2
  <2>4. Leads(t, Head(q).to, h)
    BY <2>3, <1>3 DEF Leads
  <2>5. QED
    BY <2>4 DEF t
<1>4. CASE t # <<>>
  <2>1. Len(t) \in Nat \ {0}
    BY <1>1, <1>4
  <2>2. t[1].from = Head(q).to
    <3>1. t[1] = q[2] /\ 2 \in 2 .. Len(q)
      BY <2>1, <1>1
    <3>2. QED
      BY <3>1, <1>1, <1>2
  <2>3. t[Len(t)].to = h
    BY <2>1, <1>1, <1>2
  <2>4. ASSUME NEW i \in 2 .. Len(t) PROVE t[i].from = t[i - 1].to
    <3>1. t[i] = q[i + 1] /\ t[i - 1] = q[i] /\ i + 1 \in 2 .. Len(q)
      BY <2>4, <2>1, <1>1
    <3>2. QED
      BY <3>1, <2>4, <1>2
  <2>5. Leads(t, Head(q).to, h)
    BY <2>2, <2>3, <2>4, <1>4 DEF Leads
  <2>6. QED
    BY <2>5 DEF t
<1>5. QED
  BY <1>3, <1>4 DEF t

-----------------------------------------------------------------------------
(* Shapes is inductive.                                                    *)

LEMMA RecordShapes ==
  ASSUME Shapes, NEW o, Record(o)
  PROVE  status' \in Status /\ variantStatus' \in [Variant -> Status]
<1>1. ASSUME NEW w, NEW c \in Status PROVE Classify(w, c) \in Status
  BY <1>1 DEF Classify, Status
<1>2. ASSUME NEW w, NEW p PROVE ClassifyForThreshold(w, p) \in Status
  BY DEF ClassifyForThreshold, Status
<1>3. status' \in Status
  BY <1>1 DEF Record, Shapes
<1>4. variantStatus' = [v \in Variant |->
        IF v \in Registered THEN ClassifyForThreshold(Push(window, o), precision[v])
        ELSE variantStatus[v]]
  BY DEF Record
<1>5. \A v \in Variant :
        (IF v \in Registered THEN ClassifyForThreshold(Push(window, o), precision[v])
         ELSE variantStatus[v]) \in Status
  BY <1>2 DEF Shapes
<1>6. QED
  BY <1>3, <1>4, <1>5

LEMMA QueryShapes ==
  ASSUME Shapes, CurrentStatus
  PROVE  status' \in Status /\ variantStatus' \in [Variant -> Status]
BY DEF CurrentStatus, Shapes, Status

LEMMA HeldShapes ==
  ASSUME status \in Status, variantStatus \in [Variant -> Status], NEW s \in Scope
  PROVE  Held(s) \in Status
BY DEF Held, Scope

LEMMA SchedulingShapes ==
  ASSUME Shapes, status' \in Status, variantStatus' \in [Variant -> Status],
         NEW ACTION S, SchedulePublishing(S)
  PROVE  pending' \in [Scope -> Seq(Event)] /\ reported' = reported
<1>1. \A s \in Scope : Held(s) \in Status /\ Held(s)' \in Status
  BY DEF Held, Scope, Shapes
<1>2. \A s \in Scope : [from |-> Held(s), to |-> Held(s)'] \in Event
  BY <1>1 DEF Event
<1>3. \A s \in Scope :
        (IF s \in S THEN Append(pending[s], [from |-> Held(s), to |-> Held(s)'])
         ELSE pending[s]) \in Seq(Event)
  BY <1>2 DEF Shapes
<1>4. QED
  BY <1>3 DEF SchedulePublishing

LEMMA InitShapes == ServerInit => Shapes
BY DEF ServerInit, Init, Shapes, Status, Scope

LEMMA NextShapes == Shapes /\ [ServerNext]_vars => Shapes'
<1> SUFFICES ASSUME Shapes, [ServerNext]_vars PROVE Shapes'
  OBVIOUS
<1> DEFINE Engine == status' \in Status /\ variantStatus' \in [Variant -> Status]
           Tasks == /\ pending' \in [Scope -> Seq(Event)]
                    /\ reported' \in [Scope -> Status \cup {"incomplete"}]
           Answers == answer' \in [Client -> Status \cup {"none", "sampling", "error"}]
<1>1. CASE PollRecords
  <2>1. Engine
    BY <1>1, RecordShapes DEF PollRecords
  <2>2. Tasks
    BY <1>1, <2>1, SchedulingShapes DEF PollRecords, Shapes
  <2>3. QED
    BY <1>1, <2>1, <2>2 DEF PollRecords, Shapes
<1>2. ASSUME NEW c \in Client, Serve(c) PROVE Shapes'
  <2>1. Engine
    BY <1>2, QueryShapes DEF Serve
  <2>2. Tasks
    BY <1>2, <2>1, SchedulingShapes DEF Serve, Shapes
  <2>3. Answers
    BY <1>2, <2>1 DEF Serve, Shapes
  <2>4. QED
    BY <2>1, <2>2, <2>3 DEF Shapes
<1>3. ASSUME NEW s \in Scope, Publish(s) PROVE Shapes'
  <2>1. Head(pending[s]).to \in Status /\ Tail(pending[s]) \in Seq(Event)
    <3>1. pending[s] \in Seq(Event) /\ pending[s] # <<>>
      BY <1>3 DEF Publish, Shapes
    <3>2. Head(pending[s]) \in Event /\ Tail(pending[s]) \in Seq(Event)
      BY <3>1
    <3>3. QED
      BY <3>2 DEF Event
  <2>2. QED
    BY <1>3, <2>1 DEF Publish, Shapes, engineVars
<1>4. ASSUME NEW s \in Scope, PublishFails(s) PROVE Shapes'
  <2>1. Tail(pending[s]) \in Seq(Event)
    BY <1>4 DEF PublishFails, Shapes
  <2>2. QED
    BY <1>4, <2>1 DEF PublishFails, Shapes, engineVars
<1>5. ASSUME NEW v \in Variant, NEW p \in Precision, ConsumeRegistration(v, p) PROVE Shapes'
  BY <1>5 DEF ConsumeRegistration, RegisterVariant, serverVars, Shapes, Status
<1>6. ASSUME NEW c \in Client, Ask(c) \/ ServeError(c) PROVE Shapes'
  BY <1>6 DEF Ask, ServeError, Shapes, engineVars
<1>7. CASE PollSkips \/ PollWakes \/ StopConsumer \/ StopPolling \/ StopProducer \/ NtpqChanges
  BY <1>7 DEF PollSkips, PollWakes, StopConsumer, StopPolling, StopProducer, NtpqChanges,
       Shapes, engineVars
<1>8. CASE TimePasses
  BY <1>8 DEF TimePasses, Tick, serverVars, Shapes
<1>9. CASE UNCHANGED vars
  BY <1>9 DEF vars, engineVars, serverVars, Shapes
<1>10. QED
  BY <1>1, <1>2, <1>3, <1>4, <1>5, <1>6, <1>7, <1>8, <1>9 DEF ServerNext

LEMMA ShapesHold == ServerSpec => []Shapes
  BY InitShapes, NextShapes, PTL DEF ServerSpec

-----------------------------------------------------------------------------
(* The engine inside the service, and the types.                           *)

\* Every step of the service is a step of the engine, or leaves it alone.
LEMMA EngineSteps ==
  ASSUME [ServerNext]_vars
  PROVE  [Next]_engineVars
<1>1. ASSUME PollRecords PROVE Next
  BY <1>1 DEF PollRecords, Readings, Within, Next
<1>2. ASSUME NEW c \in Client, Serve(c) PROVE Next
  BY <1>2 DEF Serve, Next
<1>3. ASSUME NEW v \in Variant, NEW p \in Precision, ConsumeRegistration(v, p) PROVE Next
  BY <1>3 DEF ConsumeRegistration, Next
<1>4. ASSUME TimePasses PROVE Next
  BY <1>4 DEF TimePasses, Next
<1>5. QED
  BY <1>1, <1>2, <1>3, <1>4 DEF ServerNext, PollSkips, PollWakes, Ask, ServeError, Publish,
       PublishFails, StopConsumer, StopPolling, StopProducer, NtpqChanges, vars

(* The poll loop, the endpoint and the drs.control consumer use the engine  *)
(* they share only through its methods: the service implements the engine's *)
(* own specification (poll_loop, get_time_status, ControlConsumer).         *)
THEOREM ServiceImplementsEngine == ServerSpec => Spec
<1>1. ServerInit => Init
  BY DEF ServerInit
<1>2. [ServerNext]_vars => [Next]_engineVars
  BY EngineSteps
<1>3. QED
  BY <1>1, <1>2, PTL DEF ServerSpec, Spec

\* The deque takes one reading and keeps its length.
LEMMA WindowPush ==
  ASSUME NEW w \in Seq(Offset), Len(w) <= MaxLen, NEW o \in Offset
  PROVE  Push(w, o) \in Seq(Offset) /\ Len(Push(w, o)) <= MaxLen
<1>1. MaxLen \in Nat \ {0}
  BY ThresholdsAssumption DEF MaxLen
<1>2. CASE Len(w) = MaxLen
  <2>1. Tail(w) \in Seq(Offset) /\ Len(Tail(w)) = Len(w) - 1
    BY <1>1, <1>2
  <2>2. QED
    BY <1>1, <1>2, <2>1 DEF Push
<1>3. CASE Len(w) # MaxLen
  BY <1>1, <1>3 DEF Push
<1>4. QED
  BY <1>2, <1>3

LEMMA EngineTypes ==
  ASSUME TypeOK, Shapes', [Next]_engineVars
  PROVE  TypeOK'
<1> USE ThresholdsAssumption
<1>1. status' \in Status /\ variantStatus' \in [Variant -> Status]
  BY DEF Shapes
<1>2. ASSUME NEW o \in Offset, Record(o) PROVE TypeOK'
  BY <1>1, <1>2, WindowPush DEF Record, TypeOK
<1>3. CASE CurrentStatus
  BY <1>1, <1>3 DEF CurrentStatus, TypeOK
<1>4. ASSUME NEW v \in Variant, NEW p \in Precision, RegisterVariant(v, p) PROVE TypeOK'
  BY <1>1, <1>4 DEF RegisterVariant, TypeOK
<1>5. CASE Tick
  BY <1>1, <1>5 DEF Tick, TypeOK
<1>6. CASE UNCHANGED engineVars
  BY <1>6 DEF engineVars, TypeOK
<1>7. QED
  BY <1>2, <1>3, <1>4, <1>5, <1>6 DEF Next

\* The part of ServerTypeOK that is the service's own.
ServiceTypes ==
  /\ ntpq \in {"good", "erratic", "failing"}
  /\ poll \in {"sleeping", "sampling", "cancelled"}
  /\ phase \in {"running", "consumer_stopped", "poll_stopped", "stopped"}
  /\ \A s \in Scope : Len(pending[s]) <= MaxPending
  /\ poll = "cancelled" <=> phase \in {"poll_stopped", "stopped"}

\* A scope that gets a further publish task had room for it.
LEMMA ScheduledRoom ==
  ASSUME Shapes, ServiceTypes, NEW ACTION S, SchedulePublishing(S)
  PROVE  \A s \in Scope : Len(pending'[s]) <= MaxPending
<1> SUFFICES ASSUME NEW s \in Scope PROVE Len(pending'[s]) <= MaxPending
  OBVIOUS
<1>1. /\ pending[s] \in Seq(Event) /\ Len(pending[s]) <= MaxPending
      /\ MaxPending \in Nat
  BY ServerAssumption DEF Shapes, ServiceTypes
<1>2. CASE s \in S
  <2>1. Len(pending[s]) < MaxPending
    BY <1>2 DEF SchedulePublishing
  <2>2. pending'[s] = Append(pending[s], [from |-> Held(s), to |-> Held(s)'])
    BY <1>2 DEF SchedulePublishing
  <2>3. Len(pending'[s]) = Len(pending[s]) + 1
    BY <1>1, <2>2
  <2>4. QED
    BY <1>1, <2>1, <2>3
<1>3. CASE s \notin S
  BY <1>1, <1>3 DEF SchedulePublishing
<1>4. QED
  BY <1>2, <1>3

\* A publish task that ends makes room.
LEMMA PublishedRoom ==
  ASSUME Shapes, ServiceTypes, NEW s \in Scope, pending[s] # <<>>,
         pending' = [pending EXCEPT ![s] = Tail(@)]
  PROVE  \A t \in Scope : Len(pending'[t]) <= MaxPending
<1>1. /\ pending[s] \in Seq(Event) /\ Len(pending[s]) <= MaxPending
      /\ MaxPending \in Nat
  BY ServerAssumption DEF Shapes, ServiceTypes
<1>2. Len(Tail(pending[s])) = Len(pending[s]) - 1 /\ Len(pending[s]) \in Nat
  BY <1>1
<1>3. pending'[s] = Tail(pending[s]) /\ \A t \in Scope \ {s} : pending'[t] = pending[t]
  BY DEF Shapes
<1>4. QED
  BY <1>1, <1>2, <1>3 DEF ServiceTypes

LEMMA ServiceTypesStep == Shapes /\ ServiceTypes /\ [ServerNext]_vars => ServiceTypes'
<1> SUFFICES ASSUME Shapes, ServiceTypes, [ServerNext]_vars PROVE ServiceTypes'
  OBVIOUS
<1>1. CASE PollRecords
  <2>1. \A s \in Scope : Len(pending'[s]) <= MaxPending
    BY <1>1, ScheduledRoom DEF PollRecords
  <2>2. QED
    BY <1>1, <2>1 DEF PollRecords, ServiceTypes
<1>2. ASSUME NEW c \in Client, Serve(c) PROVE ServiceTypes'
  <2>1. \A s \in Scope : Len(pending'[s]) <= MaxPending
    BY <1>2, ScheduledRoom DEF Serve
  <2>2. QED
    BY <1>2, <2>1 DEF Serve, ServiceTypes
<1>3. ASSUME NEW s \in Scope, Publish(s) \/ PublishFails(s) PROVE ServiceTypes'
  <2>1. \A t \in Scope : Len(pending'[t]) <= MaxPending
    BY <1>3, PublishedRoom DEF Publish, PublishFails
  <2>2. QED
    BY <1>3, <2>1 DEF Publish, PublishFails, ServiceTypes
<1>4. ASSUME NEW c \in Client, Ask(c) \/ ServeError(c) PROVE ServiceTypes'
  BY <1>4 DEF Ask, ServeError, ServiceTypes
<1>5. CASE PollSkips \/ PollWakes \/ StopConsumer \/ StopPolling \/ StopProducer \/ NtpqChanges
  BY <1>5 DEF PollSkips, PollWakes, StopConsumer, StopPolling, StopProducer, NtpqChanges,
       ServiceTypes
<1>6. ASSUME UNCHANGED serverVars PROVE ServiceTypes'
  BY <1>6 DEF serverVars, ServiceTypes
<1>7. QED
  BY <1>1, <1>2, <1>3, <1>4, <1>5, <1>6 DEF ServerNext, ConsumeRegistration, TimePasses, vars

(* Type correctness of the service, for any number of clients, variants and *)
(* waiting events; and the shutdown order: the poll task is cancelled       *)
(* exactly from the second stage of the lifespan's finally block on.        *)
THEOREM ServerTypeCorrect == ServerSpec => []ServerTypeOK
<1>1. ServerInit => TypeOK /\ ServiceTypes
  BY ThresholdsAssumption, ServerAssumption
     DEF ServerInit, Init, TypeOK, Status, ServiceTypes, MaxLen
<1>2. Shapes /\ Shapes' /\ TypeOK /\ ServiceTypes /\ [ServerNext]_vars
        => TypeOK' /\ ServiceTypes'
  BY EngineSteps, EngineTypes, ServiceTypesStep
<1>3. Shapes /\ TypeOK /\ ServiceTypes => ServerTypeOK
  BY DEF Shapes, ServiceTypes, ServerTypeOK
<1>4. QED
  BY <1>1, <1>2, <1>3, ShapesHold, PTL DEF ServerSpec

-----------------------------------------------------------------------------
(* The event stream of the global status.                                  *)

LEMMA GlobalScope ==
  /\ "global" \in Scope
  /\ Held("global") = status
  /\ Chained("global") <=> Leads(pending["global"], reported["global"], status)
BY DEF Scope, Held, Chained, Leads

\* A step of the engine that schedules an event for "global" exactly when it
\* changes the status, or at least when it does, keeps the chain.
LEMMA ScheduledChain ==
  ASSUME Shapes, status' \in Status, NEW ACTION S, SchedulePublishing(S),
         status' # status => "global" \in S, GlobalEventsChain
  PROVE  GlobalEventsChain'
<1> SUFFICES ASSUME reported["global"]' # "incomplete" PROVE Chained("global")'
  BY DEF GlobalEventsChain
<1> DEFINE q == pending["global"]
           r == reported["global"]
<1>1. /\ reported' = reported
      /\ pending'["global"] = IF "global" \in S
                               THEN Append(q, [from |-> status, to |-> status'])
                               ELSE q
  BY GlobalScope DEF SchedulePublishing, Held
<1>2. /\ q \in Seq(Event) /\ status \in Status
      /\ r \in Status /\ Leads(q, r, status)
  BY <1>1, GlobalScope DEF Shapes, GlobalEventsChain
<1>3. Leads(pending'["global"], r, status')
  <2>1. CASE "global" \in S
    BY <2>1, <1>1, <1>2, ChainGrows
  <2>2. CASE "global" \notin S
    BY <2>2, <1>1, <1>2
  <2>3. QED
    BY <2>1, <2>2
<1>4. QED
  BY <1>1, <1>3 DEF Chained, Leads, Held

LEMMA ChainStep == Shapes /\ GlobalEventsChain /\ [ServerNext]_vars => GlobalEventsChain'
<1> SUFFICES ASSUME Shapes, GlobalEventsChain, [ServerNext]_vars PROVE GlobalEventsChain'
  OBVIOUS
<1>1. CASE PollRecords
  <2>1. status' \in Status
    BY <1>1, RecordShapes DEF PollRecords
  <2>2. SchedulePublishing(RecordFires)
    BY <1>1 DEF PollRecords
  <2>3. status' # status => "global" \in RecordFires
    BY DEF RecordFires, Scope, Held
  <2>4. QED
    BY <2>1, <2>2, <2>3, ScheduledChain
<1>2. ASSUME NEW c \in Client, Serve(c) PROVE GlobalEventsChain'
  <2>1. status' \in Status
    BY <1>2, QueryShapes DEF Serve
  <2>2. SchedulePublishing(QueryFires)
    BY <1>2 DEF Serve
  <2>3. status' # status => "global" \in QueryFires
    BY <1>2 DEF Serve, CurrentStatus, QueryFires
  <2>4. QED
    BY <2>1, <2>2, <2>3, ScheduledChain
<1>3. ASSUME NEW s \in Scope, Publish(s) PROVE GlobalEventsChain'
  <2>1. CASE s # "global"
    BY <1>3, <2>1, GlobalScope DEF Publish, Shapes, engineVars, GlobalEventsChain, Chained, Held
  <2>2. CASE s = "global"
    <3> SUFFICES ASSUME reported["global"]' # "incomplete" PROVE Chained("global")'
      BY DEF GlobalEventsChain
    <3>1. /\ pending["global"] \in Seq(Event) /\ pending["global"] # <<>>
          /\ pending'["global"] = Tail(pending["global"])
          /\ reported["global"] # "incomplete"
          /\ reported'["global"] = Head(pending["global"]).to
          /\ status' = status
      BY <1>3, <2>2, GlobalScope DEF Publish, Shapes, engineVars
    <3>2. Leads(pending["global"], reported["global"], status)
      BY <3>1, GlobalScope DEF GlobalEventsChain
    <3>3. Leads(pending'["global"], reported'["global"], status')
      BY <3>1, <3>2, ChainShrinks
    <3>4. QED
      BY <3>3 DEF Chained, Leads, Held
  <2>3. QED
    BY <2>1, <2>2
<1>4. ASSUME NEW s \in Scope, PublishFails(s) PROVE GlobalEventsChain'
  BY <1>4, GlobalScope DEF PublishFails, Shapes, engineVars, GlobalEventsChain, Chained, Held
<1>5. ASSUME UNCHANGED <<status, pending, reported>> PROVE GlobalEventsChain'
  BY <1>5 DEF GlobalEventsChain, Chained, Held
<1>6. ASSUME NEW v \in Variant, NEW p \in Precision, ConsumeRegistration(v, p)
      PROVE  GlobalEventsChain'
  BY <1>5, <1>6 DEF ConsumeRegistration, RegisterVariant, serverVars
<1>7. ASSUME NEW c \in Client, Ask(c) \/ ServeError(c) PROVE GlobalEventsChain'
  BY <1>5, <1>7 DEF Ask, ServeError, engineVars
<1>8. CASE PollSkips \/ PollWakes \/ StopConsumer \/ StopPolling \/ StopProducer \/ NtpqChanges
  BY <1>5, <1>8 DEF PollSkips, PollWakes, StopConsumer, StopPolling, StopProducer, NtpqChanges,
       engineVars
<1>9. CASE TimePasses
  BY <1>5, <1>9 DEF TimePasses, Tick, serverVars
<1>10. CASE UNCHANGED vars
  BY <1>5, <1>10 DEF vars, engineVars, serverVars
<1>11. QED
  BY <1>1, <1>2, <1>3, <1>4, <1>6, <1>7, <1>8, <1>9, <1>10 DEF ServerNext

(* For any number of requests, polls and failures: as long as no send       *)
(* failed, the events published and under way lead without a gap from the   *)
(* first global status to the present one (on_transition, _on_transition,   *)
(* publish_transition).                                                     *)
THEOREM GlobalEventsAreChained == ServerSpec => []GlobalEventsChain
<1>1. ServerInit => GlobalEventsChain
  BY DEF ServerInit, Init, GlobalEventsChain, Chained, Held, Scope
<1>2. QED
  BY <1>1, ShapesHold, ChainStep, PTL DEF ServerSpec

(* No answer of the endpoint hides that the newest reading is too old       *)
(* (get_time_status asks the engine last and current_status checks the age).*)
THEOREM AnswersAreFresh == ServerSpec => NoStaleAnswer
<1>1. Shapes /\ [ServerNext]_vars =>
        [(\A c \in Client :
            answer[c] = "sampling" /\ answer'[c] \in Status /\ IsSilent
              => answer'[c] = "sync_lost")]_vars
  <2> SUFFICES ASSUME Shapes, ServerNext, NEW c \in Client,
                      answer[c] = "sampling", answer'[c] \in Status, IsSilent
               PROVE  answer'[c] = "sync_lost"
    OBVIOUS
  <2>1. answer'[c] # answer[c]
    BY DEF Status
  <2>2. ASSUME NEW d \in Client, Serve(d) PROVE answer'[c] = "sync_lost"
    BY <2>1, <2>2 DEF Serve, CurrentStatus, Shapes
  <2>3. ASSUME NEW d \in Client, Ask(d) \/ ServeError(d) PROVE FALSE
    BY <2>1, <2>3 DEF Ask, ServeError, Shapes, Status
  <2>4. (\E d \in Client : Ask(d) \/ Serve(d) \/ ServeError(d))
    BY <2>1 DEF ServerNext, PollRecords, PollSkips, PollWakes, ConsumeRegistration, Publish,
         PublishFails, StopConsumer, StopPolling, StopProducer, NtpqChanges, TimePasses,
         serverVars
  <2>5. QED
    BY <2>2, <2>3, <2>4
<1>2. QED
  BY <1>1, ShapesHold, PTL DEF ServerSpec, NoStaleAnswer
=============================================================================

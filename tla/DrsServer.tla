------------------------------ MODULE DrsServer ------------------------------
(***************************************************************************)
(* The drs-server process: the poll loop and the /time/status endpoint     *)
(* share one SyncStateEngine with the drs.control consumer, and every      *)
(* transition is published to system.timesync by a fire-and-forget task    *)
(* (lifespan.py, poller.py, time_status.py, control_consumer.py,           *)
(* timesync_publisher.py).                                                 *)
(*                                                                         *)
(* One asyncio loop runs everything; code between two awaits is one        *)
(* action.  The awaits that matter are the ntpq subprocess, under both the *)
(* poll loop and the endpoint, and the publication of an event.            *)
(***************************************************************************)
EXTENDS SyncStateEngine

CONSTANTS
  Client,       \* callers of GET /time/status
  MaxPending    \* bound: transitions of one scope waiting to be published

ASSUME ServerAssumption == MaxPending \in Nat \ {0}

VARIABLES
  ntpq,      \* how the ntpq command behaves: "good", "erratic" or "failing"
  poll,      \* poll_loop: "sleeping", in "sampling", or "cancelled"
  answer,    \* per client: "none", "sampling", "error" or the status served
  phase,     \* how far the lifespan has come
  pending,   \* per scope: transitions whose publish task is still running
  reported   \* per scope: the last status on system.timesync, or "incomplete"
             \* once an event of that scope was lost

serverVars == <<ntpq, poll, answer, phase, pending, reported>>
vars == <<engineVars, serverVars>>

\* _on_transition, called for the scopes in S: a publish task for each.
SchedulePublishing(S) ==
  /\ pending' = [s \in Scope |->
       IF s \in S THEN Append(pending[s], [from |-> Held(s), to |-> Held(s)'])
       ELSE pending[s]]
  /\ \A s \in S : Len(pending[s]) < MaxPending
  /\ UNCHANGED reported

\* What ntpq may print in its present mood.
Readings ==
  CASE ntpq = "good" -> Within(WarnMs)
    [] ntpq = "erratic" -> Offset
    [] OTHER -> {}

-----------------------------------------------------------------------------
ServerInit ==
  /\ Init
  /\ ntpq = "good"
  /\ poll = "sampling"
  /\ answer = [c \in Client |-> "none"]
  /\ phase = "running"
  /\ pending = [s \in Scope |-> <<>>]
  /\ reported = [s \in Scope |-> "warming"]

(* poll_loop: sample, record, sleep; a failing sample is logged and skipped. *)

PollRecords ==
  /\ poll = "sampling"
  /\ \E o \in Readings : Record(o)
  /\ SchedulePublishing(RecordFires)
  /\ poll' = "sleeping"
  /\ UNCHANGED <<ntpq, answer, phase>>

PollSkips ==
  /\ poll = "sampling"
  /\ ntpq = "failing"
  /\ poll' = "sleeping"
  /\ UNCHANGED <<engineVars, ntpq, answer, phase, pending, reported>>

PollWakes ==
  /\ poll = "sleeping"
  /\ poll' = "sampling"
  /\ UNCHANGED <<engineVars, ntpq, answer, phase, pending, reported>>

(* GET /time/status: sample first, ask the engine after; a failing sample   *)
(* leaves the handler as an HTTP 500 before the engine is asked.            *)

Ask(c) ==
  /\ phase = "running"
  /\ answer[c] # "sampling"
  /\ answer' = [answer EXCEPT ![c] = "sampling"]
  /\ UNCHANGED <<engineVars, ntpq, poll, phase, pending, reported>>

\* Fault: the status is read before the engine is asked.
ServeUnasked(c) ==
  /\ answer[c] = "sampling"
  /\ Readings # {}
  /\ CurrentStatus
  /\ SchedulePublishing(QueryFires)
  /\ answer' = [answer EXCEPT ![c] = status]
  /\ UNCHANGED <<ntpq, poll, phase>>

Serve(c) ==
  /\ answer[c] = "sampling"
  /\ Readings # {}
  /\ CurrentStatus
  /\ SchedulePublishing(QueryFires)
  /\ answer' = [answer EXCEPT ![c] = status']
  /\ UNCHANGED <<ntpq, poll, phase>>

ServeError(c) ==
  /\ answer[c] = "sampling"
  /\ ntpq = "failing"
  /\ answer' = [answer EXCEPT ![c] = "error"]
  /\ UNCHANGED <<engineVars, ntpq, poll, phase, pending, reported>>

(* ControlConsumer.run dispatches a variant.registered event.               *)
ConsumeRegistration(v, p) ==
  /\ phase = "running"
  /\ RegisterVariant(v, p)
  /\ UNCHANGED serverVars

(* publish_transition: tasks of one scope reach the single partition in the *)
(* order they were created; a send that fails loses its event.              *)

Publish(s) ==
  /\ phase # "stopped"
  /\ pending[s] # <<>>
  /\ reported' = [reported EXCEPT ![s] =
                    IF @ = "incomplete" THEN @ ELSE Head(pending[s]).to]
  /\ pending' = [pending EXCEPT ![s] = Tail(@)]
  /\ UNCHANGED <<engineVars, ntpq, poll, answer, phase>>

PublishFails(s) ==
  /\ pending[s] # <<>>
  /\ pending' = [pending EXCEPT ![s] = Tail(@)]
  /\ reported' = [reported EXCEPT ![s] = "incomplete"]
  /\ UNCHANGED <<engineVars, ntpq, poll, answer, phase>>

(* The finally block of the lifespan, once no request is in flight: cancel  *)
(* the consumer, then the poll loop, then stop the producer.  Publish tasks *)
(* that have not finished by then fail.                                     *)

StopConsumer ==
  /\ phase = "running"
  /\ \A c \in Client : answer[c] # "sampling"
  /\ phase' = "consumer_stopped"
  /\ UNCHANGED <<engineVars, ntpq, poll, answer, pending, reported>>

\* Fault: the poll task is not cancelled.
StopPollingUncancelled ==
  /\ phase = "consumer_stopped"
  /\ phase' = "poll_stopped"
  /\ UNCHANGED <<engineVars, ntpq, poll, answer, pending, reported>>

StopPolling ==
  /\ phase = "consumer_stopped"
  /\ phase' = "poll_stopped"
  /\ poll' = "cancelled"
  /\ UNCHANGED <<engineVars, ntpq, answer, pending, reported>>

StopProducer ==
  /\ phase = "poll_stopped"
  /\ phase' = "stopped"
  /\ UNCHANGED <<engineVars, ntpq, poll, answer, pending, reported>>

(* The environment: the NTP command's behaviour changes, and time passes.   *)

NtpqChanges ==
  /\ ntpq' \in {"good", "erratic", "failing"} \ {ntpq}
  /\ UNCHANGED <<engineVars, poll, answer, phase, pending, reported>>

TimePasses == Tick /\ UNCHANGED serverVars

ServerNext ==
  \/ PollRecords \/ PollSkips \/ PollWakes
  \/ \E c \in Client : Ask(c) \/ Serve(c) \/ ServeError(c)
  \/ \E v \in Variant, p \in Precision : ConsumeRegistration(v, p)
  \/ \E s \in Scope : Publish(s) \/ PublishFails(s)
  \/ StopConsumer \/ StopPolling \/ StopProducer
  \/ NtpqChanges \/ TimePasses

\* The loop keeps polling, clients keep asking, every ntpq call ends.  Strong
\* fairness of PollRecords makes up for MaxPending, which can hold it up although
\* the code would not.
ServerFairness ==
  /\ SF_vars(PollRecords) /\ WF_vars(PollSkips) /\ WF_vars(PollWakes)
  /\ \A c \in Client : WF_vars(Ask(c)) /\ WF_vars(Serve(c) \/ ServeError(c))
  /\ \A s \in Scope : WF_vars(Publish(s))
  /\ WF_vars(TimePasses)

ServerSpec == ServerInit /\ [][ServerNext]_vars /\ ServerFairness

-----------------------------------------------------------------------------
(* Types, and what a stage of the shutdown implies for the poll loop.       *)
ServerTypeOK ==
  /\ TypeOK
  /\ ntpq \in {"good", "erratic", "failing"}
  /\ poll \in {"sleeping", "sampling", "cancelled"}
  /\ answer \in [Client -> Status \cup {"none", "sampling", "error"}]
  /\ phase \in {"running", "consumer_stopped", "poll_stopped", "stopped"}
  /\ \A s \in Scope : Len(pending[s]) <= MaxPending
  /\ reported \in [Scope -> Status \cup {"incomplete"}]
  /\ poll = "cancelled" <=> phase \in {"poll_stopped", "stopped"}

\* Each event starts where the one before it ended, from what the topic shows
\* to what the engine holds.
Chained(s) ==
  LET q == pending[s] IN
  IF q = <<>> THEN reported[s] = Held(s)
  ELSE /\ q[1].from = reported[s]
       /\ \A i \in 2 .. Len(q) : q[i].from = q[i - 1].to
       /\ q[Len(q)].to = Held(s)

(* system.timesync tells the whole story of the global status: as long as   *)
(* no send failed, the events published and the ones on their way lead      *)
(* without a break from the first status to the present one, whichever of   *)
(* the poll loop and the endpoint caused them.                              *)
GlobalEventsChain == reported["global"] # "incomplete" => Chained("global")

(* The endpoint never answers from readings older than LostSilence without  *)
(* saying sync_lost, although the engine may have been silent all the while *)
(* the handler waited for its own sample.                                   *)
NoStaleAnswer ==
  [][ \A c \in Client :
        answer[c] = "sampling" /\ answer'[c] \in Status /\ IsSilent
          => answer'[c] = "sync_lost" ]_vars

(* Once ntpq stays good, the service comes back to healthy again and again, *)
(* whatever happened before, unless it is shut down.                        *)
GoodReadingsHeal ==
  <>[](ntpq = "good") => []<>(status = "healthy" \/ phase # "running")

(* The design's SYNC_LOST tier, "no NTP response > 60 s": a running service *)
(* whose newest reading is too old ends up in sync_lost or gets a reading.  *)
SilenceIsLost ==
  (IsSilent /\ phase = "running")
    ~> (status = "sync_lost" \/ ~IsSilent \/ phase # "running")
=============================================================================

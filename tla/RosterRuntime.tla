---------------------------- MODULE RosterRuntime ----------------------------
(***************************************************************************)
(* The drs-bridge runtime (drs_bridge/runtime.py): a consumer task takes   *)
(* full roster snapshots from drs.roster and makes the set of bound        *)
(* instances follow them, one TCP command server and one UDP sender per    *)
(* instance, until the main task shuts the runtime down.                   *)
(*                                                                         *)
(* `step' is where the consumer task stands.  An await that can suspend    *)
(* ends an action, so the shutdown can cancel the task there and nowhere   *)
(* else.  apply_roster's lock has the consumer as its only user.           *)
(***************************************************************************)
EXTENDS Naturals, FiniteSets

CONSTANTS
  Instance,    \* instance ids
  Variant,     \* variant names a roster may use
  Profiles,    \* the variants that have a profile on disk
  Entry,       \* enabled roster entries: variant, port, peer, protocol.  port
               \* is (host, command.port) and peer is (host, response.port)
  NoEntry,     \* instead of an entry: not in the roster, disabled, not bound
  NoInstance   \* current, when the consumer is between instances

ASSUME RosterAssumption ==
  /\ Profiles \subseteq Variant
  /\ \A e \in Entry : e.variant \in Variant
  /\ NoEntry \notin Entry
  /\ NoInstance \notin Instance

VARIABLES
  bound,       \* _bound: the entry each instance was bound with, or NoEntry
  desired,     \* the snapshot being applied, or applied last
  step,        \* where the consumer task stands
  todo,        \* desired instances the bind loop has not reached
  current,     \* the instance being bound, or whose server is closing
  failed,      \* instances this snapshot could not bind, reported as such
  registered,  \* _registered_variants
  announced,   \* variants with a variant.registered event on drs.control
  parsers,     \* _parsers
  orphaned,    \* instances with an open socket that nothing can close any more
  connected,   \* bound or closing instances with a peer on their server
  phase,       \* how far the main task has come
  waits        \* wait_closed waits for open connections (Python 3.12; 3.11 does not)

catalogue == <<registered, announced, parsers>>
vars == <<bound, desired, step, todo, current, failed, catalogue, orphaned,
          connected, phase, waits>>

Rosters == [Instance -> Entry \cup {NoEntry}]

BoundSet == {i \in Instance : bound[i] # NoEntry}

\* _addr: what decides whether a bound instance is kept.
Addr(e) == <<e.port, e.protocol, e.peer>>

\* Fault: a changed address is not noticed.
VictimsDropped == {i \in BoundSet : desired[i] = NoEntry}

\* Fault: every snapshot rebinds everything.
VictimsAll == BoundSet

\* Bound instances that the snapshot drops or readdresses.
Victims ==
  {i \in BoundSet : desired[i] = NoEntry \/ Addr(bound[i]) # Addr(desired[i])}

\* The bind loop skips what is bound already.
Missing == {i \in Instance : desired[i] # NoEntry} \ BoundSet

\* Fault: only the transport is checked.
BindableByTransport(e) == e.protocol = "tcp"

Bindable(e) == e.variant \in Profiles /\ e.protocol = "tcp"

PortFree(e) == \A j \in BoundSet : bound[j].port # e.port

\* Where the consumer task is suspended in an await.
Suspended == {"waiting", "closing", "registering", "connecting", "listening", "reporting"}

Alive == phase \in {"running", "stopping"}

-----------------------------------------------------------------------------
Init ==
  /\ bound = [i \in Instance |-> NoEntry]
  /\ desired = [i \in Instance |-> NoEntry]
  /\ step = "waiting"
  /\ todo = {}
  /\ current = NoInstance
  /\ failed = {}
  /\ registered = {} /\ announced = {} /\ parsers = {}
  /\ orphaned = {}
  /\ connected = {}
  /\ phase = "running"
  /\ waits \in BOOLEAN

\* RosterConsumer.run hands a valid snapshot to apply_roster.
Deliver(r) ==
  /\ step = "waiting" /\ Alive
  /\ desired' = r
  /\ failed' = {}
  /\ step' = "removing"
  /\ UNCHANGED <<bound, todo, current, catalogue, orphaned, connected, phase, waits>>

\* _teardown: forget the instance, close its server, wait for that if waiting
\* means anything, close its sender.  A connection that is not waited for lives
\* on without its server.
Teardown(i) ==
  /\ bound' = [bound EXCEPT ![i] = NoEntry]
  /\ IF waits /\ i \in connected
       THEN step' = "closing" /\ current' = i /\ UNCHANGED connected
       ELSE connected' = connected \ {i} /\ UNCHANGED <<step, current>>

Remove(i) ==
  /\ step = "removing" /\ Alive
  /\ i \in Victims
  /\ Teardown(i)
  /\ UNCHANGED <<desired, todo, failed, catalogue, orphaned, phase, waits>>

\* wait_closed returns once the last connection is gone.
Closed ==
  /\ step = "closing" /\ current \notin connected
  /\ step' = IF Alive THEN "removing" ELSE "cancelled"
  /\ current' = NoInstance
  /\ UNCHANGED <<bound, desired, todo, failed, catalogue, orphaned, connected, phase, waits>>

\* Fault: what is missing is bound before the removals are done.
StartBindingEarly ==
  /\ step = "removing" /\ Alive
  /\ todo' = Missing
  /\ step' = "binding"
  /\ UNCHANGED <<bound, desired, current, failed, catalogue, orphaned, connected, phase, waits>>

StartBinding ==
  /\ step = "removing" /\ Alive
  /\ Victims = {}
  /\ todo' = Missing
  /\ step' = "binding"
  /\ UNCHANGED <<bound, desired, current, failed, catalogue, orphaned, connected, phase, waits>>

\* _bind up to its first await.
Bind(i) ==
  /\ step = "binding"
  /\ i \in todo
  /\ todo' = todo \ {i}
  /\ current' = i
  /\ step' = IF ~Bindable(desired[i]) THEN "reporting"
             ELSE IF desired[i].variant \notin registered THEN "registering"
             ELSE "loading"
  /\ UNCHANGED <<bound, desired, failed, catalogue, orphaned, connected, phase, waits>>

\* A send cut short may have reached the topic or not.
MaybeAnnounced == {announced, announced \cup {desired[current].variant}}

\* _ensure_variant_registered: the event is sent, then the variant remembered.
Registered ==
  /\ step = "registering"
  /\ announced' = announced \cup {desired[current].variant}
  /\ registered' = registered \cup {desired[current].variant}
  /\ step' = "loading"
  /\ UNCHANGED <<bound, desired, todo, current, failed, parsers, orphaned, connected, phase, waits>>

\* A publish that raises, whether or not its event reached the topic.
RegistrationFails ==
  /\ step = "registering"
  /\ announced' \in MaybeAnnounced
  /\ step' = "reporting"
  /\ UNCHANGED <<bound, desired, todo, current, failed, registered, parsers, orphaned,
                 connected, phase, waits>>

\* _parser_for: cached, or loaded from the shared library.
LoadParser ==
  /\ step = "loading"
  /\ parsers' = parsers \cup {desired[current].variant}
  /\ step' = "connecting"
  /\ UNCHANGED <<bound, desired, todo, current, failed, registered, announced, orphaned,
                 connected, phase, waits>>

LoadFails ==
  /\ step = "loading"
  /\ desired[current].variant \notin parsers
  /\ step' = "reporting"
  /\ UNCHANGED <<bound, desired, todo, current, failed, catalogue, orphaned, connected,
                 phase, waits>>

\* _make_sender.
Connect ==
  /\ step = "connecting"
  /\ step' \in {"listening", "reporting"}
  /\ UNCHANGED <<bound, desired, todo, current, failed, catalogue, orphaned, connected,
                 phase, waits>>

\* start_command_server binds the port; the instance is bound from here on.
Listen ==
  /\ step = "listening"
  /\ PortFree(desired[current])
  /\ bound' = [bound EXCEPT ![current] = desired[current]]
  /\ current' = NoInstance
  /\ step' = "binding"
  /\ UNCHANGED <<desired, todo, failed, catalogue, orphaned, connected, phase, waits>>

\* The port is taken, here or by another program; the sender stays open.
ListenFails ==
  /\ step = "listening"
  /\ orphaned' = orphaned \cup {current}
  /\ step' = "reporting"
  /\ UNCHANGED <<bound, desired, todo, current, failed, catalogue, connected, phase, waits>>

\* Fault: a failed instance is tried again at once.
ReportAndRetry ==
  /\ step = "reporting"
  /\ todo' = todo \cup {current}
  /\ current' = NoInstance
  /\ step' = "binding"
  /\ UNCHANGED <<bound, desired, failed, catalogue, orphaned, connected, phase, waits>>

\* The health event instance.failed_bind.
Report ==
  /\ step = "reporting"
  /\ failed' = failed \cup {current}
  /\ current' = NoInstance
  /\ step' = "binding"
  /\ UNCHANGED <<bound, desired, todo, catalogue, orphaned, connected, phase, waits>>

\* Nothing catches what its publish raises: the consumer task ends.
ReportFails ==
  /\ step = "reporting"
  /\ step' = "dead"
  /\ UNCHANGED <<bound, desired, todo, current, failed, catalogue, orphaned, connected,
                 phase, waits>>

Applied ==
  /\ step = "binding"
  /\ todo = {}
  /\ step' = "waiting"
  /\ UNCHANGED <<bound, desired, todo, current, failed, catalogue, orphaned, connected,
                 phase, waits>>

(* The main task: a signal, then shutdown().                                *)

RequestStop ==
  /\ phase = "running"
  /\ phase' = "stopping"
  /\ UNCHANGED <<bound, desired, step, todo, current, failed, catalogue, orphaned,
                 connected, waits>>

\* CancelledError passes every `except Exception': what was under way is dropped.
Cancel ==
  /\ phase = "stopping"
  /\ step \in Suspended
  /\ phase' = "draining"
  /\ step' = "cancelled"
  /\ orphaned' = IF step \in {"closing", "listening"} THEN orphaned \cup {current} ELSE orphaned
  /\ announced' \in IF step = "registering" THEN MaybeAnnounced ELSE {announced}
  /\ current' = NoInstance
  /\ UNCHANGED <<bound, desired, todo, failed, registered, parsers, connected, waits>>

\* Awaiting a consumer that died raises its exception out of shutdown().
Abort ==
  /\ phase = "stopping"
  /\ step = "dead"
  /\ phase' = "aborted"
  /\ UNCHANGED <<bound, desired, step, todo, current, failed, catalogue, orphaned,
                 connected, waits>>

\* Fault: instances with a connected peer are left alone.
DrainUnconnected(i) ==
  /\ phase = "draining" /\ step = "cancelled"
  /\ i \in BoundSet \ connected
  /\ Teardown(i)
  /\ UNCHANGED <<desired, todo, failed, catalogue, orphaned, phase, waits>>

Drain(i) ==
  /\ phase = "draining" /\ step = "cancelled"
  /\ i \in BoundSet
  /\ Teardown(i)
  /\ UNCHANGED <<desired, todo, failed, catalogue, orphaned, phase, waits>>

Stopped ==
  /\ phase = "draining" /\ step = "cancelled"
  /\ BoundSet = {}
  /\ phase' = "stopped"
  /\ UNCHANGED <<bound, desired, step, todo, current, failed, catalogue, orphaned,
                 connected, waits>>

(* Peers come and go; only a server that still listens accepts one.         *)

PeerConnects(i) ==
  /\ i \in BoundSet \ connected
  /\ phase # "aborted"
  /\ connected' = connected \cup {i}
  /\ UNCHANGED <<bound, desired, step, todo, current, failed, catalogue, orphaned, phase, waits>>

PeerLeaves(i) ==
  /\ i \in connected
  /\ connected' = connected \ {i}
  /\ UNCHANGED <<bound, desired, step, todo, current, failed, catalogue, orphaned, phase, waits>>

Consumer ==
  \/ \E i \in Instance : Remove(i) \/ Bind(i)
  \/ Closed \/ StartBinding
  \/ Registered \/ RegistrationFails \/ LoadParser \/ LoadFails
  \/ Connect \/ Listen \/ ListenFails \/ Report \/ ReportFails \/ Applied

Main == Cancel \/ Abort \/ Stopped \/ \E i \in Instance : Drain(i)

Next ==
  \/ \E r \in Rosters : Deliver(r)
  \/ Consumer
  \/ RequestStop \/ Main
  \/ \E i \in Instance : PeerConnects(i) \/ PeerLeaves(i)

\* The loop runs its ready tasks in turn, so the main task gets its chance at a
\* suspension of the consumer however many snapshots keep coming; every await but
\* wait_closed ends; snapshots, signals and peers may stay away for ever.
Spec == Init /\ [][Next]_vars /\ WF_vars(Consumer) /\ SF_vars(Main)

-----------------------------------------------------------------------------
(* Types, and the instance at hand in each step.                            *)
Steps == {"waiting", "removing", "closing", "binding", "registering", "loading",
          "connecting", "listening", "reporting", "dead", "cancelled"}

MidBind == {"registering", "loading", "connecting", "listening", "reporting", "dead"}

RosterTypeOK ==
  /\ bound \in Rosters /\ desired \in Rosters
  /\ step \in Steps
  /\ todo \subseteq Instance /\ failed \subseteq Instance /\ orphaned \subseteq Instance
  /\ current \in Instance \cup {NoInstance}
  /\ registered \subseteq Profiles /\ announced \subseteq Profiles /\ parsers \subseteq Profiles
  /\ connected \subseteq Instance
  /\ phase \in {"running", "stopping", "draining", "stopped", "aborted"}
  /\ waits \in BOOLEAN
  /\ step \in MidBind \cup {"closing"} <=> current # NoInstance

(* Whenever the consumer is ready for the next snapshot, the last one is in *)
(* force: exactly its enabled instances are bound, except those reported as *)
(* failed in this very application, each at the address the snapshot gives  *)
(* (apply_roster: removal, readdressing, retry and isolation together).     *)
SettledMatchesRoster ==
  step = "waiting" =>
    /\ BoundSet = {i \in Instance : desired[i] # NoEntry} \ failed
    /\ \A i \in BoundSet : Addr(bound[i]) = Addr(desired[i])

(* A bind is refused its port by another instance only if the snapshot      *)
(* itself gives that port to both: instances may swap or inherit ports,     *)
(* because apply_roster tears down everything before it binds anything.     *)
PortsFreedFirst ==
  step = "listening" =>
    \A j \in BoundSet : bound[j].port = desired[current].port =>
      desired[j] # NoEntry /\ desired[j].port = desired[current].port

(* An instance never serves before drs-server could learn its variant's     *)
(* precision and before its parser is in memory, and a variant is not       *)
(* taken as registered without an event on the topic, whichever of the      *)
(* steps failed in earlier attempts (_bind, _ensure_variant_registered).    *)
BoundIsReady ==
  /\ registered \subseteq announced
  /\ \A i \in BoundSet : bound[i].variant \in registered \cap parsers

(* Siblings are untouched: while the runtime is not shutting down, a bound  *)
(* instance that the snapshot in force keeps at its address stays bound as  *)
(* it is, whatever happens to the others.                                   *)
SiblingsUntouched ==
  [][ (\A i \in BoundSet :
         phase' # "draining" /\ desired'[i] # NoEntry /\ Addr(desired'[i]) = Addr(bound[i])
           => bound'[i] = bound[i]) ]_vars

HeldByPeer == step = "closing" /\ current \in connected

(* Applying a snapshot ends: with the next snapshot awaited, or with the    *)
(* consumer dead or cancelled, or held for ever by a peer that never hangs  *)
(* up on a server being closed (wait_closed in _teardown).                  *)
ApplyTerminates ==
  step = "removing" ~> (step \in {"waiting", "dead", "cancelled"} \/ <>[]HeldByPeer)

(* A stop request ends in every server being torn down, unless the consumer *)
(* had died before or a peer holds a closing server for ever (shutdown).    *)
ShutdownCompletes ==
  phase = "stopping" ~> (phase \in {"stopped", "aborted"} \/ <>[]HeldByPeer)
=============================================================================

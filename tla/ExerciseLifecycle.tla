------------------------- MODULE ExerciseLifecycle -------------------------
(***************************************************************************)
(* What an exercise promises to the client that polls it: it is created,   *)
(* computed, possibly computed again after an error, and once it is ready  *)
(* the document it serves is one scenario, for ever.  Which process, pool  *)
(* or STK engine does the work is not said here.                           *)
(***************************************************************************)
CONSTANTS
  Exercises,      (* exercise ids *)
  Scenarios,      (* what a served document can show *)
  NoScenario      (* nothing is served *)

VARIABLES
  status,         (* exercise -> absent, created, running, ready or error *)
  served          (* exercise -> the scenario its document shows *)

vars == <<status, served>>

Init ==
  /\ status = [e \in Exercises |-> "absent"]
  /\ served = [e \in Exercises |-> NoScenario]

Move(e, from, to) ==
  /\ status[e] \in from
  /\ status' = [status EXCEPT ![e] = to]

\* The exercise is recorded, and computed at once when it came as a file.
Create(e) ==
  /\ \/ Move(e, {"absent"}, "created")
     \/ Move(e, {"absent"}, "running")
  /\ UNCHANGED served

\* A computation may start again only after one that failed.
Compute(e) == Move(e, {"created", "error"}, "running") /\ UNCHANGED served

Fail(e) == Move(e, {"running"}, "error") /\ UNCHANGED served

\* The one step that gives a client something to read.
Serve(e) ==
  /\ Move(e, {"running"}, "ready")
  /\ \E s \in Scenarios : served' = [served EXCEPT ![e] = s]

Next == \E e \in Exercises : Create(e) \/ Compute(e) \/ Fail(e) \/ Serve(e)

Spec == Init /\ [][Next]_vars
=============================================================================

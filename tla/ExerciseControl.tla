--------------------------- MODULE ExerciseControl ---------------------------
(***************************************************************************)
(* Exercise control in Sg.App: the operator's commands run on the UI       *)
(* thread, the time-sync poll loop on the thread pool (App.xaml.cs), and   *)
(* both drive MainWindowViewModel and ExerciseStateService.  The service   *)
(* guards its state with a lock and raises StateChanged after leaving it;  *)
(* the view model's own fields have no lock.                               *)
(*                                                                         *)
(* A step is what a thread does between two accesses to what they share.   *)
(***************************************************************************)

VARIABLES
  exercise,  \* ExerciseStateService._state
  shown,     \* MainWindowViewModel.CurrentState
  gate,      \* _lastKnownStatus
  reason,    \* PauseReason: "none" or "Time sync lost"
  ui,        \* where the UI thread stands
  target,    \* the state its command asks for, "none" between commands
  poll,      \* where the poll loop stands
  inCatch,   \* the loop is in its catch block: the next exception leaves it
  strict,    \* WPF: a button told of CanExecuteChanged off the UI thread throws
  mandate    \* history: Start, allowed by a healthy gate, began this exercise

uiVars == <<ui, target>>
pollVars == <<poll, inCatch>>
vars == <<exercise, shown, gate, reason, uiVars, pollVars, strict, mandate>>

States == {"Stopped", "Running", "Paused"}

\* Every other status the server may answer acts as "warming" does.
Statuses == {"healthy", "warming", "sync_lost"}

-----------------------------------------------------------------------------
Init ==
  /\ exercise = "Stopped" /\ shown = "Stopped"
  /\ gate = "warming"
  /\ reason = "none"
  /\ ui = "idle" /\ target = "none"
  /\ poll = "asking" /\ inCatch = FALSE
  /\ strict \in BOOLEAN
  /\ mandate = FALSE

\* Transition(s) returns without an event if nothing changes.
Changes(s) == exercise # s

(* The UI thread: CanExecute, then the command's body.                      *)

Click(allowed, s, first) ==
  /\ ui = "idle"
  /\ allowed
  /\ target' = s
  /\ ui' = first
  /\ UNCHANGED <<exercise, shown, gate, reason, pollVars, strict, mandate>>

Start == Click(shown = "Stopped" /\ gate = "healthy", "Running", "starting")

Pause == Click(shown = "Running", "Paused", "switching")

Resume == Click(shown = "Paused", "Running", "clearing")

Stop == Click(shown # "Stopped", "Stopped", "clearing")

\* Resume and Stop forget the reason first.
ClearReason ==
  /\ ui = "clearing"
  /\ reason' = "none"
  /\ ui' = "switching"
  /\ UNCHANGED <<exercise, shown, gate, target, pollVars, strict, mandate>>

UiTransition ==
  /\ ui \in {"starting", "switching"}
  /\ IF Changes(target)
       THEN /\ exercise' = target
            /\ mandate' = (target # "Stopped" /\ (ui = "starting" \/ mandate))
            /\ ui' = "showing"
            /\ UNCHANGED target
       ELSE ui' = "idle" /\ target' = "none" /\ UNCHANGED <<exercise, mandate>>
  /\ UNCHANGED <<shown, gate, reason, pollVars, strict>>

\* StateChanged, on the thread that made the transition.
UiShow ==
  /\ ui = "showing"
  /\ shown' = target
  /\ ui' = "idle"
  /\ target' = "none"
  /\ UNCHANGED <<exercise, gate, reason, pollVars, strict, mandate>>

(* The poll loop: GetStatusAsync, then ApplyTimeSyncStatus.                 *)

Receive(s) ==
  /\ poll = "asking"
  /\ gate' = s
  /\ poll' = "checking"
  /\ UNCHANGED <<exercise, shown, reason, uiVars, inCatch, strict, mandate>>

\* Fault: the design document's name for the status.
ReceiveFailsMisnamed ==
  /\ poll = "asking"
  /\ gate' = "lost"
  /\ inCatch' = TRUE
  /\ poll' = "checking"
  /\ UNCHANGED <<exercise, shown, reason, uiVars, strict, mandate>>

\* No answer, or an unusable one: sync_lost, from the catch block.
ReceiveFails ==
  /\ poll = "asking"
  /\ gate' = "sync_lost"
  /\ inCatch' = TRUE
  /\ poll' = "checking"
  /\ UNCHANGED <<exercise, shown, reason, uiVars, strict, mandate>>

\* Fault: an unreachable server does not pause the exercise.
CheckLostAnswered ==
  /\ poll = "checking"
  /\ poll' = IF gate = "sync_lost" /\ ~inCatch /\ shown = "Running"
               THEN "explaining" ELSE "notifying"
  /\ UNCHANGED <<exercise, shown, gate, reason, uiVars, inCatch, strict, mandate>>

\* Fault: a loss of sync pauses whatever the state.
CheckLostAnyState ==
  /\ poll = "checking"
  /\ poll' = IF gate = "sync_lost" THEN "explaining" ELSE "notifying"
  /\ UNCHANGED <<exercise, shown, gate, reason, uiVars, inCatch, strict, mandate>>

CheckLost ==
  /\ poll = "checking"
  /\ poll' = IF gate = "sync_lost" /\ shown = "Running" THEN "explaining" ELSE "notifying"
  /\ UNCHANGED <<exercise, shown, gate, reason, uiVars, inCatch, strict, mandate>>

Explain ==
  /\ poll = "explaining"
  /\ reason' = "Time sync lost"
  /\ poll' = "pausing"
  /\ UNCHANGED <<exercise, shown, gate, uiVars, inCatch, strict, mandate>>

AutoPause ==
  /\ poll = "pausing"
  /\ exercise' = "Paused"
  /\ poll' = IF Changes("Paused") THEN "showing" ELSE "notifying"
  /\ UNCHANGED <<shown, gate, reason, uiVars, inCatch, strict, mandate>>

PollShow ==
  /\ poll = "showing"
  /\ shown' = "Paused"
  /\ poll' = "notifying"
  /\ UNCHANGED <<exercise, gate, reason, uiVars, inCatch, strict, mandate>>

\* RaiseCommandsCanExecuteChanged off the UI thread.  What it throws is caught
\* once, by a catch block that applies sync_lost and notifies again.
Notify ==
  /\ poll = "notifying"
  /\ IF ~strict THEN poll' = "sleeping" /\ inCatch' = FALSE /\ UNCHANGED gate
     ELSE IF inCatch THEN poll' = "dead" /\ UNCHANGED <<gate, inCatch>>
     ELSE poll' = "checking" /\ inCatch' = TRUE /\ gate' = "sync_lost"
  /\ UNCHANGED <<exercise, shown, reason, uiVars, strict, mandate>>

Wake ==
  /\ poll = "sleeping"
  /\ poll' = "asking"
  /\ UNCHANGED <<exercise, shown, gate, reason, uiVars, inCatch, strict, mandate>>

\* OnExit cancels the loop, which notices in GetStatusAsync or in the delay.
Exit ==
  /\ poll \in {"asking", "sleeping"}
  /\ poll' = "cancelled"
  /\ UNCHANGED <<exercise, shown, gate, reason, uiVars, inCatch, strict, mandate>>

UiStep == ClearReason \/ UiTransition \/ UiShow

PollStep ==
  \/ \E s \in Statuses : Receive(s)
  \/ ReceiveFails \/ CheckLost \/ Explain \/ AutoPause \/ PollShow \/ Notify \/ Wake

Next ==
  \/ Start \/ Pause \/ Resume \/ Stop
  \/ UiStep
  \/ PollStep
  \/ Exit

\* Both threads run; requests and delays end.  Nobody has to click.
Spec == Init /\ [][Next]_vars /\ WF_vars(UiStep) /\ WF_vars(PollStep)

-----------------------------------------------------------------------------
(* Types.                                                                   *)
ExerciseTypeOK ==
  /\ exercise \in States /\ shown \in States
  /\ gate \in Statuses
  /\ reason \in {"none", "Time sync lost"}
  /\ ui \in {"idle", "starting", "clearing", "switching", "showing"}
  /\ target \in States \cup {"none"}
  /\ poll \in {"asking", "checking", "explaining", "pausing", "showing", "notifying",
               "sleeping", "dead", "cancelled"}
  /\ inCatch \in BOOLEAN /\ strict \in BOOLEAN /\ mandate \in BOOLEAN

(* A running exercise is never hidden from the view model, however the      *)
(* threads' transitions and their late notifications interleave: unless the *)
(* UI thread is in the middle of a command, Running is what CurrentState    *)
(* says, so that the next loss of sync is acted upon and Stop is offered.   *)
RunningIsShown == exercise = "Running" /\ ui = "idle" => shown = "Running"

(* While sync stays lost the exercise keeps being paused, also after every  *)
(* Resume, as long as the poll loop lives (ApplyTimeSyncStatus).            *)
LostKeepsPausing ==
  <>[](gate = "sync_lost") =>
    []<>(exercise # "Running") \/ <>(poll \in {"dead", "cancelled"})

(* The design's "refuses to start an exercise until all WS2 services report *)
(* a healthy sync status": what runs was started through that gate.         *)
NoUngatedStart == exercise = "Running" => mandate
=============================================================================

------------------------ MODULE ExerciseControlProofs ------------------------
(***************************************************************************)
(* Proofs about ExerciseControl.                                           *)
(*                                                                         *)
(* exercise and shown do drift apart: a StateChanged of one thread may be  *)
(* handled after the other thread's next transition.  That a running       *)
(* exercise is never hidden has to be followed through every such delay:   *)
(* Commands says what a command saw when it was allowed, Agreement how far *)
(* the two may be apart, and LostHere what a pause under way excludes.     *)
(***************************************************************************)
EXTENDS ExerciseControl, TLAPS

Asked == ui \in {"clearing", "switching"}
Resting == ui = "idle" \/ Asked
Pausing == poll \in {"explaining", "pausing"}

\* The UI thread's command fits what CurrentState showed.
Commands ==
  /\ ui = "idle" <=> target = "none"
  /\ ui = "starting" => target = "Running" /\ shown = "Stopped"
  /\ Asked =>
       /\ shown # "Stopped"
       /\ target = "Running" => shown = "Paused"
       /\ target = "Paused" => exercise # "Stopped"
  /\ ui = "showing" => exercise \in {target, "Paused"} /\ shown # target

Agreement ==
  /\ exercise = "Running" /\ ui # "showing" => shown = "Running"
  /\ shown = "Running" /\ Resting => exercise # "Stopped"
  /\ ui = "showing" /\ poll # "showing" /\ exercise # target => shown = "Paused"

\* An automatic pause began while Running was shown and Start was closed.
LostHere ==
  /\ Pausing \/ poll = "showing" => gate = "sync_lost" /\ ui # "starting"
  /\ Pausing =>
       /\ Resting /\ shown = "Paused" => exercise = "Paused"
       /\ ui = "showing" => exercise = target
       /\ ui = "showing" /\ target = "Running" => shown = "Paused"
       /\ ui = "showing" /\ target = "Paused" => shown = "Running"
       /\ ui = "idle" /\ shown = "Stopped" => exercise = "Stopped"
  /\ poll = "showing" =>
       /\ exercise # "Running"
       /\ Resting => shown # "Paused"
       /\ Asked => target # "Running"
       /\ ui = "showing" => target # "Paused"

\* ExerciseTypeOK in two parts: the enumerations and the flags.
Ranges ==
  /\ exercise \in States /\ shown \in States
  /\ gate \in Statuses
  /\ reason \in {"none", "Time sync lost"}
  /\ ui \in {"idle", "starting", "clearing", "switching", "showing"}
  /\ target \in States \cup {"none"}
  /\ poll \in {"asking", "checking", "explaining", "pausing", "showing", "notifying",
               "sleeping", "dead", "cancelled"}

Flags == inCatch \in BOOLEAN /\ strict \in BOOLEAN /\ mandate \in BOOLEAN

EInv == Ranges /\ Commands /\ Agreement /\ LostHere

LEMMA InitEInv == Init => EInv /\ Flags
<1> SUFFICES ASSUME Init PROVE EInv /\ Flags
  OBVIOUS
<1>1. EInv
  BY DEF Init, EInv, Ranges, Commands, Agreement, LostHere, Asked, Resting, Pausing,
         States, Statuses
<1>2. Flags
  BY DEF Init, Flags
<1>3. QED
  BY <1>1, <1>2

LEMMA NextFlags == Flags /\ [Next]_vars => Flags'
<1> SUFFICES ASSUME Flags, [Next]_vars PROVE Flags'
  OBVIOUS
<1>1. CASE UiTransition
  BY <1>1, Zenon DEF UiTransition, Flags, pollVars
<1>2. CASE Notify
  BY <1>2, Zenon DEF Notify, Flags
<1>3. CASE Start \/ Pause \/ Resume \/ Stop \/ ClearReason \/ UiShow
  BY <1>3, Zenon DEF Start, Pause, Resume, Stop, Click, ClearReason, UiShow, pollVars, Flags
<1>4. CASE (\E s \in Statuses : Receive(s)) \/ ReceiveFails
  BY <1>4, Zenon DEF Receive, ReceiveFails, Flags
<1>5. CASE CheckLost \/ Explain \/ AutoPause \/ PollShow \/ Wake \/ Exit
  BY <1>5, Zenon DEF CheckLost, Explain, AutoPause, PollShow, Wake, Exit, Flags
<1>6. CASE UNCHANGED vars
  BY <1>6, Zenon DEF vars, pollVars, Flags
<1>7. QED
  BY <1>1, <1>2, <1>3, <1>4, <1>5, <1>6, Zenon DEF Next, UiStep, PollStep

LEMMA NextEInv == EInv /\ [Next]_vars => EInv'
<1> SUFFICES ASSUME EInv, [Next]_vars PROVE EInv'
  OBVIOUS
<1> USE DEF EInv, Ranges, Commands, Agreement, LostHere, Asked, Resting, Pausing,
            States, Statuses
<1>1. CASE Start \/ Pause \/ Resume \/ Stop
  BY <1>1 DEF Start, Pause, Resume, Stop, Click, pollVars
<1>2. CASE ClearReason
  BY <1>2, ZenonT(60) DEF ClearReason, pollVars
<1>3. CASE UiTransition
  BY <1>3, ZenonT(60) DEF UiTransition, Changes, pollVars
<1>4. CASE UiShow
  BY <1>4, ZenonT(60) DEF UiShow, pollVars
<1>5. CASE (\E s \in Statuses : Receive(s)) \/ ReceiveFails
  BY <1>5, ZenonT(60) DEF Receive, ReceiveFails, uiVars
<1>6. CASE CheckLost
  BY <1>6, ZenonT(60) DEF CheckLost, uiVars
<1>7. CASE Explain
  BY <1>7, ZenonT(60) DEF Explain, uiVars
<1>8. CASE AutoPause
  BY <1>8, ZenonT(60) DEF AutoPause, Changes, uiVars
<1>9. CASE PollShow
  BY <1>9, ZenonT(60) DEF PollShow, uiVars
<1>10. CASE Notify
  BY <1>10, ZenonT(60) DEF Notify, uiVars
<1>11. CASE Wake \/ Exit
  BY <1>11 DEF Wake, Exit, uiVars
<1>12. CASE UNCHANGED vars
  <2>1. /\ exercise' = exercise /\ shown' = shown /\ gate' = gate /\ reason' = reason
        /\ ui' = ui /\ target' = target /\ poll' = poll
    BY <1>12, Zenon DEF vars, uiVars, pollVars
  <2>2. Ranges'
    BY <2>1, ZenonT(60)
  <2>3. Commands'
    BY <2>1
  <2>4. Agreement'
    BY <2>1
  <2>5. LostHere'
    BY <2>1
  <2>6. QED
    BY <2>2, <2>3, <2>4, <2>5, Zenon DEF EInv
<1>13. QED
  BY <1>1, <1>2, <1>3, <1>4, <1>5, <1>6, <1>7, <1>8, <1>9, <1>10, <1>11, <1>12
     DEF Next, UiStep, PollStep

LEMMA Inductive == Spec => [](EInv /\ Flags)
  BY InitEInv, NextEInv, NextFlags, PTL DEF Spec

(* The types hold in every state of the two threads.                         *)
THEOREM ExerciseTypeCorrect == Spec => []ExerciseTypeOK
<1>1. EInv /\ Flags => ExerciseTypeOK
  BY Zenon DEF EInv, Ranges, Flags, ExerciseTypeOK
<1>2. QED
  BY <1>1, Inductive, PTL

(* In every interleaving the view model knows of a running exercise          *)
(* (MainWindowViewModel's StateChanged handler and ApplyTimeSyncStatus).     *)
THEOREM RunningIsNeverHidden == Spec => []RunningIsShown
<1>1. EInv => RunningIsShown
  BY DEF EInv, Agreement, RunningIsShown
<1>2. QED
  BY <1>1, Inductive, PTL
=============================================================================

------------------------------- MODULE LosScan -------------------------------
(***************************************************************************)
(* The line of sight of mvp's synthetic document.  Two circular tracks are *)
(* sampled every STEP seconds; at each sample the straight path between    *)
(* the platforms is tested against the terrain, and one pass over the      *)
(* samples turns the verdicts into the intervals in which the LOS and RLOS *)
(* lines are shown.                                                        *)
(***************************************************************************)
EXTENDS Integers

CONSTANTS
  STEP,        (* seconds between samples *)
  Durations,   (* stop time less start time of an exercise, in seconds *)
  PathPoints   (* points into which the path is divided *)

ASSUME LosAssumption ==
  /\ STEP \in Nat \ {0}
  /\ Durations \subseteq Int
  /\ PathPoints \in Nat

VARIABLES
  losStep,     (* "tracks", "scan", "build", "done", "raised" *)
  duration,    (* of the exercise *)
  t,           (* time of the next sample *)
  inLos,       (* in_los *)
  segStart,    (* seg_start *)
  intervals,   (* the intervals found, in order of time: a set *)
  visible,     (* sample times with line of sight so far (history) *)
  blocked,     (* sample times without (history) *)
  lines        (* packet -> its availability *)

losVars == <<losStep, duration, t, inLos, segStart, intervals, visible, blocked, lines>>

Interior == 1..(PathPoints - 1)

\* Which interior points of the path are above the terrain.  Both tracks start
\* at angle zero, where the path is clear whatever the duration.
Profiles == IF t = 0 THEN {Interior} ELSE SUBSET Interior

\* The end points are not tested.
HasLos(above) == \A i \in Interior : i \in above

\* The angle of the first sample divides by the duration; a negative duration
\* has no sample at all.
CircleTrack ==
  /\ losStep = "tracks"
  /\ losStep' = IF duration = 0 THEN "raised" ELSE "scan"
  /\ UNCHANGED <<duration, t, inLos, segStart, intervals, visible, blocked, lines>>

FaultScan(above) ==        \* the start moves with every visible sample
  /\ losStep = "scan" /\ t <= duration
  /\ IF HasLos(above)
     THEN /\ inLos' = TRUE
          /\ segStart' = t
          /\ visible' = visible \union {t}
          /\ UNCHANGED <<intervals, blocked>>
     ELSE /\ inLos' = FALSE
          /\ intervals' = IF inLos THEN intervals \union {<<segStart, t>>} ELSE intervals
          /\ blocked' = blocked \union {t}
          /\ UNCHANGED <<segStart, visible>>
  /\ t' = t + STEP
  /\ UNCHANGED <<losStep, duration, lines>>

\* An interval starts with the first visible sample after a blocked one and ends
\* with the first blocked one after it.
Scan(above) ==
  /\ losStep = "scan" /\ t <= duration
  /\ IF HasLos(above)
     THEN /\ inLos' = TRUE
          /\ segStart' = IF inLos THEN segStart ELSE t
          /\ visible' = visible \union {t}
          /\ UNCHANGED <<intervals, blocked>>
     ELSE /\ inLos' = FALSE
          /\ intervals' = IF inLos THEN intervals \union {<<segStart, t>>} ELSE intervals
          /\ blocked' = blocked \union {t}
          /\ UNCHANGED <<segStart, visible>>
  /\ t' = t + STEP
  /\ UNCHANGED <<losStep, duration, lines>>

\* The open interval lasts to the stop time; without any the whole exercise is
\* one interval.
EndScan ==
  /\ losStep = "scan" /\ t > duration
  /\ LET closed == IF inLos THEN intervals \union {<<segStart, duration>>} ELSE intervals
     IN intervals' = IF closed = {} THEN {<<0, duration>>} ELSE closed
  /\ losStep' = "build"
  /\ UNCHANGED <<duration, t, inLos, segStart, visible, blocked, lines>>

\* Platforms are there throughout, both lines during the intervals.
PlatformPackets == [p \in {"emitter", "radar"} |-> {<<0, duration>>}]

EmitPackets ==
  /\ losStep = "build"
  /\ lines' = [p \in {"emitter", "radar", "los", "rlos"} |->
                 IF p \in DOMAIN PlatformPackets THEN PlatformPackets[p] ELSE intervals]
  /\ losStep' = "done"
  /\ UNCHANGED <<duration, t, inLos, segStart, intervals, visible, blocked>>

LosInit ==
  /\ losStep = "tracks"
  /\ duration \in Durations
  /\ t = 0 /\ inLos = FALSE /\ segStart = 0
  /\ intervals = {} /\ visible = {} /\ blocked = {}
  /\ lines = <<>>

LosNext ==
  \/ CircleTrack \/ EndScan \/ EmitPackets
  \/ \E above \in Profiles : Scan(above)

LosSpec == LosInit /\ [][LosNext]_losVars

(***************************************************************************)
(* Properties.                                                             *)
(***************************************************************************)
\* The LOS line is shown at every sample at which the platforms see each other,
\* and at a blocked one at most for the instant that ends an interval, for every
\* pattern of occlusion along the tracks.
LosShownExactly ==
  losStep = "done" /\ duration > 0 =>
    /\ \A x \in visible : \E iv \in lines["los"] : iv[1] <= x /\ x <= iv[2]
    /\ \A x \in blocked, iv \in lines["los"] : x < iv[1] \/ iv[2] <= x

\* The intervals are maximal: each starts at a visible sample, ends at a blocked
\* one or at the stop time, and lies apart from the others.
IntervalsAreApart ==
  losStep = "done" /\ duration > 0 =>
    \A iv \in lines["los"] :
      /\ iv[1] \in visible
      /\ iv[2] \in blocked \union {duration}
      /\ iv[1] <= iv[2]
      /\ \A other \in lines["los"] : other = iv \/ other[2] < iv[1] \/ iv[2] < other[1]
=============================================================================

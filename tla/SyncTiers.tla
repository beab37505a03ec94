------------------------------ MODULE SyncTiers ------------------------------
(***************************************************************************)
(* What the sync state engine promises, without its window: the three-tier *)
(* scheme of the time-sync design as lengths of runs of consecutive        *)
(* readings.  A tier is entered when the run that defines it is long       *)
(* enough, counted over ALL readings since start-up; nothing is forgotten. *)
(* SyncStateEngineHistory shows that the engine, which only remembers a    *)
(* short window, implements this.                                          *)
(***************************************************************************)
EXTENDS Integers

CONSTANTS Offset, WarnMs, AlertMs, LostMs, HealthyRequired, DriftRequired,
          LostSilence

VARIABLES
  tier,      \* the status reported
  goodRun,   \* consecutive readings at or under WarnMs, up to HealthyRequired
  warnRun,   \* consecutive readings over WarnMs, up to DriftRequired
  alertRun,  \* consecutive readings over AlertMs, up to DriftRequired
  quiet      \* age of the newest reading; -1 before the first one

tierVars == <<tier, goodRun, warnRun, alertRun, quiet>>

Size(o) == IF o < 0 THEN -o ELSE o

\* One more (capped) if the reading continues the run, else none.
Extend(run, continues, cap) ==
  IF ~continues THEN 0 ELSE IF run < cap THEN run + 1 ELSE cap

TiersInit ==
  /\ tier = "warming"
  /\ goodRun = 0 /\ warnRun = 0 /\ alertRun = 0
  /\ quiet = -1

Reading(o) ==
  /\ goodRun' = Extend(goodRun, Size(o) <= WarnMs, HealthyRequired)
  /\ warnRun' = Extend(warnRun, Size(o) > WarnMs, DriftRequired)
  /\ alertRun' = Extend(alertRun, Size(o) > AlertMs, DriftRequired)
  /\ tier' = IF Size(o) > LostMs THEN "sync_lost"
             ELSE IF alertRun' = DriftRequired THEN "drift_alert"
             ELSE IF warnRun' = DriftRequired THEN "drift_warn"
             ELSE IF goodRun' = HealthyRequired THEN "healthy"
             ELSE tier
  /\ quiet' = 0

\* Sync is lost only once the newest reading is older than LostSilence.
DeclareSilence ==
  /\ quiet > LostSilence
  /\ tier' = "sync_lost"
  /\ UNCHANGED <<goodRun, warnRun, alertRun, quiet>>

TimePasses ==
  /\ quiet \in 0 .. LostSilence
  /\ quiet' = quiet + 1
  /\ UNCHANGED <<tier, goodRun, warnRun, alertRun>>

TiersNext == (\E o \in Offset : Reading(o)) \/ DeclareSilence \/ TimePasses

TiersSpec == TiersInit /\ [][TiersNext]_tierVars
=============================================================================

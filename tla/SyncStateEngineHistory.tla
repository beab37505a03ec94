----------------------- MODULE SyncStateEngineHistory -----------------------
(***************************************************************************)
(* SyncStateEngine with history variables: the run lengths over all        *)
(* readings, which the engine itself does not keep, and how and how long   *)
(* ago the present status was entered.  No action is restricted by them.   *)
(* The run lengths are the refinement mapping to SyncTiers.                *)
(***************************************************************************)
EXTENDS SyncStateEngine

VARIABLES
  goodRun, warnRun, alertRun,  \* as in SyncTiers
  entry,                       \* what entered the present status
  sinceEntry                   \* readings recorded since then, capped

historyVars == <<goodRun, warnRun, alertRun, entry, sinceEntry>>
vars == <<engineVars, historyVars>>

Tiers == INSTANCE SyncTiers WITH
  tier <- status,
  quiet <- IF window = <<>> THEN -1 ELSE silence

EntryCap == HealthyRequired

HInit ==
  /\ Init
  /\ goodRun = 0 /\ warnRun = 0 /\ alertRun = 0
  /\ entry = "start"
  /\ sinceEntry = 0

HRecord(o) ==
  /\ Record(o)
  /\ goodRun' = Tiers!Extend(goodRun, o \in Within(WarnMs), HealthyRequired)
  /\ warnRun' = Tiers!Extend(warnRun, o \in Over(WarnMs), DriftRequired)
  /\ alertRun' = Tiers!Extend(alertRun, o \in Over(AlertMs), DriftRequired)
  /\ entry' = IF status' = status THEN entry ELSE "reading"
  /\ sinceEntry' = Tiers!Extend(sinceEntry, status' = status, EntryCap)

HCurrentStatus ==
  /\ CurrentStatus
  /\ entry' = IF status' = status THEN entry ELSE "silence"
  /\ sinceEntry' = IF status' = status THEN sinceEntry ELSE 0
  /\ UNCHANGED <<goodRun, warnRun, alertRun>>

HRegisterVariant(v, p) == RegisterVariant(v, p) /\ UNCHANGED historyVars

HTick == Tick /\ UNCHANGED historyVars

HNext ==
  \/ \E o \in Offset : HRecord(o)
  \/ HCurrentStatus
  \/ \E v \in Variant, p \in Precision : HRegisterVariant(v, p)
  \/ HTick

HSpec == HInit /\ [][HNext]_vars

-----------------------------------------------------------------------------
(* The engine, deciding from a window of bounded length and forgetting the  *)
(* rest, reports at every moment the tier that the run lengths over all     *)
(* readings call for (_window's maxlen, _classify, current_status).         *)
ImplementsTiers == Tiers!TiersSpec

Degraded == {"drift_warn", "drift_alert", "sync_lost"}

(* No flapping: a status that a bad reading brought about turns healthy     *)
(* only after HealthyRequired readings recorded since it was entered        *)
(* (_classify: one good reading never clears a drift or a lost verdict).    *)
RecoveryIsSustained ==
  [][ (status \in Degraded /\ entry = "reading" /\ status' = "healthy"
        => sinceEntry + 1 >= HealthyRequired) ]_vars
=============================================================================

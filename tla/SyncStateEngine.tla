--------------------------- MODULE SyncStateEngine ---------------------------
(***************************************************************************)
(* The drs-server synchronisation state machine                            *)
(* (drs_server/timesync/sync_state_engine.py).                             *)
(*                                                                         *)
(* The engine keeps the last few NTP readings in a bounded window and one  *)
(* global status, plus one status per registered variant.  Every method    *)
(* runs on the asyncio loop without suspending, so each is one action.     *)
(* A reading is its offset in milliseconds; the other fields of NtpSample  *)
(* play no part in the classification, except the sampling time, which     *)
(* only matters as the age of the newest reading ("silence").              *)
(***************************************************************************)
EXTENDS Integers, Sequences

CONSTANTS
  Offset,           \* the offsets (ms, signed) a reading may show
  Variant,          \* variant names
  Precision,        \* the precision_required_ms values variants declare
  NoPrecision,      \* stands for "no entry" in the variants dictionary
  WarnMs, AlertMs, LostMs,
  HealthyRequired,  \* readings at or under WarnMs that make the status healthy
  DriftRequired,    \* readings over a threshold that make a drift status
  LostSilence       \* age of the newest reading beyond which sync is lost

ASSUME ThresholdsAssumption ==
  /\ Offset \subseteq Int
  /\ Precision \subseteq Nat
  /\ NoPrecision \notin Precision
  /\ WarnMs \in Nat /\ AlertMs \in Nat /\ LostMs \in Nat
  /\ WarnMs <= AlertMs /\ AlertMs <= LostMs
  /\ HealthyRequired \in Nat \ {0}
  /\ DriftRequired \in Nat \ {0}
  /\ LostSilence \in Nat

VARIABLES
  status,          \* _status
  window,          \* _window, oldest reading first
  silence,         \* time units since window's newest reading, capped
  precision,       \* _variants[name]["precision_ms"], or NoPrecision
  variantStatus    \* _variants[name]["status"]

engineVars == <<status, window, silence, precision, variantStatus>>

Status == {"healthy", "warming", "drift_warn", "drift_alert", "sync_lost"}

-----------------------------------------------------------------------------
(* The window and what it says.                                            *)

\* Fault: the window is sized by the drift readings alone.
MaxLenOfDrift == DriftRequired

\* deque(maxlen = max(healthy_required, drift_required) + 1)
MaxLen ==
  (IF HealthyRequired >= DriftRequired THEN HealthyRequired ELSE DriftRequired) + 1

\* Fault: a deque without maxlen.
PushUnbounded(w, o) == Append(w, o)

\* deque.append: the oldest reading drops out when the window is full.
Push(w, o) == Append(IF Len(w) = MaxLen THEN Tail(w) ELSE w, o)

Magnitude(o) == IF o < 0 THEN -o ELSE o

Over(ms) == {o \in Offset : Magnitude(o) > ms}
Within(ms) == {o \in Offset : Magnitude(o) <= ms}

\* Fault: off by one, n - 1 readings suffice.
SustainedShort(w, n, S) ==
  /\ Len(w) >= n - 1
  /\ \A j \in 0 .. (n - 2) : w[Len(w) - j] \in S

\* The last n readings exist and all lie in S.
Sustained(w, n, S) ==
  /\ Len(w) >= n
  /\ \A j \in 0 .. (n - 1) : w[Len(w) - j] \in S

\* Fault: sync_lost latches.
ClassifyLatched(w, current) ==
  IF w[Len(w)] \in Over(LostMs) \/ current = "sync_lost" THEN "sync_lost"
  ELSE IF Sustained(w, DriftRequired, Over(AlertMs)) THEN "drift_alert"
  ELSE IF Sustained(w, DriftRequired, Over(WarnMs)) THEN "drift_warn"
  ELSE IF Sustained(w, HealthyRequired, Within(WarnMs)) THEN "healthy"
  ELSE current

Classify(w, current) ==
  IF w[Len(w)] \in Over(LostMs) THEN "sync_lost"
  ELSE IF Sustained(w, DriftRequired, Over(AlertMs)) THEN "drift_alert"
  ELSE IF Sustained(w, DriftRequired, Over(WarnMs)) THEN "drift_warn"
  ELSE IF Sustained(w, HealthyRequired, Within(WarnMs)) THEN "healthy"
  ELSE current

ClassifyForThreshold(w, ms) ==
  IF w[Len(w)] \in Over(ms) THEN "drift_alert"
  ELSE IF Sustained(w, HealthyRequired, Within(ms)) THEN "healthy"
  ELSE "warming"

Registered == {v \in Variant : precision[v] # NoPrecision}

Scope == Variant \cup {"global"}

\* The status a callback's scope stands for.
Held(s) == IF s = "global" THEN status ELSE variantStatus[s]

-----------------------------------------------------------------------------
Init ==
  /\ status = "warming"
  /\ window = <<>>
  /\ silence = 0
  /\ precision = [v \in Variant |-> NoPrecision]
  /\ variantStatus = [v \in Variant |-> "warming"]

\* record(sample): the global status first, then every registered variant.
Record(o) ==
  LET w == Push(window, o)
      new == Classify(w, status)
      newVariant == [v \in Variant |->
                       IF v \in Registered THEN ClassifyForThreshold(w, precision[v])
                       ELSE variantStatus[v]]
  IN /\ window' = w
     /\ silence' = 0
     /\ status' = new
     /\ variantStatus' = newVariant
     /\ UNCHANGED precision

\* The scopes whose callbacks record calls, once each, in the step.
RecordFires == {s \in Scope : Held(s)' # Held(s)}

IsSilent == window # <<>> /\ silence > LostSilence

\* current_status(): a query that moves the engine to sync_lost, and calls the
\* callbacks, whenever the newest reading is too old.
CurrentStatus ==
  /\ status' = IF IsSilent THEN "sync_lost" ELSE status
  /\ UNCHANGED <<window, silence, precision, variantStatus>>

\* Fault: a query changes the status without telling the callbacks.
QueryFiresNobody == {}

\* Its callbacks run also when the status was sync_lost already.
QueryFires == IF IsSilent THEN {"global"} ELSE {}

\* register_variant(name, precision): also replaces an existing entry.
RegisterVariant(v, p) ==
  /\ precision' = [precision EXCEPT ![v] = p]
  /\ variantStatus' = [variantStatus EXCEPT ![v] = "warming"]
  /\ UNCHANGED <<status, window, silence>>

\* One unit of time passes; ages beyond LostSilence + 1 are not told apart.
Tick ==
  /\ window # <<>>
  /\ silence <= LostSilence
  /\ silence' = silence + 1
  /\ UNCHANGED <<status, window, precision, variantStatus>>

Next ==
  \/ \E o \in Offset : Record(o)
  \/ CurrentStatus
  \/ \E v \in Variant, p \in Precision : RegisterVariant(v, p)
  \/ Tick

Spec == Init /\ [][Next]_engineVars

-----------------------------------------------------------------------------
(* Every variable keeps its range; the window never outgrows its deque.    *)
TypeOK ==
  /\ status \in Status
  /\ window \in Seq(Offset)
  /\ Len(window) <= MaxLen
  /\ silence \in 0 .. (LostSilence + 1)
  /\ precision \in [Variant -> Precision \cup {NoPrecision}]
  /\ variantStatus \in [Variant -> Status]

(* Whenever the readings in the window are decisive, the global status says *)
(* so, whatever came before: a newest reading over the lost threshold is    *)
(* sync_lost; drift over the alert or the warn threshold is that tier or    *)
(* the silence verdict; a sustained good window is healthy or the silence   *)
(* verdict (_classify against _window, and current_status in between).      *)
DecisiveWindow ==
  window # <<>> =>
    /\ window[Len(window)] \in Over(LostMs) => status = "sync_lost"
    /\ Sustained(window, DriftRequired, Over(AlertMs)) =>
         status \in {"drift_alert", "sync_lost"}
    /\ Sustained(window, DriftRequired, Over(WarnMs)) =>
         status \in {"drift_warn", "drift_alert", "sync_lost"}
    /\ Sustained(window, HealthyRequired, Within(WarnMs)) =>
         status \in {"healthy", "sync_lost"}

(* A variant is never reported healthy on readings its own precision        *)
(* forbids: healthy needs HealthyRequired readings within the precision it  *)
(* registered, also after re-registration with a stricter one               *)
(* (register_variant and the variant loop of record).                       *)
VariantPrecisionKept ==
  \A v \in Registered :
    variantStatus[v] = "healthy" =>
      Sustained(window, HealthyRequired, Within(precision[v]))
=============================================================================

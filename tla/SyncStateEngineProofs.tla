----------------------- MODULE SyncStateEngineProofs -----------------------
(***************************************************************************)
(* Proofs about SyncStateEngine, for every window length, threshold and    *)
(* set of offsets: its invariants, that recovery from a bad reading is     *)
(* sustained, and that deciding from the bounded window implements the run *)
(* lengths of SyncTiers.                                                   *)
(***************************************************************************)
EXTENDS SyncStateEngineHistory, TLAPS

LEMMA MaxLenFacts ==
  /\ MaxLen \in Nat
  /\ HealthyRequired < MaxLen /\ DriftRequired < MaxLen
  /\ HealthyRequired \in Nat /\ HealthyRequired > 0
  /\ DriftRequired \in Nat /\ DriftRequired > 0
BY ThresholdsAssumption DEF MaxLen

\* What the deque holds after an append: the new reading last, and before it
\* the readings it held, as many as still fit.
LEMMA PushFacts ==
  ASSUME NEW w \in Seq(Offset), Len(w) <= MaxLen, NEW o \in Offset
  PROVE  /\ Push(w, o) \in Seq(Offset)
         /\ Len(Push(w, o)) = IF Len(w) = MaxLen THEN Len(w) ELSE Len(w) + 1
         /\ Push(w, o)[Len(Push(w, o))] = o
         /\ \A j \in 1 .. (Len(Push(w, o)) - 1) :
              Push(w, o)[Len(Push(w, o)) - j] = w[Len(w) - j + 1]
<1> USE MaxLenFacts
<1>1. CASE Len(w) = MaxLen
  <2>1. /\ Tail(w) \in Seq(Offset)
        /\ Len(Tail(w)) = Len(w) - 1
        /\ \A i \in 1 .. (Len(w) - 1) : Tail(w)[i] = w[i + 1]
    BY <1>1
  <2>2. Push(w, o) = Append(Tail(w), o)
    BY <1>1 DEF Push
  <2>3. QED
    BY <1>1, <2>1, <2>2
<1>2. CASE Len(w) # MaxLen
  BY <1>2 DEF Push
<1>3. QED
  BY <1>1, <1>2

\* A run in the new window is the new reading after a run in the old one.
LEMMA PushSustained ==
  ASSUME NEW w \in Seq(Offset), Len(w) <= MaxLen, NEW o \in Offset, NEW S,
         NEW k \in 1 .. (MaxLen - 1)
  PROVE  Sustained(Push(w, o), k, S)
           <=> o \in S /\ (k = 1 \/ Sustained(w, k - 1, S))
<1> DEFINE p == Push(w, o)
           n == Len(w)
           m == Len(p)
<1>1. /\ p \in Seq(Offset)
      /\ m = IF n = MaxLen THEN n ELSE n + 1
      /\ p[m] = o
      /\ \A j \in 1 .. (m - 1) : p[m - j] = w[n - j + 1]
  BY PushFacts
<1>2. n \in Nat /\ m \in Nat /\ MaxLen \in Nat
  BY <1>1, MaxLenFacts
<1>3. ASSUME NEW j \in 1 .. (m - 1) PROVE p[m - j] = w[n - (j - 1)]
  BY <1>1, <1>2, n - j + 1 = n - (j - 1)
<1>4. ASSUME Sustained(p, k, S)
      PROVE  o \in S /\ (k = 1 \/ Sustained(w, k - 1, S))
  <2>1. m >= k /\ \A j \in 0 .. (k - 1) : p[m - j] \in S
    BY <1>4 DEF Sustained
  <2>2. o \in S
    BY <2>1, <1>1, <1>2, 0 \in 0 .. (k - 1), m - 0 = m
  <2>3. ASSUME k # 1, NEW j \in 0 .. ((k - 1) - 1) PROVE w[n - j] \in S
    <3>1. j + 1 \in 1 .. (m - 1) /\ j + 1 \in 0 .. (k - 1) /\ (j + 1) - 1 = j
      BY <2>1, <1>2
    <3>2. QED
      BY <3>1, <2>1, <1>3
  <2>4. n >= k - 1
    BY <2>1, <1>1, <1>2
  <2>5. QED
    BY <2>2, <2>3, <2>4 DEF Sustained
<1>5. ASSUME o \in S, k = 1 \/ Sustained(w, k - 1, S)
      PROVE  Sustained(p, k, S)
  <2>1. m >= k
    BY <1>1, <1>2, <1>5, MaxLenFacts DEF Sustained
  <2>2. ASSUME NEW j \in 0 .. (k - 1) PROVE p[m - j] \in S
    <3>1. CASE j = 0
      BY <3>1, <1>1, <1>2, <1>5, m - 0 = m
    <3>2. CASE j # 0
      <4>1. j \in 1 .. (m - 1) /\ j - 1 \in 0 .. ((k - 1) - 1) /\ k # 1
        BY <3>2, <2>1, <1>2
      <4>2. QED
        BY <4>1, <1>3, <1>5 DEF Sustained
    <3>3. QED
      BY <3>1, <3>2
  <2>3. QED
    BY <2>1, <2>2 DEF Sustained
<1>6. QED
  BY <1>4, <1>5

-----------------------------------------------------------------------------
(* Types.                                                                  *)

LEMMA ClassificationTypes ==
  ASSUME NEW w, NEW current \in Status, NEW ms
  PROVE  Classify(w, current) \in Status /\ ClassifyForThreshold(w, ms) \in Status
BY DEF Classify, ClassifyForThreshold, Status

\* Every step of the composed specification is a step of the engine.
LEMMA EngineSteps ==
  ASSUME [HNext]_vars
  PROVE  [Next]_engineVars
BY DEF HNext, HRecord, HCurrentStatus, HRegisterVariant, HTick, Next, vars

LEMMA RecordType ==
  ASSUME TypeOK, NEW o \in Offset, Record(o)
  PROVE  TypeOK'
<1> DEFINE w == Push(window, o)
           newVariant == [v \in Variant |->
                            IF v \in Registered THEN ClassifyForThreshold(w, precision[v])
                            ELSE variantStatus[v]]
<1>1. window' = w /\ w \in Seq(Offset) /\ Len(w) <= MaxLen
  BY PushFacts, MaxLenFacts DEF TypeOK, Record
<1>2. status' \in Status
  BY ClassificationTypes DEF TypeOK, Record
<1>3. newVariant \in [Variant -> Status] /\ variantStatus' = newVariant
  BY ClassificationTypes DEF TypeOK, Record
<1>4. silence' = 0 /\ precision' = precision
  BY DEF Record
<1>5. QED
  BY <1>1, <1>2, <1>3, <1>4, ThresholdsAssumption DEF TypeOK

LEMMA TypeStep == TypeOK /\ [Next]_engineVars => TypeOK'
<1> SUFFICES ASSUME TypeOK, [Next]_engineVars PROVE TypeOK'
  OBVIOUS
<1> USE ThresholdsAssumption
<1>1. ASSUME NEW o \in Offset, Record(o) PROVE TypeOK'
  BY <1>1, RecordType
<1>2. CASE CurrentStatus
  BY <1>2 DEF CurrentStatus, TypeOK, Status
<1>3. ASSUME NEW v \in Variant, NEW p \in Precision, RegisterVariant(v, p)
      PROVE  TypeOK'
  BY <1>3 DEF RegisterVariant, TypeOK, Status
<1>4. CASE Tick
  BY <1>4 DEF Tick, TypeOK
<1>5. CASE UNCHANGED engineVars
  BY <1>5 DEF engineVars, TypeOK
<1>6. QED
  BY <1>1, <1>2, <1>3, <1>4, <1>5 DEF Next

(* Type correctness: the window never outgrows its deque and every status   *)
(* is one of the five of SyncStatus, for all thresholds and offsets.        *)
THEOREM TypeCorrect == HSpec => []TypeOK
<1>1. HInit => TypeOK
  BY ThresholdsAssumption, MaxLenFacts DEF HInit, Init, TypeOK, Status
<1>2. TypeOK /\ [HNext]_vars => TypeOK'
  BY EngineSteps, TypeStep
<1>3. QED
  BY <1>1, <1>2, PTL DEF HSpec

-----------------------------------------------------------------------------
(* The status against the window.                                          *)

LEMMA OverWithin ==
  ASSUME NEW o \in Offset
  PROVE  /\ o \in Over(WarnMs) <=> o \notin Within(WarnMs)
         /\ o \in Over(AlertMs) => o \in Over(WarnMs)
         /\ o \in Over(LostMs) => o \in Over(AlertMs)
BY ThresholdsAssumption DEF Over, Within, Magnitude

\* A sustained run includes the newest reading.
LEMMA SustainedNewest ==
  ASSUME NEW w \in Seq(Offset), NEW S, NEW n \in Nat \ {0}, Sustained(w, n, S)
  PROVE  w[Len(w)] \in S /\ Len(w) \in 1 .. Len(w)
BY 0 \in 0 .. (n - 1), Len(w) - 0 = Len(w) DEF Sustained

LEMMA DecisiveStep ==
  ASSUME TypeOK, DecisiveWindow, [Next]_engineVars
  PROVE  DecisiveWindow'
<1> USE MaxLenFacts
<1>1. ASSUME NEW o \in Offset, Record(o) PROVE DecisiveWindow'
  <2> DEFINE w == Push(window, o)
  <2>1. w \in Seq(Offset) /\ window' = w /\ status' = Classify(w, status)
    BY <1>1, PushFacts DEF Record, TypeOK
  <2>2. w[Len(w)] = o
    BY PushFacts DEF TypeOK
  <2>3. ASSUME Sustained(w, HealthyRequired, Within(WarnMs))
        PROVE  /\ ~Sustained(w, DriftRequired, Over(AlertMs))
               /\ ~Sustained(w, DriftRequired, Over(WarnMs))
               /\ w[Len(w)] \notin Over(LostMs)
    BY <2>1, <2>2, <2>3, SustainedNewest, OverWithin
  <2>4. ASSUME Sustained(w, DriftRequired, Over(AlertMs))
        PROVE  Sustained(w, DriftRequired, Over(WarnMs))
    <3>1. Over(AlertMs) \subseteq Over(WarnMs)
      BY OverWithin DEF Over
    <3>2. QED
      BY <2>4, <3>1 DEF Sustained
  <2>5. QED
    BY <2>1, <2>3, <2>4 DEF DecisiveWindow, Classify
<1>2. CASE CurrentStatus
  BY <1>2 DEF CurrentStatus, DecisiveWindow
<1>3. ASSUME NEW v \in Variant, NEW p \in Precision, RegisterVariant(v, p)
      PROVE  DecisiveWindow'
  BY <1>3 DEF RegisterVariant, DecisiveWindow
<1>4. CASE Tick
  BY <1>4 DEF Tick, DecisiveWindow
<1>5. CASE UNCHANGED engineVars
  BY <1>5 DEF engineVars, DecisiveWindow
<1>6. QED
  BY <1>1, <1>2, <1>3, <1>4, <1>5 DEF Next

(* Decisive readings always show in the global status.                      *)
THEOREM StatusFollowsDecisiveWindow == HSpec => []DecisiveWindow
<1>1. HInit => DecisiveWindow
  BY DEF HInit, Init, DecisiveWindow
<1>2. TypeOK /\ DecisiveWindow /\ [HNext]_vars => DecisiveWindow'
  BY EngineSteps, DecisiveStep
<1>3. QED
  BY <1>1, <1>2, TypeCorrect, PTL DEF HSpec

LEMMA VariantStep ==
  ASSUME TypeOK, VariantPrecisionKept, [Next]_engineVars
  PROVE  VariantPrecisionKept'
<1> SUFFICES ASSUME NEW u \in Variant, precision'[u] # NoPrecision,
                    variantStatus'[u] = "healthy"
             PROVE  Sustained(window', HealthyRequired, Within(precision'[u]))
  BY DEF VariantPrecisionKept, Registered, Within
<1>1. ASSUME NEW o \in Offset, Record(o)
      PROVE  Sustained(window', HealthyRequired, Within(precision'[u]))
  BY <1>1 DEF Record, Registered, ClassifyForThreshold
<1>2. CASE CurrentStatus
  BY <1>2 DEF CurrentStatus, VariantPrecisionKept, Registered
<1>3. ASSUME NEW v \in Variant, NEW p \in Precision, RegisterVariant(v, p)
      PROVE  Sustained(window', HealthyRequired, Within(precision'[u]))
  BY <1>3 DEF RegisterVariant, VariantPrecisionKept, Registered, TypeOK
<1>4. CASE Tick
  BY <1>4 DEF Tick, VariantPrecisionKept, Registered
<1>5. CASE UNCHANGED engineVars
  BY <1>5 DEF engineVars, VariantPrecisionKept, Registered
<1>6. QED
  BY <1>1, <1>2, <1>3, <1>4, <1>5 DEF Next

(* A variant is healthy only on readings within its own precision.          *)
THEOREM VariantHealthIsEarned == HSpec => []VariantPrecisionKept
<1>1. HInit => VariantPrecisionKept
  BY DEF HInit, Init, VariantPrecisionKept, Registered
<1>2. TypeOK /\ VariantPrecisionKept /\ [HNext]_vars => VariantPrecisionKept'
  BY EngineSteps, VariantStep
<1>3. QED
  BY <1>1, <1>2, TypeCorrect, PTL DEF HSpec

-----------------------------------------------------------------------------
(* The window implements the run lengths.                                  *)

\* run, capped at n, is the length of the run of readings in S at the end of w.
Measures(run, n, w, S) ==
  /\ run \in 0 .. n
  /\ \A k \in 1 .. n : run >= k <=> Sustained(w, k, S)

Coupling ==
  /\ Measures(goodRun, HealthyRequired, window, Within(WarnMs))
  /\ Measures(warnRun, DriftRequired, window, Over(WarnMs))
  /\ Measures(alertRun, DriftRequired, window, Over(AlertMs))

LEMMA MeasuresPush ==
  ASSUME NEW w \in Seq(Offset), Len(w) <= MaxLen, NEW o \in Offset, NEW S,
         NEW n \in 1 .. (MaxLen - 1), NEW run, Measures(run, n, w, S)
  PROVE  Measures(Tiers!Extend(run, o \in S, n), n, Push(w, o), S)
<1> DEFINE new == Tiers!Extend(run, o \in S, n)
<1>1. run \in 0 .. n /\ \A k \in 1 .. n : run >= k <=> Sustained(w, k, S)
  BY DEF Measures
<1>2. new \in 0 .. n
  BY <1>1, MaxLenFacts DEF Tiers!Extend
<1>3. ASSUME NEW k \in 1 .. n
      PROVE  new >= k <=> Sustained(Push(w, o), k, S)
  <2>1. Sustained(Push(w, o), k, S) <=> o \in S /\ (k = 1 \/ Sustained(w, k - 1, S))
    <3>1. k \in 1 .. (MaxLen - 1)
      BY MaxLenFacts
    <3>2. QED
      BY <3>1, PushSustained
  <2>2. k # 1 => (run >= k - 1 <=> Sustained(w, k - 1, S))
    BY <1>1, k # 1 => k - 1 \in 1 .. n
  <2>3. CASE o \notin S
    BY <2>1, <2>3 DEF Tiers!Extend
  <2>4. CASE o \in S
    <3>1. new = IF run < n THEN run + 1 ELSE n
      BY <1>1, <2>4, MaxLenFacts DEF Tiers!Extend
    <3>2. new >= k <=> k = 1 \/ run >= k - 1
      BY <3>1, <1>1, MaxLenFacts
    <3>3. QED
      BY <3>2, <2>1, <2>2, <2>4
  <2>5. QED
    BY <2>3, <2>4
<1>4. QED
  BY <1>2, <1>3 DEF Measures

LEMMA CouplingStep ==
  ASSUME TypeOK, Coupling, [HNext]_vars
  PROVE  Coupling'
<1>1. ASSUME NEW o \in Offset, HRecord(o) PROVE Coupling'
  <2>1. window' = Push(window, o)
    BY <1>1 DEF HRecord, Record
  <2>2. /\ HealthyRequired \in 1 .. (MaxLen - 1)
        /\ DriftRequired \in 1 .. (MaxLen - 1)
    BY MaxLenFacts
  <2>3. /\ Measures(goodRun', HealthyRequired, window', Within(WarnMs))
        /\ Measures(warnRun', DriftRequired, window', Over(WarnMs))
        /\ Measures(alertRun', DriftRequired, window', Over(AlertMs))
    BY <1>1, <2>1, <2>2, MeasuresPush DEF TypeOK, Coupling, HRecord
  <2>4. QED
    BY <2>3 DEF Coupling, Measures, Sustained, Within, Over
<1>2. ASSUME UNCHANGED <<window, goodRun, warnRun, alertRun>> PROVE Coupling'
  BY <1>2 DEF Coupling, Measures, Sustained, Within, Over
<1>3. QED
  BY <1>1, <1>2 DEF HNext, HCurrentStatus, CurrentStatus, HRegisterVariant,
                    RegisterVariant, HTick, Tick, historyVars, vars, engineVars

LEMMA CouplingHolds == HSpec => []Coupling
<1>1. HInit => Coupling
  BY MaxLenFacts DEF HInit, Init, Coupling, Measures, Sustained
<1>2. TypeOK /\ Coupling /\ [HNext]_vars => Coupling'
  BY CouplingStep
<1>3. QED
  BY <1>1, <1>2, TypeCorrect, PTL DEF HSpec

\* The tests of _classify, restated on the run lengths.
LEMMA CoupledClassify ==
  ASSUME NEW w \in Seq(Offset), NEW good, NEW warn, NEW alert, NEW current,
         NEW o \in Offset, w[Len(w)] = o,
         Measures(good, HealthyRequired, w, Within(WarnMs)),
         Measures(warn, DriftRequired, w, Over(WarnMs)),
         Measures(alert, DriftRequired, w, Over(AlertMs))
  PROVE  Classify(w, current) =
           IF Tiers!Size(o) > LostMs THEN "sync_lost"
           ELSE IF alert = DriftRequired THEN "drift_alert"
           ELSE IF warn = DriftRequired THEN "drift_warn"
           ELSE IF good = HealthyRequired THEN "healthy"
           ELSE current
<1> USE MaxLenFacts
<1>1. o \in Over(LostMs) <=> Tiers!Size(o) > LostMs
  BY DEF Over, Magnitude, Tiers!Size
<1>2. /\ alert = DriftRequired <=> Sustained(w, DriftRequired, Over(AlertMs))
      /\ warn = DriftRequired <=> Sustained(w, DriftRequired, Over(WarnMs))
      /\ good = HealthyRequired <=> Sustained(w, HealthyRequired, Within(WarnMs))
  BY DriftRequired \in 1 .. DriftRequired, HealthyRequired \in 1 .. HealthyRequired
     DEF Measures
<1>3. QED
  BY <1>1, <1>2 DEF Classify

LEMMA TierStep ==
  ASSUME TypeOK, Coupling, [HNext]_vars
  PROVE  [Tiers!TiersNext]_(Tiers!tierVars)
<1> USE MaxLenFacts
<1>1. ASSUME NEW o \in Offset, HRecord(o) PROVE Tiers!Reading(o)
  <2>1. /\ window' = Push(window, o)
        /\ status' = Classify(window', status)
        /\ silence' = 0
    BY <1>1 DEF HRecord, Record
  <2>2. window' \in Seq(Offset) /\ window'[Len(window')] = o /\ window' # <<>>
    BY <2>1, PushFacts DEF TypeOK
  <2>3. /\ o \in Within(WarnMs) <=> Tiers!Size(o) <= WarnMs
        /\ o \in Over(WarnMs) <=> Tiers!Size(o) > WarnMs
        /\ o \in Over(AlertMs) <=> Tiers!Size(o) > AlertMs
    BY DEF Within, Over, Magnitude, Tiers!Size
  <2>4. /\ goodRun' = Tiers!Extend(goodRun, Tiers!Size(o) <= WarnMs, HealthyRequired)
        /\ warnRun' = Tiers!Extend(warnRun, Tiers!Size(o) > WarnMs, DriftRequired)
        /\ alertRun' = Tiers!Extend(alertRun, Tiers!Size(o) > AlertMs, DriftRequired)
    BY <1>1, <2>3 DEF HRecord, Tiers!Extend
  <2>5. /\ Measures(goodRun', HealthyRequired, window', Within(WarnMs))
        /\ Measures(warnRun', DriftRequired, window', Over(WarnMs))
        /\ Measures(alertRun', DriftRequired, window', Over(AlertMs))
    BY CouplingStep, <1>1 DEF HNext, Coupling, Measures, Sustained, Within, Over
  <2>6. status' = IF Tiers!Size(o) > LostMs THEN "sync_lost"
                  ELSE IF alertRun' = DriftRequired THEN "drift_alert"
                  ELSE IF warnRun' = DriftRequired THEN "drift_warn"
                  ELSE IF goodRun' = HealthyRequired THEN "healthy"
                  ELSE status
    BY <2>1, <2>2, <2>5, CoupledClassify
  <2>7. (IF window = <<>> THEN -1 ELSE silence)' = 0
    BY <2>1, <2>2
  <2>8. QED
    BY <2>4, <2>6, <2>7 DEF Tiers!Reading
<1>2. ASSUME HCurrentStatus PROVE Tiers!DeclareSilence \/ UNCHANGED Tiers!tierVars
  BY <1>2 DEF HCurrentStatus, CurrentStatus, IsSilent, Tiers!DeclareSilence, Tiers!tierVars
<1>3. ASSUME NEW v \in Variant, NEW p \in Precision, HRegisterVariant(v, p)
      PROVE  UNCHANGED Tiers!tierVars
  BY <1>3 DEF HRegisterVariant, RegisterVariant, historyVars, Tiers!tierVars
<1>4. ASSUME HTick PROVE Tiers!TimePasses
  BY <1>4, ThresholdsAssumption
     DEF HTick, Tick, TypeOK, historyVars, Tiers!TimePasses
<1>5. ASSUME UNCHANGED vars PROVE UNCHANGED Tiers!tierVars
  BY <1>5 DEF vars, engineVars, historyVars, Tiers!tierVars
<1>6. QED
  BY <1>1, <1>2, <1>3, <1>4, <1>5 DEF HNext, Tiers!TiersNext

(* The bounded window is enough: for every threshold and every choice of    *)
(* HealthyRequired and DriftRequired the engine reports, after every        *)
(* reading and every query, the tier that the complete history calls for.   *)
THEOREM EngineImplementsTiers == HSpec => ImplementsTiers
<1>1. HInit => Tiers!TiersInit
  BY DEF HInit, Init, Tiers!TiersInit
<1>2. TypeOK /\ Coupling /\ [HNext]_vars => [Tiers!TiersNext]_(Tiers!tierVars)
  BY TierStep
<1>3. QED
  BY <1>1, <1>2, TypeCorrect, CouplingHolds, PTL
     DEF HSpec, ImplementsTiers, Tiers!TiersSpec

-----------------------------------------------------------------------------
(* Recovery from a bad reading.                                            *)

\* A degraded status entered by a reading keeps that reading in the window, at
\* its age, until HealthyRequired more have been recorded.
EntryReadingRemembered ==
  /\ sinceEntry \in 0 .. HealthyRequired
  /\ (status \in Degraded /\ entry = "reading" /\ sinceEntry < HealthyRequired)
       => /\ Len(window) > sinceEntry
          /\ window[Len(window) - sinceEntry] \in Over(WarnMs)

\* A reading that brings a degraded status is itself over the warn threshold.
LEMMA EntryReadingIsBad ==
  ASSUME NEW w \in Seq(Offset), NEW o \in Offset, w[Len(w)] = o,
         NEW current \in Status, Classify(w, current) # current,
         Classify(w, current) \in Degraded
  PROVE  o \in Over(WarnMs)
<1> USE MaxLenFacts
<1>1. CASE w[Len(w)] \in Over(LostMs)
  BY <1>1, OverWithin
<1>2. CASE Sustained(w, DriftRequired, Over(AlertMs))
  BY <1>2, SustainedNewest, OverWithin
<1>3. CASE Sustained(w, DriftRequired, Over(WarnMs))
  BY <1>3, SustainedNewest
<1>4. QED
  BY <1>1, <1>2, <1>3 DEF Classify, Degraded

LEMMA EntryStep ==
  ASSUME TypeOK, EntryReadingRemembered, [HNext]_vars
  PROVE  EntryReadingRemembered'
<1> USE MaxLenFacts
<1>1. ASSUME NEW o \in Offset, HRecord(o) PROVE EntryReadingRemembered'
  <2> DEFINE w == Push(window, o)
  <2>1. /\ window' = w
        /\ w \in Seq(Offset)
        /\ w[Len(w)] = o
        /\ Len(w) = IF Len(window) = MaxLen THEN Len(window) ELSE Len(window) + 1
        /\ \A j \in 1 .. (Len(w) - 1) : w[Len(w) - j] = window[Len(window) - j + 1]
    BY <1>1, PushFacts DEF HRecord, Record, TypeOK
  <2>2. status' = Classify(w, status)
    BY <1>1 DEF HRecord, Record
  <2>3. sinceEntry' = IF status' # status THEN 0
                      ELSE IF sinceEntry < HealthyRequired THEN sinceEntry + 1
                      ELSE HealthyRequired
    BY <1>1 DEF HRecord, EntryCap, Tiers!Extend
  <2>4. CASE status' # status
    <3>1. sinceEntry' = 0 /\ Len(w) > 0 /\ Len(w) - 0 = Len(w)
      BY <2>1, <2>3, <2>4 DEF TypeOK
    <3>2. status' \in Degraded => o \in Over(WarnMs)
      BY <2>1, <2>2, <2>4, EntryReadingIsBad DEF TypeOK
    <3>3. QED
      BY <3>1, <3>2, <2>1 DEF EntryReadingRemembered, Over
  <2>5. CASE status' = status
    <3>1. entry' = entry /\ sinceEntry' \in 0 .. HealthyRequired
      BY <1>1, <2>3, <2>5 DEF HRecord, EntryReadingRemembered
    <3>2. ASSUME status' \in Degraded, entry' = "reading",
                 sinceEntry' < HealthyRequired
          PROVE  Len(w) > sinceEntry' /\ w[Len(w) - sinceEntry'] \in Over(WarnMs)
      <4>1. sinceEntry' = sinceEntry + 1 /\ sinceEntry < HealthyRequired
        BY <2>3, <2>5, <3>2 DEF EntryReadingRemembered
      <4>2. /\ Len(window) > sinceEntry
            /\ window[Len(window) - sinceEntry] \in Over(WarnMs)
        BY <4>1, <3>1, <3>2, <2>5 DEF EntryReadingRemembered
      <4>3. sinceEntry' \in 1 .. (Len(w) - 1)
        BY <4>1, <4>2, <2>1, <3>2 DEF EntryReadingRemembered, TypeOK
      <4>4. Len(window) - sinceEntry' + 1 = Len(window) - sinceEntry
        BY <4>1 DEF EntryReadingRemembered, TypeOK
      <4>5. w[Len(w) - sinceEntry'] = window[Len(window) - sinceEntry' + 1]
        BY <4>3, <2>1
      <4>6. Len(w) > sinceEntry'
        BY <4>3, <2>1 DEF TypeOK
      <4>7. QED
        BY <4>2, <4>4, <4>5, <4>6
    <3>3. QED
      BY <3>1, <3>2, <2>1 DEF EntryReadingRemembered, Over
  <2>6. QED
    BY <2>4, <2>5
<1>2. CASE HCurrentStatus
  BY <1>2 DEF HCurrentStatus, CurrentStatus, EntryReadingRemembered, Over
<1>3. ASSUME UNCHANGED <<window, status, entry, sinceEntry>>
      PROVE  EntryReadingRemembered'
  BY <1>3 DEF EntryReadingRemembered, Over
<1>4. QED
  BY <1>1, <1>2, <1>3 DEF HNext, HRegisterVariant, RegisterVariant, HTick, Tick,
                          historyVars, vars, engineVars

(* A drift or lost verdict brought by a reading is never cleared before     *)
(* HealthyRequired further readings, whatever the thresholds.               *)
THEOREM RecoveryTakesHealthyRequired == HSpec => RecoveryIsSustained
<1>1. HInit => EntryReadingRemembered
  BY MaxLenFacts DEF HInit, Init, EntryReadingRemembered, Degraded
<1>2. TypeOK /\ EntryReadingRemembered /\ [HNext]_vars => EntryReadingRemembered'
  BY EntryStep
<1>3. TypeOK /\ EntryReadingRemembered /\ [HNext]_vars
        => [(status \in Degraded /\ entry = "reading" /\ status' = "healthy")
              => sinceEntry + 1 >= HealthyRequired]_vars
  <2> SUFFICES ASSUME TypeOK, EntryReadingRemembered, [HNext]_vars,
                      status \in Degraded, entry = "reading", status' = "healthy",
                      ~(sinceEntry + 1 >= HealthyRequired)
               PROVE  FALSE
    OBVIOUS
  <2>1. /\ sinceEntry \in Nat /\ sinceEntry + 1 < HealthyRequired
        /\ Len(window) > sinceEntry
        /\ window[Len(window) - sinceEntry] \in Over(WarnMs)
    BY MaxLenFacts DEF EntryReadingRemembered
  <2>2. status # status'
    BY DEF Degraded
  <2>3. PICK o \in Offset : HRecord(o)
    BY <2>2 DEF HNext, HCurrentStatus, CurrentStatus, HRegisterVariant,
                RegisterVariant, HTick, Tick, vars, engineVars
  <2> DEFINE w == Push(window, o)
  <2>4. /\ w \in Seq(Offset) /\ Len(w) > sinceEntry + 1
        /\ w[Len(w) - (sinceEntry + 1)] = window[Len(window) - sinceEntry]
    <3>1. /\ w \in Seq(Offset)
          /\ Len(w) = IF Len(window) = MaxLen THEN Len(window) ELSE Len(window) + 1
          /\ \A j \in 1 .. (Len(w) - 1) : w[Len(w) - j] = window[Len(window) - j + 1]
      BY PushFacts DEF TypeOK
    <3>2. sinceEntry + 1 \in 1 .. (Len(w) - 1)
      BY <3>1, <2>1, MaxLenFacts DEF TypeOK
    <3>3. Len(window) - (sinceEntry + 1) + 1 = Len(window) - sinceEntry
      BY <2>1 DEF TypeOK
    <3>4. QED
      BY <3>1, <3>2, <3>3
  <2>5. Classify(w, status) = "healthy"
    BY <2>3 DEF HRecord, Record
  <2>6. Sustained(w, HealthyRequired, Within(WarnMs))
    BY <2>5 DEF Classify, Degraded
  <2>7. w[Len(w) - (sinceEntry + 1)] \in Within(WarnMs)
    BY <2>6, <2>1, MaxLenFacts, sinceEntry + 1 \in 0 .. (HealthyRequired - 1)
       DEF Sustained
  <2>8. QED
    BY <2>1, <2>4, <2>7, OverWithin DEF Over
<1>4. QED
  BY <1>1, <1>2, <1>3, TypeCorrect, PTL DEF HSpec, RecoveryIsSustained
=============================================================================

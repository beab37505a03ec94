------------------------- MODULE RosterRuntimeProofs -------------------------
(***************************************************************************)
(* Proofs about RosterRuntime, for any number of instances, variants and   *)
(* entries.                                                                *)
(*                                                                         *)
(* SettledMatchesRoster speaks of the consumer at rest only.  It becomes   *)
(* inductive when it is followed through the application of a snapshot:    *)
(* once the removals are over, every bound instance is one that the        *)
(* snapshot keeps where it is, and every other instance of the snapshot    *)
(* is still to do, at hand, or reported as failed (InForce).               *)
(***************************************************************************)
EXTENDS RosterRuntime, TLAPS

Binding == {"waiting", "binding"} \cup MidBind
Opening == {"registering", "loading", "connecting", "listening"}

Wanted == {i \in Instance : desired[i] # NoEntry}

\* The snapshot has been carried out but for todo and current.
InForce ==
  step \in Binding =>
    /\ \A i \in BoundSet : Addr(bound[i]) = Addr(desired[i])
    /\ BoundSet \subseteq Wanted \ (todo \cup failed \cup {current})
    /\ current \notin todo \cup failed
    /\ todo \cap failed = {}
    /\ Wanted \subseteq BoundSet \cup todo \cup failed \cup {current}

\* What is between instances and between snapshots.
Bounds ==
  /\ step = "waiting" => todo = {}
  /\ step \in {"removing", "closing"} /\ Alive => failed = {}
  /\ step \in Binding => todo \subseteq Wanted

\* The entry at hand can be bound, and so far everything it needs is there.
AtHand ==
  /\ step \in Opening => desired[current] # NoEntry /\ Bindable(desired[current])
  /\ step \in Opening \ {"registering"} => desired[current].variant \in registered
  /\ step \in {"connecting", "listening"} => desired[current].variant \in parsers

IInv == RosterTypeOK /\ InForce /\ Bounds /\ AtHand /\ BoundIsReady

LEMMA InitIInv == Init => IInv
  BY RosterAssumption DEF Init, IInv, RosterTypeOK, InForce, Bounds, AtHand, BoundIsReady,
       BoundSet, Wanted, Rosters, Binding, Opening, MidBind, Steps

LEMMA NextIInv == IInv /\ [Next]_vars => IInv'
<1> SUFFICES ASSUME IInv, [Next]_vars PROVE IInv'
  OBVIOUS
<1> USE RosterAssumption DEF IInv
<1>1. ASSUME NEW r \in Rosters, Deliver(r) PROVE IInv'
  BY <1>1 DEF Deliver, catalogue, RosterTypeOK, InForce, Bounds, AtHand, BoundIsReady,
       BoundSet, Rosters, Binding, Opening, MidBind, Steps
<1>2. ASSUME NEW i \in Instance, Remove(i) PROVE IInv'
  BY <1>2 DEF Remove, Teardown, Victims, catalogue, RosterTypeOK, InForce, Bounds, AtHand,
       BoundIsReady, BoundSet, Rosters, Binding, Opening, MidBind, Steps, Alive
<1>3. ASSUME Closed PROVE IInv'
  BY <1>3 DEF Closed, catalogue, RosterTypeOK, InForce, Bounds, AtHand, BoundIsReady,
       BoundSet, Binding, Opening, MidBind, Steps, Alive
<1>4. ASSUME StartBinding PROVE IInv'
  BY <1>4 DEF StartBinding, Victims, Missing, catalogue, RosterTypeOK, InForce, Bounds,
       AtHand, BoundIsReady, BoundSet, Wanted, Binding, Opening, MidBind, Steps
<1>5. ASSUME NEW i \in Instance, Bind(i) PROVE IInv'
  BY <1>5 DEF Bind, catalogue, RosterTypeOK, InForce, Bounds, AtHand, BoundIsReady,
       BoundSet, Wanted, Binding, Opening, MidBind, Steps
<1>6. CASE Registered
  BY <1>6 DEF Registered, catalogue, RosterTypeOK, InForce, Bounds, AtHand, BoundIsReady,
       Bindable, BoundSet, Wanted, Binding, Opening, MidBind, Steps
<1>7. CASE RegistrationFails
  BY <1>7 DEF RegistrationFails, MaybeAnnounced, RosterTypeOK, InForce, Bounds, AtHand, BoundIsReady,
       Bindable, BoundSet, Wanted, Binding, Opening, MidBind, Steps
<1>8. CASE LoadParser
  BY <1>8 DEF LoadParser, RosterTypeOK, InForce, Bounds, AtHand, BoundIsReady,
       Bindable, BoundSet, Wanted, Binding, Opening, MidBind, Steps
<1>9. CASE LoadFails \/ Connect \/ ListenFails
  BY <1>9 DEF LoadFails, Connect, ListenFails, catalogue, RosterTypeOK, InForce, Bounds,
       AtHand, BoundIsReady, BoundSet, Wanted, Binding, Opening, MidBind, Steps
<1>10. CASE Listen
  <2>1. /\ current \in Instance /\ desired[current] \in Entry
        /\ bound' \in Rosters /\ bound'[current] = desired[current]
        /\ \A i \in Instance \ {current} : bound'[i] = bound[i]
    BY <1>10 DEF Listen, RosterTypeOK, AtHand, Opening, MidBind, Rosters
  <2>2. BoundSet' = BoundSet \cup {current}
    BY <2>1 DEF BoundSet
  <2>3. RosterTypeOK'
    BY <1>10, <2>1 DEF Listen, catalogue, RosterTypeOK, Binding, MidBind, Steps
  <2>4. InForce'
    <3>1. /\ step \in Binding /\ desired' = desired /\ todo' = todo /\ failed' = failed
          /\ current' = NoInstance /\ current \in Wanted /\ current \notin todo \cup failed
      BY <1>10, <2>1 DEF Listen, Binding, MidBind, Wanted, InForce, AtHand, Opening, Bounds
    <3>2. \A i \in BoundSet' : Addr(bound'[i]) = Addr(desired'[i])
      BY <2>1, <2>2, <3>1 DEF InForce, BoundSet
    <3>3. /\ BoundSet' \subseteq Wanted \ (todo \cup failed \cup {NoInstance})
          /\ Wanted \subseteq BoundSet' \cup todo \cup failed
      BY <2>2, <3>1 DEF InForce, Wanted
    <3>4. NoInstance \notin todo \cup failed /\ todo \cap failed = {} /\ Wanted' = Wanted
      BY <3>1 DEF InForce, RosterTypeOK, Wanted
    <3>5. QED
      BY <3>1, <3>2, <3>3, <3>4 DEF InForce
  <2>5. Bounds' /\ AtHand'
    BY <1>10, <2>1 DEF Listen, Bounds, AtHand, Wanted, Binding, Opening, MidBind
  <2>6. BoundIsReady'
    BY <1>10, <2>1, <2>2 DEF Listen, catalogue, BoundIsReady, AtHand, BoundSet, Opening
  <2>7. QED
    BY <2>3, <2>4, <2>5, <2>6
<1>11. CASE Report \/ ReportFails \/ Applied
  BY <1>11 DEF Report, ReportFails, Applied, catalogue, RosterTypeOK, InForce, Bounds,
       AtHand, BoundIsReady, BoundSet, Wanted, Binding, Opening, MidBind, Steps
<1>12. CASE RequestStop \/ Abort \/ Stopped
  BY <1>12 DEF RequestStop, Abort, Stopped, catalogue, RosterTypeOK, InForce, Bounds,
       AtHand, BoundIsReady, BoundSet, Wanted, Binding, Opening, MidBind, Steps, Alive
<1>13. CASE Cancel
  BY <1>13 DEF Cancel, MaybeAnnounced, Bindable, RosterTypeOK, InForce, Bounds, AtHand, BoundIsReady,
       BoundSet, Binding, Opening, MidBind, Steps, Suspended, Alive
<1>14. ASSUME NEW i \in Instance, Drain(i) PROVE IInv'
  BY <1>14 DEF Drain, Teardown, catalogue, RosterTypeOK, InForce, Bounds, AtHand,
       BoundIsReady, BoundSet, Rosters, Binding, Opening, MidBind, Steps, Alive
<1>15. ASSUME NEW i \in Instance, PeerConnects(i) \/ PeerLeaves(i) PROVE IInv'
  BY <1>15 DEF PeerConnects, PeerLeaves, catalogue, RosterTypeOK, InForce, Bounds, AtHand,
       BoundIsReady, BoundSet, Wanted, Binding, Opening, MidBind, Steps, Alive
<1>16. CASE UNCHANGED vars
  BY <1>16 DEF vars, catalogue, RosterTypeOK, InForce, Bounds, AtHand, BoundIsReady,
       BoundSet, Wanted, Alive
<1>17. QED
  BY <1>1, <1>2, <1>3, <1>4, <1>5, <1>6, <1>7, <1>8, <1>9, <1>10, <1>11, <1>12, <1>13,
     <1>14, <1>15, <1>16 DEF Next, Consumer, Main

LEMMA Inductive == Spec => []IInv
  BY InitIInv, NextIInv, PTL DEF Spec

(* The types hold in every reachable state of the runtime. *)
THEOREM RosterTypeCorrect == Spec => []RosterTypeOK
<1>1. IInv => RosterTypeOK
  BY DEF IInv
<1>2. QED
  BY <1>1, Inductive, PTL

(* For any rosters and any failures, a runtime at rest has bound what its    *)
(* last snapshot asks for (apply_roster).                                    *)
THEOREM RosterIsFollowed == Spec => []SettledMatchesRoster
<1>1. IInv => SettledMatchesRoster
  <2>1. SUFFICES ASSUME IInv, step = "waiting" PROVE SettledMatchesRoster
    BY DEF SettledMatchesRoster
  <2>2. todo = {} /\ current = NoInstance /\ NoInstance \notin Instance
    BY <2>1, RosterAssumption DEF IInv, RosterTypeOK, Bounds, MidBind
  <2>3. /\ BoundSet \subseteq Wanted \ failed
        /\ Wanted \subseteq BoundSet \cup failed
        /\ \A i \in BoundSet : Addr(bound[i]) = Addr(desired[i])
    BY <2>1, <2>2 DEF IInv, InForce, Binding, BoundSet, Wanted
  <2>4. QED
    BY <2>3 DEF SettledMatchesRoster, Wanted
<1>2. QED
  BY <1>1, Inductive, PTL

(* Instances may trade ports: the only instance in the way of a bind is one  *)
(* the snapshot gives the same port (apply_roster's order).                  *)
THEOREM PortsAreFreedFirst == Spec => []PortsFreedFirst
<1>1. IInv => PortsFreedFirst
  BY DEF IInv, InForce, PortsFreedFirst, Binding, MidBind, Wanted, Addr
<1>2. QED
  BY <1>1, Inductive, PTL

(* No instance serves whose variant is unannounced or parser not loaded.     *)
THEOREM BoundInstancesAreReady == Spec => []BoundIsReady
<1>1. IInv => BoundIsReady
  BY DEF IInv
<1>2. QED
  BY <1>1, Inductive, PTL

(* An instance the snapshot keeps survives every step, whatever fails for    *)
(* its siblings.                                                             *)
THEOREM SiblingsAreUntouched == Spec => SiblingsUntouched
<1> DEFINE Kept(i) ==
      phase' # "draining" /\ desired'[i] # NoEntry /\ Addr(desired'[i]) = Addr(bound[i])
        => bound'[i] = bound[i]
<1>1. ASSUME IInv, [Next]_vars PROVE \A i \in BoundSet : Kept(i)
  <2>1. SUFFICES ASSUME NEW i \in BoundSet, bound'[i] # bound[i] PROVE Kept(i)
    OBVIOUS
  <2>2. CASE \E j \in Instance : Remove(j)
    <3>1. PICK j \in Instance : Remove(j)
      BY <2>2
    <3>2. i = j /\ desired' = desired /\ i \in Victims
      BY <1>1, <2>1, <3>1 DEF Remove, Teardown, IInv, RosterTypeOK, Rosters, BoundSet
    <3>3. QED
      BY <3>2 DEF Victims
  <2>3. CASE \E j \in Instance : Drain(j)
    BY <2>3 DEF Drain
  <2>4. CASE Listen
    <3>1. current \notin BoundSet
      BY <1>1, <2>4 DEF Listen, IInv, InForce, Binding, MidBind
    <3>2. QED
      BY <1>1, <2>1, <2>4, <3>1 DEF Listen, IInv, RosterTypeOK, Rosters, BoundSet
  <2>5. QED
    BY <1>1, <2>1, <2>2, <2>3, <2>4
       DEF Next, Consumer, Main, vars, Deliver, Closed, StartBinding, Bind, Registered,
           RegistrationFails, LoadParser, LoadFails, Connect, ListenFails, Report,
           ReportFails, Applied, RequestStop, Cancel, Abort, Stopped, PeerConnects,
           PeerLeaves
<1>2. QED
  BY <1>1, Inductive, PTL DEF Spec, SiblingsUntouched
=============================================================================

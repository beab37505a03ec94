-------------------------- MODULE EditorPanelsProofs --------------------------
(***************************************************************************)
(* Theorems about placement on the map (types, the mode and what belongs    *)
(* to it, what becomes of each placement under re-entrant clicks) and about *)
(* the tree, the panel and the drag handles.                                *)
(***************************************************************************)
EXTENDS EditorPanels, TLAPS

-----------------------------------------------------------------------------
(* Helpers.                                                                 *)

\* Idle and editing are not placing.
LEMMA Modes ==
  /\ "Idle" \notin Kinds /\ "EditingEntity" \notin Kinds
  /\ "Idle" \notin Multipoint /\ Multipoint \subseteq Kinds
  /\ \A k \in Kinds : Minimum[k] \in 1..3
  /\ \A k \in Multipoint : Minimum[k] \in 2..3
BY MapAssumption DEF MapAssumption, Minimum, Multipoint

LEMMA Prefixes ==
  ASSUME NEW S, NEW s \in Seq(S), NEW k \in 0..Len(s)
  PROVE  /\ SubSeq(s, 1, k) \in Seq(S)
         /\ Len(SubSeq(s, 1, k)) = k
         /\ k > 0 => SubSeq(s, 1, k)[k] = s[k]
OBVIOUS

\* The points a double click leaves are places, and the last one is not where
\* it was made.
LEMMA TrimmedPoints ==
  ASSUME MapTypeOK, NEW p \in Points \union {None}, NEW points \in AtDblClick(p)
  PROVE  /\ points \in Seq(Points)
         /\ p # None /\ Len(points) > 0 => points[Len(points)] # p
<1>1. CASE p = None
  BY <1>1 DEF AtDblClick, MapTypeOK
<1>2. CASE p # None
  <2>1. PICK k \in 0..Len(pending) : (k > 0 => pending[k] # p) /\ points = SubSeq(pending, 1, k)
    BY <1>2 DEF AtDblClick, TrimTrailingDuplicates
  <2> QED BY <2>1, Prefixes DEF MapTypeOK
<1> QED BY <1>1, <1>2

LEMMA DblClickPoints ==
  ASSUME MapTypeOK, NEW p \in Points \union {None}, NEW points \in AtDblClick(p),
         mode \in Multipoint
  PROVE  /\ WithDblClick(points, p) \in Seq(Points)
         /\ p # None /\ Len(WithDblClick(points, p)) >= Minimum[mode] =>
              LET s == WithDblClick(points, p) IN s[Len(s)] # s[Len(s) - 1]
<1>1. points \in Seq(Points)
  BY TrimmedPoints
<1>2. Minimum[mode] \in 2..3
  BY Modes
<1>3. CASE p # None /\ Len(points) >= Minimum[mode] - 1
  <2>1. WithDblClick(points, p) = Append(points, p)
    BY <1>3 DEF WithDblClick
  <2>2. Len(points) >= 1 /\ points[Len(points)] # p
    BY <1>1, <1>2, <1>3, TrimmedPoints
  <2>3. /\ Append(points, p) \in Seq(Points) /\ Len(Append(points, p)) = Len(points) + 1
        /\ Append(points, p)[Len(points) + 1] = p
        /\ Append(points, p)[Len(points)] = points[Len(points)]
    BY <1>1, <1>3, <2>2
  <2> QED BY <1>1, <2>1, <2>2, <2>3
<1>4. CASE ~(p # None /\ Len(points) >= Minimum[mode] - 1)
  BY <1>1, <1>2, <1>4 DEF WithDblClick
<1> QED BY <1>3, <1>4

-----------------------------------------------------------------------------
(* Types, and the mode.                                                     *)

\* What a placement in progress can count on.
PlacingInv == Placing => gesture \in Gestures /\ drawn[gesture].ending = "none"

\* Finalizing a shape keeps the types.
LEMMA FinalizeTypes ==
  ASSUME MapTypeOK, PlacingInv, Placing,
         NEW shape \in Seq(Points), NEW ending \in Endings, NEW click \in Points \union {None},
         Finalize(shape, ending, click)
  PROVE  MapTypeOK'
<1> USE DEF MapTypeOK
<1>1. gesture \in Gestures /\ gesture' = gesture /\ gone' = gone /\ editingPath' = editingPath
  BY DEF PlacingInv, Finalize
<1>2. mode' = "Idle" /\ placed' = <<>> /\ preview' \in BOOLEAN /\ pending' = <<>>
  BY DEF Finalize, ReturnToIdle, ModeChanged,
         CreatePlacementPreview, DisposePlacementPreview
<1>3. PICK i \in 1..MaxNumber :
        /\ entities' = [n \in DOMAIN entities \union {<<mode, i>>} |->
                          IF n = <<mode, i>> THEN [shape |-> <<>>, gesture |-> gesture] ELSE entities[n]]
        /\ stack' = <<[at |-> "adding", name |-> <<mode, i>>, gesture |-> gesture,
                       shape |-> shape, click |-> click]>> \o stack
  BY Zenon DEF Finalize
<1>4. <<mode, i>> \in Names
  BY DEF Placing, Names
<1>5. /\ DOMAIN entities' = DOMAIN entities \union {<<mode, i>>}
      /\ entities' \in [DOMAIN entities' -> [shape : Seq(Points), gesture : Gestures]]
  BY <1>1, <1>3
<1>6. stack' \in Seq(Frame)
  <2>1. [at |-> "adding", name |-> <<mode, i>>, gesture |-> gesture,
         shape |-> shape, click |-> click] \in Frame
    BY <1>1, <1>4 DEF Frame
  <2> QED BY <1>3, <2>1
<1>7. drawn' \in [Gestures -> [shape : Seq(Points), ending : Endings]]
  BY <1>1 DEF Finalize
<1>8. DOMAIN entities' \subseteq Names
  BY <1>4, <1>5
<1>9. /\ mode' \in {"Idle", "EditingEntity"} \union Kinds
      /\ pending' \in Seq(Points) /\ placed' \in Seq(Points) /\ preview' \in BOOLEAN
  BY <1>2
<1> QED
  BY <1>1, <1>5, <1>6, <1>7, <1>8, <1>9

\* The three ways to end a placement come down to Finalize.
Ends(shape, ending, click) ==
  /\ Placing /\ Finalize(shape, ending, click)
  /\ ending # "none"
  /\ ending = "double click" => shape[Len(shape)] # shape[Len(shape) - 1]

Finalizes ==
  \/ \E p \in Points : PlaceFacility(p)
  \/ \E p \in Points \union {None} : DblClickFinalizes(p)
  \/ FinalizePlacement

LEMMA Finalizations ==
  ASSUME MapTypeOK, Finalizes
  PROVE  \E shape \in Seq(Points), ending \in Endings, click \in Points \union {None} :
           Ends(shape, ending, click)
<1>1. CASE \E p \in Points : PlaceFacility(p)
  <2>1. PICK p \in Points : PlaceFacility(p)
    BY <1>1
  <2>2. Ends(<<p>>, "click", p)
    <3>1. Placing
      BY <2>1 DEF PlaceFacility, Placing, MapTypeOK
    <3> QED BY <2>1, <3>1 DEF PlaceFacility, Ends
  <2>3. <<p>> \in Seq(Points) /\ "click" \in Endings /\ p \in Points \union {None}
    BY DEF Endings
  <2> QED BY <2>2, <2>3
<1>2. CASE \E p \in Points \union {None} : DblClickFinalizes(p)
  <2>1. PICK p \in Points \union {None} : DblClickFinalizes(p)
    BY <1>2
  <2>2. PICK points \in AtDblClick(p) :
          /\ mode \in Multipoint
          /\ Len(WithDblClick(points, p)) >= Minimum[mode]
          /\ Finalize(WithDblClick(points, p), IF p = None THEN "off map" ELSE "double click", None)
    BY <2>1 DEF DblClickFinalizes
  <2> DEFINE s == WithDblClick(points, p)
             ending == IF p = None THEN "off map" ELSE "double click"
  <2>3. s \in Seq(Points) /\ (p # None => s[Len(s)] # s[Len(s) - 1])
    BY <2>2, DblClickPoints
  <2>4. ending \in Endings /\ ending # "none" /\ (ending = "double click" => p # None)
    BY DEF Endings
  <2>5. Placing
    BY <2>2, Modes DEF Placing
  <2>6. Finalize(s, ending, None)
    BY <2>2
  <2> HIDE DEF s, ending
  <2> QED BY <2>3, <2>4, <2>5, <2>6 DEF Ends
<1>3. CASE FinalizePlacement
  <2>1. Ends(pending, "Enter", None)
    BY <1>3, Modes DEF FinalizePlacement, Ends, Placing
  <2> QED BY <2>1 DEF MapTypeOK, Endings
<1> QED BY <1>1, <1>2, <1>3 DEF Finalizes

\* Next, the three endings together.
LEMMA Steps ==
  ASSUME [Next]_mapVars
  PROVE  \/ Finalizes
         \/ \E kind \in Kinds : BeginPlace(kind)
         \/ \E path \in DOMAIN entities : StartEditingOnMap(path)
         \/ EndEdit \/ Cancel
         \/ \E p \in Points : AddPoint(p)
         \/ \E p \in Points \union {None} : DblClickGoesOn(p)
         \/ AddReturns \/ UpdateFails \/ UpdateReturns
         \/ \E names \in SUBSET Names : Drop(names)
         \/ NewScenario
         \/ UNCHANGED mapVars
<1>1. ASSUME NEW name \in Names, RemoveEntity(name)
      PROVE  Drop({name})
  BY <1>1 DEF RemoveEntity
<1> QED BY <1>1, Zenon DEF Next, ChangesScenario, Places, Finalizes

LEMMA TypeStep ==
  ASSUME MapTypeOK, PlacingInv, [Next]_mapVars
  PROVE  MapTypeOK'
<1> USE DEF MapTypeOK
<1>1. CASE Finalizes
  <2>1. PICK shape \in Seq(Points), ending \in Endings, click \in Points \union {None} :
          Ends(shape, ending, click)
    BY <1>1, Finalizations
  <2> QED BY <2>1, FinalizeTypes DEF Ends
<1>2. CASE \E kind \in Kinds : BeginPlace(kind)
  <2>1. /\ mode' \in Kinds /\ placed' = <<>> /\ preview' \in BOOLEAN /\ gesture' \in 0..MaxGestures
        /\ pending' = pending \/ pending' = <<>>
        /\ editingPath' = editingPath \/ editingPath' = None
        /\ UNCHANGED <<entities, stack, drawn, gone>>
    BY <1>2, MapAssumption
       DEF BeginPlace, ModeChanged, AfterCancel, MapAssumption,
           CreatePlacementPreview, DisposePlacementPreview
  <2>2. placed' \in Seq(Points) /\ editingPath' \in Names \union {None}
    BY <2>1
  <2>4. pending' \in Seq(Points)
    <3>1. pending \in Seq(Points) /\ <<>> \in Seq(Points)
      OBVIOUS
    <3> QED BY <2>1, <3>1, Zenon
  <2>3. entities' = entities /\ stack' = stack /\ drawn' = drawn /\ gone' = gone
    BY <2>1
  <2> QED BY <2>1, <2>2, <2>3, <2>4
<1>3. CASE \E path \in DOMAIN entities : StartEditingOnMap(path)
  <2>1. /\ mode' = "EditingEntity" /\ editingPath' \in DOMAIN entities
        /\ placed' = <<>> /\ preview' \in BOOLEAN
        /\ pending' = pending \/ pending' = <<>>
        /\ UNCHANGED <<entities, stack, gesture, drawn, gone>>
    BY <1>3
       DEF StartEditingOnMap, ModeChanged, AfterCancel, history,
           CreatePlacementPreview, DisposePlacementPreview
  <2>2. placed' \in Seq(Points) /\ editingPath' \in Names \union {None}
    BY <2>1
  <2>3. pending' \in Seq(Points)
    <3>1. pending \in Seq(Points) /\ <<>> \in Seq(Points)
      OBVIOUS
    <3> QED BY <2>1, <3>1, Zenon
  <2>4. entities' = entities /\ stack' = stack /\ drawn' = drawn /\ gone' = gone
    BY <2>1
  <2> QED BY <2>1, <2>2, <2>3, <2>4
<1>4. CASE EndEdit \/ Cancel
  <2>1. /\ mode' = "Idle" /\ placed' = <<>> /\ preview' \in BOOLEAN /\ pending' = <<>>
        /\ editingPath' = None
        /\ UNCHANGED <<entities, stack, gesture, drawn, gone>>
    BY <1>4
       DEF EndEdit, Cancel, ReturnToIdle, ModeChanged, history,
           CreatePlacementPreview, DisposePlacementPreview
  <2> QED BY <2>1
<1>5. CASE \E p \in Points : AddPoint(p)
  BY <1>5 DEF AddPoint, AppendPlacedPoint, history
<1>6. CASE \E p \in Points \union {None} : DblClickGoesOn(p)
  <2>1. pending' \in Seq(Points)
    BY <1>6, DblClickPoints DEF DblClickGoesOn
  <2> QED BY <1>6, <2>1 DEF DblClickGoesOn, host, history
<1>7. CASE AddReturns
  <2> DEFINE f == Head(stack)
  <2>1. f \in Frame /\ Tail(stack) \in Seq(Frame) /\ f.name \in DOMAIN entities
    BY <1>7 DEF AddReturns, Waiting
  <2>2. /\ entities' = [entities EXCEPT ![f.name].shape = f.shape]
        /\ stack' = <<[f EXCEPT !.at = "updating"]>> \o Tail(stack)
        /\ UNCHANGED <<controller, host, history>>
    BY <1>7 DEF AddReturns
  <2>3. stack' \in Seq(Frame)
    <3>1. [f EXCEPT !.at = "updating"] \in Frame
      BY <2>1 DEF Frame
    <3> QED BY <2>1, <2>2, <3>1
  <2>4. DOMAIN entities' = DOMAIN entities
        /\ entities' \in [DOMAIN entities' -> [shape : Seq(Points), gesture : Gestures]]
    <3>1. f.shape \in Seq(Points)
      BY <2>1 DEF Frame
    <3> QED BY <2>1, <2>2, <3>1
  <2> QED BY <2>2, <2>3, <2>4 DEF controller, host, history
<1>8. CASE UpdateFails \/ UpdateReturns
  <2>1. stack # <<>> /\ stack' = Tail(stack)
    BY <1>8 DEF UpdateFails, UpdateReturns, Waiting
  <2>2. stack' \in Seq(Frame) /\ Head(stack) \in Frame
    BY <2>1
  <2>3. placed' \in Seq(Points)
    <3>1. CASE placed' = placed
      BY <3>1
    <3>2. CASE Head(stack).click # None /\ placed' = Append(placed, Head(stack).click)
      BY <2>2, <3>2 DEF Frame
    <3> QED BY <1>8, <3>1, <3>2 DEF UpdateFails, UpdateReturns, AppendPlacedPoint, host
  <2> QED BY <1>8, <2>2, <2>3 DEF UpdateFails, UpdateReturns, controller, host, history
<1>9. CASE (\E names \in SUBSET Names : Drop(names)) \/ NewScenario
  <2>1. PICK names \in SUBSET Names : Drop(names)
    BY <1>9 DEF NewScenario
  <2>2. DOMAIN entities' = DOMAIN entities \ names
        /\ entities' \in [DOMAIN entities' -> [shape : Seq(Points), gesture : Gestures]]
    BY <2>1 DEF Drop, Restrict
  <2> QED BY <2>1, <2>2 DEF Drop, controller, host
<1>10. CASE UNCHANGED mapVars
  BY <1>10 DEF mapVars, controller, host, history
<1> QED
  BY <1>1, <1>2, <1>3, <1>4, <1>5, <1>6, <1>7, <1>8, <1>9, <1>10, Steps

\* The step keeps the mode's state with the mode.
LEMMA ModeStep ==
  ASSUME MapTypeOK, ModeOwnsItsState, [Next]_mapVars
  PROVE  ModeOwnsItsState'
<1> USE Modes DEF ModeOwnsItsState
<1>1. CASE Finalizes
  <2>1. PICK shape \in Seq(Points), ending \in Endings, click \in Points \union {None} :
          Ends(shape, ending, click)
    BY <1>1, Finalizations
  <2>2. mode' = "Idle" /\ pending' = <<>> /\ editingPath' = editingPath /\ mode \in Kinds
    BY <2>1 DEF Ends, Placing, Finalize, ReturnToIdle, ModeChanged
  <2> QED BY <2>2
<1>2. CASE \E kind \in Kinds : BeginPlace(kind)
  BY <1>2 DEF BeginPlace, ModeChanged, AfterCancel
<1>3. CASE \E path \in DOMAIN entities : StartEditingOnMap(path)
  <2>1. None \notin DOMAIN entities
    BY MapAssumption DEF MapAssumption, MapTypeOK
  <2> QED BY <1>3, <2>1 DEF StartEditingOnMap, ModeChanged, AfterCancel
<1>4. CASE EndEdit \/ Cancel
  BY <1>4 DEF EndEdit, Cancel, ReturnToIdle, ModeChanged
<1>5. CASE \E p \in Points : AddPoint(p)
  BY <1>5 DEF AddPoint
<1>6. CASE \E p \in Points \union {None} : DblClickGoesOn(p)
  BY <1>6 DEF DblClickGoesOn
<1>7. CASE AddReturns \/ UpdateFails \/ UpdateReturns \/ UNCHANGED mapVars
  BY <1>7 DEF AddReturns, UpdateFails, UpdateReturns, mapVars, controller
<1>8. CASE (\E names \in SUBSET Names : Drop(names)) \/ NewScenario
  BY <1>8 DEF NewScenario, Drop, controller
<1> QED
  BY <1>1, <1>2, <1>3, <1>4, <1>5, <1>6, <1>7, <1>8, Steps

-----------------------------------------------------------------------------
(* What becomes of each placement.                                          *)

\* Placements that are not yet ended have nothing drawn and no entity.
Accounts ==
  /\ PlacingInv
  /\ \A g \in Gestures : g > gesture => drawn[g].ending = "none"
  /\ \A n \in DOMAIN entities : drawn[entities[n].gesture].ending # "none"

\* A suspended finalization still has its own shape and, unless the entity was
\* removed, its own entity.
FrameOK(f, d, e, g) ==
  /\ d[f.gesture].ending # "none"
  /\ d[f.gesture].shape = f.shape
  /\ f.at = "adding" /\ f.name \notin g => f.name \in DOMAIN e /\ e[f.name].gesture = f.gesture

Suspended == \A i \in DOMAIN stack : FrameOK(stack[i], drawn, entities, gone)

MapInv ==
  /\ MapTypeOK /\ Accounts /\ Suspended
  /\ OneEntityPerGesture /\ PlacedAsDrawn /\ DblClickEndsOnce

\* Putting an element before a sequence shifts the others by one.
LEMMA Prepended ==
  ASSUME NEW S, NEW s \in Seq(S), NEW x
  PROVE  /\ DOMAIN (<<x>> \o s) = 1..(Len(s) + 1)
         /\ DOMAIN s = 1..Len(s) /\ Len(s) \in Nat
         /\ (<<x>> \o s)[1] = x
         /\ \A j \in DOMAIN s : (<<x>> \o s)[j + 1] = s[j]
  OBVIOUS

LEMMA FinalizeStep ==
  ASSUME MapInv, MapTypeOK',
         NEW shape \in Seq(Points), NEW ending \in Endings, NEW click \in Points \union {None},
         Ends(shape, ending, click)
  PROVE  Accounts' /\ Suspended' /\ OneEntityPerGesture' /\ PlacedAsDrawn' /\ DblClickEndsOnce'
<1> USE DEF MapInv
<1>1. /\ gesture \in Gestures /\ gesture' = gesture /\ gone' = gone /\ drawn[gesture].ending = "none"
      /\ mode' = "Idle"
      /\ drawn' = [drawn EXCEPT ![gesture] = [shape |-> shape, ending |-> ending]]
  BY DEF Ends, Accounts, PlacingInv, Finalize, ReturnToIdle, ModeChanged
<1>2. PICK i \in 1..MaxNumber :
        /\ UniqueName(<<mode, i>>)
        /\ entities' = [n \in DOMAIN entities \union {<<mode, i>>} |->
                          IF n = <<mode, i>> THEN [shape |-> <<>>, gesture |-> gesture] ELSE entities[n]]
        /\ stack' = <<[at |-> "adding", name |-> <<mode, i>>, gesture |-> gesture,
                       shape |-> shape, click |-> click]>> \o stack
  BY Zenon DEF Ends, Finalize
<1> DEFINE name == <<mode, i>>
           f == [at |-> "adding", name |-> name, gesture |-> gesture, shape |-> shape, click |-> click]
<1>3. name \notin DOMAIN entities
  BY <1>2 DEF UniqueName
<1>4. /\ DOMAIN entities' = DOMAIN entities \union {name}
      /\ entities'[name] = [shape |-> <<>>, gesture |-> gesture]
      /\ \A n \in DOMAIN entities : entities'[n] = entities[n]
  BY <1>2, <1>3
<1>5. stack' = <<f>> \o stack
  BY <1>2
<1> HIDE DEF name
<1>6. /\ DOMAIN stack' = 1..(Len(stack) + 1)
      /\ DOMAIN stack = 1..Len(stack) /\ Len(stack) \in Nat
      /\ stack'[1] = f
      /\ \A j \in DOMAIN stack : stack'[j + 1] = stack[j]
  <2>1. stack \in Seq(Frame)
    BY DEF MapTypeOK
  <2> QED BY <1>5, <2>1, Prepended
<1>7. /\ drawn'[gesture] = [shape |-> shape, ending |-> ending]
      /\ \A g \in Gestures : drawn[g].ending # "none" => drawn'[g] = drawn[g]
      /\ \A g \in Gestures : g # gesture => drawn'[g] = drawn[g]
  BY <1>1 DEF MapTypeOK
<1>8. \A n \in DOMAIN entities : entities[n].gesture \in Gestures
  BY DEF MapTypeOK
<1>9. \A j \in DOMAIN stack : stack[j].gesture \in Gestures
  <2>1. \A j \in DOMAIN stack : stack[j] \in Frame
    BY <1>6 DEF MapTypeOK
  <2> QED BY <2>1 DEF Frame
<1>10. ending # "none"
  BY DEF Ends
<1>11. Accounts'
  <2>1. ~Placing'
    BY <1>1, Modes DEF Placing
  <2>2. \A g \in Gestures : g > gesture' => drawn'[g].ending = "none"
    BY <1>1, <1>7 DEF Accounts, Gestures
  <2>3. \A n \in DOMAIN entities' : drawn'[entities'[n].gesture].ending # "none"
    BY <1>4, <1>7, <1>8, <1>10 DEF Accounts
  <2> QED BY <2>1, <2>2, <2>3 DEF Accounts, PlacingInv
<1>12. Suspended'
  <2>1. FrameOK(f, drawn', entities', gone')
    <3>1. f.gesture = gesture /\ f.shape = shape /\ f.name = name
      OBVIOUS
    <3>2. drawn'[gesture].ending = ending /\ drawn'[gesture].shape = shape
      BY <1>7
    <3>3. name \in DOMAIN entities' /\ entities'[name].gesture = gesture
      BY <1>4
    <3> HIDE DEF f
    <3> QED BY <1>10, <3>1, <3>2, <3>3 DEF FrameOK
  <2>2. ASSUME NEW j \in DOMAIN stack PROVE FrameOK(stack'[j + 1], drawn', entities', gone')
    <3>1. FrameOK(stack[j], drawn, entities, gone)
      BY DEF Suspended
    <3>2. drawn'[stack[j].gesture] = drawn[stack[j].gesture]
      BY <1>7, <1>9, <3>1 DEF FrameOK
    <3>3. stack'[j + 1] = stack[j]
      BY <1>6
    <3> QED BY <1>1, <1>4, <3>1, <3>2, <3>3 DEF FrameOK
  <2>3. \A j \in DOMAIN stack' : j = 1 \/ (j - 1 \in DOMAIN stack /\ j = (j - 1) + 1)
    BY <1>6
  <2> HIDE DEF f
  <2> QED BY <1>6, <2>1, <2>2, <2>3 DEF Suspended
<1>13. OneEntityPerGesture'
  BY <1>1, <1>4, <1>8 DEF OneEntityPerGesture, Accounts
<1>14. PlacedAsDrawn'
  <2>1. ASSUME NEW n \in DOMAIN entities' \ gone'
        PROVE  \/ entities'[n].shape = drawn'[entities'[n].gesture].shape
               \/ /\ entities'[n].shape = <<>>
                  /\ \E j \in DOMAIN stack' : stack'[j].name = n /\ stack'[j].at = "adding"
    <3>1. CASE n = name
      <4>1. f.name = name /\ f.at = "adding"
        OBVIOUS
      <4>2. 1 \in DOMAIN stack'
        BY <1>6
      <4> QED BY <1>4, <1>6, <3>1, <4>1, <4>2
    <3>2. CASE n # name
      <4>1. n \in DOMAIN entities \ gone /\ entities'[n] = entities[n]
        BY <1>1, <1>4, <3>2
      <4>2. drawn'[entities[n].gesture] = drawn[entities[n].gesture]
        BY <1>7, <1>8, <4>1 DEF Accounts
      <4>3. CASE entities[n].shape = drawn[entities[n].gesture].shape
        BY <4>1, <4>2, <4>3
      <4>4. CASE /\ entities[n].shape = <<>>
                 /\ \E j \in DOMAIN stack : stack[j].name = n /\ stack[j].at = "adding"
        <5>1. PICK j \in DOMAIN stack : stack[j].name = n /\ stack[j].at = "adding"
          BY <4>4
        <5>2. j + 1 \in DOMAIN stack' /\ stack'[j + 1] = stack[j]
          BY <1>6
        <5> QED BY <4>1, <4>4, <5>1, <5>2
      <4> QED BY <4>1, <4>3, <4>4 DEF PlacedAsDrawn
    <3> QED BY <3>1, <3>2
  <2> QED BY <2>1 DEF PlacedAsDrawn
<1>15. DblClickEndsOnce'
  <2>1. ASSUME NEW g \in Gestures, drawn'[g].ending = "double click"
        PROVE  drawn'[g].shape[Len(drawn'[g].shape)] # drawn'[g].shape[Len(drawn'[g].shape) - 1]
    <3>1. CASE g = gesture
      <4>1. drawn'[g].shape = shape /\ drawn'[g].ending = ending
        BY <1>7, <3>1
      <4> QED BY <2>1, <4>1 DEF Ends
    <3>2. CASE g # gesture
      BY <1>7, <2>1, <3>2 DEF DblClickEndsOnce
    <3> QED BY <3>1, <3>2
  <2> QED BY <2>1 DEF DblClickEndsOnce
<1> QED BY <1>11, <1>12, <1>13, <1>14, <1>15

\* Steps that begin or interrupt something, or add points: no entity changes.
LEMMA QuietStep ==
  ASSUME MapInv, MapTypeOK',
         \/ \E kind \in Kinds : BeginPlace(kind)
         \/ \E path \in DOMAIN entities : StartEditingOnMap(path)
         \/ EndEdit \/ Cancel
         \/ \E p \in Points : AddPoint(p)
         \/ \E p \in Points \union {None} : DblClickGoesOn(p)
         \/ UNCHANGED mapVars
  PROVE  Accounts' /\ Suspended' /\ OneEntityPerGesture' /\ PlacedAsDrawn' /\ DblClickEndsOnce'
<1>1. entities' = entities /\ stack' = stack /\ drawn' = drawn /\ gone' = gone
  BY DEF BeginPlace, StartEditingOnMap, EndEdit, Cancel, AddPoint, DblClickGoesOn, mapVars, history
<1>2. /\ gesture' = gesture \/ (gesture < MaxGestures /\ gesture' = gesture + 1)
      /\ Placing' => gesture' = gesture + 1 \/ (Placing /\ gesture' = gesture)
  <2>1. CASE \E kind \in Kinds : BeginPlace(kind)
    BY <2>1 DEF BeginPlace
  <2>2. CASE (\E path \in DOMAIN entities : StartEditingOnMap(path)) \/ EndEdit \/ Cancel
    BY <2>2, Modes
       DEF StartEditingOnMap, EndEdit, Cancel, ReturnToIdle, ModeChanged, Placing, history
  <2>3. CASE \/ \E p \in Points : AddPoint(p)
             \/ \E p \in Points \union {None} : DblClickGoesOn(p)
             \/ UNCHANGED mapVars
    BY <2>3 DEF AddPoint, DblClickGoesOn, mapVars, controller, Placing, history
  <2> QED BY <2>1, <2>2, <2>3
<1>3. Accounts'
  <2>1. gesture \in 0..MaxGestures /\ MaxGestures \in Nat
    BY MapAssumption DEF MapAssumption, MapInv, MapTypeOK
  <2>2. \A g \in Gestures : g > gesture' => drawn'[g].ending = "none"
    BY <1>1, <1>2, <2>1 DEF MapInv, Accounts, Gestures
  <2>3. PlacingInv'
    <3>1. ASSUME gesture' = gesture + 1
          PROVE  gesture' \in Gestures /\ drawn'[gesture'].ending = "none"
      BY <1>1, <1>2, <2>1, <3>1 DEF MapInv, Accounts, Gestures
    <3> QED BY <1>1, <1>2, <3>1 DEF MapInv, Accounts, PlacingInv
  <2> QED BY <1>1, <2>2, <2>3 DEF MapInv, Accounts
<1>4. Suspended' /\ OneEntityPerGesture'
  BY <1>1 DEF MapInv, Suspended, OneEntityPerGesture
<1>5. PlacedAsDrawn'
  BY <1>1 DEF MapInv, PlacedAsDrawn
<1>6. DblClickEndsOnce'
  BY <1>1 DEF MapInv, DblClickEndsOnce
<1> QED BY <1>3, <1>4, <1>5, <1>6

LEMMA AddReturnsStep ==
  ASSUME MapInv, AddReturns
  PROVE  Accounts' /\ Suspended' /\ OneEntityPerGesture' /\ PlacedAsDrawn' /\ DblClickEndsOnce'
<1> DEFINE f == Head(stack)
           g == [f EXCEPT !.at = "updating"]
<1>1. /\ stack # <<>> /\ f.at = "adding" /\ f.name \in DOMAIN entities
      /\ entities' = [entities EXCEPT ![f.name].shape = f.shape]
      /\ stack' = <<g>> \o Tail(stack)
  BY DEF AddReturns, Waiting
<1>2. mode' = mode /\ drawn' = drawn /\ gone' = gone /\ gesture' = gesture
  BY DEF AddReturns, controller, history
<1>3. f \in Frame /\ stack \in Seq(Frame)
  BY <1>1 DEF MapInv, MapTypeOK
<1>4. g.gesture = f.gesture /\ g.shape = f.shape /\ g.name = f.name /\ g.at = "updating"
  BY <1>3 DEF Frame
<1> HIDE DEF g
<1>5. /\ DOMAIN stack' = DOMAIN stack /\ 1 \in DOMAIN stack
      /\ stack'[1] = g /\ stack[1] = f
      /\ \A j \in DOMAIN stack : j # 1 => stack'[j] = stack[j]
  <2>1. /\ Len(stack) \in Nat /\ Len(stack) >= 1 /\ DOMAIN stack = 1..Len(stack)
        /\ Tail(stack) \in Seq(Frame) /\ Len(Tail(stack)) = Len(stack) - 1
        /\ \A j \in 1..(Len(stack) - 1) : Tail(stack)[j] = stack[j + 1]
    BY <1>1, <1>3
  <2>2. /\ DOMAIN stack' = 1..Len(stack) /\ stack'[1] = g
        /\ \A j \in 2..Len(stack) : stack'[j] = Tail(stack)[j - 1]
    BY <1>1, <2>1
  <2>3. stack[1] = f
    OBVIOUS
  <2>4. ASSUME NEW j \in DOMAIN stack, j # 1 PROVE stack'[j] = stack[j]
    <3>1. j \in 2..Len(stack) /\ j - 1 \in 1..(Len(stack) - 1) /\ (j - 1) + 1 = j
      BY <2>1, <2>4
    <3> QED BY <2>1, <2>2, <3>1
  <2> QED BY <2>1, <2>2, <2>3, <2>4
<1> HIDE DEF f
<1>6. /\ DOMAIN entities' = DOMAIN entities
      /\ \A n \in DOMAIN entities : entities'[n].gesture = entities[n].gesture
      /\ \A n \in DOMAIN entities : n # f.name => entities'[n] = entities[n]
      /\ entities'[f.name].shape = f.shape
  BY <1>1 DEF MapInv, MapTypeOK
<1>7. Accounts' /\ OneEntityPerGesture' /\ DblClickEndsOnce'
  BY <1>2, <1>6
  DEF MapInv, Accounts, PlacingInv, Placing, OneEntityPerGesture, DblClickEndsOnce
<1>8. Suspended'
  <2>1. ASSUME NEW j \in DOMAIN stack'
        PROVE  FrameOK(stack'[j], drawn', entities', gone')
    <3>1. FrameOK(stack[j], drawn, entities, gone)
      BY <1>5 DEF MapInv, Suspended
    <3>2. CASE j = 1
      BY <1>2, <1>4, <1>5, <3>1, <3>2 DEF FrameOK
    <3>3. CASE j # 1
      BY <1>2, <1>5, <1>6, <3>1, <3>3 DEF FrameOK
    <3> QED BY <3>2, <3>3
  <2> QED BY <2>1 DEF Suspended
<1>9. PlacedAsDrawn'
  <2>1. ASSUME NEW n \in DOMAIN entities' \ gone'
        PROVE  \/ entities'[n].shape = drawn'[entities'[n].gesture].shape
               \/ /\ entities'[n].shape = <<>>
                  /\ \E j \in DOMAIN stack' : stack'[j].name = n /\ stack'[j].at = "adding"
    <3>1. n \in DOMAIN entities \ gone
      BY <1>2, <1>6
    <3>2. CASE n = f.name
      <4>1. FrameOK(f, drawn, entities, gone)
        BY <1>5 DEF MapInv, Suspended
      <4>2. entities[n].gesture = f.gesture /\ drawn[f.gesture].shape = f.shape
        BY <1>1, <3>1, <3>2, <4>1 DEF FrameOK
      <4> QED BY <1>2, <1>6, <3>1, <3>2, <4>2
    <3>3. CASE n # f.name
      <4>1. entities'[n] = entities[n]
        BY <1>6, <3>1, <3>3
      <4>2. ASSUME NEW j \in DOMAIN stack, stack[j].name = n, stack[j].at = "adding"
            PROVE  j \in DOMAIN stack' /\ stack'[j] = stack[j]
        BY <1>5, <3>3, <4>2
      <4> QED BY <1>2, <3>1, <4>1, <4>2 DEF MapInv, PlacedAsDrawn
    <3> QED BY <3>2, <3>3
  <2> QED BY <2>1 DEF PlacedAsDrawn
<1> QED BY <1>7, <1>8, <1>9

LEMMA ReturnStep ==
  ASSUME MapInv, UpdateFails \/ UpdateReturns
  PROVE  Accounts' /\ Suspended' /\ OneEntityPerGesture' /\ PlacedAsDrawn' /\ DblClickEndsOnce'
<1>1. /\ stack # <<>> /\ stack' = Tail(stack)
      /\ UNCHANGED <<entities, mode, drawn, gone, gesture>>
  BY DEF UpdateFails, UpdateReturns, Waiting, controller, history
<1>2. /\ \A j \in DOMAIN stack' : j + 1 \in DOMAIN stack /\ stack'[j] = stack[j + 1]
      /\ \A j \in DOMAIN stack : j = 1 \/ (j - 1 \in DOMAIN stack' /\ stack'[j - 1] = stack[j])
      /\ 1 \in DOMAIN stack /\ stack[1] = Head(stack)
  <2>1. stack \in Seq(Frame)
    BY DEF MapInv, MapTypeOK
  <2> QED BY <1>1, <2>1
<1>3. Accounts' /\ OneEntityPerGesture' /\ DblClickEndsOnce'
  BY <1>1
  DEF MapInv, Accounts, PlacingInv, Placing, OneEntityPerGesture, DblClickEndsOnce
<1>4. Suspended'
  BY <1>1, <1>2 DEF MapInv, Suspended
<1>5. PlacedAsDrawn'
  <2>1. ASSUME NEW n \in DOMAIN entities \ gone, NEW j \in DOMAIN stack,
               stack[j].name = n, stack[j].at = "adding"
        PROVE  j # 1
    <3>1. SUFFICES ASSUME j = 1 PROVE FALSE
      OBVIOUS
    <3>2. Head(stack).name = n /\ Head(stack).at = "adding"
      BY <1>2, <2>1, <3>1
    <3>3. entities[n].gesture = Head(stack).gesture
      BY <1>2, <3>2 DEF MapInv, Suspended, FrameOK
    <3> QED BY <3>2, <3>3 DEF UpdateFails, UpdateReturns, Waiting
  <2> QED BY <1>1, <1>2, <2>1 DEF MapInv, PlacedAsDrawn
<1> QED BY <1>3, <1>4, <1>5

LEMMA DropStep ==
  ASSUME MapInv, NEW names \in SUBSET Names, Drop(names)
  PROVE  Accounts' /\ Suspended' /\ OneEntityPerGesture' /\ PlacedAsDrawn' /\ DblClickEndsOnce'
<1>1. /\ DOMAIN entities' = DOMAIN entities \ names
      /\ \A n \in DOMAIN entities' : entities'[n] = entities[n]
      /\ gone' = gone \union (names \intersect SuspendedNames)
      /\ UNCHANGED <<mode, stack, drawn, gesture>>
  BY DEF Drop, Restrict, controller
<1>2. Accounts' /\ OneEntityPerGesture' /\ DblClickEndsOnce'
  BY <1>1
  DEF MapInv, Accounts, PlacingInv, Placing, OneEntityPerGesture, DblClickEndsOnce
<1>3. Suspended'
  <2>1. \A j \in DOMAIN stack : stack[j].name \in SuspendedNames
    BY DEF SuspendedNames
  <2> QED BY <1>1, <2>1 DEF MapInv, Suspended, FrameOK
<1>4. PlacedAsDrawn'
  BY <1>1 DEF MapInv, PlacedAsDrawn
<1> QED BY <1>2, <1>3, <1>4

-----------------------------------------------------------------------------
LEMMA MapInit ==
  ASSUME Init
  PROVE  MapInv /\ ModeOwnsItsState
<1> USE DEF Init
<1>1. MapTypeOK
  <2>1. drawn \in [Gestures -> [shape : Seq(Points), ending : Endings]]
    BY DEF Undrawn, Endings
  <2>2. pending \in Seq(Points) /\ placed \in Seq(Points) /\ stack \in Seq(Frame)
    OBVIOUS
  <2>3. DOMAIN entities \subseteq Names
    OBVIOUS
  <2>4. entities \in [DOMAIN entities -> [shape : Seq(Points), gesture : Gestures]]
    OBVIOUS
  <2>5. /\ mode \in {"Idle", "EditingEntity"} \union Kinds /\ editingPath \in Names \union {None}
        /\ gesture \in 0..MaxGestures /\ gone \subseteq Names
    BY MapAssumption DEF MapAssumption
  <2>6. preview \in BOOLEAN
    OBVIOUS
  <2> HIDE DEF Init
  <2> QED BY <2>1, <2>2, <2>3, <2>4, <2>5, <2>6 DEF MapTypeOK
<1>2. ~Placing /\ ModeOwnsItsState
  BY Modes DEF Placing, ModeOwnsItsState
<1>3. Accounts /\ Suspended
  BY <1>2 DEF Accounts, PlacingInv, Undrawn, Suspended
<1>4. OneEntityPerGesture /\ PlacedAsDrawn /\ DblClickEndsOnce
  <2>1. DOMAIN entities = {}
    OBVIOUS
  <2>2. \A g \in Gestures : drawn[g].ending = "none"
    BY DEF Undrawn
  <2> HIDE DEF Init
  <2> QED BY <2>1, <2>2 DEF OneEntityPerGesture, PlacedAsDrawn, DblClickEndsOnce
<1> QED BY <1>1, <1>2, <1>3, <1>4 DEF MapInv

LEMMA MapStep ==
  ASSUME MapInv, ModeOwnsItsState, [Next]_mapVars
  PROVE  MapInv' /\ ModeOwnsItsState'
<1>1. MapTypeOK' /\ ModeOwnsItsState'
  BY TypeStep, ModeStep DEF MapInv, Accounts
<1>2. CASE Finalizes
  <2>1. PICK shape \in Seq(Points), ending \in Endings, click \in Points \union {None} :
          Ends(shape, ending, click)
    BY <1>2, Finalizations DEF MapInv
  <2> QED BY <1>1, <2>1, FinalizeStep DEF MapInv
<1>3. CASE AddReturns
  BY <1>1, <1>3, AddReturnsStep DEF MapInv
<1>4. CASE UpdateFails \/ UpdateReturns
  BY <1>1, <1>4, ReturnStep DEF MapInv
<1>5. CASE (\E names \in SUBSET Names : Drop(names)) \/ NewScenario
  <2>1. PICK names \in SUBSET Names : Drop(names)
    BY <1>5 DEF NewScenario, MapInv, MapTypeOK
  <2> QED BY <1>1, <2>1, DropStep DEF MapInv
<1> QED BY <1>1, <1>2, <1>3, <1>4, <1>5, QuietStep, Steps DEF MapInv

THEOREM Placement == Spec => [](MapInv /\ ModeOwnsItsState)
<1>1. Init => MapInv /\ ModeOwnsItsState
  BY MapInit
<1>2. MapInv /\ ModeOwnsItsState /\ [Next]_mapVars => (MapInv /\ ModeOwnsItsState)'
  BY MapStep
<1> QED BY <1>1, <1>2, PTL DEF Spec

\* Every variable keeps its type, through any nesting of handlers.
THEOREM PlacementTypes == Spec => []MapTypeOK
BY Placement, PTL DEF MapInv

\* Points are pending only in a placement mode, a path is edited only in the
\* editing mode.
THEOREM ModeKeepsItsState == Spec => []ModeOwnsItsState
BY Placement, PTL

\* However deep clicks re-enter the controller, a placement makes one entity.
THEOREM OneEntityEach == Spec => []OneEntityPerGesture
BY Placement, PTL DEF MapInv

\* The entity gets the shape its placement was ended with.
THEOREM ShapesAreKept == Spec => []PlacedAsDrawn
BY Placement, PTL DEF MapInv

\* No route or area ends in coincident points because of the double click.
THEOREM NoCoincidentEnd == Spec => []DblClickEndsOnce
BY Placement, PTL DEF MapInv

-----------------------------------------------------------------------------
(* The dots.                                                                *)

LEMMA RangeOfSeq ==
  ASSUME NEW S, NEW s \in Seq(S)
  PROVE  /\ \A e \in Range(s) : \E i \in 1..Len(s) : e = s[i]
         /\ \A i \in 1..Len(s) : s[i] \in Range(s)
<1>1. DOMAIN s = 1..Len(s)
  OBVIOUS
<1> QED BY <1>1, Zenon DEF Range

LEMMA Dotted ==
  ASSUME NEW S, NEW s \in Seq(S), NEW t \in Seq(S), Range(s) \subseteq Range(t), NEW p \in S
  PROVE  /\ Range(Append(s, p)) \subseteq Range(Append(t, p))
         /\ Range(s) \subseteq Range(Append(t, p))
         /\ \A k \in 0..Len(s) : Range(SubSeq(s, 1, k)) \subseteq Range(t)
<1>1. \A u \in Seq(S) : /\ DOMAIN u = 1..Len(u) /\ Len(u) \in Nat
                        /\ DOMAIN Append(u, p) = 1..(Len(u) + 1)
                        /\ Append(u, p)[Len(u) + 1] = p
                        /\ \A i \in 1..Len(u) : Append(u, p)[i] = u[i]
  OBVIOUS
<1>2. \A i \in 1..Len(s) : \E j \in 1..Len(t) : s[i] = t[j]
  BY RangeOfSeq, Zenon
<1>3. \A i \in 1..(Len(s) + 1) : \E j \in 1..(Len(t) + 1) : Append(s, p)[i] = Append(t, p)[j]
  <2> TAKE i \in 1..(Len(s) + 1)
  <2>1. CASE i \in 1..Len(s)
    <3>1. PICK j \in 1..Len(t) : s[i] = t[j]
      BY <1>2, <2>1
    <3> QED BY <1>1, <2>1, <3>1
  <2>2. CASE i = Len(s) + 1
    BY <1>1, <2>2
  <2> QED BY <1>1, <2>1, <2>2
<1>4. Range(Append(s, p)) \subseteq Range(Append(t, p))
  <2>1. /\ Append(s, p) \in Seq(S) /\ Len(Append(s, p)) = Len(s) + 1
        /\ Append(t, p) \in Seq(S) /\ Len(Append(t, p)) = Len(t) + 1
    OBVIOUS
  <2>2. ASSUME NEW e \in Range(Append(s, p)) PROVE e \in Range(Append(t, p))
    <3>1. PICK i \in 1..(Len(s) + 1) : e = Append(s, p)[i]
      BY <2>1, RangeOfSeq, Zenon
    <3>2. PICK j \in 1..(Len(t) + 1) : e = Append(t, p)[j]
      BY <3>1, <1>3, Zenon
    <3> QED BY <3>2, <2>1, RangeOfSeq, Zenon
  <2> QED BY <2>2
<1>5. Range(s) \subseteq Range(Append(t, p))
  <2>1. \A i \in 1..Len(s) : \E j \in 1..(Len(t) + 1) : s[i] = Append(t, p)[j]
    BY <1>1, <1>2
  <2>2. Append(t, p) \in Seq(S) /\ Len(Append(t, p)) = Len(t) + 1
    OBVIOUS
  <2>3. ASSUME NEW e \in Range(s) PROVE e \in Range(Append(t, p))
    <3>1. PICK i \in 1..Len(s) : e = s[i]
      BY RangeOfSeq, Zenon
    <3>2. PICK j \in 1..(Len(t) + 1) : e = Append(t, p)[j]
      BY <3>1, <2>1, Zenon
    <3> QED BY <3>2, <2>2, RangeOfSeq, Zenon
  <2> QED BY <2>3
<1>6. \A k \in 0..Len(s) : Range(SubSeq(s, 1, k)) \subseteq Range(t)
  <2> TAKE k \in 0..Len(s)
  <2>1. /\ SubSeq(s, 1, k) \in Seq(S) /\ Len(SubSeq(s, 1, k)) = k
        /\ \A i \in 1..k : i \in 1..Len(s) /\ SubSeq(s, 1, k)[i] = s[i]
    BY <1>1
  <2>2. ASSUME NEW e \in Range(SubSeq(s, 1, k)) PROVE e \in Range(t)
    <3>1. PICK i \in 1..k : e = SubSeq(s, 1, k)[i]
      BY <2>1, RangeOfSeq, Zenon
    <3>2. PICK j \in 1..Len(t) : e = t[j]
      BY <3>1, <2>1, <1>2, Zenon
    <3> QED BY <3>2, RangeOfSeq, Zenon
  <2> QED BY <2>2
<1> QED BY <1>4, <1>5, <1>6

LEMMA NoPointsDotted == ASSUME NEW t PROVE Range(<<>>) \subseteq Range(t)
BY DEF Range

LEMMA DotsStep ==
  ASSUME MapTypeOK, ModeOwnsItsState, PointsAreDotted, [Next]_mapVars
  PROVE  PointsAreDotted'
<1> USE DEF PointsAreDotted
<1>1. CASE Finalizes
  <2>1. PICK shape \in Seq(Points), ending \in Endings, click \in Points \union {None} :
          Ends(shape, ending, click)
    BY <1>1, Finalizations
  <2> QED BY <2>1, Modes
     DEF Ends, Finalize, ReturnToIdle, ModeChanged,
         CreatePlacementPreview, DisposePlacementPreview
<1>2. CASE \E kind \in Kinds : BeginPlace(kind)
  <2>1. pending' = <<>> /\ placed' = <<>>
    BY <1>2, Modes
       DEF BeginPlace, ModeChanged, AfterCancel, ModeOwnsItsState,
           CreatePlacementPreview, DisposePlacementPreview
  <2> QED BY <2>1, NoPointsDotted
<1>3. CASE \E path \in DOMAIN entities : StartEditingOnMap(path)
  BY <1>3, Modes DEF StartEditingOnMap, ModeChanged,
                     CreatePlacementPreview, DisposePlacementPreview
<1>4. CASE EndEdit \/ Cancel
  BY <1>4, Modes
     DEF EndEdit, Cancel, ReturnToIdle, ModeChanged,
         CreatePlacementPreview, DisposePlacementPreview
<1>5. CASE \E p \in Points : AddPoint(p)
  <2>1. PICK p \in Points : AddPoint(p)
    BY <1>5
  <2>2. CASE preview
    <3>1. Range(Append(pending, p)) \subseteq Range(Append(placed, p))
      BY <2>2, Dotted DEF MapTypeOK
    <3> QED BY <2>1, <2>2, <3>1 DEF AddPoint, AppendPlacedPoint
  <2>3. CASE ~preview
    BY <2>1, <2>3 DEF AddPoint, AppendPlacedPoint
  <2> QED BY <2>2, <2>3
<1>6. CASE \E p \in Points \union {None} : DblClickGoesOn(p)
  <2>0. PICK p \in Points \union {None} : DblClickGoesOn(p)
    BY <1>6
  <2>1. PICK points \in AtDblClick(p) :
          /\ mode \in Multipoint
          /\ Len(WithDblClick(points, p)) < Minimum[mode]
          /\ pending' = WithDblClick(points, p)
          /\ mode' = mode /\ placed' = placed /\ preview' = preview
    BY <2>0 DEF DblClickGoesOn, host
  <2>2. points \in Seq(Points)
    BY TrimmedPoints
  <2>3. pending' = points
    BY <2>1, <2>2, Modes DEF WithDblClick
  <2>4. points = pending \/ \E k \in 0..Len(pending) : points = SubSeq(pending, 1, k)
    BY DEF AtDblClick, TrimTrailingDuplicates
  <2>5. ASSUME preview
        PROVE  \A k \in 0..Len(pending) : Range(SubSeq(pending, 1, k)) \subseteq Range(placed)
    <3>1. CASE Points = {}
      BY <3>1, <2>1, <2>5 DEF MapTypeOK, Range
    <3>2. CASE Points # {}
      BY <3>2, <2>1, <2>5, Dotted DEF MapTypeOK
    <3> QED BY <3>1, <3>2
  <2> QED BY <2>1, <2>3, <2>4, <2>5
<1>7. CASE AddReturns \/ UpdateFails
  BY <1>7 DEF AddReturns, UpdateFails, controller, host
<1>8. CASE UpdateReturns
  <2>1. stack \in Seq(Frame) /\ stack # <<>>
    BY <1>8 DEF UpdateReturns, Waiting, MapTypeOK
  <2>2. Head(stack) \in Frame
    BY <2>1
  <2>3. Head(stack).click \in Points \union {None}
    BY <2>2 DEF Frame
  <2>4. /\ mode' = mode /\ pending' = pending /\ preview' = preview
        /\ placed' = IF Placing /\ Head(stack).click # None /\ preview
                     THEN Append(placed, Head(stack).click) ELSE placed
    BY <1>8 DEF UpdateReturns, AppendPlacedPoint, controller
  <2>5. CASE placed' = placed
    BY <2>4, <2>5, Zenon
  <2>6. CASE /\ Head(stack).click \in Points /\ preview
             /\ placed' = Append(placed, Head(stack).click)
    <3>1. Range(pending) \subseteq Range(placed) =>
            Range(pending) \subseteq Range(Append(placed, Head(stack).click))
      BY <2>6, Dotted DEF MapTypeOK
    <3> QED BY <3>1, <2>4, <2>6, Zenon
  <2> QED BY <2>3, <2>4, <2>5, <2>6
<1>9. CASE (\E names \in SUBSET Names : Drop(names)) \/ NewScenario \/ UNCHANGED mapVars
  <2>1. UNCHANGED <<mode, pending, placed, preview>>
    BY <1>9 DEF NewScenario, Drop, controller, host, mapVars
  <2> QED BY <2>1
<1> QED
  BY <1>1, <1>2, <1>3, <1>4, <1>5, <1>6, <1>7, <1>8, <1>9, Steps

\* With a preview, every point that will be in the entity has its dot, for any
\* places, clicks and nesting; placement without one (its creation failed) shows
\* none (_appendPlacedPoint).
THEOREM PointsKeepTheirDots == Spec => []PointsAreDotted
<1>1. Init => PointsAreDotted
  BY Modes DEF Init, PointsAreDotted
<1>2. MapInv /\ ModeOwnsItsState /\ PointsAreDotted /\ [Next]_mapVars => PointsAreDotted'
  BY DotsStep DEF MapInv
<1> QED BY <1>1, <1>2, Placement, PTL DEF Spec

-----------------------------------------------------------------------------
(* Tree, panel and handles.                                                 *)

PanelShape ==
  panel = [path |-> panel.path, value |-> panel.value,
           committed |-> panel.committed, dirty |-> panel.dirty]

PanelsInv ==
  /\ TreeMirrorsScenario /\ PanelShape /\ HandlesFollowMode
  /\ mode = "EditingEntity" => editingPath # None

\* The reaction to ScenarioChanged restores the agreement, whatever became of
\* the scenario.
LEMMA Reaction ==
  ASSUME PanelsInv, NEW ep, ScenarioChanged(entities', ep)
  PROVE  TreeMirrorsScenario' /\ PanelShape'
<1> DEFINE shown == IF Rebuilds(entities') THEN RebuildFromService(entities') ELSE panel
<1>1. /\ tree' = DOMAIN entities'
      /\ selected' = IF selected \in DOMAIN entities' THEN selected ELSE None
      /\ panel' = Refreshed(shown, entities', ep)
  BY DEF ScenarioChanged
<1>2. /\ shown.path = selected'
      /\ shown = [path |-> shown.path, value |-> shown.value,
                  committed |-> shown.committed, dirty |-> shown.dirty]
  <2>1. CASE Rebuilds(entities')
    BY <1>1, <2>1 DEF RebuildFromService, PanelFor, NoPanel
  <2>2. CASE ~Rebuilds(entities')
    BY <1>1, <2>2 DEF Rebuilds, PanelsInv, TreeMirrorsScenario, PanelShape
  <2> QED BY <2>1, <2>2
<1> HIDE DEF shown
<1>3. CASE panel' = shown
  BY <1>1, <1>2, <1>3 DEF TreeMirrorsScenario, PanelShape
<1>4. CASE ep = shown.path /\ panel' = [PanelFor(ep, entities') EXCEPT !.dirty = TRUE]
  BY <1>1, <1>2, <1>4 DEF TreeMirrorsScenario, PanelShape, PanelFor
<1> QED BY <1>1, <1>3, <1>4 DEF Refreshed

LEMMA PanelsStep ==
  ASSUME PanelsInv, [PanelsNext]_vars
  PROVE  PanelsInv'
<1> USE DEF PanelsInv
<1>1. CASE Place
  <2>1. (\E p \in Points : PlaceFacility(p)) \/ AddReturns
    BY <1>1 DEF Place
  <2>2. mode' = "Idle" \/ UNCHANGED <<mode, editingPath>>
    BY <2>1 DEF PlaceFacility, Finalize, ReturnToIdle, ModeChanged, AddReturns, controller
  <2>3. ScenarioChanged(entities', editingPath) /\ HandlesFollowMode'
    BY <1>1 DEF Place, ModeFollowed, HandlesFollowMode
  <2> QED BY <2>2, <2>3, Reaction
<1>2. CASE PlaceOther
  <2>1. (\E kind \in Kinds : BeginPlace(kind)) \/ UpdateFails \/ UpdateReturns
    BY <1>2 DEF PlaceOther
  <2>2. entities' = entities /\ (mode' \in Kinds \/ UNCHANGED <<mode, editingPath>>)
    BY <2>1 DEF BeginPlace, ModeChanged, UpdateFails, UpdateReturns, controller
  <2>3. UNCHANGED <<tree, selected, panel>> /\ HandlesFollowMode'
    BY <1>2 DEF PlaceOther, panels, ModeFollowed, HandlesFollowMode
  <2> QED BY <2>2, <2>3, Modes DEF TreeMirrorsScenario, PanelShape
<1>3. CASE Discard \/ OpenScenario \/ Apply
  <2>1. ScenarioChanged(entities', editingPath) /\ UNCHANGED <<mode, editingPath, handles>>
    BY <1>3 DEF Discard, RemoveEntity, NewScenario, Drop, OpenScenario, Apply, controller
  <2> QED BY <2>1, Reaction DEF HandlesFollowMode
<1>4. CASE \E path \in tree \union {None} : Select(path)
  <2>1. PICK path \in tree \union {None} : Select(path)
    BY <1>4
  <2>2. UNCHANGED <<mode, editingPath, entities, tree, handles>> /\ selected' = path
    BY <2>1 DEF Select, mapVars, controller
  <2>3. panel'.path = path /\ PanelShape'
    BY <2>1 DEF Select, PanelFor, NoPanel, PanelShape
  <2> QED BY <2>2, <2>3 DEF TreeMirrorsScenario, HandlesFollowMode
<1>5. CASE (\E shape \in Shapes \ {<<>>} : EditField(shape)) \/ Reset \/ ApplyReturns
  <2>1. UNCHANGED <<mode, editingPath, entities, tree, selected, handles>>
    BY <1>5 DEF EditField, Reset, ApplyReturns, mapVars, controller
  <2>2. panel'.path = panel.path /\ PanelShape'
    BY <1>5 DEF EditField, Reset, ApplyReturns, PanelShape
  <2> QED BY <2>1, <2>2 DEF TreeMirrorsScenario, HandlesFollowMode
<1>6. CASE \E shape \in Shapes \ {<<>>} : MouseUp(shape)
  <2>1. ScenarioChanged(entities', editingPath) /\ UNCHANGED <<mode, editingPath, handles>>
    BY <1>6 DEF MouseUp, controller
  <2> QED BY <2>1, Reaction DEF HandlesFollowMode
<1>7. CASE \E shape \in Shapes \ {<<>>} : EditingStop(shape)
  <2>1. ScenarioChanged(entities', editingPath) /\ mode' = "Idle" /\ handles' = FALSE
    BY <1>7 DEF EditingStop, ReturnToIdle, ModeChanged
  <2> QED BY <2>1, Reaction DEF HandlesFollowMode
<1>8. CASE StartEditing
  <2>1. /\ mode' = "EditingEntity" /\ editingPath' = selected /\ selected # None
        /\ UNCHANGED <<entities, tree, selected, panel>>
    BY <1>8 DEF StartEditing, StartEditingOnMap, ModeChanged, panels
  <2> QED BY <2>1 DEF TreeMirrorsScenario, PanelShape, HandlesFollowMode
<1>9. CASE Esc \/ EscPlacement
  <2>1. mode' = "Idle" /\ UNCHANGED <<entities, tree, selected, panel>>
    BY <1>9 DEF Esc, EscPlacement, EndEdit, Cancel, ReturnToIdle, ModeChanged, panels
  <2>2. ~handles'
    <3>1. CASE Esc
      BY <2>1, <3>1 DEF Esc, ModeFollowed
    <3>2. CASE EscPlacement
      <4>1. mode # "EditingEntity" /\ handles' = handles
        BY <3>2, Modes DEF EscPlacement, Placing
      <4> QED BY <4>1, Zenon DEF HandlesFollowMode
    <3> QED BY <1>9, <3>1, <3>2
  <2> QED BY <2>1, <2>2 DEF TreeMirrorsScenario, PanelShape, HandlesFollowMode
<1>10. CASE UNCHANGED vars
  BY <1>10 DEF vars, mapVars, controller, panels,
               TreeMirrorsScenario, PanelShape, HandlesFollowMode
<1> QED
  BY <1>1, <1>2, <1>3, <1>4, <1>5, <1>6, <1>7, <1>8, <1>9, <1>10 DEF PanelsNext

THEOREM PanelsAgree == PanelsSpec => []PanelsInv
<1>1. PanelsInit => PanelsInv
  BY DEF PanelsInit, Init, PanelsInv, TreeMirrorsScenario, PanelShape, HandlesFollowMode, NoPanel
<1>2. PanelsInv /\ [PanelsNext]_vars => PanelsInv'
  BY PanelsStep
<1> QED BY <1>1, <1>2, PTL DEF PanelsSpec

\* The tree shows STK's objects and the panel the selected one, after any
\* placement, removal or loading, however they nest.
THEOREM TreeAndPanelAgree == PanelsSpec => []TreeMirrorsScenario
BY PanelsAgree, PTL DEF PanelsInv

\* No drag handles without an edit.
THEOREM NoHandlesLeft == PanelsSpec => []HandlesFollowMode
BY PanelsAgree, PTL DEF PanelsInv

-----------------------------------------------------------------------------
(* Types of the panel, and the Apply that is suspended.                     *)

\* A suspended placement, as the panels' steps make it.
PanelFrame == [at : {"adding", "updating"}, name : Names, gesture : Nat,
               shape : Shapes, click : Points \union {None}]

\* What there is to show.  An opened file's entities belong to no gesture.
ScenarioTypes ==
  /\ mode \in {"Idle", "EditingEntity"} \union Kinds
  /\ editingPath \in Names \union {None}
  /\ DOMAIN entities \subseteq Names
  /\ entities \in [DOMAIN entities -> [shape : Shapes, gesture : Nat]]
  /\ stack \in Seq(PanelFrame) /\ Len(stack) <= MaxDepth
  /\ gesture \in Nat

\* An Apply that is still to reach its panel finds it shown.
ApplyHasPanel ==
  applying # None /\ applying.live => panel.path = applying.path /\ panel.path # None

PanelTypes == ScenarioTypes /\ PanelsTypeOK /\ ApplyHasPanel

LEMMA EmptyAndOne == <<>> \in Shapes /\ \A p \in Points : <<p>> \in Shapes
BY DEF Shapes

\* The steps of the placement keep the scenario's types.
LEMMA PlaceTypes ==
  ASSUME ScenarioTypes,
         (\E p \in Points : PlaceFacility(p)) \/ AddReturns \/ UpdateFails \/ UpdateReturns
  PROVE  ScenarioTypes'
<1> USE DEF ScenarioTypes
<1>1. CASE \E p \in Points : PlaceFacility(p)
  <2>1. PICK p \in Points : PlaceFacility(p)
    BY <1>1
  <2>2. PICK i \in 1..MaxNumber :
          /\ entities' = [n \in DOMAIN entities \union {<<mode, i>>} |->
                            IF n = <<mode, i>> THEN [shape |-> <<>>, gesture |-> gesture]
                            ELSE entities[n]]
          /\ stack' = <<[at |-> "adding", name |-> <<mode, i>>, gesture |-> gesture,
                         shape |-> <<p>>, click |-> p]>> \o stack
    BY <2>1, Zenon DEF PlaceFacility, Finalize
  <2>3. <<mode, i>> \in Names
    BY <2>1 DEF PlaceFacility, Names
  <2> DEFINE frame == [at |-> "adding", name |-> <<mode, i>>, gesture |-> gesture,
                       shape |-> <<p>>, click |-> p]
  <2>4. frame \in PanelFrame
    BY <2>3, EmptyAndOne DEF PanelFrame
  <2>5. Len(stack) < MaxDepth /\ MaxDepth \in Nat
    BY <2>1, MapAssumption DEF PlaceFacility, Finalize, MapAssumption
  <2>6. stack' = <<frame>> \o stack
    BY <2>2
  <2> HIDE DEF frame
  <2>7. stack' \in Seq(PanelFrame) /\ Len(stack') <= MaxDepth
    BY <2>4, <2>5, <2>6
  <2>8. DOMAIN entities' \subseteq Names
    BY <2>2, <2>3
  <2>9. entities' \in [DOMAIN entities' -> [shape : Shapes, gesture : Nat]]
    BY <2>2, EmptyAndOne
  <2>10. mode' = "Idle" /\ editingPath' = editingPath /\ gesture' = gesture
    BY <2>1 DEF PlaceFacility, Finalize, ReturnToIdle, ModeChanged
  <2> QED BY <2>7, <2>8, <2>9, <2>10
<1>2. CASE AddReturns
  <2>1. stack \in Seq(PanelFrame) /\ stack # <<>>
    BY <1>2 DEF AddReturns, Waiting
  <2> DEFINE f == Head(stack)
             g == [f EXCEPT !.at = "updating"]
  <2>2. f \in PanelFrame /\ Tail(stack) \in Seq(PanelFrame) /\ Len(Tail(stack)) = Len(stack) - 1
    BY <2>1
  <2>3. f.shape \in Shapes /\ g \in PanelFrame
    BY <2>2 DEF PanelFrame
  <2>4. /\ f.name \in DOMAIN entities
        /\ entities' = [entities EXCEPT ![f.name].shape = f.shape]
        /\ stack' = <<g>> \o Tail(stack)
        /\ UNCHANGED <<mode, editingPath, gesture>>
    BY <1>2 DEF AddReturns, controller, history
  <2> HIDE DEF f, g
  <2>5. stack' \in Seq(PanelFrame) /\ Len(stack') = Len(stack)
    BY <2>1, <2>2, <2>3, <2>4
  <2>6. DOMAIN entities' = DOMAIN entities
    BY <2>4
  <2>7. entities' \in [DOMAIN entities -> [shape : Shapes, gesture : Nat]]
    BY <2>3, <2>4
  <2> QED BY <2>4, <2>5, <2>6, <2>7
<1>3. CASE UpdateFails \/ UpdateReturns
  <2>1. stack \in Seq(PanelFrame) /\ stack # <<>> /\ stack' = Tail(stack)
    BY <1>3 DEF UpdateFails, UpdateReturns, Waiting
  <2>2. stack' \in Seq(PanelFrame) /\ Len(stack') = Len(stack) - 1
    BY <2>1
  <2>3. UNCHANGED <<mode, editingPath, entities, gesture>>
    BY <1>3 DEF UpdateFails, UpdateReturns, controller, history
  <2>4. MaxDepth \in Nat /\ Len(stack) \in Nat
    BY MapAssumption DEF MapAssumption
  <2> QED BY <2>2, <2>3, <2>4
<1> QED BY <1>1, <1>2, <1>3

\* So do removing, opening, applying and dragging.
LEMMA ScenarioTypesStep ==
  ASSUME PanelTypes, PanelsInv, [PanelsNext]_vars
  PROVE  ScenarioTypes'
<1> USE DEF ScenarioTypes, PanelTypes
<1>1. CASE Place
  BY <1>1, PlaceTypes DEF Place
<1>2. CASE PlaceOther
  <2>1. CASE \E kind \in Kinds : BeginPlace(kind)
    <3>1. /\ mode' \in Kinds /\ editingPath' \in {editingPath, None}
          /\ gesture' = gesture + 1 /\ UNCHANGED <<entities, stack>>
      BY <2>1 DEF BeginPlace, ModeChanged, AfterCancel
    <3> QED BY <3>1
  <2> QED BY <1>2, <2>1, PlaceTypes DEF PlaceOther
<1>3. CASE Discard
  <2>1. PICK names : Drop(names)
    BY <1>3 DEF Discard, RemoveEntity, NewScenario
  <2>2. /\ entities' = [n \in DOMAIN entities \ names |-> entities[n]]
        /\ UNCHANGED <<mode, editingPath, stack, gesture>>
    BY <2>1 DEF Drop, Restrict, controller
  <2> QED BY <2>2
<1>4. CASE OpenScenario
  <2>1. PICK names \in SUBSET Names : \E shape \in [names -> {<<p>> : p \in Points}] :
          entities' = [n \in names |-> [shape |-> shape[n], gesture |-> 0]]
    BY <1>4 DEF OpenScenario
  <2>2. PICK shape \in [names -> {<<p>> : p \in Points}] :
          entities' = [n \in names |-> [shape |-> shape[n], gesture |-> 0]]
    BY <2>1
  <2>3. \A n \in names : shape[n] \in Shapes
    BY EmptyAndOne
  <2>4. entities' \in [DOMAIN entities' -> [shape : Shapes, gesture : Nat]]
    BY <2>2, <2>3
  <2>5. UNCHANGED <<mode, editingPath, stack, gesture>> /\ DOMAIN entities' \subseteq Names
    BY <1>4, <2>2 DEF OpenScenario, controller
  <2> QED BY <2>4, <2>5
<1>5. CASE Apply
  <2>1. /\ entities' = [entities EXCEPT ![panel.path].shape = panel.value]
        /\ UNCHANGED <<mode, editingPath, stack, gesture>>
    BY <1>5 DEF Apply, controller, history
  <2>2. panel.value \in Shapes
    BY DEF PanelsTypeOK
  <2>3. /\ DOMAIN entities' = DOMAIN entities
        /\ entities' \in [DOMAIN entities -> [shape : Shapes, gesture : Nat]]
    BY <2>1, <2>2
  <2> QED BY <2>1, <2>3
<1>6. ASSUME NEW shape \in Shapes, MouseUp(shape) \/ EditingStop(shape) PROVE ScenarioTypes'
  <2>1. entities' = [n \in DOMAIN entities |->
                       IF handles /\ n = editingPath THEN [entities[n] EXCEPT !.shape = shape]
                       ELSE entities[n]]
    BY <1>6 DEF MouseUp, EditingStop, Dragged
  <2>2. \A n \in DOMAIN entities :
          [entities[n] EXCEPT !.shape = shape] \in [shape : Shapes, gesture : Nat]
    OBVIOUS
  <2>3. entities' \in [DOMAIN entities -> [shape : Shapes, gesture : Nat]]
    BY <2>1, <2>2
  <2>4. /\ mode' = mode \/ mode' = "Idle"
        /\ editingPath' = editingPath \/ editingPath' = None
        /\ UNCHANGED <<stack, gesture>>
    BY <1>6 DEF MouseUp, EditingStop, ReturnToIdle, ModeChanged, controller, history
  <2> QED BY <2>1, <2>3, <2>4
<1>7. CASE StartEditing
  BY <1>7 DEF StartEditing, StartEditingOnMap, ModeChanged, history, PanelsTypeOK
<1>8. CASE Esc \/ EscPlacement
  BY <1>8 DEF Esc, EscPlacement, EndEdit, Cancel, ReturnToIdle, ModeChanged, history
<1>9. CASE (\E path \in tree \union {None} : Select(path)) \/ Reset \/ ApplyReturns
             \/ (\E shape \in Shapes \ {<<>>} : EditField(shape))
  BY <1>9 DEF Select, Reset, ApplyReturns, EditField, mapVars, controller, history
<1>10. CASE UNCHANGED vars
  BY <1>10 DEF vars, mapVars, controller, history
<1> QED
  BY <1>1, <1>2, <1>3, <1>4, <1>5, <1>6, <1>7, <1>8, <1>9, <1>10 DEF PanelsNext

LEMMA PanelForTypes ==
  ASSUME NEW e, DOMAIN e \subseteq Names, e \in [DOMAIN e -> [shape : Shapes, gesture : Nat]],
         NEW path \in DOMAIN e
  PROVE  /\ PanelFor(path, e) \in [path : Names \union {None}, value : Shapes,
                                   committed : Shapes, dirty : BOOLEAN]
         /\ PanelFor(path, e).path = path
BY DEF PanelFor

\* What the panel's types say of a panel and of an Apply.
PanelOK(p) ==
  /\ p \in [path : Names \union {None}, value : Shapes, committed : Shapes, dirty : BOOLEAN]
  /\ p.path = None => p = NoPanel

LEMMA EmptyPanel == PanelOK(NoPanel) /\ NoPanel.path = None /\ ~NoPanel.dirty
BY EmptyAndOne DEF PanelOK, NoPanel

ApplyOK(a) ==
  a = None \/ a \in [path : Names, dto : Shapes, live : BOOLEAN, depth : 0..MaxDepth]

\* The reaction to ScenarioChanged shows a well-typed panel, the same one
\* unless the tree was rebuilt.
LEMMA ReactionTypes ==
  ASSUME PanelTypes, PanelsInv, ScenarioTypes', NEW ep, ScenarioChanged(entities', ep)
  PROVE  /\ tree' \subseteq Names /\ selected' \in Names \union {None}
         /\ PanelOK(panel')
         /\ ~Rebuilds(entities') => panel'.path = panel.path
<1> DEFINE e == entities'
           shown == IF Rebuilds(e) THEN RebuildFromService(e) ELSE panel
<1>1. DOMAIN e \subseteq Names /\ e \in [DOMAIN e -> [shape : Shapes, gesture : Nat]]
  BY DEF ScenarioTypes
<1>2. /\ tree' = DOMAIN e
      /\ selected' = IF selected \in DOMAIN e THEN selected ELSE None
      /\ panel' = Refreshed(shown, e, ep)
  BY DEF ScenarioChanged
<1>3. None \notin Names /\ <<>> \in Shapes
  BY MapAssumption, EmptyAndOne DEF MapAssumption
<1> HIDE DEF e
<1>4. PanelOK(shown) /\ shown.path \in DOMAIN e \union {None}
  <2>1. CASE Rebuilds(e) /\ selected \in DOMAIN e
    <3>1. shown = PanelFor(selected, e)
      BY <2>1 DEF RebuildFromService
    <3> QED BY <3>1, <1>1, <1>3, <2>1, PanelForTypes DEF PanelOK
  <2>2. CASE Rebuilds(e) /\ selected \notin DOMAIN e
    <3>1. shown = NoPanel
      BY <2>2 DEF RebuildFromService
    <3> QED BY <3>1, EmptyPanel
  <2>3. CASE ~Rebuilds(e)
    <3>1. shown = panel /\ tree = DOMAIN e
      BY <2>3 DEF Rebuilds
    <3> QED
      BY <3>1 DEF PanelTypes, PanelsTypeOK, PanelOK, PanelsInv, TreeMirrorsScenario
  <2> QED BY <2>1, <2>2, <2>3
<1>5. ~Rebuilds(e) => shown = panel
  OBVIOUS
<1> HIDE DEF shown
<1>6. PanelOK(panel') /\ panel'.path = shown.path
  <2>1. CASE ep # None /\ shown.path = ep
    <3>1. panel' = [PanelFor(ep, e) EXCEPT !.dirty = TRUE] /\ ep \in DOMAIN e
      BY <1>2, <1>4, <2>1 DEF Refreshed
    <3>2. /\ PanelFor(ep, e) \in [path : Names \union {None}, value : Shapes,
                                  committed : Shapes, dirty : BOOLEAN]
          /\ PanelFor(ep, e).path = ep
      BY <3>1, <1>1, PanelForTypes
    <3> QED BY <3>1, <3>2, <2>1 DEF PanelOK
  <2>2. CASE ~(ep # None /\ shown.path = ep)
    BY <1>2, <1>4, <2>2 DEF Refreshed
  <2> QED BY <2>1, <2>2
<1> QED
  BY <1>1, <1>2, <1>5, <1>6 DEF e, PanelTypes, PanelsTypeOK

\* An Apply is disowned when the panel may change hands.
LEMMA OrphanTypes ==
  ASSUME PanelTypes
  PROVE  ApplyOK(Orphan) /\ (Orphan # None => ~Orphan.live)
<1>1. ApplyOK(applying)
  BY DEF PanelTypes, PanelsTypeOK, ApplyOK
<1> QED BY <1>1 DEF ApplyOK, Orphan

LEMMA PanelTypesStep ==
  ASSUME PanelTypes, PanelsInv, PanelsInv', [PanelsNext]_vars
  PROVE  PanelTypes'
<1>1. ScenarioTypes'
  BY ScenarioTypesStep
<1>2. /\ PanelOK(panel) /\ ApplyOK(applying) /\ ApplyHasPanel
      /\ tree \subseteq Names /\ selected \in Names \union {None} /\ handles \in BOOLEAN
  BY DEF PanelTypes, PanelsTypeOK, PanelOK, ApplyOK
<1> DEFINE Goal == /\ tree' \subseteq Names /\ selected' \in Names \union {None}
                   /\ PanelOK(panel') /\ ApplyOK(applying')
                   /\ ApplyHasPanel' /\ handles' \in BOOLEAN
<1> SUFFICES Goal
  BY <1>1 DEF PanelTypes, PanelsTypeOK, PanelOK, ApplyOK
<1> USE DEF ApplyHasPanel
\* The scenario changes, and the Apply is left alone or disowned.
<1>3. ASSUME NEW ep, ScenarioChanged(entities', ep),
             applying' = IF Rebuilds(entities') THEN Orphan ELSE applying,
             handles' \in BOOLEAN
      PROVE  Goal
  BY <1>1, <1>2, <1>3, ReactionTypes, OrphanTypes
<1>4. CASE Place
  <2>1. ScenarioChanged(entities', editingPath) /\ handles' \in BOOLEAN
    BY <1>2, <1>4 DEF Place, ModeFollowed
  <2> QED BY <1>3, <1>4, <2>1 DEF Place
<1>5. CASE Discard \/ OpenScenario
  <2>1. ScenarioChanged(entities', editingPath) /\ handles' \in BOOLEAN
    BY <1>2, <1>5 DEF Discard, OpenScenario
  <2> QED BY <1>3, <1>5, <2>1 DEF Discard, OpenScenario
<1>6. CASE PlaceOther \/ Esc \/ EscPlacement
  <2>1. UNCHANGED panels /\ handles' \in BOOLEAN
    BY <1>2, <1>6 DEF PlaceOther, Esc, EscPlacement, ModeFollowed
  <2> QED BY <1>2, <2>1 DEF panels
<1>7. ASSUME NEW path \in tree \union {None}, Select(path) PROVE Goal
  <2>1. /\ panel' = IF path = None THEN NoPanel ELSE PanelFor(path, entities)
        /\ selected' = path /\ tree' = tree /\ handles' = handles /\ applying' = Orphan
    BY <1>7 DEF Select
  <2>2. PanelOK(NoPanel)
    BY EmptyPanel
  <2>3. ASSUME path # None PROVE PanelOK(PanelFor(path, entities))
    <3>1. path \in DOMAIN entities
      BY <2>3 DEF PanelsInv, TreeMirrorsScenario
    <3>2. /\ PanelFor(path, entities) \in [path : Names \union {None}, value : Shapes,
                                           committed : Shapes, dirty : BOOLEAN]
          /\ PanelFor(path, entities).path = path
      BY <3>1, PanelForTypes DEF PanelTypes, ScenarioTypes
    <3> QED BY <3>2, <2>3 DEF PanelOK
  <2> QED BY <1>2, <2>1, <2>2, <2>3, OrphanTypes
<1>8. ASSUME NEW shape \in Shapes, EditField(shape) PROVE Goal
  BY <1>2, <1>8 DEF EditField, PanelOK
<1>9. CASE Reset
  <2>1. panel.path # None
    BY <1>2, <1>9, EmptyPanel DEF Reset, PanelOK
  <2>2. PanelOK(panel') /\ panel'.path = panel.path
    BY <1>2, <1>9, <2>1 DEF Reset, PanelOK
  <2> QED BY <1>2, <1>9, <2>1, <2>2 DEF Reset
<1>10. CASE Apply
  <2>1. /\ panel.dirty
        /\ applying' = [path |-> panel.path, dto |-> panel.value, live |-> TRUE, depth |-> Len(stack)]
        /\ entities' = [entities EXCEPT ![panel.path].shape = panel.value]
        /\ ScenarioChanged(entities', editingPath) /\ handles' = handles
    BY <1>10 DEF Apply
  <2>2. panel.path # None /\ panel.path \in Names /\ panel.value \in Shapes
    BY <1>2, <2>1 DEF PanelOK, NoPanel
  <2>3. Len(stack) \in 0..MaxDepth
    BY MapAssumption DEF PanelTypes, ScenarioTypes, MapAssumption
  <2>4. ApplyOK(applying')
    BY <2>1, <2>2, <2>3 DEF ApplyOK
  <2>5. ~Rebuilds(entities')
    BY <2>1 DEF Rebuilds, PanelsInv, TreeMirrorsScenario
  <2> QED BY <1>1, <1>2, <2>1, <2>2, <2>4, <2>5, ReactionTypes
<1>11. CASE ApplyReturns
  <2>1. /\ applying # None /\ applying' = None
        /\ panel' = IF applying.live
                    THEN [panel EXCEPT !.committed = applying.dto, !.dirty = FALSE] ELSE panel
        /\ UNCHANGED <<tree, selected, handles>>
    BY <1>11 DEF ApplyReturns
  <2>2. applying.dto \in Shapes /\ (applying.live => panel.path # None)
    BY <1>2, <2>1 DEF ApplyOK
  <2>3. PanelOK(panel')
    BY <1>2, <2>1, <2>2 DEF PanelOK
  <2> QED BY <1>2, <2>1, <2>3 DEF ApplyOK
<1>12. ASSUME NEW shape \in Shapes, MouseUp(shape) \/ EditingStop(shape) PROVE Goal
  <2>1. /\ ScenarioChanged(entities', editingPath) /\ applying' = applying
        /\ handles' \in BOOLEAN /\ DOMAIN entities' = DOMAIN entities
    BY <1>2, <1>12 DEF MouseUp, EditingStop, Dragged
  <2>2. ~Rebuilds(entities')
    BY <2>1 DEF Rebuilds, PanelsInv, TreeMirrorsScenario
  <2> QED BY <1>3, <2>1, <2>2
<1>13. CASE StartEditing
  BY <1>2, <1>13 DEF StartEditing, panels
<1>14. CASE UNCHANGED vars
  BY <1>2, <1>14 DEF vars, panels
<1> QED
  BY <1>4, <1>5, <1>6, <1>7, <1>8, <1>9, <1>10, <1>11, <1>12, <1>13, <1>14 DEF PanelsNext

LEMMA PanelTypesInvariant == PanelsSpec => []PanelTypes
<1>1. ASSUME PanelsInit PROVE PanelTypes
  <2>1. ScenarioTypes
    BY <1>1, MapAssumption DEF PanelsInit, Init, ScenarioTypes, MapAssumption
  <2>2. PanelsTypeOK /\ ApplyHasPanel
    BY <1>1, EmptyAndOne DEF PanelsInit, PanelsTypeOK, ApplyHasPanel, NoPanel
  <2> QED BY <2>1, <2>2 DEF PanelTypes
<1>2. PanelTypes /\ PanelsInv /\ PanelsInv' /\ [PanelsNext]_vars => PanelTypes'
  BY PanelTypesStep
<1> QED BY <1>1, <1>2, PanelsAgree, PTL DEF PanelsSpec

\* The types of tree, panel, suspended Apply and handles, for any places and
\* nesting; without a selection the panel is empty.
THEOREM PanelTypesHold == PanelsSpec => []PanelsTypeOK
BY PanelTypesInvariant, PTL DEF PanelTypes

\* An Apply whose pump lets another entity be selected, or its own be deleted,
\* leaves the panel that is then shown as it is (EntityViewModelBase.Apply).
THEOREM AppliesSpareOthers == PanelsSpec => ApplySparesOthers
<1>1. PanelTypes => [ApplyReturns /\ panel.path # applying.path => panel' = panel]_vars
  BY DEF PanelTypes, ApplyHasPanel, PanelsTypeOK, ApplyReturns
<1> QED BY <1>1, PanelTypesInvariant, PTL DEF PanelsSpec, ApplySparesOthers

\* What a drag does to the panel: its entity's panel follows and becomes dirty,
\* another entity's panel stays as it is.
LEMMA DragStep ==
  ASSUME PanelsInv, Dragging
  PROVE  /\ panel.path = editingPath =>
              panel'.dirty /\ panel'.value = entities'[editingPath].shape
         /\ panel.path # editingPath => panel' = panel
<1>1. PICK p \in Points : MouseUp(<<p>>) \/ EditingStop(<<p>>)
  BY DEF Dragging
<1>2. Dragged(<<p>>) /\ ScenarioChanged(entities', editingPath) /\ editingPath # None
  BY <1>1 DEF MouseUp, EditingStop, PanelsInv, HandlesFollowMode
<1>3. DOMAIN entities' = DOMAIN entities
  BY <1>2 DEF Dragged
<1>4. panel' = Refreshed(panel, entities', editingPath)
  BY <1>2, <1>3 DEF ScenarioChanged, Rebuilds, PanelsInv, TreeMirrorsScenario
<1> QED BY <1>2, <1>4 DEF Refreshed, PanelFor

\* A drag reaches the panel of the dragged entity before the edit is forgotten.
THEOREM DragsReachThePanel == PanelsSpec => DragReachesPanel
<1>1. PanelsInv /\ [PanelsNext]_vars =>
        [Dragging /\ panel.path = editingPath =>
           panel'.dirty /\ panel'.value = entities'[editingPath].shape]_vars
  BY DragStep
<1> QED BY <1>1, PanelsAgree, PTL DEF PanelsSpec, DragReachesPanel

\* A drag leaves the unsaved edits of another entity's panel alone.
THEOREM DragsSpareOthers == PanelsSpec => OthersKeepTheirEdits
<1>1. PanelsInv /\ [PanelsNext]_vars => [Dragging /\ panel.path # editingPath => panel' = panel]_vars
  BY DragStep
<1> QED BY <1>1, PanelsAgree, PTL DEF PanelsSpec, OthersKeepTheirEdits

===============================================================================

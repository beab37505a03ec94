----------------------------- MODULE EditorPanels -----------------------------
(***************************************************************************)
(* mvp4: the object tree, the property panel and editing on the map, over   *)
(* the placement of MapPlacement.  Every change of the scenario raises      *)
(* ScenarioChanged, to which first the tree and then the panel react.       *)
(***************************************************************************)
EXTENDS MapPlacement

VARIABLES
  tree,      \* paths of ObjectTreeViewModel.Nodes
  selected,  \* SelectedPath
  panel,     \* PropertyPanelHostViewModel.Current, or NoPanel
  applying,  \* the Apply suspended in its pump and the path of its panel, or None
  handles    \* StkDisplayHost._editingActive: STK shows drag handles

panels == <<tree, selected, panel, applying>>
vars == <<mapVars, panels, handles>>

NoPanel == [path |-> None, value |-> <<>>, committed |-> <<>>, dirty |-> FALSE]

Shapes == {<<>>} \union {<<p>> : p \in Points}

-----------------------------------------------------------------------------
(* ScenarioChanged.                                                         *)

\* A panel made for path, from the entities e.
PanelFor(path, e) ==
  [path |-> path, value |-> e[path].shape, committed |-> e[path].shape, dirty |-> FALSE]

\* An Apply that is under way ends in a view model nobody shows any more.
Orphan == IF applying = None THEN None ELSE [applying EXCEPT !.live = FALSE]

\* Fault: the tree is rebuilt if the number of entities has changed.
FaultRebuilds(e) == Cardinality(tree) # Cardinality(DOMAIN e)

Rebuilds(e) == tree # DOMAIN e

RebuildFromService(e) ==
  IF selected \in DOMAIN e THEN PanelFor(selected, e) ELSE NoPanel

\* The panel's own handler: Refresh, MarkDirty.
Refreshed(shown, e, ep) ==
  IF ep # None /\ shown.path = ep
  THEN [PanelFor(ep, e) EXCEPT !.dirty = TRUE] ELSE shown

\* The scenario has become e while ep was being edited.
ScenarioChanged(e, ep) ==
  /\ tree' = DOMAIN e
  /\ selected' = IF selected \in DOMAIN e THEN selected ELSE None
  /\ panel' = Refreshed(IF Rebuilds(e) THEN RebuildFromService(e) ELSE panel, e, ep)

-----------------------------------------------------------------------------
PanelsInit ==
  /\ Init
  /\ tree = {} /\ selected = None /\ panel = NoPanel /\ applying = None
  /\ handles = FALSE

\* StkDisplayHost on ModeChanged, when the mode is not the editing mode.
ModeFollowed == handles' = (handles /\ mode' = "EditingEntity")

\* A finalization returns from its pump before what it suspended.
Innermost == applying # None => applying.depth < Len(stack)

\* The placement with tree and panel; an entity appears or gets its shape.
Place ==
  /\ \/ \E p \in Points : PlaceFacility(p)
     \/ AddReturns /\ Innermost
  /\ ScenarioChanged(entities', editingPath)
  /\ applying' = IF Rebuilds(entities') THEN Orphan ELSE applying
  /\ ModeFollowed

PlaceOther ==
  /\ \/ \E kind \in Kinds : BeginPlace(kind)
     \/ (UpdateFails \/ UpdateReturns) /\ Innermost
  /\ ModeFollowed /\ UNCHANGED panels

\* Delete in the tree, and File > New.
Discard ==
  /\ RemoveEntity(selected) \/ NewScenario
  /\ ScenarioChanged(entities', editingPath)
  /\ applying' = IF Rebuilds(entities') THEN Orphan ELSE applying
  /\ UNCHANGED handles

\* File > Open: the file has some entities in some places.
OpenScenario ==
  /\ \E names \in SUBSET Names : \E shape \in [names -> {<<p>> : p \in Points}] :
       entities' = [n \in names |-> [shape |-> shape[n], gesture |-> 0]]
  /\ gone' = gone \union SuspendedNames
  /\ ScenarioChanged(entities', editingPath)
  /\ applying' = IF Rebuilds(entities') THEN Orphan ELSE applying
  /\ UNCHANGED <<controller, stack, host, gesture, drawn, handles>>

-----------------------------------------------------------------------------
(* The tree and the panel.                                                  *)

Select(path) ==
  /\ path # selected
  /\ selected' = path
  /\ panel' = IF path = None THEN NoPanel ELSE PanelFor(path, entities)
  /\ applying' = Orphan
  /\ UNCHANGED <<mapVars, tree, handles>>

EditField(shape) ==
  /\ panel # NoPanel /\ shape # panel.value
  /\ panel' = [panel EXCEPT !.value = shape, !.dirty = TRUE]
  /\ UNCHANGED <<mapVars, tree, selected, applying, handles>>

Reset ==
  /\ panel.dirty
  /\ panel' = [panel EXCEPT !.value = panel.committed, !.dirty = FALSE]
  /\ UNCHANGED <<mapVars, tree, selected, applying, handles>>

\* DoApply up to the pump of UpdateFacility.
Apply ==
  /\ panel.dirty /\ applying = None
  /\ entities' = [entities EXCEPT ![panel.path].shape = panel.value]
  /\ ScenarioChanged(entities', editingPath)
  /\ applying' = [path |-> panel.path, dto |-> panel.value, live |-> TRUE, depth |-> Len(stack)]
  /\ UNCHANGED <<controller, stack, host, history, handles>>

\* Fault: the dirty flag of whatever panel is shown is cleared.
FaultApplyReturns ==
  /\ applying # None /\ applying.depth = Len(stack)
  /\ panel' = [panel EXCEPT !.committed = applying.dto, !.dirty = FALSE]
  /\ applying' = None
  /\ UNCHANGED <<mapVars, tree, selected, handles>>

\* After the pump.
ApplyReturns ==
  /\ applying # None /\ applying.depth = Len(stack)
  /\ panel' = IF applying.live
              THEN [panel EXCEPT !.committed = applying.dto, !.dirty = FALSE] ELSE panel
  /\ applying' = None
  /\ UNCHANGED <<mapVars, tree, selected, handles>>

-----------------------------------------------------------------------------
(* Editing on the map.                                                      *)

\* A double click in the tree; STK may refuse to show handles.
StartEditing ==
  /\ selected # None
  /\ StartEditingOnMap(selected)
  /\ handles' \in BOOLEAN
  /\ UNCHANGED panels

\* STK has the drag handles at shape.
Dragged(shape) ==
  entities' = [n \in DOMAIN entities |->
                 IF handles /\ n = editingPath THEN [entities[n] EXCEPT !.shape = shape]
                 ELSE entities[n]]

\* ApplyObjectEditing, which without handles throws: the event is raised anyway.
MouseUp(shape) ==
  /\ mode = "EditingEntity"
  /\ Dragged(shape)
  /\ ScenarioChanged(entities', editingPath)
  /\ UNCHANGED <<controller, stack, host, history, applying, handles>>

\* Fault: the controller leaves the edit before the event is raised.
FaultEditingStop(shape) ==
  /\ handles
  /\ Dragged(shape)
  /\ ScenarioChanged(entities', None)
  /\ editingPath' = None /\ ReturnToIdle /\ handles' = FALSE
  /\ UNCHANGED <<stack, history, applying>>

\* STK accepts the edit by itself.
EditingStop(shape) ==
  /\ handles
  /\ Dragged(shape)
  /\ ScenarioChanged(entities', editingPath)
  /\ editingPath' = None /\ ReturnToIdle /\ handles' = FALSE
  /\ UNCHANGED <<stack, history, applying>>

\* Enter (ApplyEdit), Esc (Cancel) and STK's own cancel (CancelEdit) do the same:
\* StopObjectEditing(true) drops what no mouse release has applied.
Esc == EndEdit /\ ModeFollowed /\ UNCHANGED panels

\* Esc while an entity is placed.
EscPlacement ==
  /\ Placing /\ Cancel
  /\ UNCHANGED <<panels, handles>>

-----------------------------------------------------------------------------
PanelsNext ==
  \/ Esc
  \/ Place \/ PlaceOther \/ Discard \/ OpenScenario
  \/ \E path \in tree \union {None} : Select(path)
  \/ \E shape \in Shapes \ {<<>>} : EditField(shape) \/ MouseUp(shape) \/ EditingStop(shape)
  \/ Reset \/ Apply \/ ApplyReturns
  \/ StartEditing \/ EscPlacement

PanelsSpec == PanelsInit /\ [][PanelsNext]_vars

-----------------------------------------------------------------------------
(* Properties.                                                              *)

\* Types of what this module adds; without a selection the panel is empty.
PanelsTypeOK ==
  /\ tree \subseteq Names
  /\ selected \in Names \union {None}
  /\ panel \in [path : Names \union {None}, value : Shapes, committed : Shapes, dirty : BOOLEAN]
  /\ panel.path = None => panel = NoPanel
  /\ applying = None \/ applying \in [path : Names, dto : Shapes, live : BOOLEAN, depth : 0..MaxDepth]
  /\ handles \in BOOLEAN

\* Whatever the order of clicks, pumps and events, the tree shows what STK has
\* and the panel shows the selection (RebuildFromService and UpdateCurrent).
TreeMirrorsScenario ==
  /\ tree = DOMAIN entities
  /\ selected \in tree \union {None}
  /\ panel.path = selected

\* STK shows handles only while the controller edits: nothing that interrupts an
\* edit leaves them behind (StkDisplayHost._onModeChanged).
HandlesFollowMode == handles => mode = "EditingEntity"

Dragging == \E p \in Points : MouseUp(<<p>>) \/ EditingStop(<<p>>)

\* "After dragging an edit handle and releasing, the panel auto-refreshes from
\* STK and Apply enables": the event is raised before the controller forgets
\* what is edited (_onEditingStop).
DragReachesPanel ==
  [][Dragging /\ panel.path = editingPath =>
       panel'.dirty /\ panel'.value = entities'[editingPath].shape]_vars

\* An Apply that returns from its pump to find another entity's panel, or none,
\* leaves it as it is, its unsaved edits above all (EntityViewModelBase.Apply).
ApplySparesOthers == [][ApplyReturns /\ panel.path # applying.path => panel' = panel]_vars

\* A drag of one entity does not touch the unsaved edits in the panel of another
\* (PropertyPanelHostViewModel's handler).
OthersKeepTheirEdits == [][Dragging /\ panel.path # editingPath => panel' = panel]_vars
===============================================================================

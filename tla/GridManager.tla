---------------------------- MODULE GridManager -----------------------------
(***************************************************************************)
(* GridManager (zAoi/grid_aoi.go): entities on a map cut into cells.  An   *)
(* entity sees the entities of its own and the eight surrounding cells;    *)
(* adding, removing and moving one produces the events that tell each      *)
(* watcher who entered, left or moved.  The events are computed under the  *)
(* lock and given to the listener one by one after it.  The map has one    *)
(* writer, as the documents require of the layer above.  view is what a    *)
(* watcher who applies its events believes.                                *)
(***************************************************************************)
EXTENDS Integers, Sequences, SequencesExt, FiniteSets

CONSTANTS Entities, Xs, Ys, mapWidth, mapHeight, gridWidth, gridHeight

VARIABLES
  entities,     \* gm.entities: [gridID, coord] of each entity on the map
  grids,        \* gm.grids: for each cell that exists, the coordinates of its entities
  pending,      \* the events of the call under way that the listener has still to get
  view          \* for each watcher, the coordinates of the entities it has been told of

aoiVars == <<entities, grids, pending, view>>

Coords == [x : Xs, y : Ys]
Empty == [k \in {} |-> 0]
Put(f, k, v) == [x \in DOMAIN f \cup {k} |-> IF x = k THEN v ELSE f[x]]
Drop(f, k) == [x \in DOMAIN f \ {k} |-> f[x]]

AoiInit == entities = Empty /\ grids = Empty /\ pending = <<>> /\ view = [e \in Entities |-> Empty]

-----------------------------------------------------------------------------
(* Cells *)

Ceil(a, b) == (a + b - 1) \div b
gridCols == Ceil(mapWidth, gridWidth)
gridRows == Ceil(mapHeight, gridHeight)

\* gridAxis; coordinates outside the map belong to the cells at its edge.
GridAxis(value, mapSize, gridSize, count) ==
  CASE value <= 0 -> 0
    [] value >= mapSize -> count - 1
    [] OTHER -> value \div gridSize

GetGridID(coord) ==
  GridAxis(coord.y, mapHeight, gridHeight, gridRows) * gridCols + GridAxis(coord.x, mapWidth, gridWidth, gridCols)

GetSurroundingGridIDs(id) ==
  {ny * gridCols + nx : nx \in {n \in 0..gridCols - 1 : n - (id % gridCols) \in -1..1},
                        ny \in {n \in 0..gridRows - 1 : n - (id \div gridCols) \in -1..1}}

\* visibleEntitiesLocked: the coordinates by entity, those of e left out.
Visible(id, e) ==
  LET cells == GetSurroundingGridIDs(id) \cap DOMAIN grids
      seen == (UNION {DOMAIN grids[c] : c \in cells}) \ {e}
  IN [t \in seen |-> grids[CHOOSE c \in cells : t \in DOMAIN grids[c]][t]]

\* grid.Remove, and the cell itself when it was the last entity
RemoveFrom(g, id, e) ==
  IF DOMAIN g[id] = {e} THEN Drop(g, id) ELSE [g EXCEPT ![id] = Drop(@, e)]

\* getOrCreateGridLocked and grid.Add
AddTo(g, id, e, coord) == Put(g, id, Put(IF id \in DOMAIN g THEN g[id] ELSE Empty, e, coord))

-----------------------------------------------------------------------------
(* Events, for the entities of a set in the order of their ids *)

Event(type, watcher, target, coord) == [type |-> type, watcher |-> watcher, target |-> target, coord |-> coord]

SortedEntityIDs(ids) == SetToSortSeq(ids, <)

\* The events of a loop over the sorted ids
ForEach(ids, Events(_)) == FlattenSeq([i \in 1..Cardinality(ids) |-> Events(SortedEntityIDs(ids)[i])])

\* The events of AddEntity tell the other first, those of a move the entity.
EnterOthers(e, coord, others) ==
  ForEach(DOMAIN others, LAMBDA o : <<Event("enter", o, e, coord), Event("enter", e, o, others[o])>>)

EnterBoth(e, coord, others) ==
  ForEach(DOMAIN others, LAMBDA o : <<Event("enter", e, o, others[o]), Event("enter", o, e, coord)>>)

LeaveBoth(e, coord, others) ==
  ForEach(DOMAIN others, LAMBDA o : <<Event("leave", e, o, others[o]), Event("leave", o, e, coord)>>)

Minus(f, g) == [t \in DOMAIN f \ DOMAIN g |-> f[t]]

\* A watcher that keeps seeing the entity is not told that it moved
BuildMoveEventsMutant(e, old, new, oldVisible, newVisible) ==
  LeaveBoth(e, old, Minus(oldVisible, newVisible)) \o EnterBoth(e, new, Minus(newVisible, oldVisible))

BuildMoveEvents(e, old, new, oldVisible, newVisible) ==
  LeaveBoth(e, old, Minus(oldVisible, newVisible))
  \o EnterBoth(e, new, Minus(newVisible, oldVisible))
  \o ForEach(DOMAIN oldVisible \cap DOMAIN newVisible, LAMBDA o : <<Event("move", o, e, new)>>)

-----------------------------------------------------------------------------
(* Operations: the critical section; a duplicate or unknown entity is an error *)

AddEntity(e, coord) ==
  /\ pending = <<>> /\ e \notin DOMAIN entities
  /\ entities' = Put(entities, e, [gridID |-> GetGridID(coord), coord |-> coord])
  /\ grids' = AddTo(grids, GetGridID(coord), e, coord)
  /\ pending' = EnterOthers(e, coord, Visible(GetGridID(coord), e))
  /\ UNCHANGED view

RemoveEntity(e) ==
  /\ pending = <<>> /\ e \in DOMAIN entities
  /\ entities' = Drop(entities, e)
  /\ grids' = RemoveFrom(grids, entities[e].gridID, e)
  /\ pending' = LeaveBoth(e, entities[e].coord, Visible(entities[e].gridID, e))
  /\ UNCHANGED view

MoveEntityTo(e, coord) ==
  /\ pending = <<>> /\ e \in DOMAIN entities
  /\ LET old == entities[e].gridID
         new == GetGridID(coord)
     IN /\ grids' = IF old = new THEN [grids EXCEPT ![old][e] = coord]
                                ELSE AddTo(RemoveFrom(grids, old, e), new, e, coord)
        /\ entities' = [entities EXCEPT ![e] = [gridID |-> new, coord |-> coord]]
        /\ pending' = BuildMoveEvents(e, entities[e].coord, coord, Visible(old, e), Visible(new, e))
  /\ UNCHANGED view

\* emitAOIEvents: the listener applies the next event to its watcher's view.
EmitAOIEvents ==
  /\ pending # <<>>
  /\ LET ev == Head(pending) IN
     view' = [view EXCEPT ![ev.watcher] = IF ev.type = "leave" THEN Drop(@, ev.target)
                                          ELSE Put(@, ev.target, ev.coord)]
  /\ pending' = Tail(pending)
  /\ UNCHANGED <<entities, grids>>

AoiNext ==
  \/ \E e \in Entities, c \in Coords : AddEntity(e, c) \/ MoveEntityTo(e, c)
  \/ \E e \in Entities : RemoveEntity(e)
  \/ EmitAOIEvents

AoiSpec == AoiInit /\ [][AoiNext]_aoiVars

-----------------------------------------------------------------------------
(* Properties *)

\* Seeing by its definition, from the coordinates alone: clamped to the map, two points see each
\* other when their cells differ by at most one in each direction.
Sees(a, b) ==
  LET Cell(v, mapSize, gridSize) == (IF v < 0 THEN 0 ELSE IF v >= mapSize THEN mapSize - 1 ELSE v) \div gridSize
  IN /\ Cell(a.x, mapWidth, gridWidth) - Cell(b.x, mapWidth, gridWidth) \in -1..1
     /\ Cell(a.y, mapHeight, gridHeight) - Cell(b.y, mapHeight, gridHeight) \in -1..1

\* The events are a complete two-way delta ("moves produce two-way leave/enter from the old and
\* new visible sets, and move only for real watchers"): a watcher that applies the events of any
\* sequence of adds, removes and moves knows, after each call, exactly the entities it sees, at
\* their current coordinates; an entity that is off the map knows and is known by nobody.
ViewsExact ==
  pending = <<>> =>
    \A w \in Entities :
      view[w] = LET seen == {t \in DOMAIN entities \ {w} :
                               w \in DOMAIN entities /\ Sees(entities[w].coord, entities[t].coord)}
                IN [t \in seen |-> entities[t].coord]
=============================================================================

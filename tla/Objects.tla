------------------------------ MODULE Objects -------------------------------
(***************************************************************************)
(* Objects of src/src/mud/object.cc on top of their blueprints: creation   *)
(* from a blueprint (load_blueprint), add_object with the set_owner /      *)
(* owner_release hand-over the header entity.h prescribes, the cached     *)
(* calc_weight of recalc_weight, and heartbeat's trash and rot timer.     *)
(*                                                                         *)
(* Room and Character are not in the sources.  The room an object lies in *)
(* is the owner Room; the game moves objects to it, which goes through     *)
(* set_owner and so through the old owner's owner_release as add_object   *)
(* does, and players enter and leave it.  A character carrying an object  *)
(* is left out: heartbeat ignores such objects as it ignores contents.   *)
(* Entity::destroy is taken to release the object from its owner.         *)
(* object.h is not in the sources either:                                  *)
(* get_weight is taken to be the blueprint's weight plus calc_weight.     *)
(***************************************************************************)
EXTENDS Blueprint

CONSTANTS
    Objs,        \* the objects the game may create
    ObjId,       \* the blueprint id each object is created from
    RotTicks,    \* OBJECT_ROT_TICKS
    TrashTicks,  \* OBJECT_TRASH_TICKS
    MaxWeight    \* bound on the calc_weight values explored

Room == "room"
NoType == "none"      \* ContainerType::NONE

VARIABLES
    obj,        \* per object: [st, bp, owner, location, calc, timer]
    children,   \* per object: its children list
    players     \* players in the room

vars == <<bpVars, obj, children, players>>

Live == {o \in Objs : obj[o].st = "live"}

\* get_real_weight and get_weight, in the object table ob.
RealWeight(ob, o) == bps[ob[o].bp].val.weight
GetWeight(ob, o) == RealWeight(ob, o) + ob[o].calc

\* is_trashable, is_rotting and has_container ask the blueprint.
IsTrashable(o) == bps[obj[o].bp].val.trashable
IsRotting(o) == bps[obj[o].bp].val.rotting
ObjHasContainer(c, t) == HasContainer(bps, obj[c].bp, t)

\* recalc_weight: the weights of the children IN or ON the object.
RecalcWeight(ob, kids) ==
    FoldLeft(LAMBDA w, k : IF ob[k].location \in {"in", "on"} THEN w + GetWeight(ob, k) ELSE w,
             0, kids)

OwnerReleaseKeeps(kids, o) == kids

\* Object::owner_release: the child is erased from the list (its
\* location becomes NONE).
OwnerRelease(kids, o) == SelectSeq(kids, LAMBDA k : k # o)

\* The owners an object's owner chain passes through (get_room's walk).
OwnerChain(o) ==
    LET o1 == obj[o].owner
        o2 == IF o1 \in Objs THEN obj[o1].owner ELSE o1
        o3 == IF o2 \in Objs THEN obj[o2].owner ELSE o2
    IN  {o1, o2, o3}

-----------------------------------------------------------------------------
(* Actions *)

\* load_blueprint(ObjId[o]) and the room taking the new object.
Create(o) ==
    /\ Ready
    /\ obj[o].st = "unborn"
    /\ ObjId[o] \in DOMAIN index    \* load_blueprint returns NULL otherwise
    /\ obj' = [obj EXCEPT ![o] = [st |-> "live", bp |-> index[ObjId[o]], owner |-> Room,
                                  location |-> NoType, calc |-> 0, timer |-> 0]]
    /\ UNCHANGED <<bpVars, children, players>>

\* c.add_object(o, t): fails unless c's blueprint chain has the
\* container; otherwise set_owner (the old owner releases o), the
\* location, the list, then recalc_weight of c and of c's owner when
\* that is an object.  Callers never put an object inside itself.
AddObject(c, o, t) ==
    /\ {c, o} \subseteq Live
    /\ c # o /\ o \notin OwnerChain(c)
    /\ ObjHasContainer(c, t)
    /\ LET old   == obj[o].owner
           kids1 == IF old \in Objs THEN [children EXCEPT ![old] = OwnerRelease(@, o)]
                    ELSE children
           kids2 == [kids1 EXCEPT ![c] = Append(@, o)]
           o1    == [obj EXCEPT ![o].owner = c, ![o].location = t]
           o2    == [o1 EXCEPT ![c].calc = RecalcWeight(o1, kids2[c])]
           up    == o2[c].owner
           o3    == IF up \in Objs
                    THEN [o2 EXCEPT ![up].calc = RecalcWeight(o2, kids2[up])]
                    ELSE o2
       IN  /\ \A x \in Objs : o3[x].calc <= MaxWeight
           /\ children' = kids2
           /\ obj' = o3
    /\ UNCHANGED <<bpVars, players>>

\* The room takes o (a character drops it, takes it out of a container):
\* set_owner, so the old owner releases it.
MoveTo(o, r) ==
    /\ o \in Live
    /\ obj[o].owner # r
    /\ LET old == obj[o].owner
       IN  children' = IF old \in Objs THEN [children EXCEPT ![old] = OwnerRelease(@, o)]
                       ELSE children
    /\ obj' = [obj EXCEPT ![o].owner = r, ![o].location = NoType]
    /\ UNCHANGED <<bpVars, players>>

HeartbeatNoCount(o) ==
    /\ o \in Live
    /\ IsTrashable(o)
    /\ obj[o].owner = Room
    /\ \/ /\ IsRotting(o) /\ obj[o].timer >= RotTicks
          /\ obj' = [obj EXCEPT ![o].st = "dead"]
       \/ /\ ~(IsRotting(o) /\ obj[o].timer >= RotTicks)
          /\ obj[o].timer >= TrashTicks
          /\ players = 0
          /\ obj' = [obj EXCEPT ![o].st = "dead"]
    /\ UNCHANGED <<bpVars, children, players>>

\* heartbeat of a trashable object lying in the room: rot away once the
\* timer reaches RotTicks, be trashed once it reaches TrashTicks if no
\* player is in the room, count otherwise.  Steps that change nothing
\* are left out.
Heartbeat(o) ==
    /\ o \in Live
    /\ IsTrashable(o)
    /\ obj[o].owner = Room
    /\ \/ /\ IsRotting(o) /\ obj[o].timer >= RotTicks
          /\ obj' = [obj EXCEPT ![o].st = "dead"]
       \/ /\ ~(IsRotting(o) /\ obj[o].timer >= RotTicks)
          /\ obj[o].timer >= TrashTicks
          /\ players = 0
          /\ obj' = [obj EXCEPT ![o].st = "dead"]
       \/ /\ ~(IsRotting(o) /\ obj[o].timer >= RotTicks)
          /\ obj[o].timer < TrashTicks
          /\ obj' = [obj EXCEPT ![o].timer = @ + 1]
    /\ UNCHANGED <<bpVars, children, players>>

\* Object::load_finish runs recalc_weight on each object once its
\* children are loaded, so weights settle from the leaves up: a pass per
\* level of nesting.
Settle(ob) == [o \in Objs |-> [ob[o] EXCEPT !.calc = RecalcWeight(ob, children[o])]]

\* The zone is saved and loaded again (Object::save, load_node,
\* load_finish).  Every object lying in the room is written with its
\* location and its children, in list order, and read back as a new
\* Object: same blueprint, owner, location and children, trash_timer 0
\* (it is not saved), calc_weight recomputed.  Destroyed objects and
\* what they held are not saved.
ObjReload ==
    LET kept(o) == obj[o].st = "live" /\ \A x \in OwnerChain(o) \cap Objs : obj[x].st = "live"
        ob1     == [o \in Objs |-> IF kept(o) THEN [obj[o] EXCEPT !.timer = 0]
                                  ELSE [obj[o] EXCEPT !.st = IF @ = "unborn" THEN @ ELSE "dead"]]
    IN  /\ obj' = Settle(Settle(Settle(ob1)))
        /\ UNCHANGED <<bpVars, children, players>>

\* A player enters or leaves the room.
Enter == players = 0 /\ players' = 1 /\ UNCHANGED <<bpVars, obj, children>>
Leave == players = 1 /\ players' = 0 /\ UNCHANGED <<bpVars, obj, children>>

ObjInit ==
    /\ BpInit
    /\ obj = [o \in Objs |-> [st |-> "unborn", bp |-> NoSlot, owner |-> Room,
                              location |-> NoType, calc |-> 0, timer |-> 0]]
    /\ children = [o \in Objs |-> << >>]
    /\ players = 0

ObjNext ==
    \/ \E f \in DOMAIN Files : ReadFile(f) /\ UNCHANGED <<obj, children, players>>
    \/ \E o \in Objs : Create(o)
    \/ \E c, o \in Objs, t \in Types : AddObject(c, o, t)
    \/ \E o \in Objs : MoveTo(o, Room)
    \/ \E o \in Objs : Heartbeat(o)
    \/ Enter
    \/ Leave

-----------------------------------------------------------------------------
(* Properties *)

\* Every live object sits in exactly the children list of the object that
\* owns it, once, and in no other; an object not owned by an object has
\* no location.  add_object, set_owner and owner_release must hand an
\* object over between containers, the room and the holder without
\* leaving it behind or listing it twice.
ContainmentConsistent ==
    \A o \in Live :
        /\ \A c \in Objs :
               Cardinality({i \in DOMAIN children[c] : children[c][i] = o})
                 = IF obj[o].owner = c THEN 1 ELSE 0
        /\ (obj[o].location = NoType) <=> (obj[o].owner \notin Objs)

\* calc_weight of every object is the weight of what lies in or on it:
\* recalc_weight runs whenever the contents change.
WeightCached ==
    \A c \in Live : obj[c].calc = RecalcWeight(obj, children[c])

\* A trashable object left lying in an empty room is eventually trashed
\* or rotted away by heartbeat, unless it is taken or a player comes in.
TrashedWhenLeft ==
    \A o \in Objs :
        (o \in Live /\ obj[o].owner = Room /\ players = 0 /\ IsTrashable(o))
          ~> (obj[o].st = "dead" \/ obj[o].owner # Room \/ players = 1)
=============================================================================

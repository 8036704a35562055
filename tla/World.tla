------------------------------- MODULE World --------------------------------
(***************************************************************************)
(* The game world of src/src/mud: the object blueprints and objects of     *)
(* object.cc next to the doors of portal.cc.  The two share no state;      *)
(* they are composed as the game runs them, every step being a step of    *)
(* one of them, so that the checks cover their interleavings.              *)
(***************************************************************************)
EXTENDS Naturals

CONSTANTS Files, Types, Objs, ObjId, RotTicks, TrashTicks, MaxWeight,
          Portals, PRoom, PDir, PTarget, ZoneAttrs, MaxReloads

VARIABLES bps, index, unread, failed, obj, children, players, doors, reloads

vars == <<bps, index, unread, failed, obj, children, players, doors, reloads>>

O == INSTANCE Objects
P == INSTANCE Portal

\* An object's heartbeat, the doors unchanged.
Heartbeat(o) == O!Heartbeat(o) /\ UNCHANGED <<doors, reloads>>

Init == O!ObjInit /\ P!PortalInit

\* The zone file holds both the objects lying in its rooms and its
\* doors: a save and reload rewrites both at once.
ZoneReload == P!Reload /\ O!ObjReload

Next ==
    \/ O!ObjNext /\ UNCHANGED <<doors, reloads>>
    \/ \E p \in Portals : (P!Open(p) \/ P!Close(p) \/ P!Unlock(p) \/ P!Lock(p))
                          /\ UNCHANGED <<bps, index, unread, failed, obj, children, players>>
    \/ ZoneReload

\* The game's update loop calls every active object's heartbeat.
Spec == Init /\ [][Next]_vars /\ \A o \in Objs : WF_vars(Heartbeat(o))

-----------------------------------------------------------------------------
(* Properties, stated in the component modules *)

\* Objects are handed over between owners without being lost or listed
\* twice (add_object, set_owner, owner_release).
ContainmentConsistent == O!ContainmentConsistent

\* calc_weight matches the contents (recalc_weight after every change).
WeightCached == O!WeightCached

\* A trashable object left in an empty room is eventually trashed.
TrashedWhenLeft == O!TrashedWhenLeft

\* Saving a blueprint and loading it back gives the same blueprint.
SavedAsLoaded == O!SavedAsLoaded

\* A parent attribute is resolved once every blueprint file is read.
ParentLinked == O!ParentLinked

\* A door its zone file marks nosync is not synced.
NoSyncHonoured == P!NoSyncHonoured
=============================================================================

------------------------------ MODULE Portal --------------------------------
(***************************************************************************)
(* Doors between rooms, src/src/mud/portal.cc: open, close, lock and      *)
(* unlock, which also set the flag on the portal of the target room that   *)
(* faces back (get_target_portal) when the door is synced, and the zone    *)
(* file round trip of a portal's door flags (save, load_node).             *)
(*                                                                         *)
(* Rooms are not in the sources: get_portal_by_dir is taken to return the *)
(* room's portal in that direction.  Only the door flags are kept; names, *)
(* keywords, texts and scripts do not bear on them.                        *)
(***************************************************************************)
EXTENDS Naturals, Sequences, SequencesExt

CONSTANTS
    Portals,     \* the portals of the zone
    PRoom,       \* the room each portal belongs to
    PDir,        \* its direction
    PTarget,     \* the room it leads to
    ZoneAttrs,   \* each portal's door attributes as the zone file has them
    MaxReloads   \* zone save and reload cycles over a behaviour

NoPortal == "noportal"

\* PortalDir::opposites
Opposite == [d \in {"north", "south", "east", "west"} |->
               CASE d = "north" -> "south" [] d = "south" -> "north"
                 [] d = "east"  -> "west"  [] d = "west"  -> "east"]

VARIABLES
    doors,     \* per portal: [door, closed, locked, synced]
    reloads

portalVars == <<doors, reloads>>

\* The flags a portal is constructed with (RoomExit::Flags).
NoFlags == [door |-> FALSE, closed |-> FALSE, locked |-> FALSE, synced |-> TRUE]

\* get_target_portal: the portal of the target room in the opposite
\* direction, whatever that portal leads to.
TargetPortal(p) ==
    LET back == {q \in Portals : PRoom[q] = PTarget[p] /\ PDir[q] = Opposite[PDir[p]]}
    IN  IF back = {} THEN NoPortal ELSE CHOOSE q \in back : TRUE

\* Set flag f of p to v, and of its target portal when p is synced.
SetSynced(d, p, f, v) ==
    LET other == TargetPortal(p)
    IN  IF d[p].synced /\ other # NoPortal
        THEN [d EXCEPT ![p][f] = v, ![other][f] = v]
        ELSE [d EXCEPT ![p][f] = v]

\* Portal::save, door part: door, then closed, locked and nosync when
\* they differ from the defaults; nothing when the portal is no door.
SavePortal(fl) ==
    LET Attr(k) == [k |-> k, v |-> TRUE]
    IN  IF ~fl.door THEN << >>
        ELSE <<Attr("door")>>
             \o (IF fl.closed THEN <<Attr("closed")>> ELSE << >>)
             \o (IF fl.locked THEN <<Attr("locked")>> ELSE << >>)
             \o (IF ~fl.synced THEN <<Attr("nosync")>> ELSE << >>)

\* One door attribute of Portal::load_node.  "nosync" is passed to
\* set_synced as read.
LoadAttr(fl, a) ==
    CASE a.k = "nosync" -> [fl EXCEPT !.synced = a.v]
      [] OTHER          -> [fl EXCEPT ![a.k] = a.v]

LoadPortal(attrs) == FoldLeft(LoadAttr, NoFlags, attrs)

-----------------------------------------------------------------------------
(* Actions *)

\* open, close, unlock, lock: set the flag, and the facing portal's too
\* when this one is synced.
Open(p)   == doors' = SetSynced(doors, p, "closed", FALSE) /\ UNCHANGED reloads
Close(p)  == doors' = SetSynced(doors, p, "closed", TRUE)  /\ UNCHANGED reloads
Unlock(p) == doors' = SetSynced(doors, p, "locked", FALSE) /\ UNCHANGED reloads
Lock(p)   == doors' = SetSynced(doors, p, "locked", TRUE)  /\ UNCHANGED reloads

\* The zone is saved and loaded again: each portal's door flags go
\* through save and load_node.
Reload ==
    /\ reloads < MaxReloads
    /\ reloads' = reloads + 1
    /\ doors' = [p \in Portals |-> LoadPortal(SavePortal(doors[p]))]

PortalInit ==
    /\ doors = [p \in Portals |-> LoadPortal(ZoneAttrs[p])]
    /\ reloads = 0

-----------------------------------------------------------------------------
(* Properties *)

\* A door its zone file marks "nosync" is not synced: operating it leaves
\* the other side alone.
NoSyncHonoured ==
    \A p \in Portals :
        (\E i \in DOMAIN ZoneAttrs[p] : ZoneAttrs[p][i].k = "nosync" /\ ZoneAttrs[p][i].v)
          => ~doors[p].synced
=============================================================================

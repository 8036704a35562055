CONSTANTS
    Files <- MCFiles
    Types = {"in", "on"}
    Objs = {"o1", "o2", "o3"}
    ObjId <- MCObjId
    RotTicks = 1
    TrashTicks = 1
    MaxWeight = 3
    Portals = {"p1", "p2"}
    PRoom <- MCPRoom
    PDir <- MCPDir
    PTarget <- MCPTarget
    ZoneAttrs <- MCZone
    MaxReloads = 1
SPECIFICATION Spec
INVARIANT ParentLinked

------------------------------ MODULE MCWorld -------------------------------
EXTENDS World

A(k, v) == [k |-> k, v |-> v]

\* Two blueprint files.  "gear" refers to parents in "base", so the order
\* readdir returns them in decides whether the parents resolve.
MCFiles ==
    [f \in {"base", "gear"} |->
       IF f = "base"
       THEN << <<A("id", "sack"), A("container", "in"), A("weight", 1), A("rotting", FALSE)>>,
               <<A("id", "coin"), A("weight", 1), A("roomlist", FALSE)>> >>
       ELSE << <<A("id", "chest"), A("trashable", FALSE), A("container", "on"),
                 A("parent", "sack")>>,
               <<A("id", "apple"), A("parent", "coin")>> >>]

\* The blueprint each object is made from.
MCObjId == [o \in {"o1", "o2", "o3"} |-> CASE o = "o1" -> "sack" [] o = "o2" -> "chest" [] o = "o3" -> "apple"]

\* A door between two rooms, both sides synced.
MCPRoom   == [p \in {"p1", "p2"} |-> IF p = "p1" THEN "hall" ELSE "yard"]
MCPDir    == [p \in {"p1", "p2"} |-> IF p = "p1" THEN "north" ELSE "south"]
MCPTarget == [p \in {"p1", "p2"} |-> IF p = "p1" THEN "yard" ELSE "hall"]
MCZone    == [p \in {"p1", "p2"} |-> <<A("door", TRUE), A("closed", TRUE)>>]

\* The same door with its north side marked nosync in the zone file.
MCZoneNoSync ==
    [p \in {"p1", "p2"} |->
       IF p = "p1" THEN <<A("door", TRUE), A("nosync", TRUE)>> ELSE <<A("door", TRUE)>>]
=============================================================================

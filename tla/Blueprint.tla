----------------------------- MODULE Blueprint ------------------------------
(***************************************************************************)
(* Object blueprints of src/src/mud/object.cc: ObjectBlueprint::load, one  *)
(* attribute at a time, with set_parent and its refresh copying inherited  *)
(* values into every field the blueprint does not set itself;             *)
(* ObjectBlueprint::save; has_container along the parent chain; and       *)
(* SObjectBlueprintManager::initialize, which reads the *.objs files in   *)
(* readdir order and resolves a "parent" attribute by looking the id up   *)
(* among the blueprints read so far.                                       *)
(*                                                                         *)
(* The fields kept are those the rest of the model reads: name, weight,   *)
(* hidden (stored as "roomlist", inverted), trashable and rotting.  desc, *)
(* cost, equip, gettable, touchable and dropable follow the same pattern  *)
(* as weight and trashable.  object.h is not in the sources: set_X is     *)
(* taken to store the value and mark the field set, as reset_X and        *)
(* refresh presuppose.                                                     *)
(***************************************************************************)
EXTENDS Integers, Sequences, SequencesExt, FiniteSets

CONSTANTS
    Files,       \* per *.objs file: its blueprints, each a sequence of attributes
    Types        \* valid ContainerType values

NoId == "noid"
NoSlot == <<>>
Fields == {"name", "weight", "hidden", "trashable", "rotting"}

\* The values reset_X starts from.
Default == [f \in Fields |->
              CASE f = "name"   -> "an object"
                [] f = "weight" -> 0
                [] f = "hidden" -> FALSE
                [] OTHER        -> TRUE]

VARIABLES
    bps,      \* loaded blueprints: slot <<file, position>> -> blueprint
    index,    \* SObjectBlueprintManager.blueprints: id -> slot
    unread,   \* the files initialize has not reached yet
    failed    \* initialize returned -1

bpVars == <<bps, index, unread, failed>>

\* The ObjectBlueprint constructor: nothing set, no parent, no containers.
Fresh == [id |-> NoId, val |-> Default, set |-> [f \in Fields |-> FALSE],
          parent |-> NoSlot, containers |-> {}]

\* set_X(v)
SetField(b, f, v) == [b EXCEPT !.val[f] = v, !.set[f] = TRUE]

\* refresh: every field not set is reset to its default, then to the
\* parent's value.
Refresh(bs, b) ==
    [b EXCEPT !.val = [f \in Fields |->
                         IF b.set[f] THEN b.val[f]
                         ELSE IF b.parent # NoSlot THEN bs[b.parent].val[f]
                         ELSE Default[f]]]

\* set_parent: link, then refresh.
SetParent(bs, b, s) == Refresh(bs, [b EXCEPT !.parent = s])

\* One attribute of ObjectBlueprint::load.
LoadAttr(bs, ix, b, a) ==
    CASE a.k = "id"        -> [b EXCEPT !.id = a.v]
      [] a.k = "roomlist"  -> SetField(b, "hidden", ~a.v)
      [] a.k \in Fields    -> SetField(b, a.k, a.v)
      [] a.k = "container" -> IF a.v \in Types
                              THEN [b EXCEPT !.containers = @ \cup {a.v}] ELSE b
      [] a.k = "parent"    -> IF a.v \in DOMAIN ix THEN SetParent(bs, b, ix[a.v]) ELSE b
      [] OTHER             -> b

Load(bs, ix, attrs) == FoldLeft(LAMBDA b, a : LoadAttr(bs, ix, b, a), Fresh, attrs)

SaveHiddenAsIs(bs, b) ==
    LET Attr(k, v) == [k |-> k, v |-> v]
        Field(f)   == IF b.set[f] THEN <<Attr(f, b.val[f])>> ELSE <<>>
    IN  (IF b.id # NoId THEN <<Attr("id", b.id)>> ELSE <<>>)
        \o Field("name") \o Field("weight")
        \o (IF b.set.hidden THEN <<Attr("roomlist", b.val.hidden)>> ELSE <<>>)
        \o Field("trashable") \o Field("rotting")
        \o (IF b.parent # NoSlot THEN <<Attr("parent", bs[b.parent].id)>> ELSE <<>>)
        \o SetToSeq({Attr("container", t) : t \in b.containers})

\* ObjectBlueprint::save: the id, every set field ("roomlist" is the
\* negation of hidden), the parent's id, the containers.
Save(bs, b) ==
    LET Attr(k, v) == [k |-> k, v |-> v]
        Field(f)   == IF b.set[f] THEN <<Attr(f, b.val[f])>> ELSE <<>>
    IN  (IF b.id # NoId THEN <<Attr("id", b.id)>> ELSE <<>>)
        \o Field("name") \o Field("weight")
        \o (IF b.set.hidden THEN <<Attr("roomlist", ~b.val.hidden)>> ELSE <<>>)
        \o Field("trashable") \o Field("rotting")
        \o (IF b.parent # NoSlot THEN <<Attr("parent", bs[b.parent].id)>> ELSE <<>>)
        \o SetToSeq({Attr("container", t) : t \in b.containers})

\* has_container: this blueprint or one of its ancestors has the type
\* (blueprint chains are at most three deep in the instances checked).
HasContainer(bs, s, t) ==
    LET p1 == bs[s].parent
        p2 == IF p1 # NoSlot THEN bs[p1].parent ELSE NoSlot
    IN  \/ t \in bs[s].containers
        \/ p1 # NoSlot /\ t \in bs[p1].containers
        \/ p2 # NoSlot /\ t \in bs[p2].containers

\* One file of initialize: every blueprint in it is loaded and entered
\* under its id; one without an id makes initialize return -1.
ReadBlueprint(st, f, i) ==
    IF st.fail THEN st
    ELSE LET b == Load(st.bs, st.ix, Files[f][i])
         IN  IF b.id = NoId THEN [st EXCEPT !.fail = TRUE]
             ELSE [st EXCEPT !.bs = (<<f, i>> :> b) @@ @,
                             !.ix = (b.id :> <<f, i>>) @@ @]

\* The readdir loop of initialize reaches file f.
ReadFile(f) ==
    /\ f \in unread
    /\ ~failed
    /\ LET st == FoldLeft(LAMBDA s, i : ReadBlueprint(s, f, i),
                          [bs |-> bps, ix |-> index, fail |-> FALSE],
                          [i \in 1..Len(Files[f]) |-> i])
       IN  /\ bps' = st.bs
           /\ index' = st.ix
           /\ failed' = st.fail
    /\ unread' = unread \ {f}

\* The manager has finished initializing.
Ready == unread = {} /\ ~failed

BpInit ==
    /\ bps = << >>
    /\ index = << >>
    /\ unread = DOMAIN Files
    /\ failed = FALSE

-----------------------------------------------------------------------------
(* Properties *)

\* Writing a blueprint with save and reading the result back with load
\* gives the blueprint again: every set field, hidden through its
\* inverted "roomlist" form, the parent resolved by id, the containers,
\* and the values refresh inherited.
SavedAsLoaded ==
    \A s \in DOMAIN bps : Load(bps, index, Save(bps, bps[s])) = bps[s]

\* Once initialize has read every file, a blueprint whose "parent"
\* attribute names a blueprint of the collection inherits from it.
ParentLinked ==
    Ready =>
      \A s \in DOMAIN bps : \A i \in DOMAIN Files[s[1]][s[2]] :
         LET a == Files[s[1]][s[2]][i]
         IN  (a.k = "parent" /\ a.v \in DOMAIN index)
               => bps[s].parent # NoSlot /\ bps[bps[s].parent].id = a.v
=============================================================================

--------------------------- MODULE PhysicalTools ---------------------------
(***************************************************************************)
(* The tools of the physical workspace (features/physical).  A location is *)
(* named by its path from Intercity, a sequence of segments [name, nth]:   *)
(* the nth of the siblings of that name.  Snapshot::read, which walks the  *)
(* whole tree, is one look at it.                                          *)
(***************************************************************************)
EXTENDS FileEdits

CONSTANTS
  Scene,       \* the size of a room in Packet Tracer's units: <<3444, 2157>>
  MAX_CLIMB,   \* how many containers a move climbs out of
  MAX_DEVICES  \* how many devices are arranged at once

UNSET == -1

----------------------------------------------------------------------------
\* Snapshots: tree.rs.

Segment(nodes, k) ==
  [name |-> nodes[k].name,
   nth |-> Cardinality({o \in 1..k : nodes[o].parent = nodes[k].parent /\ nodes[o].name = nodes[k].name})]

PathOf(nodes, id) ==
  LET ids == Tail(ancestry(nodes, id)) IN
  [i \in DOMAIN ids |-> Segment(nodes, CHOOSE k \in DOMAIN nodes : nodes[k].id = ids[i])]

is_duplicate(segment) == segment.nth > 1

\* by_path and device: the node, if there is one, as a set.
by_path(nodes, path) == {nodes[k] : k \in {k \in DOMAIN nodes :
                           nodes[k].kind # "device" /\ PathOf(nodes, nodes[k].id) = path}}

device(nodes, name) == {nodes[k] : k \in {k \in DOMAIN nodes :
                          nodes[k].kind = "device" /\ nodes[k].name = name}}

children(nodes, id) == SelectSeq(nodes, LAMBDA node : node.parent = id)

\* ensure_reachable: Packet Tracer moves only into the first of several of a name.
reachable(path) == \A i \in DOMAIN path : ~is_duplicate(path[i])

Snapshot == Ask("snapshot", "")

Only(found) == CHOOSE node \in found : TRUE

\* `snapshot.by_path(path)?` and the like: without it the tool refuses.
Given(found, Tool(_)) == IF found = {} THEN <<Refuse>> ELSE Tool(Only(found))

----------------------------------------------------------------------------
\* Spots are given as percentages of the room, here in thousandths of a percent.

Percents == 0..100000

well_placed(r) == {r.x, r.y} = {UNSET} \/ {r.x, r.y} \subseteq Percents

\* Rounded to the nearest unit; <<>> when no spot was given.
percent_spot(x, y) ==
  IF x = UNSET THEN <<>>
  ELSE <<(x * Scene[1] + 50000) \div 100000, (y * Scene[2] + 50000) \div 100000>>

place_at(handle, spot) == When(spot # <<>>, <<Tell("moveTo", handle, spot)>>)

\* spots: the ones asked for, one for each device, or a grid inside the margin.
step(i, total, margin) ==
  IF total <= 1 THEN 50000 ELSE margin + ((100000 - 2 * margin) * i) \div (total - 1)

Columns(r, count) ==
  IF r.columns # UNSET THEN r.columns
  ELSE CHOOSE c \in 1..count : c * c >= count /\ (c - 1) * (c - 1) < count

spots_ok(r, count) ==
  IF r.spots # <<>> THEN Len(r.spots) = count /\ \A i \in DOMAIN r.spots :
                                                   {r.spots[i][1], r.spots[i][2]} \subseteq Percents
  ELSE r.margin \in 0..44999 /\ r.columns # 0

spots(r, count) ==
  IF r.spots # <<>> THEN r.spots
  ELSE LET columns == Columns(r, count)
           rows == (count + columns - 1) \div columns IN
       [i \in 1..count |-> <<step((i - 1) % columns, IF columns < count THEN columns ELSE count, r.margin),
                             step((i - 1) \div columns, rows, r.margin)>>]

----------------------------------------------------------------------------
\* Places: place.rs and file_edit.rs.

\* A device is called by its name, a location by its uuid.
Handle(node) == IF node.kind = "device" THEN [name |-> node.name, id |-> 0, gen |-> 0]
                ELSE [name |-> "", id |-> node.id, gen |-> node.gen]

checked_name(name) == name # ""

\* Afterwards the edited node is looked for.
finish(id, seen) ==
  Then(<<Snapshot>>, seen, LAMBDA got, more : Check(id \in Ids(got[1].data)))

rename_location(r, seen) ==
  Then(Check(checked_name(r.name)) \o <<Snapshot>>, seen,
       LAMBDA got, more :
         Given(by_path(got[1].data, r.path), LAMBDA node :
           edit_saved_network(LAMBDA doc : rename_node(doc, node.id, r.name), more,
                              LAMBDA rest : finish(node.id, rest))))

goes_inside(kind) ==
  CASE kind = "city"          -> {"universe"}
    [] kind = "wiring_closet" -> {"universe", "city", "building"}
    [] kind = "building"      -> {"city"}
    [] OTHER                  -> {"wiring_closet", "building", "city", "generic_container"}

\* Out of one container after the other until where it is, is on the way to the target.
\* Packet Tracer says each time where it has put the thing.
climb(handle, times) ==
  FlattenSeq([i \in 1..times |-> <<Must("moveOutOfCurrentObject", handle, <<>>), Ask("getParent", handle)>>])

Climbing(handle, nodes, from, target, seen, Rest(_, _)) ==
  LET up(n) == IF n = 0 THEN from ELSE PathOf(nodes, seen[2 * n].data)
      steps(n) == climb(handle, n)
      out[n \in 0..MAX_CLIMB] ==
        IF n = MAX_CLIMB \/ (n > 0 /\ seen[2 * n].data \notin Ids(nodes)) THEN steps(n) \o <<Refuse>>
        ELSE IF IsPrefix(up(n), target) THEN steps(n) \o Rest(up(n), SubSeq(seen, 2 * n + 1, Len(seen)))
        ELSE IF Len(seen) < 2 * (n + 1) THEN steps(n + 1)
        ELSE out[n + 1] IN
  out[0]

\* Into one location after the other, by their names.
descend(handle, from, target) ==
  [i \in 1..(Len(target) - Len(from)) |-> Must("moveIntoObject", handle, target[Len(from) + i].name)]

\* The spot is checked only where it is used, when a move of Packet Tracer's has been made.
late_spot(r) ==
  /\ \/ r.tool = "add_location" /\ r.kind \in {"city", "wiring_closet"}
     \/ r.tool = "move_to_location"
  /\ ~well_placed(r)

\* Packet Tracer's button makes a city or a closet in Intercity: the first child of it that
\* was not there before is taken for the new one, brought to its place and named.
add_by_button(r, before, target, seen) ==
  Then(<<Tell("switchToTopView", "", <<>>),
         Tell(IF r.kind = "city" THEN "addCity" ELSE "addCloset", "", <<>>), Snapshot>>, seen,
       LAMBDA got, more :
         LET root == CHOOSE id \in Ids(before) : NodeOf(before, id).parent = 0
             existing == {<<node.id, node.gen>> : node \in ToSet(children(before, root))}
             new == SelectSeq(children(got[3].data, root),
                              LAMBDA node : <<node.id, node.gen>> \notin existing) IN
         IF new = <<>> THEN <<Refuse>>
         ELSE LET handle == Handle(Head(new)) IN
              Then(descend(handle, <<>>, PathOf(before, target.id))
                   \o Check(well_placed(r)) \o place_at(handle, percent_spot(r.x, r.y))
                   \o When(r.name # "", <<Tell("setName", handle, r.name)>>) \o <<Snapshot>>, more,
                   LAMBDA named, rest : Check(\E node \in ToSet(named[Len(named)].data) : Handle(node) = handle)))

add_location(r, seen) ==
  Then(<<Snapshot>>, seen,
       LAMBDA got, more :
         Given(by_path(got[1].data, r.inside), LAMBDA target :
           IF ~(target.kind \in goes_inside(r.kind) /\ reachable(r.inside)) THEN <<Refuse>>
           ELSE IF r.kind \in {"city", "wiring_closet"} THEN add_by_button(r, got[1].data, target, more)
           ELSE Then(Check(well_placed(r) /\ checked_name(r.name)) \o <<Snapshot>>, more,
                  LAMBDA again, then :
                    Given(by_path(again[1].data, r.inside), LAMBDA parent :
                      edit_saved_network(LAMBDA doc : add_node(doc, parent.id, r.kind, r.name,
                                                        IF r.x = UNSET THEN <<100, 100>> ELSE percent_spot(r.x, r.y)),
                                         then, LAMBDA rest : finish(NewId(then[2].data), rest))))))

\* What is not a device but holds one is refused, once the power units, which every rack
\* has, are left out of account; they are removed first.
remove_location(r, seen) ==
  Then(<<Snapshot>>, seen,
       LAMBDA got, more :
         Given(by_path(got[1].data, r.path), LAMBDA node :
           IF node.parent = 0 THEN <<Refuse>>
           ELSE Then(<<Ask("list_devices", "")>>, more,
             LAMBDA listed, then :
               LET inside == {NodeOf(got[1].data, i) : i \in Below(got[1].data, node.id)}
                   held == {inner.name : inner \in {inner \in inside : inner.kind = "device"}}
                   power_units == {d.name : d \in {d \in listed[1].data : d.pdu /\ d.name \in held}}
                   units == SetToSeq(power_units) IN
               IF held # power_units THEN <<Refuse>>
               ELSE Then([k \in DOMAIN units |-> Must("removeDevice", units[k], <<>>)], then,
                         LAMBDA gone, rest :
                           edit_saved_network(LAMBDA doc : remove_node(doc, node.id), rest,
                                              LAMBDA final : <<>>)))))

\* Furniture is filled through the network file, any other place by Packet Tracer's own
\* moves, after which the subject must be there, or in furniture that is.
move(subject, target, nodes, r, seen) ==
  LET spot == percent_spot(r.x, r.y)
      into == PathOf(nodes, target.id) IN
  IF \/ ~reachable(into)
     \/ subject.kind # "device" /\ target.id \in Below(nodes, subject.id) THEN <<Refuse>>
  ELSE IF target.kind \in FURNITURE_KINDS
  THEN Check(well_placed(r))
       \o edit_saved_network(LAMBDA doc : move_node(doc, subject.id, target.id, spot), seen,
                             LAMBDA rest : finish(subject.id, rest))
  ELSE Climbing(Handle(subject), nodes, PathOf(nodes, subject.parent), into, seen,
         LAMBDA level, more :
           Then(descend(Handle(subject), level, into) \o Check(well_placed(r))
                \o place_at(Handle(subject), spot) \o <<Snapshot>>, more,
                LAMBDA got, rest :
                  LET finished == got[Len(got)].data IN
                  Check(/\ subject.id \in Ids(finished)
                        /\ LET now == NodeOf(finished, NodeOf(finished, subject.id).parent) IN
                           \/ PathOf(finished, now.id) = into
                           \/ now.kind \in FURNITURE_KINDS
                              /\ PathOf(finished, now.parent) = into)))

move_to_location(r, seen) ==
  Then(<<Snapshot>>, seen,
       LAMBDA got, more :
         Given(IF r.device # "" THEN device(got[1].data, r.device) ELSE by_path(got[1].data, r.location),
           LAMBDA subject :
             IF subject.parent = 0 THEN <<Refuse>>
             ELSE Given(by_path(got[1].data, r.into), LAMBDA target :
                    move(subject, target, got[1].data, r, more))))

\* Every device is moved by a move of its own; without a list, those that are there.
arrange_devices(r, seen) ==
  Then(<<Snapshot>>, seen,
       LAMBDA got, more :
         Given(by_path(got[1].data, r.into), LAMBDA location :
           LET here == SelectSeq(children(got[1].data, location.id), LAMBDA node : node.kind = "device")
               chosen == IF r.devices # <<>> THEN r.devices ELSE [k \in DOMAIN here |-> here[k].name]
               moves == [k \in DOMAIN chosen |->
                           [device |-> chosen[k], into |-> r.into, x |-> spots(r, Len(chosen))[k][1],
                            y |-> spots(r, Len(chosen))[k][2]]] IN
           IF \/ \E k \in DOMAIN r.devices : device(got[1].data, r.devices[k]) = {}
              \/ Len(chosen) \notin 1..MAX_DEVICES \/ ~spots_ok(r, Len(chosen)) THEN <<Refuse>>
           ELSE InTurn(moves, more, LAMBDA m, own : move_to_location(m, own))))

\* The picture is a file's absolute path or one of Packet Tracer's own.
set_background(r, seen) ==
  Check(r.image # "relative")
  \o IF r.path = <<>> THEN <<Tell("setLogicalBackgroundPath", "", r.image)>>
     ELSE Then(<<Snapshot>>, seen, LAMBDA got, more :
            Given(by_path(got[1].data, r.path), LAMBDA node :
              <<Tell("setBackground", Handle(node), r.image)>>))

show_workspace(r) ==
  <<Tell(IF r.view = "physical" THEN "showPhysicalMode" ELSE "showLogicalMode", "", <<>>),
    Ask("isPhysicalMode", "")>>

PhysicalPlan(r, seen) ==
  CASE r.tool = "list_locations"   -> <<Snapshot>>
    [] r.tool = "add_location"     -> add_location(r, seen)
    [] r.tool = "rename_location"  -> rename_location(r, seen)
    [] r.tool = "remove_location"  -> remove_location(r, seen)
    [] r.tool = "move_to_location" -> move_to_location(r, seen)
    [] r.tool = "arrange_devices"  -> arrange_devices(r, seen)
    [] r.tool = "set_background"   -> set_background(r, seen)
    [] r.tool = "show_workspace"   -> show_workspace(r)

----------------------------------------------------------------------------
\* Packet Tracer's side.

PduNames == <<"PDU1", "PDU2", "PDU3", "PDU4", "PDU5", "PDU6", "PDU7", "PDU8", "PDU9", "PDU10",
              "PDU11", "PDU12", "PDU13", "PDU14", "PDU15", "PDU16", "PDU17", "PDU18">>

is_pdu(name) == name \in ToSet(PduNames)

NewNode(id, name, kind, parent) ==
  [id |-> id, gen |-> 0, name |-> name, kind |-> kind, parent |-> parent, spot |-> <<0, 0>>,
   chain |-> NoChain, background |-> ""]

EmptyWorkspace ==
  <<NewNode(1, "Intercity", "universe", 0), NewNode(2, "Home City", "city", 1),
    NewNode(3, "Corporate Office", "building", 2), NewNode(4, "Main Wiring Closet", "wiring_closet", 3)>>

\* The nodes a handle stands for, none when they are gone or have another uuid by now.
Objects(nodes, handle) ==
  {nodes[k] : k \in {k \in DOMAIN nodes :
     IF handle.name # "" THEN nodes[k].kind = "device" /\ nodes[k].name = handle.name
     ELSE nodes[k].id = handle.id /\ nodes[k].gen = handle.gen}}

Has(p, nodes) == [p EXCEPT !.nodes = nodes]

add(p, name, kind, parent) ==
  Has(p, Append(p.nodes, NewNode(NewId(p.nodes), name, kind, parent)))

\* A device that is moved is another object afterwards.
relocate(p, node, parent) ==
  Has(p, IF node.kind = "device"
         THEN Append(WithoutNode(p.nodes, node.id), [node EXCEPT !.parent = parent, !.gen = 1 - @])
         ELSE WithNode(p.nodes, [node EXCEPT !.parent = parent]))

\* A closet that is added comes with a table (physical/README.md).
add_closet(p) == add(add(p, "Wiring Closet", "wiring_closet", 1), "Table", "table", NewId(p.nodes))

\* A device in a closet is in its first rack, or on its table when it has no rack; one that
\* has neither gets a rack.
rack_in(p, closet) ==
  LET OfKind(kind) == SelectSeq(children(p.nodes, closet), LAMBDA node : node.kind = kind)
      furniture == OfKind("rack") \o OfKind("table") IN
  IF furniture # <<>> THEN [pt |-> p, rack |-> Head(furniture).id]
  ELSE [pt |-> add(p, "Rack", "rack", closet), rack |-> NewId(p.nodes)]

\* Out of a rack, a thing leaves the closet with it.
move_out(p, node) ==
  LET parent == NodeOf(p.nodes, node.parent)
      above == IF parent.kind = "rack" THEN NodeOf(p.nodes, parent.parent).parent ELSE parent.parent IN
  IF above = 0 THEN Says(p, FALSE) ELSE Did(p, TRUE, relocate(p, node, above))

move_in(p, node, name) ==
  LET found == SelectSeq(children(p.nodes, node.parent), LAMBDA o : o.id # node.id /\ o.name = name) IN
  IF found = <<>> THEN Says(p, FALSE)
  ELSE IF node.kind = "device" /\ Head(found).kind = "wiring_closet"
  THEN LET racked == rack_in(p, Head(found).id) IN
       Did(p, TRUE, relocate(racked.pt, node, racked.rack))
  ELSE Did(p, TRUE, relocate(p, node, Head(found).id))

Alters(p, handle, Change(_)) ==
  LET found == Objects(p.nodes, handle) IN
  IF found = {} THEN Missing(p) ELSE Obeys(Has(p, WithNode(p.nodes, Change(Only(found)))))

Acts(p, handle, Act(_)) ==
  LET found == Objects(p.nodes, handle) IN IF found = {} THEN Missing(p) ELSE Act(Only(found))

\* Opening a file makes every object anew and gives each rack that has none a power unit; a
\* file whose chains disagree with its tree is not opened.
OpenFile(p, nodes) ==
  LET racks == SelectSeq(nodes, LAMBDA rack : rack.kind = "rack" /\
                 ~\E k \in DOMAIN nodes : nodes[k].parent = rack.id /\ is_pdu(nodes[k].name))
      fresh == [k \in DOMAIN nodes |-> [nodes[k] EXCEPT !.gen = 1 - p.gen, !.chain = NoChain]]
      units == [k \in DOMAIN racks |->
                  NewNode(NewId(nodes) + k - 1, PduNames[racks[k].id], "device", racks[k].id)] IN
  Did(p, ChainsAgree(nodes), [p EXCEPT !.nodes = fresh \o units, !.gen = 1 - @])

Devices(nodes) ==
  {[name |-> nodes[k].name, pdu |-> is_pdu(nodes[k].name)] :
     k \in {k \in DOMAIN nodes : nodes[k].kind = "device"}}

PhysicalAnswer(p, c) ==
  CASE c.op = "snapshot"        -> Gives(p, p.nodes)
    [] c.op = "list_devices"    -> Gives(p, Devices(p.nodes))
    [] c.op \in {"switchToTopView", "fast_forward"} -> Obeys(p)
    [] c.op = "addCity"         -> Obeys(add(p, "City", "city", 1))
    [] c.op = "addCloset"       -> Obeys(add_closet(p))
    [] c.op = "moveTo"          -> Alters(p, c.at, LAMBDA node : [node EXCEPT !.spot = c.val])
    [] c.op = "setName"         -> Alters(p, c.at, LAMBDA node : [node EXCEPT !.name = c.val])
    [] c.op = "setBackground"   -> Alters(p, c.at, LAMBDA node : [node EXCEPT !.background = c.val])
    [] c.op = "getParent"       -> Acts(p, c.at, LAMBDA node : Gives(p, node.parent))
    [] c.op = "moveOutOfCurrentObject" -> Acts(p, c.at, LAMBDA node : move_out(p, node))
    [] c.op = "moveIntoObject"  -> Acts(p, c.at, LAMBDA node : move_in(p, node, c.val))
    [] c.op = "setLogicalBackgroundPath" -> Obeys([p EXCEPT !.logical = c.val])
    [] c.op \in {"showPhysicalMode", "showLogicalMode"} ->
         Obeys([p EXCEPT !.physical = c.op = "showPhysicalMode"])
    [] c.op = "isPhysicalMode"  -> Says(p, p.physical)
    [] c.op = "fileSaveToBytes" -> Gives(p, Saved(p.nodes))
    [] c.op = "fileNew"         -> Obeys([p EXCEPT !.nodes = EmptyWorkspace])
    [] c.op = "fileOpen"        -> OpenFile(p, c.val)
    [] c.op = "removeDevice"    ->
         Did(p, device(p.nodes, c.at) # {},
             Has(p, SelectSeq(p.nodes, LAMBDA node : node.kind # "device" \/ node.name # c.at)))
    [] OTHER -> Unknown(p)

----------------------------------------------------------------------------
\* What the properties ask about.

\* The default places with a switch in the closet's rack, a computer in the office, a
\* table beside it and a rack there that holds nothing but its power unit.
PhysicalInit ==
  {[part |-> "physical", physical |-> FALSE, logical |-> "", gen |-> 0, nodes |-> EmptyWorkspace \o
      <<NewNode(5, "Rack", "rack", 4), NewNode(6, "SW", "device", 5), NewNode(7, "PC", "device", 3),
        NewNode(8, "Table", "table", 3), NewNode(9, "Rack", "rack", 3), NewNode(10, "PDU9", "device", 9)>>]}

PhysicalTopics(r) ==
  IF r.tool \in {"show_workspace", "list_locations"} THEN {} ELSE {"workspace"}

\* A place as it is to the user: not which object stands for it.
Seen(node) == [name |-> node.name, kind |-> node.kind, parent |-> node.parent]

\* All places but these are where they were, and no others have come.
Others(was, now, ids) ==
  /\ Ids(was) \ ids = Ids(now) \ ids
  /\ \A id \in Ids(was) \ ids : Seen(NodeOf(was, id)) = Seen(NodeOf(now, id))

Landed(now, id, target, r) ==
  LET node == NodeOf(now, id)
      parent == NodeOf(now, node.parent) IN
  /\ \/ parent.id = target
     \/ parent.kind \in {"rack", "table"} /\ parent.parent = target /\ NodeOf(now, target).kind = "wiring_closet"
  /\ r.x # UNSET => node.spot = percent_spot(r.x, r.y)

PhysicalWanted(r, before, after) ==
  LET was == before.nodes
      now == after.nodes IN
  CASE r.tool = "add_location" ->
         \E id \in Ids(now) \ Ids(was) :
           /\ Others(was, now, {id} \cup {table \in Ids(now) \ Ids(was) :
                                         r.kind = "wiring_closet" /\ NodeOf(now, table).parent = id
                                         /\ NodeOf(now, table).kind = "table"})
           /\ NodeOf(now, id).kind = r.kind /\ NodeOf(now, id).parent = Only(by_path(was, r.inside)).id
           /\ r.name # "" => NodeOf(now, id).name = r.name
           /\ r.x # UNSET => NodeOf(now, id).spot = percent_spot(r.x, r.y)
    [] r.tool = "rename_location" ->
         LET id == Only(by_path(was, r.path)).id IN
         /\ Others(was, now, {id})
         /\ Seen(NodeOf(now, id)) = [Seen(NodeOf(was, id)) EXCEPT !.name = r.name]
    [] r.tool = "remove_location" ->
         LET gone == Below(was, Only(by_path(was, r.path)).id) IN
         Others(was, now, gone) /\ gone \cap Ids(now) = {}
    [] r.tool = "move_to_location" ->
         LET subject == Only(IF r.device # "" THEN device(was, r.device) ELSE by_path(was, r.location)) IN
         /\ Landed(now, subject.id, Only(by_path(was, r.into)).id, r)
         /\ \A id \in Ids(was) \ {subject.id} : id \in Ids(now) /\ Seen(NodeOf(was, id)) = Seen(NodeOf(now, id))
         /\ \A id \in Ids(now) \ Ids(was) : NodeOf(now, id).kind = "rack"
    [] r.tool = "arrange_devices" ->
         LET target == Only(by_path(was, r.into)).id
             ids == {id \in Ids(was) : NodeOf(was, id).kind = "device" /\
                       IF r.devices = <<>> THEN NodeOf(was, id).parent = target
                       ELSE NodeOf(was, id).name \in ToSet(r.devices)} IN
         /\ \A id \in ids : Landed(now, id, target, [x |-> UNSET])
         /\ \A a, b \in ids : a # b => NodeOf(now, a).spot # NodeOf(now, b).spot
    [] r.tool = "set_background" ->
         IF r.path = <<>> THEN after.logical = r.image
         ELSE NodeOf(now, Only(by_path(was, r.path)).id).background = r.image
    [] OTHER -> TRUE

\* Every place is inside another, up to Intercity, and only places hold things.
PhysicalSound(p) == IsTree(p.nodes)
=============================================================================

----------------------------- MODULE FileEdits -----------------------------
(***************************************************************************)
(* edit_saved_network (features/network_file.rs) as part of a tool's plan, *)
(* and the physical workspace as pktfile/src/physical.rs edits it in the   *)
(* saved network.                                                          *)
(*                                                                         *)
(* The physical workspace is a sequence of nodes [id, gen, name, kind,     *)
(* parent, spot], siblings in their order; Intercity has the parent 0.  id *)
(* is the UUID_STR a node keeps in every file, and id and gen together the *)
(* uuid of the object that stands for it in the open network.  In a file   *)
(* every device also carries the chain of nodes it is in.                  *)
(***************************************************************************)
EXTENDS ToolPlans, SequencesExt

FURNITURE_KINDS == {"rack", "table", "shelf", "cable_pegboard", "generic_container"}

NoChain == [physical |-> <<>>, container_id |-> 0, parent_path |-> <<>>]

Impossible == [ok |-> FALSE]

Edited(doc) == [ok |-> TRUE, doc |-> doc]

Ids(nodes) == {nodes[k].id : k \in DOMAIN nodes}

NodeOf(nodes, id) == nodes[CHOOSE k \in DOMAIN nodes : nodes[k].id = id]

\* The ids from Intercity down to id, both included.
ancestry(nodes, id) ==
  LET up[i \in Ids(nodes)] ==
        IF NodeOf(nodes, i).parent = 0 THEN <<i>> ELSE Append(up[NodeOf(nodes, i).parent], i) IN
  up[id]

Below(nodes, id) == {i \in Ids(nodes) : \E k \in DOMAIN ancestry(nodes, i) : ancestry(nodes, i)[k] = id}

----------------------------------------------------------------------------
\* The edits: pktfile/src/physical.rs.

\* The PHYSICAL chain, the PARENT_PATH up to the room and the CONTAINER_ID of a device in
\* that parent.
Chain(nodes, id, parent) ==
  LET above == ancestry(nodes, parent) IN
  [physical |-> Append(above, id), container_id |-> parent,
   parent_path |-> IF NodeOf(nodes, parent).kind \in FURNITURE_KINDS THEN Front(above) ELSE above]

retarget_device(nodes, node, parent) == [node EXCEPT !.chain = Chain(nodes, node.id, parent)]

WithNode(nodes, node) ==
  [k \in DOMAIN nodes |-> IF nodes[k].id = node.id THEN node ELSE nodes[k]]

WithoutNode(nodes, id) == SelectSeq(nodes, LAMBDA node : node.id # id)

rename_node(nodes, id, name) ==
  IF id \notin Ids(nodes) THEN Impossible
  ELSE Edited(WithNode(nodes, [NodeOf(nodes, id) EXCEPT !.name = name]))

\* Moves a node to the end of its new parent's children.  Only the chains of the node itself
\* follow, and only when it is a device.
move_node(nodes, id, parent, spot) ==
  IF ~({id, parent} \subseteq Ids(nodes)) \/ parent \in Below(nodes, id) THEN Impossible
  ELSE LET node == NodeOf(nodes, id)
           told == IF node.kind = "device" THEN retarget_device(nodes, node, parent) ELSE node IN
       Edited(Append(WithoutNode(nodes, id),
                     [told EXCEPT !.parent = parent, !.spot = IF spot = <<>> THEN @ ELSE spot]))

\* Cuts a node out with all it holds, but neither Intercity nor what holds a device.
remove_node(nodes, id) ==
  IF id \notin Ids(nodes) THEN Impossible
  ELSE IF NodeOf(nodes, id).parent = 0
          \/ \E i \in Below(nodes, id) : NodeOf(nodes, i).kind = "device" THEN Impossible
  ELSE LET gone == Below(nodes, id) IN
       Edited(SelectSeq(nodes, LAMBDA node : node.id \notin gone))

NewId(nodes) == 1 + CHOOSE i \in Ids(nodes) : \A o \in Ids(nodes) : o <= i

add_node(nodes, parent, kind, name, spot) ==
  IF parent \notin Ids(nodes) THEN Impossible
  ELSE Edited(Append(nodes, [id |-> NewId(nodes), gen |-> 0, name |-> name, kind |-> kind,
                             parent |-> parent, spot |-> spot, chain |-> NoChain, background |-> ""]))

----------------------------------------------------------------------------
\* Packet Tracer's own of a file.

\* A file as Packet Tracer writes it.
Saved(nodes) ==
  [k \in DOMAIN nodes |->
     [nodes[k] EXCEPT !.chain = IF nodes[k].kind = "device"
                                THEN Chain(nodes, nodes[k].id, nodes[k].parent) ELSE NoChain]]

\* "A file whose chains disagree with the tree is refused as corrupted."
ChainsAgree(nodes) == nodes = Saved(nodes)

\* One node, Intercity, has no parent; the parent of any other is a place above it.
IsTree(nodes) ==
  /\ Cardinality(Ids(nodes)) = Len(nodes)
  /\ Cardinality({k \in DOMAIN nodes : nodes[k].parent = 0}) = 1
  /\ \A k \in DOMAIN nodes : nodes[k].parent # 0 =>
       \E a \in DOMAIN nodes : nodes[a].id = nodes[k].parent /\ nodes[a].kind # "device"
  /\ Ids(nodes) \subseteq
       FoldLeft(LAMBDA reached, node : reached \cup {nodes[k].id : k \in {k \in DOMAIN nodes :
                                                       nodes[k].parent \in reached}},
                {0}, nodes)

----------------------------------------------------------------------------
\* The network's bytes are taken, edited and opened as the network; the power units that
\* were not there before go one by one, and time is moved on.
take_network == <<Ask("list_devices", ""), Ask("fileSaveToBytes", "")>>

open_edited(doc) == <<Must("fileNew", "", <<>>), Must("fileOpen", "", doc), Ask("list_devices", "")>>

strip_units(before, now) ==
  LET extra == SetToSeq({d \in now \ before : d.pdu}) IN
  [k \in DOMAIN extra |-> Must("removeDevice", extra[k].name, <<>>)] \o <<Tell("fast_forward", "", <<>>)>>

edit_saved_network(Edit(_), seen, After(_)) ==
  Then(take_network, seen,
       LAMBDA got, more :
         LET edited == Edit(got[2].data) IN
         IF ~edited.ok THEN <<Refuse>>
         ELSE Then(open_edited(edited.doc), more,
                   LAMBDA opened, rest :
                     Then(strip_units(got[1].data, opened[3].data), rest,
                          LAMBDA settled, final : After(final))))
=============================================================================

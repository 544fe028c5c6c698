----------------------------- MODULE LinkTools -----------------------------
(***************************************************************************)
(* connect, disconnect, list_links and list_ports (features/links), and    *)
(* remove_device beside them.  A port is a record [dev, port]; what kind a *)
(* device is and which ports it has does not change.                       *)
(***************************************************************************)
EXTENDS ToolPlans

CONSTANTS
  KindOf,    \* device name -> its kind
  PortsOf    \* device name -> the names of its ports, in order

ASSUME PortsAssumption == \A d \in DOMAIN PortsOf : PortsOf[d] \in Seq({PortsOf[d][k] : k \in DOMAIN PortsOf[d]})

Ends == UNION {{[dev |-> d, port |-> PortsOf[d][k]] : k \in DOMAIN PortsOf[d]} :
               d \in DOMAIN PortsOf}

----------------------------------------------------------------------------
\* Which cable: cabling.rs.

SWITCHING_KINDS == {"switch", "multi_layer_switch", "hub", "bridge", "access_point"}

is_serial(port) == port \in {"Serial0/0/0", "Serial0/0/1"}

is_console(port) == port \in {"Console", "RS 232"}

is_switching(kind) == kind \in SWITCHING_KINDS

resolve(cable, a, b) ==
  IF cable # "auto" THEN cable
  ELSE IF is_serial(a.port) \/ is_serial(b.port) THEN "serial"
  ELSE IF is_console(a.port) \/ is_console(b.port) THEN "rollover"
  ELSE IF is_switching(KindOf[a.dev]) = is_switching(KindOf[b.dev]) THEN "cross"
  ELSE "straight"

----------------------------------------------------------------------------
\* The tools.

\* Both ends are looked at one after the other before the link is made, and the link is
\* read back from the first port.
connect(r) ==
  Check(r.a # r.b)
  \o <<Must("describe", r.a.dev, <<>>), Must("describe", r.b.dev, <<>>),
       Must("ensure_free", r.a, <<>>), Must("ensure_free", r.b, <<>>),
       Must("createLink", r.a, [to |-> r.b, cable |-> resolve(r.cable, r.a, r.b)]),
       Must("connection", r.a, <<>>)>>

disconnect(r) ==
  <<Must("connection", r.end, <<>>), Must("deleteLink", r.end, <<>>)>>

\* The links are read by index, as many as were counted.
list_links(r, seen) ==
  Then(<<Ask("getLinkCount", "")>>, seen,
       LAMBDA got, more : [k \in 1..got[1].data |-> Ask("getLinkAt", k)])

list_ports(r, seen) ==
  Then(<<Must("describe", r.dev, <<>>), Ask("getPortCount", r.dev)>>, seen,
       LAMBDA got, more : [k \in 1..got[2].data |->
                             Ask("read_port", [dev |-> r.dev, port |-> PortsOf[r.dev][k]])])

LinkPlan(r, seen) ==
  CASE r.tool = "connect"    -> connect(r)
    [] r.tool = "disconnect" -> disconnect(r)
    [] r.tool = "list_links" -> list_links(r, seen)
    [] r.tool = "list_ports" -> list_ports(r, seen)
    [] r.tool = "remove"     -> <<Must("removeDevice", r.dev, <<>>)>>

----------------------------------------------------------------------------
\* Packet Tracer's side.  A radio association sits on a port like a link of its own
\* type, which the tools do not take for a cable.

Linked(p, end) == {l \in p.links : end \in {l.a, l.b}}

Exists(p, end) == end.dev \in p.devs /\ end \in Ends

Compatible(a, b, cable) ==
  /\ "Bluetooth" \notin {a.port, b.port}
  /\ IF is_serial(a.port) \/ is_serial(b.port) THEN cable = "serial"
     ELSE cable \in {"straight", "cross", "fiber", "fiber_multimode"}

create_link(p, a, v) ==
  Did(p, /\ a # v.to
         /\ \A e \in {a, v.to} : Exists(p, e) /\ Linked(p, e) = {}
         /\ Compatible(a, v.to, v.cable),
      [p EXCEPT !.links = @ \cup {[a |-> a, b |-> v.to, cable |-> v.cable]}])

\* read_connection: no answer for a port that is not there, otherwise whether a cable
\* (not a radio) is on it.
cabled(p, end) == \E l \in Linked(p, end) : l.cable # "wireless"

remove_device(p, d) ==
  Did(p, d \in p.devs,
      [p EXCEPT !.devs = @ \ {d}, !.links = {l \in @ : d \notin {l.a.dev, l.b.dev}}])

delete_link(p, end) == Did(p, Linked(p, end) # {}, [p EXCEPT !.links = @ \ Linked(p, end)])

LinkAnswer(p, c) ==
  CASE c.op = "describe"     -> IF c.at \in p.devs THEN Obeys(p) ELSE Missing(p)
    [] c.op = "ensure_free"  -> IF Exists(p, c.at) THEN Says(p, ~cabled(p, c.at)) ELSE Missing(p)
    [] c.op = "connection"   -> IF Exists(p, c.at) THEN Says(p, cabled(p, c.at)) ELSE Missing(p)
    [] c.op = "createLink"   -> create_link(p, c.at, c.val)
    [] c.op = "deleteLink"   -> delete_link(p, c.at)
    [] c.op = "removeDevice" -> remove_device(p, c.at)
    [] c.op = "getLinkCount" -> Gives(p, Cardinality(p.links))
    [] c.op = "getLinkAt"    -> IF c.at <= Cardinality(p.links) THEN Obeys(p) ELSE Missing(p)
    [] c.op = "getPortCount" -> IF c.at \in p.devs THEN Gives(p, Len(PortsOf[c.at])) ELSE Missing(p)
    [] c.op = "read_port"    -> IF Exists(p, c.at) THEN Obeys(p) ELSE Missing(p)
    [] OTHER                 -> Unknown(p)

----------------------------------------------------------------------------
\* What the properties ask about.

Radio == [dev |-> "Laptop", port |-> "Wireless0"]
Station == [dev |-> "AP", port |-> "Port 1"]

LinkInit ==
  {[part |-> "links", devs |-> DOMAIN PortsOf,
    links |-> {l \in {[a |-> Radio, b |-> Station, cable |-> "wireless"]} :
                 {l.a, l.b} \subseteq Ends}]}

LinkTopics(r) ==
  CASE r.tool = "connect"    -> {r.a, r.b}
    [] r.tool = "disconnect" -> {r.end}
    [] OTHER                 -> Ends

LinkWanted(r, was, now) ==
  CASE r.tool = "connect"    -> [a |-> r.a, b |-> r.b, cable |-> resolve(r.cable, r.a, r.b)]
                                  \in now.links
    [] r.tool = "disconnect" -> ~cabled(now, r.end)
    [] r.tool = "remove"     -> r.dev \notin now.devs
    [] OTHER                 -> TRUE

\* A port takes one cable, and a cable has two ports of devices that are there.
LinkSound(p) ==
  /\ \A e \in Ends : Cardinality(Linked(p, e)) <= 1
  /\ \A l \in p.links : l.a # l.b /\ Exists(p, l.a) /\ Exists(p, l.b)
=============================================================================

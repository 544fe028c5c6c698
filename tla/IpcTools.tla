----------------------------- MODULE IpcTools -----------------------------
(***************************************************************************)
(* call_ipc (features/ipc/call.rs): any path of methods, each checked      *)
(* against the index of the API (packet_tracer/api.rs) before it is sent.  *)
(* A method that is not on the class an object is declared to have is      *)
(* looked for on the class Packet Tracer says it has.  Every IPC call      *)
(* names the whole path from its root, so each of them walks it anew.      *)
(***************************************************************************)
EXTENDS ToolPlans, SequencesExt

CONSTANTS
  ApiClasses,   \* class -> [extends, methods, remote]
  ApiRoots,     \* root -> its class
  ApiEnums,     \* enum -> its names and their values
  AnyCase,      \* pairs of a class's name on the wire and its name in the index
  IntMax,       \* the largest i32
  Machines      \* the devices of the network -> their class

BASE_CLASS == "IPCObject"

\* Methods that crash Packet Tracer.
CRASHES_PACKET_TRACER ==
  {<<"LogicalWorkspace", m>> : m \in {"getEllipseItemData", "getRectItemData", "getLineItemData", "getPolygonItemData"}}

----------------------------------------------------------------------------
\* The index.

\* A class and those it extends, depth first, each once.
ancestors(name) ==
  LET Names == DOMAIN ApiClasses
      visit[pending \in Seq(STRING), order \in Seq(Names)] ==
        IF pending = <<>> THEN order
        ELSE IF Head(pending) \in Names \ ToSet(order)
        THEN visit[ApiClasses[Head(pending)].extends \o Tail(pending), Append(order, Head(pending))]
        ELSE visit[Tail(pending), order] IN
  visit[<<name>>, <<>>]

\* The methods of that name that each of the owners has itself.
methods_of(owners, method) ==
  FlattenSeq([k \in DOMAIN owners |->
    LET own == SelectSeq(ApiClasses[owners[k]].methods, LAMBDA m : m.name = method /\ ~m.local) IN
    [n \in DOMAIN own |-> [owner |-> owners[k], def |-> own[n]]]])

methods_named(class, method) == methods_of(ancestors(class), method)

is_remote(kind) == kind.is = "object" /\ kind.name \in DOMAIN ApiClasses /\ ApiClasses[kind.name].remote

\* The index's name of a class Packet Tracer names, or the one it was declared as.
class_named(wire, declared) ==
  IF wire \in DOMAIN ApiClasses THEN wire
  ELSE LET alike == {c \in DOMAIN ApiClasses : <<wire, c>> \in AnyCase} IN
       IF alike = {} THEN declared ELSE CHOOSE c \in alike : TRUE

----------------------------------------------------------------------------
\* Arguments.  A JSON value is its type and what it holds.

\* An enum goes by name or by number, and any number will do.
Encodes(kind, arg) ==
  CASE kind.is = "bool" -> arg.json = "bool"
    [] kind.is = "int"  -> arg.json = "number" /\ arg.val \in (-IntMax - 1)..IntMax
    [] kind.is \in {"string", "qstring", "uuid"} -> arg.json = "string"
    [] kind.is = "enum" -> /\ kind.name \in DOMAIN ApiEnums
                           /\ \/ arg.json = "number"
                              \/ arg.json = "string" /\ arg.val \in DOMAIN ApiEnums[kind.name]
    [] OTHER -> FALSE

\* `narrow`: a number that does not fit becomes 0.
narrow(n) == IF n \in (-IntMax - 1)..IntMax THEN n ELSE 0

encode(kind, arg) ==
  IF kind.is # "enum" THEN arg.val
  ELSE narrow(IF arg.json = "number" THEN arg.val ELSE ApiEnums[kind.name][arg.val])

encodes_all(kinds, args) ==
  Len(kinds) = Len(args) /\ \A k \in DOMAIN kinds : Encodes(kinds[k], args[k])

encode_all(kinds, args) == [k \in DOMAIN kinds |-> encode(kinds[k], args[k])]

----------------------------------------------------------------------------
\* The walk along the path: the plan so far, the answers it has not used, whether it goes
\* on, the call as resolved, the class of the object it leads to and what its last method
\* is declared to return.

OnThePath(op, args) == [method |-> op, args |-> args]

Refusal(so) == [so EXCEPT !.plan = Append(@, Refuse), !.open = FALSE]

ClassOfPath(path) == Item("getClassName", path, <<>>, {"ok", "rejected"}, FALSE)

\* A missing object is told as such; any other error leaves the class as declared.
dynamic_class(so) ==
  LET asked == [so EXCEPT !.plan = Append(@, ClassOfPath(so.path))] IN
  IF so.seen = <<>> THEN [asked EXCEPT !.open = FALSE]
  ELSE [asked EXCEPT !.seen = Tail(@),
                     !.class = IF Head(so.seen).is = "ok" THEN class_named(Head(so.seen).data, @) ELSE @]

start(from, seen) ==
  LET at(path, class) == [plan |-> <<>>, seen |-> seen, open |-> TRUE, path |-> path, class |-> class, last |-> <<>>] IN
  IF from.uuid THEN dynamic_class(at(<<OnThePath("getObjectByUuid", <<from.id>>)>>, BASE_CLASS))
  ELSE IF from.id \in DOMAIN ApiRoots THEN at(<<OnThePath("root", <<from.id>>)>>, ApiRoots[from.id])
  ELSE Refusal(at(<<>>, BASE_CLASS))

Declared(so, method) ==
  IF methods_named(so.class, method) # <<>> THEN so ELSE dynamic_class(so)

\* The first of the methods of that name that takes the arguments.
ResolvedTo(so, step, candidates) ==
  LET fitting == SelectSeq(candidates, LAMBDA c : encodes_all(c.def.params, step.args)) IN
  IF \/ fitting = <<>>
     \/ \E c \in ToSet(candidates) : <<c.owner, step.method>> \in CRASHES_PACKET_TRACER
  THEN Refusal(so)
  ELSE LET def == Head(fitting).def IN
       [so EXCEPT !.path = Append(@, OnThePath(def.wire, encode_all(def.params, step.args))),
                  !.class = IF def.returns.is = "object" THEN def.returns.name ELSE @,
                  !.last = <<def.returns>>]

Resolved(so, step) ==
  IF so.open THEN ResolvedTo(so, step, methods_named(so.class, step.method)) ELSE so

apply(so, step) ==
  IF ~so.open THEN so
  ELSE IF so.last # <<>> /\ ~is_remote(so.last[1]) THEN Refusal(so)
  ELSE Resolved(Declared(so, step.method), step)

\* The two calls of object_value run at once; here the first is answered first.
object_value(path) == <<Item("getObjectUuid", path, <<>>, {"ok"}, FALSE), Item("getClassName", path, <<>>, {"ok"}, FALSE)>>

Completed(so) ==
  so.plan \o
  IF ~so.open THEN <<>>
  ELSE IF so.last = <<>> \/ is_remote(so.last[1]) THEN object_value(so.path)
  ELSE <<Item(Last(so.path).method, Front(so.path), Last(so.path).args, {"ok"}, FALSE)>>

call_ipc(r, seen) == Completed(FoldLeft(apply, start(r.from, seen), r.steps))

IpcPlan(r, seen) == call_ipc(r, seen)

----------------------------------------------------------------------------
\* Packet Tracer's side: it walks the path from the root.  An object is its kind and which
\* of them it is; where there is none, a path has led to a plain value.

WireClass(on) ==
  CASE on[1] = "network" -> "Network"       [] on[1] = "device" -> Machines[on[2]]
    [] on[1] = "arp" -> "ArpProcess"        [] on[1] = "simulation" -> "Simulation"
    [] on[1] = "timer" -> "SimulationTimer" [] on[1] = "options" -> "Options"
    [] on[1] = "appWindow" -> "AppWindow"   [] on[1] = "workspace" -> "Workspace"
    [] on[1] = "logical" -> "LogicalWorkspace"

Walk(p) == [pt |-> p, on |-> <<>>, val |-> "", is |-> "ok"]

LeadsTo(so, on) == [so EXCEPT !.on = on]

Tells(so, val) == [so EXCEPT !.on = <<>>, !.val = val]

Leaves(so, p) == [so EXCEPT !.on = <<>>, !.val = "", !.pt = p]

DevicesNamed(p, name) == {d \in DOMAIN Machines : p.names[d] = name}

\* Packet Tracer knows the methods of an object's own class.
Performs(so, method, args) ==
  LET p == so.pt
      on == so.on
      kind == on[1] IN
  CASE method = "getClassName"  -> Tells(so, WireClass(on))
    [] method = "getObjectUuid" -> Tells(so, on)
    [] kind = "network" /\ method = "getDevice" ->
         IF DevicesNamed(p, args[1]) = {} THEN [so EXCEPT !.is = "missing"]
         ELSE LeadsTo(so, <<"device", CHOOSE d \in DevicesNamed(p, args[1]) : TRUE>>)
    [] kind = "network" /\ method = "getDeviceCount" -> Tells(so, Cardinality(DOMAIN Machines))
    [] kind = "device" /\ method = "getName"  -> Tells(so, p.names[on[2]])
    [] kind = "device" /\ method = "setName"  -> Leaves(so, [p EXCEPT !.names[on[2]] = args[1]])
    [] kind = "device" /\ method = "setPower" -> Leaves(so, [p EXCEPT !.power[on[2]] = args[1]])
    [] kind = "device" /\ method = "getProcess" ->
         IF args[1] = "ArpProcess" THEN LeadsTo(so, <<"arp", on[2]>>) ELSE [so EXCEPT !.is = "missing"]
    [] kind = "device" /\ method = "getUserPassCount" /\ Machines[on[2]] = "Router" -> Tells(so, 0)
    [] kind = "arp" /\ method = "getArpTable" -> Tells(so, 0)
    [] kind = "simulation" /\ method = "createTimer" ->
         LeadsTo([so EXCEPT !.pt.timers = @ + 1], <<"timer", p.timers + 1>>)
    [] kind = "options" /\ method = "setBufferFullAction" -> Leaves(so, [p EXCEPT !.action = args[1]])
    [] kind = "appWindow" /\ method = "getActiveWorkspace" -> LeadsTo(so, <<"workspace">>)
    [] kind = "workspace" /\ method = "getLogicalWorkspace" -> LeadsTo(so, <<"logical">>)
    [] kind = "logical" /\ method = "getRectItemData" -> [so EXCEPT !.pt.crashed = TRUE, !.is = "lost"]
    [] OTHER -> [so EXCEPT !.is = "rejected"]

StillThere(p, on) == on[1] # "timer" \/ on[2] <= p.timers

Walks(so, step) ==
  IF so.is # "ok" THEN so
  ELSE CASE step.method = "root" -> LeadsTo(so, step.args[1])
         [] step.method = "getObjectByUuid" ->
              IF StillThere(so.pt, step.args[1]) THEN LeadsTo(so, step.args[1]) ELSE [so EXCEPT !.is = "missing"]
         [] OTHER -> Performs(so, step.method, step.args)

IpcAnswer(p, c) ==
  LET so == FoldLeft(Walks, Walk(p), Append(c.at, OnThePath(c.op, c.val))) IN
  Replies(so.pt, so.is, so.val)

----------------------------------------------------------------------------
\* What the properties ask about.

IpcInit ==
  {[part |-> "ipc", names |-> [d \in DOMAIN Machines |-> d], power |-> [d \in DOMAIN Machines |-> TRUE],
    action |-> 0, timers |-> 0, crashed |-> FALSE]}

IpcTopics(r) ==
  {CASE r.from.id[1] \in {"network", "device"} -> "devices"
     [] r.from.id[1] = "timer"                 -> "simulation"
     [] OTHER                                  -> r.from.id[1]}

About(r, p) ==
  CASE "devices" \in IpcTopics(r) -> <<p.names, p.power>>
    [] "options" \in IpcTopics(r) -> p.action
    [] OTHER -> <<>>

Makes(r) == \E k \in DOMAIN r.steps : r.steps[k].method = "createTimer"

\* The request's methods, each called once on what the one before it led to, with what
\* the arguments mean.
Meant(arg) ==
  IF arg.json = "string" /\ \E e \in DOMAIN ApiEnums : arg.val \in DOMAIN ApiEnums[e]
  THEN ApiEnums[CHOOSE e \in DOMAIN ApiEnums : arg.val \in DOMAIN ApiEnums[e]][arg.val] ELSE arg.val

Wires(name) ==
  {m.wire : m \in {d \in UNION {ToSet(ApiClasses[c].methods) : c \in DOMAIN ApiClasses} : d.name = name}}

Literally(r) ==
  <<OnThePath(IF r.from.uuid THEN "getObjectByUuid" ELSE "root", <<r.from.id>>)>> \o
  [k \in DOMAIN r.steps |->
     OnThePath(CHOOSE wire \in Wires(r.steps[k].method) : TRUE, [n \in DOMAIN r.steps[k].args |-> Meant(r.steps[k].args[n])])]

Overflows(r) ==
  \E k \in DOMAIN r.steps : \E n \in DOMAIN r.steps[k].args :
    r.steps[k].args[n].json = "number" /\ r.steps[k].args[n].val > IntMax

\* What the request says happened, once, but for objects that were made more than once;
\* and its answer is what the path leads to.  A number too large for an enum becomes 0.
IpcWanted(r, was, now, told) ==
  LET once == FoldLeft(Walks, Walk(was), Literally(r)) IN
  Overflows(r) \/
  /\ once.is = "ok"
  /\ About(r, now) = About(r, once.pt) /\ now.timers >= once.pt.timers
  /\ told[Len(told)].data = IF once.on # <<>> THEN WireClass(once.on) ELSE once.val

\* No call that crashes Packet Tracer is sent.
IpcSound(p) == ~p.crashed
=============================================================================

------------------------------ MODULE Devices ------------------------------
(***************************************************************************)
(* The tools that change which devices the open network holds and whether  *)
(* they are powered: features/devices/manage.rs and list.rs, power/mod.rs  *)
(* and the power cycle of modules/install.rs.                              *)
(*                                                                         *)
(* The server works on several MCP calls at once and every tool is a       *)
(* sequence of IPC calls with nothing held in between, so the calls of     *)
(* other tools run between a tool's checks and its changes.  One action is *)
(* one IPC call, or one burst of reads about a single device.  An IPC call *)
(* may be lost before Packet Tracer sees it or after it took effect.       *)
(*                                                                         *)
(* Packet Tracer itself is taken from testing/canvas, the stand-in the     *)
(* repository tests against: devices in the order they were added, looked  *)
(* up by name (the first that has it) or by index.  Every device here runs *)
(* IOS, the kind with the most calls.                                      *)
(***************************************************************************)
EXTENDS Integers, Sequences, FiniteSets, McpCalls

CONSTANTS
  Requests,  \* what the agents may ask for
  Picks,     \* the names Packet Tracer gives new devices, in order
  NoName,    \* no name was given
  Grid,      \* no coordinates were given
  MaxCalls,  \* bound: calls started
  MaxMade    \* bound: devices ever created

Tools == {"add", "remove", "rename", "move", "power", "cycle", "module"}

\* Packet Tracer numbers the names it gives, and there is always one more.
ASSUME PicksAssumption ==
  /\ MaxMade \in Nat /\ MaxCalls \in Nat
  /\ Picks \in Seq({Picks[k] : k \in DOMAIN Picks}) /\ Len(Picks) >= MaxMade + 1
  /\ \A k \in DOMAIN Picks : Picks[k] # NoName
  /\ \A j, k \in DOMAIN Picks : Picks[j] = Picks[k] => j = k

\* Only add_device may leave the name to Packet Tracer; a power cycle has none.
ASSUME RequestsAssumption ==
  \A r \in Requests :
    /\ r \in [tool : Tools, name : {r.name}, to : {r.to}, at : {r.at}, on : BOOLEAN]
    /\ r.tool \notin {"add", "cycle"} => r.name # NoName
    /\ r.tool = "rename" => r.to # NoName

VARIABLES
  devices,   \* the network, in Packet Tracer's order
  made,      \* devices ever created; a device's id is its number
  call,      \* each task's call
  started    \* calls started

vars == <<devices, made, call, started>>

Pcs == {"free", "find", "unused", "count", "create", "boot", "setname", "describe",
        "remove", "reply", "move", "look", "switch", "verify", "row", "cut", "darken",
        "off", "change", "on", "after"}

Nothing == [tool |-> "none", name |-> NoName, to |-> NoName, at |-> Grid, on |-> FALSE]

\* touched, cut and crossed only serve the properties: the ids of the devices this call
\* has changed, of those it has switched off, and whether a call that may disturb it
\* ran at some time while it did.
Free == [pc |-> "free", req |-> Nothing, aim |-> NoName, count |-> 0, rows |-> <<>>,
         back |-> <<>>, applied |-> "no", result |-> "none",
         touched |-> {}, cut |-> {}, crossed |-> FALSE]

----------------------------------------------------------------------------
\* Packet Tracer's side.

Positions == DOMAIN devices

Called(n) == {i \in Positions : devices[i].name = n}

Here(n) == Called(n) # {}

\* getDevice(name): the first device with that name.
At(n) == CHOOSE i \in Called(n) : \A j \in Called(n) : i <= j

Device(n) == devices[At(n)]

\* addDevice: the device is appended under the first name nobody has.
Pick == Picks[CHOOSE k \in DOMAIN Picks :
                /\ ~Here(Picks[k])
                /\ \A j \in 1..(k - 1) : Here(Picks[j])]

New(place) == [id |-> made + 1, name |-> Pick, place |-> place, on |-> TRUE, card |-> FALSE]

Made(place) == Append(devices, New(place))

\* removeDevice(name): every device with that name goes.
Without(network, n) ==
  LET kept[k \in 0..Len(network)] ==
        IF k = 0 THEN <<>>
        ELSE IF network[k].name = n THEN kept[k - 1] ELSE Append(kept[k - 1], network[k])
  IN kept[Len(network)]

Named(n, new) == [devices EXCEPT ![At(n)].name = new]

Moved(n, place) == [devices EXCEPT ![At(n)].place = place]

Powered(n, on) == [devices EXCEPT ![At(n)].on = on]

\* addModule and removeModule: refused while the device is on, and when the slot is
\* already as asked.
Takes(n, in) == ~Device(n).on /\ Device(n).card # in

Carded(n, in) == [devices EXCEPT ![At(n)].card = in]

----------------------------------------------------------------------------
\* The server's side: how a call goes on and how it ends.

GRID_COLUMNS == 8
GRID_STEP == 120
GRID_ORIGIN == 100

next_grid_slot(existing) ==
  <<GRID_ORIGIN + (existing % GRID_COLUMNS) * GRID_STEP,
    GRID_ORIGIN + (existing \div GRID_COLUMNS) * GRID_STEP>>

Goes(t, c) == call' = [call EXCEPT ![t] = c]

To(t, pc) == Goes(t, [call[t] EXCEPT !.pc = pc])

Return(t, result) == Goes(t, [Free EXCEPT !.result = result])

Refused(t) == Return(t, "refused") /\ UNCHANGED <<devices, made, started>>

Reads == UNCHANGED <<devices, made, started>>

\* The call took effect; its reply arrives, or is lost and ends the tool.
Changes(t, network, c) ==
  /\ devices' = network
  /\ \/ Goes(t, c)
     \/ Return(t, "lost")
  /\ UNCHANGED <<made, started>>

On(t, pc, tools) == call[t].pc = pc /\ call[t].req.tool \in tools

\* What the name a tool ends with should be.
Wanted(t) == IF call[t].req.tool = "rename" THEN call[t].req.to ELSE call[t].req.name

----------------------------------------------------------------------------
\* When two calls may disturb each other (bookkeeping of the properties).  A call that
\* lost a race may go on to act on a device that is not the one it was asked about, so
\* whatever runs beside it counts as crossed too.

NamesOf(r) == {r.name, r.to} \ {NoName}

MayMake(r) == IF r.tool = "add" THEN {Picks[k] : k \in DOMAIN Picks} ELSE {}

Disturbs(r, s) ==
  \/ NamesOf(r) \cap (NamesOf(s) \cup MayMake(s)) # {}
  \/ NamesOf(s) \cap MayMake(r) # {}
  \/ r.tool = "cycle" /\ s.tool # "move"
  \/ s.tool = "cycle" /\ r.tool # "move"

Running(t) == call[t].pc # "free"

UniqueNames == \A i, j \in Positions : devices[i].name = devices[j].name => i = j

\* The first IPC call a request makes.
FirstStep(r) ==
  CASE r.tool = "add" /\ r.name # NoName -> "unused"
    [] r.tool = "add" /\ r.name = NoName -> IF r.at = Grid THEN "count" ELSE "create"
    [] r.tool = "cycle"                  -> "count"
    [] OTHER                             -> "find"

Start(t) ==
  /\ ~Running(t)
  /\ started < MaxCalls
  /\ \E r \in Requests :
       LET race == \E o \in Tasks : Running(o) /\ (call[o].crossed \/ Disturbs(call[o].req, r)) IN
       call' = [o \in Tasks |->
                  IF o = t THEN [Free EXCEPT !.pc = FirstStep(r), !.req = r, !.aim = r.name,
                                             !.crossed = race \/ ~UniqueNames]
                  ELSE [call[o] EXCEPT !.crossed = @ \/ (race /\ Running(o))]]
  /\ started' = started + 1
  /\ UNCHANGED <<devices, made>>

----------------------------------------------------------------------------
\* add, rename, move, remove.

\* describe(name): the tool goes on with a device of that name, or is refused.
AfterFind(t) ==
  CASE call[t].req.tool = "rename" ->
         IF call[t].req.to = call[t].req.name THEN "describe" ELSE "unused"
    [] call[t].req.tool = "power"  -> "look"
    [] call[t].req.tool = "cycle"  -> "look"
    [] call[t].req.tool = "module" -> "off"
    [] OTHER                       -> call[t].req.tool

\* The slot is not looked at before the power cycle.
Find_Unvalidated(t) ==
  /\ call[t].pc = "find"
  /\ IF Here(call[t].aim) THEN To(t, AfterFind(t)) /\ Reads ELSE Refused(t)

\* add_module is also refused when the slot holds a module, remove_module when it is
\* empty: both read the inventory before the device is touched.
Find(t) ==
  /\ call[t].pc = "find"
  /\ IF /\ Here(call[t].aim)
        /\ call[t].req.tool = "module" => Device(call[t].aim).card # call[t].req.on
     THEN To(t, AfterFind(t)) /\ Reads
     ELSE Refused(t)

\* ensure_unused left out.
Unused_Unchecked(t) ==
  /\ call[t].pc = "unused"
  /\ To(t, IF call[t].req.tool = "rename" THEN "setname"
           ELSE IF call[t].req.at = Grid THEN "count" ELSE "create")
  /\ Reads

\* ensure_unused(name)
Unused(t) ==
  /\ call[t].pc = "unused"
  /\ IF Here(Wanted(t)) THEN Refused(t)
     ELSE /\ To(t, IF call[t].req.tool = "rename" THEN "setname"
                   ELSE IF call[t].req.at = Grid THEN "count" ELSE "create")
          /\ Reads

Count(t) ==
  /\ On(t, "count", {"add"})
  /\ Goes(t, [call[t] EXCEPT !.pc = "create", !.count = Len(devices)])
  /\ Reads

Place(t) == IF call[t].req.at = Grid THEN next_grid_slot(call[t].count) ELSE call[t].req.at

Create(t) ==
  /\ call[t].pc = "create"
  /\ made < MaxMade
  /\ devices' = Made(Place(t))
  /\ made' = made + 1
  /\ \/ Goes(t, [call[t] EXCEPT !.pc = "boot", !.aim = Pick, !.touched = @ \cup {made + 1}])
     \/ Return(t, "lost")
  /\ UNCHANGED started

\* The test for a name still to be set is the wrong way round.
BootNew_Kept(t) ==
  /\ On(t, "boot", {"add"})
  /\ To(t, IF Wanted(t) = call[t].aim THEN "setname" ELSE "describe")
  /\ Reads

\* skipBoot and ready_console: what they answer is only logged here.
BootNew(t) ==
  /\ On(t, "boot", {"add"})
  /\ To(t, IF Wanted(t) \notin {NoName, call[t].aim} THEN "setname" ELSE "describe")
  /\ Reads

SetName(t) ==
  /\ call[t].pc = "setname"
  /\ IF ~Here(call[t].aim) THEN Refused(t)
     ELSE Changes(t, Named(call[t].aim, Wanted(t)),
                  [call[t] EXCEPT !.pc = "describe", !.aim = Wanted(t),
                                  !.touched = @ \cup {Device(call[t].aim).id}])

\* Every change is read back before it is answered.
Describe(t) ==
  /\ call[t].pc = "describe"
  /\ IF Here(call[t].aim) THEN Return(t, "done") /\ Reads ELSE Refused(t)

Move(t) ==
  /\ call[t].pc = "move"
  /\ IF ~Here(call[t].aim) THEN Refused(t)
     ELSE Changes(t, Moved(call[t].aim, call[t].req.at),
                  [call[t] EXCEPT !.pc = "describe",
                                  !.touched = @ \cup {Device(call[t].aim).id}])

RemoveDevice(t) ==
  /\ call[t].pc = "remove"
  /\ Changes(t, Without(devices, call[t].aim),
             [call[t] EXCEPT !.pc = "reply",
                             !.applied = IF Here(call[t].aim) THEN "yes" ELSE "no",
                             !.touched = @ \cup {devices[i].id : i \in Called(call[t].aim)}])

Reply(t) ==
  /\ call[t].pc = "reply"
  /\ Return(t, IF call[t].applied = "yes" THEN "done" ELSE "refused")
  /\ Reads

----------------------------------------------------------------------------
\* set_power, and power_cycle_all: every device that is on goes off, then set_power
\* brings back each of them in turn.

CountRows(t) ==
  /\ On(t, "count", {"cycle"})
  /\ Goes(t, [call[t] EXCEPT !.pc = "row", !.count = Len(devices)])
  /\ Reads

\* list reads the devices by index, as many as it counted.
Row(t) ==
  /\ call[t].pc = "row"
  /\ LET k == Len(call[t].rows) + 1 IN
     IF k > call[t].count THEN To(t, "cut") /\ Reads
     ELSE IF k \notin Positions THEN Refused(t)
     ELSE /\ Goes(t, [call[t] EXCEPT !.rows = Append(@, devices[k].name)])
          /\ Reads

NextBack(t, c) ==
  IF c.back = <<>> THEN Return(t, "done")
  ELSE Goes(t, [c EXCEPT !.pc = "find", !.aim = Head(c.back)])

Cut(t) ==
  /\ call[t].pc = "cut"
  /\ LET c == call[t] IN
     IF c.rows = <<>> THEN NextBack(t, c) /\ Reads
     ELSE IF ~Here(Head(c.rows)) THEN Refused(t)
     ELSE IF Device(Head(c.rows)).on THEN To(t, "darken") /\ Reads
     ELSE Goes(t, [c EXCEPT !.rows = Tail(@)]) /\ Reads

Darken(t) ==
  /\ call[t].pc = "darken"
  /\ LET n == Head(call[t].rows) IN
     IF ~Here(n) THEN Refused(t)
     ELSE Changes(t, Powered(n, FALSE),
                  [call[t] EXCEPT !.pc = "cut", !.rows = Tail(@), !.back = Append(@, n),
                                  !.touched = @ \cup {Device(n).id},
                                  !.cut = @ \cup {Device(n).id}])

Asked(t) == call[t].req.tool = "cycle" \/ call[t].req.on

Look(t) ==
  /\ call[t].pc = "look"
  /\ IF ~Here(call[t].aim) THEN Refused(t)
     ELSE To(t, IF Device(call[t].aim).on = Asked(t) THEN "verify" ELSE "switch") /\ Reads

Switch(t) ==
  /\ call[t].pc = "switch"
  /\ IF ~Here(call[t].aim) THEN Refused(t)
     ELSE Changes(t, Powered(call[t].aim, Asked(t)),
                  [call[t] EXCEPT !.pc = IF Asked(t) THEN "boot" ELSE "verify",
                                  !.touched = @ \cup {Device(call[t].aim).id}])

\* Here an error of skipBoot or ready_console ends the tool.
BootAgain(t) ==
  /\ On(t, "boot", {"power", "cycle"})
  /\ IF Here(call[t].aim) THEN To(t, "verify") /\ Reads ELSE Refused(t)

Verify(t) ==
  /\ call[t].pc = "verify"
  /\ LET c == call[t] IN
     IF ~Here(c.aim) \/ Device(c.aim).on # Asked(t) THEN Refused(t)
     ELSE /\ IF c.req.tool = "cycle" THEN NextBack(t, [c EXCEPT !.back = Tail(@)])
             ELSE Return(t, "done")
          /\ Reads

----------------------------------------------------------------------------
\* add_module and remove_module: the device is switched off, changed and switched back
\* on whatever the change answered.

PowerOff(t) ==
  /\ call[t].pc = "off"
  /\ IF ~Here(call[t].aim) THEN Refused(t)
     ELSE Changes(t, Powered(call[t].aim, FALSE),
                  [call[t] EXCEPT !.pc = "change",
                                  !.touched = @ \cup {Device(call[t].aim).id},
                                  !.cut = @ \cup {Device(call[t].aim).id}])

Becomes(t, applied) == Goes(t, [call[t] EXCEPT !.pc = "on", !.applied = applied])

\* `change().await?`: an error of the change returns before the power comes back.
Change_Hurried(t) ==
  /\ call[t].pc = "change"
  /\ IF Here(call[t].aim) /\ Takes(call[t].aim, call[t].req.on)
     THEN /\ devices' = Carded(call[t].aim, call[t].req.on)
          /\ (Becomes(t, "yes") \/ Return(t, "change_lost"))
          /\ UNCHANGED <<made, started>>
     ELSE (Becomes(t, "no") \/ Return(t, "change_lost")) /\ Reads

Change(t) ==
  /\ call[t].pc = "change"
  /\ IF Here(call[t].aim) /\ Takes(call[t].aim, call[t].req.on)
     THEN /\ devices' = Carded(call[t].aim, call[t].req.on)
          /\ \E applied \in {"yes", "lost"} : Becomes(t, applied)
          /\ UNCHANGED <<made, started>>
     ELSE \E applied \in {"no", "lost"} : Becomes(t, applied) /\ Reads

PowerOn(t) ==
  /\ call[t].pc = "on"
  /\ IF ~Here(call[t].aim) THEN Refused(t)
     ELSE Changes(t, Powered(call[t].aim, TRUE), [call[t] EXCEPT !.pc = "boot"])

\* skipBoot and ready_console again only log.
BootModule(t) ==
  /\ On(t, "boot", {"module"})
  /\ To(t, "after")
  /\ Reads

\* The change's own error first, then the ports that came and went.
After(t) ==
  /\ call[t].pc = "after"
  /\ Return(t, CASE call[t].applied = "lost" -> "change_lost"
                 [] call[t].applied = "no"   -> "refused"
                 [] OTHER -> IF Here(call[t].aim) THEN "done" ELSE "refused")
  /\ Reads

----------------------------------------------------------------------------
\* An IPC call whose request never reaches Packet Tracer ends the tool, except where
\* the tool carries on without its answer.
Lose(t) ==
  /\ Running(t)
  /\ call[t].pc # "change"
  /\ call[t].pc = "boot" => call[t].req.tool \in {"power", "cycle"}
  /\ Return(t, "lost")
  /\ Reads

Init ==
  /\ devices = <<>>
  /\ made = 0
  /\ call = [t \in Tasks |-> Free]
  /\ started = 0

Step(t) ==
  \/ Find(t) \/ Unused(t) \/ Count(t) \/ Create(t) \/ BootNew(t) \/ SetName(t)
  \/ Describe(t) \/ Move(t) \/ RemoveDevice(t) \/ Reply(t)
  \/ CountRows(t) \/ Row(t) \/ Cut(t) \/ Darken(t) \/ Look(t) \/ Switch(t)
  \/ BootAgain(t) \/ Verify(t)
  \/ PowerOff(t) \/ Change(t) \/ PowerOn(t) \/ BootModule(t) \/ After(t)
  \/ Lose(t)

Next == \E t \in Tasks : Start(t) \/ Step(t)

Spec == Init /\ [][Next]_vars

----------------------------------------------------------------------------
\* Properties.

\* Every variable has its type; a free task keeps nothing but its last result.
TypeOK ==
  /\ made \in 0..MaxMade
  /\ started \in 0..MaxCalls
  /\ \A i \in Positions :
       /\ devices[i].id \in 1..made
       /\ devices[i].on \in BOOLEAN
       /\ devices[i].card \in BOOLEAN
  /\ \A i, j \in Positions : i < j => devices[i].id < devices[j].id
  /\ \A t \in Tasks :
       /\ call[t].pc \in Pcs
       /\ call[t].req \in Requests \cup {Nothing}
       /\ ~Running(t) => call[t] = [Free EXCEPT !.result = call[t].result]

Returns(t) == Running(t) /\ call'[t].pc = "free"

Answers(t, results) == Returns(t) /\ call'[t].result \in results

\* "Names are unique" (devices/README.md): as long as no two calls that concern the
\* same name have run at once, no two devices share a name, whatever else runs in
\* parallel and whichever calls are lost on the way.
SharedNamesComeFromRaces ==
  [][UniqueNames /\ ~UniqueNames' => \E t \in Tasks : Running(t) /\ call[t].crossed]_vars

\* A tool that answers that it refuses has changed nothing: its checks come before its
\* first change, so with nobody else on its names no later check can fail.
RefusalsChangeNothing ==
  [][\A t \in Tasks :
       Answers(t, {"refused"}) /\ ~call[t].crossed => call[t].touched = {}]_vars

\* What call c has still to switch on: the devices it cycles one after another, of which
\* `back` names the one it is at and those to come, or the one it changes a module of.
StillOff(c, n) ==
  \/ c.req.tool = "cycle" /\ \E k \in DOMAIN c.back : c.back[k] = n
  \/ c.req.tool = "module" /\ c.pc = "on"

\* A power cycle or a module change brings back every device it knows to have switched
\* off, also when the change itself failed.  Any IPC call whose answer is lost ends either
\* of them, and then those stay dark that were still to be switched on, and no others.
NothingLeftDark ==
  [][\A t \in Tasks :
       Returns(t) /\ ~call[t].crossed
       => \A i \in DOMAIN devices' : devices'[i].id \in call[t].cut =>
            \/ devices'[i].on
            \/ call'[t].result = "lost" /\ StillOff(call[t], devices'[i].name)]_vars

\* A call has done what it was asked to, in network s.
Done(c, s) ==
  LET r == c.req
      named(n) == {i \in DOMAIN s : s[i].name = n} IN
  CASE r.tool = "add"    -> \E i \in DOMAIN s :
                              /\ c.touched = {s[i].id}
                              /\ r.name # NoName => named(r.name) = {i}
                              /\ r.at # Grid => s[i].place = r.at
    [] r.tool = "rename" -> /\ \E i \in DOMAIN s : named(r.to) = {i} /\ c.touched \subseteq {s[i].id}
                            /\ r.name # r.to => named(r.name) = {}
    [] r.tool = "remove" -> named(r.name) = {} /\ c.touched # {}
    [] r.tool = "move"   -> \A i \in named(r.name) : s[i].place = r.at
    [] r.tool = "power"  -> \A i \in named(r.name) : s[i].on = r.on
    [] r.tool = "module" -> \A i \in named(r.name) : s[i].card = r.on
    [] r.tool = "cycle"  -> \A i \in DOMAIN s : s[i].on <=> s[i].id \in c.cut

\* A tool that answers that it is done has done it, to the device it was asked to, as
\* the network shows at that moment.
DoneIsDone ==
  [][\A t \in Tasks :
       Answers(t, {"done"}) /\ ~call[t].crossed => Done(call[t], devices')]_vars

\* "Give both x and y, or neither to use the next free grid slot" (AddDeviceRequest): a
\* device added without coordinates lands where no other device is.
GridSlotIsFree ==
  [][\A t \in Tasks :
       call[t].pc = "create" /\ call'[t].pc = "boot" /\ call[t].req.at = Grid
       => \A i \in Positions : devices[i].place # Place(t)]_vars
=============================================================================

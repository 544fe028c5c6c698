----------------------------- MODULE ToolCalls -----------------------------
(***************************************************************************)
(* The tools of features/ that are plans of IPC calls, run by several MCP  *)
(* calls at once against one Packet Tracer.  An MCP call works through its *)
(* plan with nothing held in between; an IPC call may be lost before       *)
(* Packet Tracer sees it or after it took effect, and an agent whose call  *)
(* was lost may ask for the same thing again.                              *)
(*                                                                         *)
(* The tools come in parts that share no state (links, hosts, ...); one    *)
(* behaviour is about one part.  A part gives its tools' plans, Packet     *)
(* Tracer's answers, what a tool should leave behind (Wanted), which calls *)
(* may disturb each other (Topics) and what always holds of its state.     *)
(***************************************************************************)
EXTENDS LinkTools, HostTools, DesktopTools, PhysicalTools, WirelessTools,
        SimulationTools, PreferenceTools, ActivityTools, CanvasTools, SlotTools, IpcTools, McpCalls

CONSTANTS
  Asks,          \* part -> what the agents may ask for
  MaxToolCalls,  \* bound: part -> MCP calls started
  Busy,          \* bound: part -> the tasks at work at once
  MaxAgain,      \* bound: MCP calls beyond those that repeat one whose answer was lost
  MaxPlan        \* bound: IPC calls a tool makes (no plan is longer)

ListOf(s) == s \in Seq({s[k] : k \in DOMAIN s})

\* Requests are what the tools' schemas let through.
ASSUME AsksAssumption ==
  /\ DOMAIN Asks \subseteq {"links", "hosts", "services", "desktop", "physical", "wireless", "simulation",
                            "preferences", "activity", "canvas", "modules", "ipc"}
  /\ "links" \in DOMAIN Asks =>
       \A r \in Asks["links"] : r.tool \in {"connect", "disconnect", "list_links", "list_ports", "remove"}
  /\ "hosts" \in DOMAIN Asks => \A r \in Asks["hosts"] :
       /\ r.tool \in {"configure_host", "configure_host_ipv6", "set_host_firewall"}
       /\ r.tool = "set_host_firewall" => ListOf(r.adds) /\ ListOf(r.removes)
       /\ r.tool = "configure_host_ipv6" => r.mode \in {"static", "auto", "off"} /\ ListOf(r.address)
  /\ "services" \in DOMAIN Asks => \A r \in Asks["services"] :
       /\ r.tool \in {"set_server_service", "list_server_services", "configure_dhcp_server",
                     "configure_dns_server", "set_web_page", "add_server_user"}
       /\ r.tool = "list_server_services" => ListOf(r.services)
       /\ r.tool = "configure_dhcp_server" => ListOf(r.pools)
       /\ r.tool = "configure_dns_server" => ListOf(r.records)
  /\ "simulation" \in DOMAIN Asks => \A r \in Asks["simulation"] :
       /\ r.tool \in {"simulation_mode", "simulation_step", "add_pdu", "list_simulation_events"}
       /\ r.tool = "simulation_step" => r.action \in {"forward", "backward", "resetSimulation"} /\ r.times \in Nat
  /\ "preferences" \in DOMAIN Asks => \A r \in Asks["preferences"] :
       /\ r.tool \in {"get_preferences", "set_preferences"}
       /\ r.tool = "set_preferences" => ListOf(r.values)
  /\ "activity" \in DOMAIN Asks => \A r \in Asks["activity"] :
       r.tool \in {"activity_status", "activity_instructions", "unlock_activity", "check_activity",
                   "reset_activity", "network_description"}
  /\ "canvas" \in DOMAIN Asks => \A r \in Asks["canvas"] :
       /\ r.tool \in {"add_note", "list_notes", "remove_note", "draw", "list_drawings", "remove_drawing", "screenshot"}
       /\ r.tool = "draw" =>
            /\ r.shape \in {"circle", "rectangle", "line"} /\ {r.x, r.y} \subseteq Int
            /\ r.radius \in Seq(Int) /\ r.to \in Seq(Int \X Int)
       /\ r.tool = "screenshot" => r.view \in {"logical", "window", "physical", "physical_rack"}
  /\ "wireless" \in DOMAIN Asks => \A r \in Asks["wireless"] :
       /\ r.tool \in {"configure_access_point", "connect_wireless", "wireless_status"}
       /\ r.tool = "connect_wireless" => r.security \in {"open", "wep", "wpa_psk", "wpa2_psk"}

VARIABLES
  pt,           \* Packet Tracer's state, as far as the part knows it
  toolcall,     \* each task's call
  toolstarted   \* MCP calls started

toolvars == <<pt, toolcall, toolstarted>>

\* seen: the answers so far.  The rest only serves the properties: Packet Tracer's state
\* when the agent first asked (for the tools whose outcome depends on it) and what the
\* request would have come to alone, whether this call changed anything, whether a call
\* that may disturb it ran since the agent asked, and whether the agent asks again because
\* the answer was lost.
Idle == [on |-> FALSE, req |-> [tool |-> "none"], seen |-> <<>>, result |-> "none",
         from |-> [part |-> "none"], alone |-> "none",
         next |-> Item("done", "", <<>>, {}, FALSE), changed |-> FALSE, crossed |-> FALSE, again |-> FALSE]

----------------------------------------------------------------------------
\* The parts.

Plan(r, seen) ==
  CASE pt.part = "links"    -> LinkPlan(r, seen)
    [] pt.part = "hosts"    -> HostPlan(r, seen)
    [] pt.part = "services" -> ServicePlan(r, seen)
    [] pt.part = "desktop"  -> DesktopPlan(r, seen)
    [] pt.part = "physical" -> PhysicalPlan(r, seen)
    [] pt.part = "wireless" -> WirelessPlan(r, seen)
    [] pt.part = "simulation"  -> SimulationPlan(r, seen)
    [] pt.part = "preferences" -> PreferencePlan(r, seen)
    [] pt.part = "activity"    -> ActivityPlan(r, seen)
    [] pt.part = "canvas"      -> CanvasPlan(r, seen)
    [] pt.part = "modules"     -> SlotPlan(r, seen)
    [] pt.part = "ipc"     -> IpcPlan(r, seen)

Answer(p, c) ==
  CASE p.part = "links"    -> LinkAnswer(p, c)
    [] p.part = "hosts"    -> HostAnswer(p, c)
    [] p.part = "services" -> ServiceAnswer(p, c)
    [] p.part = "desktop"  -> DesktopAnswer(p, c)
    [] p.part = "physical" -> PhysicalAnswer(p, c)
    [] p.part = "wireless" -> WirelessAnswer(p, c)
    [] p.part = "simulation"  -> SimulationAnswer(p, c)
    [] p.part = "preferences" -> PreferenceAnswer(p, c)
    [] p.part = "activity"    -> ActivityAnswer(p, c)
    [] p.part = "canvas"      -> CanvasAnswer(p, c)
    [] p.part = "modules"     -> SlotAnswer(p, c)
    [] p.part = "ipc"     -> IpcAnswer(p, c)

\* told: the answers the tool was given.
ToolWanted(r, was, now, told) ==
  CASE now.part = "links"    -> LinkWanted(r, was, now)
    [] now.part = "hosts"    -> HostWanted(r, was, now)
    [] now.part = "services" -> ServiceWanted(r, now)
    [] now.part = "desktop"  -> DesktopWanted(r, now, told)
    [] now.part = "physical" -> PhysicalWanted(r, was, now)
    [] now.part = "wireless" -> WirelessWanted(r, was, now)
    [] now.part = "simulation"  -> SimulationWanted(r, was, now)
    [] now.part = "preferences" -> PreferenceWanted(r, now)
    [] now.part = "activity"    -> ActivityWanted(r, was, now)
    [] now.part = "canvas"      -> CanvasWanted(r, was, now)
    [] now.part = "modules"     -> SlotWanted(r, was, now)
    [] now.part = "ipc"     -> IpcWanted(r, was, now, told)

Topics(r) ==
  CASE pt.part = "links"    -> LinkTopics(r)
    [] pt.part = "hosts"    -> HostTopics(r)
    [] pt.part = "services" -> ServiceTopics(r)
    [] pt.part = "desktop"  -> DesktopTopics(r)
    [] pt.part = "physical" -> PhysicalTopics(r)
    [] pt.part = "wireless" -> WirelessTopics(r)
    [] pt.part = "simulation"  -> SimulationTopics(r)
    [] pt.part = "preferences" -> PreferenceTopics(r)
    [] pt.part = "activity"    -> ActivityTopics(r)
    [] pt.part = "canvas"      -> CanvasTopics(r)
    [] pt.part = "modules"     -> SlotTopics(r)
    [] pt.part = "ipc"     -> IpcTopics(r)

Settled(p) ==
  CASE p.part = "hosts"   -> HostSettles(p)
    [] p.part = "desktop" -> DesktopSettles(p)
    [] p.part = "wireless" -> WirelessSettles(p)
    [] OTHER              -> {}

Sound(p) ==
  CASE p.part = "links"    -> LinkSound(p)
    [] p.part = "hosts"    -> HostSound(p)
    [] p.part = "services" -> ServiceSound(p)
    [] p.part = "desktop"  -> DesktopSound(p)
    [] p.part = "physical" -> PhysicalSound(p)
    [] p.part = "wireless" -> WirelessSound(p)
    [] p.part = "simulation"  -> SimulationSound(p)
    [] p.part = "preferences" -> PreferenceSound(p)
    [] p.part = "activity"    -> ActivitySound(p)
    [] p.part = "canvas"      -> CanvasSound(p)
    [] p.part = "modules"     -> SlotSound(p)
    [] p.part = "ipc"     -> IpcSound(p)

\* Something an earlier call set going will get in the way of this one.
Owes(r) == pt.part = "desktop" /\ DesktopOwes(pt, r)

\* Calls that work off a list, act and then wait for the outcome, or check late: what they
\* did before they were refused stays.
Piecemeal(r) ==
  \/ r.tool \in {"set_host_firewall", "configure_dhcp_server", "configure_dns_server",
                 "add_server_user", "browse_web", "send_email", "receive_email", "vpn_client",
                 "unlock_activity"}
  \/ pt.part = "physical" /\ late_spot(r)
  \/ r.tool = "connect_wireless" /\ ~Plausible(r.address)
  \/ r.tool = "call_ipc" /\ Makes(r)
  \/ r.tool = "screenshot" /\ r.view \in {"physical", "physical_rack"}

\* Tools whose outcome depends on what was there before.
Relative == {"set_host_firewall", "connect_wireless", "add_location", "rename_location", "remove_location",
             "move_to_location", "arrange_devices", "set_background",
             "simulation_step", "add_pdu", "check_activity", "reset_activity",
             "add_note", "remove_note", "draw", "remove_drawing", "screenshot",
             "add_module", "remove_module", "call_ipc"}

\* Tools that set something to what it should be, so that asking twice is as good as
\* asking once.  The others make, take away or append.
Repeatable(r) ==
  \/ r.tool \in {"configure_host", "configure_host_ipv6", "set_server_service",
                 "configure_dhcp_server", "set_web_page", "configure_email", "vpn_client",
                 "configure_access_point", "simulation_mode", "set_preferences", "network_description"}
  \/ r.tool = "host_files" /\ r.action = "write"

----------------------------------------------------------------------------
AtWork(t) == toolcall[t].on

\* The request is still the agent's concern: it runs, or its answer was lost.
Open(t) == AtWork(t) \/ toolcall[t].result = "lost"

CallBecomes(t, c) == toolcall' = [toolcall EXCEPT ![t] = c]

Finishes(t, result) ==
  CallBecomes(t, IF result = "lost"
          THEN [toolcall[t] EXCEPT !.on = FALSE, !.result = result, !.seen = <<>>,
                               !.next = Idle.next, !.changed = FALSE, !.again = FALSE]
          ELSE [Idle EXCEPT !.result = result])

\* The next IPC call of a tool, given the answers so far; none is left when it is done.
ItemAfter(plan, made) == IF made < Len(plan) THEN plan[made + 1] ELSE Idle.next

Following(r, seen) == ItemAfter(Plan(r, seen), Len(seen))

\* A tool that took a lost look-up for an answer ("no such pool") is unsure: its own
\* answer may be wrong either way.
Outcome(result, seen) ==
  IF \E k \in DOMAIN seen : seen[k].is = "lost" THEN "unsure" ELSE result

\* The tool has an answer to go on after: its plan ends, refuses or goes on.
GoesOnWith(t, seen, next) ==
  CASE next.op = "done"   -> Finishes(t, Outcome("done", seen))
    [] next.op = "refuse" -> Finishes(t, Outcome("refused", seen))
    [] OTHER              -> CallBecomes(t, [toolcall[t] EXCEPT !.seen = seen, !.next = next,
                                                     !.changed = @ \/ pt' # pt])

GoesOn(t, seen) == GoesOnWith(t, seen, Following(toolcall[t].req, seen))

Told(reply) == [is |-> reply.is, data |-> reply.data]

\* What a request comes to when nothing else happens and nothing is lost: one call more.
Further(so, item, reply) ==
  IF item.op = "done" THEN [so EXCEPT !.result = "done"]
  ELSE IF item.op = "refuse" \/ reply.is \notin item.need THEN [so EXCEPT !.result = "refused"]
  ELSE [so EXCEPT !.pt = reply.pt, !.seen = Append(@, Told(reply))]

Alone(r, p) ==
  LET one(so, item) == Further(so, item, Answer(so.pt, item))
      run[n \in 0..MaxPlan] ==
        IF n = 0 THEN [pt |-> p, seen |-> <<>>, result |-> "none"]
        ELSE LET so == run[n - 1] IN
             IF so.result # "none" THEN so ELSE one(so, Following(r, so.seen)) IN
  run[MaxPlan].result

Interferes(r, s) == Topics(r) \cap Topics(s) # {}

Rivals(t, r) == {o \in Tasks \ {t} : Open(o) /\ Interferes(toolcall[o].req, r)}

\* The call of a request that t asks for, anew or again after its answer was lost.
AskedFor(t, r, again) ==
  LET asked == IF again THEN toolcall[t]
               ELSE [Idle EXCEPT !.req = r,
                                 !.from = IF r.tool \in Relative THEN pt ELSE @,
                                 !.alone = IF Repeatable(r) THEN Alone(r, pt) ELSE @] IN
  [asked EXCEPT !.on = TRUE, !.result = "none", !.again = again,
                !.crossed = @ \/ Owes(r) \/ \E o \in Rivals(t, r) : AtWork(o)]

Begin(t, asked, rivals) ==
  IF asked.next.op = "refuse" THEN Finishes(t, "refused")
  ELSE toolcall' = [o \in Tasks |-> IF o = t THEN asked
                                ELSE IF o \in rivals THEN [toolcall[o] EXCEPT !.crossed = TRUE]
                                ELSE toolcall[o]]

\* The agent asks: a request that does not make sense is refused at once.
ToolStarts(t) ==
  /\ ~AtWork(t)
  /\ Cardinality({o \in Tasks \ {t} : Open(o)}) < Busy[pt.part]
  /\ toolstarted' = toolstarted + 1
  /\ UNCHANGED pt
  /\ \E r \in Asks[pt.part] :
       LET again == toolcall[t].result = "lost" /\ toolcall[t].req = r IN
       /\ toolstarted < MaxToolCalls[pt.part] + (IF again THEN MaxAgain ELSE 0)
       /\ Begin(t, [AskedFor(t, r, again) EXCEPT !.next = Following(r, <<>>)], Rivals(t, r))

\* Packet Tracer answers; an answer the tool cannot use ends it.
AnsweredWith(t, reply) ==
  /\ pt' = reply.pt
  /\ IF reply.is \in toolcall[t].next.need THEN GoesOn(t, Append(toolcall[t].seen, Told(reply)))
     ELSE Finishes(t, Outcome("refused", toolcall[t].seen))

Answered(t) ==
  /\ AtWork(t)
  /\ UNCHANGED toolstarted
  /\ AnsweredWith(t, Answer(pt, toolcall[t].next))

\* The tool never hears what became of the call.
Unheard(t) ==
  IF toolcall[t].next.soft THEN GoesOn(t, Append(toolcall[t].seen, [is |-> "lost", data |-> ""]))
  ELSE Finishes(t, Outcome("lost", toolcall[t].seen))

RequestLost(t) ==
  /\ AtWork(t)
  /\ UNCHANGED <<pt, toolstarted>>
  /\ Unheard(t)

ReplyLost(t) ==
  /\ AtWork(t)
  /\ UNCHANGED toolstarted
  /\ pt' = Answer(pt, toolcall[t].next).pt
  /\ pt' # pt
  /\ Unheard(t)

\* The network does by itself what it was set to do.
Settle ==
  /\ pt' \in Settled(pt)
  /\ UNCHANGED <<toolcall, toolstarted>>

ToolSteps(t) == Answered(t) \/ RequestLost(t) \/ ReplyLost(t)

Begins(part) ==
  CASE part = "links"    -> LinkInit
    [] part = "hosts"    -> HostInit
    [] part = "services" -> ServiceInit
    [] part = "desktop"  -> DesktopInit
    [] part = "physical" -> PhysicalInit
    [] part = "wireless" -> WirelessInit
    [] part = "simulation"  -> SimulationInit
    [] part = "preferences" -> PreferenceInit
    [] part = "activity"    -> ActivityInit
    [] part = "canvas"      -> CanvasInit
    [] part = "modules"     -> SlotInit
    [] part = "ipc"     -> IpcInit

ToolInit ==
  /\ \E part \in DOMAIN Asks : pt \in Begins(part)
  /\ toolcall = [t \in Tasks |-> Idle]
  /\ toolstarted = 0

\* No part is run.
NoTool ==
  /\ pt = [part |-> "none"]
  /\ toolcall = [t \in Tasks |-> Idle]
  /\ toolstarted = 0

ToolNext == Settle \/ \E t \in Tasks : ToolStarts(t) \/ ToolSteps(t)

ToolSpec == ToolInit /\ [][ToolNext]_toolvars

----------------------------------------------------------------------------
\* Properties.

CallReturns(t, result) == AtWork(t) /\ ~toolcall'[t].on /\ toolcall'[t].result = result

\* A tool that refuses has changed nothing: what can be checked is checked before the first
\* change.  Exempt are tools that work off a list or act and then wait for the outcome, spots
\* and addresses that are checked after the change (place.rs:274, radio.rs:362), captures that
\* fail with the view changed, and paths that make a timer (Piecemeal).
ToolRefusalsChangeNothing ==
  [][\A t \in Tasks :
       CallReturns(t, "refused") /\ ~toolcall[t].crossed /\ ~Piecemeal(toolcall[t].req)
       => ~toolcall[t].changed /\ pt' = pt]_toolvars

\* A tool that answers that it is done has left behind what it was asked for, also when
\* it was asked again after its first answer was lost.
ToolDoneIsDone ==
  [][\A t \in Tasks :
       LET c == toolcall[t] IN
       /\ CallReturns(t, "done") /\ ~c.crossed
       /\ c.again => Repeatable(c.req)
       => ToolWanted(c.req, c.from, pt', Append(c.seen, Told(Answer(pt, c.next))))]_toolvars

\* An agent that repeats a call whose answer was lost, of a tool that sets something to what
\* it should be (Repeatable), is refused only what the call would have been refused anyway:
\* wherever the first attempt broke off, the second gets past it.  The others (connect,
\* disconnect, configure_dns_server, add_server_user, set_host_firewall, ...) may be refused
\* because the first attempt took effect.
RetriesGetThrough ==
  [][\A t \in Tasks :
       LET c == toolcall[t] IN
       /\ CallReturns(t, "refused") /\ c.again /\ ~c.crossed
       /\ Repeatable(c.req)
       => c.alone = "refused"]_toolvars
=============================================================================

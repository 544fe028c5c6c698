-------------------------- MODULE SimulationTools --------------------------
(***************************************************************************)
(* simulation_mode, add_pdu, simulation_step and list_simulation_events    *)
(* (features/simulation).  An event is [time, device, from, accepted]; a   *)
(* PDU is [source, destination].                                           *)
(***************************************************************************)
EXTENDS ToolPlans, SequencesExt

CONSTANTS
  Stations,      \* the devices there are
  MAX_STEPS,     \* 200
  DEFAULT_LIMIT, \* 50
  MAX_LIMIT      \* 500

\* One look at the mode, the clock, the events and where the simulation stands.
state == Ask("simulation", "")

\* The mode is looked at once, before the first step.
simulation_step(r, seen) ==
  Then(Check(r.times \in 1..MAX_STEPS) \o <<state>>, seen,
       LAMBDA got, more :
         Check(got[1].data.on)
         \o [k \in 1..(IF r.action = "resetSimulation" THEN 1 ELSE r.times) |-> Tell(r.action, "", <<>>)]
         \o <<state>>)

\* addSimplePdu answers with an error code, 0 when there is none.
add_pdu(r, seen) ==
  Then(Check("" \notin {r.source, r.destination}) \o <<Tell("addSimplePdu", "", r)>>, seen,
       LAMBDA got, more : Check(got[1].data = 0) \o <<state>>)

Newest(n, s) == SubSeq(s, IF Len(s) > n THEN Len(s) - n + 1 ELSE 1, Len(s))

Limit(r) == LET limit == IF r.limit = 0 THEN DEFAULT_LIMIT ELSE r.limit IN
            IF limit > MAX_LIMIT THEN MAX_LIMIT ELSE limit

\* As many events as were counted are read by their index, then the decisions of those
\* that are returned.
list_events(r, seen) ==
  Then(<<Ask("getFrameInstanceCount", "")>>, seen,
       LAMBDA got, more :
         Then([k \in 1..got[1].data |-> Tell("getFrameInstanceAt", "", k)], more,
              LAMBDA summaries, rest :
                LET matching == SelectSeq([k \in DOMAIN summaries |-> k], LAMBDA k :
                                  r.device \in {"", summaries[k].data.device})
                    events == Newest(Limit(r), matching) IN
                [k \in DOMAIN events |-> Tell("getDecisionAt", "", events[k])]))

SimulationPlan(r, seen) ==
  CASE r.tool = "simulation_mode"        -> <<Tell("setSimulationMode", "", r.on), state>>
    [] r.tool = "simulation_step"        -> simulation_step(r, seen)
    [] r.tool = "add_pdu"                -> add_pdu(r, seen)
    [] r.tool = "list_simulation_events" -> list_events(r, seen)

----------------------------------------------------------------------------
\* Packet Tracer's side.

Event(time, device, from, accepted) ==
  [time |-> time, device |-> device, from |-> from, accepted |-> accepted]

Clear(p) == [p EXCEPT !.frames = <<>>, !.pending = <<>>]

\* The PDUs that wait arrive.
forward(p) ==
  LET arrived == [k \in DOMAIN p.pending |->
                    Event(p.clock + 1, p.pending[k].destination, p.pending[k].source, TRUE)]
      all == p.frames \o arrived IN
  [p EXCEPT !.clock = @ + 1, !.frames = all, !.pending = <<>>,
            !.current = IF all = <<>> THEN 0 ELSE Len(all) - 1]

backward(p) == [p EXCEPT !.current = IF @ = 0 THEN 0 ELSE @ - 1]

\* 20 and 30: no such source, no such destination.
add_simple_pdu(p, r) ==
  IF r.source \notin Stations THEN Gives(p, 20)
  ELSE IF r.destination \notin Stations THEN Gives(p, 30)
  ELSE Gives(IF p.on THEN [p EXCEPT !.frames = Append(@, Event(p.clock, r.source, "", FALSE)),
                                    !.pending = Append(@, [source |-> r.source, destination |-> r.destination])]
             ELSE p, 0)

SimulationAnswer(p, c) ==
  CASE c.op = "simulation" -> Gives(p, [on |-> p.on, current |-> p.current, events |-> Len(p.frames)])
    [] c.op = "setSimulationMode" -> Obeys(IF c.val THEN [p EXCEPT !.on = TRUE] ELSE [Clear(p) EXCEPT !.on = FALSE])
    [] c.op = "forward" -> Obeys(forward(p))
    [] c.op = "backward" -> Obeys(backward(p))
    [] c.op = "resetSimulation" -> Obeys([Clear(p) EXCEPT !.current = 0])
    [] c.op = "addSimplePdu" -> add_simple_pdu(p, c.val)
    [] c.op = "getFrameInstanceCount" -> Gives(p, Len(p.frames))
    [] c.op \in {"getFrameInstanceAt", "getDecisionAt"} ->
         IF c.val \in DOMAIN p.frames THEN Gives(p, p.frames[c.val]) ELSE Missing(p)
    [] OTHER -> Unknown(p)

----------------------------------------------------------------------------
\* What the properties ask about.

SimulationInit ==
  {[part |-> "simulation", on |-> FALSE, clock |-> 0, frames |-> <<>>, pending |-> <<>>, current |-> 0]}

SimulationTopics(r) == IF r.tool = "list_simulation_events" THEN {} ELSE {"simulation"}

SimulationWanted(r, was, now) ==
  CASE r.tool = "simulation_mode" -> now.on = r.on
    [] r.tool = "simulation_step" ->
         CASE r.action = "forward" ->
                /\ now.clock = was.clock + r.times /\ now.pending = <<>>
                /\ IsPrefix(was.frames, now.frames)
                /\ Len(now.frames) = Len(was.frames) + Len(was.pending)
           [] r.action = "backward" ->
                /\ now.frames = was.frames /\ now.clock = was.clock
                /\ now.current = IF was.current < r.times THEN 0 ELSE was.current - r.times
           [] OTHER -> now.frames = <<>> /\ now.pending = <<>> /\ now.current = 0
    [] r.tool = "add_pdu" ->
         IF ~was.on THEN now = was
         ELSE /\ now.frames = Append(was.frames, Event(was.clock, r.source, "", FALSE))
              /\ now.pending = Append(was.pending, [source |-> r.source, destination |-> r.destination])
    [] OTHER -> TRUE

\* Events are listed newest last, none from the future, none in Realtime; and simulated
\* time stands still in Realtime.
SimulationSound(p) ==
  /\ \A i, j \in DOMAIN p.frames : i < j => p.frames[i].time <= p.frames[j].time
  /\ \A i \in DOMAIN p.frames : p.frames[i].time <= p.clock
  /\ ~p.on => p.frames = <<>> /\ p.pending = <<>>
=============================================================================

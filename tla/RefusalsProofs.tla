---------------------------- MODULE RefusalsProofs ----------------------------
(***************************************************************************)
(* Proofs that a tool that refuses has changed nothing, for any network,   *)
(* any requests, any number of MCP calls and any loss, among the links, the*)
(* hosts, the preferences and the activity.  The argument: of each tool it *)
(* is stated what it has learnt by the answers it has (Learnt), and by when*)
(* it may have changed something (Altered).  A call is prudent when it is  *)
(* refused only before that, and goes on only having learnt what it relies *)
(* on.  The calls of each part are prudent, and what they have learnt no   *)
(* call takes back that does not meet them.                                *)
(***************************************************************************)
EXTENDS NetworkProofs

----------------------------------------------------------------------------
\* Refusals.  A tool that refuses has changed nothing: the calls that change something come
\* after those that may be refused, and what they rely on is what the tool has learnt, which
\* no call that does not meet it takes back.

\* The parts whose plans are like that.
Careful == {"links", "hosts", "preferences", "activity"}

PartFits(p) ==
  \/ LinksFit(p) /\ IsFiniteSet(p.links) /\ p.devs \subseteq DOMAIN PortsOf
  \/ HostsFit(p)
  \/ PreferencesFit(p)
  \/ ActivityFits(p)

\* Whether a call of this request may have changed something by the time it has these
\* answers.
Altered(p, r, seen) ==
  LET n == Len(seen) IN
  CASE p.part = "links"    -> r.tool = "connect" /\ n > 4
    [] p.part = "hosts"    -> n > 0
    [] p.part = "preferences" -> n > 0
    [] p.part = "activity"    -> \/ r.tool = "network_description" /\ n > 0
                                 \/ r.tool \in {"check_activity", "reset_activity"} /\ n > 2

\* What it relies on then.
Learnt(p, r, seen) ==
  LET n == Len(seen) IN
  CASE p.part = "links" ->
         r.tool = "connect" /\ n > 4 =>
           /\ \E l \in p.links : l.a = r.a /\ l.b = r.b /\ l.cable # "wireless"
           /\ Exists(p, r.a) /\ Exists(p, r.b)
    [] p.part = "hosts" ->
         r.tool = "configure_host_ipv6" =>
           /\ n > 0 => r.dev \in Hosts
           /\ n > 2 /\ r.mode = "static" => r.dev \in Hosts /\ p.hosts[r.dev].on6
    [] p.part = "preferences" -> TRUE
    [] p.part = "activity" ->
         r.tool \in {"check_activity", "reset_activity"} => (n > 0 => p.activity) /\ (n > 1 => p.unlocked)

\* What the answers to look-ups are, whatever else happens.
Counted(part, r, seen) ==
  LET n == Len(seen) IN
  CASE part = "links"    -> /\ r.tool = "list_links" /\ n > 0 => seen[1].data \in Nat
                            /\ r.tool = "list_ports" /\ n > 1 => seen[2].data \in Nat
    [] part = "activity" -> r.tool = "check_activity" /\ n > 3 => seen[4].data \in 0..Tests
    [] OTHER             -> TRUE

TopicsIn(part, r) ==
  CASE part = "links"    -> LinkTopics(r)
    [] part = "hosts"    -> HostTopics(r)
    [] part = "preferences" -> PreferenceTopics(r)
    [] part = "activity"    -> ActivityTopics(r)

Meets(part, r, s) == TopicsIn(part, r) \cap TopicsIn(part, s) # {}

\* A request that is not refused at once.
Sensible(part, r) == ItemAfter(PlanIn(part, r, <<>>), 0).op # "refuse"

\* Calls that do not work off a list.
Whole(r) == r.tool \notin {"set_host_firewall", "unlock_activity"}

AllHeard(seen) == \A k \in DOMAIN seen : seen[k].is # "lost"

Ended(next) == next.op \in {"done", "refuse"}

\* What holds of a call at work that goes by what it has learnt.
Heedful(p, c) ==
  c.on /\ ~c.crossed /\ Whole(c.req) /\ AllHeard(c.seen) =>
    /\ c.changed => Altered(p, c.req, c.seen)
    /\ Learnt(p, c.req, c.seen)

CallHeeds(p, c) ==
  /\ c.seen = <<>> => ~c.changed
  /\ c.on => Sensible(p.part, c.req) /\ Counted(p.part, c.req, c.seen)
  /\ c.on /\ c.seen # <<>> => ~Ended(c.next)
  /\ Heedful(p, c)

\* Calls at work that meet know of it.
Marked(part, calls) ==
  \A t, o \in Tasks :
    t # o /\ calls[t].on /\ calls[o].on /\ Meets(part, calls[t].req, calls[o].req) =>
      calls[t].crossed /\ calls[o].crossed

\* A call that goes by what it has learnt, with what holds of it.
Ready(p, c) ==
  /\ PartFits(p) /\ p.part \in DOMAIN Asks
  /\ ToolCallFits(p.part, c) /\ c.on
  /\ Counted(p.part, c.req, c.seen)

\* It is refused only before it has changed anything, and goes on having learnt what it
\* will rely on.
Prudent(p, c) ==
  LET reply == Answer(p, c.next)
      more == Append(c.seen, Told(reply))
      next == ItemAfter(PlanIn(p.part, c.req, more), Len(more)) IN
  /\ reply.is \notin c.next.need \/ (reply.is \in c.next.need /\ next.op = "refuse") =>
       reply.pt = p /\ ~Altered(p, c.req, c.seen)
  /\ reply.is \in c.next.need /\ ~Ended(next) =>
       /\ Learnt(reply.pt, c.req, more)
       /\ Altered(p, c.req, c.seen) \/ reply.pt # p => Altered(reply.pt, c.req, more)

----------------------------------------------------------------------------
\* What a step makes of the calls.

\* The call ends; it is refused only for what it was answered.
Quits(t) ==
  LET c == toolcall[t]
      reply == Answer(pt, c.next)
      more == Append(c.seen, Told(reply)) IN
  /\ ~toolcall'[t].on /\ toolcall'[t].seen = <<>> /\ ~toolcall'[t].changed
  /\ toolcall'[t].result = "refused" =>
       /\ AllHeard(c.seen) /\ pt' = reply.pt
       /\ \/ reply.is \notin c.next.need
          \/ reply.is \in c.next.need /\ Following(c.req, more).op = "refuse"

\* It goes on with one answer more.
Proceeds(t, reply) ==
  LET c == toolcall[t]
      d == toolcall'[t] IN
  /\ d.on = c.on /\ d.req = c.req /\ d.seen = Append(c.seen, reply) /\ d.crossed = c.crossed
  /\ d.next = Following(c.req, d.seen) /\ ~Ended(d.next)
  /\ d.changed = (c.changed \/ pt' # pt)

Learns(t) ==
  LET reply == Answer(pt, toolcall[t].next) IN
  pt' = reply.pt /\ reply.is \in toolcall[t].next.need /\ Proceeds(t, Told(reply))

LearnsNot(t) == toolcall[t].next.soft /\ Proceeds(t, [is |-> "lost", data |-> ""])

\* A call that ends keeps nothing of its answers, and the other calls stay as they are.
LEMMA Finishing ==
  ASSUME ToolCallsFit(pt.part, toolcall), NEW t \in Tasks, NEW result, Finishes(t, result)
  PROVE  /\ ~toolcall'[t].on /\ toolcall'[t].seen = <<>> /\ ~toolcall'[t].changed
         /\ toolcall'[t].result = result
         /\ \A o \in Tasks \ {t} : toolcall'[o] = toolcall[o]
<1> DEFINE c == toolcall[t]
           lost == [c EXCEPT !.on = FALSE, !.result = result, !.seen = <<>>, !.next = Idle.next,
                             !.changed = FALSE, !.again = FALSE]
           ended == [Idle EXCEPT !.result = result]
           d == IF result = "lost" THEN lost ELSE ended
<1>1. toolcall' = [toolcall EXCEPT ![t] = d]
  BY Zenon DEF Finishes, CallBecomes
<1>2. ~d.on /\ d.seen = <<>> /\ ~d.changed /\ d.result = result
  <2>1. {"on", "seen", "result", "next", "changed", "again"} \subseteq DOMAIN c
    BY Zenon DEF ToolCallsFit, ToolCallFits
  <2>2. ~lost.on /\ lost.seen = <<>> /\ ~lost.changed /\ lost.result = result
    BY <2>1
  <2>3. ~ended.on /\ ended.seen = <<>> /\ ~ended.changed /\ ended.result = result
    BY DEF Idle
  <2> HIDE DEF lost, ended
  <2>4. QED BY Zenon, <2>2, <2>3
<1> HIDE DEF d
<1>3. toolcall'[t] = d /\ \A o \in Tasks \ {t} : toolcall'[o] = toolcall[o]
  BY <1>1 DEF ToolCallsFit
<1>4. QED BY Zenon, <1>2, <1>3

\* A call that hears an answer takes one more into account, or was done with it.
LEMMA GoingOn ==
  ASSUME ToolCallsFit(pt.part, toolcall), NEW t \in Tasks, NEW reply, GoesOn(t, Append(toolcall[t].seen, reply))
  PROVE  \/ Proceeds(t, reply) /\ \A o \in Tasks \ {t} : toolcall'[o] = toolcall[o]
         \/ Finishes(t, Outcome("done", Append(toolcall[t].seen, reply)))
         \/ /\ Finishes(t, Outcome("refused", Append(toolcall[t].seen, reply)))
            /\ Following(toolcall[t].req, Append(toolcall[t].seen, reply)).op = "refuse"
<1> DEFINE c == toolcall[t]
           seen == Append(c.seen, reply)
           next == Following(c.req, seen)
           changed == c.changed \/ pt' # pt
           d == [c EXCEPT !.seen = seen, !.next = next, !.changed = changed]
<1>1. CASE next.op = "done"
  BY Zenon, <1>1 DEF GoesOn, GoesOnWith
<1>2. CASE next.op = "refuse"
  BY Zenon, <1>2 DEF GoesOn, GoesOnWith
<1>3. CASE ~(next.op = "done") /\ ~(next.op = "refuse")
  <2>1. toolcall' = [toolcall EXCEPT ![t] = d]
    BY Zenon, <1>3 DEF GoesOn, GoesOnWith, CallBecomes
  <2>2. {"on", "req", "seen", "next", "changed", "crossed"} \subseteq DOMAIN c
    BY Zenon DEF ToolCallsFit, ToolCallFits
  <2> HIDE DEF next, changed, seen
  <2>3. d.on = c.on /\ d.req = c.req /\ d.seen = seen /\ d.crossed = c.crossed /\ d.next = next /\ d.changed = changed
    BY <2>2
  <2> HIDE DEF d
  <2>4. toolcall'[t] = d /\ \A o \in Tasks \ {t} : toolcall'[o] = toolcall[o]
    BY <2>1 DEF ToolCallsFit
  <2>5. ~Ended(next)
    BY <1>3 DEF Ended
  <2>6. Proceeds(t, reply)
    BY Zenon, <2>3, <2>4, <2>5 DEF Proceeds, next, changed, seen
  <2>7. QED BY Zenon, <2>4, <2>6
<1>4. QED BY Zenon, <1>1, <1>2, <1>3

\* A refusal is a refusal only when every call was answered.
LEMMA RefusedOutcomes ==
  ASSUME NEW result \in {"done", "refused", "lost"}, NEW seen, Outcome(result, seen) = "refused"
  PROVE  result = "refused" /\ AllHeard(seen)
<1>1. CASE \E k \in DOMAIN seen : seen[k].is = "lost"
  <2>1. Outcome(result, seen) = "unsure"
    BY Zenon, <1>1 DEF Outcome
  <2>2. QED BY <2>1
<1>2. CASE ~(\E k \in DOMAIN seen : seen[k].is = "lost")
  <2>1. Outcome(result, seen) = result
    BY Zenon, <1>2 DEF Outcome
  <2>2. QED BY Zenon, <1>2, <2>1 DEF AllHeard
<1>3. QED BY Zenon, <1>1, <1>2

\* Every call was answered if all so far were, and the last.
LEMMA HeardSoFar ==
  ASSUME NEW seen, IsSeq(seen), NEW reply
  PROVE  AllHeard(Append(seen, reply)) <=> AllHeard(seen) /\ reply.is # "lost"
<1> DEFINE more == Append(seen, reply)
<1>1. /\ IsSeq(more) /\ Len(more) = Len(seen) + 1
      /\ \A k \in 1..Len(seen) : more[k] = seen[k]
      /\ more[Len(seen) + 1] = reply
  BY Zenon, OneMoreAtEnd
<1>2. DOMAIN seen = 1..Len(seen) /\ Len(seen) \in Nat /\ DOMAIN more = 1..Len(more)
  BY Zenon, <1>1, SequenceLaws
<1> HIDE DEF more
<1>3. DOMAIN more = DOMAIN seen \cup {Len(seen) + 1}
  BY <1>1, <1>2
<1>4. \A k \in DOMAIN seen : more[k] = seen[k]
  BY <1>1, <1>2
<1>5. AllHeard(more) <=> AllHeard(seen) /\ reply.is # "lost"
  BY <1>1, <1>3, <1>4 DEF AllHeard
<1>6. QED BY <1>5 DEF more

\* What a step of a call does: it learns, goes on without an answer, or quits.
LEMMA StepsOfTask ==
  ASSUME ToolCallsFit(pt.part, toolcall), NEW t \in Tasks, ToolSteps(t)
  PROVE  /\ AtWork(t)
         /\ \A o \in Tasks \ {t} : toolcall'[o] = toolcall[o]
         /\ Quits(t) \/ Learns(t) \/ LearnsNot(t)
<1> DEFINE c == toolcall[t]
           answer == Answer(pt, c.next)
           lost == [is |-> "lost", data |-> ""]
<1>1. AtWork(t) /\ IsSeq(c.seen)
  BY Zenon DEF ToolSteps, Answered, RequestLost, ReplyLost, ToolCallsFit, ToolCallFits
<1>2. ASSUME NEW result \in {"done", "refused", "lost"}, NEW seen, Finishes(t, Outcome(result, seen)),
             seen = c.seen \/ \E reply : seen = Append(c.seen, reply),
             result = "refused" => /\ pt' = answer.pt
                                   /\ \/ answer.is \notin c.next.need
                                      \/ /\ answer.is \in c.next.need
                                         /\ Following(c.req, Append(c.seen, Told(answer))).op = "refuse"
      PROVE  Quits(t) /\ \A o \in Tasks \ {t} : toolcall'[o] = toolcall[o]
  <2>1. /\ ~toolcall'[t].on /\ toolcall'[t].seen = <<>> /\ ~toolcall'[t].changed
        /\ toolcall'[t].result = Outcome(result, seen)
        /\ \A o \in Tasks \ {t} : toolcall'[o] = toolcall[o]
    BY Zenon, <1>2, Finishing
  <2>2. ASSUME Outcome(result, seen) = "refused"
        PROVE  result = "refused" /\ AllHeard(c.seen)
    <3>1. result = "refused" /\ AllHeard(seen)
      BY Zenon, <1>2, <2>2, RefusedOutcomes
    <3>2. QED BY Zenon, <1>1, <1>2, <3>1, HeardSoFar
  <2> HIDE DEF answer
  <2>3. QED BY Zenon, <1>2, <2>1, <2>2 DEF Quits, answer
<1>3. CASE Answered(t)
  <2>1. pt' = answer.pt
    BY Zenon, <1>3 DEF Answered, AnsweredWith
  <2>2. CASE answer.is \in c.next.need
    <3>1. GoesOn(t, Append(c.seen, Told(answer)))
      BY Zenon, <1>3, <2>2 DEF Answered, AnsweredWith
    <3> DEFINE more == Append(c.seen, Told(answer))
    <3>2. \/ Proceeds(t, Told(answer)) /\ \A o \in Tasks \ {t} : toolcall'[o] = toolcall[o]
          \/ Finishes(t, Outcome("done", more))
          \/ Finishes(t, Outcome("refused", more)) /\ Following(c.req, more).op = "refuse"
      BY Zenon, <3>1, GoingOn
    <3>3. CASE Proceeds(t, Told(answer)) /\ \A o \in Tasks \ {t} : toolcall'[o] = toolcall[o]
      BY Zenon, <1>1, <2>1, <2>2, <3>3 DEF Learns
    <3>4. CASE Finishes(t, Outcome("done", more))
      <4>1. Quits(t) /\ \A o \in Tasks \ {t} : toolcall'[o] = toolcall[o]
        BY Zenon, <1>2, <3>4
      <4>2. QED BY Zenon, <1>1, <4>1
    <3>5. CASE Finishes(t, Outcome("refused", more)) /\ Following(c.req, more).op = "refuse"
      <4>1. Quits(t) /\ \A o \in Tasks \ {t} : toolcall'[o] = toolcall[o]
        BY Zenon, <1>2, <2>1, <2>2, <3>5
      <4>2. QED BY Zenon, <1>1, <4>1
    <3>6. QED BY Zenon, <3>2, <3>3, <3>4, <3>5
  <2>3. CASE ~(answer.is \in c.next.need)
    <3>1. Finishes(t, Outcome("refused", c.seen))
      BY Zenon, <1>3, <2>3 DEF Answered, AnsweredWith
    <3>2. Quits(t) /\ \A o \in Tasks \ {t} : toolcall'[o] = toolcall[o]
      BY Zenon, <1>2, <2>1, <2>3, <3>1
    <3>3. QED BY Zenon, <1>1, <3>2
  <2>4. QED BY Zenon, <2>2, <2>3
<1>4. CASE Unheard(t)
  <2> DEFINE more == Append(c.seen, lost)
  <2>1. CASE c.next.soft
    <3>1. GoesOn(t, more)
      BY Zenon, <1>4, <2>1 DEF Unheard
    <3>2. \/ Proceeds(t, lost) /\ \A o \in Tasks \ {t} : toolcall'[o] = toolcall[o]
          \/ Finishes(t, Outcome("done", more))
          \/ Finishes(t, Outcome("refused", more)) /\ Following(c.req, more).op = "refuse"
      BY Zenon, <3>1, GoingOn
    <3>3. CASE Proceeds(t, lost) /\ \A o \in Tasks \ {t} : toolcall'[o] = toolcall[o]
      BY Zenon, <1>1, <2>1, <3>3 DEF LearnsNot
    <3>4. CASE Finishes(t, Outcome("done", more))
      <4>1. Quits(t) /\ \A o \in Tasks \ {t} : toolcall'[o] = toolcall[o]
        BY Zenon, <1>2, <3>4
      <4>2. QED BY Zenon, <1>1, <4>1
    <3>5. CASE Finishes(t, Outcome("refused", more))
      <4>1. /\ ~toolcall'[t].on /\ toolcall'[t].seen = <<>> /\ ~toolcall'[t].changed
            /\ toolcall'[t].result = Outcome("refused", more)
            /\ \A o \in Tasks \ {t} : toolcall'[o] = toolcall[o]
        BY Zenon, <3>5, Finishing
      <4>2. Outcome("refused", more) # "refused"
        <5>1. lost.is = "lost"
          OBVIOUS
        <5> HIDE DEF lost
        <5>2. ~AllHeard(more)
          BY Zenon, <1>1, <5>1, HeardSoFar
        <5>3. QED BY Zenon, <5>2, RefusedOutcomes
      <4>3. QED BY Zenon, <1>1, <4>1, <4>2 DEF Quits
    <3>6. QED BY Zenon, <3>2, <3>3, <3>4, <3>5
  <2>2. CASE ~c.next.soft
    <3>1. Finishes(t, Outcome("lost", c.seen))
      BY Zenon, <1>4, <2>2 DEF Unheard
    <3>2. Quits(t) /\ \A o \in Tasks \ {t} : toolcall'[o] = toolcall[o]
      BY Zenon, <1>2, <3>1
    <3>3. QED BY Zenon, <1>1, <3>2
  <2>3. QED BY Zenon, <2>1, <2>2
<1>5. QED BY Zenon, <1>3, <1>4 DEF ToolSteps, RequestLost, ReplyLost

\* The same call, perhaps crossed meanwhile.
Crossed(c, d) ==
  /\ d.on = c.on /\ d.req = c.req /\ d.seen = c.seen /\ d.next = c.next /\ d.changed = c.changed
  /\ c.crossed => d.crossed

Starts(t, r) ==
  LET d == toolcall'[t] IN
  /\ d.on /\ d.req = r /\ d.seen = <<>> /\ ~d.changed /\ d.next = Following(r, <<>>) /\ d.next.op # "refuse"
  /\ \A o \in Tasks \ {t} :
       /\ Crossed(toolcall[o], toolcall'[o])
       /\ AtWork(o) /\ Interferes(toolcall[o].req, r) => d.crossed /\ toolcall'[o].crossed

\* What the start of a call does: the calls that meet it know of it, and it has no answers
\* yet.
LEMMA StartsOfTask ==
  ASSUME ToolCallsFit(pt.part, toolcall), NEW t \in Tasks, toolcall[t].seen = <<>> => ~toolcall[t].changed,
         ToolStarts(t)
  PROVE  /\ ~AtWork(t) /\ pt' = pt
         /\ \/ /\ ~toolcall'[t].on /\ toolcall'[t].seen = <<>> /\ ~toolcall'[t].changed
               /\ \A o \in Tasks \ {t} : toolcall'[o] = toolcall[o]
            \/ \E r \in Asks[pt.part] : Starts(t, r)
<1>1. PICK r \in Asks[pt.part] :
          LET again == toolcall[t].result = "lost" /\ toolcall[t].req = r IN
          Begin(t, [AskedFor(t, r, again) EXCEPT !.next = Following(r, <<>>)], Rivals(t, r))
  <2>1. \E r \in Asks[pt.part] :
          LET again == toolcall[t].result = "lost" /\ toolcall[t].req = r IN
          Begin(t, [AskedFor(t, r, again) EXCEPT !.next = Following(r, <<>>)], Rivals(t, r))
    BY Zenon DEF ToolStarts
  <2>2. QED BY Zenon, <2>1
<1> DEFINE c == toolcall[t]
           again == c.result = "lost" /\ c.req = r
           from == IF r.tool \in Relative THEN pt ELSE Idle.from
           alone == IF Repeatable(r) THEN Alone(r, pt) ELSE Idle.alone
           fresh == [Idle EXCEPT !.req = r, !.from = from, !.alone = alone]
           d == IF again THEN c ELSE fresh
           crossed == d.crossed \/ Owes(r) \/ \E o \in Rivals(t, r) : AtWork(o)
           next == Following(r, <<>>)
           asked == [[d EXCEPT !.on = TRUE, !.result = "none", !.again = again, !.crossed = crossed] EXCEPT !.next = next]
           All == {"on", "req", "seen", "result", "next", "changed", "crossed", "again"}
<1>2. Begin(t, asked, Rivals(t, r))
  BY Zenon, <1>1 DEF AskedFor
<1>3. ToolCallFits(pt.part, c) /\ ~c.on /\ ~AtWork(t) /\ pt' = pt
  BY Zenon DEF ToolCallsFit, ToolStarts, AtWork
<1>4. c.seen = <<>> /\ ~c.changed /\ All \subseteq DOMAIN c
  <2>1. c.seen = <<>> /\ ~c.changed
    BY Zenon, <1>3 DEF ToolCallFits
  <2>2. QED BY <1>3, <2>1 DEF ToolCallFits
<1>5. d.seen = <<>> /\ ~d.changed /\ All \subseteq DOMAIN d /\ d.req = r
  <2>1. All \subseteq DOMAIN Idle /\ Idle.seen = <<>> /\ ~Idle.changed
    BY DEF Idle
  <2> HIDE DEF from, alone
  <2>2. All \subseteq DOMAIN fresh /\ fresh.seen = <<>> /\ fresh.req = r /\ fresh.changed = Idle.changed
    BY <2>1
  <2> HIDE DEF fresh, c, All
  <2>3. QED BY Zenon, <1>4, <2>1, <2>2
<1> HIDE DEF d, crossed, next, again
<1>6. asked.on /\ asked.req = r /\ asked.seen = <<>> /\ asked.changed = d.changed /\ asked.next = next /\ asked.crossed = crossed
  BY <1>5
<1> HIDE DEF asked
<1>7. CASE asked.next.op = "refuse"
  <2>1. Finishes(t, "refused")
    BY Zenon, <1>2, <1>7 DEF Begin
  <2>2. QED BY Zenon, <1>3, <2>1, Finishing
<1>8. CASE ~(asked.next.op = "refuse")
  <2>1. toolcall' = [o \in Tasks |-> IF o = t THEN asked
                                   ELSE IF o \in Rivals(t, r) THEN [toolcall[o] EXCEPT !.crossed = TRUE]
                                   ELSE toolcall[o]]
    BY Zenon, <1>2, <1>8 DEF Begin
  <2>2. toolcall'[t] = asked
    BY Zenon, <2>1
  <2>3. ASSUME NEW o \in Tasks \ {t}
        PROVE  Crossed(toolcall[o], toolcall'[o])
    <3> DEFINE e == [toolcall[o] EXCEPT !.crossed = TRUE]
    <3>1. toolcall'[o] \in {toolcall[o], e}
      BY Zenon, <2>1
    <3>2. {"on", "req", "seen", "next", "changed", "crossed"} \subseteq DOMAIN toolcall[o]
      BY DEF ToolCallsFit, ToolCallFits
    <3>3. /\ e.on = toolcall[o].on /\ e.req = toolcall[o].req /\ e.seen = toolcall[o].seen
          /\ e.next = toolcall[o].next /\ e.changed = toolcall[o].changed
      BY <3>2
    <3>4. e.crossed
      BY <3>2
    <3> HIDE DEF e
    <3>5. CASE toolcall'[o] = e
      BY Zenon, <3>3, <3>4, <3>5 DEF Crossed
    <3>6. CASE toolcall'[o] = toolcall[o]
      BY Zenon, <3>6 DEF Crossed
    <3>7. QED BY Zenon, <3>1, <3>5, <3>6
  <2>4. ASSUME NEW o \in Tasks \ {t}, AtWork(o), Interferes(toolcall[o].req, r)
        PROVE  asked.crossed /\ toolcall'[o].crossed
    <3>1. o \in Rivals(t, r)
      BY Zenon, <2>4 DEF Rivals, Open
    <3>2. crossed
      BY Zenon, <2>4, <3>1 DEF crossed
    <3>3. toolcall'[o] = [toolcall[o] EXCEPT !.crossed = TRUE]
      BY Zenon, <2>1, <3>1
    <3>4. "crossed" \in DOMAIN toolcall[o]
      BY DEF ToolCallsFit, ToolCallFits
    <3>5. toolcall'[o].crossed
      BY <3>3, <3>4
    <3>6. QED BY Zenon, <1>6, <3>2, <3>5
  <2>5. Starts(t, r)
    <3>1. next = Following(r, <<>>)
      BY DEF next
    <3>2. QED BY Zenon, <1>5, <1>6, <1>8, <2>2, <2>3, <2>4, <3>1 DEF Starts
  <2>6. QED BY Zenon, <1>3, <2>5
<1>9. QED BY Zenon, <1>7, <1>8

----------------------------------------------------------------------------
\* The calls of a plan, one by one.

\* A plan with nothing left.
LEMMA NoItem ==
  IsSeq(<<>>) /\ Len(<<>>) = 0 /\ \A n \in Nat : ItemAfter(<<>>, n) = Idle.next
<1>1. Len(<<>>) = 0 /\ \A n \in Nat : ~(n < 0)
  OBVIOUS
<1>2. QED BY Zenon, <1>1, NothingListed DEF ItemAfter

\* The calls of a plan of one.
LEMMA OneItem ==
  ASSUME NEW a, NEW s, s = <<a>>
  PROVE  /\ IsSeq(s) /\ Len(s) = 1
         /\ ItemAfter(s, 0) = a
         /\ \A n \in Nat : n > 0 => ItemAfter(s, n) = Idle.next
<1>1. s \in Seq({a}) /\ Len(s) = 1
  OBVIOUS
<1>2. s[0 + 1] = a
  OBVIOUS
<1>3. 0 < 1 /\ \A n \in Nat : n > 0 => ~(n < 1)
  OBVIOUS
<1>4. ItemAfter(s, 0) = a
  BY Zenon, <1>1, <1>2, <1>3 DEF ItemAfter
<1>5. IsSeq(s) /\ \A n \in Nat : n > 0 => ItemAfter(s, n) = Idle.next
  BY Zenon, <1>1, <1>3 DEF ItemAfter, IsSeq
<1>6. QED BY Zenon, <1>1, <1>4, <1>5

\* The calls of a plan of two.
LEMMA TwoItems ==
  ASSUME NEW a, NEW b, NEW s, s = <<a, b>>
  PROVE  /\ IsSeq(s) /\ Len(s) = 2
         /\ ItemAfter(s, 0) = a /\ ItemAfter(s, 1) = b
         /\ \A n \in Nat : n > 1 => ItemAfter(s, n) = Idle.next
<1>1. s \in Seq({a, b}) /\ Len(s) = 2
  OBVIOUS
<1>2. s[0 + 1] = a /\ s[1 + 1] = b
  OBVIOUS
<1>3. 0 < 2 /\ 1 < 2 /\ \A n \in Nat : n > 1 => ~(n < 2)
  OBVIOUS
<1>4. ItemAfter(s, 0) = a /\ ItemAfter(s, 1) = b
  BY Zenon, <1>1, <1>2, <1>3 DEF ItemAfter
<1>5. IsSeq(s) /\ \A n \in Nat : n > 1 => ItemAfter(s, n) = Idle.next
  BY Zenon, <1>1, <1>3 DEF ItemAfter, IsSeq
<1>6. QED BY Zenon, <1>1, <1>4, <1>5

\* The calls of a plan of three.
LEMMA ThreeItems ==
  ASSUME NEW a, NEW b, NEW c, NEW s, s = <<a, b, c>>
  PROVE  /\ IsSeq(s) /\ Len(s) = 3
         /\ ItemAfter(s, 0) = a /\ ItemAfter(s, 1) = b /\ ItemAfter(s, 2) = c
         /\ \A n \in Nat : n > 2 => ItemAfter(s, n) = Idle.next
<1>1. s \in Seq({a, b, c}) /\ Len(s) = 3
  OBVIOUS
<1>2. s[0 + 1] = a /\ s[1 + 1] = b /\ s[2 + 1] = c
  OBVIOUS
<1>3. 0 < 3 /\ 1 < 3 /\ 2 < 3 /\ \A n \in Nat : n > 2 => ~(n < 3)
  OBVIOUS
<1>4. ItemAfter(s, 0) = a /\ ItemAfter(s, 1) = b /\ ItemAfter(s, 2) = c
  BY Zenon, <1>1, <1>2, <1>3 DEF ItemAfter
<1>5. IsSeq(s) /\ \A n \in Nat : n > 2 => ItemAfter(s, n) = Idle.next
  BY Zenon, <1>1, <1>3 DEF ItemAfter, IsSeq
<1>6. QED BY Zenon, <1>1, <1>4, <1>5

\* The calls of a plan of six, as connect's.
LEMMA SixItems ==
  ASSUME NEW a, NEW b, NEW c, NEW d, NEW e, NEW f, NEW s, s = <<a, b, c, d, e, f>>
  PROVE  /\ IsSeq(s) /\ Len(s) = 6
         /\ ItemAfter(s, 0) = a /\ ItemAfter(s, 1) = b /\ ItemAfter(s, 2) = c /\ ItemAfter(s, 3) = d /\ ItemAfter(s, 4) = e /\ ItemAfter(s, 5) = f
         /\ \A n \in Nat : n > 5 => ItemAfter(s, n) = Idle.next
<1>1. s \in Seq({a, b, c, d, e, f}) /\ Len(s) = 6
  OBVIOUS
<1>2. s[0 + 1] = a /\ s[1 + 1] = b /\ s[2 + 1] = c /\ s[3 + 1] = d /\ s[4 + 1] = e /\ s[5 + 1] = f
  OBVIOUS
<1>3. 0 < 6 /\ 1 < 6 /\ 2 < 6 /\ 3 < 6 /\ 4 < 6 /\ 5 < 6 /\ \A n \in Nat : n > 5 => ~(n < 6)
  OBVIOUS
<1>4. ItemAfter(s, 0) = a /\ ItemAfter(s, 1) = b /\ ItemAfter(s, 2) = c /\ ItemAfter(s, 3) = d /\ ItemAfter(s, 4) = e /\ ItemAfter(s, 5) = f
  BY Zenon, <1>1, <1>2, <1>3 DEF ItemAfter
<1>5. IsSeq(s) /\ \A n \in Nat : n > 5 => ItemAfter(s, n) = Idle.next
  BY Zenon, <1>1, <1>3 DEF ItemAfter, IsSeq
<1>6. QED BY Zenon, <1>1, <1>4, <1>5

\* Two plans of one call are a plan of two.
LEMMA TwoJoined ==
  ASSUME NEW a, NEW b
  PROVE  <<a>> \o <<b>> = <<a, b>>
<1> DEFINE S == {a, b}
<1>1. <<a>> \in Seq(S) /\ <<b>> \in Seq(S) /\ <<a, b>> \in Seq(S)
  OBVIOUS
<1>2. Len(<<a>> \o <<b>>) = 2 /\ (<<a>> \o <<b>>)[1] = a /\ (<<a>> \o <<b>>)[2] = b
  OBVIOUS
<1>3. <<a>> \o <<b>> \in Seq(S)
  BY <1>1
<1> DEFINE s == <<a>> \o <<b>>
           t == <<a, b>>
<1>4. t \in Seq(S) /\ Len(t) = 2 /\ t[1] = a /\ t[2] = b
  BY <1>1
<1> HIDE DEF s, t, S
<1>5. s \in Seq(S) /\ Len(s) = 2 /\ s[1] = a /\ s[2] = b
  BY <1>2, <1>3 DEF s
<1>6. \A k \in 1..2 : s[k] = t[k]
  BY <1>4, <1>5
<1>7. s = t
  BY <1>4, <1>5, <1>6
<1>8. QED BY <1>7 DEF s, t

\* The calls of a plan that goes on with another are those of the first, then the other's.
LEMMA ItemOfJoin ==
  ASSUME NEW s, IsSeq(s), NEW u, IsSeq(u), NEW n \in Nat
  PROVE  /\ IsSeq(s \o u) /\ Len(s \o u) = Len(s) + Len(u)
         /\ n < Len(s) => ItemAfter(s \o u, n) = ItemAfter(s, n)
         /\ ~(n < Len(s)) => n - Len(s) \in Nat /\ ItemAfter(s \o u, n) = ItemAfter(u, n - Len(s))
<1> DEFINE all == s \o u
           a == Len(s)
<1>1. /\ IsSeq(all) /\ Len(all) = a + Len(u)
      /\ \A k \in 1..a : all[k] = s[k]
  BY Zenon, Concatenation
<1>2. a \in Nat /\ Len(u) \in Nat
  BY Zenon, SequenceLaws
<1>3. ASSUME n < a PROVE ItemAfter(all, n) = ItemAfter(s, n)
  <2> HIDE DEF all, a
  <2>1. n < Len(all) /\ n + 1 \in 1..a
    BY <1>1, <1>2, <1>3
  <2>2. all[n + 1] = s[n + 1]
    BY <1>1, <2>1
  <2>3. QED BY Zenon, <1>3, <2>1, <2>2 DEF ItemAfter, a
<1>4. ASSUME ~(n < a) PROVE n - a \in Nat /\ ItemAfter(all, n) = ItemAfter(u, n - a)
  <2>1. n - a \in Nat /\ a + (n - a) = n
    BY <1>2, <1>4
  <2>2. ItemAfter(all, a + (n - a)) = ItemAfter(u, n - a)
    BY Zenon, <2>1, LaterItems
  <2>3. QED BY Zenon, <2>1, <2>2
<1>5. QED BY Zenon, <1>1, <1>3, <1>4

\* Past the first plan, the calls are those of the other.
LEMMA ItemPastJoin ==
  ASSUME NEW s, IsSeq(s), NEW u, IsSeq(u), NEW n \in Nat, ~(n < Len(s))
  PROVE  IsSeq(s \o u) /\ n - Len(s) \in Nat /\ ItemAfter(s \o u, n) = ItemAfter(u, n - Len(s))
<1>1. IsSeq(s \o u)
  BY Zenon, ItemOfJoin
<1>2. n - Len(s) \in Nat
  BY Zenon, ItemOfJoin
<1>3. ItemAfter(s \o u, n) = ItemAfter(u, n - Len(s))
  BY ItemOfJoin
<1>4. QED BY Zenon, <1>1, <1>2, <1>3

\* A check refuses or adds nothing.
LEMMA CheckItems ==
  ASSUME NEW condition
  PROVE  /\ condition => Check(condition) = <<>>
         /\ ~condition => Check(condition) = <<Refuse>>
         /\ IsSeq(Check(condition)) /\ Len(Check(condition)) \in Nat
         /\ ItemAfter(Check(condition), 0).op # "refuse" => Check(condition) = <<>>
<1>1. Refuse.op = "refuse"
  BY DEF Refuse, Item
<1>2. QED BY Zenon, <1>1, NoItem, OneItem, SequenceLaws DEF Check, When

\* What a plan asks next is one of its calls, or there is none left.
LEMMA ItemAmong ==
  ASSUME NEW S, NEW plan, plan \in Seq(S), NEW n \in Nat
  PROVE  IsSeq(plan) /\ (ItemAfter(plan, n) \in S \/ ItemAfter(plan, n) = Idle.next)
<1>1. n < Len(plan) => plan[n + 1] \in S
  OBVIOUS
<1>2. QED BY Zenon, <1>1 DEF ItemAfter, IsSeq

\* A question is content with any answer but an error.
LEMMA AskNeeds ==
  ASSUME NEW op, NEW at
  PROVE  Ask(op, at).need = {"ok", "yes", "no"}
BY Zenon DEF Tell, Ask, Item

\* A call to tell something is content with any answer but an error.
LEMMA TellFields ==
  ASSUME NEW op, NEW at, NEW val, NEW item, item = Tell(op, at, val)
  PROVE  item.op = op /\ item.at = at /\ item.val = val /\ ~item.soft /\ item.need = {"ok", "yes", "no"}
<1>1. /\ Tell(op, at, val).op = op /\ Tell(op, at, val).at = at /\ Tell(op, at, val).val = val
      /\ ~Tell(op, at, val).soft /\ Tell(op, at, val).need = {"ok", "yes", "no"}
  BY Zenon DEF Tell, Item
<1>2. QED BY Zenon, <1>1

\* A call that must succeed is not content with a no.
LEMMA MustFields ==
  ASSUME NEW op, NEW at, NEW val, NEW item, item = Must(op, at, val)
  PROVE  item.op = op /\ item.at = at /\ item.val = val /\ ~item.soft /\ item.need = {"ok", "yes"}
<1>1. /\ Must(op, at, val).op = op /\ Must(op, at, val).at = at /\ Must(op, at, val).val = val
      /\ ~Must(op, at, val).soft /\ Must(op, at, val).need = {"ok", "yes"}
  BY Zenon DEF Must, Item
<1>2. QED BY Zenon, <1>1

\* A call of one of these methods that must be answered.
Firm(item, ops) == item.op \in ops /\ ~item.soft

\* Only a try can do without an answer.
LEMMA FirmItems ==
  ASSUME NEW op, NEW at, NEW val
  PROVE  Firm(Ask(op, at), {op}) /\ Firm(Tell(op, at, val), {op}) /\ Firm(Must(op, at, val), {op})
<1>1. Firm(Ask(op, at), {op})
  BY Zenon DEF Firm, Ask, Tell, Item
<1>2. Firm(Tell(op, at, val), {op})
  BY Zenon DEF Firm, Tell, Item
<1>3. Firm(Must(op, at, val), {op})
  BY Zenon DEF Firm, Must, Item
<1>4. QED BY Zenon, <1>1, <1>2, <1>3

\* A call of these methods is a call of more methods.
LEMMA FirmOps ==
  ASSUME NEW item, NEW ops, NEW more, Firm(item, ops), ops \subseteq more
  PROVE  Firm(item, more)
BY Zenon DEF Firm

\* Nothing is asked when the plan is at its end.
LEMMA LastItem == Idle.next.op = "done" /\ Idle.next.need = {} /\ ~Idle.next.soft
BY Zenon DEF Idle, Item

\* What the answers are made of.
LEMMA ReplyFields ==
  ASSUME NEW p, NEW data, NEW could, NEW q
  PROVE  /\ Obeys(p).pt = p /\ Obeys(p).is = "ok" /\ Obeys(p).data = ""
         /\ Gives(p, data).pt = p /\ Gives(p, data).is = "ok" /\ Gives(p, data).data = data
         /\ Says(p, could).pt = p /\ Says(p, could).is = (IF could THEN "yes" ELSE "no")
         /\ Did(p, could, q).pt = (IF could THEN q ELSE p) /\ Did(p, could, q).is = (IF could THEN "yes" ELSE "no")
         /\ Missing(p).pt = p /\ Missing(p).is = "missing"
         /\ Unknown(p).pt = p /\ Unknown(p).is = "rejected"
BY Zenon DEF Obeys, Gives, Says, Did, Missing, Unknown, Replies

\* Packet Tracer did what it could and says so.
LEMMA DidFields ==
  ASSUME NEW p, NEW could, NEW q, NEW reply, reply = Did(p, could, q)
  PROVE  /\ could => reply.pt = q /\ reply.is = "yes"
         /\ ~could => reply.pt = p /\ reply.is = "no"
<1>1. /\ could => Did(p, could, q).pt = q /\ Did(p, could, q).is = "yes"
      /\ ~could => Did(p, could, q).pt = p /\ Did(p, could, q).is = "no"
  BY Zenon DEF Did, Replies
<1>2. QED BY <1>1

\* Packet Tracer says yes or no and does nothing.
LEMMA SaysFields ==
  ASSUME NEW p, NEW could, NEW reply, reply = Says(p, could)
  PROVE  /\ reply.pt = p
         /\ could => reply.is = "yes"
         /\ ~could => reply.is = "no"
<1>1. /\ Says(p, could).pt = p
      /\ could => Says(p, could).is = "yes"
      /\ ~could => Says(p, could).is = "no"
  BY Zenon DEF Says, Replies
<1>2. QED BY <1>1

\* The tool hears the answer.
LEMMA ToldFields ==
  ASSUME NEW reply
  PROVE  Told(reply).is = reply.is /\ Told(reply).data = reply.data
BY Zenon DEF Told

----------------------------------------------------------------------------
\* What makes a call prudent.

\* The next answer of a call, what it has been answered with it, and what it asks then.
NextReply(p, c) == Answer(p, c.next)

MoreHeard(p, c) == Append(c.seen, Told(NextReply(p, c)))

NextCall(p, c) == ItemAfter(PlanIn(p.part, c.req, MoreHeard(p, c)), Len(MoreHeard(p, c)))

\* A prudent call, in these terms.
LEMMA WhatPrudentMeans ==
  ASSUME NEW p, NEW c
  PROVE  Prudent(p, c) <=>
           /\ NextReply(p, c).is \notin c.next.need \/ (NextReply(p, c).is \in c.next.need /\ NextCall(p, c).op = "refuse") =>
                NextReply(p, c).pt = p /\ ~Altered(p, c.req, c.seen)
           /\ NextReply(p, c).is \in c.next.need /\ ~Ended(NextCall(p, c)) =>
                /\ Learnt(NextReply(p, c).pt, c.req, MoreHeard(p, c))
                /\ Altered(p, c.req, c.seen) \/ NextReply(p, c).pt # p => Altered(NextReply(p, c).pt, c.req, MoreHeard(p, c))
BY Zenon DEF Prudent, NextReply, MoreHeard, NextCall

\* A call that changes nothing.
LEMMA OnlyLooking ==
  ASSUME NEW p, NEW c, NextReply(p, c).pt = p, ~Altered(p, c.req, c.seen), Learnt(p, c.req, MoreHeard(p, c))
  PROVE  Prudent(p, c)
BY Zenon, WhatPrudentMeans

\* A call that is known to be answered, with nothing to come.
LEMMA OnlyTheLast ==
  ASSUME NEW p, NEW c, NextReply(p, c).is \in c.next.need, NextCall(p, c) = Idle.next
  PROVE  Prudent(p, c)
<1>1. NextCall(p, c).op # "refuse" /\ Ended(NextCall(p, c))
  BY LastItem DEF Ended
<1>2. QED BY Zenon, <1>1, WhatPrudentMeans

\* A call that is refused with nothing changed, or goes on.
LEMMA NotAtAll ==
  ASSUME NEW p, NEW c, ~Altered(p, c.req, c.seen), NextReply(p, c).pt = p, NextReply(p, c).is \notin c.next.need
  PROVE  Prudent(p, c)
BY Zenon, WhatPrudentMeans

\* A last call.
LEMMA OnlyOnce ==
  ASSUME NEW p, NEW c, ~Altered(p, c.req, c.seen), NextCall(p, c) = Idle.next,
         NextReply(p, c).is \notin c.next.need => NextReply(p, c).pt = p
  PROVE  Prudent(p, c)
<1>1. NextCall(p, c).op # "refuse" /\ Ended(NextCall(p, c))
  BY LastItem DEF Ended
<1>2. QED BY Zenon, <1>1, WhatPrudentMeans

\* A call that can no longer be refused.
LEMMA OnlyGoingOn ==
  ASSUME NEW p, NEW c, NextReply(p, c).is \in c.next.need, NextCall(p, c).op # "refuse",
         Learnt(NextReply(p, c).pt, c.req, MoreHeard(p, c)),
         Altered(p, c.req, c.seen) \/ NextReply(p, c).pt # p => Altered(NextReply(p, c).pt, c.req, MoreHeard(p, c))
  PROVE  Prudent(p, c)
BY Zenon, WhatPrudentMeans

----------------------------------------------------------------------------
\* What a call that is ready knows.

\* What a ready call is about, and what it has heard.
LEMMA WhatReadyMeans ==
  ASSUME NEW p, NEW c, Ready(p, c)
  PROVE  /\ p.part \in Careful /\ p.part \in DOMAIN Asks /\ c.req \in Asks[p.part] /\ IsSeq(c.seen) /\ Len(c.seen) \in Nat
         /\ c.next = ItemAfter(PlanIn(p.part, c.req, c.seen), Len(c.seen))
         /\ IsSeq(MoreHeard(p, c)) /\ Len(MoreHeard(p, c)) = Len(c.seen) + 1
         /\ \A k \in 1..Len(c.seen) : MoreHeard(p, c)[k] = c.seen[k]
         /\ MoreHeard(p, c)[Len(c.seen) + 1] = Told(NextReply(p, c))
<1>1. p.part \in Careful
  BY DEF Ready, PartFits, LinksFit, HostsFit, PreferencesFit, ActivityFits, Careful
<1>2. /\ p.part \in DOMAIN Asks /\ c.req \in Asks[p.part] /\ IsSeq(c.seen)
      /\ c.next = ItemAfter(PlanIn(p.part, c.req, c.seen), Len(c.seen))
  BY Zenon DEF Ready, ToolCallFits
<1>3. QED BY ZenonT(60), <1>1, <1>2, SequenceLaws, OneMoreAtEnd DEF MoreHeard

\* A list of calls made one by one.
LEMMA ListItems ==
  ASSUME NEW m \in Nat, NEW f, f = [k \in 1..m |-> f[k]], NEW n \in Nat
  PROVE  IsSeq(f) /\ ((\E k \in 1..m : ItemAfter(f, n) = f[k]) \/ ItemAfter(f, n) = Idle.next)
<1> DEFINE S == {f[k] : k \in 1..m}
<1>1. \A k \in 1..m : f[k] \in S
  OBVIOUS
<1> HIDE DEF S
<1>2. f \in [1..m -> S]
  <2> DEFINE D == 1..m
  <2> HIDE DEF D
  <2>1. f = [k \in D |-> f[k]] /\ \A k \in D : f[k] \in S
    BY <1>1 DEF D
  <2>2. f \in [D -> S]
    BY <2>1
  <2>3. QED BY <2>2 DEF D
<1>3. f \in Seq(S)
  BY Zenon, <1>2, AsSequence
<1>4. ItemAfter(f, n) \in S \/ ItemAfter(f, n) = Idle.next
  BY Zenon, <1>3, ItemAmong
<1>5. IsSeq(f)
  BY Zenon, <1>3, ItemAmong
<1>6. QED BY Zenon, <1>4, <1>5 DEF S

\* A plan after nothing is itself.
LEMMA JoinNone ==
  ASSUME NEW s, IsSeq(s)
  PROVE  <<>> \o s = s
<1>1. PICK S : s \in Seq(S)
  BY DEF IsSeq
<1>2. QED BY <1>1

----------------------------------------------------------------------------
\* Links.

\* The calls of connect: both devices, both ports, what is plugged into them, then the
\* cable.
LEMMA ConnectItems ==
  ASSUME NEW r, r.tool = "connect", NEW seen, r.a # r.b
  PROVE  LET item(n) == ItemAfter(LinkPlan(r, seen), n) IN
         /\ item(0) = Must("describe", r.a.dev, <<>>) /\ item(1) = Must("describe", r.b.dev, <<>>)
         /\ item(2) = Must("ensure_free", r.a, <<>>) /\ item(3) = Must("ensure_free", r.b, <<>>)
         /\ item(4) = Must("createLink", r.a, [to |-> r.b, cable |-> resolve(r.cable, r.a, r.b)])
         /\ item(5) = Must("connection", r.a, <<>>)
         /\ \A n \in Nat : n > 5 => item(n) = Idle.next
<1> DEFINE a == Must("describe", r.a.dev, <<>>)
           b == Must("describe", r.b.dev, <<>>)
           c == Must("ensure_free", r.a, <<>>)
           d == Must("ensure_free", r.b, <<>>)
           e == Must("createLink", r.a, [to |-> r.b, cable |-> resolve(r.cable, r.a, r.b)])
           f == Must("connection", r.a, <<>>)
           s == <<a, b, c, d, e, f>>
<1>1. LinkPlan(r, seen) = connect(r)
  BY Zenon DEF LinkPlan
<1>2. connect(r) = Check(r.a # r.b) \o s
  BY Zenon DEF connect
<1>3. Check(r.a # r.b) = <<>>
  BY Zenon, CheckItems
<1> HIDE DEF a, b, c, d, e, f
<1>4. IsSeq(s)
  BY SixItems
<1>5. <<>> \o s = s
  <2> HIDE DEF s
  <2>1. QED BY Zenon, <1>4, JoinNone
<1>6. LinkPlan(r, seen) = s
  <2> HIDE DEF s
  <2>1. QED BY Zenon, <1>1, <1>2, <1>3, <1>5
<1>7. /\ ItemAfter(s, 0) = a /\ ItemAfter(s, 1) = b /\ ItemAfter(s, 2) = c
      /\ ItemAfter(s, 3) = d /\ ItemAfter(s, 4) = e /\ ItemAfter(s, 5) = f
      /\ \A n \in Nat : n > 5 => ItemAfter(s, n) = Idle.next
  BY SixItems
<1> HIDE DEF s
<1>8. QED BY Zenon, <1>6, <1>7 DEF a, b, c, d, e, f

\* One that does not make sense is refused, and that is all.
LEMMA SensibleConnect ==
  ASSUME NEW r, r.tool = "connect", Sensible("links", r)
  PROVE  r.a # r.b
<1> SUFFICES ASSUME ~(r.a # r.b) PROVE FALSE
  OBVIOUS
<1> DEFINE rest == <<Must("describe", r.a.dev, <<>>), Must("describe", r.b.dev, <<>>),
                     Must("ensure_free", r.a, <<>>), Must("ensure_free", r.b, <<>>),
                     Must("createLink", r.a, [to |-> r.b, cable |-> resolve(r.cable, r.a, r.b)]),
                     Must("connection", r.a, <<>>)>>
<1>1. PlanIn("links", r, <<>>) = Check(r.a # r.b) \o rest
  BY Zenon DEF PlanIn, LinkPlan, connect
<1>2. IsSeq(rest)
  BY SixItems
<1> HIDE DEF rest
<1> DEFINE refusal == <<Refuse>>
<1>3. Check(r.a # r.b) = refusal
  BY Zenon, CheckItems
<1>4. IsSeq(refusal) /\ ItemAfter(refusal, 0) = Refuse /\ 0 \in Nat /\ 0 < Len(refusal)
  <2> DEFINE a == Refuse
  <2> HIDE DEF a
  <2>1. IsSeq(<<a>>) /\ ItemAfter(<<a>>, 0) = a /\ 0 \in Nat /\ 0 < Len(<<a>>)
    BY OneItem
  <2>2. QED BY Zenon, <2>1 DEF a
<1> HIDE DEF refusal
<1>5. ItemAfter(refusal \o rest, 0) = Refuse
  BY Zenon, <1>2, <1>4, ItemOfJoin
<1>6. Refuse.op = "refuse"
  BY Zenon DEF Refuse, Item
<1>7. QED BY Zenon, <1>1, <1>3, <1>5, <1>6 DEF Sensible

\* The calls of disconnect.
LEMMA DisconnectItems ==
  ASSUME NEW r, r.tool = "disconnect", NEW seen
  PROVE  LET item(n) == ItemAfter(LinkPlan(r, seen), n) IN
         /\ item(0) = Must("connection", r.end, <<>>) /\ item(1) = Must("deleteLink", r.end, <<>>)
         /\ \A n \in Nat : n > 1 => item(n) = Idle.next
<1>1. LinkPlan(r, seen) = <<Must("connection", r.end, <<>>), Must("deleteLink", r.end, <<>>)>>
  BY Zenon DEF LinkPlan, disconnect
<1>2. QED BY <1>1, TwoItems

\* The calls of remove.
LEMMA RemoveItems ==
  ASSUME NEW r, r.tool = "remove", NEW seen
  PROVE  LET item(n) == ItemAfter(LinkPlan(r, seen), n) IN
         item(0) = Must("removeDevice", r.dev, <<>>) /\ \A n \in Nat : n > 0 => item(n) = Idle.next
<1>1. LinkPlan(r, seen) = <<Must("removeDevice", r.dev, <<>>)>>
  BY Zenon DEF LinkPlan
<1>2. QED BY <1>1, OneItem

\* The first answers, and those after them.
LEMMA FirstAnswers ==
  ASSUME NEW seen, IsSeq(seen), NEW m \in Nat, m <= Len(seen)
  PROVE  /\ IsSeq(SubSeq(seen, 1, m)) /\ Len(SubSeq(seen, 1, m)) = m
         /\ \A k \in 1..m : SubSeq(seen, 1, m)[k] = seen[k]
<1>1. PICK S : seen \in Seq(S)
  BY DEF IsSeq
<1>2. SubSeq(seen, 1, m) \in Seq(S) /\ Len(SubSeq(seen, 1, m)) = m /\ \A k \in 1..m : SubSeq(seen, 1, m)[k] = seen[k]
  BY <1>1
<1>3. QED BY <1>2 DEF IsSeq

\* A list of calls of one kind.
LEMMA ListOps ==
  ASSUME NEW m \in Nat, NEW f, f = [k \in 1..m |-> f[k]], NEW n \in Nat, NEW op,
         \A k \in 1..m : Firm(f[k], {op})
  PROVE  IsSeq(f) /\ Firm(ItemAfter(f, n), {op, "done"})
<1> DEFINE one == ItemAfter(f, n)
<1>1. IsSeq(f) /\ ((\E k \in 1..m : one = f[k]) \/ one = Idle.next)
  BY Zenon, ListItems
<1>2. CASE one = Idle.next
  BY Zenon, <1>1, <1>2, LastItem DEF Firm
<1>3. CASE \E k \in 1..m : one = f[k]
  <2>1. Firm(one, {op}) /\ {op} \subseteq {op, "done"}
    BY Zenon, <1>3
  <2>2. QED BY Zenon, <1>1, <2>1, FirmOps
<1>4. QED BY Zenon, <1>1, <1>2, <1>3

\* The calls of list_links: the count, then that many links.
LEMMA ListLinksItems ==
  ASSUME NEW r, r.tool = "list_links", NEW seen, IsSeq(seen), Len(seen) > 0 => seen[1].data \in Nat,
         NEW item, item = ItemAfter(LinkPlan(r, seen), Len(seen))
  PROVE  /\ Len(seen) = 0 => Firm(item, {"getLinkCount"}) /\ item.need = {"ok", "yes", "no"}
         /\ Len(seen) > 0 => Firm(item, {"getLinkAt", "done"})
<1> DEFINE look == Ask("getLinkCount", "")
           first == <<look>>
           got == SubSeq(seen, 1, Len(first))
           rest == [k \in 1..got[1].data |-> Ask("getLinkAt", k)]
           plan == LinkPlan(r, seen)
           n == Len(seen)
<1>1. plan = IF n < Len(first) THEN first ELSE first \o rest
  <2> HIDE DEF n
  <2>1. list_links(r, seen) = IF n < Len(first) THEN first ELSE first \o rest
    BY Zenon DEF list_links, Then, n
  <2>2. QED BY Zenon, <2>1 DEF LinkPlan
<1>2. Firm(look, {"getLinkCount"}) /\ look.need = {"ok", "yes", "no"}
  BY Zenon, FirmItems, AskNeeds
<1> HIDE DEF look
<1>3. IsSeq(first) /\ Len(first) = 1 /\ ItemAfter(first, 0) = look /\ n \in Nat
  BY OneItem, SequenceLaws
<1> HIDE DEF first
<1>4. ASSUME n > 0
      PROVE  IsSeq(rest) /\ Firm(ItemAfter(rest, n - 1), {"getLinkAt", "done"})
  <2>1. got[1] = seen[1]
    BY <1>3, <1>4, FirstAnswers
  <2> DEFINE m == got[1].data
  <2>2. m \in Nat
    BY Zenon, <1>4, <2>1
  <2> HIDE DEF got, m
  <2> DEFINE f == [k \in 1..m |-> Ask("getLinkAt", k)]
  <2>3. f = [k \in 1..m |-> f[k]] /\ \A k \in 1..m : f[k] = Ask("getLinkAt", k)
    OBVIOUS
  <2>4. \A k : Firm(Ask("getLinkAt", k), {"getLinkAt"})
    BY Zenon, FirmItems
  <2> HIDE DEF f
  <2>5. (\A k \in 1..m : Firm(f[k], {"getLinkAt"})) /\ n - 1 \in Nat
    BY <1>3, <1>4, <2>3, <2>4
  <2>6. IsSeq(f) /\ Firm(ItemAfter(f, n - 1), {"getLinkAt", "done"})
    BY Zenon, <2>2, <2>3, <2>5, ListOps
  <2>7. QED BY Zenon, <2>6 DEF f, m
<1> HIDE DEF rest, plan, n
<1>5. CASE n = 0
  <2>1. plan = first
    BY <1>1, <1>3, <1>5
  <2>2. item = look
    BY Zenon, <1>3, <1>5, <2>1 DEF plan, n
  <2>3. QED BY <1>2, <1>5, <2>2 DEF n
<1>6. CASE n > 0
  <2>1. plan = first \o rest /\ ~(n < Len(first))
    BY <1>1, <1>3, <1>6
  <2>2. ItemAfter(plan, n) = ItemAfter(rest, n - 1)
    <3>1. ItemAfter(first \o rest, n) = ItemAfter(rest, n - Len(first))
      BY Zenon, <1>3, <1>4, <1>6, <2>1, ItemPastJoin
    <3>2. QED BY <1>3, <2>1, <3>1
  <2>3. item = ItemAfter(rest, n - 1)
    BY Zenon, <2>2 DEF plan, n
  <2>4. QED BY <1>4, <1>6, <2>3 DEF n
<1>7. QED BY <1>3, <1>5, <1>6 DEF n

\* The calls of list_ports: the device, the count, then that many ports.
LEMMA ListPortsItems ==
  ASSUME NEW r, r.tool = "list_ports", NEW seen, IsSeq(seen), Len(seen) > 1 => seen[2].data \in Nat,
         NEW item, item = ItemAfter(LinkPlan(r, seen), Len(seen))
  PROVE  /\ Len(seen) = 0 => Firm(item, {"describe"})
         /\ Len(seen) = 1 => Firm(item, {"getPortCount"}) /\ item.need = {"ok", "yes", "no"}
         /\ Len(seen) > 1 => Firm(item, {"read_port", "done"})
<1> DEFINE a == Must("describe", r.dev, <<>>)
           b == Ask("getPortCount", r.dev)
           first == <<a, b>>
           got == SubSeq(seen, 1, Len(first))
           rest == [k \in 1..got[2].data |-> Ask("read_port", [dev |-> r.dev, port |-> PortsOf[r.dev][k]])]
           plan == LinkPlan(r, seen)
           n == Len(seen)
<1>1. plan = IF n < Len(first) THEN first ELSE first \o rest
  <2> HIDE DEF n
  <2>1. list_ports(r, seen) = IF n < Len(first) THEN first ELSE first \o rest
    BY Zenon DEF list_ports, Then, n
  <2>2. QED BY Zenon, <2>1 DEF LinkPlan
<1>2. Firm(a, {"describe"}) /\ Firm(b, {"getPortCount"}) /\ b.need = {"ok", "yes", "no"}
  BY Zenon, FirmItems, AskNeeds
<1> HIDE DEF a, b
<1>3. IsSeq(first) /\ Len(first) = 2 /\ ItemAfter(first, 0) = a /\ ItemAfter(first, 1) = b /\ n \in Nat
  BY TwoItems, SequenceLaws
<1> HIDE DEF first
<1>4. ASSUME n > 1
      PROVE  IsSeq(rest) /\ Firm(ItemAfter(rest, n - 2), {"read_port", "done"})
  <2>1. got[2] = seen[2]
    BY <1>3, <1>4, FirstAnswers
  <2> DEFINE m == got[2].data
             at(k) == [dev |-> r.dev, port |-> PortsOf[r.dev][k]]
  <2>2. m \in Nat
    BY Zenon, <1>4, <2>1
  <2> HIDE DEF got, m
  <2> DEFINE f == [k \in 1..m |-> Ask("read_port", at(k))]
  <2>3. f = [k \in 1..m |-> f[k]] /\ \A k \in 1..m : f[k] = Ask("read_port", at(k))
    OBVIOUS
  <2>4. \A k : Firm(Ask("read_port", at(k)), {"read_port"})
    BY Zenon, FirmItems
  <2> HIDE DEF f, at
  <2>5. (\A k \in 1..m : Firm(f[k], {"read_port"})) /\ n - 2 \in Nat
    BY <1>3, <1>4, <2>3, <2>4
  <2>6. IsSeq(f) /\ Firm(ItemAfter(f, n - 2), {"read_port", "done"})
    BY Zenon, <2>2, <2>3, <2>5, ListOps
  <2>7. QED BY Zenon, <2>6 DEF f, m, at
<1> HIDE DEF rest, plan, n
<1>5. CASE n < 2
  <2>1. plan = first /\ (n = 0 \/ n = 1)
    BY <1>1, <1>3, <1>5
  <2>2. (n = 0 /\ item = a) \/ (n = 1 /\ item = b)
    BY Zenon, <1>3, <2>1 DEF plan, n
  <2>3. \/ Firm(item, {"describe"}) /\ n = 0
        \/ Firm(item, {"getPortCount"}) /\ n = 1 /\ item.need = {"ok", "yes", "no"}
    BY <1>2, <2>2
  <2>4. QED BY <2>3 DEF n
<1>6. CASE n > 1
  <2>1. plan = first \o rest /\ ~(n < Len(first))
    BY <1>1, <1>3, <1>6
  <2>2. ItemAfter(plan, n) = ItemAfter(rest, n - 2)
    <3>1. ItemAfter(first \o rest, n) = ItemAfter(rest, n - Len(first))
      BY Zenon, <1>3, <1>4, <1>6, <2>1, ItemPastJoin
    <3>2. QED BY <1>3, <2>1, <3>1
  <2>3. item = ItemAfter(rest, n - 2)
    BY Zenon, <2>2 DEF plan, n
  <2>4. QED BY <1>4, <1>6, <2>3 DEF n
<1>7. QED BY <1>3, <1>5, <1>6 DEF n

\* Both lists only look.
LEMMA LinkListsLook ==
  ASSUME NEW r, r.tool \in {"list_links", "list_ports"}, NEW seen, IsSeq(seen),
         r.tool = "list_links" /\ Len(seen) > 0 => seen[1].data \in Nat,
         r.tool = "list_ports" /\ Len(seen) > 1 => seen[2].data \in Nat
  PROVE  Firm(ItemAfter(LinkPlan(r, seen), Len(seen)),
              {"getLinkCount", "getLinkAt", "describe", "getPortCount", "read_port", "done"})
<1> DEFINE item == ItemAfter(LinkPlan(r, seen), Len(seen))
           ops == {"getLinkCount", "getLinkAt", "describe", "getPortCount", "read_port", "done"}
<1>1. Len(seen) \in Nat
  BY Zenon, SequenceLaws
<1>2. CASE r.tool = "list_links"
  <2>1. /\ Len(seen) = 0 => Firm(item, {"getLinkCount"})
        /\ Len(seen) > 0 => Firm(item, {"getLinkAt", "done"})
    BY Zenon, <1>2, ListLinksItems
  <2>2. \E some : Firm(item, some) /\ some \subseteq ops
    BY <1>1, <2>1
  <2>3. QED BY Zenon, <2>2, FirmOps
<1>3. CASE r.tool = "list_ports"
  <2>1. /\ Len(seen) = 0 => Firm(item, {"describe"})
        /\ Len(seen) = 1 => Firm(item, {"getPortCount"})
        /\ Len(seen) > 1 => Firm(item, {"read_port", "done"})
    BY Zenon, <1>3, ListPortsItems
  <2>2. Len(seen) = 0 \/ Len(seen) = 1 \/ Len(seen) > 1
    BY <1>1
  <2>3. {"describe"} \subseteq ops /\ {"getPortCount"} \subseteq ops /\ {"read_port", "done"} \subseteq ops
    OBVIOUS
  <2> HIDE DEF item, ops
  <2>4. QED BY Zenon, <2>1, <2>2, <2>3, FirmOps DEF item, ops
<1>4. QED BY <1>2, <1>3

\* connect takes nothing away.
LEMMA ConnectOps ==
  ASSUME NEW r, r.tool = "connect", NEW seen, NEW n \in Nat
  PROVE  ItemAfter(LinkPlan(r, seen), n).op \notin {"deleteLink", "removeDevice"}
<1> DEFINE a == Must("describe", r.a.dev, <<>>)
           b == Must("describe", r.b.dev, <<>>)
           c == Must("ensure_free", r.a, <<>>)
           d == Must("ensure_free", r.b, <<>>)
           e == Must("createLink", r.a, [to |-> r.b, cable |-> resolve(r.cable, r.a, r.b)])
           f == Must("connection", r.a, <<>>)
           s == <<a, b, c, d, e, f>>
           S == {Refuse, a, b, c, d, e, f}
           plan == LinkPlan(r, seen)
<1>1. plan = Check(r.a # r.b) \o s
  BY Zenon DEF LinkPlan, connect
<1>2. /\ a.op = "describe" /\ b.op = "describe" /\ c.op = "ensure_free" /\ d.op = "ensure_free"
      /\ e.op = "createLink" /\ f.op = "connection" /\ Refuse.op = "refuse"
  BY Zenon DEF Must, Refuse, Item
<1> HIDE DEF a, b, c, d, e, f
<1>3. Check(r.a # r.b) \in Seq(S)
  <2>1. Check(r.a # r.b) = <<>> \/ Check(r.a # r.b) = <<Refuse>>
    BY Zenon DEF Check, When
  <2>2. Refuse \in S
    BY Zenon
  <2> HIDE DEF S
  <2>3. <<>> \in Seq(S) /\ <<Refuse>> \in Seq(S)
    BY <2>2
  <2>4. QED BY Zenon, <2>1, <2>3
<1>4. plan \in Seq(S)
  BY <1>1, <1>3
<1> HIDE DEF plan
<1>5. ItemAfter(plan, n) \in S \/ ItemAfter(plan, n) = Idle.next
  BY Zenon, <1>4, ItemAmong
<1>6. \A x \in S : x.op \notin {"deleteLink", "removeDevice"}
  BY <1>2
<1>7. Idle.next.op \notin {"deleteLink", "removeDevice"}
  BY LastItem
<1>8. QED BY Zenon, <1>5, <1>6, <1>7 DEF plan

\* Calls that change no link.
LEMMA LinkLooks ==
  ASSUME NEW p, NEW c, c.op \notin {"createLink", "deleteLink", "removeDevice"}
  PROVE  LinkAnswer(p, c).pt = p
BY Zenon DEF LinkAnswer, Did, Says, Gives, Obeys, Missing, Unknown, Replies

\* Calls that do, and the question whether a port is connected.
LEMMA LinkChanges ==
  ASSUME NEW p, NEW c
  PROVE  /\ c.op = "createLink" => LinkAnswer(p, c) = create_link(p, c.at, c.val)
         /\ c.op = "deleteLink" => LinkAnswer(p, c) = delete_link(p, c.at)
         /\ c.op = "removeDevice" => LinkAnswer(p, c) = remove_device(p, c.at)
         /\ c.op = "connection" /\ Exists(p, c.at) => LinkAnswer(p, c) = Says(p, cabled(p, c.at))
BY Zenon DEF LinkAnswer

\* What a call makes of a link that is there.
LEMMA LinkLearnt ==
  ASSUME NEW p, p.part = "links", NEW r, NEW seen
  PROVE  /\ Altered(p, r, seen) <=> r.tool = "connect" /\ Len(seen) > 4
         /\ Learnt(p, r, seen) <=>
              (r.tool = "connect" /\ Len(seen) > 4 =>
                 /\ \E l \in p.links : l.a = r.a /\ l.b = r.b /\ l.cable # "wireless"
                 /\ Exists(p, r.a) /\ Exists(p, r.b))
BY Zenon DEF Altered, Learnt

\* What a ready call about links is.
LEMMA LinksReady ==
  ASSUME NEW p, NEW c, Ready(p, c), p.part = "links"
  PROVE  /\ LinksFit(p) /\ IsFiniteSet(p.links) /\ p.devs \subseteq DOMAIN PortsOf
         /\ c.req.tool \in {"connect", "disconnect", "list_links", "list_ports", "remove"}
         /\ c.next = ItemAfter(LinkPlan(c.req, c.seen), Len(c.seen))
         /\ NextReply(p, c) = LinkAnswer(p, c.next)
         /\ NextReply(p, c).pt.part = "links"
         /\ NextCall(p, c) = ItemAfter(LinkPlan(c.req, MoreHeard(p, c)), Len(c.seen) + 1)
         /\ c.req.tool = "list_links" /\ Len(c.seen) > 0 => c.seen[1].data \in Nat
         /\ c.req.tool = "list_ports" /\ Len(c.seen) > 1 => c.seen[2].data \in Nat
<1>1. LinksFit(p) /\ IsFiniteSet(p.links) /\ p.devs \subseteq DOMAIN PortsOf
  BY DEF Ready, PartFits, LinksFit, HostsFit, PreferencesFit, ActivityFits
<1>2. \A r, seen : PlanIn(p.part, r, seen) = LinkPlan(r, seen)
  BY Zenon DEF PlanIn
<1>3. Answer(p, c.next) = LinkAnswer(p, c.next)
  BY Zenon DEF Answer
<1>4. LinksFit(LinkAnswer(p, c.next).pt)
  BY Zenon, <1>1, LinksAnswer
<1>5. /\ c.req.tool = "list_links" /\ Len(c.seen) > 0 => c.seen[1].data \in Nat
      /\ c.req.tool = "list_ports" /\ Len(c.seen) > 1 => c.seen[2].data \in Nat
  BY Zenon DEF Ready, Counted
<1>6. c.req.tool \in {"connect", "disconnect", "list_links", "list_ports", "remove"}
  <2>1. c.req \in Asks["links"] /\ "links" \in DOMAIN Asks
    BY WhatReadyMeans
  <2>2. QED BY Zenon, <2>1, AsksAssumption
<1>7. c.next = ItemAfter(LinkPlan(c.req, c.seen), Len(c.seen)) /\ Len(MoreHeard(p, c)) = Len(c.seen) + 1
  <2>1. /\ c.next = ItemAfter(PlanIn(p.part, c.req, c.seen), Len(c.seen))
        /\ Len(MoreHeard(p, c)) = Len(c.seen) + 1
    BY Zenon, WhatReadyMeans
  <2>2. QED BY Zenon, <1>2, <2>1
<1>8. NextCall(p, c) = ItemAfter(LinkPlan(c.req, MoreHeard(p, c)), Len(c.seen) + 1)
  BY Zenon, <1>2, <1>7 DEF NextCall
<1>9. QED BY Zenon, <1>1, <1>3, <1>4, <1>5, <1>6, <1>7, <1>8 DEF NextReply, LinksFit

\* What the tools ask of Packet Tracer.
LEMMA LinkMethods ==
  ASSUME NEW r, r.tool \in {"connect", "disconnect", "list_links", "list_ports", "remove"}, NEW seen, IsSeq(seen),
         NEW n \in Nat, n = Len(seen),
         r.tool = "list_links" /\ n > 0 => seen[1].data \in Nat,
         r.tool = "list_ports" /\ n > 1 => seen[2].data \in Nat,
         NEW item, item = ItemAfter(LinkPlan(r, seen), n)
  PROVE  /\ item.op = "createLink" => r.tool = "connect"
         /\ item.op = "deleteLink" => r.tool = "disconnect" /\ item.at = r.end
         /\ item.op = "removeDevice" => r.tool = "remove"
<1>1. CASE r.tool = "connect"
  <2>1. item.op \notin {"deleteLink", "removeDevice"}
    BY Zenon, <1>1, ConnectOps
  <2>2. QED BY <1>1, <2>1
<1>2. CASE r.tool = "disconnect"
  <2>1. n = 0 \/ n = 1 \/ n > 1
    OBVIOUS
  <2>2. CASE n = 0
    <3>1. item = Must("connection", r.end, <<>>)
      BY Zenon, <1>2, <2>2, DisconnectItems
    <3>2. item.op = "connection"
      BY <3>1, MustFields
    <3>3. QED BY <3>2
  <2>3. CASE n = 1
    <3>1. item = Must("deleteLink", r.end, <<>>)
      BY Zenon, <1>2, <2>3, DisconnectItems
    <3>2. item.op = "deleteLink" /\ item.at = r.end
      BY <3>1, MustFields
    <3>3. QED BY <1>2, <3>2
  <2>4. CASE n > 1
    <3>1. item = Idle.next
      BY Zenon, <1>2, <2>4, DisconnectItems
    <3>2. item.op = "done"
      BY Zenon, <3>1, LastItem
    <3>3. QED BY <3>2
  <2>5. QED BY Zenon, <2>1, <2>2, <2>3, <2>4
<1>3. CASE r.tool = "remove"
  <2>1. n = 0 \/ n > 0
    OBVIOUS
  <2>2. CASE n = 0
    <3>1. item = Must("removeDevice", r.dev, <<>>)
      BY Zenon, <1>3, <2>2, RemoveItems
    <3>2. item.op = "removeDevice"
      BY <3>1, MustFields
    <3>3. QED BY <1>3, <3>2
  <2>3. CASE n > 0
    <3>1. item = Idle.next
      BY Zenon, <1>3, <2>3, RemoveItems
    <3>2. item.op = "done"
      BY Zenon, <3>1, LastItem
    <3>3. QED BY <3>2
  <2>4. QED BY Zenon, <2>1, <2>2, <2>3
<1>4. CASE r.tool \in {"list_links", "list_ports"}
  <2>1. Firm(item, {"getLinkCount", "getLinkAt", "describe", "getPortCount", "read_port", "done"})
    <3>1. Firm(ItemAfter(LinkPlan(r, seen), Len(seen)),
               {"getLinkCount", "getLinkAt", "describe", "getPortCount", "read_port", "done"})
      BY <1>4, LinkListsLook
    <3>2. QED BY Zenon, <3>1
  <2>2. QED BY <2>1 DEF Firm
<1>5. QED BY <1>1, <1>2, <1>3, <1>4

\* A cable that connect has put in.
LEMMA LinkMade ==
  ASSUME NEW p, LinksFit(p), NEW r, NEW cable, NEW reply, reply = create_link(p, r.a, [to |-> r.b, cable |-> cable])
  PROVE  \/ reply.is = "no" /\ reply.pt = p
         \/ /\ reply.is = "yes"
            /\ \E l \in reply.pt.links : l.a = r.a /\ l.b = r.b /\ l.cable # "wireless"
            /\ Exists(reply.pt, r.a) /\ Exists(reply.pt, r.b)
<1> DEFINE v == [to |-> r.b, cable |-> cable]
           link == [a |-> r.a, b |-> v.to, cable |-> v.cable]
           could == /\ r.a # v.to
                    /\ \A e \in {r.a, v.to} : Exists(p, e) /\ Linked(p, e) = {}
                    /\ Compatible(r.a, v.to, v.cable)
           q == [p EXCEPT !.links = @ \cup {link}]
<1>1. reply = Did(p, could, q)
  BY Zenon DEF create_link
<1>2. v.to = r.b /\ v.cable = cable
  OBVIOUS
<1>3. ASSUME could
      PROVE  /\ \E l \in q.links : l.a = r.a /\ l.b = r.b /\ l.cable # "wireless"
             /\ Exists(q, r.a) /\ Exists(q, r.b)
  <2>1. Exists(p, r.a) /\ Exists(p, r.b)
    BY Zenon, <1>2, <1>3
  <2>2. cable # "wireless"
    <3>1. Compatible(r.a, r.b, cable)
      BY Zenon, <1>2, <1>3
    <3>2. QED BY <3>1 DEF Compatible
  <2>3. link.a = r.a /\ link.b = r.b /\ link.cable = cable
    BY <1>2
  <2> HIDE DEF link
  <2>4. q.devs = p.devs /\ link \in q.links
    BY DEF LinksFit
  <2> HIDE DEF q
  <2>5. Exists(q, r.a) /\ Exists(q, r.b)
    BY Zenon, <2>1, <2>4 DEF Exists
  <2>6. link.a = r.a /\ link.b = r.b /\ link.cable # "wireless"
    BY Zenon, <2>2, <2>3
  <2>7. QED BY Zenon, <2>4, <2>5, <2>6
<1> HIDE DEF could, q
<1>4. (could => reply.pt = q /\ reply.is = "yes") /\ (~could => reply.pt = p /\ reply.is = "no")
  BY <1>1, DidFields
<1>5. CASE could
  BY Zenon, <1>3, <1>4, <1>5
<1>6. CASE ~could
  BY Zenon, <1>4, <1>6
<1>7. QED BY Zenon, <1>5, <1>6

\* connect is refused before its cable is in, the other tools at their first changing
\* call.
LEMMA LinksPrudent ==
  ASSUME NEW p, NEW c, Ready(p, c), p.part = "links", Sensible("links", c.req), Learnt(p, c.req, c.seen),
         c.seen # <<>> => ~Ended(c.next)
  PROVE  Prudent(p, c)
<1> DEFINE r == c.req
           n == Len(c.seen)
           next == c.next
           reply == NextReply(p, c)
           more == MoreHeard(p, c)
           after == NextCall(p, c)
<1>1. n \in Nat /\ IsSeq(c.seen) /\ Len(more) = n + 1
  BY Zenon, WhatReadyMeans
<1>2. /\ LinksFit(p) /\ r.tool \in {"connect", "disconnect", "list_links", "list_ports", "remove"}
      /\ next = ItemAfter(LinkPlan(r, c.seen), n) /\ reply = LinkAnswer(p, next) /\ reply.pt.part = "links"
      /\ after = ItemAfter(LinkPlan(r, more), n + 1)
  BY Zenon, LinksReady
<1>3. /\ r.tool = "list_links" /\ n > 0 => c.seen[1].data \in Nat
      /\ r.tool = "list_ports" /\ n > 1 => c.seen[2].data \in Nat
  BY Zenon, LinksReady
<1>4. Altered(p, r, c.seen) <=> r.tool = "connect" /\ n > 4
  BY Zenon, LinkLearnt
<1> DEFINE Laid(q) == /\ \E l \in q.links : l.a = r.a /\ l.b = r.b /\ l.cable # "wireless"
                      /\ Exists(q, r.a) /\ Exists(q, r.b)
<1>5. \A q : q.part = "links" =>
        /\ Altered(q, r, more) <=> r.tool = "connect" /\ n + 1 > 4
        /\ Learnt(q, r, more) <=> (r.tool = "connect" /\ n + 1 > 4 => Laid(q))
  BY Zenon, <1>1, LinkLearnt
<1>6. r.tool = "connect" /\ n > 4 => Laid(p)
  BY Zenon, LinkLearnt
<1> HIDE DEF r, n, next, reply, more, after, Laid
<1>7. ASSUME next.op \notin {"createLink", "deleteLink", "removeDevice"}, r.tool # "connect" \/ n < 4
      PROVE  Prudent(p, c)
  <2>1. reply.pt = p
    BY Zenon, <1>2, <1>7, LinkLooks
  <2>2. ~(r.tool = "connect" /\ n > 4) /\ ~(r.tool = "connect" /\ n + 1 > 4)
    BY <1>1, <1>7
  <2>3. ~Altered(p, r, c.seen) /\ Learnt(p, r, more)
    BY Zenon, <1>4, <1>5, <2>2
  <2>4. QED BY Zenon, <2>1, <2>3, OnlyLooking DEF r, reply, more
<1>8. CASE r.tool \in {"list_links", "list_ports"}
  <2>1. next.op \notin {"createLink", "deleteLink", "removeDevice"}
    <3>1. n = Len(c.seen)
      BY DEF n
    <3>2. IsSeq(c.seen)
      BY Zenon, <1>1
    <3>3. /\ next.op = "createLink" => r.tool = "connect"
          /\ next.op = "deleteLink" => r.tool = "disconnect"
          /\ next.op = "removeDevice" => r.tool = "remove"
      BY <1>1, <1>2, <1>3, <3>1, <3>2, LinkMethods
    <3>4. QED BY <1>8, <3>3
  <2>2. QED BY <1>7, <1>8, <2>1
<1>9. ASSUME NEW at, next = Must("deleteLink", at, <<>>) \/ next = Must("removeDevice", at, <<>>),
             r.tool # "connect", after = Idle.next
      PROVE  Prudent(p, c)
  <2>1. next.op \in {"deleteLink", "removeDevice"} /\ next.need = {"ok", "yes"} /\ next.at = at
    BY <1>9, MustFields
  <2>2. \E could, q : reply = Did(p, could, q)
    <3>1. reply = delete_link(p, next.at) \/ reply = remove_device(p, next.at)
      BY Zenon, <1>2, <2>1, LinkChanges
    <3>2. QED BY Zenon, <3>1 DEF delete_link, remove_device
  <2>3. PICK could, q : reply = Did(p, could, q)
    BY Zenon, <2>2
  <2>4. (could => reply.pt = q /\ reply.is = "yes") /\ (~could => reply.pt = p /\ reply.is = "no")
    BY <2>3, DidFields
  <2>5. reply.is \notin next.need => reply.pt = p
    BY <2>1, <2>4
  <2>6. QED BY Zenon, <1>4, <1>9, <2>5, OnlyOnce DEF r, reply, next, after
<1>10. CASE r.tool = "remove"
  <2>1. n = 0 \/ n > 0
    BY <1>1
  <2>2. CASE n = 0
    <3>1. next = Must("removeDevice", r.dev, <<>>)
      BY Zenon, <1>2, <1>10, <2>2, RemoveItems
    <3>2. n + 1 \in Nat /\ n + 1 > 0
      BY <1>1
    <3>3. after = Idle.next
      BY Zenon, <1>2, <1>10, <3>2, RemoveItems
    <3>4. r.tool # "connect"
      BY <1>10
    <3>5. QED BY Zenon, <1>9, <3>1, <3>3, <3>4
  <2>3. CASE n > 0
    <3>1. next = Idle.next
      BY Zenon, <1>1, <1>2, <1>10, <2>3, RemoveItems
    <3>2. next.op = "done"
      BY Zenon, <3>1, LastItem
    <3>3. QED BY <1>7, <1>10, <3>2
  <2>4. QED BY Zenon, <2>1, <2>2, <2>3
<1>11. CASE r.tool = "disconnect"
  <2>1. n = 0 \/ n = 1 \/ n > 1
    BY <1>1
  <2>2. CASE n = 0
    <3>1. next = Must("connection", r.end, <<>>)
      BY Zenon, <1>2, <1>11, <2>2, DisconnectItems
    <3>2. next.op = "connection"
      BY <3>1, MustFields
    <3>3. QED BY <1>7, <1>11, <3>2
  <2>3. CASE n = 1
    <3>1. next = Must("deleteLink", r.end, <<>>)
      BY Zenon, <1>2, <1>11, <2>3, DisconnectItems
    <3>2. n + 1 \in Nat /\ n + 1 > 1
      BY <1>1, <2>3
    <3>3. after = Idle.next
      BY Zenon, <1>2, <1>11, <3>2, DisconnectItems
    <3>4. r.tool # "connect"
      BY <1>11
    <3>5. QED BY Zenon, <1>9, <3>1, <3>3, <3>4
  <2>4. CASE n > 1
    <3>1. next = Idle.next
      BY Zenon, <1>1, <1>2, <1>11, <2>4, DisconnectItems
    <3>2. next.op = "done"
      BY Zenon, <3>1, LastItem
    <3>3. QED BY <1>7, <1>11, <3>2
  <2>5. QED BY Zenon, <2>1, <2>2, <2>3, <2>4
<1>12. CASE r.tool = "connect"
  <2>1. r.a # r.b
    BY Zenon, <1>12, SensibleConnect DEF r
  <2>2. n = 0 \/ n = 1 \/ n = 2 \/ n = 3 \/ n = 4 \/ n = 5 \/ n > 5
    BY <1>1
  <2>3. CASE n = 0 \/ n = 1 \/ n = 2 \/ n = 3
    <3>1. \/ next = Must("describe", r.a.dev, <<>>) \/ next = Must("describe", r.b.dev, <<>>)
          \/ next = Must("ensure_free", r.a, <<>>) \/ next = Must("ensure_free", r.b, <<>>)
      BY Zenon, <1>2, <1>12, <2>1, <2>3, ConnectItems
    <3>2. next.op \in {"describe", "ensure_free"}
      BY <3>1, MustFields
    <3>3. QED BY <1>7, <2>3, <3>2
  <2>4. CASE n = 4
    <3> DEFINE cable == resolve(r.cable, r.a, r.b)
    <3>1. next = Must("createLink", r.a, [to |-> r.b, cable |-> cable])
      BY Zenon, <1>2, <1>12, <2>1, <2>4, ConnectItems
    <3> HIDE DEF cable
    <3>2. next.op = "createLink" /\ next.at = r.a /\ next.val = [to |-> r.b, cable |-> cable] /\ next.need = {"ok", "yes"}
      BY <3>1, MustFields
    <3>3. reply = create_link(p, r.a, [to |-> r.b, cable |-> cable])
      BY ZenonT(60), <1>2, <3>2, LinkChanges
    <3>4. \/ reply.is = "no" /\ reply.pt = p
          \/ reply.is = "yes" /\ Laid(reply.pt)
      BY ZenonT(60), <1>2, <3>3, LinkMade DEF Laid
    <3>5. ~Altered(p, r, c.seen)
      BY <1>4, <2>4
    <3>6. CASE reply.is = "no" /\ reply.pt = p
      <4>1. reply.is \notin next.need
        BY <3>2, <3>6
      <4>2. QED BY Zenon, <3>5, <3>6, <4>1, NotAtAll DEF r, reply, next
    <3>7. CASE reply.is = "yes" /\ Laid(reply.pt)
      <4>1. reply.is \in next.need
        BY <3>2, <3>7
      <4>2. after = Must("connection", r.a, <<>>)
        <5>1. n + 1 = 5
          BY <2>4
        <5>2. QED BY Zenon, <1>2, <1>12, <2>1, <5>1, ConnectItems
      <4>3. after.op # "refuse"
        <5>1. after.op = "connection"
          BY <4>2, MustFields
        <5>2. QED BY <5>1
      <4>4. n + 1 > 4
        BY <2>4
      <4>5. Learnt(reply.pt, r, more) /\ Altered(reply.pt, r, more)
        BY Zenon, <1>2, <1>5, <1>12, <3>7, <4>4
      <4>6. QED BY Zenon, <4>1, <4>3, <4>5, OnlyGoingOn DEF r, reply, next, after, more
    <3>8. QED BY Zenon, <3>4, <3>6, <3>7
  <2>5. CASE n = 5
    <3>1. next = Must("connection", r.a, <<>>)
      BY Zenon, <1>2, <1>12, <2>1, <2>5, ConnectItems
    <3>2. next.op = "connection" /\ next.at = r.a /\ next.need = {"ok", "yes"}
      BY <3>1, MustFields
    <3>3. Laid(p)
      BY <1>6, <1>12, <2>5
    <3>4. Exists(p, r.a) /\ cabled(p, r.a)
      BY <3>3 DEF Laid, cabled, Linked
    <3>5. reply = Says(p, cabled(p, next.at))
      BY Zenon, <1>2, <3>2, <3>4, LinkChanges
    <3>6. reply.is = "yes"
      BY <3>2, <3>4, <3>5, SaysFields
    <3>7. reply.is \in next.need
      BY <3>2, <3>6
    <3>8. n + 1 \in Nat /\ n + 1 > 5
      BY <1>1, <2>5
    <3>9. after = Idle.next
      BY Zenon, <1>2, <1>12, <2>1, <3>8, ConnectItems
    <3>10. QED BY Zenon, <3>7, <3>9, OnlyTheLast DEF reply, next, after
  <2>6. CASE n > 5
    <3>1. next = Idle.next
      BY Zenon, <1>1, <1>2, <1>12, <2>1, <2>6, ConnectItems
    <3>2. Ended(next)
      BY Zenon, <3>1, LastItem DEF Ended
    <3>3. c.seen # <<>>
      <4>1. Len(<<>>) = 0 /\ n # 0
        BY <1>1, <2>6
      <4>2. QED BY Zenon, <4>1 DEF n
    <3>4. QED BY Zenon, <3>2, <3>3 DEF next
  <2>7. QED BY Zenon, <2>2, <2>3, <2>4, <2>5, <2>6
<1>13. QED BY <1>2, <1>8, <1>10, <1>11, <1>12

\* What another call does to a link, and to the counts.
LEMMA LinksOthers ==
  ASSUME NEW p, NEW c, Ready(p, c), p.part = "links", NEW r, r.tool = "connect",
         NEW l, l \in p.links, l.a = r.a, l.b = r.b, Exists(p, r.a), Exists(p, r.b),
         LinkTopics(r) \cap LinkTopics(c.req) = {}
  PROVE  LET q == NextReply(p, c).pt IN l \in q.links /\ Exists(q, r.a) /\ Exists(q, r.b)
<1> DEFINE s == c.req
           next == c.next
           reply == NextReply(p, c)
           n == Len(c.seen)
<1>1. /\ LinksFit(p) /\ s.tool \in {"connect", "disconnect", "list_links", "list_ports", "remove"}
      /\ reply = LinkAnswer(p, next) /\ n \in Nat
  BY Zenon, LinksReady, WhatReadyMeans
<1>2. /\ next.op = "createLink" => s.tool = "connect"
      /\ next.op = "deleteLink" => s.tool = "disconnect" /\ next.at = s.end
      /\ next.op = "removeDevice" => s.tool = "remove"
  <2>1. n = Len(c.seen) /\ next = ItemAfter(LinkPlan(s, c.seen), n) /\ IsSeq(c.seen)
    BY Zenon, LinksReady, WhatReadyMeans
  <2>2. /\ s.tool = "list_links" /\ n > 0 => c.seen[1].data \in Nat
        /\ s.tool = "list_ports" /\ n > 1 => c.seen[2].data \in Nat
    BY Zenon, LinksReady
  <2> HIDE DEF s, next, n
  <2>3. QED BY <1>1, <2>1, <2>2, LinkMethods
<1>3. LinkTopics(r) = {r.a, r.b} /\ r.a \in Ends
  BY Zenon DEF LinkTopics, Exists
<1>4. s.tool = "disconnect" => LinkTopics(s) = {s.end}
  BY Zenon DEF LinkTopics
<1>5. s.tool = "remove" => LinkTopics(s) = Ends
  BY Zenon DEF LinkTopics
<1> HIDE DEF s, next, reply, n
<1> SUFFICES l \in reply.pt.links /\ reply.pt.devs = p.devs
  BY Zenon DEF Exists, reply
<1>6. CASE next.op \notin {"createLink", "deleteLink", "removeDevice"}
  <2>1. reply.pt = p
    BY Zenon, <1>1, <1>6, LinkLooks
  <2>2. QED BY Zenon, <2>1
<1>7. ASSUME NEW could, NEW q, reply = Did(p, could, q), l \in q.links, q.devs = p.devs
      PROVE  l \in reply.pt.links /\ reply.pt.devs = p.devs
  <2>1. (could => reply.pt = q) /\ (~could => reply.pt = p)
    BY <1>7, DidFields
  <2>2. QED BY Zenon, <1>7, <2>1
<1>8. CASE next.op = "createLink"
  <2> DEFINE v == next.val
             a == next.at
             q == [p EXCEPT !.links = @ \cup {[a |-> a, b |-> v.to, cable |-> v.cable]}]
  <2>1. reply = create_link(p, a, v)
    BY Zenon, <1>1, <1>8, LinkChanges
  <2>2. \E could : reply = Did(p, could, q)
    BY Zenon, <2>1 DEF create_link
  <2>3. l \in q.links /\ q.devs = p.devs
    BY <1>1 DEF LinksFit
  <2> HIDE DEF q
  <2>4. QED BY Zenon, <1>7, <2>2, <2>3
<1>9. CASE next.op = "deleteLink"
  <2> DEFINE q == [p EXCEPT !.links = @ \ Linked(p, next.at)]
  <2>1. reply = Did(p, Linked(p, next.at) # {}, q)
    BY Zenon, <1>1, <1>9, LinkChanges DEF delete_link
  <2>2. next.at \notin {r.a, r.b}
    BY <1>2, <1>3, <1>4, <1>9 DEF s
  <2>3. l \notin Linked(p, next.at)
    BY <2>2 DEF Linked
  <2>4. l \in q.links /\ q.devs = p.devs
    BY <1>1, <2>3 DEF LinksFit
  <2> HIDE DEF q
  <2>5. QED BY Zenon, <1>7, <2>1, <2>4
<1>10. CASE next.op = "removeDevice"
  BY <1>2, <1>3, <1>5, <1>10 DEF s
<1>11. QED BY Zenon, <1>6, <1>8, <1>9, <1>10

\* The counts are asked for by calls that must be answered.
LEMMA LinksAsked ==
  ASSUME NEW r, r.tool = "list_links" \/ r.tool = "list_ports", NEW seen, IsSeq(seen),
         r.tool = "list_links" => Len(seen) = 0, r.tool = "list_ports" => Len(seen) = 1
  PROVE  LET item == ItemAfter(LinkPlan(r, seen), Len(seen)) IN
         ~item.soft /\ item.op \in {"getLinkCount", "getPortCount"} /\ item.need = {"ok", "yes", "no"}
<1>1. CASE r.tool = "list_links"
  <2> DEFINE item == ItemAfter(LinkPlan(r, seen), Len(seen))
  <2>1. Firm(item, {"getLinkCount"}) /\ item.need = {"ok", "yes", "no"}
    <3>1. ~(Len(seen) > 0)
      BY <1>1
    <3>2. QED BY Zenon, <1>1, <3>1, ListLinksItems
  <2>2. QED BY <2>1 DEF Firm
<1>2. CASE r.tool = "list_ports"
  <2> DEFINE item == ItemAfter(LinkPlan(r, seen), Len(seen))
  <2>1. Firm(item, {"getPortCount"}) /\ item.need = {"ok", "yes", "no"}
    <3>1. Len(seen) = 1
      BY Zenon, <1>2
    <3>2. ~(Len(seen) > 1)
      BY <3>1
    <3>3. QED BY Zenon, <1>2, <3>1, <3>2, ListPortsItems
  <2>2. QED BY <2>1 DEF Firm
<1>3. QED BY Zenon, <1>1, <1>2

\* A count is a number.
LEMMA CountsAreNumbers ==
  ASSUME NEW p, IsFiniteSet(p.links), p.devs \subseteq DOMAIN PortsOf, NEW c, c.op \in {"getLinkCount", "getPortCount"}
  PROVE  LinkAnswer(p, c).is = "missing" \/ LinkAnswer(p, c).data \in Nat
<1>1. Cardinality(p.links) \in Nat
  BY Zenon, FS_CardinalityType
<1>2. c.at \in p.devs => Len(PortsOf[c.at]) \in Nat
  BY PortsAssumption
<1>3. CASE c.op = "getLinkCount"
  <2>1. LinkAnswer(p, c) = Gives(p, Cardinality(p.links))
    BY Zenon, <1>3 DEF LinkAnswer
  <2>2. Gives(p, Cardinality(p.links)).data = Cardinality(p.links)
    BY Zenon DEF Gives, Replies
  <2>3. QED BY <1>1, <2>1, <2>2
<1>4. CASE c.op = "getPortCount"
  <2>1. LinkAnswer(p, c) = IF c.at \in p.devs THEN Gives(p, Len(PortsOf[c.at])) ELSE Missing(p)
    BY Zenon, <1>4 DEF LinkAnswer
  <2>2. Gives(p, Len(PortsOf[c.at])).data = Len(PortsOf[c.at]) /\ Missing(p).is = "missing"
    BY Zenon DEF Gives, Missing, Replies
  <2>3. QED BY <1>2, <2>1, <2>2
<1>5. QED BY <1>3, <1>4

\* So the lists have numbers to go by.
LEMMA LinksCounted ==
  ASSUME NEW p, NEW c, Ready(p, c), p.part = "links", NEW reply,
         c.next.soft \/ (reply = Told(Answer(p, c.next)) /\ Answer(p, c.next).is \in c.next.need),
         NEW more, more = Append(c.seen, reply)
  PROVE  /\ c.req.tool = "list_links" /\ Len(more) > 0 => more[1].data \in Nat
         /\ c.req.tool = "list_ports" /\ Len(more) > 1 => more[2].data \in Nat
<1> DEFINE r == c.req
           n == Len(c.seen)
           next == c.next
           answer == LinkAnswer(p, next)
<1>1. n \in Nat /\ IsSeq(c.seen)
  BY Zenon, WhatReadyMeans
<1>2. /\ next = ItemAfter(LinkPlan(r, c.seen), n) /\ Answer(p, next) = answer
      /\ r.tool = "list_links" /\ n > 0 => c.seen[1].data \in Nat
      /\ r.tool = "list_ports" /\ n > 1 => c.seen[2].data \in Nat
  BY Zenon, LinksReady DEF NextReply
<1>3. Len(more) = n + 1 /\ (\A k \in 1..n : more[k] = c.seen[k]) /\ more[n + 1] = reply
  BY ZenonT(60), <1>1, OneMoreAtEnd
<1>4. ASSUME ~next.soft, next.op \in {"getLinkCount", "getPortCount"}, next.need = {"ok", "yes", "no"}
      PROVE  reply.data \in Nat
  <2>1. IsFiniteSet(p.links) /\ p.devs \subseteq DOMAIN PortsOf
    BY Zenon, LinksReady
  <2>2. reply = Told(answer) /\ answer.is \in next.need
    BY Zenon, <1>2, <1>4
  <2>3. answer.is # "missing"
    BY <1>4, <2>2
  <2>4. answer.data \in Nat
    <3> HIDE DEF next
    <3>1. answer = LinkAnswer(p, next)
      BY DEF answer
    <3>2. QED BY <1>4, <2>1, <2>3, CountsAreNumbers
  <2>5. Told(answer).data = answer.data
    BY Zenon, ToldFields
  <2>6. QED BY <2>2, <2>4, <2>5
<1> HIDE DEF r, n, next, answer
<1>5. CASE r.tool = "list_links"
  <2>1. CASE n = 0
    <3>1. ~next.soft /\ next.op \in {"getLinkCount", "getPortCount"} /\ next.need = {"ok", "yes", "no"}
      BY <1>1, <1>2, <1>5, <2>1, LinksAsked DEF n
    <3>2. QED BY <1>3, <1>4, <1>5, <2>1, <3>1 DEF r
  <2>2. CASE n # 0
    <3>1. n > 0 /\ 1 \in 1..n
      BY <1>1, <2>2
    <3>2. QED BY <1>2, <1>3, <1>5, <3>1 DEF r
  <2>3. QED BY <2>1, <2>2
<1>6. CASE r.tool = "list_ports"
  <2>1. CASE n = 0
    <3>1. ~(Len(more) > 1)
      BY <1>3, <2>1
    <3>2. QED BY <1>6, <3>1 DEF r
  <2>2. CASE n = 1
    <3>1. ~next.soft /\ next.op \in {"getLinkCount", "getPortCount"} /\ next.need = {"ok", "yes", "no"}
      BY <1>1, <1>2, <1>6, <2>2, LinksAsked DEF n
    <3>2. QED BY <1>3, <1>4, <1>6, <2>2, <3>1 DEF r
  <2>3. CASE n # 0 /\ n # 1
    <3>1. n > 1 /\ 2 \in 1..n
      BY <1>1, <2>3
    <3>2. QED BY <1>2, <1>3, <1>6, <3>1 DEF r
  <2>4. QED BY <2>1, <2>2, <2>3
<1>7. QED BY <1>5, <1>6 DEF r

\* There are finitely many links.
LEMMA LinksStayFinite ==
  ASSUME NEW p, LinksFit(p), IsFiniteSet(p.links), p.devs \subseteq DOMAIN PortsOf, NEW c
  PROVE  LET q == LinkAnswer(p, c).pt IN IsFiniteSet(q.links) /\ q.devs \subseteq DOMAIN PortsOf
<1> DEFINE reply == LinkAnswer(p, c)
<1>1. ASSUME NEW could, NEW q, reply = Did(p, could, q), IsFiniteSet(q.links), q.devs \subseteq p.devs
      PROVE  IsFiniteSet(reply.pt.links) /\ reply.pt.devs \subseteq DOMAIN PortsOf
  <2> HIDE DEF reply
  <2>1. (could => reply.pt = q) /\ (~could => reply.pt = p)
    BY <1>1, DidFields
  <2>2. reply.pt = p \/ reply.pt = q
    BY Zenon, <2>1
  <2>3. q.devs \subseteq DOMAIN PortsOf
    BY <1>1
  <2>4. QED BY Zenon, <1>1, <2>2, <2>3
<1>2. CASE c.op \notin {"createLink", "deleteLink", "removeDevice"}
  BY Zenon, <1>2, LinkLooks
<1>3. CASE c.op = "createLink"
  <2> DEFINE link == [a |-> c.at, b |-> c.val.to, cable |-> c.val.cable]
             q == [p EXCEPT !.links = @ \cup {link}]
  <2>1. \E could : reply = Did(p, could, q)
    BY Zenon, <1>3, LinkChanges DEF create_link
  <2>2. q.links = p.links \cup {link} /\ q.devs = p.devs
    BY DEF LinksFit
  <2>3. IsFiniteSet(p.links \cup {link})
    BY FS_AddElement
  <2> HIDE DEF q
  <2>4. QED BY Zenon, <1>1, <2>1, <2>2, <2>3
<1>4. ASSUME c.op = "deleteLink" \/ c.op = "removeDevice"
      PROVE  \E could, q : reply = Did(p, could, q) /\ q.links \subseteq p.links /\ q.devs \subseteq p.devs
  <2>1. CASE c.op = "deleteLink"
    <3> DEFINE q == [p EXCEPT !.links = @ \ Linked(p, c.at)]
    <3>1. reply = Did(p, Linked(p, c.at) # {}, q)
      BY Zenon, <2>1, LinkChanges DEF delete_link
    <3>2. q.links \subseteq p.links /\ q.devs = p.devs
      BY DEF LinksFit
    <3> HIDE DEF q
    <3>3. QED BY <3>1, <3>2
  <2>2. CASE c.op = "removeDevice"
    <3> DEFINE q == [p EXCEPT !.devs = @ \ {c.at}, !.links = {l \in @ : c.at \notin {l.a.dev, l.b.dev}}]
    <3>1. reply = Did(p, c.at \in p.devs, q)
      BY Zenon, <2>2, LinkChanges DEF remove_device
    <3>2. q.links \subseteq p.links /\ q.devs \subseteq p.devs
      BY DEF LinksFit
    <3> HIDE DEF q
    <3>3. QED BY <3>1, <3>2
  <2>3. QED BY <1>4, <2>1, <2>2
<1>5. CASE c.op = "deleteLink" \/ c.op = "removeDevice"
  <2>1. PICK could, q : reply = Did(p, could, q) /\ q.links \subseteq p.links /\ q.devs \subseteq p.devs
    BY <1>4, <1>5
  <2>2. IsFiniteSet(q.links)
    BY <2>1, FS_Subset
  <2>3. QED BY Zenon, <1>1, <2>1, <2>2
<1>6. QED BY Zenon, <1>2, <1>3, <1>5

----------------------------------------------------------------------------
\* Preferences.

\* A setter is called with as many flags as it takes.
WellSet(item) == item.at \in Known /\ item.val.workspace = (item.at \in WorkspaceFlags)

\* Packet Tracer obeys a setter that is called so.
LEMMA SetterObeys ==
  ASSUME NEW p, NEW item, item.op = "set", WellSet(item)
  PROVE  PreferenceAnswer(p, item).is = "ok"
<1> DEFINE w == item.at \in WorkspaceFlags
           u == item.at \in TwoArgumentSetters
           q == [p EXCEPT !.values[item.at] = item.val.value]
<1>1. w <=> u
  BY Zenon, SettersAssumption DEF WellSet
<1>2. w = u
  BY <1>1
<1>3. item.val.workspace = u
  BY Zenon, <1>2 DEF WellSet
<1>4. PreferenceAnswer(p, item) = Obeys(q)
  BY Zenon, <1>3 DEF PreferenceAnswer
<1>5. Obeys(q).is = "ok"
  BY Zenon, ReplyFields
<1>6. QED BY <1>4, <1>5

\* The calls of the preferences tools: setters that are well called, then the options.
LEMMA PreferenceItems ==
  ASSUME NEW r, r.tool \in {"get_preferences", "set_preferences"}, r.tool = "set_preferences" => ListOf(r.values),
         Sensible("preferences", r), NEW seen, NEW n \in Nat, NEW item, item = ItemAfter(PreferencePlan(r, seen), n)
  PROVE  \/ item = Idle.next /\ n > 0
         \/ item.op = "options" /\ item.need = {"ok", "yes", "no"}
         \/ item.op = "set" /\ WellSet(item) /\ item.need = {"ok", "yes", "no"}
<1> DEFINE look == Ask("options", "")
           s == <<look>>
<1>1. look.op = "options" /\ look.need = {"ok", "yes", "no"}
  BY Zenon DEF Ask, Tell, Item
<1>2. get_preferences = s
  BY Zenon DEF get_preferences
<1> HIDE DEF look
<1>3. IsSeq(s) /\ Len(s) = 1 /\ ItemAfter(s, 0) = look /\ \A k \in Nat : k > 0 => ItemAfter(s, k) = Idle.next
  BY OneItem
<1> HIDE DEF s
<1>4. ASSUME NEW k \in Nat
      PROVE  \/ ItemAfter(s, k) = Idle.next /\ k > 0
             \/ ItemAfter(s, k).op = "options" /\ ItemAfter(s, k).need = {"ok", "yes", "no"}
  BY <1>1, <1>3
<1>5. CASE r.tool = "get_preferences"
  <2>1. PreferencePlan(r, seen) = s
    BY Zenon, <1>2, <1>5 DEF PreferencePlan
  <2>2. item = ItemAfter(s, n)
    BY Zenon, <2>1
  <2>3. QED BY <1>4, <2>2
<1>6. CASE r.tool = "set_preferences"
  <2> DEFINE vals == r.values
             m == Len(vals)
             arg(k) == [value |-> vals[k].value, workspace |-> vals[k].name \in WorkspaceFlags]
             f == [k \in DOMAIN vals |-> Tell("set", vals[k].name, arg(k))]
             all == PreferencePlan(r, seen)
  <2>1. m \in Nat /\ DOMAIN vals = 1..m
    BY Zenon, <1>6, SequenceLaws DEF ListOf, IsSeq
  <2>2. \A k \in DOMAIN vals : vals[k].name \in Known
    <3> SUFFICES ASSUME ~(\A k \in DOMAIN vals : vals[k].name \in Known) PROVE FALSE
      OBVIOUS
    <3>1. PlanIn("preferences", r, <<>>) = <<Refuse>>
      BY Zenon, <1>6 DEF PlanIn, PreferencePlan, set_preferences
    <3>2. ItemAfter(<<Refuse>>, 0) = Refuse
      BY OneItem
    <3>3. Refuse.op = "refuse"
      BY Zenon DEF Refuse, Item
    <3>4. QED BY Zenon, <3>1, <3>2, <3>3 DEF Sensible
  <2>3. all = f \o s
    BY Zenon, <1>2, <1>6, <2>2 DEF PreferencePlan, set_preferences
  <2>4. f = [k \in 1..m |-> f[k]] /\ \A k \in 1..m : f[k] = Tell("set", vals[k].name, arg(k))
    <3> HIDE DEF arg
    <3>1. QED BY <2>1
  <2>5. \A k : arg(k).workspace = (vals[k].name \in WorkspaceFlags)
    BY Zenon
  <2> HIDE DEF f, all, arg, vals
  <2>6. ASSUME NEW k \in 1..m
        PROVE  f[k].op = "set" /\ WellSet(f[k]) /\ f[k].need = {"ok", "yes", "no"}
    <3>1. f[k] = Tell("set", vals[k].name, arg(k)) /\ vals[k].name \in Known
      BY <2>1, <2>2, <2>4
    <3>2. f[k].op = "set" /\ f[k].at = vals[k].name /\ f[k].val = arg(k) /\ f[k].need = {"ok", "yes", "no"}
      BY <3>1, TellFields
    <3>3. f[k].at \in Known
      BY Zenon, <3>1, <3>2
    <3>4. f[k].val.workspace = (f[k].at \in WorkspaceFlags)
      BY <2>5, <3>2
    <3>5. QED BY Zenon, <3>2, <3>3, <3>4 DEF WellSet
  <2> HIDE DEF m
  <2>7. IsSeq(f) /\ Len(f) = m
    <3> DEFINE D == 1..m
               S == {f[k] : k \in D}
    <3>1. f = [k \in D |-> f[k]] /\ \A k \in D : f[k] \in S
      BY Zenon, <2>4
    <3> HIDE DEF D, S
    <3>2. f \in [D -> S]
      BY <3>1
    <3>3. f \in [1..m -> S]
      BY Zenon, <3>2 DEF D
    <3>4. f \in Seq(S)
      BY Zenon, <2>1, <3>3, AsSequence
    <3>5. Len(f) = m
      BY <2>1, <3>3, <3>4
    <3>6. QED BY Zenon, <3>4, <3>5 DEF IsSeq
  <2>8. CASE n < m
    <3>1. ItemAfter(f \o s, n) = ItemAfter(f, n)
      BY Zenon, <1>3, <2>7, <2>8, ItemOfJoin
    <3>2. ItemAfter(f, n) = f[n + 1]
      BY Zenon, <2>7, <2>8 DEF ItemAfter
    <3>3. item = f[n + 1] /\ n + 1 \in 1..m
      <4>1. item = f[n + 1]
        BY Zenon, <2>3, <3>1, <3>2 DEF all
      <4>2. QED BY <2>1, <2>8, <4>1
    <3>4. QED BY Zenon, <2>6, <3>3
  <2>9. CASE ~(n < m)
    <3>1. n - m \in Nat
      BY <2>1, <2>9
    <3>2. ItemAfter(f \o s, n) = ItemAfter(s, n - Len(f))
      BY Zenon, <1>3, <2>7, <2>9, ItemPastJoin
    <3>3. ItemAfter(f \o s, n) = ItemAfter(s, n - m)
      BY Zenon, <2>7, <3>2
    <3>4. item = ItemAfter(s, n - m)
      BY Zenon, <2>3, <3>3 DEF all
    <3>5. QED BY <1>4, <2>1, <3>1, <3>4
  <2>10. QED BY Zenon, <2>8, <2>9
<1>7. QED BY Zenon, <1>5, <1>6

\* What a ready call about preferences is.
LEMMA PreferencesReady ==
  ASSUME NEW p, NEW c, Ready(p, c), p.part = "preferences"
  PROVE  /\ c.req.tool \in {"get_preferences", "set_preferences"}
         /\ c.req.tool = "set_preferences" => ListOf(c.req.values)
         /\ c.next = ItemAfter(PreferencePlan(c.req, c.seen), Len(c.seen))
         /\ NextReply(p, c) = PreferenceAnswer(p, c.next)
         /\ NextReply(p, c).pt.part = "preferences"
         /\ NextCall(p, c) = ItemAfter(PreferencePlan(c.req, MoreHeard(p, c)), Len(c.seen) + 1)
<1>1. PreferencesFit(p)
  BY DEF Ready, PartFits, LinksFit, HostsFit, PreferencesFit, ActivityFits
<1>2. \A r, seen : PlanIn(p.part, r, seen) = PreferencePlan(r, seen)
  BY Zenon DEF PlanIn
<1>3. Answer(p, c.next) = PreferenceAnswer(p, c.next)
  BY Zenon DEF Answer
<1>4. PreferencesFit(PreferenceAnswer(p, c.next).pt)
  BY Zenon, <1>1, PreferencesAnswer
<1>5. /\ c.req.tool \in {"get_preferences", "set_preferences"}
      /\ c.req.tool = "set_preferences" => ListOf(c.req.values)
  <2>1. c.req \in Asks["preferences"] /\ "preferences" \in DOMAIN Asks
    BY WhatReadyMeans
  <2>2. QED BY Zenon, <2>1, AsksAssumption
<1>6. c.next = ItemAfter(PreferencePlan(c.req, c.seen), Len(c.seen)) /\ Len(MoreHeard(p, c)) = Len(c.seen) + 1
  <2>1. /\ c.next = ItemAfter(PlanIn(p.part, c.req, c.seen), Len(c.seen))
        /\ Len(MoreHeard(p, c)) = Len(c.seen) + 1
    BY Zenon, WhatReadyMeans
  <2>2. QED BY Zenon, <1>2, <2>1
<1>7. NextCall(p, c) = ItemAfter(PreferencePlan(c.req, MoreHeard(p, c)), Len(c.seen) + 1)
  BY Zenon, <1>2, <1>6 DEF NextCall
<1>8. QED BY Zenon, <1>3, <1>4, <1>5, <1>6, <1>7 DEF NextReply, PreferencesFit

\* Values are checked before the first is set, so set_preferences is not refused after
\* that.
LEMMA PreferencesPrudent ==
  ASSUME NEW p, NEW c, Ready(p, c), p.part = "preferences", Sensible("preferences", c.req), c.seen # <<>> => ~Ended(c.next)
  PROVE  Prudent(p, c)
<1> DEFINE r == c.req
           n == Len(c.seen)
           next == c.next
           reply == NextReply(p, c)
           more == MoreHeard(p, c)
           after == NextCall(p, c)
<1>1. n \in Nat /\ Len(more) = n + 1 /\ n + 1 \in Nat /\ n + 1 > 0
  <2>1. n \in Nat /\ Len(more) = n + 1
    BY Zenon, WhatReadyMeans
  <2>2. QED BY <2>1
<1>2. /\ r.tool \in {"get_preferences", "set_preferences"} /\ (r.tool = "set_preferences" => ListOf(r.values))
      /\ next = ItemAfter(PreferencePlan(r, c.seen), n) /\ after = ItemAfter(PreferencePlan(r, more), n + 1)
      /\ reply = PreferenceAnswer(p, next) /\ reply.pt.part = "preferences"
  BY Zenon, PreferencesReady
<1>3. Learnt(reply.pt, r, more) /\ Altered(reply.pt, r, more)
  BY Zenon, <1>1, <1>2 DEF Learnt, Altered
<1>4. n > 0 => c.seen # <<>>
  <2>1. Len(<<>>) = 0
    OBVIOUS
  <2> DEFINE seen == c.seen
  <2> HIDE DEF seen
  <2>2. Len(seen) > 0 => seen # <<>>
    BY <2>1
  <2>3. QED BY Zenon, <2>2 DEF seen
<1>5. Sensible("preferences", r)
  BY Zenon
<1> HIDE DEF r, n, next, reply, more, after
<1>6. \/ next = Idle.next /\ n > 0
      \/ next.op = "options" /\ next.need = {"ok", "yes", "no"}
      \/ next.op = "set" /\ WellSet(next) /\ next.need = {"ok", "yes", "no"}
  BY <1>1, <1>2, <1>5, PreferenceItems
<1>7. after.op # "refuse"
  <2>1. \/ after = Idle.next /\ n + 1 > 0
        \/ after.op = "options" /\ after.need = {"ok", "yes", "no"}
        \/ after.op = "set" /\ WellSet(after) /\ after.need = {"ok", "yes", "no"}
    BY <1>1, <1>2, <1>5, PreferenceItems
  <2>2. QED BY <2>1, LastItem
<1>8. CASE next = Idle.next /\ n > 0
  BY Zenon, <1>4, <1>8, LastItem DEF Ended, next
<1>9. ASSUME reply.is = "ok", next.need = {"ok", "yes", "no"}
      PROVE  Prudent(p, c)
  <2>1. reply.is \in next.need
    BY <1>9
  <2>2. QED BY Zenon, <1>3, <1>7, <2>1, OnlyGoingOn DEF r, reply, next, more, after
<1>10. CASE next.op = "options" /\ next.need = {"ok", "yes", "no"}
  <2>1. reply = Gives(p, p.values)
    BY Zenon, <1>2, <1>10 DEF PreferenceAnswer
  <2>2. Gives(p, p.values).is = "ok"
    BY Zenon DEF Gives, Replies
  <2>3. reply.is = "ok"
    BY <2>1, <2>2
  <2>4. QED BY Zenon, <1>9, <1>10, <2>3
<1>11. CASE next.op = "set" /\ WellSet(next) /\ next.need = {"ok", "yes", "no"}
  <2>1. reply.is = "ok"
    BY Zenon, <1>2, <1>11, SetterObeys
  <2>2. QED BY Zenon, <1>9, <1>11, <2>1
<1>12. QED BY Zenon, <1>6, <1>8, <1>10, <1>11

----------------------------------------------------------------------------
\* The activity.

\* What an unlocked activity answers, whatever state it is in.
StatusOps == {"getSavedFilename", "isActivityFile", "isPasswordConfirmed", "getInstructionCount",
              "getScores", "getTimes", "getTimerType"}

Serving(item) ==
  /\ {"ok", "yes"} \subseteq item.need
  /\ item.op \in StatusOps \cup {"runConnectivityTests", "getConnectivityCount",
                                 "getLastConnectivityTestResultAt", "resetActivity"}
  /\ item.op = "getLastConnectivityTestResultAt" => item.val \in 1..Tests

\* What it serves it answers, and it stays unlocked.
LEMMA Served ==
  ASSUME NEW p, ActivityFits(p), p.activity, p.unlocked, NEW item, Serving(item)
  PROVE  LET reply == ActivityAnswer(p, item) IN
         reply.is \in {"ok", "yes"} /\ reply.pt.activity /\ reply.pt.unlocked
<1> DEFINE reply == ActivityAnswer(p, item)
           ran == [p EXCEPT !.tested = TRUE]
           new == [p EXCEPT !.elapsed = FALSE, !.tested = FALSE]
<1>1. ran.activity /\ ran.unlocked /\ new.activity /\ new.unlocked
  BY DEF ActivityFits
<1> HIDE DEF ran, new
<1>2. CASE item.op \in {"isActivityFile", "isPasswordConfirmed"}
  <2>1. reply = Says(p, p.activity) \/ reply = Says(p, p.unlocked)
    BY Zenon, <1>2 DEF ActivityAnswer
  <2>2. reply.is = "yes" /\ reply.pt = p
    BY <2>1, SaysFields
  <2>3. QED BY <2>2
<1>3. ASSUME NEW q, reply = Obeys(q) \/ (\E data : reply = Gives(q, data)), q.activity, q.unlocked
      PROVE  reply.is \in {"ok", "yes"} /\ reply.pt.activity /\ reply.pt.unlocked
  <2>1. Obeys(q).is = "ok" /\ Obeys(q).pt = q /\ \A data : Gives(q, data).is = "ok" /\ Gives(q, data).pt = q
    BY Zenon DEF Obeys, Gives, Replies
  <2>2. reply.is = "ok" /\ reply.pt = q
    BY <1>3, <2>1
  <2>3. QED BY <1>3, <2>2
<1>4. CASE item.op \in {"getSavedFilename", "getInstructionCount", "getScores", "getTimes", "getTimerType",
                        "getConnectivityCount", "getLastConnectivityTestResultAt"}
  <2>1. item.op = "getLastConnectivityTestResultAt" => item.val \in 1..Tests
    BY Zenon DEF Serving
  <2>2. reply = Obeys(p) \/ (\E data : reply = Gives(p, data))
    BY Zenon, <1>4, <2>1 DEF ActivityAnswer, Guarded
  <2>3. QED BY Zenon, <1>3, <2>2
<1>5. CASE item.op = "runConnectivityTests"
  <2>1. reply = Obeys(ran)
    BY Zenon, <1>5 DEF ActivityAnswer, Guarded, ran
  <2>2. QED BY Zenon, <1>1, <1>3, <2>1
<1>6. CASE item.op = "resetActivity"
  <2>1. reply = Obeys(new)
    BY Zenon, <1>6 DEF ActivityAnswer, Guarded, new
  <2>2. QED BY Zenon, <1>1, <1>3, <2>1
<1>7. item.op \in {"isActivityFile", "isPasswordConfirmed"} \cup {"getSavedFilename", "getInstructionCount", "getScores", "getTimes", "getTimerType",
                        "getConnectivityCount", "getLastConnectivityTestResultAt"} \cup {"runConnectivityTests", "resetActivity"}
  BY DEF Serving, StatusOps
<1>8. QED BY <1>2, <1>4, <1>5, <1>6, <1>7

\* Calls that change nothing of the activity.
LEMMA ActivityLooks ==
  ASSUME NEW p, NEW c, c.op \notin {"setNetworkDescription", "confirmPassword", "runConnectivityTests", "resetActivity"}
  PROVE  ActivityAnswer(p, c).pt = p
BY ZenonT(60) DEF ActivityAnswer, Guarded, Says, Gives, Obeys, Missing, Unknown, Replies

\* Only the password unlocks or locks an activity.
LEMMA ActivityStays ==
  ASSUME NEW p, ActivityFits(p), NEW c, c.op # "confirmPassword"
  PROVE  ActivityAnswer(p, c).pt.activity = p.activity /\ ActivityAnswer(p, c).pt.unlocked = p.unlocked
<1> DEFINE q == ActivityAnswer(p, c).pt
<1>1. \/ q = p
      \/ q = [p EXCEPT !.description = c.val]
      \/ q = [p EXCEPT !.tested = TRUE]
      \/ q = [p EXCEPT !.elapsed = FALSE, !.tested = FALSE]
  BY ZenonT(60) DEF ActivityAnswer, Guarded, Says, Gives, Obeys, Missing, Unknown, Replies
<1> HIDE DEF q
<1>2. q.activity = p.activity /\ q.unlocked = p.unlocked
  BY <1>1 DEF ActivityFits
<1>3. QED BY Zenon, <1>2 DEF q

StatusItems ==
  {Ask("getSavedFilename", ""), Ask("isActivityFile", ""), Ask("isPasswordConfirmed", ""),
   Ask("getInstructionCount", ""), Ask("getScores", ""), Ask("getTimes", ""), Ask("getTimerType", "")}

\* The status is asked for by questions.
LEMMA StatusAsks == \A item \in StatusItems : item.op \in StatusOps /\ item.need = {"ok", "yes", "no"}
<1>1. ASSUME NEW op \in StatusOps
      PROVE  Ask(op, "").op = op /\ Ask(op, "").need = {"ok", "yes", "no"}
  BY Zenon DEF Ask, Tell, Item
<1> DEFINE item(op) == Ask(op, "")
<1>2. \A x \in StatusItems : \E op \in StatusOps : x = item(op)
  BY Zenon DEF StatusItems, StatusOps
<1>3. \A op \in StatusOps : item(op).op = op /\ item(op).need = {"ok", "yes", "no"}
  BY Zenon, <1>1
<1> HIDE DEF item
<1>4. QED BY <1>2, <1>3

\* The status is a list of them.
LEMMA StatusPlan ==
  ASSUME NEW seen
  PROVE  status(seen) \in Seq(StatusItems)
<1> DEFINE a == Ask("getSavedFilename", "")
           b == Ask("isActivityFile", "")
           c == Ask("isPasswordConfirmed", "")
           d == Ask("getInstructionCount", "")
           e == Ask("getScores", "")
           f == Ask("getTimes", "")
           g == Ask("getTimerType", "")
           first == <<a, b>>
           got == SubSeq(seen, 1, Len(first))
           more == SubSeq(seen, Len(first) + 1, Len(seen))
           second == <<c>>
           confirmed == SubSeq(more, 1, Len(second))
           last == IF confirmed[1].is = "no" THEN <<d>> ELSE <<e, f, g>>
           then == IF Len(more) < Len(second) THEN second ELSE second \o last
           rest == IF got[2].is = "no" THEN <<>> ELSE then
<1>1. {a, b, c, d, e, f, g} \subseteq StatusItems
  BY Zenon DEF StatusItems
<1>2. status(seen) = IF Len(seen) < Len(first) THEN first ELSE first \o rest
  BY Zenon DEF status, Then
<1> HIDE DEF a, b, c, d, e, f, g
<1>3. first \in Seq(StatusItems) /\ second \in Seq(StatusItems) /\ <<d>> \in Seq(StatusItems)
      /\ <<e, f, g>> \in Seq(StatusItems) /\ <<>> \in Seq(StatusItems)
  BY <1>1
<1> HIDE DEF first, second, got, more, confirmed
<1>4. last \in Seq(StatusItems)
  BY Zenon, <1>3
<1> HIDE DEF last
<1>5. second \o last \in Seq(StatusItems)
  BY <1>3, <1>4
<1>6. then \in Seq(StatusItems)
  BY Zenon, <1>3, <1>5
<1> HIDE DEF then
<1>7. rest \in Seq(StatusItems)
  BY Zenon, <1>3, <1>6
<1> HIDE DEF rest
<1>8. first \o rest \in Seq(StatusItems)
  BY <1>3, <1>7
<1>9. QED BY Zenon, <1>2, <1>3, <1>8

\* The tools that look, and the one that describes the network.
LEMMA LookingItems ==
  ASSUME NEW r, r.tool \in {"activity_status", "activity_instructions"}, NEW seen, NEW n \in Nat
  PROVE  ItemAfter(ActivityPlan(r, seen), n).op \in
           StatusOps \cup {"getInstruction", "refuse", "done"}
<1> DEFINE plan == ActivityPlan(r, seen)
           ops == StatusOps \cup {"getInstruction", "refuse", "done"}
           S == StatusItems \cup {Must("isActivityFile", "", <<>>), Refuse, Tell("getInstruction", "", r.page)}
<1>1. \A item \in S : item.op \in ops
  <2>1. /\ Must("isActivityFile", "", <<>>).op = "isActivityFile" /\ Refuse.op = "refuse"
        /\ Tell("getInstruction", "", r.page).op = "getInstruction"
    BY Zenon DEF Must, Refuse, Tell, Item
  <2>2. QED BY Zenon, <2>1, StatusAsks DEF StatusOps
<1>2. plan \in Seq(S)
  <2>1. CASE r.tool = "activity_status"
    <3>1. plan \in Seq(StatusItems)
      BY Zenon, <2>1, StatusPlan DEF ActivityPlan
    <3>2. StatusItems \subseteq S
      BY Zenon
    <3> HIDE DEF S, plan
    <3>3. QED BY <3>1, <3>2
  <2>2. CASE r.tool = "activity_instructions"
    <3> DEFINE a == Must("isActivityFile", "", <<>>)
               b == Ask("getInstructionCount", "")
               d == Tell("getInstruction", "", r.page)
               first == <<a>> \o <<b>>
               got == SubSeq(seen, 1, Len(first))
               page == Check(r.page \in 1..got[2].data)
               rest == page \o <<d>>
    <3>1. plan = IF Len(seen) < Len(first) THEN first ELSE first \o rest
      BY Zenon, <2>2 DEF ActivityPlan, instructions, require_activity, Then
    <3>2. {a, b, d, Refuse} \subseteq S
      BY Zenon DEF StatusItems
    <3> HIDE DEF a, b, d, S, plan, got
    <3>3. page = <<>> \/ page = <<Refuse>>
      BY Zenon DEF Check, When
    <3> HIDE DEF page
    <3>4. first \in Seq(S)
      BY <3>2
    <3>5. page \in Seq(S) /\ <<d>> \in Seq(S)
      <4>1. <<>> \in Seq(S) /\ <<Refuse>> \in Seq(S) /\ <<d>> \in Seq(S)
        BY <3>2
      <4>2. QED BY Zenon, <3>3, <4>1
    <3>6. rest \in Seq(S)
      BY <3>5
    <3> HIDE DEF first, rest
    <3>7. first \o rest \in Seq(S)
      BY <3>4, <3>6
    <3>8. QED BY Zenon, <3>1, <3>4, <3>7
  <2>3. QED BY Zenon, <2>1, <2>2
<1> HIDE DEF S, plan
<1>3. ItemAfter(plan, n) \in S \/ ItemAfter(plan, n) = Idle.next
  BY Zenon, <1>2, ItemAmong
<1>4. Idle.next.op \in ops
  BY LastItem
<1>5. QED BY Zenon, <1>1, <1>3, <1>4 DEF plan

\* The calls of network_description, which needs no activity.
LEMMA DescriptionItems ==
  ASSUME NEW r, r.tool = "network_description", NEW seen, NEW n \in Nat,
         NEW item, item = ItemAfter(ActivityPlan(r, seen), n)
  PROVE  \/ item = Idle.next /\ n > 0
         \/ item.op \in {"setNetworkDescription", "getNetworkDescription"} /\ item.need = {"ok", "yes", "no"}
<1> DEFINE a == Tell("setNetworkDescription", "", r.text)
           b == Ask("getNetworkDescription", "")
           plan == ActivityPlan(r, seen)
<1>1. /\ a.op = "setNetworkDescription" /\ a.need = {"ok", "yes", "no"}
      /\ b.op = "getNetworkDescription" /\ b.need = {"ok", "yes", "no"}
  BY Zenon DEF Tell, Ask, Item
<1>2. plan = <<a>> \o <<b>> \/ plan = <<>> \o <<b>>
  BY Zenon DEF ActivityPlan, description, When
<1> HIDE DEF a, b, plan
<1>3. plan = <<a, b>> \/ plan = <<b>>
  <2>1. <<a>> \o <<b>> = <<a, b>>
    BY Zenon, TwoJoined
  <2>2. <<>> \o <<b>> = <<b>>
    <3> DEFINE last == <<b>>
    <3>1. IsSeq(last)
      BY OneItem
    <3> HIDE DEF last
    <3>2. <<>> \o last = last
      BY Zenon, <3>1, JoinNone
    <3>3. QED BY <3>2 DEF last
  <2>3. QED BY Zenon, <1>2, <2>1, <2>2
<1>4. item = ItemAfter(plan, n)
  BY DEF plan
<1>5. CASE plan = <<a, b>>
  <2>1. ItemAfter(plan, 0) = a /\ ItemAfter(plan, 1) = b /\ \A k \in Nat : k > 1 => ItemAfter(plan, k) = Idle.next
    BY <1>5, TwoItems
  <2>2. QED BY <1>1, <1>4, <2>1
<1>6. CASE plan = <<b>>
  <2>1. ItemAfter(plan, 0) = b /\ \A k \in Nat : k > 0 => ItemAfter(plan, k) = Idle.next
    BY <1>6, OneItem
  <2>2. QED BY <1>1, <1>4, <2>1
<1>7. QED BY Zenon, <1>3, <1>5, <1>6

\* Both tools that need the activity unlocked look first.
LEMMA ServingItems ==
  ASSUME NEW val
  PROVE  /\ Serving(Must("isActivityFile", "", <<>>)) /\ Serving(Must("isPasswordConfirmed", "", <<>>))
         /\ Serving(Tell("runConnectivityTests", "", <<>>)) /\ Serving(Tell("resetActivity", "", <<>>))
         /\ Serving(Ask("getConnectivityCount", ""))
         /\ val \in 1..Tests => Serving(Tell("getLastConnectivityTestResultAt", "", val))
         /\ \A item \in StatusItems : Serving(item)
<1>1. Serving(Must("isActivityFile", "", <<>>)) /\ Serving(Must("isPasswordConfirmed", "", <<>>))
  BY Zenon DEF Serving, StatusOps, Must, Item
<1>2. Serving(Tell("runConnectivityTests", "", <<>>)) /\ Serving(Tell("resetActivity", "", <<>>))
  BY Zenon DEF Serving, StatusOps, Tell, Item
<1>3. Serving(Ask("getConnectivityCount", ""))
  BY Zenon DEF Serving, StatusOps, Ask, Tell, Item
<1>4. val \in 1..Tests => Serving(Tell("getLastConnectivityTestResultAt", "", val))
  BY Zenon DEF Serving, StatusOps, Tell, Item
<1>5. \A item \in StatusItems : Serving(item)
  <2>1. ASSUME NEW item, item.op \in StatusOps, item.need = {"ok", "yes", "no"}
        PROVE  Serving(item)
    BY <2>1 DEF Serving, StatusOps
  <2>2. QED BY Zenon, <2>1, StatusAsks
<1>6. QED BY Zenon, <1>1, <1>2, <1>3, <1>4, <1>5

ServingNow ==
  {Must("isActivityFile", "", <<>>), Must("isPasswordConfirmed", "", <<>>),
   Tell("runConnectivityTests", "", <<>>), Tell("resetActivity", "", <<>>), Ask("getConnectivityCount", "")}
  \cup {Tell("getLastConnectivityTestResultAt", "", k) : k \in 1..Tests} \cup StatusItems

\* What the two tools ask once the activity is unlocked, it serves.
LEMMA AllServing == StatusItems \subseteq ServingNow /\ \A item \in ServingNow : Serving(item)
<1>1. StatusItems \subseteq ServingNow
  BY Zenon DEF ServingNow
<1>2. QED BY Zenon, <1>1, ServingItems DEF ServingNow

\* What require_unlocked asks.
Unlocking(item, n) ==
  /\ n = 0 => item.op = "isActivityFile"
  /\ n = 1 => item.op = "isPasswordConfirmed"
  /\ n < 2 => item.need = {"ok", "yes"}

\* A plan that starts so asks whether the file is an activity, then whether it is
\* unlocked.
LEMMA FirstUnlocking ==
  ASSUME NEW s \in Seq(ServingNow)
  PROVE  /\ require_unlocked \o s \in Seq(ServingNow) /\ Len(require_unlocked \o s) = 2 + Len(s)
         /\ Unlocking(ItemAfter(require_unlocked \o s, 0), 0) /\ Unlocking(ItemAfter(require_unlocked \o s, 1), 1)
         /\ ItemAfter(require_unlocked \o s, 3) = ItemAfter(s, 1)
<1> DEFINE a == Must("isActivityFile", "", <<>>)
           b == Must("isPasswordConfirmed", "", <<>>)
           two == <<a, b>>
           first == two \o s
<1>1. /\ a.op = "isActivityFile" /\ a.need = {"ok", "yes"} /\ b.op = "isPasswordConfirmed" /\ b.need = {"ok", "yes"}
      /\ {a, b} \subseteq ServingNow
  <2>1. {a, b} \subseteq ServingNow
    BY Zenon DEF ServingNow
  <2>2. QED BY Zenon, <2>1 DEF Must, Item
<1>2. require_unlocked = two
  BY Zenon, TwoJoined DEF require_unlocked, require_activity
<1> HIDE DEF a, b
<1>3. two \in Seq(ServingNow)
  BY <1>1
<1>4. IsSeq(two) /\ Len(two) = 2 /\ ItemAfter(two, 0) = a /\ ItemAfter(two, 1) = b
  BY TwoItems
<1>5. IsSeq(s)
  BY DEF IsSeq
<1> HIDE DEF two
<1>6. first \in Seq(ServingNow) /\ Len(first) = 2 + Len(s)
  <2>1. first \in Seq(ServingNow)
    BY <1>3
  <2>2. Len(two \o s) = Len(two) + Len(s)
    <3>1. 0 \in Nat
      OBVIOUS
    <3>2. QED BY Zenon, <1>4, <1>5, <3>1, ItemOfJoin
  <2>3. QED BY <1>4, <2>1, <2>2
<1>7. ItemAfter(first, 0) = a /\ ItemAfter(first, 1) = b
  <2>1. 0 \in Nat /\ 1 \in Nat /\ 0 < Len(two) /\ 1 < Len(two)
    BY <1>4
  <2>2. IsSeq(two)
    BY Zenon, <1>4
  <2>3. ItemAfter(two \o s, 0) = ItemAfter(two, 0)
    BY ZenonT(60), <1>5, <2>1, <2>2, ItemOfJoin
  <2>4. ItemAfter(two \o s, 1) = ItemAfter(two, 1)
    BY ZenonT(60), <1>5, <2>1, <2>2, ItemOfJoin
  <2>5. QED BY Zenon, <1>4, <2>3, <2>4
<1>8. ItemAfter(first, 3) = ItemAfter(s, 1)
  <2>1. 3 \in Nat /\ ~(3 < Len(two)) /\ 3 - Len(two) = 1
    BY <1>4
  <2>2. ItemAfter(two \o s, 3) = ItemAfter(s, 3 - Len(two))
    BY Zenon, <1>4, <1>5, <2>1, ItemPastJoin
  <2>3. QED BY Zenon, <2>1, <2>2
<1>9. Unlocking(a, 0) /\ Unlocking(b, 1)
  BY <1>1 DEF Unlocking
<1> HIDE DEF first
<1>10. QED BY Zenon, <1>2, <1>6, <1>7, <1>8, <1>9 DEF first

Counting(item) == item.op = "getConnectivityCount" /\ item.need = {"ok", "yes", "no"} /\ ~item.soft

\* The calls of check_activity.
LEMMA CheckingItems ==
  ASSUME NEW r, r.tool = "check_activity", NEW seen, IsSeq(seen), Len(seen) > 3 => seen[4].data \in 0..Tests,
         NEW n \in Nat, n = Len(seen), NEW item, item = ItemAfter(ActivityPlan(r, seen), n)
  PROVE  /\ Serving(item) \/ (item = Idle.next /\ n > 1)
         /\ Unlocking(item, n)
         /\ n = 3 => Counting(item)
<1> DEFINE c == Tell("runConnectivityTests", "", <<>>)
           d == Ask("getConnectivityCount", "")
           s == <<c, d>>
           first == require_unlocked \o s
           got == SubSeq(seen, 1, Len(first))
           more == SubSeq(seen, Len(first) + 1, Len(seen))
           line(k) == Tell("getLastConnectivityTestResultAt", "", k)
           m == got[4].data
           lines == [k \in 1..m |-> line(k)]
           last == status(SubSeq(more, Len(lines) + 1, Len(more)))
           rest == IF Len(more) < Len(lines) THEN lines ELSE lines \o last
           plan == ActivityPlan(r, seen)
<1>1. plan = IF n < Len(first) THEN first ELSE first \o rest
  <2>1. check_activity(r, seen) = IF Len(seen) < Len(first) THEN first ELSE first \o rest
    BY Zenon DEF check_activity, Then
  <2>2. QED BY Zenon, <2>1 DEF ActivityPlan
<1>2. {c, d} \subseteq ServingNow /\ Counting(d)
  <2>1. {c, d} \subseteq ServingNow
    BY Zenon DEF ServingNow
  <2>2. QED BY Zenon, <2>1 DEF Ask, Tell, Item, Counting
<1>3. \A k \in 1..Tests : line(k) \in ServingNow
  BY Zenon DEF ServingNow
<1>4. last \in Seq(StatusItems)
  BY Zenon, StatusPlan
<1> HIDE DEF c, d, line
<1>5. /\ first \in Seq(ServingNow) /\ Len(first) = 4 /\ ItemAfter(first, 3) = d
      /\ Unlocking(ItemAfter(first, 0), 0) /\ Unlocking(ItemAfter(first, 1), 1)
  <2>1. s \in Seq(ServingNow) /\ Len(s) = 2
    BY <1>2
  <2>2. ItemAfter(s, 1) = d
    BY TwoItems
  <2> HIDE DEF s
  <2>3. /\ first \in Seq(ServingNow) /\ Len(first) = 2 + Len(s) /\ ItemAfter(first, 3) = ItemAfter(s, 1)
        /\ Unlocking(ItemAfter(first, 0), 0) /\ Unlocking(ItemAfter(first, 1), 1)
    BY Zenon, <2>1, FirstUnlocking
  <2> HIDE DEF first
  <2>4. QED BY <2>1, <2>2, <2>3
<1> HIDE DEF first, last
<1>6. ASSUME n > 3
      PROVE  rest \in Seq(ServingNow)
  <2>1. m \in 0..Tests
    <3>1. Len(first) \in Nat /\ Len(first) <= Len(seen) /\ 4 \in 1..Len(first)
      BY <1>5, <1>6
    <3>2. got[4] = seen[4]
      BY Zenon, <3>1, FirstAnswers
    <3>3. QED BY <1>6, <3>2
  <2> HIDE DEF m, more
  <2>2. \A k \in 1..m : line(k) \in ServingNow
    BY <1>3, <2>1, TestsAssumption
  <2>3. m \in Nat
    BY <2>1, TestsAssumption
  <2>4. lines \in [1..m -> ServingNow]
    <3> DEFINE D == 1..m
    <3> HIDE DEF D
    <3>1. [k \in D |-> line(k)] \in [D -> ServingNow]
      BY Zenon, <2>2 DEF D
    <3>2. QED BY Zenon, <3>1 DEF D
  <2> HIDE DEF lines
  <2>5. lines \in Seq(ServingNow)
    BY Zenon, <2>3, <2>4, AsSequence
  <2>6. last \in Seq(ServingNow)
    BY <1>4, AllServing
  <2>7. lines \o last \in Seq(ServingNow)
    BY <2>5, <2>6
  <2>8. QED BY Zenon, <2>5, <2>7
<1> HIDE DEF rest, plan
<1>7. plan \in Seq(ServingNow) /\ (plan = first \/ (plan = first \o rest /\ rest \in Seq(ServingNow)))
  <2>1. CASE n < 4
    BY <1>1, <1>5, <2>1
  <2>2. CASE ~(n < 4)
    <3>1. n > 3 /\ ~(n < Len(first))
      BY <1>5, <2>2
    <3>2. plan = first \o rest /\ rest \in Seq(ServingNow)
      BY Zenon, <1>1, <1>6, <3>1
    <3>3. QED BY <1>5, <3>2
  <2>3. QED BY Zenon, <2>1, <2>2
<1>8. item = ItemAfter(plan, n)
  BY DEF plan
<1>9. ASSUME n < 4
      PROVE  item = ItemAfter(first, n) /\ item \in ServingNow
  <2>1. n < Len(first) /\ ItemAfter(first, n) = first[n + 1] /\ first[n + 1] \in ServingNow
    <3>1. n < Len(first) /\ n + 1 \in 1..Len(first)
      <4>1. Len(first) = 4
        BY Zenon, <1>5
      <4>2. QED BY <1>9, <4>1
    <3>2. first \in Seq(ServingNow)
      BY Zenon, <1>5
    <3>3. first[n + 1] \in ServingNow
      BY <3>1, <3>2
    <3>4. QED BY Zenon, <3>1, <3>3 DEF ItemAfter
  <2>2. plan = first
    BY Zenon, <1>1, <2>1
  <2>3. QED BY Zenon, <1>8, <2>1, <2>2
<1>10. Serving(item) \/ (item = Idle.next /\ n > 1)
  <2>1. item \in ServingNow \/ item = Idle.next
    BY Zenon, <1>7, <1>8, ItemAmong
  <2>2. n < 4 \/ n > 1
    OBVIOUS
  <2>3. QED BY Zenon, <1>9, <2>1, <2>2, AllServing
<1>11. Unlocking(item, n)
  <2>1. CASE n = 0 \/ n = 1
    <3>1. n < 4
      BY <2>1
    <3>2. item = ItemAfter(first, n)
      BY Zenon, <1>9, <3>1
    <3>3. QED BY <1>5, <2>1, <3>2
  <2>2. CASE ~(n = 0 \/ n = 1)
    <3>1. ~(n < 2) /\ n # 0 /\ n # 1
      BY <2>2
    <3>2. QED BY Zenon, <3>1 DEF Unlocking
  <2>3. QED BY Zenon, <2>1, <2>2
<1>12. n = 3 => item = d
  BY <1>5, <1>9
<1>13. QED BY <1>2, <1>10, <1>11, <1>12

\* The calls of reset_activity.
LEMMA ResettingItems ==
  ASSUME NEW r, r.tool = "reset_activity", NEW seen, IsSeq(seen),
         NEW n \in Nat, n = Len(seen), NEW item, item = ItemAfter(ActivityPlan(r, seen), n)
  PROVE  (Serving(item) \/ (item = Idle.next /\ n > 1)) /\ Unlocking(item, n)
<1> DEFINE c == Tell("resetActivity", "", <<>>)
           s == <<c>>
           first == require_unlocked \o s
           more == SubSeq(seen, Len(first) + 1, Len(seen))
           rest == status(more)
           plan == ActivityPlan(r, seen)
<1>1. plan = IF n < Len(first) THEN first ELSE first \o rest
  <2>1. reset(r, seen) = IF Len(seen) < Len(first) THEN first ELSE first \o rest
    BY Zenon DEF reset, Then
  <2>2. QED BY Zenon, <2>1 DEF ActivityPlan
<1>2. {c} \subseteq ServingNow
  BY Zenon DEF ServingNow
<1>3. rest \in Seq(StatusItems)
  BY Zenon, StatusPlan
<1> HIDE DEF c, rest
<1>4. /\ first \in Seq(ServingNow) /\ Len(first) = 3
      /\ Unlocking(ItemAfter(first, 0), 0) /\ Unlocking(ItemAfter(first, 1), 1)
  <2>1. s \in Seq(ServingNow) /\ Len(s) = 1
    BY <1>2
  <2> HIDE DEF s
  <2>2. /\ first \in Seq(ServingNow) /\ Len(first) = 2 + Len(s)
        /\ Unlocking(ItemAfter(first, 0), 0) /\ Unlocking(ItemAfter(first, 1), 1)
    BY Zenon, <2>1, FirstUnlocking
  <2> HIDE DEF first
  <2>3. QED BY <2>1, <2>2
<1> HIDE DEF first, plan
<1>5. rest \in Seq(ServingNow)
  BY <1>3, AllServing
<1>6. plan \in Seq(ServingNow)
  <2>1. first \o rest \in Seq(ServingNow)
    BY <1>4, <1>5
  <2>2. QED BY Zenon, <1>1, <1>4, <2>1
<1>7. item = ItemAfter(plan, n)
  BY DEF plan
<1>8. ASSUME n < 3
      PROVE  item = ItemAfter(first, n) /\ item \in ServingNow
  <2>1. n < Len(first) /\ ItemAfter(first, n) = first[n + 1] /\ first[n + 1] \in ServingNow
    <3>1. n < Len(first) /\ n + 1 \in 1..Len(first)
      <4>1. Len(first) = 3
        BY Zenon, <1>4
      <4>2. QED BY <1>8, <4>1
    <3>2. first \in Seq(ServingNow)
      BY Zenon, <1>4
    <3>3. first[n + 1] \in ServingNow
      BY <3>1, <3>2
    <3>4. QED BY Zenon, <3>1, <3>3 DEF ItemAfter
  <2>2. plan = first
    BY Zenon, <1>1, <2>1
  <2>3. QED BY Zenon, <1>7, <2>1, <2>2
<1>9. Serving(item) \/ (item = Idle.next /\ n > 1)
  <2>1. item \in ServingNow \/ item = Idle.next
    BY Zenon, <1>6, <1>7, ItemAmong
  <2>2. n < 3 \/ n > 1
    OBVIOUS
  <2>3. QED BY Zenon, <1>8, <2>1, <2>2, AllServing
<1>10. Unlocking(item, n)
  <2>1. CASE n = 0 \/ n = 1
    <3>1. n < 3
      BY SMTT(60), <2>1
    <3>2. item = ItemAfter(first, n)
      BY Zenon, <1>8, <3>1
    <3>3. QED BY <1>4, <2>1, <3>2
  <2>2. CASE ~(n = 0 \/ n = 1)
    <3>1. ~(n < 2) /\ n # 0 /\ n # 1
      BY <2>2
    <3>2. QED BY Zenon, <3>1 DEF Unlocking
  <2>3. QED BY Zenon, <2>1, <2>2
<1>11. QED BY Zenon, <1>9, <1>10

\* What a ready call about the activity is.
LEMMA ActivityReady ==
  ASSUME NEW p, NEW c, Ready(p, c), p.part = "activity"
  PROVE  /\ ActivityFits(p)
         /\ c.req.tool \in {"activity_status", "activity_instructions", "unlock_activity", "check_activity",
                            "reset_activity", "network_description"}
         /\ c.next = ItemAfter(ActivityPlan(c.req, c.seen), Len(c.seen))
         /\ NextReply(p, c) = ActivityAnswer(p, c.next) /\ Answer(p, c.next) = ActivityAnswer(p, c.next)
         /\ ActivityFits(NextReply(p, c).pt) /\ NextReply(p, c).pt.part = "activity"
         /\ NextCall(p, c) = ItemAfter(ActivityPlan(c.req, MoreHeard(p, c)), Len(c.seen) + 1)
         /\ c.req.tool = "check_activity" /\ Len(c.seen) > 3 => c.seen[4].data \in 0..Tests
<1>1. ActivityFits(p)
  BY DEF Ready, PartFits, LinksFit, HostsFit, PreferencesFit, ActivityFits
<1>2. \A r, seen : PlanIn(p.part, r, seen) = ActivityPlan(r, seen)
  BY Zenon DEF PlanIn
<1>3. Answer(p, c.next) = ActivityAnswer(p, c.next)
  BY Zenon DEF Answer
<1>4. ActivityFits(ActivityAnswer(p, c.next).pt)
  BY Zenon, <1>1, ActivityAnswers
<1>5. c.req.tool \in {"activity_status", "activity_instructions", "unlock_activity", "check_activity",
                      "reset_activity", "network_description"}
  <2>1. c.req \in Asks["activity"] /\ "activity" \in DOMAIN Asks
    BY WhatReadyMeans
  <2>2. QED BY Zenon, <2>1, AsksAssumption
<1>6. c.next = ItemAfter(ActivityPlan(c.req, c.seen), Len(c.seen)) /\ Len(MoreHeard(p, c)) = Len(c.seen) + 1
  <2>1. /\ c.next = ItemAfter(PlanIn(p.part, c.req, c.seen), Len(c.seen))
        /\ Len(MoreHeard(p, c)) = Len(c.seen) + 1
    BY Zenon, WhatReadyMeans
  <2>2. QED BY Zenon, <1>2, <2>1
<1>7. NextCall(p, c) = ItemAfter(ActivityPlan(c.req, MoreHeard(p, c)), Len(c.seen) + 1)
  BY Zenon, <1>2, <1>6 DEF NextCall
<1>8. c.req.tool = "check_activity" /\ Len(c.seen) > 3 => c.seen[4].data \in 0..Tests
  BY Zenon DEF Ready, Counted
<1>9. QED BY Zenon, <1>1, <1>3, <1>4, <1>5, <1>6, <1>7, <1>8 DEF NextReply, ActivityFits

\* What a call counts on.
LEMMA ActivityLearnt ==
  ASSUME NEW p, p.part = "activity", NEW r, NEW seen
  PROVE  /\ Altered(p, r, seen) <=> \/ r.tool = "network_description" /\ Len(seen) > 0
                                    \/ r.tool \in {"check_activity", "reset_activity"} /\ Len(seen) > 2
         /\ Learnt(p, r, seen) <=>
              (r.tool \in {"check_activity", "reset_activity"} =>
                 (Len(seen) > 0 => p.activity) /\ (Len(seen) > 1 => p.unlocked))
BY Zenon DEF Altered, Learnt

\* The number of tests is asked for by a call that must be answered.
LEMMA CountAsked ==
  ASSUME NEW p, NEW c, Ready(p, c), p.part = "activity", c.req.tool = "check_activity", Len(c.seen) = 3
  PROVE  c.next.op = "getConnectivityCount" /\ c.next.need = {"ok", "yes", "no"} /\ ~c.next.soft
<1> DEFINE n == Len(c.seen)
           next == c.next
           r == c.req
           seen == c.seen
<1>1. n \in Nat /\ IsSeq(seen) /\ n = Len(seen)
  BY Zenon, WhatReadyMeans
<1>2. next = ItemAfter(ActivityPlan(r, seen), n) /\ r.tool = "check_activity" /\ n = 3
  BY Zenon, ActivityReady
<1> HIDE DEF n, next, r, seen
<1>3. Counting(next)
  <2>1. ~(Len(seen) > 3)
    BY <1>1, <1>2
  <2>2. QED BY <1>1, <1>2, <2>1, CheckingItems
<1>4. QED BY Zenon, <1>3 DEF next, Counting

\* So check_activity has a number of tests to go by.
LEMMA ActivityCounted ==
  ASSUME NEW p, NEW c, Ready(p, c), p.part = "activity", NEW reply,
         c.next.soft \/ (reply = Told(Answer(p, c.next)) /\ Answer(p, c.next).is \in c.next.need),
         NEW more, more = Append(c.seen, reply)
  PROVE  c.req.tool = "check_activity" /\ Len(more) > 3 => more[4].data \in 0..Tests
<1> SUFFICES ASSUME c.req.tool = "check_activity", Len(more) > 3 PROVE more[4].data \in 0..Tests
  OBVIOUS
<1> DEFINE n == Len(c.seen)
           next == c.next
           answer == ActivityAnswer(p, next)
           r == c.req
           seen == c.seen
<1>1. n \in Nat /\ IsSeq(seen) /\ n = Len(seen)
  BY Zenon, WhatReadyMeans
<1>2. /\ next = ItemAfter(ActivityPlan(r, seen), n) /\ Answer(p, next) = answer /\ r.tool = "check_activity"
      /\ n > 3 => seen[4].data \in 0..Tests
  BY Zenon, ActivityReady
<1>3. Len(more) = n + 1 /\ (\A k \in 1..n : more[k] = seen[k]) /\ more[n + 1] = reply
  BY ZenonT(60), <1>1, OneMoreAtEnd
<1>4. c.next.soft \/ (reply = Told(answer) /\ answer.is \in next.need)
  BY Zenon, <1>2
<1>5. ASSUME NEW item, item.op = "getConnectivityCount"
      PROVE  ActivityAnswer(p, item).is = "missing" \/ ActivityAnswer(p, item).data \in 0..Tests
  <2> DEFINE k == IF p.tested THEN Tests ELSE 0
  <2>1. ActivityAnswer(p, item) = Gives(p, k) \/ ActivityAnswer(p, item) = Missing(p)
    BY Zenon, <1>5 DEF ActivityAnswer, Guarded
  <2>2. k \in 0..Tests
    BY TestsAssumption
  <2> HIDE DEF k
  <2>3. Gives(p, k).data = k /\ Missing(p).is = "missing"
    BY Zenon DEF Gives, Missing, Replies
  <2>4. QED BY <2>1, <2>2, <2>3
<1> HIDE DEF n, answer, r, seen
<1>6. CASE n > 3
  <2>1. 4 \in 1..n
    BY <1>1, <1>6
  <2>2. more[4] = seen[4]
    BY Zenon, <1>3, <2>1
  <2>3. QED BY Zenon, <1>2, <1>6, <2>2
<1>7. CASE n = 3
  <2>1. next.op = "getConnectivityCount" /\ next.need = {"ok", "yes", "no"} /\ ~next.soft
    BY Zenon, <1>2, <1>7, CountAsked DEF n, r
  <2>2. reply = Told(answer) /\ answer.is \in next.need
    BY Zenon, <1>4, <2>1
  <2>3. answer.is # "missing"
    BY <2>1, <2>2
  <2>4. answer.data \in 0..Tests
    BY Zenon, <1>5, <2>1, <2>3 DEF answer
  <2>5. reply.data = answer.data
    <3>1. Told(answer).data = answer.data
      BY Zenon, ToldFields
    <3>2. QED BY <2>2, <3>1
  <2>6. more[4] = reply
    BY <1>3, <1>7
  <2>7. QED BY Zenon, <2>4, <2>5, <2>6
<1>8. n > 3 \/ n = 3
  BY <1>1, <1>3
<1>9. QED BY Zenon, <1>6, <1>7, <1>8

\* The two tools that change the activity are refused at their look at it, before they do.
LEMMA ActivityPrudent ==
  ASSUME NEW p, NEW c, Ready(p, c), p.part = "activity", Learnt(p, c.req, c.seen), c.req.tool # "unlock_activity",
         c.seen # <<>> => ~Ended(c.next)
  PROVE  Prudent(p, c)
<1> DEFINE r == c.req
           n == Len(c.seen)
           seen == c.seen
           next == c.next
           reply == NextReply(p, c)
           more == MoreHeard(p, c)
           after == NextCall(p, c)
<1>1. n \in Nat /\ n = Len(seen) /\ IsSeq(seen) /\ IsSeq(more) /\ Len(more) = n + 1 /\ n + 1 \in Nat
      /\ \A k \in 1..n : more[k] = seen[k]
  <2>1. n \in Nat /\ IsSeq(seen) /\ IsSeq(more) /\ Len(more) = n + 1 /\ \A k \in 1..n : more[k] = seen[k]
    BY Zenon, WhatReadyMeans
  <2>2. QED BY <2>1
<1>2. /\ ActivityFits(p)
      /\ r.tool \in {"activity_status", "activity_instructions", "unlock_activity", "check_activity",
                     "reset_activity", "network_description"}
      /\ next = ItemAfter(ActivityPlan(r, seen), n) /\ after = ItemAfter(ActivityPlan(r, more), n + 1)
      /\ reply = ActivityAnswer(p, next) /\ reply.pt.part = "activity"
  BY Zenon, ActivityReady
<1>3. r.tool = "check_activity" /\ Len(seen) > 3 => seen[4].data \in 0..Tests
  BY Zenon, ActivityReady
<1>4. r.tool = "check_activity" /\ Len(more) > 3 /\ reply.is \in next.need => more[4].data \in 0..Tests
  <2>1. reply = Answer(p, next) /\ more = Append(c.seen, Told(Answer(p, next)))
    BY Zenon DEF NextReply, MoreHeard
  <2>2. QED BY Zenon, <2>1, ActivityCounted
<1>5. Altered(p, r, seen) <=> \/ r.tool = "network_description" /\ n > 0
                              \/ r.tool \in {"check_activity", "reset_activity"} /\ n > 2
  BY Zenon, <1>2, ActivityLearnt DEF ActivityFits
<1>6. r.tool \in {"check_activity", "reset_activity"} => (n > 0 => p.activity) /\ (n > 1 => p.unlocked)
  BY Zenon, <1>2, ActivityLearnt DEF ActivityFits
<1>7. /\ Altered(reply.pt, r, more) <=> \/ r.tool = "network_description" /\ n + 1 > 0
                                        \/ r.tool \in {"check_activity", "reset_activity"} /\ n + 1 > 2
      /\ Learnt(reply.pt, r, more) <=>
           (r.tool \in {"check_activity", "reset_activity"} =>
              (n + 1 > 0 => reply.pt.activity) /\ (n + 1 > 1 => reply.pt.unlocked))
  BY ZenonT(60), <1>1, <1>2, ActivityLearnt
<1>8. n > 0 /\ next = Idle.next => FALSE
  <2>1. Len(<<>>) = 0 /\ Len(seen) = n
    OBVIOUS
  <2> HIDE DEF seen, n
  <2>2. n > 0 => seen # <<>>
    BY <2>1
  <2>3. Ended(Idle.next)
    BY Zenon, LastItem DEF Ended
  <2>4. QED BY Zenon, <2>2, <2>3 DEF seen
<1>9. r.tool # "unlock_activity"
  BY Zenon
<1> HIDE DEF r, n, seen, next, reply, more, after
<1>10. CASE r.tool \in {"activity_status", "activity_instructions"}
  <2>1. next.op \in StatusOps \cup {"getInstruction", "refuse", "done"}
    BY <1>1, <1>2, <1>10, LookingItems
  <2>2. next.op \notin {"setNetworkDescription", "confirmPassword", "runConnectivityTests", "resetActivity"}
    BY <2>1 DEF StatusOps
  <2>3. reply.pt = p
    BY Zenon, <1>2, <2>2, ActivityLooks
  <2>4. r.tool \notin {"network_description", "check_activity", "reset_activity"}
    BY <1>10
  <2>5. ~Altered(p, r, seen) /\ Learnt(p, r, more)
    BY Zenon, <1>5, <1>7, <2>3, <2>4
  <2>6. QED BY Zenon, <2>3, <2>5, OnlyLooking DEF r, seen, reply, more
<1>11. CASE r.tool = "network_description"
  <2>1. \/ next = Idle.next /\ n > 0
        \/ next.op \in {"setNetworkDescription", "getNetworkDescription"} /\ next.need = {"ok", "yes", "no"}
    BY <1>1, <1>2, <1>11, DescriptionItems
  <2>2. next.op \in {"setNetworkDescription", "getNetworkDescription"} /\ next.need = {"ok", "yes", "no"}
    BY Zenon, <1>8, <2>1
  <2>3. \/ after = Idle.next /\ n + 1 > 0
        \/ after.op \in {"setNetworkDescription", "getNetworkDescription"} /\ after.need = {"ok", "yes", "no"}
    BY <1>1, <1>2, <1>11, DescriptionItems
  <2>4. after.op # "refuse"
    BY <2>3, LastItem
  <2>5. reply.is = "ok"
    <3>1. (\E q : reply = Obeys(q)) \/ (\E data : reply = Gives(p, data))
      BY Zenon, <1>2, <2>2 DEF ActivityAnswer
    <3>2. \A q, data : Obeys(q).is = "ok" /\ Gives(p, data).is = "ok"
      BY Zenon DEF Obeys, Gives, Replies
    <3>3. QED BY <3>1, <3>2
  <2>6. reply.is \in next.need
    BY <2>2, <2>5
  <2>7. n + 1 > 0 /\ r.tool \notin {"check_activity", "reset_activity"}
    BY <1>1, <1>11
  <2>8. Learnt(reply.pt, r, more) /\ Altered(reply.pt, r, more)
    BY Zenon, <1>7, <1>11, <2>7
  <2>9. QED BY Zenon, <2>4, <2>6, <2>8, OnlyGoingOn DEF r, seen, next, reply, more, after
<1>12. CASE r.tool \in {"check_activity", "reset_activity"}
  <2>1. (Serving(next) \/ (next = Idle.next /\ n > 1)) /\ Unlocking(next, n)
    <3>1. CASE r.tool = "check_activity"
      BY <1>1, <1>2, <1>3, <3>1, CheckingItems
    <3>2. CASE r.tool = "reset_activity"
      BY <1>1, <1>2, <3>2, ResettingItems
    <3>3. QED BY <1>12, <3>1, <3>2
  <2>2. Serving(next)
    <3>1. n > 1 => n > 0
      BY <1>1
    <3>2. QED BY Zenon, <1>8, <2>1, <3>1
  <2>3. reply.is \in next.need => after.op # "refuse"
    <3> SUFFICES ASSUME reply.is \in next.need PROVE after.op # "refuse"
      OBVIOUS
    <3>1. Serving(after) \/ after = Idle.next
      <4>1. CASE r.tool = "check_activity"
        <5>1. Len(more) > 3 => more[4].data \in 0..Tests
          BY Zenon, <1>4, <4>1
        <5>2. QED BY <1>1, <1>2, <4>1, <5>1, CheckingItems
      <4>2. CASE r.tool = "reset_activity"
        BY <1>1, <1>2, <4>2, ResettingItems
      <4>3. QED BY <1>12, <4>1, <4>2
    <3>2. QED BY <3>1, LastItem DEF Serving, StatusOps
  <2>4. CASE n = 0 \/ n = 1
    <3>1. next.op \in {"isActivityFile", "isPasswordConfirmed"} /\ next.need = {"ok", "yes"}
      BY <2>1, <2>4 DEF Unlocking
    <3>2. reply.pt = p
      BY Zenon, <1>2, <3>1, ActivityLooks
    <3>3. ~Altered(p, r, seen)
      <4>1. ~(n > 2) /\ r.tool # "network_description"
        BY <1>12, <2>4
      <4>2. QED BY Zenon, <1>5, <4>1
    <3>4. CASE reply.is \notin next.need
      BY Zenon, <3>2, <3>3, <3>4, NotAtAll DEF r, seen, reply, next
    <3>5. CASE reply.is \in next.need
      <4>1. (n + 1 > 0 => p.activity) /\ (n + 1 > 1 => p.unlocked)
        <5>1. CASE n = 0
          <6>1. next.op = "isActivityFile"
            BY <2>1, <5>1 DEF Unlocking
          <6>2. reply = Says(p, p.activity)
            BY Zenon, <1>2, <6>1 DEF ActivityAnswer
          <6>3. p.activity
            BY <3>1, <3>5, <6>2, SaysFields
          <6>4. ~(n + 1 > 1)
            BY <5>1
          <6>5. QED BY Zenon, <6>3, <6>4
        <5>2. CASE n = 1
          <6>1. next.op = "isPasswordConfirmed"
            BY <2>1, <5>2 DEF Unlocking
          <6>2. n > 0
            BY <5>2
          <6>3. p.activity
            BY Zenon, <1>6, <1>12, <6>2
          <6>4. reply = Says(p, p.unlocked)
            BY Zenon, <1>2, <6>1, <6>3 DEF ActivityAnswer
          <6>5. p.unlocked
            BY <3>1, <3>5, <6>4, SaysFields
          <6>6. QED BY Zenon, <6>3, <6>5
        <5>3. QED BY Zenon, <2>4, <5>1, <5>2
      <4>2. Learnt(reply.pt, r, more)
        BY Zenon, <1>7, <3>2, <4>1
      <4>3. Learnt(p, r, more)
        BY Zenon, <3>2, <4>2
      <4>4. QED BY Zenon, <3>2, <3>3, <4>3, OnlyLooking DEF r, seen, reply, more
    <3>6. QED BY Zenon, <3>4, <3>5
  <2>5. CASE ~(n = 0 \/ n = 1)
    <3>1. n > 1 /\ n > 0 /\ n + 1 > 2
      BY <1>1, <2>5
    <3>2. p.activity /\ p.unlocked
      BY Zenon, <1>6, <1>12, <3>1
    <3>3. reply.is \in {"ok", "yes"} /\ reply.pt.activity /\ reply.pt.unlocked
      BY Zenon, <1>2, <2>2, <3>2, Served
    <3>4. reply.is \in next.need
      BY <2>2, <3>3 DEF Serving
    <3>5. Learnt(reply.pt, r, more) /\ Altered(reply.pt, r, more)
      BY Zenon, <1>7, <1>12, <3>1, <3>3
    <3>6. QED BY Zenon, <2>3, <3>4, <3>5, OnlyGoingOn DEF r, seen, next, reply, more, after
  <2>6. QED BY Zenon, <2>4, <2>5
<1>13. QED BY <1>2, <1>9, <1>10, <1>11, <1>12

\* Only unlock_activity gives a password, and no other tool that is about the activity runs
\* beside it unnoticed.
LEMMA ActivityOthers ==
  ASSUME NEW p, NEW c, Ready(p, c), p.part = "activity", NEW r, r.tool \in {"check_activity", "reset_activity"},
         ActivityTopics(r) \cap ActivityTopics(c.req) = {}
  PROVE  LET q == NextReply(p, c).pt IN q.activity = p.activity /\ q.unlocked = p.unlocked
<1> DEFINE s == c.req
           next == c.next
<1>1. /\ ActivityFits(p) /\ NextReply(p, c) = ActivityAnswer(p, next)
      /\ s.tool \in {"activity_status", "activity_instructions", "unlock_activity", "check_activity",
                     "reset_activity", "network_description"}
      /\ next = ItemAfter(ActivityPlan(s, c.seen), Len(c.seen)) /\ Len(c.seen) \in Nat
  BY Zenon, ActivityReady, WhatReadyMeans
<1>2. s.tool \in {"activity_status", "activity_instructions", "network_description"}
  <2>1. ActivityTopics(r) = {"activity"}
    BY DEF ActivityTopics
  <2>2. s.tool \in {"unlock_activity", "check_activity", "reset_activity"} => ActivityTopics(s) = {"activity"}
    BY DEF ActivityTopics
  <2>3. QED BY <1>1, <2>1, <2>2
<1> HIDE DEF s, next
<1>3. next.op # "confirmPassword"
  <2>1. CASE s.tool \in {"activity_status", "activity_instructions"}
    <3>1. next.op \in StatusOps \cup {"getInstruction", "refuse", "done"}
      BY <1>1, <2>1, LookingItems
    <3>2. QED BY <3>1 DEF StatusOps
  <2>2. CASE s.tool = "network_description"
    <3>1. \/ next = Idle.next /\ Len(c.seen) > 0
          \/ next.op \in {"setNetworkDescription", "getNetworkDescription"} /\ next.need = {"ok", "yes", "no"}
      BY <1>1, <2>2, DescriptionItems
    <3>2. QED BY <3>1, LastItem
  <2>3. QED BY <1>2, <2>1, <2>2
<1> DEFINE q == ActivityAnswer(p, next).pt
<1>4. q.activity = p.activity /\ q.unlocked = p.unlocked
  BY Zenon, <1>1, <1>3, ActivityStays
<1>5. NextReply(p, c).pt = q
  BY Zenon, <1>1 DEF next
<1> HIDE DEF q
<1>6. QED BY <1>4, <1>5

----------------------------------------------------------------------------
\* Hosts.

\* A call that is not refused before it starts goes on to its end once the host has
\* been found.

\* Asking again and again is a sequence of one and the same call.
LEMMA PollsAsk ==
  ASSUME NEW a, NEW n \in Int, NEW m \in Nat, NEW Stopped, NEW plan, plan = [k \in Upto(n, m, Stopped) |-> a]
  PROVE  plan \in Seq({a})
<1> DEFINE U == Upto(n, m, Stopped)
<1>1. U \in SUBSET (1..n) /\ n \in Int
  BY DEF Upto
<1>2. ASSUME NEW k \in U, NEW j \in 1..k
      PROVE  j \in U
  <2>1. k \in 1..n /\ k <= m + 1 /\ \A o \in 1..(k - 1) : o \notin Stopped
    BY DEF Upto
  <2>2. j \in 1..n /\ j <= m + 1
    BY <2>1
  <2>3. \A o \in 1..(j - 1) : o \notin Stopped
    BY <2>1
  <2>4. QED BY <2>2, <2>3 DEF Upto
<1> HIDE DEF U
<1>3. PICK last \in Nat : U = 1..last
  BY <1>1, <1>2, NoGap
<1>4. plan = [k \in 1..last |-> a]
  BY Zenon, <1>3 DEF U
<1>5. plan \in [1..last -> {a}]
  BY <1>4
<1>6. QED BY Zenon, <1>5, AsSequence

\* Calls on a port that Packet Tracer obeys.
SettingOps == {"setDhcpClientFlag", "setDhcpFlag", "setIpSubnetMask", "setDefaultGateway", "setDnsServerIp",
               "getIpAddress", "setIpv6AddressAutoConfig", "removeAllIpv6Addresses", "setv6DefaultGateway",
               "setv6ServerIp", "getIpv6Addresses"}

Setting(item) == item.op \in SettingOps /\ item.need = {"ok", "yes", "no"}

\* Questions and calls to tell something are such calls.
LEMMA SettingItems ==
  ASSUME NEW op \in SettingOps, NEW at, NEW val
  PROVE  Setting(Ask(op, at)) /\ Setting(Tell(op, at, val))
BY Zenon DEF Setting, Ask, Tell, Item

\* What configure_host goes on with on the port.
Ipv4Items(r) ==
  {Tell("setDhcpClientFlag", r.dev, FALSE), Tell("setIpSubnetMask", r.dev, [ip |-> r.ip, mask |-> r.mask]),
   Tell("setDefaultGateway", r.dev, r.gateway), Tell("setDnsServerIp", r.dev, r.dns),
   Tell("setDhcpClientFlag", r.dev, TRUE), Tell("setDhcpFlag", r.dev, TRUE), Ask("getIpAddress", r.dev)}

\* What configure_host_ipv6 goes on with once IPv6 is switched.
Addressing(r) == Must("addIpv6Address", r.dev, r.address[1])

Ipv6Settings(r) ==
  {Tell("removeAllIpv6Addresses", r.dev, <<>>), Tell("setIpv6AddressAutoConfig", r.dev, TRUE),
   Tell("setIpv6AddressAutoConfig", r.dev, FALSE), Tell("setv6DefaultGateway", r.dev, r.gateway),
   Tell("setv6ServerIp", r.dev, r.dns), Ask("getIpv6Addresses", r.dev)}

Ipv6Items(r) == Ipv6Settings(r) \cup {item \in {Addressing(r)} : r.mode \notin {"off", "auto"}}

\* All that the two tools go on with are such calls.
LEMMA SettingAll ==
  ASSUME NEW r
  PROVE  /\ \A item \in Ipv4Items(r) : Setting(item)
         /\ \A item \in Ipv6Settings(r) : Setting(item)
<1>1. {"setDhcpClientFlag", "setDhcpFlag", "setIpSubnetMask", "setDefaultGateway", "setDnsServerIp",
       "getIpAddress", "setIpv6AddressAutoConfig", "removeAllIpv6Addresses", "setv6DefaultGateway",
       "setv6ServerIp", "getIpv6Addresses"} \subseteq SettingOps
  BY DEF SettingOps
<1>2. \A op \in SettingOps : \A at, val : Setting(Ask(op, at)) /\ Setting(Tell(op, at, val))
  BY Zenon, SettingItems
<1>3. \A item \in Ipv4Items(r) : Setting(item)
  BY ZenonT(60), <1>1, <1>2 DEF Ipv4Items
<1>4. \A item \in Ipv6Settings(r) : Setting(item)
  BY ZenonT(60), <1>1, <1>2 DEF Ipv6Settings
<1>5. QED BY <1>3, <1>4

\* Finding the port takes two calls.
LEMMA FindingPort ==
  ASSUME NEW dev
  PROVE  /\ IsSeq(host_port(dev)) /\ Len(host_port(dev)) = 2
         /\ ItemAfter(host_port(dev), 0) = Must("host", dev, <<>>)
         /\ ItemAfter(host_port(dev), 1) = Must("getName", dev, <<>>)
<1> DEFINE a == Must("host", dev, <<>>)
           b == Must("getName", dev, <<>>)
<1>1. host_port(dev) = <<a, b>>
  BY Zenon DEF host_port
<1> HIDE DEF a, b
<1>2. /\ IsSeq(host_port(dev)) /\ Len(host_port(dev)) = 2
      /\ ItemAfter(host_port(dev), 0) = a /\ ItemAfter(host_port(dev), 1) = b
  BY <1>1, TwoItems
<1>3. QED BY <1>2 DEF a, b

\* The first two calls of a plan and what comes later.
Finding(item, dev, n) ==
  /\ n = 0 => item = Must("host", dev, <<>>)
  /\ n = 1 => item = Must("getName", dev, <<>>)

\* The calls of configure_host: the port is found, then set.
LEMMA Ipv4Calls ==
  ASSUME NEW r, Plausible(r), NEW seen, IsSeq(seen), NEW n \in Nat, n = Len(seen)
  PROVE  LET item == ItemAfter(configure(r, seen), n) IN
         /\ Finding(item, r.dev, n)
         /\ n > 1 => item \in Ipv4Items(r) \/ item = Idle.next
<1> DEFINE S == Ipv4Items(r)
           first == host_port(r.dev)
           own == SubSeq(seen, Len(first) + 1, Len(seen))
           leased == apply_dhcp(r, own)
           static == apply_static(r) \o <<Ask("getIpAddress", r.dev)>>
           rest == IF r.dhcp THEN leased ELSE static
           plan == configure(r, seen)
<1>1. plan = IF Len(seen) < Len(first) THEN first ELSE first \o rest
  BY Zenon DEF configure, Then
<1>2. /\ IsSeq(first) /\ Len(first) = 2
      /\ ItemAfter(first, 0) = Must("host", r.dev, <<>>) /\ ItemAfter(first, 1) = Must("getName", r.dev, <<>>)
  BY Zenon, FindingPort
<1> HIDE DEF first
<1>3. IsSeq(own)
  <2>1. Len(first) \in Nat
    BY <1>2
  <2>2. QED BY <2>1, Remainder
<1> HIDE DEF own
<1>4. leased \in Seq(S)
  <2> DEFINE a == Tell("setDhcpClientFlag", r.dev, TRUE)
             b == Tell("setDhcpFlag", r.dev, TRUE)
             two == <<a, b>>
             more == SubSeq(own, Len(two) + 1, Len(own))
             m == Len(more)
             k0 == LEASE_POLLS
             U == {k \in 1..k0 : k <= m + 1 /\ \A o \in 1..(k - 1) : ~(more[o].data # 0)}
             Stopped == {o \in 1..k0 : more[o].data # 0}
             ask == Ask("getIpAddress", r.dev)
             polls == [k \in U |-> ask]
  <2>1. leased = IF Len(own) < Len(two) THEN two ELSE two \o polls
    <3> HIDE DEF more
    <3>1. QED BY Zenon DEF apply_dhcp, Then, Polls, more
  <2>2. a \in S /\ b \in S /\ ask \in S
    BY Zenon DEF Ipv4Items
  <2> HIDE DEF a, b, ask, S
  <2>3. two \in Seq(S) /\ Len(two) = 2
    BY <2>2
  <2> HIDE DEF two
  <2>4. k0 \in Int
    BY LeaseAssumption
  <2>5. ASSUME ~(Len(own) < Len(two))
        PROVE  polls \in Seq(S)
    <3>1. m \in Nat
      <4>1. Len(two) \in Nat
        BY <2>3
      <4>2. IsSeq(more)
        BY <1>3, <4>1, Remainder
      <4>3. QED BY Zenon, <4>2, SequenceLaws
    <3> HIDE DEF more, m
    <3>2. U = Upto(k0, m, Stopped)
      <4>1. \A k \in 1..k0 : \A o \in 1..(k - 1) : ~(more[o].data # 0) <=> o \notin Stopped
        BY <2>4
      <4> HIDE DEF Stopped
      <4>2. QED BY Zenon, <4>1 DEF Upto
    <3>3. polls = [k \in Upto(k0, m, Stopped) |-> ask]
      BY Zenon, <3>2
    <3> HIDE DEF polls, k0, Stopped
    <3>4. polls \in Seq({ask})
      BY Zenon, <2>4, <3>1, <3>3, PollsAsk
    <3>5. QED BY <2>2, <3>4
  <2> HIDE DEF polls
  <2>6. Len(own) < Len(two) \/ ~(Len(own) < Len(two))
    OBVIOUS
  <2> HIDE DEF leased
  <2>7. CASE Len(own) < Len(two)
    BY Zenon, <2>1, <2>3, <2>7
  <2>8. CASE ~(Len(own) < Len(two))
    <3>1. leased = two \o polls
      BY Zenon, <2>1, <2>8
    <3>2. QED BY <2>3, <2>5, <2>8, <3>1
  <2>9. QED BY <2>7, <2>8
<1>5. static \in Seq(S)
  <2> DEFINE a == Tell("setDhcpClientFlag", r.dev, FALSE)
             b == Tell("setIpSubnetMask", r.dev, [ip |-> r.ip, mask |-> r.mask])
             c == Tell("setDefaultGateway", r.dev, r.gateway)
             d == Tell("setDnsServerIp", r.dev, r.dns)
             e == Ask("getIpAddress", r.dev)
             three == When(r.gateway # NONE, <<c>>)
             four == When(r.dns # NONE, <<d>>)
  <2>1. {a, b, c, d, e} \subseteq S
    BY Zenon DEF Ipv4Items
  <2>2. static = ((<<a, b>> \o three) \o four) \o <<e>>
    BY Zenon DEF apply_static
  <2> HIDE DEF a, b, c, d, e, S, static
  <2>3. three \in {<<c>>, <<>>} /\ four \in {<<d>>, <<>>}
    BY Zenon DEF When
  <2>4. three \in Seq(S) /\ four \in Seq(S)
    <3>1. <<c>> \in Seq(S) /\ <<d>> \in Seq(S) /\ <<>> \in Seq(S)
      BY <2>1
    <3> HIDE DEF three, four
    <3>2. QED BY Zenon, <2>3, <3>1
  <2> HIDE DEF three, four
  <2>5. QED BY <2>1, <2>2, <2>4
<1> HIDE DEF S, leased, static
<1>6. rest \in Seq(S)
  BY Zenon, <1>4, <1>5
<1> HIDE DEF rest, plan
<1> DEFINE item == ItemAfter(plan, n)
<1>7. CASE n < 2
  <2>1. (n = 0 \/ n = 1) /\ Len(seen) < Len(first) /\ ~(n > 1)
    BY <1>2, <1>7
  <2>2. plan = first
    BY Zenon, <1>1, <2>1
  <2>3. item = ItemAfter(first, n)
    BY Zenon, <2>2
  <2> HIDE DEF item
  <2>4. (n = 0 => item = ItemAfter(first, 0)) /\ (n = 1 => item = ItemAfter(first, 1))
    BY Zenon, <2>3
  <2>5. QED BY Zenon, <1>2, <2>1, <2>4 DEF Finding, item, plan
<1>8. CASE ~(n < 2)
  <2>1. n # 0 /\ n # 1 /\ ~(n < Len(first)) /\ ~(Len(seen) < Len(first))
    BY <1>2, <1>8
  <2>2. plan = first \o rest
    BY Zenon, <1>1, <2>1
  <2>3. IsSeq(rest)
    BY Zenon, <1>6 DEF IsSeq
  <2>4. n - Len(first) \in Nat /\ ItemAfter(first \o rest, n) = ItemAfter(rest, n - Len(first))
    BY Zenon, <1>2, <2>1, <2>3, ItemPastJoin
  <2>5. item \in S \/ item = Idle.next
    <3> DEFINE k == n - Len(first)
    <3> HIDE DEF k, item
    <3>1. k \in Nat /\ item = ItemAfter(rest, k)
      BY Zenon, <2>2, <2>4 DEF k, item
    <3>2. QED BY Zenon, <1>6, <3>1, ItemAmong
  <2>6. QED BY Zenon, <2>1, <2>5 DEF Finding, item, plan, S
<1>9. QED BY <1>7, <1>8

\* A plan that begins with these calls and goes on with some of S.
Begun(plan, opening, S) ==
  /\ IsSeq(plan) /\ Len(opening) <= Len(plan)
  /\ \A n \in Nat : /\ n < Len(opening) => ItemAfter(plan, n) = ItemAfter(opening, n)
                    /\ ~(n < Len(opening)) => ItemAfter(plan, n) \in S \/ ItemAfter(plan, n) = Idle.next

\* The opening is such a plan.
LEMMA JustBegun ==
  ASSUME NEW opening, IsSeq(opening), NEW S
  PROVE  Begun(opening, opening, S)
<1>1. Len(opening) \in Nat
  BY Zenon, SequenceLaws
<1>2. Len(opening) <= Len(opening)
  BY <1>1
<1>3. QED BY Zenon, <1>2 DEF Begun, ItemAfter

\* So is one that goes on from it.
LEMMA BegunGoesOn ==
  ASSUME NEW plan, NEW opening, IsSeq(opening), NEW S, Begun(plan, opening, S), NEW t, t \in Seq(S)
  PROVE  Begun(plan \o t, opening, S)
<1> DEFINE all == plan \o t
<1>1. /\ IsSeq(plan) /\ IsSeq(t) /\ Len(opening) \in Nat /\ Len(plan) \in Nat /\ Len(t) \in Nat
      /\ Len(opening) <= Len(plan)
  BY Zenon, SequenceLaws DEF Begun, IsSeq
<1>2. IsSeq(all) /\ Len(all) = Len(plan) + Len(t)
  BY Zenon, <1>1, Concatenation
<1>3. Len(opening) <= Len(all)
  BY <1>1, <1>2
<1>4. ASSUME NEW n \in Nat
      PROVE  /\ n < Len(opening) => ItemAfter(all, n) = ItemAfter(opening, n)
             /\ ~(n < Len(opening)) => ItemAfter(all, n) \in S \/ ItemAfter(all, n) = Idle.next
  <2>1. /\ n < Len(plan) => ItemAfter(all, n) = ItemAfter(plan, n)
        /\ ~(n < Len(plan)) => n - Len(plan) \in Nat /\ ItemAfter(all, n) = ItemAfter(t, n - Len(plan))
    BY <1>1, ItemOfJoin
  <2>2. /\ n < Len(opening) => ItemAfter(plan, n) = ItemAfter(opening, n)
        /\ ~(n < Len(opening)) => ItemAfter(plan, n) \in S \/ ItemAfter(plan, n) = Idle.next
    BY Zenon DEF Begun
  <2>3. ~(n < Len(plan)) => ItemAfter(all, n) \in S \/ ItemAfter(all, n) = Idle.next
    BY Zenon, <2>1, ItemAmong
  <2>4. n < Len(opening) => n < Len(plan)
    BY <1>1
  <2> HIDE DEF all
  <2>5. QED BY Zenon, <2>1, <2>2, <2>3, <2>4
<1> HIDE DEF all
<1>5. Begun(all, opening, S)
  BY Zenon, <1>2, <1>3, <1>4 DEF Begun
<1>6. QED BY <1>5 DEF all

\* Three calls, as configure_host_ipv6 begins.
LEMMA OneMoreJoined ==
  ASSUME NEW a, NEW b, NEW c
  PROVE  (<<>> \o <<a, b>>) \o <<c>> = <<a, b, c>>
<1> DEFINE S == {a, b, c}
           all == (<<>> \o <<a, b>>) \o <<c>>
<1>1. <<>> \in Seq(S) /\ <<a, b>> \in Seq(S) /\ <<c>> \in Seq(S) /\ <<a, b, c>> \in Seq(S)
  OBVIOUS
<1>2. all \in Seq(S) /\ Len(all) = 3 /\ all[1] = a /\ all[2] = b /\ all[3] = c
  BY <1>1
<1> HIDE DEF all
<1>3. DOMAIN all = 1..3 /\ DOMAIN <<a, b, c>> = 1..3 /\ all = [k \in 1..3 |-> all[k]]
  BY <1>2
<1>4. \A k \in 1..3 : all[k] = <<a, b, c>>[k]
  BY <1>2
<1>5. all = <<a, b, c>>
  BY <1>2, <1>3, <1>4
<1>6. QED BY <1>5 DEF all

\* The calls of configure_host_ipv6: the port is found, IPv6 switched, then the rest.
LEMMA Ipv6Calls ==
  ASSUME NEW r, Plausible6(r), NEW seen, IsSeq(seen), NEW n \in Nat, n = Len(seen)
  PROVE  LET item == ItemAfter(configure_ipv6(r, seen), n) IN
         /\ Finding(item, r.dev, n)
         /\ n = 2 => item = Tell("setIpv6Enabled", r.dev, r.mode # "off")
         /\ n > 2 => item \in Ipv6Items(r) \/ item = Idle.next
<1> DEFINE S == Ipv6Items(r)
           a == Must("host", r.dev, <<>>)
           b == Must("getName", r.dev, <<>>)
           c == Tell("setIpv6Enabled", r.dev, r.mode # "off")
           opening == <<a, b, c>>
           clear == Tell("removeAllIpv6Addresses", r.dev, <<>>)
           on == Tell("setIpv6AddressAutoConfig", r.dev, TRUE)
           off == Tell("setIpv6AddressAutoConfig", r.dev, FALSE)
           gate == Tell("setv6DefaultGateway", r.dev, r.gateway)
           ask == Ask("getIpv6Addresses", r.dev)
           giving == Addressing(r)
           change == CASE r.mode = "off" -> <<clear>> [] r.mode = "auto" -> <<clear, on>>
                       [] OTHER -> <<off, clear, giving>>
           name == Tell("setv6ServerIp", r.dev, r.dns)
           gateway == When(r.gateway # NONE, <<gate>>)
           names == When(r.dns # NONE, <<name>>)
           servers == gateway \o names
           first == ((((Check(Plausible6(r)) \o host_port(r.dev)) \o <<c>>) \o change) \o servers)
           more == SubSeq(seen, Len(first) + 1, Len(seen))
           k0 == LEASE_POLLS
           m == Len(more)
           U == {k \in 1..k0 : k <= m + 1 /\ \A o \in 1..(k - 1) : ~(r.mode # "auto" \/ more[o].data # <<>>)}
           Stopped == {o \in 1..k0 : r.mode # "auto" \/ more[o].data # <<>>}
           polls == [k \in U |-> ask]
           plan == configure_ipv6(r, seen)
<1>1. plan = IF Len(seen) < Len(first) THEN first ELSE first \o polls
  <2> HIDE DEF more
  <2>1. QED BY Zenon DEF configure_ipv6, servers6, Then, Polls, more, Addressing
<1>2. first = (opening \o change) \o servers
  <2> HIDE DEF a, b, c, change, servers
  <2>1. Check(Plausible6(r)) = <<>>
    BY Zenon, CheckItems
  <2>2. host_port(r.dev) = <<a, b>>
    BY Zenon DEF host_port, a, b
  <2>3. (<<>> \o <<a, b>>) \o <<c>> = opening
    BY Zenon, OneMoreJoined
  <2>4. QED BY Zenon, <2>1, <2>2, <2>3
<1>3. change \in Seq(S) /\ servers \in Seq(S) /\ ask \in S
  <2>1. {clear, on, off, gate, name, ask} \subseteq S
    BY Zenon DEF Ipv6Items, Ipv6Settings
  <2>2. r.mode \notin {"off", "auto"} => giving \in S
    BY Zenon DEF Ipv6Items
  <2>3. \/ change = <<clear>> \/ change = <<clear, on>>
        \/ r.mode \notin {"off", "auto"} /\ change = <<off, clear, giving>>
    BY Zenon
  <2>4. (gateway = <<gate>> \/ gateway = <<>>) /\ (names = <<name>> \/ names = <<>>)
    BY Zenon DEF When
  <2> HIDE DEF clear, on, off, gate, name, ask, giving, change, gateway, names, S
  <2>5. <<clear>> \in Seq(S) /\ <<clear, on>> \in Seq(S) /\ <<gate>> \in Seq(S) /\ <<name>> \in Seq(S) /\ <<>> \in Seq(S)
    BY <2>1
  <2>6. giving \in S => <<off, clear, giving>> \in Seq(S)
    BY <2>1
  <2>7. gateway \in Seq(S) /\ names \in Seq(S)
    BY Zenon, <2>4, <2>5
  <2>8. servers \in Seq(S)
    BY <2>7
  <2> HIDE DEF servers
  <2>9. QED BY Zenon, <2>1, <2>2, <2>3, <2>5, <2>6, <2>8
<1> HIDE DEF a, b, c, change, servers, ask, S
<1>4. IsSeq(opening) /\ Len(opening) = 3 /\ ItemAfter(opening, 0) = a /\ ItemAfter(opening, 1) = b /\ ItemAfter(opening, 2) = c
  BY ThreeItems
<1> HIDE DEF opening
<1>5. Begun(first, opening, S)
  BY Zenon, <1>2, <1>3, <1>4, JustBegun, BegunGoesOn
<1> HIDE DEF first
<1>6. polls \in Seq(S)
  <2>1. m \in Nat
    <3>1. IsSeq(first)
      BY Zenon, <1>5 DEF Begun
    <3>2. Len(first) \in Nat
      BY Zenon, <3>1, SequenceLaws
    <3>3. IsSeq(more)
      BY <3>2, Remainder
    <3> HIDE DEF more
    <3>4. QED BY Zenon, <3>3, SequenceLaws
  <2>2. k0 \in Int
    BY LeaseAssumption
  <2> HIDE DEF more, m
  <2>3. U = Upto(k0, m, Stopped)
    <3>1. \A k \in 1..k0 : \A o \in 1..(k - 1) : ~(r.mode # "auto" \/ more[o].data # <<>>) <=> o \notin Stopped
      BY <2>2
    <3> HIDE DEF Stopped
    <3>2. QED BY Zenon, <3>1 DEF Upto
  <2>4. polls = [k \in Upto(k0, m, Stopped) |-> ask]
    BY Zenon, <2>3
  <2> HIDE DEF polls, k0, Stopped
  <2>5. polls \in Seq({ask})
    BY Zenon, <2>1, <2>2, <2>4, PollsAsk
  <2>6. QED BY <1>3, <2>5
<1> HIDE DEF polls, plan
<1>7. Begun(plan, opening, S)
  <2>1. Begun(first \o polls, opening, S)
    BY Zenon, <1>4, <1>5, <1>6, BegunGoesOn
  <2>2. QED BY Zenon, <1>1, <1>5, <2>1
<1> DEFINE item == ItemAfter(plan, n)
<1>8. /\ n < Len(opening) => item = ItemAfter(opening, n)
      /\ ~(n < Len(opening)) => item \in S \/ item = Idle.next
  BY Zenon, <1>7 DEF Begun
<1> HIDE DEF item
<1>9. /\ n = 0 => item = a
      /\ n = 1 => item = b
      /\ n = 2 => item = c
  <2>1. \A l : l = 3 => (n = 0 \/ n = 1 \/ n = 2 => n < l)
    OBVIOUS
  <2>2. QED BY Zenon, <1>4, <1>8, <2>1
<1>10. n > 2 => ~(n < Len(opening))
  <2>1. \A l : l = 3 => (n > 2 => ~(n < l))
    OBVIOUS
  <2>2. QED BY Zenon, <1>4, <2>1
<1>11. QED BY Zenon, <1>8, <1>9, <1>10 DEF Finding, item, plan, S, a, b, c

\* What a host's port is after a call.

\* The answers that matter here.
LEMMA HostSays ==
  ASSUME NEW p, NEW c
  PROVE  /\ c.op = "host" => HostAnswer(p, c) = Says(p, c.at \in Hosts)
         /\ c.op = "getName" => HostAnswer(p, c) = Obeys(p)
         /\ c.op = "setIpv6Enabled" => HostAnswer(p, c) = Sets(p, c.at, [Port(p, c.at) EXCEPT !.on6 = c.val])
         /\ c.op = "addIpv6Address" => HostAnswer(p, c) = add_address(p, c.at, c.val)
BY Zenon DEF HostAnswer

\* A port that was found is set as told.
LEMMA HostObeys ==
  ASSUME NEW p, NEW c, Setting(c)
  PROVE  HostAnswer(p, c).is = "ok"
<1> DEFINE reply == HostAnswer(p, c)
<1>1. \/ c.op \in {"host", "getName", "setIpv6Enabled", "addIpv6Address", "setInboundFirewallService",
                   "setInboundIpv6FirewallService", "isInboundFirewallOn", "getCommandCount", "addAcl", "addExtStatement", "removeExtStatement"}
      \/ reply.is = "ok"
      \/ c.op \notin SettingOps
  BY ZenonT(60) DEF HostAnswer, Sets, Obeys, Gives, Replies, SettingOps
<1> HIDE DEF reply
<1>2. c.op \in SettingOps
  BY Zenon DEF Setting
<1>3. reply.is = "ok"
  BY <1>1, <1>2 DEF SettingOps
<1>4. QED BY <1>3 DEF reply

\* Only switching IPv6 changes whether it is on, and only on the port it is about.
LEMMA HostKeeps ==
  ASSUME NEW p, HostsFit(p), NEW c
  PROVE  /\ HostAnswer(p, c).pt.part = "hosts"
         /\ c.op # "setIpv6Enabled" => \A e \in Hosts : HostAnswer(p, c).pt.hosts[e].on6 = p.hosts[e].on6
         /\ \A e \in Hosts \ {c.at} : HostAnswer(p, c).pt.hosts[e].on6 = p.hosts[e].on6
<1> DEFINE q == HostAnswer(p, c).pt
           d == c.at
           port == p.hosts[d]
           v6 == Append(port.v6, c.val)
           acls == port.acls \cup {c.val}
           more == Append(port.rules, c.val)
           less == WithoutFirst(port.rules, c.val)
<1>1. \/ q = p
      \/ q = [p EXCEPT !.hosts[d] = [port EXCEPT !.dhcp = c.val]]
      \/ q = [p EXCEPT !.hosts[d] = [port EXCEPT !.ip = 0, !.mask = 0]]
      \/ q = [p EXCEPT !.hosts[d] = [port EXCEPT !.ip = c.val.ip, !.mask = c.val.mask]]
      \/ q = [p EXCEPT !.hosts[d] = [port EXCEPT !.gateway = c.val]]
      \/ q = [p EXCEPT !.hosts[d] = [port EXCEPT !.dns = c.val]]
      \/ c.op = "setIpv6Enabled" /\ q = [p EXCEPT !.hosts[d] = [port EXCEPT !.on6 = c.val]]
      \/ q = [p EXCEPT !.hosts[d] = [port EXCEPT !.auto = c.val]]
      \/ q = [p EXCEPT !.hosts[d] = [port EXCEPT !.v6 = <<>>]]
      \/ q = [p EXCEPT !.hosts[d].v6 = v6]
      \/ q = [p EXCEPT !.hosts[d] = [port EXCEPT !.gateway6 = c.val]]
      \/ q = [p EXCEPT !.hosts[d] = [port EXCEPT !.dns6 = c.val]]
      \/ q = [p EXCEPT !.hosts[d] = [port EXCEPT !.firewall = c.val]]
      \/ q = [p EXCEPT !.hosts[d] = [port EXCEPT !.firewall6 = c.val]]
      \/ q = [p EXCEPT !.hosts[d] = [port EXCEPT !.acls = acls]]
      \/ q = [p EXCEPT !.hosts[d].rules = more]
      \/ q = [p EXCEPT !.hosts[d].rules = less]
  BY ZenonT(60) DEF HostAnswer, Port, Sets, add_address, Says, Obeys, Gives, Did, Missing, Unknown, Replies
<1>2. /\ [p EXCEPT !.hosts[d].v6 = v6] = [p EXCEPT !.hosts[d] = [port EXCEPT !.v6 = v6]]
      /\ [p EXCEPT !.hosts[d].rules = more] = [p EXCEPT !.hosts[d] = [port EXCEPT !.rules = more]]
      /\ [p EXCEPT !.hosts[d].rules = less] = [p EXCEPT !.hosts[d] = [port EXCEPT !.rules = less]]
  BY Zenon
<1> HIDE DEF v6, acls, more, less
<1> DEFINE Same_(new) == new.on6 = port.on6
<1>3. PICK new : /\ q = p \/ q = [p EXCEPT !.hosts[d] = new]
                 /\ d \in Hosts => Same_(new) \/ c.op = "setIpv6Enabled"
  <2>1. d \in Hosts => "on6" \in DOMAIN port
    BY DEF HostsFit, PortsFit, PortFits
  <2>2. \A v : Same_([port EXCEPT !.dhcp = v]) /\ Same_([port EXCEPT !.gateway = v]) /\ Same_([port EXCEPT !.dns = v])
               /\ Same_([port EXCEPT !.auto = v]) /\ Same_([port EXCEPT !.v6 = v]) /\ Same_([port EXCEPT !.gateway6 = v])
               /\ Same_([port EXCEPT !.firewall = v]) /\ Same_([port EXCEPT !.acls = v])
               /\ Same_([port EXCEPT !.rules = v]) /\ Same_([port EXCEPT !.dns6 = v])
               /\ Same_([port EXCEPT !.firewall6 = v])
    <3> HIDE DEF port
    <3>1. QED OBVIOUS
  <2>3. \A v, w : Same_([port EXCEPT !.ip = v, !.mask = w])
    <3> HIDE DEF port
    <3>1. QED OBVIOUS
  <2> HIDE DEF Same_
  <2>4. \E new : /\ q = p \/ q = [p EXCEPT !.hosts[d] = new]
                 /\ Same_(new) \/ c.op = "setIpv6Enabled" \/ q = p
    <3> DEFINE Other(v) == {[port EXCEPT !.dhcp = v], [port EXCEPT !.gateway = v], [port EXCEPT !.dns = v],
                            [port EXCEPT !.auto = v], [port EXCEPT !.v6 = v], [port EXCEPT !.gateway6 = v],
                            [port EXCEPT !.firewall = v], [port EXCEPT !.acls = v], [port EXCEPT !.rules = v],
                            [port EXCEPT !.dns6 = v], [port EXCEPT !.firewall6 = v]}
    <3>1. PICK u : \/ q = p
                   \/ q = [p EXCEPT !.hosts[d] = [port EXCEPT !.ip = 0, !.mask = 0]]
                   \/ q = [p EXCEPT !.hosts[d] = [port EXCEPT !.ip = c.val.ip, !.mask = c.val.mask]]
                   \/ c.op = "setIpv6Enabled" /\ q = [p EXCEPT !.hosts[d] = [port EXCEPT !.on6 = c.val]]
                   \/ \E new \in Other(u) : q = [p EXCEPT !.hosts[d] = new]
      BY ZenonT(60), <1>1, <1>2
    <3>2. \A new \in Other(u) : Same_(new)
      <4> HIDE DEF port
      <4>1. QED BY Zenon, <2>2
    <3> HIDE DEF Other, q, d, port
    <3>3. QED BY Zenon, <2>3, <3>1, <3>2
  <2>5. Same_(port)
    BY DEF Same_
  <2>6. CASE q = p
    BY Zenon, <2>5, <2>6
  <2>7. CASE ~(q = p)
    BY Zenon, <2>4, <2>7
  <2>8. QED BY Zenon, <2>6, <2>7
<1>4. /\ {"part", "hosts"} \subseteq DOMAIN p /\ p.part = "hosts" /\ DOMAIN p.hosts = Hosts
  BY Zenon DEF HostsFit, PortsFit
<1> HIDE DEF q, d
<1>5. q.part = "hosts"
  BY <1>3, <1>4
<1>6. ASSUME NEW e \in Hosts
      PROVE  q.hosts[e] = p.hosts[e] \/ (e = d /\ q.hosts[e] = new)
  BY <1>3, <1>4
<1>7. ASSUME NEW e \in Hosts, e # d \/ c.op # "setIpv6Enabled"
      PROVE  q.hosts[e].on6 = p.hosts[e].on6
  <2>1. CASE q.hosts[e] = p.hosts[e]
    BY <2>1
  <2>2. CASE e = d /\ q.hosts[e] = new
    <3>1. Same_(new)
      BY Zenon, <1>3, <1>7, <2>2
    <3>2. new.on6 = p.hosts[d].on6
      BY <3>1
    <3>3. QED BY <2>2, <3>2
  <2>3. QED BY Zenon, <1>6, <2>1, <2>2
<1>8. QED BY Zenon, <1>5, <1>7 DEF q, d

\* And switching it does.
LEMMA SwitchedOn ==
  ASSUME NEW p, HostsFit(p), NEW c, c.op = "setIpv6Enabled", c.at \in Hosts
  PROVE  HostAnswer(p, c).is = "ok" /\ HostAnswer(p, c).pt.hosts[c.at].on6 = c.val
<1> DEFINE d == c.at
           new == [Port(p, d) EXCEPT !.on6 = c.val]
           q == [p EXCEPT !.hosts[d] = new]
<1>1. HostAnswer(p, c).is = "ok" /\ HostAnswer(p, c).pt = q
  <2>1. HostAnswer(p, c) = Sets(p, d, new)
    BY Zenon, HostSays
  <2> HIDE DEF new
  <2>2. Sets(p, d, new).is = "ok" /\ Sets(p, d, new).pt = q
    BY Zenon DEF Sets, Obeys, Replies
  <2> HIDE DEF q, d
  <2>3. QED BY <2>1, <2>2
<1>2. "hosts" \in DOMAIN p /\ d \in DOMAIN p.hosts /\ "on6" \in DOMAIN Port(p, d)
  BY DEF HostsFit, PortsFit, PortFits, Port
<1>3. new.on6 = c.val
  <2> DEFINE port == Port(p, d)
  <2> HIDE DEF port
  <2>1. [port EXCEPT !.on6 = c.val].on6 = c.val
    BY <1>2 DEF port
  <2>2. QED BY <2>1 DEF port
<1> HIDE DEF new
<1>4. q.hosts[d] = new
  BY <1>2
<1> HIDE DEF q
<1>5. q.hosts[d].on6 = c.val
  BY <1>3, <1>4
<1>6. QED BY <1>1, <1>5

\* What a host takes from the network leaves IPv6 on.
LEMMA HostsSettle ==
  ASSUME NEW p, HostsFit(p), NEW q \in Settled(p)
  PROVE  q.part = "hosts" /\ \A d \in Hosts : p.hosts[d].on6 => q.hosts[d].on6
<1>1. Settled(p) = HostSettles(p)
  BY Zenon DEF Settled, HostsFit
<1>2. PICK e \in Hosts : q \in Addressed(p, e)
  BY Zenon, <1>1 DEF HostSettles
<1> DEFINE port == p.hosts[e]
           leased == [port EXCEPT !.ip = Lease.ip, !.mask = Lease.mask]
           advertised == [port EXCEPT !.v6 = <<Advertised>>]
<1>3. q = [p EXCEPT !.hosts[e] = leased] \/ q = [p EXCEPT !.hosts[e] = advertised]
  <2>1. \/ q = [p EXCEPT !.hosts[e].ip = Lease.ip, !.hosts[e].mask = Lease.mask]
        \/ q = [p EXCEPT !.hosts[e].v6 = <<Advertised>>]
    BY Zenon, <1>2 DEF Addressed
  <2>2. [p EXCEPT !.hosts[e].v6 = <<Advertised>>] = [p EXCEPT !.hosts[e] = advertised]
    BY Zenon
  <2>3. [p EXCEPT !.hosts[e].ip = Lease.ip, !.hosts[e].mask = Lease.mask] = [p EXCEPT !.hosts[e] = leased]
    BY DEF HostsFit, PortsFit
  <2>4. QED BY Zenon, <2>1, <2>2, <2>3
<1>4. /\ {"part", "hosts"} \subseteq DOMAIN p /\ p.part = "hosts" /\ DOMAIN p.hosts = Hosts /\ "on6" \in DOMAIN port
  BY DEF HostsFit, PortsFit, PortFits
<1>5. leased.on6 = port.on6 /\ advertised.on6 = port.on6
  BY <1>4
<1> HIDE DEF leased, advertised
<1>6. q.part = "hosts" /\ \A d \in Hosts : q.hosts[d] = p.hosts[d] \/ (d = e /\ q.hosts[d] \in {leased, advertised})
  BY <1>3, <1>4
<1>7. ASSUME NEW d \in Hosts
      PROVE  q.hosts[d].on6 = p.hosts[d].on6
  BY <1>5, <1>6
<1>8. QED BY Zenon, <1>6, <1>7

\* What a ready call about hosts is.
LEMMA HostsReady ==
  ASSUME NEW p, NEW c, Ready(p, c), p.part = "hosts"
  PROVE  /\ HostsFit(p) /\ "hosts" \in DOMAIN Asks /\ c.req \in Asks["hosts"]
         /\ c.req.tool \in {"configure_host", "configure_host_ipv6", "set_host_firewall"}
         /\ c.req.tool = "configure_host_ipv6" => c.req.mode \in {"static", "auto", "off"} /\ ListOf(c.req.address)
         /\ c.next = ItemAfter(HostPlan(c.req, c.seen), Len(c.seen))
         /\ NextReply(p, c) = HostAnswer(p, c.next)
         /\ NextReply(p, c).pt.part = "hosts"
         /\ NextCall(p, c) = ItemAfter(HostPlan(c.req, MoreHeard(p, c)), Len(c.seen) + 1)
<1>1. HostsFit(p)
  BY DEF Ready, PartFits, LinksFit, HostsFit, PreferencesFit, ActivityFits
<1>2. \A r, seen : PlanIn(p.part, r, seen) = HostPlan(r, seen)
  BY Zenon DEF PlanIn
<1>3. Answer(p, c.next) = HostAnswer(p, c.next)
  BY Zenon DEF Answer
<1>4. HostAnswer(p, c.next).pt.part = "hosts"
  BY Zenon, <1>1, HostKeeps
<1>5. c.req \in Asks["hosts"] /\ "hosts" \in DOMAIN Asks
  BY WhatReadyMeans
<1>6. /\ c.req.tool \in {"configure_host", "configure_host_ipv6", "set_host_firewall"}
      /\ c.req.tool = "configure_host_ipv6" => c.req.mode \in {"static", "auto", "off"} /\ ListOf(c.req.address)
  BY Zenon, <1>5, AsksAssumption
<1>7. c.next = ItemAfter(HostPlan(c.req, c.seen), Len(c.seen)) /\ Len(MoreHeard(p, c)) = Len(c.seen) + 1
  <2>1. /\ c.next = ItemAfter(PlanIn(p.part, c.req, c.seen), Len(c.seen))
        /\ Len(MoreHeard(p, c)) = Len(c.seen) + 1
    BY Zenon, WhatReadyMeans
  <2>2. QED BY Zenon, <1>2, <2>1
<1>8. NextCall(p, c) = ItemAfter(HostPlan(c.req, MoreHeard(p, c)), Len(c.seen) + 1)
  BY Zenon, <1>2, <1>7 DEF NextCall
<1>9. QED BY Zenon, <1>1, <1>3, <1>4, <1>5, <1>6, <1>7, <1>8 DEF NextReply

\* A first call stays the first one.
LEMMA FirstStays ==
  ASSUME NEW s, IsSeq(s), Len(s) > 0, NEW t, IsSeq(t)
  PROVE  IsSeq(s \o t) /\ Len(s \o t) > 0 /\ ItemAfter(s \o t, 0) = ItemAfter(s, 0)
<1>1. Len(s) \in Nat /\ Len(t) \in Nat /\ 0 \in Nat
  BY SequenceLaws
<1>2. IsSeq(s \o t) /\ Len(s \o t) = Len(s) + Len(t)
  BY Zenon, Concatenation
<1>3. 0 < Len(s)
  BY <1>1
<1>4. ItemAfter(s \o t, 0) = ItemAfter(s, 0)
  BY ZenonT(60), <1>1, <1>3, ItemOfJoin
<1>5. Len(s \o t) > 0
  BY <1>1, <1>2
<1>6. QED BY <1>2, <1>4, <1>5

\* A request that is not refused at once is a plausible one.
LEMMA HostsSensible ==
  ASSUME NEW r, Sensible("hosts", r)
  PROVE  /\ r.tool = "configure_host" => Plausible(r)
         /\ r.tool = "configure_host_ipv6" => Plausible6(r)
<1>1. ItemAfter(HostPlan(r, <<>>), 0).op # "refuse"
  <2>1. PlanIn("hosts", r, <<>>) = HostPlan(r, <<>>)
    BY Zenon DEF PlanIn
  <2>2. QED BY Zenon, <2>1 DEF Sensible
<1> DEFINE refusal == <<Refuse>>
<1>2. IsSeq(refusal) /\ Len(refusal) = 1 /\ ItemAfter(refusal, 0) = Refuse /\ Refuse.op = "refuse"
  <2>1. IsSeq(refusal) /\ Len(refusal) = 1 /\ ItemAfter(refusal, 0) = Refuse
    <3> DEFINE a == Refuse
    <3> HIDE DEF a
    <3>1. IsSeq(<<a>>) /\ Len(<<a>>) = 1 /\ ItemAfter(<<a>>, 0) = a
      BY OneItem
    <3>2. QED BY Zenon, <3>1 DEF a
  <2>2. Refuse.op = "refuse"
    BY Zenon DEF Refuse, Item
  <2>3. QED BY Zenon, <2>1, <2>2
<1>3. ASSUME r.tool = "configure_host", ~Plausible(r)
      PROVE  FALSE
  <2>1. HostPlan(r, <<>>) = configure(r, <<>>)
    BY Zenon, <1>3 DEF HostPlan
  <2>2. configure(r, <<>>) = refusal
    BY Zenon, <1>3 DEF configure
  <2> HIDE DEF refusal
  <2>3. QED BY Zenon, <1>1, <1>2, <2>1, <2>2
<1>4. ASSUME r.tool = "configure_host_ipv6", ~Plausible6(r)
      PROVE  FALSE
  <2> DEFINE change == CASE r.mode = "off" -> <<Tell("removeAllIpv6Addresses", r.dev, <<>>)>>
                         [] r.mode = "auto" -> <<Tell("removeAllIpv6Addresses", r.dev, <<>>),
                                                 Tell("setIpv6AddressAutoConfig", r.dev, TRUE)>>
                         [] OTHER -> <<Tell("setIpv6AddressAutoConfig", r.dev, FALSE),
                                       Tell("removeAllIpv6Addresses", r.dev, <<>>),
                                       Must("addIpv6Address", r.dev, r.address[1])>>
             on == <<Tell("setIpv6Enabled", r.dev, r.mode # "off")>>
             first == (((Check(Plausible6(r)) \o host_port(r.dev)) \o on) \o change) \o servers6(r)
  <2>1. HostPlan(r, <<>>) = configure_ipv6(r, <<>>)
    BY Zenon, <1>4 DEF HostPlan
  <2>2. Len(<<>>) < Len(first) => configure_ipv6(r, <<>>) = first
    <3> DEFINE none == <<>>
    <3> HIDE DEF none
    <3>1. Len(none) < Len(first) => configure_ipv6(r, none) = first
      BY Zenon DEF configure_ipv6, Then
    <3>2. QED BY Zenon, <3>1 DEF none
  <2>3. Check(Plausible6(r)) = refusal
    BY Zenon, <1>4, CheckItems
  <2>4. IsSeq(change) /\ IsSeq(servers6(r)) /\ IsSeq(on)
    <3> DEFINE a == Tell("removeAllIpv6Addresses", r.dev, <<>>)
               b == Tell("setIpv6AddressAutoConfig", r.dev, TRUE)
               c == Tell("setIpv6AddressAutoConfig", r.dev, FALSE)
               d == Must("addIpv6Address", r.dev, r.address[1])
               e == Tell("setv6DefaultGateway", r.dev, r.gateway)
               f == Tell("setIpv6Enabled", r.dev, r.mode # "off")
               g == Tell("setv6ServerIp", r.dev, r.dns)
               gateway == When(r.gateway # NONE, <<e>>)
               names == When(r.dns # NONE, <<g>>)
    <3>1. change = <<a>> \/ change = <<a, b>> \/ change = <<c, a, d>>
      BY Zenon
    <3>2. (gateway = <<e>> \/ gateway = <<>>) /\ (names = <<g>> \/ names = <<>>) /\ on = <<f>>
      BY Zenon DEF When
    <3>3. servers6(r) = gateway \o names
      BY Zenon DEF servers6
    <3> HIDE DEF a, b, c, d, e, f, g, change, gateway, names, on
    <3>4. IsSeq(<<a>>) /\ IsSeq(<<a, b>>) /\ IsSeq(<<c, a, d>>) /\ IsSeq(<<e>>) /\ IsSeq(<<>>) /\ IsSeq(<<f>>) /\ IsSeq(<<g>>)
      BY OneItem, TwoItems, ThreeItems, NoItem
    <3>5. IsSeq(gateway) /\ IsSeq(names)
      BY Zenon, <3>2, <3>4
    <3>6. IsSeq(servers6(r))
      BY Zenon, <3>3, <3>5, Concatenation
    <3>7. QED BY Zenon, <3>1, <3>2, <3>4, <3>6
  <2> HIDE DEF change, on, refusal
  <2>5. Len(refusal) > 0
    BY <1>2
  <2>6. IsSeq(host_port(r.dev))
    BY Zenon, FindingPort
  <2>7. IsSeq(first) /\ Len(first) > 0 /\ ItemAfter(first, 0) = Refuse
    <3> DEFINE a == refusal \o host_port(r.dev)
               b == a \o on
               c == b \o change
               d == c \o servers6(r)
    <3>1. IsSeq(a) /\ Len(a) > 0 /\ ItemAfter(a, 0) = Refuse
      BY Zenon, <1>2, <2>5, <2>6, FirstStays
    <3> HIDE DEF a
    <3>2. IsSeq(b) /\ Len(b) > 0 /\ ItemAfter(b, 0) = Refuse
      BY Zenon, <2>4, <3>1, FirstStays
    <3> HIDE DEF b
    <3>3. IsSeq(c) /\ Len(c) > 0 /\ ItemAfter(c, 0) = Refuse
      BY Zenon, <2>4, <3>2, FirstStays
    <3> HIDE DEF c
    <3>4. IsSeq(d) /\ Len(d) > 0 /\ ItemAfter(d, 0) = Refuse
      BY Zenon, <2>4, <3>3, FirstStays
    <3>5. first = d
      BY Zenon, <2>3 DEF a, b, c
    <3> HIDE DEF d, first
    <3>6. QED BY Zenon, <3>4, <3>5
  <2> HIDE DEF first
  <2>8. Len(<<>>) < Len(first)
    <3>1. Len(<<>>) = 0 /\ Len(first) \in Nat
      BY <2>7, SequenceLaws
    <3>2. QED BY <2>7, <3>1
  <2>9. QED BY Zenon, <1>1, <1>2, <2>1, <2>2, <2>7, <2>8
<1>5. QED BY Zenon, <1>3, <1>4

\* The calls of a plausible request.
Switching(r) == Tell("setIpv6Enabled", r.dev, r.mode # "off")

HostItem(item, r, n) ==
  /\ Finding(item, r.dev, n)
  /\ r.tool = "configure_host_ipv6" /\ n = 2 => item = Switching(r)
  /\ n > 1 => \/ Setting(item) \/ item = Idle.next
              \/ n = 2 /\ item = Switching(r) /\ r.tool = "configure_host_ipv6"
              \/ n > 2 /\ item = Addressing(r) /\ r.mode \notin {"off", "auto"} /\ r.tool = "configure_host_ipv6"

\* The calls of a plausible request.
LEMMA HostItems ==
  ASSUME NEW r, r.tool = "configure_host" \/ r.tool = "configure_host_ipv6",
         r.tool = "configure_host" => Plausible(r), r.tool = "configure_host_ipv6" => Plausible6(r),
         NEW seen, IsSeq(seen), NEW n \in Nat, n = Len(seen)
  PROVE  HostItem(ItemAfter(HostPlan(r, seen), n), r, n)
<1>1. CASE r.tool = "configure_host"
  <2> DEFINE item == ItemAfter(configure(r, seen), n)
  <2>1. HostPlan(r, seen) = configure(r, seen)
    BY Zenon, <1>1 DEF HostPlan
  <2>2. Finding(item, r.dev, n) /\ (n > 1 => item \in Ipv4Items(r) \/ item = Idle.next)
    BY Zenon, <1>1, Ipv4Calls
  <2>3. n > 1 => Setting(item) \/ item = Idle.next
    BY Zenon, <2>2, SettingAll
  <2> HIDE DEF item
  <2>4. HostItem(item, r, n)
    BY Zenon, <1>1, <2>2, <2>3 DEF HostItem
  <2>5. QED BY Zenon, <2>1, <2>4 DEF item
<1>2. CASE r.tool = "configure_host_ipv6"
  <2> DEFINE item == ItemAfter(configure_ipv6(r, seen), n)
  <2>1. HostPlan(r, seen) = configure_ipv6(r, seen)
    BY Zenon, <1>2 DEF HostPlan
  <2>2. /\ Finding(item, r.dev, n) /\ (n = 2 => item = Switching(r))
        /\ n > 2 => item \in Ipv6Items(r) \/ item = Idle.next
    BY Zenon, <1>2, Ipv6Calls DEF Switching
  <2>3. n > 2 => \/ Setting(item) \/ item = Idle.next
                 \/ item = Addressing(r) /\ r.mode \notin {"off", "auto"}
    BY Zenon, <2>2, SettingAll DEF Ipv6Items
  <2>4. n > 1 => n = 2 \/ n > 2
    OBVIOUS
  <2> HIDE DEF item
  <2>5. HostItem(item, r, n)
    BY Zenon, <1>2, <2>2, <2>3, <2>4 DEF HostItem
  <2>6. QED BY Zenon, <2>1, <2>5 DEF item
<1>3. QED BY Zenon, <1>1, <1>2

\* None of these is a refusal.
LEMMA NoRefusal ==
  ASSUME NEW item, NEW r, NEW n \in Nat, HostItem(item, r, n)
  PROVE  item.op # "refuse"
<1>1. n = 0 \/ n = 1 \/ n > 1
  OBVIOUS
<1>2. /\ Must("host", r.dev, <<>>).op # "refuse" /\ Must("getName", r.dev, <<>>).op # "refuse"
      /\ Switching(r).op # "refuse" /\ Addressing(r).op # "refuse"
  BY Zenon DEF Must, Tell, Item, Switching, Addressing
<1>3. Idle.next.op # "refuse"
  BY LastItem
<1>4. Setting(item) => item.op # "refuse"
  BY DEF Setting, SettingOps
<1>5. CASE n = 0
  BY Zenon, <1>2, <1>5 DEF HostItem, Finding
<1>6. CASE n = 1
  BY Zenon, <1>2, <1>6 DEF HostItem, Finding
<1>7. CASE n > 1
  BY Zenon, <1>2, <1>3, <1>4, <1>7 DEF HostItem
<1>8. QED BY <1>1, <1>5, <1>6, <1>7

\* What a call about hosts relies on.
LEMMA HostsLearnt ==
  ASSUME NEW p, p.part = "hosts", NEW r, NEW seen
  PROVE  /\ Altered(p, r, seen) <=> Len(seen) > 0
         /\ Learnt(p, r, seen) <=>
              (r.tool = "configure_host_ipv6" =>
                 /\ Len(seen) > 0 => r.dev \in Hosts
                 /\ Len(seen) > 2 /\ r.mode = "static" => r.dev \in Hosts /\ p.hosts[r.dev].on6)
BY Zenon DEF Altered, Learnt

\* The two tools that address a host are refused only when there is none.
LEMMA HostsPrudent ==
  ASSUME NEW p, NEW c, Ready(p, c), p.part = "hosts", Sensible("hosts", c.req), c.req.tool # "set_host_firewall",
         Learnt(p, c.req, c.seen), c.seen # <<>> => ~Ended(c.next)
  PROVE  Prudent(p, c)
<1> DEFINE r == c.req
           seen == c.seen
           n == Len(seen)
           next == c.next
           reply == NextReply(p, c)
           q == reply.pt
           more == MoreHeard(p, c)
           after == NextCall(p, c)
<1>1. /\ IsSeq(seen) /\ n \in Nat /\ IsSeq(more) /\ Len(more) = n + 1
  BY Zenon, WhatReadyMeans
<1>2. /\ HostsFit(p) /\ q.part = "hosts" /\ reply = HostAnswer(p, next)
      /\ r.tool \in {"configure_host", "configure_host_ipv6", "set_host_firewall"} /\ r.tool # "set_host_firewall"
      /\ r.tool = "configure_host_ipv6" => r.mode \in {"static", "auto", "off"} /\ ListOf(r.address)
      /\ next = ItemAfter(HostPlan(r, seen), n) /\ after = ItemAfter(HostPlan(r, more), n + 1)
  BY Zenon, HostsReady
<1>3. /\ r.tool = "configure_host" => Plausible(r)
      /\ r.tool = "configure_host_ipv6" => Plausible6(r)
  BY Zenon, HostsSensible
<1>4. r.tool = "configure_host" \/ r.tool = "configure_host_ipv6"
  BY <1>2
<1>5. HostItem(next, r, n)
  <2> DEFINE item == ItemAfter(HostPlan(r, seen), n)
  <2>1. HostItem(item, r, n)
    BY Zenon, <1>1, <1>3, <1>4, HostItems
  <2>2. QED BY Zenon, <1>2, <2>1
<1>6. after.op # "refuse"
  <2> DEFINE k == n + 1
             item == ItemAfter(HostPlan(r, more), k)
  <2>1. k \in Nat /\ k = Len(more)
    BY <1>1
  <2> HIDE DEF k, more
  <2>2. HostItem(item, r, k)
    BY Zenon, <1>1, <1>3, <1>4, <2>1, HostItems
  <2> HIDE DEF item
  <2>3. item.op # "refuse"
    BY Zenon, <2>1, <2>2, NoRefusal
  <2>4. after = item
    BY Zenon, <1>2 DEF item, k
  <2> HIDE DEF after
  <2>5. QED BY <2>3, <2>4
<1>7. n > 0 => ~Ended(next)
  <2>1. Len(<<>>) = 0
    OBVIOUS
  <2>2. n > 0 => seen # <<>>
    <3> HIDE DEF seen
    <3>1. seen = <<>> => ~(n > 0)
      BY <2>1
    <3>2. QED BY Zenon, <3>1
  <2>3. QED BY Zenon, <2>2 DEF seen
<1>8. /\ Altered(p, r, seen) <=> n > 0
      /\ Learnt(p, r, seen) <=>
           (r.tool = "configure_host_ipv6" =>
              /\ n > 0 => r.dev \in Hosts
              /\ n > 2 /\ r.mode = "static" => r.dev \in Hosts /\ p.hosts[r.dev].on6)
  BY Zenon, <1>2, HostsLearnt DEF HostsFit
<1>9. /\ Altered(q, r, more)
      /\ Learnt(q, r, more) <=>
           (r.tool = "configure_host_ipv6" =>
              /\ r.dev \in Hosts
              /\ n > 1 /\ r.mode = "static" => r.dev \in Hosts /\ q.hosts[r.dev].on6)
  <2>1. Len(more) > 0 /\ (Len(more) > 2 <=> n > 1)
    BY <1>1
  <2> HIDE DEF q, more
  <2>2. /\ Altered(q, r, more) <=> Len(more) > 0
        /\ Learnt(q, r, more) <=>
             (r.tool = "configure_host_ipv6" =>
                /\ Len(more) > 0 => r.dev \in Hosts
                /\ Len(more) > 2 /\ r.mode = "static" => r.dev \in Hosts /\ q.hosts[r.dev].on6)
    BY Zenon, <1>2, HostsLearnt
  <2>3. QED BY Zenon, <2>1, <2>2
<1>10. Learnt(p, r, seen)
  BY Zenon
<1> HIDE DEF r, seen, n, next, reply, q, more, after
<1>11. CASE n = 0
  <2>1. next = Must("host", r.dev, <<>>)
    BY Zenon, <1>5, <1>11 DEF HostItem, Finding
  <2>2. next.op = "host" /\ next.at = r.dev /\ next.need = {"ok", "yes"}
    BY <2>1, MustFields
  <2>3. reply = Says(p, r.dev \in Hosts)
    <3>1. HostAnswer(p, next) = Says(p, next.at \in Hosts)
      BY Zenon, <2>2, HostSays
    <3>2. QED BY Zenon, <1>2, <2>2, <3>1
  <2>4. /\ reply.pt = p
        /\ r.dev \in Hosts => reply.is = "yes"
        /\ r.dev \notin Hosts => reply.is = "no"
    <3> DEFINE could == r.dev \in Hosts
    <3>1. /\ reply.pt = p
          /\ could => reply.is = "yes"
          /\ ~could => reply.is = "no"
      <4>1. reply = Says(p, could)
        BY Zenon, <2>3
      <4> HIDE DEF could
      <4>2. QED BY <4>1, SaysFields
    <3>2. QED BY Zenon, <3>1
  <2>5. ~(n > 0) /\ ~(n > 1)
    BY <1>11
  <2>6. CASE r.dev \in Hosts
    <3>1. reply.is \in next.need
      BY <2>2, <2>4, <2>6
    <3>2. Learnt(q, r, more)
      BY Zenon, <1>9, <2>5, <2>6
    <3>3. QED BY Zenon, <1>6, <1>9, <3>1, <3>2, OnlyGoingOn DEF r, seen, next, reply, q, more, after
  <2>7. CASE r.dev \notin Hosts
    <3>1. reply.is \notin next.need
      BY <2>2, <2>4, <2>7
    <3>2. ~Altered(p, r, seen)
      BY Zenon, <1>8, <2>5
    <3>3. QED BY Zenon, <2>4, <3>1, <3>2, NotAtAll DEF r, seen, next, reply
  <2>8. QED BY Zenon, <2>6, <2>7
<1>12. CASE ~(n = 0)
  <2>1. n > 0 /\ (n = 1 \/ n > 1)
    BY <1>1, <1>12
  <2>2. r.tool = "configure_host_ipv6" => r.dev \in Hosts
    BY Zenon, <1>8, <1>10, <2>1
  <2>3. /\ reply.is \in next.need
        /\ r.tool = "configure_host_ipv6" /\ n > 1 /\ r.mode = "static" => q.hosts[r.dev].on6
    <3>1. CASE n = 1
      <4>1. next = Must("getName", r.dev, <<>>)
        BY Zenon, <1>5, <3>1 DEF HostItem, Finding
      <4>2. next.op = "getName" /\ next.need = {"ok", "yes"}
        BY <4>1, MustFields
      <4>3. HostAnswer(p, next) = Obeys(p) /\ Obeys(p).is = "ok"
        <5>1. HostAnswer(p, next) = Obeys(p)
          BY Zenon, <4>2, HostSays
        <5>2. Obeys(p).is = "ok"
          BY Zenon DEF Obeys, Replies
        <5>3. QED BY Zenon, <5>1, <5>2
      <4>4. reply.is = "ok"
        BY Zenon, <1>2, <4>3
      <4>5. ~(n > 1)
        BY <3>1
      <4>6. QED BY <4>2, <4>4, <4>5
    <3>2. CASE n > 1 /\ Setting(next)
      <4>1. HostAnswer(p, next).is = "ok"
        BY Zenon, <3>2, HostObeys
      <4>2. reply.is = "ok"
        BY Zenon, <1>2, <4>1
      <4>3. next.need = {"ok", "yes", "no"}
        BY Zenon, <3>2 DEF Setting
      <4>4. reply.is \in next.need
        BY <4>2, <4>3
      <4>5. ASSUME r.tool = "configure_host_ipv6", r.mode = "static"
            PROVE  q.hosts[r.dev].on6
        <5>1. n # 2
          <6> SUFFICES ASSUME n = 2 PROVE FALSE
            OBVIOUS
          <6>1. next = Switching(r)
            BY Zenon, <1>5, <4>5 DEF HostItem
          <6>2. Switching(r).op = "setIpv6Enabled"
            BY Zenon DEF Switching, Tell, Item
          <6>3. next.op \in SettingOps
            BY Zenon, <3>2 DEF Setting
          <6>4. QED BY <6>1, <6>2, <6>3 DEF SettingOps
        <5>2. n > 2
          BY <1>1, <3>2, <5>1
        <5>3. r.dev \in Hosts /\ p.hosts[r.dev].on6
          BY Zenon, <1>8, <1>10, <4>5, <5>2
        <5>4. next.op # "setIpv6Enabled"
          BY <3>2 DEF Setting, SettingOps
        <5>5. HostAnswer(p, next).pt.hosts[r.dev].on6 = p.hosts[r.dev].on6
          BY Zenon, <1>2, <5>3, <5>4, HostKeeps
        <5>6. q.hosts[r.dev].on6 = p.hosts[r.dev].on6
          BY <1>2, <5>5 DEF q
        <5>7. QED BY Zenon, <5>3, <5>6
      <4>6. QED BY Zenon, <4>4, <4>5
    <3>3. CASE n = 2 /\ next = Switching(r) /\ r.tool = "configure_host_ipv6"
      <4> DEFINE on == r.mode # "off"
      <4>1. next.op = "setIpv6Enabled" /\ next.at = r.dev /\ next.val = on /\ next.need = {"ok", "yes", "no"}
        <5>1. next = Tell("setIpv6Enabled", r.dev, on)
          BY Zenon, <3>3 DEF Switching
        <5> HIDE DEF on
        <5>2. QED BY <5>1, TellFields
      <4>2. HostAnswer(p, next).is = "ok" /\ HostAnswer(p, next).pt.hosts[next.at].on6 = next.val
        <5>1. next.at \in Hosts
          BY <2>2, <3>3, <4>1
        <5>2. next.op = "setIpv6Enabled" /\ HostsFit(p)
          BY Zenon, <1>2, <4>1
        <5> HIDE DEF on
        <5>3. QED BY <5>1, <5>2, SwitchedOn
      <4>3. reply.is = "ok"
        BY Zenon, <1>2, <4>2
      <4> HIDE DEF on
      <4>4. q.hosts[r.dev].on6 = on
        BY <1>2, <4>1, <4>2 DEF q
      <4>5. reply.is \in next.need
        BY <4>1, <4>3
      <4>6. r.mode = "static" => on
        BY DEF on
      <4>7. QED BY Zenon, <4>4, <4>5, <4>6
    <3>4. CASE n > 2 /\ next = Addressing(r) /\ r.mode \notin {"off", "auto"} /\ r.tool = "configure_host_ipv6"
      <4> DEFINE a == r.address[1]
      <4>1. next.op = "addIpv6Address" /\ next.at = r.dev /\ next.val = a /\ next.need = {"ok", "yes"}
        <5>1. next = Must("addIpv6Address", r.dev, a)
          BY Zenon, <3>4 DEF Addressing
        <5> HIDE DEF a
        <5>2. QED BY <5>1, MustFields
      <4>2. r.mode = "static"
        BY <1>2, <3>4
      <4>3. r.dev \in Hosts /\ p.hosts[r.dev].on6
        BY Zenon, <1>8, <1>10, <3>4, <4>2
      <4>4. a.prefix \in 1..128
        <5>1. r.address # <<>> /\ \A b \in {r.address[k] : k \in DOMAIN r.address} : b.prefix \in 1..128
          BY Zenon, <1>3, <3>4, <4>2 DEF Plausible6
        <5>2. 1 \in DOMAIN r.address
          <6> DEFINE s == r.address
                     S == {s[k] : k \in DOMAIN s}
          <6>1. s \in Seq(S)
            BY Zenon, <1>2, <3>4 DEF ListOf
          <6> HIDE DEF s, S
          <6>2. s # <<>> => 1 \in DOMAIN s
            BY <6>1
          <6>3. QED BY Zenon, <5>1, <6>2 DEF s
        <5>3. QED BY Zenon, <5>1, <5>2
      <4>5. HostAnswer(p, next) = add_address(p, r.dev, a)
        <5>1. HostAnswer(p, next) = add_address(p, next.at, next.val)
          BY Zenon, <4>1, HostSays
        <5>2. QED BY Zenon, <4>1, <5>1
      <4>6. HostAnswer(p, next).is = "yes"
        <5> DEFINE d == r.dev
                   could == Port(p, d).on6 /\ a.prefix \in 1..128
                   new == [p EXCEPT !.hosts[d].v6 = Append(@, a)]
        <5>1. HostAnswer(p, next) = Did(p, could, new)
          BY Zenon, <4>5 DEF add_address
        <5>2. could
          BY Zenon, <4>3, <4>4 DEF Port
        <5> HIDE DEF could, new
        <5>3. Did(p, could, new).is = "yes"
          BY Zenon, <5>2 DEF Did, Replies
        <5>4. QED BY Zenon, <5>1, <5>3
      <4>7. reply.is \in next.need
        <5>1. reply.is = "yes"
          BY Zenon, <1>2, <4>6
        <5>2. QED BY <4>1, <5>1
      <4>8. q.hosts[r.dev].on6
        <5>1. next.op # "setIpv6Enabled"
          BY <4>1
        <5>2. HostAnswer(p, next).pt.hosts[r.dev].on6 = p.hosts[r.dev].on6
          BY Zenon, <1>2, <4>3, <5>1, HostKeeps
        <5>3. q.hosts[r.dev].on6 = p.hosts[r.dev].on6
          BY <1>2, <5>2 DEF q
        <5>4. QED BY Zenon, <4>3, <5>3
      <4>9. QED BY Zenon, <4>7, <4>8
    <3>5. next # Idle.next
      <4>1. Ended(Idle.next)
        BY Zenon, LastItem DEF Ended
      <4>2. QED BY Zenon, <1>7, <2>1, <4>1
    <3>6. QED BY Zenon, <1>5, <2>1, <3>1, <3>2, <3>3, <3>4, <3>5 DEF HostItem
  <2>4. Learnt(q, r, more)
    BY Zenon, <1>9, <2>2, <2>3
  <2>5. QED BY Zenon, <1>6, <1>9, <2>3, <2>4, OnlyGoingOn DEF r, seen, next, reply, q, more, after
<1>13. QED BY Zenon, <1>11, <1>12

\* IPv6 stays on when another call is about something else.
LEMMA HostsOthers ==
  ASSUME NEW p, NEW c, Ready(p, c), p.part = "hosts", NEW r, r.tool = "configure_host_ipv6", r.dev \in Hosts,
         p.hosts[r.dev].on6, HostTopics(r) \cap HostTopics(c.req) = {}
  PROVE  NextReply(p, c).pt.hosts[r.dev].on6
<1> DEFINE s == c.req
           next == c.next
           q == NextReply(p, c).pt
<1>1. /\ HostsFit(p) /\ "hosts" \in DOMAIN Asks /\ s \in Asks["hosts"]
      /\ next = ItemAfter(HostPlan(s, c.seen), Len(c.seen)) /\ NextReply(p, c) = HostAnswer(p, next)
      /\ IsSeq(c.seen) /\ Len(c.seen) \in Nat
  BY Zenon, HostsReady, WhatReadyMeans
<1>2. Allowed(next, Switches(s))
  BY Zenon, <1>1, HostPlans, NextAllowed
<1>3. next.op = "setIpv6Enabled" => s.tool = "configure_host_ipv6" /\ next.at = s.dev
  <2>1. next.op = "setIpv6Enabled" => next.at \in Switches(s)
    BY <1>2 DEF Allowed
  <2>2. \A d \in Switches(s) : s.tool = "configure_host_ipv6" /\ d = s.dev
    BY DEF Switches
  <2>3. QED BY Zenon, <2>1, <2>2
<1>4. ~(s.tool = "configure_host_ipv6" /\ s.dev = r.dev)
  <2> SUFFICES ASSUME s.tool = "configure_host_ipv6", s.dev = r.dev PROVE FALSE
    OBVIOUS
  <2>1. HostTopics(r) = HostTopics(s)
    BY Zenon DEF HostTopics
  <2>2. [dev |-> r.dev, about |-> r.tool] \in HostTopics(r)
    BY DEF HostTopics
  <2>3. QED BY <2>1, <2>2
<1> HIDE DEF s, next
<1>5. next.op # "setIpv6Enabled" \/ r.dev # next.at
  BY <1>3, <1>4
<1>6. HostAnswer(p, next).pt.hosts[r.dev].on6 = p.hosts[r.dev].on6
  <2>1. r.dev \in Hosts \ {next.at} \/ next.op # "setIpv6Enabled"
    BY <1>5
  <2>2. HostsFit(p)
    BY Zenon, <1>1
  <2>3. /\ next.op # "setIpv6Enabled" => \A e \in Hosts : HostAnswer(p, next).pt.hosts[e].on6 = p.hosts[e].on6
        /\ \A e \in Hosts \ {next.at} : HostAnswer(p, next).pt.hosts[e].on6 = p.hosts[e].on6
    BY Zenon, <2>2, HostKeeps
  <2>4. QED BY Zenon, <2>1, <2>3
<1>7. q = HostAnswer(p, next).pt
  BY Zenon, <1>1 DEF next
<1> HIDE DEF q
<1>8. q.hosts[r.dev].on6 = p.hosts[r.dev].on6
  BY <1>6, <1>7
<1>9. q.hosts[r.dev].on6
  BY Zenon, <1>8
<1>10. QED BY Zenon, <1>9 DEF q

----------------------------------------------------------------------------
\* All four.

\* Each part has its own.
LEMMA Prudence ==
  ASSUME NEW p, NEW c, Ready(p, c), Sensible(p.part, c.req), Whole(c.req), AllHeard(c.seen),
         Learnt(p, c.req, c.seen), c.seen # <<>> => ~Ended(c.next)
  PROVE  Prudent(p, c)
<1>1. p.part \in Careful
  BY Zenon, WhatReadyMeans
<1>2. c.req.tool # "set_host_firewall" /\ c.req.tool # "unlock_activity"
  BY DEF Whole
<1>3. CASE p.part = "links"
  BY Zenon, <1>3, LinksPrudent
<1>4. CASE p.part = "hosts"
  BY Zenon, <1>2, <1>4, HostsPrudent
<1>5. CASE p.part = "preferences"
  BY Zenon, <1>5, PreferencesPrudent
<1>6. CASE p.part = "activity"
  BY Zenon, <1>2, <1>6, ActivityPrudent
<1>7. QED BY Zenon, <1>1, <1>3, <1>4, <1>5, <1>6 DEF Careful

\* A call that is about something else takes back nothing.
LEMMA OthersLeave ==
  ASSUME NEW p, NEW c, Ready(p, c), NEW r \in Asks[p.part], ~Meets(p.part, r, c.req), NEW seen, Learnt(p, r, seen)
  PROVE  /\ Learnt(Answer(p, c.next).pt, r, seen)
         /\ Altered(p, r, seen) => Altered(Answer(p, c.next).pt, r, seen)
<1> DEFINE q == NextReply(p, c).pt
<1> SUFFICES Learnt(q, r, seen) /\ (Altered(p, r, seen) => Altered(q, r, seen))
  BY Zenon DEF NextReply
<1>1. p.part \in Careful
  BY Zenon, WhatReadyMeans
<1>2. TopicsIn(p.part, r) \cap TopicsIn(p.part, c.req) = {}
  BY Zenon DEF Meets
<1>3. CASE p.part = "links"
  <2>1. q.part = "links"
    BY Zenon, <1>3, LinksReady
  <2>2. LinkTopics(r) \cap LinkTopics(c.req) = {}
    BY Zenon, <1>2, <1>3 DEF TopicsIn
  <2>3. ASSUME r.tool = "connect" /\ Len(seen) > 4
        PROVE  /\ \E l \in q.links : l.a = r.a /\ l.b = r.b /\ l.cable # "wireless"
               /\ Exists(q, r.a) /\ Exists(q, r.b)
    <3>1. PICK l \in p.links : l.a = r.a /\ l.b = r.b /\ l.cable # "wireless"
      BY Zenon, <1>3, <2>3, LinkLearnt
    <3>2. Exists(p, r.a) /\ Exists(p, r.b)
      BY Zenon, <1>3, <2>3, LinkLearnt
    <3>3. l \in q.links /\ Exists(q, r.a) /\ Exists(q, r.b)
      BY Zenon, <1>3, <2>2, <2>3, <3>1, <3>2, LinksOthers
    <3>4. QED BY Zenon, <3>1, <3>3
  <2> HIDE DEF q
  <2>4. QED BY Zenon, <1>3, <2>1, <2>3, LinkLearnt
<1>4. CASE p.part = "hosts"
  <2>1. q.part = "hosts"
    BY Zenon, <1>4, HostsReady
  <2>2. HostTopics(r) \cap HostTopics(c.req) = {}
    BY Zenon, <1>2, <1>4 DEF TopicsIn
  <2>3. ASSUME r.tool = "configure_host_ipv6"
        PROVE  /\ Len(seen) > 0 => r.dev \in Hosts
               /\ Len(seen) > 2 /\ r.mode = "static" => r.dev \in Hosts /\ q.hosts[r.dev].on6
    <3>1. /\ Len(seen) > 0 => r.dev \in Hosts
          /\ Len(seen) > 2 /\ r.mode = "static" => r.dev \in Hosts /\ p.hosts[r.dev].on6
      BY Zenon, <1>4, <2>3, HostsLearnt
    <3>2. QED BY Zenon, <1>4, <2>2, <2>3, <3>1, HostsOthers
  <2> HIDE DEF q
  <2>4. QED BY Zenon, <1>4, <2>1, <2>3, HostsLearnt
<1>5. CASE p.part = "preferences"
  <2>1. q.part = "preferences"
    BY Zenon, <1>5, PreferencesReady
  <2> HIDE DEF q
  <2>2. QED BY Zenon, <1>5, <2>1 DEF Altered, Learnt
<1>6. CASE p.part = "activity"
  <2>1. q.part = "activity"
    BY Zenon, <1>6, ActivityReady
  <2>2. ActivityTopics(r) \cap ActivityTopics(c.req) = {}
    BY Zenon, <1>2, <1>6 DEF TopicsIn
  <2>3. ASSUME r.tool \in {"check_activity", "reset_activity"}
        PROVE  q.activity = p.activity /\ q.unlocked = p.unlocked
    BY <1>6, <2>2, <2>3, ActivityOthers
  <2> HIDE DEF q
  <2>4. QED BY Zenon, <1>6, <2>1, <2>3, ActivityLearnt
<1>7. QED BY Zenon, <1>1, <1>3, <1>4, <1>5, <1>6 DEF Careful

\* Nor does the network by itself.
LEMMA SettlingLeaves ==
  ASSUME NEW p, PartFits(p), NEW q \in Settled(p), NEW r, NEW seen, Learnt(p, r, seen)
  PROVE  Learnt(q, r, seen) /\ (Altered(p, r, seen) => Altered(q, r, seen))
<1>1. CASE HostsFit(p)
  <2>1. p.part = "hosts" /\ q.part = "hosts"
    BY Zenon, <1>1, HostsSettle DEF HostsFit
  <2>2. ASSUME r.tool = "configure_host_ipv6"
        PROVE  /\ Len(seen) > 0 => r.dev \in Hosts
               /\ Len(seen) > 2 /\ r.mode = "static" => r.dev \in Hosts /\ q.hosts[r.dev].on6
    <3>1. /\ Len(seen) > 0 => r.dev \in Hosts
          /\ Len(seen) > 2 /\ r.mode = "static" => r.dev \in Hosts /\ p.hosts[r.dev].on6
      BY Zenon, <2>1, <2>2, HostsLearnt
    <3>2. QED BY Zenon, <1>1, <3>1, HostsSettle
  <2>3. QED BY Zenon, <2>1, <2>2, HostsLearnt
<1>2. CASE p.part \in {"links", "preferences", "activity"}
  <2>1. Settled(p) = {}
    <3>1. p.part # "hosts" /\ p.part # "desktop" /\ p.part # "wireless"
      BY <1>2
    <3>2. QED BY Zenon, <3>1 DEF Settled
  <2>2. QED BY <2>1
<1>3. QED BY Zenon, <1>1, <1>2 DEF PartFits, LinksFit, PreferencesFit, ActivityFits

\* A look-up of a list stays a number with the next answer.
LEMMA CountedMore ==
  ASSUME NEW p, NEW c, Ready(p, c), NEW reply,
         c.next.soft \/ (reply = Told(Answer(p, c.next)) /\ Answer(p, c.next).is \in c.next.need)
  PROVE  Counted(p.part, c.req, Append(c.seen, reply))
<1> DEFINE more == Append(c.seen, reply)
<1>1. CASE p.part = "links"
  <2>1. /\ c.req.tool = "list_links" /\ Len(more) > 0 => more[1].data \in Nat
        /\ c.req.tool = "list_ports" /\ Len(more) > 1 => more[2].data \in Nat
    BY Zenon, <1>1, LinksCounted
  <2> HIDE DEF more
  <2>2. Counted(p.part, c.req, more)
    BY Zenon, <1>1, <2>1 DEF Counted
  <2>3. QED BY Zenon, <2>2 DEF more
<1>2. CASE p.part = "activity"
  <2>1. c.req.tool = "check_activity" /\ Len(more) > 3 => more[4].data \in 0..Tests
    BY Zenon, <1>2, ActivityCounted
  <2> HIDE DEF more
  <2>2. Counted(p.part, c.req, more)
    BY Zenon, <1>2, <2>1 DEF Counted
  <2>3. QED BY Zenon, <2>2 DEF more
<1>3. CASE ~(p.part = "links") /\ ~(p.part = "activity")
  BY Zenon, <1>3 DEF Counted
<1>4. QED BY Zenon, <1>1, <1>2, <1>3

\* A call that has heard nothing relies on nothing.
LEMMA NothingLearnt ==
  ASSUME NEW p, p.part \in Careful, NEW r
  PROVE  Learnt(p, r, <<>>) /\ Counted(p.part, r, <<>>)
<1> DEFINE seen == <<>>
<1>1. ~(Len(seen) > 0) /\ ~(Len(seen) > 1) /\ ~(Len(seen) > 2) /\ ~(Len(seen) > 3) /\ ~(Len(seen) > 4)
  OBVIOUS
<1> HIDE DEF seen
<1>2. Learnt(p, r, seen)
  <2>1. CASE p.part = "links"
    BY Zenon, <1>1, <2>1, LinkLearnt
  <2>2. CASE p.part = "hosts"
    BY Zenon, <1>1, <2>2, HostsLearnt
  <2>3. CASE p.part = "preferences"
    BY Zenon, <2>3 DEF Learnt
  <2>4. CASE p.part = "activity"
    BY Zenon, <1>1, <2>4, ActivityLearnt
  <2>5. QED BY Zenon, <2>1, <2>2, <2>3, <2>4 DEF Careful
<1>3. Counted(p.part, r, seen)
  BY Zenon, <1>1 DEF Counted
<1>4. QED BY Zenon, <1>2, <1>3 DEF seen

\* The part stays well-formed.
LEMMA PartFitsKept ==
  ASSUME PartFits(pt), pt.part \in Careful, pt.part \in DOMAIN Asks, ToolCallsFit(pt.part, toolcall),
         [ToolNext]_toolvars
  PROVE  PartFits(pt') /\ pt'.part = pt.part
<1>1. \/ pt' = pt \/ pt' \in Settled(pt)
      \/ \E t \in Tasks : AtWork(t) /\ pt' = Answer(pt, toolcall[t].next).pt
  BY Zenon, StepsAreAnswers
<1>2. CASE pt' = pt
  BY Zenon, <1>2
<1>3. CASE HostsFit(pt)
  <2>1. pt.part = "hosts"
    BY Zenon, <1>3 DEF HostsFit
  <2>2. HostsFit(pt')
    BY Zenon, <1>3, <2>1, HostsKept
  <2>3. QED BY Zenon, <2>1, <2>2 DEF PartFits, HostsFit
<1>4. CASE pt.part \in {"links", "preferences", "activity"}
  <2>1. Settled(pt) = {}
    <3>1. pt.part # "hosts" /\ pt.part # "desktop" /\ pt.part # "wireless"
      BY <1>4
    <3>2. QED BY Zenon, <3>1 DEF Settled
  <2>2. pt' = pt \/ \E c : pt' = Answer(pt, c).pt
    BY <1>1, <2>1
  <2>3. ASSUME NEW c, pt' = Answer(pt, c).pt
        PROVE  PartFits(pt') /\ pt'.part = pt.part
    <3>1. CASE LinksFit(pt) /\ IsFiniteSet(pt.links) /\ pt.devs \subseteq DOMAIN PortsOf
      <4>1. pt.part = "links"
        BY Zenon, <3>1 DEF LinksFit
      <4>2. pt' = LinkAnswer(pt, c).pt
        BY Zenon, <2>3, <4>1 DEF Answer
      <4>3. LinksFit(pt') /\ IsFiniteSet(pt'.links) /\ pt'.devs \subseteq DOMAIN PortsOf
        BY Zenon, <3>1, <4>2, LinksAnswer, LinksStayFinite
      <4>4. QED BY Zenon, <4>1, <4>3 DEF PartFits, LinksFit
    <3>2. CASE PreferencesFit(pt)
      <4>1. pt.part = "preferences"
        BY Zenon, <3>2 DEF PreferencesFit
      <4>2. pt' = PreferenceAnswer(pt, c).pt
        BY Zenon, <2>3, <4>1 DEF Answer
      <4>3. PreferencesFit(pt')
        BY Zenon, <3>2, <4>2, PreferencesAnswer
      <4>4. QED BY Zenon, <4>1, <4>3 DEF PartFits, PreferencesFit
    <3>3. CASE ActivityFits(pt)
      <4>1. pt.part = "activity"
        BY Zenon, <3>3 DEF ActivityFits
      <4>2. pt' = ActivityAnswer(pt, c).pt
        BY Zenon, <2>3, <4>1 DEF Answer
      <4>3. ActivityFits(pt')
        BY Zenon, <3>3, <4>2, ActivityAnswers
      <4>4. QED BY Zenon, <4>1, <4>3 DEF PartFits, ActivityFits
    <3>4. QED BY Zenon, <1>3, <3>1, <3>2, <3>3 DEF PartFits
  <2>4. QED BY Zenon, <1>2, <2>2, <2>3
<1>5. QED BY Zenon, <1>3, <1>4 DEF PartFits, LinksFit, PreferencesFit, ActivityFits

----------------------------------------------------------------------------
\* What the calls know, and that refusals change nothing.

Heeding ==
  /\ pt.part \in Careful /\ pt.part \in DOMAIN Asks /\ PartFits(pt)
  /\ ToolCallsFit(pt.part, toolcall)
  /\ \A t \in Tasks : CallHeeds(pt, toolcall[t])
  /\ Marked(pt.part, toolcall)

RefusedUnchanged(t) ==
  CallReturns(t, "refused") /\ ~toolcall[t].crossed /\ Whole(toolcall[t].req) => ~toolcall[t].changed /\ pt' = pt

\* A call at work is ready.
LEMMA CallsReady ==
  ASSUME Heeding, NEW t \in Tasks, AtWork(t)
  PROVE  Ready(pt, toolcall[t])
BY Zenon DEF Heeding, Ready, ToolCallsFit, CallHeeds, AtWork

\* A call goes on by what it has learnt when another one takes a step.
LEMMA OthersHeed ==
  ASSUME Heeding, NEW t \in Tasks, AtWork(t), pt' = pt \/ pt' = Answer(pt, toolcall[t].next).pt, pt'.part = pt.part,
         NEW o \in Tasks \ {t}
  PROVE  CallHeeds(pt', toolcall[o])
<1> DEFINE c == toolcall[o]
<1>1. CallHeeds(pt, c) /\ ToolCallFits(pt.part, c)
  BY Zenon DEF Heeding, ToolCallsFit
<1>2. CASE pt' = pt
  BY Zenon, <1>1, <1>2
<1>3. CASE pt' = Answer(pt, toolcall[t].next).pt
  <2> SUFFICES ASSUME c.on, ~c.crossed, Whole(c.req), AllHeard(c.seen)
               PROVE  (c.changed => Altered(pt', c.req, c.seen)) /\ Learnt(pt', c.req, c.seen)
    BY Zenon, <1>1 DEF CallHeeds, Heedful
  <2>1. Ready(pt, toolcall[t])
    BY Zenon, CallsReady
  <2>2. ~Meets(pt.part, c.req, toolcall[t].req)
    BY Zenon DEF Heeding, Marked, AtWork
  <2>3. Learnt(pt, c.req, c.seen) /\ (c.changed => Altered(pt, c.req, c.seen)) /\ c.req \in Asks[pt.part]
    BY Zenon, <1>1 DEF CallHeeds, Heedful, ToolCallFits
  <2>4. QED BY Zenon, <1>3, <2>1, <2>2, <2>3, OthersLeave
<1>4. QED BY Zenon, <1>2, <1>3

\* A call that nothing crossed is prudent.
LEMMA Prudently ==
  ASSUME Heeding, NEW t \in Tasks, AtWork(t), ~toolcall[t].crossed, Whole(toolcall[t].req), AllHeard(toolcall[t].seen)
  PROVE  /\ Prudent(pt, toolcall[t])
         /\ toolcall[t].changed => Altered(pt, toolcall[t].req, toolcall[t].seen)
<1> DEFINE c == toolcall[t]
<1>1. Ready(pt, c)
  BY Zenon, CallsReady
<1>2. /\ Sensible(pt.part, c.req) /\ (c.seen # <<>> => ~Ended(c.next))
      /\ Learnt(pt, c.req, c.seen) /\ (c.changed => Altered(pt, c.req, c.seen))
  BY Zenon DEF Heeding, CallHeeds, Heedful, AtWork
<1>3. QED BY Zenon, <1>1, <1>2, Prudence

\* Calls go by what they have learnt after a step of one of them, and a refusal has
\* changed nothing.
LEMMA StepsHeed ==
  ASSUME Heeding, NEW t \in Tasks, ToolSteps(t), pt'.part = pt.part
  PROVE  /\ \A o \in Tasks : CallHeeds(pt', toolcall'[o])
         /\ Marked(pt.part, toolcall')
         /\ \A o \in Tasks : RefusedUnchanged(o)
<1> DEFINE c == toolcall[t]
           d == toolcall'[t]
           answer == Answer(pt, c.next)
           more == Append(c.seen, Told(answer))
<1>1. /\ AtWork(t) /\ (Quits(t) \/ Learns(t) \/ LearnsNot(t))
      /\ \A o \in Tasks \ {t} : toolcall'[o] = toolcall[o]
  BY Zenon, StepsOfTask DEF Heeding
<1>2. pt' = pt \/ pt' = answer.pt
  BY Zenon DEF ToolSteps, Answered, AnsweredWith, RequestLost, ReplyLost
<1>3. \A o \in Tasks \ {t} : CallHeeds(pt', toolcall'[o])
  BY Zenon, <1>1, <1>2, OthersHeed
<1>4. pt.part \in Planned /\ IsSeq(c.seen) /\ CallHeeds(pt, c) /\ c.on
  <2>1. pt.part \in Planned
    BY DEF Heeding, Careful, Planned
  <2>2. QED BY Zenon, <1>1, <2>1 DEF Heeding, ToolCallsFit, ToolCallFits, AtWork
<1>5. Following(c.req, more) = ItemAfter(PlanIn(pt.part, c.req, more), Len(more))
  BY Zenon, <1>4, PlansInParts
<1>6. CASE Quits(t)
  <2>1. ~d.on /\ d.seen = <<>> /\ ~d.changed
    BY Zenon, <1>6 DEF Quits
  <2>2. CallHeeds(pt', d)
    BY Zenon, <2>1 DEF CallHeeds, Heedful
  <2>3. Marked(pt.part, toolcall')
    BY Zenon, <1>1, <2>1 DEF Heeding, Marked
  <2>4. ASSUME d.result = "refused", ~c.crossed, Whole(c.req)
        PROVE  ~c.changed /\ pt' = pt
    <3>1. /\ AllHeard(c.seen) /\ pt' = answer.pt
          /\ \/ answer.is \notin c.next.need
             \/ answer.is \in c.next.need /\ Following(c.req, more).op = "refuse"
      BY Zenon, <1>6, <2>4 DEF Quits
    <3>2. Prudent(pt, c) /\ (c.changed => Altered(pt, c.req, c.seen))
      BY Zenon, <1>1, <2>4, <3>1, Prudently
    <3> HIDE DEF more
    <3>3. answer.pt = pt /\ ~Altered(pt, c.req, c.seen)
      BY Zenon, <1>5, <3>1, <3>2 DEF Prudent, more
    <3>4. QED BY Zenon, <3>1, <3>2, <3>3
  <2>5. \A o \in Tasks : RefusedUnchanged(o)
    BY Zenon, <1>1, <2>4 DEF RefusedUnchanged, CallReturns, AtWork
  <2>6. QED BY Zenon, <1>3, <2>2, <2>3, <2>5
<1>7. ASSUME NEW reply, Proceeds(t, reply), Learns(t) \/ LearnsNot(t),
             c.next.soft \/ (reply = Told(answer) /\ answer.is \in c.next.need),
             ASSUME ~c.crossed, Whole(c.req), AllHeard(d.seen)
             PROVE  (d.changed => Altered(pt', d.req, d.seen)) /\ Learnt(pt', d.req, d.seen)
      PROVE  /\ \A o \in Tasks : CallHeeds(pt', toolcall'[o])
             /\ Marked(pt.part, toolcall')
             /\ \A o \in Tasks : RefusedUnchanged(o)
  <2>1. /\ d.on = c.on /\ d.req = c.req /\ d.seen = Append(c.seen, reply) /\ d.crossed = c.crossed
        /\ d.next = Following(c.req, d.seen) /\ ~Ended(d.next)
    BY Zenon, <1>7 DEF Proceeds
  <2>2. Counted(pt.part, c.req, Append(c.seen, reply))
    <3>1. Ready(pt, c)
      BY Zenon, <1>1, CallsReady
    <3>2. QED BY Zenon, <1>7, <3>1, CountedMore
  <2>3. d.seen # <<>>
    <3>1. Len(Append(c.seen, reply)) = Len(c.seen) + 1 /\ Len(c.seen) \in Nat
      BY Zenon, <1>4, OneMoreAtEnd, SequenceLaws
    <3>2. Len(Append(c.seen, reply)) > 0 /\ Len(<<>>) = 0
      BY <3>1
    <3> HIDE DEF c, d
    <3>3. Len(d.seen) > 0
      BY Zenon, <2>1, <3>2
    <3>4. QED BY <3>2, <3>3
  <2>4. Heedful(pt', d)
    BY Zenon, <1>7, <2>1 DEF Heedful
  <2>5. Sensible(pt.part, d.req)
    BY Zenon, <1>4, <2>1 DEF CallHeeds
  <2>6. CallHeeds(pt', d)
    BY Zenon, <2>1, <2>2, <2>3, <2>4, <2>5 DEF CallHeeds
  <2>7. Marked(pt.part, toolcall')
    BY Zenon, <1>1, <1>4, <2>1 DEF Heeding, Marked, AtWork
  <2>8. \A o \in Tasks : RefusedUnchanged(o)
    BY Zenon, <1>1, <1>4, <2>1 DEF RefusedUnchanged, CallReturns, AtWork
  <2>9. QED BY Zenon, <1>3, <2>6, <2>7, <2>8
<1>8. CASE Learns(t)
  <2>1. pt' = answer.pt /\ answer.is \in c.next.need /\ Proceeds(t, Told(answer))
    BY Zenon, <1>8 DEF Learns
  <2>2. /\ d.req = c.req /\ d.seen = more /\ d.crossed = c.crossed
        /\ d.next = Following(c.req, d.seen) /\ ~Ended(d.next)
        /\ d.changed = (c.changed \/ pt' # pt)
    BY Zenon, <2>1 DEF Proceeds
  <2>3. ASSUME ~c.crossed, Whole(c.req), AllHeard(d.seen)
        PROVE  (d.changed => Altered(pt', d.req, d.seen)) /\ Learnt(pt', d.req, d.seen)
    <3>1. AllHeard(c.seen)
      <4> DEFINE reply == Told(answer)
      <4> HIDE DEF reply
      <4>1. AllHeard(Append(c.seen, reply)) => AllHeard(c.seen)
        BY Zenon, <1>4, HeardSoFar
      <4>2. d.seen = Append(c.seen, reply)
        BY Zenon, <2>2 DEF reply
      <4>3. QED BY Zenon, <2>3, <4>1, <4>2
    <3>2. Prudent(pt, c) /\ (c.changed => Altered(pt, c.req, c.seen))
      BY Zenon, <1>1, <2>3, <3>1, Prudently
    <3> HIDE DEF more
    <3>3. /\ Learnt(answer.pt, c.req, more)
          /\ Altered(pt, c.req, c.seen) \/ answer.pt # pt => Altered(answer.pt, c.req, more)
      BY Zenon, <1>5, <2>1, <2>2, <3>2 DEF Prudent, more
    <3>4. QED BY Zenon, <2>1, <2>2, <3>2, <3>3
  <2> HIDE DEF more, answer
  <2>4. QED BY Zenon, <1>7, <1>8, <2>1, <2>3
<1>9. CASE LearnsNot(t)
  <2> DEFINE lost == [is |-> "lost", data |-> ""]
  <2>1. c.next.soft /\ Proceeds(t, lost)
    BY Zenon, <1>9 DEF LearnsNot
  <2>2. ~AllHeard(d.seen)
    <3>1. d.seen = Append(c.seen, lost)
      BY Zenon, <2>1 DEF Proceeds
    <3>2. lost.is = "lost"
      OBVIOUS
    <3> HIDE DEF lost
    <3>3. QED BY Zenon, <1>4, <3>1, <3>2, HeardSoFar
  <2> HIDE DEF lost
  <2>3. QED BY Zenon, <1>7, <1>9, <2>1, <2>2
<1>10. QED BY Zenon, <1>1, <1>6, <1>8, <1>9

\* And after the start of one.
LEMMA StartsHeed ==
  ASSUME Heeding, NEW t \in Tasks, ToolStarts(t), pt'.part = pt.part
  PROVE  /\ \A o \in Tasks : CallHeeds(pt', toolcall'[o])
         /\ Marked(pt.part, toolcall')
         /\ \A o \in Tasks : RefusedUnchanged(o)
<1> DEFINE d == toolcall'[t]
<1>1. toolcall[t].seen = <<>> => ~toolcall[t].changed
  BY Zenon DEF Heeding, CallHeeds
<1>2. /\ ~AtWork(t) /\ pt' = pt
      /\ \/ ~d.on /\ d.seen = <<>> /\ ~d.changed /\ \A o \in Tasks \ {t} : toolcall'[o] = toolcall[o]
         \/ \E r \in Asks[pt.part] : Starts(t, r)
  BY Zenon, <1>1, StartsOfTask DEF Heeding
<1>3. CASE ~d.on /\ d.seen = <<>> /\ ~d.changed /\ \A o \in Tasks \ {t} : toolcall'[o] = toolcall[o]
  <2>1. \A o \in Tasks : CallHeeds(pt', toolcall'[o])
    BY Zenon, <1>2, <1>3 DEF Heeding, CallHeeds, Heedful
  <2>2. Marked(pt.part, toolcall')
    BY Zenon, <1>3 DEF Heeding, Marked
  <2>3. \A o \in Tasks : RefusedUnchanged(o)
    BY Zenon, <1>2, <1>3 DEF RefusedUnchanged, CallReturns, AtWork
  <2>4. QED BY Zenon, <2>1, <2>2, <2>3
<1>4. ASSUME NEW r \in Asks[pt.part], Starts(t, r)
      PROVE  /\ \A o \in Tasks : CallHeeds(pt', toolcall'[o])
             /\ Marked(pt.part, toolcall')
             /\ \A o \in Tasks : RefusedUnchanged(o)
  <2>1. d.on /\ d.req = r /\ d.seen = <<>> /\ ~d.changed /\ d.next = Following(r, <<>>) /\ d.next.op # "refuse"
    BY Zenon, <1>4 DEF Starts
  <2>2. pt.part \in Planned /\ pt.part \in Careful
    BY DEF Heeding, Careful, Planned
  <2>3. Sensible(pt.part, r)
    <3>1. Len(<<>>) = 0
      OBVIOUS
    <3>2. Following(r, <<>>) = ItemAfter(PlanIn(pt.part, r, <<>>), 0)
      BY Zenon, <2>2, <3>1, PlansInParts
    <3>3. QED BY Zenon, <2>1, <3>2 DEF Sensible
  <2>4. Learnt(pt, r, <<>>) /\ Counted(pt.part, r, <<>>)
    BY Zenon, <2>2, NothingLearnt
  <2>5. CallHeeds(pt', d)
    BY Zenon, <1>2, <2>1, <2>3, <2>4 DEF CallHeeds, Heedful
  <2>6. ASSUME NEW o \in Tasks \ {t}
        PROVE  CallHeeds(pt', toolcall'[o])
    <3>1. CallHeeds(pt, toolcall[o]) /\ Crossed(toolcall[o], toolcall'[o])
      BY Zenon, <1>4 DEF Heeding, Starts
    <3>2. QED BY Zenon, <1>2, <3>1 DEF CallHeeds, Heedful, Crossed
  <2>7. ASSUME NEW o \in Tasks \ {t}, toolcall'[o].on, \/ Meets(pt.part, r, toolcall'[o].req)
                                                    \/ Meets(pt.part, toolcall'[o].req, r)
        PROVE  d.crossed /\ toolcall'[o].crossed
    <3>1. Crossed(toolcall[o], toolcall'[o])
      BY Zenon, <1>4 DEF Starts
    <3>2. \A s : Topics(s) = TopicsIn(pt.part, s)
      BY Zenon, <2>2 DEF Topics, TopicsIn, Careful
    <3>3. \A a, b : Meets(pt.part, a, b) => Interferes(b, a) /\ Interferes(a, b)
      BY <3>2 DEF Meets, Interferes
    <3>4. Interferes(toolcall[o].req, r) /\ AtWork(o)
      BY Zenon, <2>7, <3>1, <3>3 DEF Crossed, AtWork
    <3>5. QED BY Zenon, <1>4, <3>4 DEF Starts
  <2>8. Marked(pt.part, toolcall')
    <3> SUFFICES ASSUME NEW o \in Tasks, NEW u \in Tasks, o # u, toolcall'[o].on, toolcall'[u].on,
                        Meets(pt.part, toolcall'[o].req, toolcall'[u].req)
                 PROVE  toolcall'[o].crossed /\ toolcall'[u].crossed
      BY Zenon DEF Marked
    <3>1. CASE o = t
      BY Zenon, <2>1, <2>7, <3>1
    <3>2. CASE u = t
      BY Zenon, <2>1, <2>7, <3>2
    <3>3. CASE o # t /\ u # t
      <4>1. Crossed(toolcall[o], toolcall'[o]) /\ Crossed(toolcall[u], toolcall'[u])
        BY Zenon, <1>4, <3>3 DEF Starts
      <4>2. QED BY Zenon, <4>1 DEF Heeding, Marked, Crossed
    <3>4. QED BY Zenon, <3>1, <3>2, <3>3
  <2>9. ASSUME NEW o \in Tasks
        PROVE  RefusedUnchanged(o)
    <3>1. CASE o = t
      BY Zenon, <1>2, <3>1 DEF RefusedUnchanged, CallReturns
    <3>2. CASE o # t
      <4>1. Crossed(toolcall[o], toolcall'[o])
        BY Zenon, <1>4, <3>2 DEF Starts
      <4>2. QED BY Zenon, <4>1 DEF RefusedUnchanged, CallReturns, AtWork, Crossed
    <3>3. QED BY Zenon, <3>1, <3>2
  <2>10. QED BY Zenon, <2>5, <2>6, <2>8, <2>9
<1>5. QED BY Zenon, <1>2, <1>3, <1>4

\* And after any step.
LEMMA HeedingKept ==
  ASSUME Heeding, [ToolNext]_toolvars
  PROVE  Heeding' /\ \A t \in Tasks : RefusedUnchanged(t)
<1>1. PartFits(pt') /\ pt'.part = pt.part
  BY Zenon, PartFitsKept DEF Heeding
<1>2. pt.part \in Planned
  BY DEF Heeding, Careful, Planned
<1>3. ToolCallsFit(pt.part, toolcall')
  BY Zenon, <1>2, ToolCallsKept DEF Heeding
<1>4. /\ \A o \in Tasks : CallHeeds(pt', toolcall'[o])
      /\ Marked(pt.part, toolcall')
      /\ \A o \in Tasks : RefusedUnchanged(o)
  <2>1. ASSUME toolcall' = toolcall, pt' = pt \/ pt' \in Settled(pt)
        PROVE  /\ \A o \in Tasks : CallHeeds(pt', toolcall'[o])
               /\ Marked(pt.part, toolcall')
               /\ \A o \in Tasks : RefusedUnchanged(o)
    <3>1. \A r, seen : Learnt(pt, r, seen) => Learnt(pt', r, seen) /\ (Altered(pt, r, seen) => Altered(pt', r, seen))
      <4>1. CASE pt' = pt
        BY Zenon, <4>1
      <4>2. CASE pt' \in Settled(pt)
        BY Zenon, <4>2, SettlingLeaves DEF Heeding
      <4>3. QED BY Zenon, <2>1, <4>1, <4>2
    <3>2. \A o \in Tasks : CallHeeds(pt', toolcall'[o])
      BY Zenon, <1>1, <2>1, <3>1 DEF Heeding, CallHeeds, Heedful
    <3>3. Marked(pt.part, toolcall')
      BY Zenon, <2>1 DEF Heeding
    <3>4. \A o \in Tasks : RefusedUnchanged(o)
      BY Zenon, <2>1 DEF RefusedUnchanged, CallReturns, AtWork
    <3>5. QED BY Zenon, <3>2, <3>3, <3>4
  <2>2. \/ toolcall' = toolcall /\ (pt' = pt \/ pt' \in Settled(pt))
        \/ \E t \in Tasks : ToolStarts(t) \/ ToolSteps(t)
    BY Zenon DEF ToolNext, Settle, toolvars
  <2>3. CASE \E t \in Tasks : ToolStarts(t) \/ ToolSteps(t)
    BY Zenon, <1>1, <2>3, StartsHeed, StepsHeed
  <2>4. QED BY Zenon, <2>1, <2>2, <2>3
<1>5. Heeding'
  BY Zenon, <1>1, <1>3, <1>4 DEF Heeding
<1>6. QED BY Zenon, <1>4, <1>5

\* What Packet Tracer holds at first names its part.
LEMMA PartsNamed ==
  ASSUME NEW part \in {"services", "desktop", "physical", "wireless", "simulation", "canvas", "modules", "ipc"},
         NEW p \in Begins(part)
  PROVE  p.part = part
<1>1. CASE part = "physical"
  <2>1. p \in PhysicalInit
    BY Zenon, <1>1 DEF Begins
  <2>2. PICK nodes : p = [part |-> "physical", physical |-> FALSE, logical |-> "", gen |-> 0, nodes |-> nodes]
    BY Zenon, <2>1 DEF PhysicalInit
  <2>3. QED BY Zenon, <1>1, <2>2
<1>2. CASE part = "ipc"
  <2>1. p \in IpcInit
    BY Zenon, <1>2 DEF Begins
  <2>2. QED BY <1>2, <2>1 DEF IpcInit
<1>3. CASE part \in {"services", "desktop", "wireless", "simulation", "canvas", "modules"}
  BY Zenon, <1>3, ServicesBegin, DesktopBegins, SimulationBegins, SlotsBegin, CanvasBegins, WirelessBegins
     DEF Begins, ServicesFit, DesktopFits, SimulationFits, SlotsFit, CanvasFits, WirelessFits
<1>4. QED BY Zenon, <1>1, <1>2, <1>3

\* Nothing is at work at first.
LEMMA HeedingBegins ==
  ASSUME ToolInit, pt.part \in Careful
  PROVE  Heeding
<1>1. PICK part \in DOMAIN Asks : pt \in Begins(part)
  BY Zenon DEF ToolInit
<1>2. part \in {"links", "hosts", "services", "desktop", "physical", "wireless", "simulation",
                "preferences", "activity", "canvas", "modules", "ipc"}
  BY Zenon, AsksAssumption
<1>3. pt.part = part /\ PartFits(pt)
  <2>1. CASE part = "links"
    <3>1. pt \in LinkInit
      BY Zenon, <1>1, <2>1 DEF Begins
    <3>2. LinksFit(pt)
      BY Zenon, <3>1, LinksBegin
    <3>3. IsFiniteSet(pt.links) /\ pt.devs \subseteq DOMAIN PortsOf
      <4> DEFINE one == [a |-> Radio, b |-> Station, cable |-> "wireless"]
      <4>1. pt.devs = DOMAIN PortsOf /\ pt.links \subseteq {one}
        BY <3>1 DEF LinkInit
      <4> HIDE DEF one
      <4>2. IsFiniteSet({one})
        BY FS_Singleton
      <4>3. IsFiniteSet(pt.links)
        BY <4>1, <4>2, FS_Subset
      <4>4. QED BY <4>1, <4>3
    <3>4. QED BY Zenon, <2>1, <3>2, <3>3 DEF PartFits, LinksFit
  <2>2. CASE part = "hosts"
    BY Zenon, <1>1, <2>2, HostsBegin DEF Begins, PartFits, HostsFit
  <2>3. CASE part = "preferences"
    BY Zenon, <1>1, <2>3, PreferencesBegin DEF Begins, PartFits, PreferencesFit
  <2>4. CASE part = "activity"
    BY Zenon, <1>1, <2>4, ActivityBegins DEF Begins, PartFits, ActivityFits
  <2>5. CASE part \in {"services", "desktop", "physical", "wireless", "simulation", "canvas", "modules", "ipc"}
    <3>1. pt.part = part
      BY Zenon, <1>1, <2>5, PartsNamed
    <3>2. QED BY <2>5, <3>1 DEF Careful
  <2>6. QED BY Zenon, <1>2, <2>1, <2>2, <2>3, <2>4, <2>5
<1>4. ASSUME NEW t \in Tasks
      PROVE  toolcall[t] = Idle
  BY Zenon DEF ToolInit
<1>5. ~Idle.on /\ ~Idle.changed
  BY Zenon DEF Idle
<1>6. /\ ToolCallsFit(pt.part, toolcall)
      /\ \A t \in Tasks : CallHeeds(pt, toolcall[t])
      /\ Marked(pt.part, toolcall)
  <2>1. ToolCallsFit(pt.part, toolcall)
    BY Zenon, IdleFits DEF ToolInit, ToolCallsFit
  <2>2. ASSUME NEW t \in Tasks
        PROVE  ~toolcall[t].on /\ ~toolcall[t].changed
    BY Zenon, <1>4, <1>5
  <2>3. \A t \in Tasks : CallHeeds(pt, toolcall[t])
    BY Zenon, <2>2 DEF CallHeeds, Heedful
  <2>4. Marked(pt.part, toolcall)
    BY Zenon, <2>2 DEF Marked
  <2>5. QED BY Zenon, <2>1, <2>3, <2>4
<1>7. QED BY Zenon, <1>1, <1>3, <1>6 DEF Heeding

\* Among the links, the hosts, the preferences and the activity, a tool that refuses has
\* changed nothing, however many calls are at work and whichever answers are lost: unless
\* it works off a list, or it ran beside a call about the same thing.
THEOREM RefusedToolsChangeNothing == NetworkSpec /\ pt.part \in Careful => ToolRefusalsChangeNothing
<1>1. NetworkInit /\ pt.part \in Careful => Heeding
  <2>1. NoTool => pt.part = "none"
    BY DEF NoTool
  <2>2. "none" \notin Careful
    BY DEF Careful
  <2>3. QED BY Zenon, <2>1, <2>2, HeedingBegins DEF NetworkInit
<1>2. ASSUME Heeding, [NetworkNext]_<<vars, toolvars>>
      PROVE  [ToolNext]_toolvars
  <2>1. pt.part # "none"
    BY <1>2 DEF Heeding, Careful
  <2>2. QED BY Zenon, <1>2, <2>1 DEF NetworkNext, toolvars
<1>3. Heeding /\ [NetworkNext]_<<vars, toolvars>> => Heeding'
  BY Zenon, <1>2, HeedingKept
<1>4. ASSUME Heeding, [NetworkNext]_<<vars, toolvars>>, NEW t \in Tasks,
             CallReturns(t, "refused"), ~toolcall[t].crossed, ~Piecemeal(toolcall[t].req)
      PROVE  ~toolcall[t].changed /\ pt' = pt
  <2>1. RefusedUnchanged(t)
    BY Zenon, <1>2, <1>4, HeedingKept
  <2>2. Whole(toolcall[t].req)
    BY <1>4 DEF Piecemeal, Whole
  <2>3. QED BY Zenon, <1>4, <2>1, <2>2 DEF RefusedUnchanged
<1>5. Heeding /\ [NetworkNext]_<<vars, toolvars>> =>
        [\A t \in Tasks :
           CallReturns(t, "refused") /\ ~toolcall[t].crossed /\ ~Piecemeal(toolcall[t].req)
           => ~toolcall[t].changed /\ pt' = pt]_toolvars
  BY Zenon, <1>4
<1>6. QED BY <1>1, <1>3, <1>5, PTL DEF NetworkSpec, ToolRefusalsChangeNothing
=============================================================================

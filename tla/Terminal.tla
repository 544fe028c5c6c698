------------------------------- MODULE Terminal -------------------------------
(***************************************************************************)
(* Commands typed at Packet Tracer's terminals and the events they raise.  *)
(*                                                                         *)
(* A run (run_host_command, run_cli) subscribes to the events of its       *)
(* terminal, types one command, gathers what the terminal prints until the *)
(* command ends, asks something or takes too long, and unsubscribes.  A    *)
(* watch (watch_events) subscribes and gathers, and types nothing.  All of *)
(* them share one session: its subscriptions at Packet Tracer are a set of *)
(* keys, and every event reaches the bounded buffer of every listener.     *)
(* Requests go down one ordered connection, so a subscription acts before  *)
(* the command typed after it; events and answers come back up it.         *)
(***************************************************************************)
EXTENDS Integers, Sequences

CONSTANTS
  Runs,         \* run_host_command and run_cli calls
  Watchers,     \* watch_events calls on a terminal
  Nobody,       \* no call
  Lines,        \* terminals
  Overlap,      \* whether two calls may be on one terminal at the same time
  Buffer,       \* events a listener may be behind (EVENT_BUFFER)
  Limit,        \* events a watch stops after (max_events)
  MaxPrinted,   \* bound: texts a command prints
  MaxSessions   \* bound: connections made, the first included

Tasks == Runs \cup Watchers

ASSUME TerminalAssumption ==
  /\ Runs \cap Watchers = {} /\ Nobody \notin Runs \cup Watchers
  /\ Overlap \in BOOLEAN
  /\ Buffer \in Nat \ {0} /\ Limit \in Nat \ {0}
  /\ MaxPrinted \in Nat /\ MaxSessions \in Nat \ {0}

VARIABLES
  lineOf,    \* the terminal each run or watch is about
  phase,     \* what each terminal is doing
  typist,    \* the run whose input each terminal works on
  printed,   \* how many texts that command has printed
  lasted,    \* how many texts each run's command printed in all, once it ended
  up,        \* the current connection stands
  session,   \* the number of the current connection
  subs,      \* the subscriptions of the current connection
  owed,      \* the calls Packet Tracer has read and not answered
  wire,      \* events and answers the reader task has not read
  pc,        \* where each call stands
  step,      \* subscriptions made or withdrawn so far
  heard,     \* the connection each listener's receiver belongs to
  rx,        \* the events waiting in each receiver
  missed,    \* the receiver has lost events
  output,    \* the texts or events gathered
  grace,     \* the interrupt key has been pressed
  result,    \* what the call returned
  fresh      \* the terminal was quiet when the call started

terminals == <<lineOf, phase, typist, printed, lasted>>
link == <<up, session, subs, owed, wire>>
ears == <<heard, rx, missed>>
task == <<pc, step, output, grace, result, fresh>>
vars == <<lineOf, phase, typist, printed, lasted, up, session, subs, owed, wire,
          pc, step, heard, rx, missed, output, grace, result, fresh>>

Running == -1   \* in `lasted`: the command has not ended
Names == <<"outputWritten", "commandEnded", "moreDisplayed">>
Keys(t) == {<<lineOf[t], Names[i]>> : i \in 1 .. 3}

(* What comes up the wire.  `by` is the run that typed the command. *)
Written(l, n, asks) ==
  [name |-> "outputWritten", line |-> l, by |-> typist[l], n |-> n, asks |-> asks]
Signal(name, l) == [name |-> name, line |-> l, by |-> typist[l], n |-> 0, asks |-> FALSE]
Answer(t) == [name |-> "answer", line |-> lineOf[t], by |-> t, n |-> 0, asks |-> FALSE]

Init ==
  /\ lineOf \in [Tasks -> Lines]
  /\ phase = [l \in Lines |-> "prompt"]
  /\ typist = [l \in Lines |-> Nobody]
  /\ printed = [l \in Lines |-> 0]
  /\ lasted = [t \in Runs |-> Running]
  /\ up = TRUE /\ session = 1 /\ subs = {} /\ owed = {} /\ wire = <<>>
  /\ pc = [t \in Tasks |-> "idle"]
  /\ step = [t \in Tasks |-> 0]
  /\ heard = [t \in Tasks |-> 0]
  /\ rx = [t \in Tasks |-> <<>>]
  /\ missed = [t \in Tasks |-> FALSE]
  /\ output = [t \in Tasks |-> <<>>]
  /\ grace = [t \in Tasks |-> FALSE]
  /\ result = [t \in Tasks |-> "none"]
  /\ fresh = [t \in Tasks |-> FALSE]

-----------------------------------------------------------------------------
(* Packet Tracer's terminals *)

(* An event goes to a client that subscribed to it. *)
Notice(event) == IF <<event.line, event.name>> \in subs THEN <<event>> ELSE <<>>
Emit(notices) == wire' = IF up THEN wire \o notices ELSE wire

(* A text may look like a question although the command goes on. *)
Prints(l) ==
  /\ phase[l] = "running" /\ printed[l] < MaxPrinted
  /\ printed' = [printed EXCEPT ![l] = @ + 1]
  /\ \E asks \in BOOLEAN :
       /\ Emit(Notice(Written(l, printed[l] + 1, asks)))
       /\ \E next \in IF asks THEN {"asking", "running"} ELSE {"running"} :
            phase' = [phase EXCEPT ![l] = next]
  /\ UNCHANGED <<lineOf, typist, lasted, up, session, subs, owed, ears, task>>

(* The text that fills a page: the command waits for a key. *)
Pauses(l) ==
  /\ phase[l] = "running" /\ printed[l] < MaxPrinted
  /\ printed' = [printed EXCEPT ![l] = @ + 1]
  /\ phase' = [phase EXCEPT ![l] = "more"]
  /\ Emit(Notice(Written(l, printed[l] + 1, FALSE)) \o Notice(Signal("moreDisplayed", l)))
  /\ UNCHANGED <<lineOf, typist, lasted, up, session, subs, owed, ears, task>>

EndCommand(l) ==
  /\ phase' = [phase EXCEPT ![l] = "prompt"]
  /\ lasted' = [lasted EXCEPT ![typist[l]] = printed[l]]
  /\ Emit(Notice(Signal("commandEnded", l)))

Ends(l) ==
  /\ phase[l] = "running"
  /\ EndCommand(l)
  /\ UNCHANGED <<lineOf, typist, printed, up, session, subs, owed, ears, task>>

Answers(t) ==
  /\ t \in owed
  /\ owed' = owed \ {t}
  /\ wire' = Append(wire, Answer(t))
  /\ UNCHANGED <<terminals, up, session, subs, ears, task>>

(* The connection is lost; the terminals go on. *)
Lost ==
  /\ up
  /\ up' = FALSE /\ subs' = {} /\ owed' = {} /\ wire' = <<>>
  /\ UNCHANGED <<terminals, session, ears, task>>

Pt == Lost \/ (\E l \in Lines : Prints(l) \/ Pauses(l) \/ Ends(l)) \/ \E t \in owed : Answers(t)

-----------------------------------------------------------------------------
(* The session: read_loop, and whoever calls next replaces a lost connection. *)

(* A receiver exists from the first subscription on; nobody reads it while leaving. *)
Hearing(t) == heard[t] = session /\ pc[t] \notin {"leaving", "done"}

(* Mutant: the buffer grows without limit. *)
Push_Unbounded(buffer, event) == Append(buffer, event)

(* A full buffer loses its oldest event; the receiver only learns that it lagged. *)
Push(buffer, event) ==
  IF Len(buffer) < Buffer THEN Append(buffer, event) ELSE Append(Tail(buffer), event)

Broadcast(event) ==
  /\ rx' = [t \in Tasks |-> IF Hearing(t) THEN Push(rx[t], event) ELSE rx[t]]
  /\ missed' = [t \in Tasks |-> missed[t] \/ (Hearing(t) /\ Len(rx[t]) = Buffer)]
  /\ UNCHANGED pc

Awaiting == {"typed", "paged", "interrupted"}

(* An answer to a call that has given up is ignored. *)
Deliver ==
  /\ wire # <<>>
  /\ wire' = Tail(wire)
  /\ LET m == Head(wire) IN
       IF m.name # "answer" THEN Broadcast(m)
       ELSE /\ pc' = IF pc[m.by] \in Awaiting THEN [pc EXCEPT ![m.by] = "collecting"] ELSE pc
            /\ UNCHANGED <<rx, missed>>
  /\ UNCHANGED <<terminals, up, session, subs, owed, step, heard, output, grace, result, fresh>>

Calling(t) == pc[t] \in {"subscribing", "typing", "paging", "interrupting", "leaving"}

Reconnect ==
  /\ ~up /\ session < MaxSessions
  /\ \E t \in Tasks : Calling(t)
  /\ up' = TRUE /\ session' = session + 1
  /\ UNCHANGED <<terminals, subs, owed, wire, ears, task>>

-----------------------------------------------------------------------------
(* Terminal::run and events::watch *)

Go(t, to) == pc' = [pc EXCEPT ![t] = to]

Quiet(l) == phase[l] \in {"prompt", "asking"} /\ \A i \in DOMAIN wire : wire[i].line # l

(* Clients that take turns on a terminal, unless Overlap allows two at once. *)
Start(t) ==
  /\ pc[t] = "idle"
  /\ Overlap \/ \A u \in Tasks \ {t} : lineOf[u] = lineOf[t] => pc[u] \in {"idle", "done"}
  /\ Go(t, "subscribing")
  /\ fresh' = [fresh EXCEPT ![t] = Quiet(lineOf[t])]
  /\ UNCHANGED <<terminals, link, ears, step, output, grace, result>>

(* Mutant: the second subscription is passed over. *)
SubscribeNext_SkipsOne(t) ==
  /\ pc[t] = "subscribing" /\ up
  /\ subs' = subs \cup {<<lineOf[t], Names[step[t] + 1]>>}
  /\ step' = [step EXCEPT ![t] = @ + 2]
  /\ heard' = IF step[t] = 0 THEN [heard EXCEPT ![t] = session] ELSE heard
  /\ IF step[t] < 2 THEN UNCHANGED pc
     ELSE Go(t, IF t \in Runs THEN "typing" ELSE "collecting")
  /\ UNCHANGED <<terminals, up, session, owed, wire, rx, missed, output, grace, result, fresh>>

(* The receiver is created before the first subscription is sent. *)
SubscribeNext(t) ==
  /\ pc[t] = "subscribing" /\ up
  /\ subs' = subs \cup {<<lineOf[t], Names[step[t] + 1]>>}
  /\ step' = [step EXCEPT ![t] = @ + 1]
  /\ heard' = IF step[t] = 0 THEN [heard EXCEPT ![t] = session] ELSE heard
  /\ IF step[t] < 2 THEN UNCHANGED pc
     ELSE Go(t, IF t \in Runs THEN "typing" ELSE "collecting")
  /\ UNCHANGED <<terminals, up, session, owed, wire, rx, missed, output, grace, result, fresh>>

(* A subscription that cannot be sent ends the call where it stands. *)
SubscribeFails(t) ==
  /\ pc[t] = "subscribing" /\ ~up
  /\ Go(t, "done")
  /\ result' = [result EXCEPT ![t] = "error"]
  /\ UNCHANGED <<terminals, link, ears, step, output, grace, fresh>>

(* What Packet Tracer does with a call is decided when it reads it. *)
Sent(t, to) ==
  /\ up
  /\ Go(t, to)
  /\ owed' = owed \cup {t}
  /\ UNCHANGED <<lineOf, up, session, subs, ears, step, output, grace, result, fresh>>

(* enterCommand: a command at a prompt, an answer to a question, otherwise lost. *)
Type(t) ==
  /\ pc[t] = "typing"
  /\ Sent(t, "typed")
  /\ LET l == lineOf[t] IN
       IF phase[l] \in {"prompt", "asking"}
       THEN /\ typist' = [typist EXCEPT ![l] = t]
            /\ phase' = [phase EXCEPT ![l] = "running"]
            /\ printed' = [printed EXCEPT ![l] = 0]
       ELSE UNCHANGED <<typist, phase, printed>>
  /\ UNCHANGED <<lasted, wire>>

(* enterChar with a space: the next page. *)
PressSpace(t) ==
  /\ pc[t] = "paging"
  /\ Sent(t, "paged")
  /\ phase' = [phase EXCEPT ![lineOf[t]] = IF @ = "more" THEN "running" ELSE @]
  /\ UNCHANGED <<typist, printed, lasted, wire>>

(* enterChar with Ctrl+C or Ctrl+Shift+6: Packet Tracer stops the command. *)
Interrupt(t) ==
  /\ pc[t] = "interrupting"
  /\ up /\ owed' = owed \cup {t}
  /\ Go(t, "interrupted")
  /\ grace' = [grace EXCEPT ![t] = TRUE]
  /\ IF phase[lineOf[t]] = "prompt" THEN UNCHANGED <<phase, lasted, wire>>
     ELSE EndCommand(lineOf[t])
  /\ UNCHANGED <<lineOf, typist, printed, up, session, subs, ears, step, output, result, fresh>>

(* The receiver is not read again. *)
Finish(t, what) ==
  /\ Go(t, "leaving")
  /\ rx' = [rx EXCEPT ![t] = <<>>]
  /\ result' = [result EXCEPT ![t] = what]
  /\ step' = [step EXCEPT ![t] = 0]

(* No connection, no answer in time, or the connection lost before the answer. *)
CallFails(t) ==
  /\ pc[t] \in Awaiting \/ (pc[t] \in {"typing", "paging", "interrupting"} /\ ~up)
  /\ Finish(t, "error")
  /\ UNCHANGED <<terminals, link, heard, missed, output, grace, fresh>>

Question(t) == output[t] # <<>> /\ output[t][Len(output[t])].asks

TakeEvent(t) ==
  /\ pc[t] = "collecting" /\ rx[t] # <<>>
  /\ UNCHANGED <<terminals, link, heard, missed, grace, fresh>>

GoOn(t) == rx' = [rx EXCEPT ![t] = Tail(@)] /\ UNCHANGED <<step, result>>
PassOver(t) == GoOn(t) /\ UNCHANGED <<pc, output>>
Gather(t) == output' = [output EXCEPT ![t] = Append(@, Head(rx[t]))]

(* What a run does with an event of its terminal. *)
Handle(t, event) ==
  \/ event.name = "outputWritten" /\ Gather(t) /\ GoOn(t) /\ UNCHANGED pc
  \/ event.name = "moreDisplayed" /\ Go(t, "paging") /\ GoOn(t) /\ UNCHANGED output
  \/ /\ event.name = "commandEnded" /\ UNCHANGED output
     /\ Finish(t, IF grace[t] THEN "stopped" ELSE IF Question(t) THEN "question" ELSE "finished")

(* Mutant: the events of every terminal count. *)
Take_AnyTerminal(t) == t \in Runs /\ TakeEvent(t) /\ Handle(t, Head(rx[t]))

(* Mutant: a full page clears what was gathered. *)
Take_ClearsAtMore(t) ==
  /\ t \in Runs /\ TakeEvent(t)
  /\ LET event == Head(rx[t]) IN
       \/ event.line # lineOf[t] /\ PassOver(t)
       \/ event.line = lineOf[t] /\ event.name # "moreDisplayed" /\ Handle(t, event)
       \/ /\ event.line = lineOf[t] /\ event.name = "moreDisplayed"
          /\ Go(t, "paging") /\ GoOn(t)
          /\ output' = [output EXCEPT ![t] = <<>>]

Take(t) ==
  /\ t \in Runs /\ TakeEvent(t)
  /\ IF Head(rx[t]).line = lineOf[t] THEN Handle(t, Head(rx[t])) ELSE PassOver(t)

WatchTake(t) ==
  /\ t \in Watchers /\ TakeEvent(t)
  /\ IF Head(rx[t]).line # lineOf[t] THEN PassOver(t)
     ELSE /\ Gather(t)
          /\ IF Len(output[t]) + 1 = Limit THEN Finish(t, "truncated") ELSE GoOn(t) /\ UNCHANGED pc

(* Mutant: a run that times out returns without pressing the interrupt key. *)
Timeout_NoInterrupt(t) ==
  /\ pc[t] = "collecting"
  /\ Finish(t, IF t \in Watchers THEN "seen" ELSE IF Question(t) THEN "question" ELSE "stopped")
  /\ UNCHANGED <<terminals, link, heard, missed, output, grace, fresh>>

(* Mutant: only a question that settles ends the wait. *)
Timeout_OnlyQuestion(t) ==
  /\ pc[t] = "collecting" /\ Question(t)
  /\ Finish(t, IF t \in Watchers THEN "seen" ELSE IF grace[t] THEN "stopped" ELSE "question")
  /\ UNCHANGED <<terminals, link, heard, missed, output, grace, fresh>>

(***************************************************************************)
(* The deadline or the settle time of a question.  Usually nothing is left *)
(* to take then, but tokio lets the deadline in when the task has used up  *)
(* its budget, so it may come at any time.                                 *)
(***************************************************************************)
Timeout(t) ==
  /\ pc[t] = "collecting"
  /\ IF t \in Runs /\ ~grace[t] /\ ~Question(t)
     THEN Go(t, "interrupting") /\ UNCHANGED <<step, result, rx>>
     ELSE Finish(t, IF t \in Watchers THEN "seen" ELSE IF grace[t] THEN "stopped" ELSE "question")
  /\ UNCHANGED <<terminals, link, heard, missed, output, grace, fresh>>

(* The channel closes once the session it belongs to has been replaced. *)
ReceiverCloses(t) ==
  /\ pc[t] = "collecting" /\ heard[t] # session /\ rx[t] = <<>>
  /\ Finish(t, IF t \in Watchers THEN "seen" ELSE "error")
  /\ UNCHANGED <<terminals, link, heard, missed, output, grace, fresh>>

(* Mutant: the first subscription is left in place. *)
UnsubscribeNext_SkipsFirst(t) ==
  /\ pc[t] = "leaving"
  /\ subs' = subs \ {<<lineOf[t], Names[i]>> : i \in {step[t] + 1} \ {1}}
  /\ step' = [step EXCEPT ![t] = @ + 1]
  /\ IF step[t] < 2 THEN UNCHANGED pc ELSE Go(t, "done")
  /\ UNCHANGED <<terminals, up, session, owed, wire, ears, output, grace, result, fresh>>

(* Withdrawn on whatever connection there is now; errors are only logged. *)
UnsubscribeNext(t) ==
  /\ pc[t] = "leaving"
  /\ subs' = subs \ {<<lineOf[t], Names[step[t] + 1]>>}
  /\ step' = [step EXCEPT ![t] = @ + 1]
  /\ IF step[t] < 2 THEN UNCHANGED pc ELSE Go(t, "done")
  /\ UNCHANGED <<terminals, up, session, owed, wire, ears, output, grace, result, fresh>>

-----------------------------------------------------------------------------
TaskStep(t) ==
  SubscribeNext(t) \/ SubscribeFails(t) \/ Type(t) \/ PressSpace(t) \/ Interrupt(t)
    \/ CallFails(t) \/ Take(t) \/ WatchTake(t) \/ Timeout(t) \/ ReceiverCloses(t)
    \/ UnsubscribeNext(t)

Next == Pt \/ Deliver \/ Reconnect \/ \E t \in Tasks : Start(t) \/ TaskStep(t)

Safety == Init /\ [][Next]_vars

(* Every task is polled and its timers fire; Packet Tracer owes nothing. *)
Spec == Safety /\ \A t \in Tasks : WF_vars(TaskStep(t))

-----------------------------------------------------------------------------
(* Properties *)

Items == [name : {"outputWritten", "commandEnded", "moreDisplayed", "answer"}, line : Lines,
          by : Tasks \cup {Nobody}, n : 0 .. MaxPrinted, asks : BOOLEAN]

(* Types of all variables; no receiver holds more events than the buffer has room for. *)
TypeOK ==
  /\ lineOf \in [Tasks -> Lines]
  /\ phase \in [Lines -> {"prompt", "running", "more", "asking"}]
  /\ typist \in [Lines -> Runs \cup {Nobody}]
  /\ printed \in [Lines -> 0 .. MaxPrinted]
  /\ lasted \in [Runs -> {Running} \cup 0 .. MaxPrinted]
  /\ up \in BOOLEAN /\ session \in 1 .. MaxSessions
  /\ subs \subseteq Lines \X {"outputWritten", "commandEnded", "moreDisplayed"}
  /\ owed \subseteq Runs
  /\ wire \in Seq(Items)
  /\ pc \in [Tasks -> {"idle", "subscribing", "typing", "typed", "collecting", "paging", "paged",
                       "interrupting", "interrupted", "leaving", "done"}]
  /\ step \in [Tasks -> 0 .. 3]
  /\ heard \in [Tasks -> 0 .. MaxSessions]
  /\ rx \in [Tasks -> Seq(Items)] /\ \A t \in Tasks : Len(rx[t]) <= Buffer
  /\ missed \in [Tasks -> BOOLEAN]
  /\ output \in [Tasks -> Seq(Items)]
  /\ grace \in [Tasks -> BOOLEAN] /\ fresh \in [Tasks -> BOOLEAN]
  /\ result \in [Tasks -> {"none", "finished", "question", "stopped", "error", "seen", "truncated"}]

(***************************************************************************)
(* `finished` is about the command the run typed: with other terminals     *)
(* busy on the same session, and whatever earlier runs left behind, a run  *)
(* that began at a quiet terminal reports the end of its own command.      *)
(***************************************************************************)
FinishedIsOwn ==
  \A t \in Runs : result[t] = "finished" /\ fresh[t] => lasted[t] # Running

Whole(t) ==
  /\ Len(output[t]) = lasted[t]
  /\ \A i \in DOMAIN output[t] : output[t][i].n = i /\ output[t][i].by = t

(***************************************************************************)
(* A run that finishes without having been overtaken by the event buffer   *)
(* returns every text its command printed, in order, pages included, and   *)
(* nothing of any other command.                                           *)
(***************************************************************************)
WholeOutput ==
  \A t \in Runs : result[t] = "finished" /\ fresh[t] /\ ~missed[t] => Whole(t)

(***************************************************************************)
(* As host_console/README.md has it: "no output can be missed", and "the   *)
(* agent always receives the whole output".                                *)
(***************************************************************************)
NoOutputMissed == \A t \in Runs : result[t] = "finished" /\ fresh[t] => Whole(t)

(***************************************************************************)
(* "The console is free again for the next command": a run that gave up on *)
(* its command leaves the terminal at its prompt, whatever the command and *)
(* the clock did meanwhile, until somebody types again.                    *)
(***************************************************************************)
FreeAfterReturn ==
  \A t \in Runs : result[t] = "stopped" /\ typist[lineOf[t]] = t => phase[lineOf[t]] = "prompt"

Listening(t) ==
  pc[t] \in {"typing", "collecting", "paging", "interrupting"} \cup Awaiting
    /\ up /\ heard[t] = session

(* A run or a watch is subscribed to all its events as long as it listens for them. *)
SubscribedWhileListening == \A t \in Tasks : Listening(t) => Keys(t) \subseteq subs

(***************************************************************************)
(* As events/README.md has it: "An MCP client that runs tool calls in      *)
(* parallel can watch while another call acts".                            *)
(***************************************************************************)
WatchWhileActing == \A t \in Watchers : Listening(t) => Keys(t) \subseteq subs

(* Once nobody listens any more, Packet Tracer has no subscription left to serve. *)
NothingLeftSubscribed == (\A t \in Tasks : pc[t] \in {"idle", "done"}) => subs = {}

(* Every run and every watch returns, whatever Packet Tracer does. *)
EveryRunReturns == \A t \in Tasks : (pc[t] = "subscribing") ~> (pc[t] = "done")
==============================================================================

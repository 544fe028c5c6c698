---------------------------- MODULE TerminalProofs ----------------------------
(***************************************************************************)
(* Proofs about the terminals, for any number of runs, watches, terminals  *)
(* and connections and any size of the event buffer: who listens is        *)
(* subscribed, nothing is left subscribed, a run that gives up leaves the  *)
(* terminal free, `finished` is about the command the run typed, and a run *)
(* that the event buffer has not overtaken returns all that this command   *)
(* printed, in order.                                                      *)
(***************************************************************************)
EXTENDS Terminal, SequenceTheorems, TLAPS

-----------------------------------------------------------------------------
(* The invariant of all calls *)

Steps == {"idle", "subscribing", "typing", "typed", "collecting", "paging", "paged",
          "interrupting", "interrupted", "leaving", "done"}
AtWork(t) == pc[t] \in {"collecting", "paging", "interrupting"} \cup Awaiting
Early == {"idle", "subscribing", "typing"}
Active(t) == pc[t] \notin {"idle", "done"}

(* Where a call stands agrees with what it has done so far. *)
StepFits(t) ==
  /\ t \in Watchers => pc[t] \in {"idle", "subscribing", "collecting", "leaving", "done"}
  /\ pc[t] \in {"idle", "subscribing", "leaving"} => step[t] < 3
  /\ pc[t] = "idle" => step[t] = 0
  /\ pc[t] \in {"idle", "subscribing"} /\ step[t] = 0 => heard[t] = 0 /\ rx[t] = <<>>
  /\ pc[t] \in Early => ~grace[t] /\ output[t] = <<>>
  /\ pc[t] \notin {"leaving", "done"} => result[t] = "none"
  /\ heard[t] <= session
StepsFit == \A t \in Tasks : StepFits(t)

(* A terminal works for the run that typed last, and that run for its own terminal. *)
TypistFit(l) ==
  /\ typist[l] = Nobody => phase[l] = "prompt"
  /\ typist[l] # Nobody =>
       /\ lineOf[typist[l]] = l /\ pc[typist[l]] \notin Early
       /\ phase[l] = "prompt" <=> lasted[typist[l]] # Running
       /\ phase[l] = "prompt" => lasted[typist[l]] = printed[l]
TypistFits ==
  /\ \A l \in Lines : TypistFit(l)
  /\ \A t \in Runs : pc[t] \in Early => lasted[t] = Running

(* A run that has pressed the interrupt key has freed its terminal. *)
GraceFrees ==
  \A t \in Runs :
    /\ grace[t] /\ typist[lineOf[t]] = t => phase[lineOf[t]] = "prompt"
    /\ result[t] = "stopped" => grace[t]

(* Every subscription belongs to a call that has not withdrawn it yet. *)
Owns(t, k) ==
  \E i \in 1 .. 3 : k = <<lineOf[t], Names[i]>> /\ Active(t) /\ (pc[t] = "leaving" => step[t] < i)
SubsHaveOwner ==
  /\ ~up => subs = {} /\ owed = {} /\ wire = <<>>
  /\ \A k \in subs : \E t \in Tasks : Owns(t, k)

Inductive == TypeOK /\ StepsFit /\ TypistFits /\ GraceFrees /\ SubsHaveOwner

-----------------------------------------------------------------------------
(* The invariant of calls that take turns on each terminal *)

InTurn ==
  \A t, u \in Tasks : t # u /\ lineOf[t] = lineOf[u] => ~Active(t) \/ ~Active(u)

(* Who listens on this connection has made its subscriptions, as far as it has got. *)
Subscribed(t) ==
  up /\ heard[t] = session /\ (AtWork(t) \/ pc[t] \in {"subscribing", "typing"}) =>
    \A i \in 1 .. 3 : (pc[t] = "subscribing" => i <= step[t]) => <<lineOf[t], Names[i]>> \in subs
HasSubscribed == \A t \in Tasks : Subscribed(t)

(* What a run takes from the events of its terminal. *)
IsText(event, l) == event.line = l /\ event.name = "outputWritten"
IsEnd(event, l) == event.line = l /\ event.name = "commandEnded"

-----------------------------------------------------------------------------
(* Types *)

TerminalsOK ==
  /\ lineOf \in [Tasks -> Lines]
  /\ phase \in [Lines -> {"prompt", "running", "more", "asking"}]
  /\ typist \in [Lines -> Runs \cup {Nobody}]
  /\ printed \in [Lines -> 0 .. MaxPrinted]
  /\ lasted \in [Runs -> {Running} \cup 0 .. MaxPrinted]

LinkOK ==
  /\ up \in BOOLEAN /\ session \in 1 .. MaxSessions
  /\ subs \subseteq Lines \X {"outputWritten", "commandEnded", "moreDisplayed"}
  /\ owed \subseteq Runs
  /\ wire \in Seq(Items)

EarsOK ==
  /\ heard \in [Tasks -> 0 .. MaxSessions]
  /\ rx \in [Tasks -> Seq(Items)] /\ \A t \in Tasks : Len(rx[t]) <= Buffer
  /\ missed \in [Tasks -> BOOLEAN]

CallsOK ==
  /\ pc \in [Tasks -> Steps]
  /\ step \in [Tasks -> 0 .. 3]
  /\ output \in [Tasks -> Seq(Items)]
  /\ grace \in [Tasks -> BOOLEAN] /\ fresh \in [Tasks -> BOOLEAN]
  /\ result \in [Tasks -> {"none", "finished", "question", "stopped", "error", "seen", "truncated"}]

LEMMA TypeParts ==
  /\ TypeOK <=> TerminalsOK /\ LinkOK /\ EarsOK /\ CallsOK
  /\ TypeOK' <=> TerminalsOK' /\ LinkOK' /\ EarsOK' /\ CallsOK'
BY DEF TypeOK, TerminalsOK, LinkOK, EarsOK, CallsOK, Steps

(* What is left alone keeps its type. *)
LEMMA PartsKept ==
  /\ TerminalsOK /\ UNCHANGED terminals => TerminalsOK'
  /\ LinkOK /\ UNCHANGED link => LinkOK'
  /\ EarsOK /\ UNCHANGED ears => EarsOK'
  /\ CallsOK /\ UNCHANGED task => CallsOK'
BY DEF TerminalsOK, terminals, LinkOK, link, EarsOK, ears, CallsOK, task

LEMMA EmitTyped ==
  ASSUME wire \in Seq(Items), NEW notices \in Seq(Items), Emit(notices)
  PROVE  wire' \in Seq(Items)
BY DEF Emit

LEMMA NoticeTyped ==
  ASSUME NEW event \in Items
  PROVE  Notice(event) \in Seq(Items)
BY DEF Notice

LEMMA ItemsTyped ==
  ASSUME TypeOK, NEW l \in Lines
  PROVE  /\ \A n \in 0 .. MaxPrinted, asks \in BOOLEAN : Written(l, n, asks) \in Items
         /\ \A name \in {"commandEnded", "moreDisplayed"} : Signal(name, l) \in Items
         /\ \A t \in Runs : Answer(t) \in Items
<1> USE DEF TypeOK, Tasks, Items
<1>1. \A n \in 0 .. MaxPrinted, asks \in BOOLEAN : Written(l, n, asks) \in Items
  BY DEF Written
<1>2. \A name \in {"commandEnded", "moreDisplayed"} : Signal(name, l) \in Items
  BY TerminalAssumption DEF Signal
<1>3. \A t \in Runs : Answer(t) \in Items
  BY TerminalAssumption DEF Answer
<1>4. QED BY <1>1, <1>2, <1>3

LEMMA PushTyped ==
  ASSUME TerminalAssumption, NEW buffer \in Seq(Items), NEW event \in Items, Len(buffer) <= Buffer
  PROVE  /\ Push(buffer, event) \in Seq(Items) /\ Len(Push(buffer, event)) <= Buffer
         /\ Len(buffer) < Buffer => Push(buffer, event) = Append(buffer, event)
BY DEF Push, TerminalAssumption

(* A command ends at its terminal. *)
LEMMA EndTyped ==
  ASSUME TypeOK, NEW l \in Lines, EndCommand(l)
  PROVE  /\ phase' \in [Lines -> {"prompt", "running", "more", "asking"}]
         /\ lasted' \in [Runs -> {Running} \cup 0 .. MaxPrinted]
         /\ wire' \in Seq(Items)
<1>1. wire' \in Seq(Items)
  BY ItemsTyped, NoticeTyped, EmitTyped DEF EndCommand, TypeOK
<1>2. QED BY <1>1 DEF EndCommand, TypeOK

(***************************************************************************)
(* The steps with which a call only reads what it hears: it takes an       *)
(* event, gives up, or is told that there is nothing more to hear.         *)
(***************************************************************************)
Listens(t) == CallFails(t) \/ Take(t) \/ WatchTake(t) \/ Timeout(t) \/ ReceiverCloses(t)

Results == {"none", "finished", "question", "stopped", "error", "seen", "truncated"}

(* Such a step ends the call, *)
Quits(t) ==
  /\ pc'[t] = "leaving" /\ step'[t] = 0 /\ rx'[t] = <<>>
  /\ \/ output'[t] = output[t]
     \/ t \in Watchers /\ rx[t] # <<>> /\ output'[t] = Append(output[t], Head(rx[t]))
  /\ result'[t] \in Results
  /\ result'[t] = "stopped" => grace[t]
  /\ result'[t] = "finished" =>
       t \in Runs /\ pc[t] = "collecting" /\ rx[t] # <<>> /\ IsEnd(Head(rx[t]), lineOf[t])

(* or lets it go on, with an event less to take, or none taken. *)
GoesOnListening(t) ==
  /\ pc[t] = "collecting" /\ pc'[t] \in {"collecting", "paging", "interrupting"}
  /\ t \in Watchers => pc'[t] = "collecting"
  /\ step'[t] = step[t] /\ result'[t] = result[t]
  /\ \/ rx'[t] = rx[t] /\ output'[t] = output[t]
     \/ /\ rx[t] # <<>> /\ rx'[t] = Tail(rx[t])
        /\ \/ /\ output'[t] = Append(output[t], Head(rx[t]))
              /\ t \in Runs => IsText(Head(rx[t]), lineOf[t])
           \/ /\ output'[t] = output[t]
              /\ t \in Runs => ~IsText(Head(rx[t]), lineOf[t])

Effect(t) ==
  /\ pc[t] \in Awaiting \cup {"typing", "collecting", "paging", "interrupting"}
  /\ UNCHANGED <<terminals, link, heard, missed, grace, fresh>>
  /\ pc' = [pc EXCEPT ![t] = pc'[t]] /\ step' = [step EXCEPT ![t] = step'[t]]
  /\ rx' = [rx EXCEPT ![t] = rx'[t]] /\ output' = [output EXCEPT ![t] = output'[t]]
  /\ result' = [result EXCEPT ![t] = result'[t]]
  /\ Quits(t) \/ GoesOnListening(t)

LEMMA FinishEffect ==
  ASSUME EarsOK, CallsOK, NEW t \in Tasks, NEW what \in Results, Finish(t, what)
  PROVE  /\ pc' = [pc EXCEPT ![t] = pc'[t]] /\ step' = [step EXCEPT ![t] = step'[t]]
         /\ rx' = [rx EXCEPT ![t] = rx'[t]] /\ result' = [result EXCEPT ![t] = result'[t]]
         /\ pc'[t] = "leaving" /\ step'[t] = 0 /\ rx'[t] = <<>> /\ result'[t] = what
BY DEF Finish, Go, EarsOK, CallsOK

LEMMA ListenStep ==
  ASSUME TypeOK, StepsFit, NEW t \in Tasks, Listens(t)
  PROVE  Effect(t)
<1> EarsOK /\ CallsOK
  BY TypeParts
<1>1. CASE CallFails(t)
  <2>1. Finish(t, "error") /\ UNCHANGED <<terminals, link, heard, missed, output, grace, fresh>>
    BY <1>1 DEF CallFails
  <2>2. pc[t] \in Awaiting \cup {"typing", "collecting", "paging", "interrupting"}
    BY <1>1 DEF CallFails
  <2>3. QED BY <2>1, <2>2, FinishEffect DEF Effect, Quits, Results, CallsOK
<1>2. CASE Take(t)
  <2>1. /\ t \in Runs /\ pc[t] = "collecting" /\ rx[t] # <<>>
        /\ UNCHANGED <<terminals, link, heard, missed, grace, fresh>>
    BY <1>2 DEF Take, TakeEvent
  <2>2. t \notin Watchers
    BY <2>1, TerminalAssumption
  <2> DEFINE event == Head(rx[t])
  <2>3. CASE event.line # lineOf[t]
    BY <1>2, <2>1, <2>2, <2>3
    DEF Take, PassOver, GoOn, Effect, GoesOnListening, IsText, EarsOK, CallsOK
  <2>4. CASE event.line = lineOf[t] /\ event.name = "outputWritten"
    <3>1. Gather(t) /\ GoOn(t) /\ UNCHANGED pc
      BY <1>2, <2>4 DEF Take, Handle
    <3>2. IsText(event, lineOf[t])
      BY <2>4 DEF IsText
    <3>3. QED
      BY <2>1, <2>2, <3>1, <3>2 DEF Gather, GoOn, Effect, GoesOnListening, EarsOK, CallsOK
  <2>5. CASE event.line = lineOf[t] /\ event.name = "moreDisplayed"
    <3>1. Go(t, "paging") /\ GoOn(t) /\ UNCHANGED output
      BY <1>2, <2>5 DEF Take, Handle
    <3>2. ~IsText(event, lineOf[t])
      BY <2>5 DEF IsText
    <3>3. QED
      BY <2>1, <2>2, <3>1, <3>2 DEF Go, GoOn, Effect, GoesOnListening, EarsOK, CallsOK
  <2>6. CASE event.line = lineOf[t] /\ event.name = "commandEnded"
    <3>1. PICK what \in {"stopped", "question", "finished"} :
            Finish(t, what) /\ UNCHANGED output /\ (what = "stopped" => grace[t])
      BY <1>2, <2>6 DEF Take, Handle
    <3>2. IsEnd(event, lineOf[t])
      BY <2>6 DEF IsEnd
    <3>3. QED BY <2>1, <3>1, <3>2, FinishEffect DEF Effect, Quits, Results, CallsOK
  <2>7. event.line # lineOf[t] \/ event.name \in {"outputWritten", "moreDisplayed", "commandEnded"}
    BY <1>2 DEF Take, Handle
  <2>8. QED BY <2>3, <2>4, <2>5, <2>6, <2>7
<1>3. CASE WatchTake(t)
  <2>1. /\ t \in Watchers /\ pc[t] = "collecting" /\ rx[t] # <<>>
        /\ UNCHANGED <<terminals, link, heard, missed, grace, fresh>>
    BY <1>3 DEF WatchTake, TakeEvent
  <2>2. t \notin Runs
    BY <2>1, TerminalAssumption
  <2>3. CASE PassOver(t)
    BY <2>1, <2>2, <2>3 DEF PassOver, GoOn, Effect, GoesOnListening, EarsOK, CallsOK
  <2>4. CASE Gather(t) /\ GoOn(t) /\ UNCHANGED pc
    BY <2>1, <2>2, <2>4 DEF Gather, GoOn, Effect, GoesOnListening, EarsOK, CallsOK
  <2>5. CASE Gather(t) /\ Finish(t, "truncated")
    BY <2>1, <2>5, FinishEffect DEF Gather, Effect, Quits, Results, CallsOK
  <2>6. QED BY <1>3, <2>3, <2>4, <2>5 DEF WatchTake
<1>4. CASE Timeout(t)
  <2>1. /\ pc[t] = "collecting"
        /\ UNCHANGED <<terminals, link, heard, missed, output, grace, fresh>>
    BY <1>4 DEF Timeout
  <2>2. CASE t \in Runs /\ ~grace[t] /\ ~Question(t)
    <3>1. Go(t, "interrupting") /\ UNCHANGED <<step, result, rx>> /\ t \notin Watchers
      BY <1>4, <2>2, TerminalAssumption DEF Timeout
    <3>2. QED BY <2>1, <3>1 DEF Go, Effect, GoesOnListening, EarsOK, CallsOK
  <2>3. CASE ~(t \in Runs /\ ~grace[t] /\ ~Question(t))
    <3>1. PICK what \in {"seen", "stopped", "question"} :
            Finish(t, what) /\ (what = "stopped" => grace[t])
      BY <1>4, <2>3 DEF Timeout
    <3>2. QED BY <2>1, <3>1, FinishEffect DEF Effect, Quits, Results, CallsOK
  <2>4. QED BY <2>2, <2>3
<1>5. CASE ReceiverCloses(t)
  <2>1. PICK what \in {"seen", "error"} : Finish(t, what)
    BY <1>5 DEF ReceiverCloses
  <2>2. pc[t] = "collecting" /\ UNCHANGED <<terminals, link, heard, missed, output, grace, fresh>>
    BY <1>5 DEF ReceiverCloses
  <2>3. QED BY <2>1, <2>2, FinishEffect DEF Effect, Quits, Results, CallsOK
<1>6. QED BY <1>1, <1>2, <1>3, <1>4, <1>5 DEF Listens

(* The other steps leave the calls alone, or are taken by one of them. *)
LEMMA OtherSteps ==
  ASSUME [Next]_vars
  PROVE  \/ UNCHANGED <<ears, task>> /\ session' \in {session, session + 1}
         \/ Deliver
         \/ \E t \in Tasks :
              \/ Start(t) \/ SubscribeNext(t) \/ SubscribeFails(t) \/ Type(t) \/ PressSpace(t)
              \/ Interrupt(t) \/ Listens(t) \/ UnsubscribeNext(t)
<1>1. CASE Pt
  BY <1>1 DEF Pt, Lost, Prints, Pauses, Ends, Answers
<1>2. CASE Reconnect
  BY <1>2 DEF Reconnect
<1>3. CASE UNCHANGED vars
  BY <1>3 DEF vars, ears, task
<1>4. QED BY <1>1, <1>2, <1>3 DEF Next, TaskStep, Listens

(* The steps at a terminal, and those that leave all of them alone. *)
LEMMA TerminalSteps ==
  ASSUME TypeOK, StepsFit, [Next]_vars
  PROVE  \/ UNCHANGED terminals
         \/ \E l \in Lines : Prints(l) \/ Pauses(l) \/ Ends(l)
         \/ \E t \in Tasks : Type(t) \/ PressSpace(t) \/ Interrupt(t)
<1>1. CASE Pt
  BY <1>1 DEF Pt, Lost, Answers
<1>2. CASE Deliver \/ Reconnect \/ UNCHANGED vars
  BY <1>2 DEF Deliver, Reconnect, vars, terminals
<1>3. ASSUME NEW t \in Tasks,
             Start(t) \/ SubscribeNext(t) \/ SubscribeFails(t) \/ UnsubscribeNext(t)
      PROVE  UNCHANGED terminals
  BY <1>3 DEF Start, SubscribeNext, SubscribeFails, UnsubscribeNext
<1>4. ASSUME NEW t \in Tasks, Listens(t) PROVE UNCHANGED terminals
  BY <1>4, ListenStep DEF Effect
<1>5. QED BY <1>1, <1>2, <1>3, <1>4 DEF Next, TaskStep, Listens

LEMMA TypeStep == TypeOK /\ StepsFit /\ [Next]_vars => TypeOK'
<1> SUFFICES ASSUME TerminalsOK, LinkOK, EarsOK, CallsOK, StepsFit, [Next]_vars
             PROVE  TerminalsOK' /\ LinkOK' /\ EarsOK' /\ CallsOK'
  BY TypeParts
<1>0. TypeOK
  BY TypeParts
<1> USE TerminalAssumption
<1>1. CASE Lost
  <2>1. LinkOK'
    BY <1>1, EmptySeq DEF Lost, LinkOK
  <2>2. QED BY <1>1, <2>1, PartsKept DEF Lost
<1>2. ASSUME NEW l \in Lines, Prints(l) PROVE TerminalsOK' /\ LinkOK' /\ EarsOK' /\ CallsOK'
  <2>1. PICK asks \in BOOLEAN :
          /\ Emit(Notice(Written(l, printed[l] + 1, asks)))
          /\ \E next \in {"asking", "running"} : phase' = [phase EXCEPT ![l] = next]
    BY <1>2 DEF Prints
  <2>2. printed[l] + 1 \in 0 .. MaxPrinted
    BY <1>2 DEF Prints, TerminalsOK
  <2>3. wire' \in Seq(Items)
    BY <1>0, <2>1, <2>2, ItemsTyped, NoticeTyped, EmitTyped DEF LinkOK
  <2>4. LinkOK'
    BY <1>2, <2>3 DEF Prints, LinkOK
  <2>5. TerminalsOK'
    BY <1>2, <2>1, <2>2 DEF Prints, TerminalsOK
  <2>6. QED BY <1>2, <2>4, <2>5, PartsKept DEF Prints
<1>3. ASSUME NEW l \in Lines, Pauses(l) PROVE TerminalsOK' /\ LinkOK' /\ EarsOK' /\ CallsOK'
  <2>1. printed[l] + 1 \in 0 .. MaxPrinted
    BY <1>3 DEF Pauses, TerminalsOK
  <2>2. /\ Notice(Written(l, printed[l] + 1, FALSE)) \in Seq(Items)
        /\ Notice(Signal("moreDisplayed", l)) \in Seq(Items)
    BY <1>0, <2>1, ItemsTyped, NoticeTyped
  <2>3. Notice(Written(l, printed[l] + 1, FALSE)) \o Notice(Signal("moreDisplayed", l)) \in Seq(Items)
    BY <2>2, ConcatProperties
  <2>4. wire' \in Seq(Items)
    BY <1>3, <2>3, EmitTyped DEF Pauses, LinkOK
  <2>5. LinkOK' /\ TerminalsOK'
    BY <1>3, <2>1, <2>4 DEF Pauses, LinkOK, TerminalsOK
  <2>6. QED BY <1>3, <2>5, PartsKept DEF Pauses
<1>4. ASSUME NEW l \in Lines, Ends(l) PROVE TerminalsOK' /\ LinkOK' /\ EarsOK' /\ CallsOK'
  <2>1. TerminalsOK' /\ LinkOK'
    BY <1>0, <1>4, EndTyped DEF Ends, TerminalsOK, LinkOK
  <2>2. QED BY <1>4, <2>1, PartsKept DEF Ends
<1>5. ASSUME NEW t \in owed, Answers(t) PROVE TerminalsOK' /\ LinkOK' /\ EarsOK' /\ CallsOK'
  <2>1. t \in Runs
    BY DEF LinkOK
  <2>2. wire' \in Seq(Items)
    <3>1. Lines # {}
      BY <2>1 DEF TerminalsOK, Tasks
    <3>2. Answer(t) \in Items
      BY <1>0, <2>1, <3>1, ItemsTyped
    <3>3. QED BY <1>5, <3>2 DEF Answers, LinkOK
  <2>3. LinkOK'
    BY <1>5, <2>2 DEF Answers, LinkOK
  <2>4. QED BY <1>5, <2>3, PartsKept DEF Answers
<1>6. CASE Deliver
  <2>1. Head(wire) \in Items /\ wire' \in Seq(Items)
    BY <1>6 DEF Deliver, LinkOK
  <2>2. LinkOK' /\ TerminalsOK'
    BY <1>6, <2>1, PartsKept DEF Deliver, LinkOK
  <2>3. CASE Head(wire).name # "answer"
    <3>1. Broadcast(Head(wire)) /\ UNCHANGED <<task, heard>>
      BY <1>6, <2>3 DEF Deliver, Broadcast, task
    <3>2. \A t \in Tasks : rx'[t] \in Seq(Items) /\ Len(rx'[t]) <= Buffer
      BY <2>1, <3>1, PushTyped DEF Broadcast, EarsOK
    <3>3. rx' \in [Tasks -> Seq(Items)] /\ missed' \in [Tasks -> BOOLEAN]
      BY <3>1, <3>2 DEF Broadcast, EarsOK, Hearing
    <3>4. EarsOK'
      BY <3>1, <3>2, <3>3 DEF EarsOK
    <3>5. QED BY <2>2, <3>1, <3>4, PartsKept
  <2>4. CASE Head(wire).name = "answer"
    <3>1. UNCHANGED ears
      BY <1>6, <2>4 DEF Deliver, ears
    <3>2. CallsOK'
      BY <1>6, <2>4 DEF Deliver, CallsOK, Steps
    <3>3. QED BY <2>2, <3>1, <3>2, PartsKept
  <2>5. QED BY <2>3, <2>4, PartsKept
<1>7. CASE Reconnect
  <2>1. LinkOK'
    BY <1>7 DEF Reconnect, LinkOK
  <2>2. QED BY <1>7, <2>1, PartsKept DEF Reconnect
<1>8. ASSUME NEW t \in Tasks, Start(t) PROVE TerminalsOK' /\ LinkOK' /\ EarsOK' /\ CallsOK'
  <2>1. Quiet(lineOf[t]) \in BOOLEAN
    BY DEF Quiet
  <2>2. CallsOK'
    BY <1>8, <2>1 DEF Start, CallsOK, Steps, Go
  <2>3. QED BY <1>8, <2>2, PartsKept DEF Start
<1>9. ASSUME NEW t \in Tasks, SubscribeNext(t)
      PROVE  TerminalsOK' /\ LinkOK' /\ EarsOK' /\ CallsOK'
  <2>1. step[t] + 1 \in 1 .. 3
    <3>1. step[t] < 3
      BY <1>9 DEF SubscribeNext, StepsFit, StepFits
    <3>2. QED BY <3>1 DEF CallsOK
  <2>2. <<lineOf[t], Names[step[t] + 1]>> \in Lines \X {"outputWritten", "commandEnded", "moreDisplayed"}
    BY <2>1 DEF Names, TerminalsOK
  <2>3. LinkOK'
    BY <1>9, <2>2 DEF SubscribeNext, LinkOK
  <2>4. EarsOK'
    BY <1>9 DEF SubscribeNext, LinkOK, EarsOK
  <2>5. CallsOK'
    <3>1. pc' \in [Tasks -> Steps]
      BY <1>9 DEF SubscribeNext, CallsOK, Steps, Go
    <3>2. step' \in [Tasks -> 0 .. 3]
      BY <1>9, <2>1 DEF SubscribeNext, CallsOK
    <3>3. UNCHANGED <<output, grace, result, fresh>>
      BY <1>9 DEF SubscribeNext
    <3>4. QED BY <3>1, <3>2, <3>3 DEF CallsOK
  <2>6. QED BY <1>9, <2>3, <2>4, <2>5, PartsKept DEF SubscribeNext
<1>10. ASSUME NEW t \in Tasks, SubscribeFails(t)
       PROVE  TerminalsOK' /\ LinkOK' /\ EarsOK' /\ CallsOK'
  <2>1. CallsOK'
    BY <1>10 DEF SubscribeFails, CallsOK, Steps, Go
  <2>2. QED BY <1>10, <2>1, PartsKept DEF SubscribeFails
<1>11. ASSUME NEW t \in Tasks, Type(t) PROVE TerminalsOK' /\ LinkOK' /\ EarsOK' /\ CallsOK'
  <2>1. t \in Runs
    BY <1>11 DEF Type, StepsFit, StepFits, Tasks
  <2>2. TerminalsOK'
    BY <1>11, <2>1 DEF Type, Sent, TerminalsOK
  <2>3. LinkOK'
    BY <1>11, <2>1 DEF Type, Sent, LinkOK
  <2>4. CallsOK' /\ UNCHANGED ears
    BY <1>11 DEF Type, Sent, CallsOK, Steps, Go
  <2>5. QED BY <2>2, <2>3, <2>4, PartsKept
<1>12. ASSUME NEW t \in Tasks, PressSpace(t)
       PROVE  TerminalsOK' /\ LinkOK' /\ EarsOK' /\ CallsOK'
  <2>1. t \in Runs
    BY <1>12 DEF PressSpace, StepsFit, StepFits, Tasks
  <2>2. TerminalsOK'
    BY <1>12, <2>1 DEF PressSpace, Sent, TerminalsOK
  <2>3. LinkOK'
    BY <1>12, <2>1 DEF PressSpace, Sent, LinkOK
  <2>4. CallsOK' /\ UNCHANGED ears
    BY <1>12 DEF PressSpace, Sent, CallsOK, Steps, Go
  <2>5. QED BY <2>2, <2>3, <2>4, PartsKept
<1>13. ASSUME NEW t \in Tasks, Interrupt(t)
       PROVE  TerminalsOK' /\ LinkOK' /\ EarsOK' /\ CallsOK'
  <2>1. t \in Runs /\ lineOf[t] \in Lines
    BY <1>13 DEF Interrupt, StepsFit, StepFits, Tasks, TerminalsOK
  <2>2. /\ phase' \in [Lines -> {"prompt", "running", "more", "asking"}]
        /\ lasted' \in [Runs -> {Running} \cup 0 .. MaxPrinted] /\ wire' \in Seq(Items)
    <3>1. CASE phase[lineOf[t]] = "prompt"
      BY <1>13, <3>1 DEF Interrupt, TerminalsOK, LinkOK
    <3>2. CASE phase[lineOf[t]] # "prompt"
      BY <1>0, <1>13, <2>1, <3>2, EndTyped DEF Interrupt
    <3>3. QED BY <3>1, <3>2
  <2>3. TerminalsOK' /\ LinkOK'
    BY <1>13, <2>1, <2>2 DEF Interrupt, TerminalsOK, LinkOK
  <2>4. CallsOK' /\ UNCHANGED ears
    BY <1>13 DEF Interrupt, CallsOK, Steps, Go
  <2>5. QED BY <2>3, <2>4, PartsKept
<1>14. ASSUME NEW t \in Tasks, Listens(t) PROVE TerminalsOK' /\ LinkOK' /\ EarsOK' /\ CallsOK'
  <2>1. Effect(t)
    BY <1>0, <1>14, ListenStep
  <2>0. /\ rx[t] \in Seq(Items) /\ Len(rx[t]) <= Buffer /\ output[t] \in Seq(Items)
        /\ rx[t] # <<>> => /\ Tail(rx[t]) \in Seq(Items) /\ Len(Tail(rx[t])) <= Buffer
                          /\ Append(output[t], Head(rx[t])) \in Seq(Items)
    BY DEF EarsOK, CallsOK
  <2>2. /\ rx'[t] \in Seq(Items) /\ Len(rx'[t]) <= Buffer /\ output'[t] \in Seq(Items)
        /\ pc'[t] \in Steps /\ step'[t] \in 0 .. 3 /\ result'[t] \in Results
    <3>1. CASE Quits(t)
      <4>1. output'[t] \in Seq(Items)
        BY <2>0, <3>1, Zenon DEF Quits
      <4>2. QED BY <3>1, <4>1, EmptySeq DEF Quits, Steps
    <3>2. CASE GoesOnListening(t)
      <4>2. rx'[t] \in Seq(Items) /\ Len(rx'[t]) <= Buffer /\ output'[t] \in Seq(Items)
        BY <2>0, <3>2, Zenon DEF GoesOnListening
      <4>3. pc'[t] \in Steps /\ step'[t] \in 0 .. 3 /\ result'[t] \in Results
        BY <3>2 DEF GoesOnListening, CallsOK, Steps, Results
      <4>4. QED BY <4>2, <4>3
    <3>3. QED BY <2>1, <3>1, <3>2 DEF Effect
  <2>3. EarsOK'
    BY <2>1, <2>2 DEF Effect, EarsOK
  <2>4. CallsOK'
    BY <2>1, <2>2 DEF Effect, CallsOK, Results
  <2>5. QED BY <2>1, <2>3, <2>4, PartsKept DEF Effect
<1>15. ASSUME NEW t \in Tasks, UnsubscribeNext(t)
       PROVE  TerminalsOK' /\ LinkOK' /\ EarsOK' /\ CallsOK'
  <2>1. LinkOK'
    BY <1>15 DEF UnsubscribeNext, LinkOK
  <2>2. CallsOK'
    <3>1. step[t] < 3
      BY <1>15 DEF UnsubscribeNext, StepsFit, StepFits
    <3>2. pc' \in [Tasks -> Steps]
      BY <1>15 DEF UnsubscribeNext, CallsOK, Steps, Go
    <3>3. step' \in [Tasks -> 0 .. 3]
      <4>1. step[t] \in 0 .. 3 /\ step \in [Tasks -> 0 .. 3]
        BY DEF CallsOK
      <4>2. QED BY <1>15, <3>1, <4>1 DEF UnsubscribeNext
    <3>4. UNCHANGED <<output, grace, result, fresh>>
      BY <1>15 DEF UnsubscribeNext
    <3>5. QED BY <3>2, <3>3, <3>4 DEF CallsOK
  <2>3. QED BY <1>15, <2>1, <2>2, PartsKept DEF UnsubscribeNext
<1>16. CASE UNCHANGED vars
  BY <1>16, PartsKept DEF vars, terminals, link, ears, task
<1>17. QED
  BY <1>1, <1>2, <1>3, <1>4, <1>5, <1>6, <1>7, <1>8, <1>9, <1>10, <1>11, <1>12, <1>13, <1>14,
     <1>15, <1>16
  DEF Next, Pt, TaskStep, Listens

-----------------------------------------------------------------------------
(* Where each call stands *)

LEMMA StepsFitStep == TypeOK /\ StepsFit /\ [Next]_vars => StepsFit'
<1> SUFFICES ASSUME TypeOK, StepsFit, [Next]_vars, NEW u \in Tasks PROVE StepFits(u)'
  BY DEF StepsFit
<1> StepFits(u)
  BY DEF StepsFit
<1> EarsOK /\ CallsOK /\ LinkOK
  BY TypeParts
<1>0. step[u] \in 0 .. 3
  BY DEF TypeOK
<1> USE TerminalAssumption
<1>1. CASE UNCHANGED <<ears, task>> /\ session' \in {session, session + 1}
  <2>1. session' \in Int /\ session' >= session
    BY <1>1 DEF LinkOK
  <2>2. QED BY <1>1, <2>1 DEF StepFits, ears, task, EarsOK, LinkOK
<1>2. CASE Deliver
  <2>1. CASE Head(wire).name # "answer"
    <3>1. pc[u] \in {"idle", "subscribing"} /\ step[u] = 0 => ~Hearing(u)
      BY DEF StepFits, Hearing, LinkOK
    <3>2. /\ pc[u] \in {"idle", "subscribing"} /\ step[u] = 0 => rx'[u] = rx[u]
          /\ UNCHANGED <<pc, step, heard, output, grace, result, session>>
      BY <1>2, <2>1, <3>1 DEF Deliver, Broadcast
    <3>3. QED BY <3>2 DEF StepFits
  <2>2. CASE Head(wire).name = "answer"
    <3>1. UNCHANGED <<rx, step, heard, output, grace, result, session>>
      BY <1>2, <2>2 DEF Deliver
    <3>2. pc'[u] = pc[u] \/ (pc[u] \in Awaiting /\ pc'[u] = "collecting")
      BY <1>2, <2>2 DEF Deliver, CallsOK
    <3>3. QED BY <3>1, <3>2 DEF StepFits, Awaiting, Early
  <2>3. QED BY <2>1, <2>2
<1>3. ASSUME NEW t \in Tasks, Start(t) PROVE StepFits(u)'
  <2>1. /\ UNCHANGED <<rx, step, heard, output, grace, result, session>>
        /\ pc'[u] = pc[u] \/ (pc[u] = "idle" /\ pc'[u] = "subscribing")
    BY <1>3 DEF Start, Go, ears, link, CallsOK
  <2>2. QED BY <2>1 DEF StepFits, Early
<1>4. ASSUME NEW t \in Tasks, SubscribeNext(t) PROVE StepFits(u)'
  <2>1. UNCHANGED <<rx, output, grace, result, session>>
    BY <1>4 DEF SubscribeNext
  <2>2. CASE u # t
    <3>1. pc'[u] = pc[u] /\ step'[u] = step[u] /\ heard'[u] = heard[u]
      BY <1>4, <2>2 DEF SubscribeNext, Go, CallsOK, EarsOK
    <3>2. QED BY <2>1, <3>1 DEF StepFits
  <2>3. CASE u = t
    <3>1. /\ pc[u] = "subscribing" /\ step'[u] = step[u] + 1
          /\ heard'[u] = IF step[u] = 0 THEN session ELSE heard[u]
      <4>1. pc[u] = "subscribing"
        BY <1>4, <2>3 DEF SubscribeNext
      <4>2. step'[u] = step[u] + 1
        BY <1>4, <2>3 DEF SubscribeNext, CallsOK
      <4>3. heard'[u] = IF step[u] = 0 THEN session ELSE heard[u]
        BY <1>4, <2>3 DEF SubscribeNext, EarsOK
      <4>4. QED BY <4>1, <4>2, <4>3
    <3>2. IF step[u] < 2 THEN pc'[u] = "subscribing"
          ELSE pc'[u] = IF u \in Runs THEN "typing" ELSE "collecting"
      BY <1>4, <2>3, <3>1 DEF SubscribeNext, Go, CallsOK
    <3>3. step[u] \in Nat /\ session \in Int
      BY <1>0 DEF LinkOK
    <3>4. QED BY <2>1, <3>1, <3>2, <3>3 DEF StepFits, Early
  <2>4. QED BY <2>2, <2>3
<1>5. ASSUME NEW t \in Tasks, SubscribeFails(t) PROVE StepFits(u)'
  BY <1>5 DEF SubscribeFails, StepFits, Go, ears, link, CallsOK, Early
<1>6. ASSUME NEW t \in Tasks, Type(t) \/ PressSpace(t) PROVE StepFits(u)'
  <2>1. /\ UNCHANGED <<rx, step, heard, output, grace, result, session>>
        /\ \/ pc'[u] = pc[u]
           \/ pc[u] \in {"typing", "paging"} /\ pc'[u] \in {"typed", "paged"}
    BY <1>6 DEF Type, PressSpace, Sent, Go, ears, CallsOK
  <2>2. QED BY <2>1 DEF StepFits, Early
<1>7. ASSUME NEW t \in Tasks, Interrupt(t) PROVE StepFits(u)'
  <2>1. /\ UNCHANGED <<rx, step, heard, output, result, session>>
        /\ \/ pc'[u] = pc[u] /\ grace'[u] = grace[u]
           \/ pc[u] = "interrupting" /\ pc'[u] = "interrupted"
    BY <1>7 DEF Interrupt, Go, ears, CallsOK
  <2>2. QED BY <2>1 DEF StepFits, Early
<1>8. ASSUME NEW t \in Tasks, Listens(t) PROVE StepFits(u)'
  <2>1. Effect(t)
    BY <1>8, ListenStep
  <2>2. UNCHANGED <<heard, grace, session>>
    BY <2>1 DEF Effect, link
  <2>3. CASE u # t
    <3>1. /\ pc'[u] = pc[u] /\ step'[u] = step[u] /\ rx'[u] = rx[u]
          /\ output'[u] = output[u] /\ result'[u] = result[u]
      BY <2>1, <2>3 DEF Effect, CallsOK, EarsOK
    <3>2. QED BY <2>2, <3>1 DEF StepFits
  <2>4. CASE u = t
    <3>1. \/ pc'[u] = "leaving" /\ step'[u] = 0
          \/ /\ pc[u] = "collecting" /\ pc'[u] \in {"collecting", "paging", "interrupting"}
             /\ u \in Watchers => pc'[u] = "collecting"
             /\ step'[u] = step[u] /\ result'[u] = result[u]
      BY <2>1, <2>4 DEF Effect, Quits, GoesOnListening
    <3>2. QED BY <2>2, <3>1 DEF StepFits, Early
  <2>5. QED BY <2>3, <2>4
<1>9. ASSUME NEW t \in Tasks, UnsubscribeNext(t) PROVE StepFits(u)'
  <2>1. UNCHANGED <<rx, heard, output, grace, result, session>>
    BY <1>9 DEF UnsubscribeNext, ears
  <2>2. CASE u # t
    <3>1. pc'[u] = pc[u] /\ step'[u] = step[u]
      BY <1>9, <2>2 DEF UnsubscribeNext, Go, CallsOK
    <3>2. QED BY <2>1, <3>1 DEF StepFits
  <2>3. CASE u = t
    <3>1. /\ pc[u] = "leaving" /\ step'[u] = step[u] + 1
          /\ pc'[u] = IF step[u] < 2 THEN "leaving" ELSE "done"
      <4>1. pc[u] = "leaving" /\ step'[u] = step[u] + 1
        BY <1>9, <2>3 DEF UnsubscribeNext, CallsOK
      <4>2. pc'[u] = IF step[u] < 2 THEN "leaving" ELSE "done"
        BY <1>9, <2>3, <4>1 DEF UnsubscribeNext, Go, CallsOK
      <4>3. QED BY <4>1, <4>2
    <3>2. step[u] \in Nat
      BY <1>0
    <3>3. QED BY <2>1, <3>1, <3>2 DEF StepFits, Early
  <2>4. QED BY <2>2, <2>3
<1>10. QED
  BY <1>1, <1>2, <1>3, <1>4, <1>5, <1>6, <1>7, <1>8, <1>9, OtherSteps DEF Listens

-----------------------------------------------------------------------------
(* The terminals and who types at them *)

(* No call stands before its typing again. *)
LEMMA LaterStep ==
  ASSUME TypeOK, StepsFit, [Next]_vars, NEW u \in Tasks, pc'[u] \in Early
  PROVE  pc[u] \in Early
<1> CallsOK
  BY TypeParts
<1>1. CASE UNCHANGED <<ears, task>>
  BY <1>1 DEF task
<1>2. CASE Deliver
  BY <1>2 DEF Deliver, Broadcast, Early, CallsOK
<1>3. ASSUME NEW t \in Tasks, Start(t) \/ SubscribeNext(t) PROVE pc[u] \in Early
  BY <1>3 DEF Start, SubscribeNext, Go, Early, CallsOK
<1>4. ASSUME NEW t \in Tasks,
             SubscribeFails(t) \/ Type(t) \/ PressSpace(t) \/ Interrupt(t) \/ UnsubscribeNext(t)
      PROVE  pc[u] \in Early
  BY <1>4
  DEF SubscribeFails, Type, PressSpace, Sent, Interrupt, UnsubscribeNext, Go, Early, CallsOK
<1>5. ASSUME NEW t \in Tasks, Listens(t) PROVE pc[u] \in Early
  BY <1>5, ListenStep DEF Effect, Quits, GoesOnListening, Early, CallsOK
<1>6. QED BY <1>1, <1>2, <1>3, <1>4, <1>5, OtherSteps

(* A command that ends at a terminal that is not at its prompt is its typist's. *)
LEMMA EndFits ==
  ASSUME TypeOK, TypistFits, NEW l \in Lines, phase[l] # "prompt", EndCommand(l),
         UNCHANGED <<lineOf, typist, printed>>
  PROVE  /\ typist[l] \in Runs /\ lineOf[typist[l]] = l /\ pc[typist[l]] \notin Early
         /\ lasted' = [lasted EXCEPT ![typist[l]] = printed[l]] /\ printed[l] # Running
         /\ \A k \in Lines : /\ phase'[k] = IF k = l THEN "prompt" ELSE phase[k]
                             /\ k # l /\ typist[k] # Nobody => lasted'[typist[k]] = lasted[typist[k]]
<1> TerminalsOK
  BY TypeParts
<1>1. typist[l] \in Runs /\ lineOf[typist[l]] = l /\ pc[typist[l]] \notin Early
  BY DEF TypistFits, TypistFit, TerminalsOK
<1>2. lasted' = [lasted EXCEPT ![typist[l]] = printed[l]] /\ printed[l] # Running
  BY DEF EndCommand, TerminalsOK, Running
<1>3. \A k \in Lines : phase'[k] = IF k = l THEN "prompt" ELSE phase[k]
  BY DEF EndCommand, TerminalsOK
<1>4. ASSUME NEW k \in Lines, k # l, typist[k] # Nobody
      PROVE  lasted'[typist[k]] = lasted[typist[k]]
  <2>1. lineOf[typist[k]] = k /\ typist[k] \in Runs
    BY <1>4 DEF TypistFits, TypistFit, TerminalsOK
  <2>2. QED BY <1>1, <1>2, <1>4, <2>1 DEF TerminalsOK
<1>5. QED BY <1>1, <1>2, <1>3, <1>4

LEMMA EndTypistStep ==
  ASSUME TypeOK, StepsFit, TypistFits, [Next]_vars, NEW l \in Lines, phase[l] # "prompt",
         EndCommand(l), UNCHANGED <<lineOf, typist, printed>>
  PROVE  TypistFits'
<1> TerminalsOK
  BY TypeParts
<1>1. ASSUME NEW k \in Lines PROVE TypistFit(k)'
  <2>1. typist[k] \in Runs \cup {Nobody}
    BY DEF TerminalsOK
  <2>2. typist[k] # Nobody => lineOf[typist[k]] = k /\ pc'[typist[k]] \notin Early
    BY <2>1, LaterStep DEF TypistFits, TypistFit, Tasks
  <2>3. CASE k = l
    <3>1. phase'[k] = "prompt" /\ typist[k] \in Runs /\ lasted'[typist[k]] = printed[k]
            /\ printed[k] # Running
      BY <2>3, EndFits DEF TerminalsOK
    <3>2. typist[k] # Nobody
      BY <3>1, TerminalAssumption
    <3>3. QED BY <2>2, <3>1, <3>2 DEF TypistFit
  <2>4. CASE k # l
    <3>1. phase'[k] = phase[k] /\ (typist[k] # Nobody => lasted'[typist[k]] = lasted[typist[k]])
      BY <2>4, EndFits
    <3>2. QED BY <2>2, <3>1 DEF TypistFit, TypistFits
  <2>5. QED BY <2>3, <2>4
<1>2. ASSUME NEW t \in Runs, pc'[t] \in Early PROVE lasted'[t] = Running
  <2>1. pc[t] \in Early
    BY <1>2, LaterStep DEF Tasks
  <2>2. t # typist[l] /\ lasted' = [lasted EXCEPT ![typist[l]] = printed[l]]
    BY <2>1, EndFits
  <2>3. QED BY <2>1, <2>2 DEF TypistFits, TerminalsOK
<1>3. QED BY <1>1, <1>2 DEF TypistFits

LEMMA TypistStep == TypeOK /\ StepsFit /\ TypistFits /\ [Next]_vars => TypistFits'
<1> SUFFICES ASSUME TypeOK, StepsFit, TypistFits, [Next]_vars PROVE TypistFits'
  OBVIOUS
<1> TerminalsOK
  BY TypeParts
<1>0. \A l \in Lines : typist[l] # Nobody => typist[l] \in Tasks /\ pc'[typist[l]] \notin Early
  BY LaterStep DEF TypistFits, TypistFit, TerminalsOK, Tasks
<1>1. \A t \in Runs : pc'[t] \in Early => pc[t] \in Early /\ lasted[t] = Running
  BY LaterStep DEF TypistFits, Tasks
<1>2. CASE UNCHANGED terminals
  BY <1>0, <1>1, <1>2 DEF terminals, TypistFits, TypistFit
<1>3. ASSUME NEW l \in Lines, Prints(l) \/ Pauses(l) PROVE TypistFits'
  <2>1. /\ phase[l] = "running" /\ UNCHANGED <<lineOf, typist, lasted>>
        /\ \E to \in {"asking", "running", "more"} : phase' = [phase EXCEPT ![l] = to]
        /\ printed' = [printed EXCEPT ![l] = @ + 1]
    BY <1>3 DEF Prints, Pauses
  <2>2. phase'[l] # "prompt" /\ \A k \in Lines \ {l} : phase'[k] = phase[k] /\ printed'[k] = printed[k]
    BY <2>1 DEF TerminalsOK
  <2>3. ASSUME NEW k \in Lines PROVE TypistFit(k)'
    BY <1>0, <2>1, <2>2 DEF TypistFits, TypistFit
  <2>4. QED BY <1>1, <2>1, <2>3 DEF TypistFits
<1>4. ASSUME NEW l \in Lines, Ends(l) PROVE TypistFits'
  BY <1>4, EndTypistStep DEF Ends
<1>5. ASSUME NEW t \in Tasks, Type(t) PROVE TypistFits'
  <2>1. t \in Runs /\ t # Nobody /\ pc[t] = "typing" /\ lineOf[t] \in Lines
    BY <1>5, TerminalAssumption DEF Type, StepsFit, StepFits, Tasks, TerminalsOK
  <2>2. lasted[t] = Running /\ UNCHANGED <<lineOf, lasted>> /\ pc'[t] = "typed"
    <3>1. pc'[t] = "typed"
      BY <1>5, TypeParts DEF Type, Sent, Go, CallsOK
    <3>2. QED BY <1>5, <2>1, <3>1 DEF Type, Sent, TypistFits, Early
  <2>3. CASE phase[lineOf[t]] \notin {"prompt", "asking"}
    <3>1. UNCHANGED terminals
      BY <1>5, <2>3 DEF Type, Sent, terminals
    <3>2. QED BY <1>2, <3>1
  <2>4. CASE phase[lineOf[t]] \in {"prompt", "asking"}
    <3>1. /\ typist' = [typist EXCEPT ![lineOf[t]] = t]
          /\ phase' = [phase EXCEPT ![lineOf[t]] = "running"]
          /\ printed' = [printed EXCEPT ![lineOf[t]] = 0]
      BY <1>5, <2>4 DEF Type
    <3>2. ASSUME NEW k \in Lines PROVE TypistFit(k)'
      <4>1. CASE k = lineOf[t]
        <5>1. typist'[k] = t /\ phase'[k] = "running"
          BY <3>1, <4>1 DEF TerminalsOK
        <5>2. QED BY <2>1, <2>2, <4>1, <5>1 DEF TypistFit, Early
      <4>2. CASE k # lineOf[t]
        <5>1. typist'[k] = typist[k] /\ phase'[k] = phase[k] /\ printed'[k] = printed[k]
          BY <3>1, <4>2 DEF TerminalsOK
        <5>2. QED BY <1>0, <2>2, <5>1 DEF TypistFits, TypistFit
      <4>3. QED BY <4>1, <4>2
    <3>3. QED BY <1>1, <2>2, <3>2 DEF TypistFits
  <2>5. QED BY <2>3, <2>4
<1>6. ASSUME NEW t \in Tasks, PressSpace(t) PROVE TypistFits'
  <2>1. /\ UNCHANGED <<lineOf, typist, printed, lasted>>
        /\ \A k \in Lines : phase'[k] = phase[k] \/ (phase[k] = "more" /\ phase'[k] = "running")
    BY <1>6 DEF PressSpace, Sent, TerminalsOK
  <2>2. ASSUME NEW k \in Lines PROVE TypistFit(k)'
    BY <1>0, <2>1 DEF TypistFits, TypistFit
  <2>3. QED BY <1>1, <2>1, <2>2 DEF TypistFits
<1>7. ASSUME NEW t \in Tasks, Interrupt(t) PROVE TypistFits'
  <2>1. CASE phase[lineOf[t]] = "prompt"
    BY <1>2, <1>7, <2>1 DEF Interrupt, terminals
  <2>2. CASE phase[lineOf[t]] # "prompt"
    <3>1. EndCommand(lineOf[t]) /\ UNCHANGED <<lineOf, typist, printed>> /\ lineOf[t] \in Lines
      BY <1>7, <2>2 DEF Interrupt, TerminalsOK
    <3>2. QED BY <2>2, <3>1, EndTypistStep
  <2>3. QED BY <2>1, <2>2
<1>8. QED
  BY <1>2, <1>3, <1>4, <1>5, <1>6, <1>7, TerminalSteps

LEMMA GraceStep ==
  TypeOK /\ StepsFit /\ TypistFits /\ GraceFrees /\ [Next]_vars => GraceFrees'
<1> SUFFICES ASSUME TypeOK, StepsFit, TypistFits, GraceFrees, [Next]_vars, NEW u \in Runs
             PROVE  /\ grace'[u] /\ typist'[lineOf'[u]] = u => phase'[lineOf'[u]] = "prompt"
                    /\ result'[u] = "stopped" => grace'[u]
  BY DEF GraceFrees
<1> TerminalsOK /\ CallsOK
  BY TypeParts
<1>0. u \in Tasks /\ lineOf[u] \in Lines /\ lineOf' = lineOf /\ u # Nobody
  BY TerminalSteps, TerminalAssumption
  DEF Tasks, terminals, TerminalsOK, Prints, Pauses, Ends, Type, PressSpace, Sent, Interrupt
<1>1. grace[u] /\ typist[lineOf[u]] = u => phase[lineOf[u]] = "prompt"
  BY DEF GraceFrees
<1>2. grace'[u] /\ typist'[lineOf[u]] = u => phase'[lineOf[u]] = "prompt"
  <2>1. ASSUME NEW t \in Tasks, Interrupt(t)
        PROVE  grace'[u] /\ typist'[lineOf[u]] = u => phase'[lineOf[u]] = "prompt"
    <3>1. phase'[lineOf[t]] = "prompt" /\ typist' = typist
      BY <2>1 DEF Interrupt, EndCommand, TerminalsOK
    <3>2. CASE t = u
      BY <3>1, <3>2
    <3>3. CASE t # u
      <4>1. grace'[u] = grace[u]
        BY <1>0, <2>1, <3>3 DEF Interrupt, CallsOK
      <4>2. phase[lineOf[u]] = "prompt" => phase'[lineOf[u]] = "prompt"
        BY <1>0, <2>1 DEF Interrupt, EndCommand, TerminalsOK
      <4>3. QED BY <1>1, <3>1, <4>1, <4>2
    <3>4. QED BY <3>2, <3>3
  <2>2. ASSUME NEW t \in Tasks, Type(t)
        PROVE  grace'[u] /\ typist'[lineOf[u]] = u => phase'[lineOf[u]] = "prompt"
    <3>1. grace' = grace
      BY <2>2 DEF Type, Sent
    <3>2. CASE t = u
      <4>1. ~grace[u]
        BY <1>0, <2>2, <3>2 DEF Type, StepsFit, StepFits, Early
      <4>2. QED BY <3>1, <4>1
    <3>3. CASE t # u
      <4>1. \/ typist'[lineOf[u]] = t
            \/ typist'[lineOf[u]] = typist[lineOf[u]] /\ phase'[lineOf[u]] = phase[lineOf[u]]
        BY <1>0, <2>2 DEF Type, Sent, TerminalsOK
      <4>2. QED BY <1>1, <3>1, <3>3, <4>1
    <3>4. QED BY <3>2, <3>3
  <2>3. ASSUME NEW t \in Tasks, PressSpace(t)
        PROVE  grace'[u] /\ typist'[lineOf[u]] = u => phase'[lineOf[u]] = "prompt"
    BY <1>0, <1>1, <2>3 DEF PressSpace, Sent, TerminalsOK
  <2>4. ASSUME NEW l \in Lines, Prints(l) \/ Pauses(l) \/ Ends(l)
        PROVE  grace'[u] /\ typist'[lineOf[u]] = u => phase'[lineOf[u]] = "prompt"
    <3>1. grace' = grace /\ typist' = typist
      BY <2>4 DEF Prints, Pauses, Ends, task
    <3>2. phase[lineOf[u]] = "prompt" => phase'[lineOf[u]] = "prompt"
      BY <1>0, <2>4 DEF Prints, Pauses, Ends, EndCommand, TerminalsOK
    <3>3. QED BY <1>1, <3>1, <3>2
  <2>5. CASE UNCHANGED <<terminals, grace>>
    BY <1>1, <2>5 DEF terminals
  <2>6. UNCHANGED terminals /\ ~(\E t \in Tasks : Interrupt(t)) => UNCHANGED grace
    BY OtherSteps, ListenStep
    DEF Effect, task, Deliver, Start, SubscribeNext, SubscribeFails, UnsubscribeNext, Type,
        PressSpace, Sent
  <2>7. QED BY <2>1, <2>2, <2>3, <2>4, <2>5, <2>6, TerminalSteps
<1>3. result'[u] = "stopped" => grace'[u]
  <2>1. result[u] = "stopped" => grace[u]
    BY DEF GraceFrees
  <2>2. ASSUME NEW t \in Tasks, Listens(t) PROVE result'[u] = "stopped" => grace'[u]
    <3>1. Effect(t) /\ grace' = grace
      BY <2>2, ListenStep DEF Effect
    <3>2. result'[u] # result[u] => u = t
      BY <1>0, <3>1 DEF Effect, CallsOK
    <3>3. u = t => result'[u] = result[u] \/ (result'[u] = "stopped" => grace[u])
      BY <3>1 DEF Effect, Quits, GoesOnListening
    <3>4. QED BY <2>1, <3>1, <3>2, <3>3
  <2>3. ASSUME NEW t \in Tasks, SubscribeFails(t) PROVE result'[u] = "stopped" => grace'[u]
    BY <1>0, <2>1, <2>3 DEF SubscribeFails, CallsOK
  <2>4. ASSUME NEW t \in Tasks, Interrupt(t) PROVE result'[u] = "stopped" => grace'[u]
    BY <1>0, <2>1, <2>4 DEF Interrupt, CallsOK
  <2>5. CASE UNCHANGED <<result, grace>>
    BY <2>1, <2>5
  <2>6. QED
    BY <2>2, <2>3, <2>4, <2>5, OtherSteps
    DEF task, Deliver, Start, SubscribeNext, UnsubscribeNext, Type, PressSpace, Sent
<1>4. QED BY <1>0, <1>2, <1>3

-----------------------------------------------------------------------------
(* The subscriptions *)

LEMMA OwnerStep == TypeOK /\ StepsFit /\ SubsHaveOwner /\ [Next]_vars => SubsHaveOwner'
<1> SUFFICES ASSUME TypeOK, StepsFit, SubsHaveOwner, [Next]_vars PROVE SubsHaveOwner'
  OBVIOUS
<1> TerminalsOK /\ CallsOK
  BY TypeParts
<1>0. /\ ~up => subs = {} /\ owed = {} /\ wire = <<>>
      /\ \A k \in subs : \E t \in Tasks : Owns(t, k)
  BY DEF SubsHaveOwner
<1>1. CASE Lost
  BY <1>1 DEF Lost, SubsHaveOwner
<1>2. CASE UNCHANGED <<lineOf, pc, step, subs>> /\ (~up' => owed' = {} /\ wire' = <<>> /\ ~up)
  BY <1>0, <1>2 DEF SubsHaveOwner, Owns, Active
<1>3. ASSUME NEW l \in Lines, Prints(l) \/ Pauses(l) \/ Ends(l) PROVE SubsHaveOwner'
  <2>1. UNCHANGED <<lineOf, pc, step, subs, up, owed>> /\ (~up => wire' = wire)
    BY <1>3 DEF Prints, Pauses, Ends, EndCommand, Emit, task
  <2>2. QED BY <1>0, <1>2, <2>1
<1>4. ASSUME NEW t \in owed, Answers(t) PROVE SubsHaveOwner'
  BY <1>0, <1>2, <1>4 DEF Answers, terminals, task
<1>5. CASE Reconnect
  BY <1>0, <1>2, <1>5 DEF Reconnect, terminals, task
<1>6. CASE UNCHANGED vars
  BY <1>0, <1>2, <1>6 DEF vars
<1>7. CASE Deliver
  <2>1. up /\ UNCHANGED <<lineOf, step, subs, up>>
    BY <1>0, <1>7 DEF Deliver, terminals
  <2>2. \A t \in Tasks : pc'[t] = pc[t] \/ (pc[t] \in Awaiting /\ pc'[t] = "collecting")
    BY <1>7 DEF Deliver, Broadcast, CallsOK
  <2>3. \A t \in Tasks, k \in subs : Owns(t, k) => Owns(t, k)'
    BY <2>1, <2>2 DEF Owns, Active, Awaiting
  <2>4. QED BY <1>0, <2>1, <2>3 DEF SubsHaveOwner
<1>8. ASSUME NEW t \in Tasks, Start(t) \/ Type(t) \/ PressSpace(t) PROVE SubsHaveOwner'
  <2>1. UNCHANGED <<lineOf, step, subs, up, wire>> /\ (owed' = owed \/ up)
    BY <1>8 DEF Start, Type, PressSpace, Sent, terminals, link
  <2>2. \A u \in Tasks : pc'[u] = pc[u] \/ pc'[u] \in {"subscribing", "typed", "paged"}
    BY <1>8 DEF Start, Type, PressSpace, Sent, Go, CallsOK
  <2>3. \A u \in Tasks, k \in subs : Owns(u, k) => Owns(u, k)'
    BY <2>1, <2>2 DEF Owns, Active
  <2>4. QED BY <1>0, <2>1, <2>3 DEF SubsHaveOwner
<1>9. ASSUME NEW t \in Tasks, SubscribeNext(t) PROVE SubsHaveOwner'
  <2>1. /\ up /\ UNCHANGED <<lineOf, up, owed, wire>> /\ pc[t] = "subscribing"
        /\ subs' = subs \cup {<<lineOf[t], Names[step[t] + 1]>>}
    BY <1>9 DEF SubscribeNext, terminals
  <2>2. step[t] + 1 \in 1 .. 3
    <3>1. step[t] < 3
      BY <2>1 DEF StepsFit, StepFits
    <3>2. step[t] \in 0 .. 3
      BY DEF CallsOK
    <3>3. QED BY <3>1, <3>2
  <2>3. pc'[t] \in {"subscribing", "typing", "collecting"}
    BY <1>9 DEF SubscribeNext, Go, CallsOK
  <2>4. \A u \in Tasks \ {t} : pc'[u] = pc[u] /\ step'[u] = step[u]
    BY <1>9 DEF SubscribeNext, Go, CallsOK
  <2>5. \A u \in Tasks, k \in subs : Owns(u, k) => Owns(u, k)'
    BY <2>1, <2>3, <2>4 DEF Owns, Active
  <2>6. \A k : k = <<lineOf[t], Names[step[t] + 1]>> => Owns(t, k)'
    BY <2>1, <2>2, <2>3 DEF Owns, Active
  <2>7. QED BY <1>0, <2>1, <2>5, <2>6 DEF SubsHaveOwner
<1>10. ASSUME NEW t \in Tasks, SubscribeFails(t) PROVE SubsHaveOwner'
  BY <1>0, <1>10 DEF SubscribeFails, link, SubsHaveOwner
<1>11. ASSUME NEW t \in Tasks, Interrupt(t) PROVE SubsHaveOwner'
  <2>1. up /\ UNCHANGED <<lineOf, step, subs, up>>
    BY <1>11 DEF Interrupt
  <2>2. \A u \in Tasks : pc'[u] = pc[u] \/ pc'[u] = "interrupted"
    BY <1>11 DEF Interrupt, Go, CallsOK
  <2>3. \A u \in Tasks, k \in subs : Owns(u, k) => Owns(u, k)'
    BY <2>1, <2>2 DEF Owns, Active
  <2>4. QED BY <1>0, <2>1, <2>3 DEF SubsHaveOwner
<1>12. ASSUME NEW t \in Tasks, Listens(t) PROVE SubsHaveOwner'
  <2>1. Effect(t)
    BY <1>12, ListenStep
  <2>2. UNCHANGED <<lineOf, subs, up, owed, wire>>
    BY <2>1 DEF Effect, terminals, link
  <2>3. \A u \in Tasks \ {t} : pc'[u] = pc[u] /\ step'[u] = step[u]
    BY <2>1 DEF Effect, CallsOK
  <2>4. pc'[t] \in {"collecting", "paging", "interrupting"} \/ (pc'[t] = "leaving" /\ step'[t] = 0)
    BY <2>1 DEF Effect, Quits, GoesOnListening
  <2>5. \A u \in Tasks, k \in subs : Owns(u, k) => Owns(u, k)'
    BY <2>2, <2>3, <2>4 DEF Owns, Active
  <2>6. QED BY <1>0, <2>2, <2>5 DEF SubsHaveOwner
<1>13. ASSUME NEW t \in Tasks, UnsubscribeNext(t) PROVE SubsHaveOwner'
  <2>1. /\ pc[t] = "leaving" /\ UNCHANGED <<lineOf, up, owed, wire>>
        /\ subs' = subs \ {<<lineOf[t], Names[step[t] + 1]>>}
    BY <1>13 DEF UnsubscribeNext, terminals
  <2>2. \A u \in Tasks \ {t} : pc'[u] = pc[u] /\ step'[u] = step[u]
    BY <1>13 DEF UnsubscribeNext, Go, CallsOK
  <2>3. step'[t] = step[t] + 1 /\ step[t] \in 0 .. 3
    <3>1. step \in [Tasks -> 0 .. 3]
      BY DEF CallsOK
    <3>2. QED BY <1>13, <3>1 DEF UnsubscribeNext
  <2>4. step[t] < 2 => pc'[t] = "leaving"
    BY <1>13, <2>1 DEF UnsubscribeNext
  <2>5. ASSUME NEW u \in Tasks, NEW k \in subs', Owns(u, k) PROVE Owns(u, k)'
    <3>1. PICK i \in 1 .. 3 :
            k = <<lineOf[u], Names[i]>> /\ Active(u) /\ (pc[u] = "leaving" => step[u] < i)
      BY <2>5 DEF Owns
    <3>2. CASE u # t
      BY <2>1, <2>2, <3>1, <3>2 DEF Owns, Active
    <3>3. CASE u = t
      <4>1. step[t] < i /\ i # step[t] + 1
        BY <2>1, <3>1, <3>3
      <4>2. step[t] < 2 /\ step'[t] < i
        BY <2>3, <4>1
      <4>3. QED BY <2>1, <2>4, <3>1, <3>3, <4>2 DEF Owns, Active
    <3>4. QED BY <3>2, <3>3
  <2>6. QED BY <1>0, <2>1, <2>5 DEF SubsHaveOwner
<1>14. QED
  BY <1>1, <1>2, <1>3, <1>4, <1>5, <1>6, <1>7, <1>8, <1>9, <1>10, <1>11, <1>12, <1>13
  DEF Next, Pt, TaskStep, Listens

-----------------------------------------------------------------------------
(* What holds for all calls, beside one another on a terminal or in turn *)

LEMMA InductiveInit == Init => Inductive
<1> SUFFICES ASSUME Init PROVE Inductive
  OBVIOUS
<1> USE TerminalAssumption DEF Init
<1>1. TypeOK
  <2>1. TerminalsOK
    BY DEF TerminalsOK, Running
  <2>2. LinkOK /\ EarsOK
    BY EmptySeq DEF LinkOK, EarsOK
  <2>3. CallsOK
    BY EmptySeq DEF CallsOK, Steps
  <2>4. QED BY <2>1, <2>2, <2>3, TypeParts
<1>2. StepsFit /\ TypistFits
  BY DEF StepsFit, StepFits, TypistFits, TypistFit, Tasks
<1>3. GraceFrees /\ SubsHaveOwner
  BY DEF GraceFrees, SubsHaveOwner, Tasks
<1>4. QED BY <1>1, <1>2, <1>3 DEF Inductive

LEMMA InductiveStep == Inductive /\ [Next]_vars => Inductive'
BY TypeStep, StepsFitStep, TypistStep, GraceStep, OwnerStep DEF Inductive

(* Calls, terminals and subscriptions keep in step, whatever happens to the connection. *)
THEOREM InductiveHolds == Safety => []Inductive
BY InductiveInit, InductiveStep, PTL DEF Safety

(* Every variable keeps to its type, and no receiver to more than its buffer holds. *)
THEOREM TypesHold == Safety => []TypeOK
<1>1. Inductive => TypeOK
  BY DEF Inductive
<1>2. QED BY <1>1, InductiveHolds, PTL

(* A run that gave up on its command has left the terminal at its prompt. *)
THEOREM FreeHolds == Safety => []FreeAfterReturn
<1>1. Inductive => FreeAfterReturn
  BY DEF Inductive, GraceFrees, FreeAfterReturn
<1>2. QED BY <1>1, InductiveHolds, PTL

(* When nobody listens any more, nothing is subscribed. *)
THEOREM NothingIsLeft == Safety => []NothingLeftSubscribed
<1>1. Inductive => NothingLeftSubscribed
  BY DEF Inductive, SubsHaveOwner, Owns, Active, NothingLeftSubscribed
<1>2. QED BY <1>1, InductiveHolds, PTL

-----------------------------------------------------------------------------
(* Calls in turn: who listens is subscribed *)

LEMMA ActiveStep ==
  ASSUME TypeOK, StepsFit, [Next]_vars, NEW u \in Tasks, Active(u)'
  PROVE  Active(u) \/ Start(u)
<1> CallsOK
  BY TypeParts
<1>1. CASE UNCHANGED <<ears, task>>
  BY <1>1 DEF task, Active
<1>2. CASE Deliver
  BY <1>2 DEF Deliver, Broadcast, Active, Awaiting, CallsOK
<1>3. ASSUME NEW t \in Tasks, Start(t) PROVE Active(u) \/ Start(u)
  BY <1>3 DEF Start, Go, Active, CallsOK
<1>4. ASSUME NEW t \in Tasks,
             SubscribeNext(t) \/ SubscribeFails(t) \/ Type(t) \/ PressSpace(t) \/ Interrupt(t)
               \/ UnsubscribeNext(t)
      PROVE  Active(u)
  BY <1>4
  DEF SubscribeNext, SubscribeFails, Type, PressSpace, Sent, Interrupt, UnsubscribeNext, Go,
      Active, CallsOK
<1>5. ASSUME NEW t \in Tasks, Listens(t) PROVE Active(u)
  BY <1>5, ListenStep DEF Effect, Active, Awaiting, CallsOK
<1>6. QED BY <1>1, <1>2, <1>3, <1>4, <1>5, OtherSteps

LEMMA LinesKept == TypeOK /\ StepsFit /\ [Next]_vars => lineOf' = lineOf
BY TerminalSteps DEF terminals, Prints, Pauses, Ends, Type, PressSpace, Sent, Interrupt

LEMMA InTurnStep ==
  ASSUME ~Overlap, TypeOK, StepsFit, InTurn, [Next]_vars
  PROVE  InTurn'
<1> SUFFICES ASSUME NEW t \in Tasks, NEW u \in Tasks, t # u, lineOf[t] = lineOf[u],
                    Active(t)', Active(u)'
             PROVE  FALSE
  BY LinesKept DEF InTurn
<1>1. CASE Start(t) \/ Start(u)
  <2>1. ~Active(t) \/ ~Active(u)
    BY DEF InTurn
  <2>2. ASSUME Start(t) PROVE FALSE
    <3>1. ~Active(u)
      BY <2>2 DEF Start, Active
    <3>2. pc'[u] = pc[u]
      BY <2>2, TypeParts DEF Start, Go, CallsOK
    <3>3. QED BY <3>1, <3>2 DEF Active
  <2>3. ASSUME Start(u) PROVE FALSE
    <3>1. ~Active(t)
      BY <2>3 DEF Start, Active
    <3>2. pc'[t] = pc[t]
      BY <2>3, TypeParts DEF Start, Go, CallsOK
    <3>3. QED BY <3>1, <3>2 DEF Active
  <2>4. QED BY <1>1, <2>2, <2>3
<1>2. CASE ~Start(t) /\ ~Start(u)
  BY <1>2, ActiveStep DEF InTurn
<1>3. QED BY <1>1, <1>2

LEMMA SubscribedStep ==
  ASSUME TypeOK, StepsFit, InTurn, HasSubscribed, [Next]_vars
  PROVE  HasSubscribed'
<1> SUFFICES ASSUME NEW u \in Tasks PROVE Subscribed(u)'
  BY DEF HasSubscribed
<1> TerminalsOK /\ LinkOK /\ EarsOK /\ CallsOK
  BY TypeParts
<1>0. Subscribed(u) /\ StepFits(u) /\ lineOf' = lineOf
  BY LinesKept DEF HasSubscribed, StepsFit
<1>1. CASE UNCHANGED <<pc, step, heard, subs, session>> /\ (up' => up)
  BY <1>0, <1>1 DEF Subscribed, AtWork, Awaiting
<1>2. CASE Pt
  <2>1. CASE Lost
    BY <2>1 DEF Lost, Subscribed
  <2>2. CASE ~Lost
    BY <1>1, <1>2, <2>2 DEF Pt, Prints, Pauses, Ends, Answers, ears, task
  <2>3. QED BY <2>1, <2>2
<1>3. CASE Reconnect
  <2>1. heard'[u] # session'
    BY <1>0, <1>3 DEF Reconnect, ears, StepFits, LinkOK, EarsOK
  <2>2. QED BY <2>1 DEF Subscribed
<1>4. CASE Deliver
  <2>1. UNCHANGED <<step, heard, subs, session, up>>
    BY <1>4 DEF Deliver
  <2>2. pc'[u] = pc[u] \/ (pc[u] \in Awaiting /\ pc'[u] = "collecting")
    BY <1>4 DEF Deliver, Broadcast, CallsOK
  <2>3. QED BY <1>0, <2>1, <2>2 DEF Subscribed, AtWork, Awaiting
<1>5. CASE UNCHANGED vars
  BY <1>1, <1>5 DEF vars
<1>6. ASSUME NEW t \in Tasks, Start(t) PROVE Subscribed(u)'
  <2>1. UNCHANGED <<step, heard, subs, session, up>>
    BY <1>6 DEF Start, link, ears
  <2>2. pc'[u] = pc[u] \/ (pc[u] = "idle" /\ pc'[u] = "subscribing")
    BY <1>6 DEF Start, Go, CallsOK
  <2>3. pc[u] = "idle" => heard[u] # session
    BY <1>0 DEF StepFits, LinkOK
  <2>4. QED BY <1>0, <2>1, <2>2, <2>3 DEF Subscribed, AtWork, Awaiting
<1>7. ASSUME NEW t \in Tasks, SubscribeNext(t) PROVE Subscribed(u)'
  <2>1. /\ subs' = subs \cup {<<lineOf[t], Names[step[t] + 1]>>} /\ UNCHANGED <<session, up>>
        /\ pc[t] = "subscribing"
    BY <1>7 DEF SubscribeNext
  <2>2. CASE u # t
    <3>1. pc'[u] = pc[u] /\ step'[u] = step[u] /\ heard'[u] = heard[u]
      BY <1>7, <2>2 DEF SubscribeNext, Go, CallsOK, EarsOK
    <3>2. QED BY <1>0, <2>1, <3>1 DEF Subscribed, AtWork, Awaiting
  <2>3. CASE u = t
    <3>1. step[u] \in 0 .. 2
      <4>1. step[u] < 3
        BY <1>0, <2>1, <2>3 DEF StepFits
      <4>2. step[u] \in 0 .. 3
        BY DEF CallsOK
      <4>3. QED BY <4>1, <4>2
    <3>2. step'[u] = step[u] + 1
      BY <1>7, <2>3 DEF SubscribeNext, CallsOK
    <3>3. step[u] # 0 => heard'[u] = heard[u]
      BY <1>7, <2>3 DEF SubscribeNext
    <3>4. pc'[u] # "subscribing" => step[u] = 2
      BY <1>7, <2>1, <2>3, <3>1 DEF SubscribeNext
    <3>5. ASSUME up', heard'[u] = session', NEW i \in 1 .. 3, pc'[u] = "subscribing" => i <= step'[u]
          PROVE  <<lineOf[u], Names[i]>> \in subs'
      <4>1. CASE i = step[u] + 1
        BY <2>1, <2>3, <4>1
      <4>2. CASE i # step[u] + 1
        <5>1. i <= step[u]
          BY <3>1, <3>2, <3>4, <3>5, <4>2
        <5>2. <<lineOf[u], Names[i]>> \in subs
          BY <1>0, <2>1, <2>3, <3>1, <3>3, <3>5, <5>1 DEF Subscribed
        <5>3. QED BY <2>1, <5>2
      <4>3. QED BY <4>1, <4>2
    <3>6. QED BY <1>0, <3>5 DEF Subscribed
  <2>4. QED BY <2>2, <2>3
<1>8. ASSUME NEW t \in Tasks,
             SubscribeFails(t) \/ Type(t) \/ PressSpace(t) \/ Interrupt(t)
      PROVE  Subscribed(u)'
  <2>1. UNCHANGED <<step, heard, subs, session, up>>
    BY <1>8 DEF SubscribeFails, Type, PressSpace, Sent, Interrupt, link, ears
  <2>2. \/ pc'[u] = pc[u] \/ pc'[u] = "done"
        \/ pc[u] \in {"typing", "paging", "interrupting"} /\ pc'[u] \in Awaiting
    BY <1>8 DEF SubscribeFails, Type, PressSpace, Sent, Interrupt, Go, Awaiting, CallsOK
  <2>3. QED BY <1>0, <2>1, <2>2 DEF Subscribed, AtWork, Awaiting
<1>9. ASSUME NEW t \in Tasks, Listens(t) PROVE Subscribed(u)'
  <2>1. Effect(t)
    BY <1>9, ListenStep
  <2>2. UNCHANGED <<heard, subs, session, up>>
    BY <2>1 DEF Effect, link
  <2>3. CASE u # t
    <3>1. pc'[u] = pc[u] /\ step'[u] = step[u]
      BY <2>1, <2>3 DEF Effect, CallsOK
    <3>2. QED BY <1>0, <2>2, <3>1 DEF Subscribed, AtWork, Awaiting
  <2>4. CASE u = t
    <3>1. pc'[u] = "leaving" \/ (pc[u] = "collecting" /\ pc'[u] \in {"collecting", "paging", "interrupting"})
      BY <2>1, <2>4 DEF Effect, Quits, GoesOnListening
    <3>2. QED BY <1>0, <2>2, <3>1 DEF Subscribed, AtWork, Awaiting
  <2>5. QED BY <2>3, <2>4
<1>10. ASSUME NEW t \in Tasks, UnsubscribeNext(t) PROVE Subscribed(u)'
  <2>1. /\ subs' = subs \ {<<lineOf[t], Names[step[t] + 1]>>} /\ UNCHANGED <<heard, session, up>>
        /\ pc[t] = "leaving"
    BY <1>10 DEF UnsubscribeNext, ears
  <2>2. CASE u = t
    <3>1. pc'[u] \in {"leaving", "done"}
      BY <1>10, <2>1, <2>2 DEF UnsubscribeNext, Go, CallsOK
    <3>2. QED BY <3>1 DEF Subscribed, AtWork, Awaiting
  <2>3. CASE u # t
    <3>1. pc'[u] = pc[u] /\ step'[u] = step[u]
      BY <1>10, <2>3 DEF UnsubscribeNext, Go, CallsOK
    <3>2. Active(u) => lineOf[u] # lineOf[t]
      BY <2>1, <2>3 DEF InTurn, Active
    <3>3. QED BY <1>0, <2>1, <3>1, <3>2 DEF Subscribed, AtWork, Awaiting, Active
  <2>4. QED BY <2>2, <2>3
<1>11. QED
  BY <1>2, <1>3, <1>4, <1>5, <1>6, <1>7, <1>8, <1>9, <1>10 DEF Next, TaskStep, Listens

(* The invariant so far. *)
TakeTurns == Inductive /\ InTurn /\ HasSubscribed

LEMMA TakeTurnsInit == Init => TakeTurns
<1>1. Init => InTurn
  BY DEF Init, InTurn, Active
<1>2. Init => HasSubscribed
  BY DEF Init, HasSubscribed, Subscribed, AtWork, Awaiting
<1>3. QED BY <1>1, <1>2, InductiveInit DEF TakeTurns

LEMMA TakeTurnsStep ==
  ASSUME ~Overlap
  PROVE  TakeTurns /\ [Next]_vars => TakeTurns'
BY InductiveStep, InTurnStep, SubscribedStep DEF TakeTurns, Inductive

LEMMA TurnsTaken ==
  ASSUME ~Overlap
  PROVE  Safety => []TakeTurns
BY TakeTurnsInit, TakeTurnsStep, PTL DEF Safety

(* Calls that take turns on a terminal are subscribed to all its events while they listen. *)
THEOREM ListenersAreSubscribed ==
  ASSUME ~Overlap
  PROVE  Safety => []SubscribedWhileListening
<1>1. TakeTurns => SubscribedWhileListening
  BY DEF TakeTurns, HasSubscribed, Subscribed, AtWork, Awaiting, SubscribedWhileListening,
         Listening, Keys
<1>2. QED BY <1>1, TurnsTaken, PTL

-----------------------------------------------------------------------------
(* What a run returns: the invariant *)

OfLine(event, l) == event.line = l /\ event.name # "answer"

(* Nothing disturbs a quiet terminal before the run types. *)
StaysQuiet ==
  \A t \in Runs : fresh[t] /\ pc[t] \in {"subscribing", "typing"} =>
    /\ phase[lineOf[t]] \in {"prompt", "asking"}
    /\ \A i \in 1 .. Len(wire) : ~OfLine(wire[i], lineOf[t])
    /\ \A i \in 1 .. Len(rx[t]) : ~OfLine(rx[t][i], lineOf[t])

(* Then the terminal works for it, and an end that is heard is its command's. *)
EndsAreOwn ==
  \A t \in Runs : fresh[t] =>
    /\ AtWork(t) =>
         /\ typist[lineOf[t]] = t
         /\ \A i \in 1 .. Len(wire) : IsEnd(wire[i], lineOf[t]) => lasted[t] # Running
         /\ \A i \in 1 .. Len(rx[t]) : IsEnd(rx[t][i], lineOf[t]) => lasted[t] # Running
    /\ result[t] = "finished" => lasted[t] # Running

(* What a run has still to take. *)
Connected(t) == up /\ heard[t] = session
Coming(t) == IF Connected(t) THEN rx[t] \o wire ELSE rx[t]

(* The texts of numbers above `low` up to n all come before position i. *)
Precede(events, l, low, n, i) ==
  \A m \in low + 1 .. n : \E j \in 1 .. i - 1 : IsText(events[j], l) /\ events[j].n = m

(***************************************************************************)
(* The events of terminal l go on from text `low`: all of run t, in order, *)
(* without a gap, none above `high`, and the end after all there are.      *)
(***************************************************************************)
GoesOn(events, l, t, low, high) ==
  /\ \A i \in 1 .. Len(events) : IsText(events[i], l) =>
       /\ events[i].by = t /\ events[i].n \in low + 1 .. high
       /\ Precede(events, l, low, events[i].n - 1, i)
       /\ \A j \in 1 .. Len(events) : i < j /\ IsText(events[j], l) => events[i].n < events[j].n
  /\ \A i \in 1 .. Len(events) : IsEnd(events[i], l) => Precede(events, l, low, high, i)

(* On a connection that stands, all the command has printed is still to come. *)
Follows(events, l, t, low, high, all) ==
  GoesOn(events, l, t, low, high) /\ (all => Precede(events, l, low, high, Len(events) + 1))

GathersAll(t) ==
  /\ Len(output[t]) <= printed[lineOf[t]]
  /\ Follows(Coming(t), lineOf[t], t, Len(output[t]), printed[lineOf[t]], Connected(t))
  /\ \A i \in 1 .. Len(output[t]) : output[t][i].n = i /\ output[t][i].by = t

(* What is to come takes up where a run's output stops. *)
NothingIsLost ==
  \A t \in Runs : fresh[t] /\ ~missed[t] =>
    (AtWork(t) => GathersAll(t)) /\ (result[t] = "finished" => Whole(t))

OutputInductive == TakeTurns /\ StaysQuiet /\ EndsAreOwn /\ NothingIsLost

-----------------------------------------------------------------------------
(* Sequences of events *)

(***************************************************************************)
(* Q is P without some of its events; a text before an event that is left  *)
(* is left too.                                                            *)
(***************************************************************************)
Thins(Q, P, l) ==
  \E f \in [1 .. Len(Q) -> 1 .. Len(P)] :
    \A i \in 1 .. Len(Q) :
      /\ Q[i] = P[f[i]]
      /\ \A j \in 1 .. i - 1 : f[j] < f[i]
      /\ \A j \in 1 .. f[i] - 1 : IsText(P[j], l) => \E k \in 1 .. i - 1 : f[k] = j

LEMMA ThinnedGoesOn ==
  ASSUME NEW P \in Seq(Items), NEW Q \in Seq(Items), NEW l, NEW t, NEW low \in Nat, NEW high \in Nat,
         Thins(Q, P, l), GoesOn(P, l, t, low, high)
  PROVE  GoesOn(Q, l, t, low, high)
<1>1. PICK f \in [1 .. Len(Q) -> 1 .. Len(P)] :
        \A i \in 1 .. Len(Q) :
          /\ Q[i] = P[f[i]]
          /\ \A j \in 1 .. i - 1 : f[j] < f[i]
          /\ \A j \in 1 .. f[i] - 1 : IsText(P[j], l) => \E k \in 1 .. i - 1 : f[k] = j
  BY DEF Thins
<1>2. ASSUME NEW i \in 1 .. Len(Q), NEW n \in Int, Precede(P, l, low, n, f[i])
      PROVE  Precede(Q, l, low, n, i)
  <2>1. SUFFICES ASSUME NEW m \in low + 1 .. n
                 PROVE  \E k \in 1 .. i - 1 : IsText(Q[k], l) /\ Q[k].n = m
    BY DEF Precede
  <2>2. PICK j \in 1 .. f[i] - 1 : IsText(P[j], l) /\ P[j].n = m
    BY <1>2 DEF Precede
  <2>3. PICK k \in 1 .. i - 1 : f[k] = j
    BY <1>1, <2>2
  <2>4. k \in 1 .. Len(Q)
    OBVIOUS
  <2>5. Q[k] = P[j]
    BY <1>1, <2>3, <2>4
  <2>6. QED BY <2>2, <2>5
<1>3. ASSUME NEW i \in 1 .. Len(Q), IsText(Q[i], l)
      PROVE  /\ Q[i].by = t /\ Q[i].n \in low + 1 .. high
             /\ Precede(Q, l, low, Q[i].n - 1, i)
             /\ \A j \in 1 .. Len(Q) : i < j /\ IsText(Q[j], l) => Q[i].n < Q[j].n
  <2>1. f[i] \in 1 .. Len(P) /\ Q[i] = P[f[i]] /\ IsText(P[f[i]], l)
    BY <1>1, <1>3
  <2>2. Q[i].by = t /\ Q[i].n \in low + 1 .. high /\ Precede(P, l, low, Q[i].n - 1, f[i])
    BY <2>1 DEF GoesOn
  <2>3. Precede(Q, l, low, Q[i].n - 1, i)
    BY <1>2, <2>2
  <2>4. ASSUME NEW j \in 1 .. Len(Q), i < j, IsText(Q[j], l) PROVE Q[i].n < Q[j].n
    <3>1. f[j] \in 1 .. Len(P) /\ Q[j] = P[f[j]] /\ f[i] < f[j]
      BY <1>1, <2>4
    <3>2. QED BY <2>1, <2>4, <3>1 DEF GoesOn
  <2>5. QED BY <2>2, <2>3, <2>4
<1>4. ASSUME NEW i \in 1 .. Len(Q), IsEnd(Q[i], l) PROVE Precede(Q, l, low, high, i)
  <2>1. f[i] \in 1 .. Len(P) /\ IsEnd(P[f[i]], l)
    BY <1>1, <1>4
  <2>2. QED BY <1>2, <2>1 DEF GoesOn
<1>5. QED BY <1>3, <1>4 DEF GoesOn

(* Every text of terminal l in P is in Q. *)
KeepsTexts(Q, P, l) ==
  \A j \in 1 .. Len(P) : IsText(P[j], l) => \E k \in 1 .. Len(Q) : Q[k] = P[j]

LEMMA ThinnedHasAll ==
  ASSUME NEW P \in Seq(Items), NEW Q \in Seq(Items), NEW l, NEW low \in Nat, NEW high \in Nat,
         KeepsTexts(Q, P, l), Precede(P, l, low, high, Len(P) + 1)
  PROVE  Precede(Q, l, low, high, Len(Q) + 1)
<1>1. ASSUME NEW m \in low + 1 .. high
      PROVE  \E k \in 1 .. Len(Q) : IsText(Q[k], l) /\ Q[k].n = m
  <2>1. Len(P) + 1 - 1 = Len(P)
    BY Len(P) \in Nat
  <2>2. PICK j \in 1 .. Len(P) : IsText(P[j], l) /\ P[j].n = m
    BY <1>1, <2>1 DEF Precede
  <2>3. PICK k \in 1 .. Len(Q) : Q[k] = P[j]
    BY <2>2, Zenon DEF KeepsTexts
  <2>4. QED BY <2>2, <2>3, Zenon
<1>2. Len(Q) + 1 - 1 = Len(Q)
  BY Len(Q) \in Nat
<1>3. QED BY <1>1, <1>2 DEF Precede

LEMMA PrefixThins ==
  ASSUME NEW s \in Seq(Items), NEW w \in Seq(Items), NEW l
  PROVE  Thins(s, s \o w, l)
<1> DEFINE f == [i \in 1 .. Len(s) |-> i]
<1>1. Len(s \o w) = Len(s) + Len(w) /\ \A i \in 1 .. Len(s) : (s \o w)[i] = s[i]
  BY ConcatProperties
<1>2. f \in [1 .. Len(s) -> 1 .. Len(s \o w)]
  BY <1>1
<1>3. \A i \in 1 .. Len(s) :
        /\ s[i] = (s \o w)[f[i]]
        /\ \A j \in 1 .. i - 1 : f[j] < f[i]
        /\ \A j \in 1 .. f[i] - 1 : IsText((s \o w)[j], l) => \E k \in 1 .. i - 1 : f[k] = j
  BY <1>1
<1> HIDE DEF f
<1>4. QED BY <1>2, <1>3 DEF Thins

(* Without the event where w begins. *)
LEMMA MiddleThins ==
  ASSUME NEW s \in Seq(Items), NEW w \in Seq(Items), NEW l, w # <<>>, ~IsText(Head(w), l)
  PROVE  Thins(s \o Tail(w), s \o w, l) /\ KeepsTexts(s \o Tail(w), s \o w, l)
<1> DEFINE n == Len(s)
           P == s \o w
           Q == s \o Tail(w)
           f == [i \in 1 .. Len(Q) |-> IF i <= n THEN i ELSE i + 1]
<1>1. /\ n \in Nat /\ Len(w) \in Nat \ {0} /\ Tail(w) \in Seq(Items) /\ Len(Tail(w)) = Len(w) - 1
      /\ \A i \in 1 .. Len(w) - 1 : Tail(w)[i] = w[i + 1]
  BY EmptySeq, HeadTailProperties
<1>2. Len(P) = n + Len(w) /\ \A i \in 1 .. Len(P) : P[i] = IF i <= n THEN s[i] ELSE w[i - n]
  BY ConcatProperties
<1>3. /\ Len(Q) = n + Len(w) - 1
      /\ \A i \in 1 .. Len(Q) : Q[i] = IF i <= n THEN s[i] ELSE Tail(w)[i - n]
  BY <1>1, ConcatProperties
<1>4. \A i \in 1 .. Len(Q) : Q[i] = P[IF i <= n THEN i ELSE i + 1]
  BY <1>1, <1>2, <1>3
<1>5. P[n + 1] = Head(w)
  BY <1>1, <1>2
<1> HIDE DEF n, P, Q
<1>6. f \in [1 .. Len(Q) -> 1 .. Len(P)]
  BY <1>1, <1>2, <1>3
<1>7. \A j \in 1 .. Len(P) : IsText(P[j], l) => j # n + 1
  BY <1>5 DEF P, Q, n
<1>8. ASSUME NEW i \in 1 .. Len(Q)
      PROVE  /\ Q[i] = P[f[i]]
             /\ \A j \in 1 .. i - 1 : f[j] < f[i]
             /\ \A j \in 1 .. f[i] - 1 : IsText(P[j], l) => \E k \in 1 .. i - 1 : f[k] = j
  <2>1. Q[i] = P[f[i]] /\ \A j \in 1 .. i - 1 : f[j] < f[i]
    BY <1>1, <1>3, <1>4
  <2>2. ASSUME NEW j \in 1 .. f[i] - 1, IsText(P[j], l) PROVE \E k \in 1 .. i - 1 : f[k] = j
    <3>1. j # n + 1
      BY <1>1, <1>2, <1>3, <1>7, <2>2
    <3>2. CASE j <= n
      <4>1. j \in 1 .. i - 1 /\ j \in 1 .. Len(Q)
        BY <1>1, <1>3, <3>2
      <4>2. f[j] = j
        BY <3>2, <4>1
      <4>3. QED BY <4>1, <4>2
    <3>3. CASE j > n + 1
      <4>1. j - 1 \in 1 .. i - 1 /\ j - 1 > n /\ j - 1 \in 1 .. Len(Q)
        BY <1>1, <1>3, <3>3
      <4>2. f[j - 1] = j
        BY <1>1, <4>1
      <4>3. QED BY <4>1, <4>2
    <3>4. f[i] \in 1 .. Len(P)
      BY <1>6
    <3> HIDE DEF f
    <3>5. j \in Nat
      BY <1>2, <3>4
    <3>6. QED BY <1>1, <3>1, <3>2, <3>3, <3>5
  <2>3. QED BY <2>1, <2>2
<1>9. ASSUME NEW j \in 1 .. Len(P), IsText(P[j], l) PROVE \E k \in 1 .. Len(Q) : Q[k] = P[j]
  <2>1. CASE j <= n
    <3>1. j \in 1 .. Len(Q)
      BY <1>1, <1>3, <2>1
    <3>2. Q[j] = P[j]
      BY <1>4, <2>1, <3>1
    <3>3. QED BY <3>1, <3>2
  <2>2. CASE j > n + 1
    <3>1. j - 1 \in 1 .. Len(Q) /\ j - 1 > n
      BY <1>1, <1>2, <1>3, <2>2
    <3>2. Q[j - 1] = P[j]
      BY <1>1, <1>4, <3>1
    <3>3. QED BY <3>1, <3>2
  <2>3. j # n + 1 /\ j \in Nat
    BY <1>1, <1>2, <1>7, <1>9
  <2>4. QED BY <1>1, <2>1, <2>2, <2>3
<1> HIDE DEF f
<1>10. Thins(Q, P, l)
  BY <1>6, <1>8 DEF Thins
<1>11. QED BY <1>9, <1>10 DEF KeepsTexts, P, Q

LEMMA TailThins ==
  ASSUME NEW w \in Seq(Items), NEW l, w # <<>>, ~IsText(Head(w), l)
  PROVE  Thins(Tail(w), w, l) /\ KeepsTexts(Tail(w), w, l)
<1>1. Tail(w) \in Seq(Items) /\ <<>> \in Seq(Items)
  BY HeadTailProperties, EmptySeq
<1>2. <<>> \o w = w /\ <<>> \o Tail(w) = Tail(w)
  BY <1>1, ConcatEmptySeq
<1>3. QED BY <1>1, <1>2, MiddleThins

(* The command prints one more text before it has ended. *)
LEMMA RaisedGoesOn ==
  ASSUME NEW P \in Seq(Items), NEW l, NEW t, NEW low \in Nat, NEW high \in Nat,
         GoesOn(P, l, t, low, high), \A i \in 1 .. Len(P) : ~IsEnd(P[i], l)
  PROVE  GoesOn(P, l, t, low, high + 1)
BY DEF GoesOn

LEMMA AppendedPrecede ==
  ASSUME NEW P \in Seq(Items), NEW e \in Items, NEW l, NEW low \in Nat, NEW n \in Int,
         NEW i \in 1 .. Len(P) + 1, Precede(P, l, low, n, i)
  PROVE  Precede(Append(P, e), l, low, n, i)
<1>1. Len(P) \in Nat /\ \A j \in 1 .. Len(P) : Append(P, e)[j] = P[j]
  BY AppendProperties, LenProperties
<1>2. SUFFICES ASSUME NEW m \in low + 1 .. n
               PROVE  \E j \in 1 .. i - 1 : IsText(Append(P, e)[j], l) /\ Append(P, e)[j].n = m
  BY DEF Precede
<1>3. PICK j \in 1 .. i - 1 : IsText(P[j], l) /\ P[j].n = m
  BY DEF Precede
<1>4. Append(P, e)[j] = P[j]
  BY <1>1
<1>5. QED BY <1>3, <1>4

LEMMA LongerPrecede ==
  ASSUME NEW P \in Seq(Items), NEW e \in Items, NEW l, NEW low \in Nat, NEW n \in Int,
         Precede(P, l, low, n, Len(P) + 1)
  PROVE  Precede(Append(P, e), l, low, n, Len(Append(P, e)) + 1)
<1>1. Len(P) \in Nat /\ Len(Append(P, e)) = Len(P) + 1
  BY AppendProperties, LenProperties
<1>2. Precede(Append(P, e), l, low, n, Len(P) + 1)
  BY <1>1, AppendedPrecede
<1>3. QED BY <1>1, <1>2 DEF Precede

(* An event that is no text of terminal l; the end of its command only after all texts. *)
LEMMA AppendedGoesOn ==
  ASSUME NEW P \in Seq(Items), NEW e \in Items, NEW l, NEW t, NEW low \in Nat, NEW high \in Nat,
         GoesOn(P, l, t, low, high), ~IsText(e, l),
         IsEnd(e, l) => Precede(P, l, low, high, Len(P) + 1)
  PROVE  GoesOn(Append(P, e), l, t, low, high)
<1> DEFINE Q == Append(P, e)
<1>1. /\ Len(P) \in Nat /\ Len(Q) = Len(P) + 1 /\ Q[Len(P) + 1] = e
      /\ \A i \in 1 .. Len(P) : Q[i] = P[i]
  BY AppendProperties, LenProperties
<1>2. \A i \in 1 .. Len(P) + 1, n \in Int : Precede(P, l, low, n, i) => Precede(Q, l, low, n, i)
  BY AppendedPrecede
<1> HIDE DEF Q
<1>3. ASSUME NEW i \in 1 .. Len(Q), IsText(Q[i], l)
      PROVE  /\ Q[i].by = t /\ Q[i].n \in low + 1 .. high
             /\ Precede(Q, l, low, Q[i].n - 1, i)
             /\ \A j \in 1 .. Len(Q) : i < j /\ IsText(Q[j], l) => Q[i].n < Q[j].n
  <2>1. i \in 1 .. Len(P) /\ Q[i] = P[i]
    BY <1>1, <1>3
  <2>2. P[i].by = t /\ P[i].n \in low + 1 .. high /\ Precede(P, l, low, P[i].n - 1, i)
    BY <1>3, <2>1 DEF GoesOn
  <2>3. Precede(Q, l, low, Q[i].n - 1, i)
    BY <1>1, <1>2, <2>1, <2>2
  <2>4. ASSUME NEW j \in 1 .. Len(Q), i < j, IsText(Q[j], l) PROVE Q[i].n < Q[j].n
    <3>1. j \in 1 .. Len(P) /\ Q[j] = P[j]
      BY <1>1, <2>4
    <3>2. QED BY <1>3, <2>1, <2>4, <3>1 DEF GoesOn
  <2>5. QED BY <2>1, <2>2, <2>3, <2>4
<1>4. ASSUME NEW i \in 1 .. Len(Q), IsEnd(Q[i], l) PROVE Precede(Q, l, low, high, i)
  <2>1. CASE i \in 1 .. Len(P)
    BY <1>1, <1>2, <1>4, <2>1 DEF GoesOn
  <2>2. CASE i = Len(P) + 1
    BY <1>1, <1>2, <1>4, <2>2
  <2>3. QED BY <1>1, <2>1, <2>2
<1>5. GoesOn(Q, l, t, low, high)
  BY <1>3, <1>4 DEF GoesOn
<1>6. QED BY <1>5 DEF Q

(* The next text of the command. *)
LEMMA NextTextGoesOn ==
  ASSUME NEW P \in Seq(Items), NEW e \in Items, NEW l, NEW t, NEW low \in Nat, NEW high \in Nat,
         low <= high, GoesOn(P, l, t, low, high), \A i \in 1 .. Len(P) : ~IsEnd(P[i], l),
         Precede(P, l, low, high, Len(P) + 1), IsText(e, l), e.by = t, e.n = high + 1
  PROVE  /\ GoesOn(Append(P, e), l, t, low, high + 1)
         /\ Precede(Append(P, e), l, low, high + 1, Len(Append(P, e)) + 1)
<1> DEFINE Q == Append(P, e)
<1>1. /\ Len(P) \in Nat /\ Len(Q) = Len(P) + 1 /\ Q[Len(P) + 1] = e
      /\ \A i \in 1 .. Len(P) : Q[i] = P[i]
  BY AppendProperties, LenProperties
<1>2. \A i \in 1 .. Len(P) + 1, n \in Int : Precede(P, l, low, n, i) => Precede(Q, l, low, n, i)
  BY AppendedPrecede
<1> HIDE DEF Q
<1>3. ASSUME NEW i \in 1 .. Len(Q), IsText(Q[i], l)
      PROVE  /\ Q[i].by = t /\ Q[i].n \in low + 1 .. high + 1
             /\ Precede(Q, l, low, Q[i].n - 1, i)
             /\ \A j \in 1 .. Len(Q) : i < j /\ IsText(Q[j], l) => Q[i].n < Q[j].n
  <2>1. CASE i = Len(P) + 1
    <3>1. Q[i] = e /\ Q[i].n - 1 = high /\ Q[i].n \in low + 1 .. high + 1
      BY <1>1, <2>1
    <3>2. Precede(Q, l, low, high, i)
      BY <1>1, <1>2, <2>1
    <3>3. \A j \in 1 .. Len(Q) : ~(i < j)
      BY <1>1, <2>1
    <3>4. QED BY <3>1, <3>2, <3>3
  <2>2. CASE i \in 1 .. Len(P)
    <3>1. Q[i] = P[i]
      BY <1>1, <2>2
    <3>2. P[i].by = t /\ P[i].n \in low + 1 .. high /\ Precede(P, l, low, P[i].n - 1, i)
      BY <1>3, <2>2, <3>1 DEF GoesOn
    <3>3. Precede(Q, l, low, Q[i].n - 1, i)
      BY <1>1, <1>2, <2>2, <3>1, <3>2
    <3>4. ASSUME NEW j \in 1 .. Len(Q), i < j, IsText(Q[j], l) PROVE Q[i].n < Q[j].n
      <4>1. CASE j \in 1 .. Len(P)
        BY <1>1, <1>3, <2>2, <3>1, <3>4, <4>1 DEF GoesOn
      <4>2. CASE j = Len(P) + 1
        BY <1>1, <3>1, <3>2, <4>2
      <4>3. QED BY <1>1, <4>1, <4>2
    <3>5. QED BY <3>1, <3>2, <3>3, <3>4
  <2>3. QED BY <1>1, <2>1, <2>2
<1>4. \A i \in 1 .. Len(Q) : ~IsEnd(Q[i], l)
  <2>1. ~IsEnd(e, l)
    BY DEF IsText, IsEnd
  <2>2. QED BY <1>1, <2>1
<1>5. GoesOn(Q, l, t, low, high + 1)
  BY <1>3, <1>4 DEF GoesOn
<1>6. Precede(Q, l, low, high + 1, Len(Q) + 1)
  <2>1. SUFFICES ASSUME NEW m \in low + 1 .. high + 1
                 PROVE  \E j \in 1 .. Len(Q) : IsText(Q[j], l) /\ Q[j].n = m
    BY <1>1 DEF Precede
  <2>2. CASE m = high + 1
    BY <1>1, <2>2
  <2>3. CASE m \in low + 1 .. high
    <3>1. Precede(Q, l, low, high, Len(P) + 1)
      BY <1>1, <1>2
    <3>2. QED BY <1>1, <2>3, <3>1 DEF Precede
  <2>4. QED BY <2>2, <2>3
<1>7. QED BY <1>5, <1>6 DEF Q

(* The first event is a text: the one that is next to be taken. *)
LEMMA TakenGoesOn ==
  ASSUME NEW P \in Seq(Items), NEW l, NEW t, NEW low \in Nat, NEW high \in Nat, P # <<>>,
         GoesOn(P, l, t, low, high), IsText(Head(P), l)
  PROVE  /\ Head(P).by = t /\ Head(P).n = low + 1 /\ low + 1 <= high
         /\ GoesOn(Tail(P), l, t, low + 1, high)
         /\ Precede(P, l, low, high, Len(P) + 1) =>
              Precede(Tail(P), l, low + 1, high, Len(Tail(P)) + 1)
<1> DEFINE Q == Tail(P)
<1>1. /\ Len(P) \in Nat \ {0} /\ Len(Q) = Len(P) - 1 /\ Head(P) = P[1]
      /\ \A i \in 1 .. Len(Q) : Q[i] = P[i + 1]
  BY HeadTailProperties, EmptySeq
<1> HIDE DEF Q
<1>2. /\ P[1].by = t /\ P[1].n \in low + 1 .. high /\ Precede(P, l, low, P[1].n - 1, 1)
      /\ \A j \in 1 .. Len(P) : 1 < j /\ IsText(P[j], l) => P[1].n < P[j].n
  BY <1>1 DEF GoesOn
<1>3. P[1].n = low + 1
  BY <1>2 DEF Precede
<1>4. ASSUME NEW i \in 1 .. Len(P), NEW n \in Int, Precede(P, l, low, n, i + 1)
      PROVE  Precede(Q, l, low + 1, n, i)
  <2>1. SUFFICES ASSUME NEW m \in low + 1 + 1 .. n
                 PROVE  \E k \in 1 .. i - 1 : IsText(Q[k], l) /\ Q[k].n = m
    BY DEF Precede
  <2>2. PICK j \in 1 .. i : IsText(P[j], l) /\ P[j].n = m
    BY <1>4 DEF Precede
  <2>3. j # 1
    BY <1>3, <2>2
  <2>4. j - 1 \in 1 .. i - 1 /\ Q[j - 1] = P[j]
    BY <1>1, <2>3
  <2>5. QED BY <2>2, <2>4
<1>5. ASSUME NEW i \in 1 .. Len(Q), IsText(Q[i], l)
      PROVE  /\ Q[i].by = t /\ Q[i].n \in low + 1 + 1 .. high
             /\ Precede(Q, l, low + 1, Q[i].n - 1, i)
             /\ \A j \in 1 .. Len(Q) : i < j /\ IsText(Q[j], l) => Q[i].n < Q[j].n
  <2>1. i + 1 \in 1 .. Len(P) /\ i \in 1 .. Len(P) /\ Q[i] = P[i + 1] /\ 1 < i + 1
    BY <1>1
  <2>2. /\ P[i + 1].by = t /\ P[i + 1].n \in low + 1 .. high
        /\ Precede(P, l, low, P[i + 1].n - 1, i + 1)
    BY <1>5, <2>1 DEF GoesOn
  <2>3. P[1].n < P[i + 1].n
    BY <1>2, <1>5, <2>1
  <2>4. Precede(Q, l, low + 1, Q[i].n - 1, i)
    BY <1>4, <2>1, <2>2
  <2>5. ASSUME NEW j \in 1 .. Len(Q), i < j, IsText(Q[j], l) PROVE Q[i].n < Q[j].n
    <3>1. j + 1 \in 1 .. Len(P) /\ Q[j] = P[j + 1] /\ i + 1 < j + 1
      BY <1>1, <2>5
    <3>2. QED BY <1>5, <2>1, <2>5, <3>1 DEF GoesOn
  <2>6. QED BY <1>3, <2>1, <2>2, <2>3, <2>4, <2>5
<1>6. ASSUME NEW i \in 1 .. Len(Q), IsEnd(Q[i], l) PROVE Precede(Q, l, low + 1, high, i)
  <2>1. i + 1 \in 1 .. Len(P) /\ i \in 1 .. Len(P) /\ IsEnd(P[i + 1], l)
    BY <1>1, <1>6
  <2>2. QED BY <1>4, <2>1 DEF GoesOn
<1>7. GoesOn(Q, l, t, low + 1, high)
  BY <1>5, <1>6 DEF GoesOn
<1>8. Precede(P, l, low, high, Len(P) + 1) => Precede(Q, l, low + 1, high, Len(Q) + 1)
  BY <1>1, <1>4
<1>9. QED BY <1>1, <1>2, <1>3, <1>7, <1>8 DEF Q

-----------------------------------------------------------------------------
(* Where events come from *)

LEMMA EmittedFrom ==
  ASSUME wire \in Seq(Items), NEW s \in Seq(Items), Emit(s), NEW i \in 1 .. Len(wire')
  PROVE  \/ \E j \in 1 .. Len(wire) : wire'[i] = wire[j]
         \/ \E j \in 1 .. Len(s) : wire'[i] = s[j]
<1>1. CASE wire' = wire
  BY <1>1
<1>2. CASE wire' = wire \o s
  <2>1. /\ Len(wire) \in Nat /\ Len(s) \in Nat /\ Len(wire') = Len(wire) + Len(s)
        /\ wire'[i] = IF i <= Len(wire) THEN wire[i] ELSE s[i - Len(wire)]
    BY <1>2, ConcatProperties, LenProperties
  <2>2. CASE i <= Len(wire)
    BY <2>1, <2>2
  <2>3. CASE ~(i <= Len(wire))
    <3>1. i - Len(wire) \in 1 .. Len(s)
      BY <2>1, <2>3
    <3>2. QED BY <2>1, <2>3, <3>1
  <2>4. QED BY <2>2, <2>3
<1>3. QED BY <1>1, <1>2 DEF Emit

LEMMA NoticeHolds ==
  ASSUME NEW e \in Items
  PROVE  Notice(e) \in Seq(Items) /\ \A j \in 1 .. Len(Notice(e)) : Notice(e)[j] = e
<1>1. CASE Notice(e) = <<e>>
  BY <1>1
<1>2. CASE Notice(e) = <<>>
  <2>1. Len(Notice(e)) = 0
    BY <1>2, EmptySeq
  <2>2. QED BY <1>2, <2>1, EmptySeq
<1>3. QED BY <1>1, <1>2 DEF Notice

LEMMA NoticedFrom ==
  ASSUME wire \in Seq(Items), NEW e \in Items, Emit(Notice(e)), NEW i \in 1 .. Len(wire')
  PROVE  (\E j \in 1 .. Len(wire) : wire'[i] = wire[j]) \/ wire'[i] = e
<1>1. Notice(e) \in Seq(Items) /\ \A j \in 1 .. Len(Notice(e)) : Notice(e)[j] = e
  BY NoticeHolds
<1>2. QED BY <1>1, EmittedFrom

(* Only a terminal at work, or one that is interrupted, says anything. *)
Speaks(l) ==
  /\ phase[l] # "prompt"
  /\ phase[l] = "running" \/ \E u \in Tasks : Interrupt(u) /\ lineOf[u] = l

Says(event, l) ==
  /\ Speaks(l) /\ event.line = l
  /\ IsEnd(event, l) => lasted' = [lasted EXCEPT ![typist[l]] = printed[l]]

LEMMA WireStep ==
  ASSUME TypeOK, StepsFit, [Next]_vars, NEW i \in 1 .. Len(wire')
  PROVE  \/ \E j \in 1 .. Len(wire) : wire'[i] = wire[j]
         \/ wire'[i].name = "answer"
         \/ \E l \in Lines : Says(wire'[i], l)
<1> TerminalsOK /\ LinkOK /\ CallsOK
  BY TypeParts
<1>0. wire \in Seq(Items) /\ wire' \in Seq(Items)
  BY TypeStep, TypeParts DEF LinkOK
<1>1. CASE wire' = wire
  BY <1>1
<1>2. CASE Lost
  <2>1. Len(wire') = 0
    BY <1>2, EmptySeq DEF Lost
  <2>2. QED BY <2>1
<1>3. ASSUME NEW l \in Lines, Prints(l)
      PROVE  \/ \E j \in 1 .. Len(wire) : wire'[i] = wire[j]
             \/ Says(wire'[i], l)
  <2>1. PICK asks \in BOOLEAN : Emit(Notice(Written(l, printed[l] + 1, asks)))
    BY <1>3 DEF Prints
  <2>2. Written(l, printed[l] + 1, asks) \in Items
    <3>1. printed[l] + 1 \in 0 .. MaxPrinted
      BY <1>3, TerminalAssumption DEF Prints, TerminalsOK
    <3>2. QED BY <3>1, ItemsTyped
  <2>3. CASE wire'[i] = Written(l, printed[l] + 1, asks)
    BY <1>3, <2>3 DEF Prints, Says, Speaks, Written, IsEnd
  <2>4. (\E j \in 1 .. Len(wire) : wire'[i] = wire[j]) \/ wire'[i] = Written(l, printed[l] + 1, asks)
    BY <1>0, <2>1, <2>2, NoticedFrom
  <2>5. QED BY <2>3, <2>4
<1>4. ASSUME NEW l \in Lines, Pauses(l)
      PROVE  \/ \E j \in 1 .. Len(wire) : wire'[i] = wire[j]
             \/ Says(wire'[i], l)
  <2> DEFINE w == Written(l, printed[l] + 1, FALSE)
             m == Signal("moreDisplayed", l)
  <2>1. Emit(Notice(w) \o Notice(m))
    BY <1>4 DEF Pauses
  <2>2. w \in Items /\ m \in Items
    <3>1. printed[l] + 1 \in 0 .. MaxPrinted
      BY <1>4, TerminalAssumption DEF Pauses, TerminalsOK
    <3>2. QED BY <3>1, ItemsTyped
  <2>3. Says(w, l) /\ Says(m, l)
    BY <1>4 DEF Pauses, Says, Speaks, Written, Signal, IsEnd
  <2> HIDE DEF w, m
  <2>4. /\ Notice(w) \in Seq(Items) /\ \A j \in 1 .. Len(Notice(w)) : Notice(w)[j] = w
        /\ Notice(m) \in Seq(Items) /\ \A j \in 1 .. Len(Notice(m)) : Notice(m)[j] = m
    BY <2>2, NoticeHolds
  <2>5. /\ Notice(w) \o Notice(m) \in Seq(Items)
        /\ \A j \in 1 .. Len(Notice(w) \o Notice(m)) : (Notice(w) \o Notice(m))[j] \in {w, m}
    <3>1. Len(Notice(w)) \in Nat /\ Len(Notice(m)) \in Nat
      BY <2>4, LenProperties
    <3>2. QED BY <2>4, <3>1, ConcatProperties
  <2>6. QED BY <1>0, <2>1, <2>3, <2>5, EmittedFrom
<1>5. ASSUME NEW l \in Lines, EndCommand(l), Speaks(l)
      PROVE  \/ \E j \in 1 .. Len(wire) : wire'[i] = wire[j]
             \/ Says(wire'[i], l)
  <2>1. Signal("commandEnded", l) \in Items
    BY ItemsTyped
  <2>2. Says(Signal("commandEnded", l), l)
    BY <1>5 DEF EndCommand, Says, Signal
  <2>3. (\E j \in 1 .. Len(wire) : wire'[i] = wire[j]) \/ wire'[i] = Signal("commandEnded", l)
    BY <1>0, <1>5, <2>1, NoticedFrom DEF EndCommand
  <2>4. QED BY <2>2, <2>3
<1>6. ASSUME NEW l \in Lines, Ends(l)
      PROVE  \/ \E j \in 1 .. Len(wire) : wire'[i] = wire[j]
             \/ Says(wire'[i], l)
  BY <1>5, <1>6 DEF Ends, Speaks
<1>7. ASSUME NEW u \in Tasks, Interrupt(u)
      PROVE  \/ \E j \in 1 .. Len(wire) : wire'[i] = wire[j]
             \/ \E l \in Lines : Says(wire'[i], l)
  <2>1. lineOf[u] \in Lines
    BY DEF TerminalsOK
  <2>2. CASE phase[lineOf[u]] # "prompt"
    BY <1>5, <1>7, <2>1, <2>2 DEF Interrupt, Speaks
  <2>3. CASE phase[lineOf[u]] = "prompt"
    BY <1>1, <1>7, <2>3 DEF Interrupt
  <2>4. QED BY <2>2, <2>3
<1>8. ASSUME NEW t \in owed, Answers(t)
      PROVE  \/ \E j \in 1 .. Len(wire) : wire'[i] = wire[j]
             \/ wire'[i].name = "answer"
  <2>1. t \in Runs /\ Lines # {}
    BY DEF LinkOK, TerminalsOK, Tasks
  <2>2. Answer(t) \in Items
    BY <2>1, ItemsTyped
  <2>3. wire' = Append(wire, Answer(t))
    BY <1>8 DEF Answers
  <2>4. /\ Len(wire) \in Nat /\ Len(wire') = Len(wire) + 1 /\ wire'[Len(wire) + 1] = Answer(t)
        /\ \A j \in 1 .. Len(wire) : wire'[j] = wire[j]
    BY <1>0, <2>2, <2>3, AppendProperties, LenProperties
  <2>5. Answer(t).name = "answer"
    BY DEF Answer
  <2>6. QED BY <2>4, <2>5
<1>9. CASE Deliver
  <2>1. wire # <<>> /\ wire' = Tail(wire)
    BY <1>9 DEF Deliver
  <2>2. i + 1 \in 1 .. Len(wire) /\ wire'[i] = wire[i + 1]
    BY <1>0, <2>1, HeadTailProperties, LenProperties
  <2>3. QED BY <2>2
<1>10. ASSUME NEW t \in Tasks, Listens(t) PROVE wire' = wire
  BY <1>10, ListenStep DEF Effect, link
<1>11. ASSUME NEW t \in Tasks,
              Start(t) \/ SubscribeNext(t) \/ SubscribeFails(t) \/ Type(t) \/ PressSpace(t)
                \/ UnsubscribeNext(t)
       PROVE  wire' = wire
  BY <1>11 DEF Start, SubscribeNext, SubscribeFails, Type, PressSpace, UnsubscribeNext, link
<1>12. CASE Reconnect \/ UNCHANGED vars
  BY <1>1, <1>12 DEF Reconnect, vars
<1>13. CASE Pt
  BY <1>2, <1>3, <1>4, <1>6, <1>8, <1>13 DEF Pt
<1>14. QED
  BY <1>1, <1>7, <1>9, <1>10, <1>11, <1>12, <1>13 DEF Next, TaskStep, Listens

LEMMA RxStep ==
  ASSUME TypeOK, StepsFit, [Next]_vars, NEW t \in Tasks, NEW i \in 1 .. Len(rx'[t])
  PROVE  \/ \E j \in 1 .. Len(rx[t]) : rx'[t][i] = rx[t][j]
         \/ \E j \in 1 .. Len(wire) : rx'[t][i] = wire[j]
<1> EarsOK /\ LinkOK
  BY TypeParts
<1>0. rx[t] \in Seq(Items) /\ Len(rx[t]) <= Buffer /\ wire \in Seq(Items)
  BY DEF EarsOK, LinkOK
<1>1. CASE rx'[t] = rx[t]
  BY <1>1
<1>2. CASE rx'[t] = <<>>
  <2>1. Len(rx'[t]) = 0
    BY <1>2, EmptySeq
  <2>2. QED BY <2>1
<1>3. CASE rx[t] # <<>> /\ rx'[t] = Tail(rx[t])
  <2>1. i + 1 \in 1 .. Len(rx[t]) /\ rx'[t][i] = rx[t][i + 1]
    BY <1>0, <1>3, HeadTailProperties, LenProperties
  <2>2. QED BY <2>1
<1>4. CASE Deliver
  <2>1. CASE rx'[t] = Push(rx[t], Head(wire))
    <3> DEFINE e == Head(wire)
    <3>1. e \in Items /\ 1 \in 1 .. Len(wire) /\ e = wire[1]
      BY <1>0, <1>4, HeadTailProperties, EmptySeq DEF Deliver
    <3> HIDE DEF e
    <3>2. CASE rx'[t] = Append(rx[t], e)
      <4>1. /\ Len(rx[t]) \in Nat /\ Len(rx'[t]) = Len(rx[t]) + 1 /\ rx'[t][Len(rx[t]) + 1] = e
            /\ \A j \in 1 .. Len(rx[t]) : rx'[t][j] = rx[t][j]
        BY <1>0, <3>1, <3>2, AppendProperties, LenProperties
      <4>2. QED BY <3>1, <4>1
    <3>3. CASE rx[t] # <<>> /\ rx'[t] = Append(Tail(rx[t]), e)
      <4>1. /\ Tail(rx[t]) \in Seq(Items) /\ Len(Tail(rx[t])) = Len(rx[t]) - 1 /\ Len(rx[t]) \in Nat
            /\ \A j \in 1 .. Len(rx[t]) - 1 : Tail(rx[t])[j] = rx[t][j + 1]
        BY <1>0, <3>3, HeadTailProperties, LenProperties
      <4>2. CASE i = Len(rx[t])
        BY <3>1, <3>3, <4>1, <4>2, AppendProperties
      <4>3. CASE i # Len(rx[t])
        <5>1. i \in 1 .. Len(rx[t]) - 1
          BY <3>1, <3>3, <4>1, <4>3, AppendProperties
        <5>2. rx'[t][i] = rx[t][i + 1] /\ i + 1 \in 1 .. Len(rx[t])
          BY <3>1, <3>3, <4>1, <5>1, AppendProperties
        <5>3. QED BY <5>2
      <4>4. QED BY <4>2, <4>3
    <3>4. Len(rx[t]) < Buffer \/ rx[t] # <<>>
      BY <1>0, TerminalAssumption, EmptySeq
    <3>5. QED BY <2>1, <3>2, <3>3, <3>4 DEF Push, e
  <2>2. QED BY <1>1, <1>4, <2>1 DEF Deliver, Broadcast
<1>5. ASSUME NEW u \in Tasks, Listens(u)
      PROVE  rx'[t] = rx[t] \/ rx'[t] = <<>> \/ (rx[t] # <<>> /\ rx'[t] = Tail(rx[t]))
  <2>1. Effect(u)
    BY <1>5, ListenStep
  <2>2. u # t => rx'[t] = rx[t]
    BY <2>1 DEF Effect, EarsOK
  <2>3. u = t => rx'[t] = rx[t] \/ rx'[t] = <<>> \/ (rx[t] # <<>> /\ rx'[t] = Tail(rx[t]))
    BY <2>1 DEF Effect, Quits, GoesOnListening
  <2>4. QED BY <2>2, <2>3
<1>6. ASSUME NEW u \in Tasks,
             Start(u) \/ SubscribeNext(u) \/ SubscribeFails(u) \/ Type(u) \/ PressSpace(u)
               \/ Interrupt(u) \/ UnsubscribeNext(u)
      PROVE  rx' = rx
  BY <1>6
  DEF Start, SubscribeNext, SubscribeFails, Type, PressSpace, Sent, Interrupt, UnsubscribeNext, ears
<1>7. CASE UNCHANGED <<ears, task>>
  BY <1>1, <1>7 DEF ears
<1>8. QED
  BY <1>1, <1>2, <1>3, <1>4, <1>5, <1>6, <1>7, OtherSteps

-----------------------------------------------------------------------------
(* A terminal on which calls take turns *)

Acts(t) == Type(t) \/ PressSpace(t) \/ Interrupt(t)

LEMMA ActsAlone ==
  ASSUME InTurn, NEW t \in Tasks, NEW u \in Tasks, Active(t), Acts(u), lineOf[u] = lineOf[t]
  PROVE  u = t
<1>1. Active(u)
  BY DEF Acts, Type, PressSpace, Interrupt, Active
<1>2. QED BY <1>1 DEF InTurn

LEMMA OwnLine ==
  ASSUME TypeOK, StepsFit, InTurn, [Next]_vars, NEW t \in Tasks, Active(t)
  PROVE  \/ /\ phase'[lineOf[t]] = phase[lineOf[t]] /\ typist'[lineOf[t]] = typist[lineOf[t]]
            /\ printed'[lineOf[t]] = printed[lineOf[t]]
         \/ Prints(lineOf[t]) \/ Pauses(lineOf[t]) \/ Ends(lineOf[t])
         \/ Acts(t)
<1> DEFINE l == lineOf[t]
<1> TerminalsOK
  BY TypeParts
<1>0. l \in Lines
  BY DEF TerminalsOK
<1>1. CASE UNCHANGED terminals
  BY <1>1 DEF terminals
<1>2. ASSUME NEW k \in Lines, k # l, Prints(k) \/ Pauses(k) \/ Ends(k)
      PROVE  phase'[l] = phase[l] /\ typist'[l] = typist[l] /\ printed'[l] = printed[l]
  BY <1>0, <1>2 DEF Prints, Pauses, Ends, EndCommand, TerminalsOK
<1>3. ASSUME NEW u \in Tasks, u # t, Acts(u)
      PROVE  phase'[l] = phase[l] /\ typist'[l] = typist[l] /\ printed'[l] = printed[l]
  <2>1. lineOf[u] # l
    BY <1>3, ActsAlone
  <2>2. QED
    BY <1>0, <1>3, <2>1 DEF Acts, Type, PressSpace, Sent, Interrupt, EndCommand, TerminalsOK
<1>4. QED
  <2>1. \/ UNCHANGED terminals
        \/ \E k \in Lines : Prints(k) \/ Pauses(k) \/ Ends(k)
        \/ \E u \in Tasks : Acts(u)
    BY TerminalSteps DEF Acts
  <2>2. QED BY <1>1, <1>2, <1>3, <2>1

(* How a command that has ended ended does not change any more. *)
LEMMA LastedStep ==
  ASSUME TypeOK, StepsFit, TypistFits, [Next]_vars, NEW t \in Runs, lasted[t] # Running
  PROVE  lasted'[t] = lasted[t]
<1> TerminalsOK
  BY TypeParts
<1>1. ASSUME NEW l \in Lines, phase[l] # "prompt", EndCommand(l) PROVE lasted'[t] = lasted[t]
  <2>1. typist[l] # t
    <3>1. typist[l] = t => t # Nobody
      BY TerminalAssumption
    <3>2. QED BY <1>1, <3>1 DEF TypistFits, TypistFit
  <2>2. QED BY <1>1, <2>1 DEF EndCommand, TerminalsOK
<1>2. ASSUME NEW l \in Lines, Prints(l) \/ Pauses(l) \/ Ends(l) PROVE lasted'[t] = lasted[t]
  BY <1>1, <1>2 DEF Prints, Pauses, Ends
<1>3. ASSUME NEW u \in Tasks, Acts(u) PROVE lasted'[t] = lasted[t]
  BY <1>1, <1>3 DEF Acts, Type, PressSpace, Interrupt, TerminalsOK
<1>4. QED BY <1>2, <1>3, TerminalSteps DEF Acts, terminals

(* No other step begins to wait. *)
LEMMA WaitStep ==
  ASSUME TypeOK, StepsFit, [Next]_vars, NEW t \in Tasks
  PROVE  /\ pc'[t] \in {"subscribing", "typing"} => pc[t] \in {"subscribing", "typing"} \/ Start(t)
         /\ t \in Runs /\ AtWork(t)' => AtWork(t) \/ Type(t)
         /\ fresh'[t] = fresh[t] \/ Start(t)
<1> CallsOK
  BY TypeParts
<1> USE DEF AtWork, Awaiting
<1>1. CASE UNCHANGED <<ears, task>>
  BY <1>1 DEF task
<1>2. CASE Deliver
  BY <1>2 DEF Deliver, Broadcast, CallsOK
<1>3. ASSUME NEW u \in Tasks, Start(u) \/ SubscribeNext(u)
      PROVE  /\ pc'[t] \in {"subscribing", "typing"} => pc[t] \in {"subscribing", "typing"} \/ Start(t)
             /\ t \in Runs /\ AtWork(t)' => AtWork(t)
             /\ fresh'[t] = fresh[t] \/ Start(t)
  BY <1>3 DEF Start, SubscribeNext, Go, CallsOK
<1>4. ASSUME NEW u \in Tasks,
             SubscribeFails(u) \/ Type(u) \/ PressSpace(u) \/ Interrupt(u) \/ UnsubscribeNext(u)
      PROVE  /\ pc'[t] \in {"subscribing", "typing"} => pc[t] \in {"subscribing", "typing"}
             /\ AtWork(t)' => AtWork(t) \/ Type(t)
             /\ fresh'[t] = fresh[t]
  BY <1>4
  DEF SubscribeFails, Type, PressSpace, Sent, Interrupt, UnsubscribeNext, Go, CallsOK
<1>5. ASSUME NEW u \in Tasks, Listens(u)
      PROVE  /\ pc'[t] \in {"subscribing", "typing"} => pc[t] \in {"subscribing", "typing"}
             /\ AtWork(t)' => AtWork(t)
             /\ fresh'[t] = fresh[t]
  BY <1>5, ListenStep DEF Effect, Quits, GoesOnListening, CallsOK
<1>6. QED BY <1>1, <1>2, <1>3, <1>4, <1>5, OtherSteps

LEMMA StaysQuietStep ==
  ASSUME Inductive, InTurn, StaysQuiet, [Next]_vars
  PROVE  StaysQuiet'
<1> TypeOK /\ StepsFit /\ TypistFits /\ TerminalsOK /\ CallsOK
  BY TypeParts DEF Inductive
<1> SUFFICES ASSUME NEW t \in Runs, fresh'[t], pc'[t] \in {"subscribing", "typing"}
             PROVE  /\ phase'[lineOf[t]] \in {"prompt", "asking"}
                    /\ \A i \in 1 .. Len(wire') : ~OfLine(wire'[i], lineOf[t])
                    /\ \A i \in 1 .. Len(rx'[t]) : ~OfLine(rx'[t][i], lineOf[t])
  BY LinesKept DEF StaysQuiet, OfLine
<1> DEFINE l == lineOf[t]
<1>0. t \in Tasks /\ l \in Lines
  BY DEF Tasks, TerminalsOK
<1>1. CASE Start(t)
  <2>1. /\ Quiet(l) /\ UNCHANGED <<phase, wire, rx>> /\ pc[t] = "idle"
    BY <1>0, <1>1 DEF Start, terminals, link, ears, CallsOK
  <2>2. rx[t] = <<>>
    BY <1>0, <2>1 DEF StepsFit, StepFits
  <2>3. Len(rx[t]) = 0
    BY <2>2, EmptySeq
  <2>4. \A i \in 1 .. Len(wire) : wire[i].line # l
    <3>1. DOMAIN wire = 1 .. Len(wire)
      BY TypeParts, LenProperties DEF LinkOK
    <3>2. QED BY <2>1, <3>1 DEF Quiet
  <2>5. QED BY <2>1, <2>3, <2>4 DEF Quiet, OfLine
<1>2. CASE ~Start(t)
  <2>1. pc[t] \in {"subscribing", "typing"} /\ fresh[t] /\ Active(t)
    BY <1>0, <1>2, WaitStep DEF Active
  <2>2. /\ phase[l] \in {"prompt", "asking"}
        /\ \A i \in 1 .. Len(wire) : ~OfLine(wire[i], l)
        /\ \A i \in 1 .. Len(rx[t]) : ~OfLine(rx[t][i], l)
    BY <2>1 DEF StaysQuiet
  <2>3. ~Acts(t)
    BY <1>0, <2>1 DEF Acts, Type, PressSpace, Sent, Interrupt, Go, CallsOK
  <2>4. phase'[l] \in {"prompt", "asking"}
    BY <1>0, <2>1, <2>2, <2>3, OwnLine DEF Prints, Pauses, Ends
  <2>5. ~Speaks(l)
    <3>1. ASSUME NEW u \in Tasks, Interrupt(u), lineOf[u] = l PROVE FALSE
      BY <1>0, <2>1, <2>3, <3>1, ActsAlone DEF Acts
    <3>2. QED BY <2>2, <3>1 DEF Speaks
  <2>6. ASSUME NEW i \in 1 .. Len(wire') PROVE ~OfLine(wire'[i], l)
    <3>1. \/ \E j \in 1 .. Len(wire) : wire'[i] = wire[j]
          \/ wire'[i].name = "answer"
          \/ \E k \in Lines : Says(wire'[i], k)
      BY WireStep
    <3>2. QED BY <2>2, <2>5, <3>1 DEF Says, OfLine
  <2>7. ASSUME NEW i \in 1 .. Len(rx'[t]) PROVE ~OfLine(rx'[t][i], l)
    BY <1>0, <2>2, RxStep
  <2>8. QED BY <2>4, <2>6, <2>7
<1>3. QED BY <1>1, <1>2

(* The step with which a run types on its quiet terminal. *)
LEMMA TypesOnQuiet ==
  ASSUME Inductive, StaysQuiet, NEW t \in Runs, fresh[t], Type(t)
  PROVE  /\ typist'[lineOf[t]] = t /\ printed'[lineOf[t]] = 0
         /\ UNCHANGED <<wire, rx, up, heard, session, output, result, missed, fresh>>
         /\ output[t] = <<>> /\ result[t] = "none"
         /\ \A i \in 1 .. Len(wire) : ~OfLine(wire[i], lineOf[t])
         /\ \A i \in 1 .. Len(rx[t]) : ~OfLine(rx[t][i], lineOf[t])
<1> TypeOK /\ StepsFit /\ TerminalsOK
  BY TypeParts DEF Inductive
<1>1. t \in Tasks /\ lineOf[t] \in Lines /\ pc[t] = "typing"
  BY DEF Tasks, TerminalsOK, Type
<1>2. /\ phase[lineOf[t]] \in {"prompt", "asking"}
      /\ \A i \in 1 .. Len(wire) : ~OfLine(wire[i], lineOf[t])
      /\ \A i \in 1 .. Len(rx[t]) : ~OfLine(rx[t][i], lineOf[t])
  BY <1>1 DEF StaysQuiet
<1>3. output[t] = <<>> /\ result[t] = "none"
  BY <1>1 DEF StepsFit, StepFits, Early
<1>4. QED BY <1>1, <1>2, <1>3 DEF Type, Sent, ears, TerminalsOK

(* A call finishes with a step of its own. *)
LEMMA FinishedBy ==
  ASSUME TypeOK, StepsFit, [Next]_vars, NEW t \in Tasks, result[t] # "finished", result'[t] = "finished"
  PROVE  Listens(t)
<1> CallsOK
  BY TypeParts
<1>1. ASSUME NEW u \in Tasks, SubscribeFails(u) PROVE FALSE
  BY <1>1 DEF SubscribeFails, CallsOK
<1>2. PICK u \in Tasks : Listens(u)
  <2>1. result' # result
    OBVIOUS
  <2>2. QED
    BY <1>1, <2>1, OtherSteps
    DEF task, Deliver, Start, SubscribeNext, Type, PressSpace, Sent, Interrupt, UnsubscribeNext
<1>3. Effect(u)
  BY <1>2, ListenStep
<1>4. QED BY <1>2, <1>3 DEF Effect, CallsOK

LEMMA EndsAreOwnStep ==
  ASSUME Inductive, InTurn, StaysQuiet, EndsAreOwn, [Next]_vars
  PROVE  EndsAreOwn'
<1> TypeOK /\ StepsFit /\ TypistFits /\ TerminalsOK /\ CallsOK
  BY TypeParts DEF Inductive
<1> SUFFICES ASSUME NEW t \in Runs, fresh'[t]
             PROVE  /\ AtWork(t)' =>
                         /\ typist'[lineOf[t]] = t
                         /\ \A i \in 1 .. Len(wire') : IsEnd(wire'[i], lineOf[t]) => lasted'[t] # Running
                         /\ \A i \in 1 .. Len(rx'[t]) : IsEnd(rx'[t][i], lineOf[t]) => lasted'[t] # Running
                    /\ result'[t] = "finished" => lasted'[t] # Running
  BY LinesKept DEF EndsAreOwn, IsEnd
<1> DEFINE l == lineOf[t]
<1>0. t \in Tasks /\ l \in Lines
  BY DEF Tasks, TerminalsOK
<1>1. ASSUME AtWork(t)'
      PROVE  /\ typist'[lineOf[t]] = t
             /\ \A i \in 1 .. Len(wire') : IsEnd(wire'[i], lineOf[t]) => lasted'[t] # Running
             /\ \A i \in 1 .. Len(rx'[t]) : IsEnd(rx'[t][i], lineOf[t]) => lasted'[t] # Running
  <2>1. CASE AtWork(t)
    <3>1. ~Start(t) /\ Active(t) /\ ~Type(t)
      BY <2>1 DEF Start, Type, AtWork, Awaiting, Active
    <3>2. fresh[t]
      BY <1>0, <3>1, WaitStep
    <3>3. /\ typist[l] = t
          /\ \A i \in 1 .. Len(wire) : IsEnd(wire[i], l) => lasted[t] # Running
          /\ \A i \in 1 .. Len(rx[t]) : IsEnd(rx[t][i], l) => lasted[t] # Running
      BY <2>1, <3>2 DEF EndsAreOwn
    <3>4. typist'[l] = t
      BY <1>0, <3>1, <3>3, OwnLine
      DEF Acts, PressSpace, Sent, Interrupt, Prints, Pauses, Ends
    <3>5. lasted[t] # Running => lasted'[t] # Running
      BY LastedStep
    <3>6. ASSUME NEW i \in 1 .. Len(wire'), IsEnd(wire'[i], l) PROVE lasted'[t] # Running
      <4>1. CASE \E j \in 1 .. Len(wire) : wire'[i] = wire[j]
        BY <3>3, <3>5, <3>6, <4>1
      <4>2. CASE Says(wire'[i], l)
        BY <1>0, <3>3, <3>6, <4>2 DEF Says, TerminalsOK, Running
      <4>3. QED BY <3>6, <4>1, <4>2, WireStep DEF IsEnd, Says
    <3>7. ASSUME NEW i \in 1 .. Len(rx'[t]), IsEnd(rx'[t][i], l) PROVE lasted'[t] # Running
      BY <1>0, <3>3, <3>5, <3>7, RxStep
    <3>8. QED BY <3>4, <3>6, <3>7
  <2>2. CASE ~AtWork(t)
    <3>1. Type(t)
      BY <1>0, <1>1, <2>2, WaitStep
    <3>2. fresh[t]
      BY <3>1 DEF Type, Sent
    <3>3. \A e : IsEnd(e, l) => OfLine(e, l)
      BY DEF IsEnd, OfLine
    <3>4. QED BY <3>1, <3>2, <3>3, TypesOnQuiet
  <2>3. QED BY <2>1, <2>2
<1>2. ASSUME result'[t] = "finished" PROVE lasted'[t] # Running
  <2>1. CASE result[t] = "finished"
    <3>1. ~Start(t)
      BY <1>0, <2>1 DEF Start, StepsFit, StepFits
    <3>2. fresh[t]
      BY <1>0, <3>1, WaitStep
    <3>3. lasted[t] # Running
      BY <2>1, <3>2 DEF EndsAreOwn
    <3>4. QED BY <3>3, LastedStep
  <2>2. CASE result[t] # "finished"
    <3>1. Listens(t)
      BY <1>0, <1>2, <2>2, FinishedBy
    <3>2. Effect(t)
      BY <1>0, <3>1, ListenStep
    <3>4. pc[t] = "collecting" /\ rx[t] # <<>> /\ IsEnd(Head(rx[t]), l) /\ fresh[t]
      BY <1>2, <2>2, <3>2 DEF Effect, Quits, GoesOnListening
    <3>5. AtWork(t)
      BY <3>4 DEF AtWork
    <3>6. 1 \in 1 .. Len(rx[t]) /\ Head(rx[t]) = rx[t][1]
      <4>1. rx[t] \in Seq(Items)
        BY <1>0, TypeParts DEF EarsOK
      <4>2. QED BY <3>4, <4>1, EmptySeq
    <3>7. lasted[t] # Running
      BY <3>4, <3>5, <3>6 DEF EndsAreOwn
    <3>8. QED BY <3>7, LastedStep
  <2>3. QED BY <2>1, <2>2
<1>3. QED BY <1>1, <1>2

-----------------------------------------------------------------------------
(* What a run has still to take *)

LEMMA ComingTyped ==
  ASSUME TypeOK, NEW t \in Tasks
  PROVE  rx[t] \in Seq(Items) /\ wire \in Seq(Items) /\ Coming(t) \in Seq(Items)
<1>1. rx[t] \in Seq(Items) /\ wire \in Seq(Items)
  BY TypeParts DEF EarsOK, LinkOK
<1>2. QED BY <1>1, ConcatProperties DEF Coming

LEMMA ComingFrom ==
  ASSUME TypeOK, NEW t \in Tasks, NEW i \in 1 .. Len(Coming(t))
  PROVE  \/ \E j \in 1 .. Len(rx[t]) : Coming(t)[i] = rx[t][j]
         \/ \E j \in 1 .. Len(wire) : Coming(t)[i] = wire[j]
<1>1. CASE Coming(t) = rx[t]
  BY <1>1
<1>2. CASE Coming(t) = rx[t] \o wire
  <2>1. /\ Len(rx[t]) \in Nat /\ Len(wire) \in Nat /\ i \in 1 .. Len(rx[t]) + Len(wire)
        /\ Coming(t)[i] = IF i <= Len(rx[t]) THEN rx[t][i] ELSE wire[i - Len(rx[t])]
    BY <1>2, ComingTyped, ConcatProperties, LenProperties
  <2>2. CASE i <= Len(rx[t])
    BY <2>1, <2>2
  <2>3. CASE ~(i <= Len(rx[t]))
    <3>1. i - Len(rx[t]) \in 1 .. Len(wire)
      BY <2>1, <2>3
    <3>2. QED BY <2>1, <2>3, <3>1
  <2>4. QED BY <2>2, <2>3
<1>3. QED BY <1>1, <1>2 DEF Coming

(* What a terminal says comes after all the rest. *)
LEMMA ComingEmits ==
  ASSUME TypeOK, NEW t \in Tasks, NEW s \in Seq(Items), Emit(s), UNCHANGED <<up, session, heard, rx>>
  PROVE  /\ Coming(t)' = (IF Connected(t) THEN Coming(t) \o s ELSE Coming(t))
         /\ Connected(t)' = Connected(t)
<1>1. rx[t] \in Seq(Items) /\ wire \in Seq(Items)
  BY ComingTyped
<1>2. \A a, b, c \in Seq(Items) : (a \o b) \o c = a \o (b \o c)
  BY ConcatAssociative
<1>3. (rx[t] \o wire) \o s = rx[t] \o (wire \o s)
  BY <1>1, <1>2
<1>4. QED BY <1>3 DEF Coming, Connected, Emit

LEMMA NoticeAppends ==
  ASSUME NEW P \in Seq(Items), NEW e \in Items
  PROVE  P \o Notice(e) = (IF <<e.line, e.name>> \in subs THEN Append(P, e) ELSE P)
<1>1. P \o <<e>> = Append(P, e)
  BY AppendIsConcat
<1>2. P \o <<>> = P
  BY ConcatEmptySeq
<1>3. QED BY <1>1, <1>2 DEF Notice

LEMMA FollowsAppended ==
  ASSUME NEW P \in Seq(Items), NEW e \in Items, NEW l, NEW t, NEW low \in Nat, NEW high \in Nat,
         NEW all \in BOOLEAN, Follows(P, l, t, low, high, all), ~IsText(e, l), IsEnd(e, l) => all
  PROVE  Follows(Append(P, e), l, t, low, high, all) /\ Append(P, e) \in Seq(Items)
<1>1. GoesOn(Append(P, e), l, t, low, high)
  BY AppendedGoesOn DEF Follows
<1>2. all => Precede(Append(P, e), l, low, high, Len(Append(P, e)) + 1)
  BY LongerPrecede DEF Follows
<1>3. QED BY <1>1, <1>2, AppendProperties DEF Follows

LEMMA FollowsNotice ==
  ASSUME NEW P \in Seq(Items), NEW e \in Items, NEW l, NEW t, NEW low \in Nat, NEW high \in Nat,
         NEW all \in BOOLEAN, Follows(P, l, t, low, high, all), ~IsText(e, l), IsEnd(e, l) => all
  PROVE  Follows(P \o Notice(e), l, t, low, high, all) /\ P \o Notice(e) \in Seq(Items)
<1>1. CASE P \o Notice(e) = Append(P, e)
  BY <1>1, FollowsAppended
<1>2. CASE P \o Notice(e) = P
  BY <1>2
<1>3. QED BY <1>1, <1>2, NoticeAppends

LEMMA FollowsNext ==
  ASSUME NEW P \in Seq(Items), NEW e \in Items, NEW l, NEW t, NEW low \in Nat, NEW high \in Nat,
         low <= high, Follows(P, l, t, low, high, TRUE), \A i \in 1 .. Len(P) : ~IsEnd(P[i], l),
         IsText(e, l), e.by = t, e.n = high + 1
  PROVE  Follows(Append(P, e), l, t, low, high + 1, TRUE) /\ Append(P, e) \in Seq(Items)
BY NextTextGoesOn, AppendProperties DEF Follows

LEMMA FollowsThinned ==
  ASSUME NEW P \in Seq(Items), NEW Q \in Seq(Items), NEW l, NEW t, NEW low \in Nat, NEW high \in Nat,
         NEW all \in BOOLEAN, Follows(P, l, t, low, high, all), Thins(Q, P, l), KeepsTexts(Q, P, l)
  PROVE  Follows(Q, l, t, low, high, all)
BY ThinnedGoesOn, ThinnedHasAll DEF Follows

(* The names of a line's events that a run has subscribed to. *)
LEMMA AllSubscribed ==
  ASSUME HasSubscribed, NEW t \in Tasks, AtWork(t), Connected(t)
  PROVE  \A name \in {"outputWritten", "commandEnded", "moreDisplayed"} : <<lineOf[t], name>> \in subs
<1>1. \A i \in 1 .. 3 : <<lineOf[t], Names[i]>> \in subs
  BY DEF HasSubscribed, Subscribed, AtWork, Awaiting, Connected
<1>2. Names[1] = "outputWritten" /\ Names[2] = "commandEnded" /\ Names[3] = "moreDisplayed"
  BY DEF Names
<1>3. <<lineOf[t], Names[1]>> \in subs /\ <<lineOf[t], Names[2]>> \in subs /\ <<lineOf[t], Names[3]>> \in subs
  BY <1>1
<1>4. QED BY <1>2, <1>3

-----------------------------------------------------------------------------
(* Step by step *)

(* A run that waits on a terminal it has begun to work with. *)
Waits(t) ==
  /\ Inductive /\ InTurn /\ HasSubscribed /\ EndsAreOwn
  /\ t \in Runs /\ fresh[t] /\ AtWork(t) /\ GathersAll(t)

LEMMA WaitFacts ==
  ASSUME NEW t \in Runs, Waits(t)
  PROVE  /\ TypeOK /\ StepsFit /\ TypistFits /\ TerminalsOK /\ CallsOK
         /\ t \in Tasks /\ lineOf[t] \in Lines /\ Active(t) /\ typist[lineOf[t]] = t /\ t # Nobody
         /\ output[t] \in Seq(Items) /\ Len(output[t]) \in Nat /\ printed[lineOf[t]] \in Nat
         /\ Connected(t) \in BOOLEAN
         /\ rx[t] \in Seq(Items) /\ wire \in Seq(Items) /\ Coming(t) \in Seq(Items)
         /\ Len(output[t]) <= printed[lineOf[t]]
         /\ Follows(Coming(t), lineOf[t], t, Len(output[t]), printed[lineOf[t]], Connected(t))
         /\ phase[lineOf[t]] # "prompt" => \A i \in 1 .. Len(Coming(t)) : ~IsEnd(Coming(t)[i], lineOf[t])
<1>1. TypeOK /\ StepsFit /\ TypistFits /\ TerminalsOK /\ CallsOK
  BY TypeParts DEF Waits, Inductive
<1>2. t \in Tasks /\ lineOf[t] \in Lines /\ Active(t) /\ t # Nobody
  BY <1>1, TerminalAssumption DEF Tasks, TerminalsOK, Waits, AtWork, Awaiting, Active
<1>3. typist[lineOf[t]] = t
  BY DEF Waits, EndsAreOwn
<1>4. output[t] \in Seq(Items) /\ printed[lineOf[t]] \in Nat /\ Connected(t) \in BOOLEAN
  BY <1>1, <1>2, TerminalAssumption DEF CallsOK, TerminalsOK, Connected
<1>5. Len(output[t]) \in Nat
  BY <1>4, LenProperties
<1>6. rx[t] \in Seq(Items) /\ wire \in Seq(Items) /\ Coming(t) \in Seq(Items)
  BY <1>1, <1>2, ComingTyped
<1>7. /\ Len(output[t]) <= printed[lineOf[t]]
      /\ Follows(Coming(t), lineOf[t], t, Len(output[t]), printed[lineOf[t]], Connected(t))
  BY DEF Waits, GathersAll
<1>8. ASSUME phase[lineOf[t]] # "prompt", NEW i \in 1 .. Len(Coming(t))
      PROVE  ~IsEnd(Coming(t)[i], lineOf[t])
  <2>1. lasted[t] = Running
    BY <1>1, <1>2, <1>3, <1>8 DEF TypistFits, TypistFit
  <2>2. /\ \A j \in 1 .. Len(wire) : ~IsEnd(wire[j], lineOf[t])
        /\ \A j \in 1 .. Len(rx[t]) : ~IsEnd(rx[t][j], lineOf[t])
    BY <2>1 DEF Waits, EndsAreOwn
  <2>3. QED BY <1>1, <1>2, <2>2, ComingFrom
<1>9. QED BY <1>1, <1>2, <1>3, <1>4, <1>5, <1>6, <1>7, <1>8

(* Whatever happens away from the run and its terminal leaves what is to come alone. *)
LEMMA GathersKept ==
  ASSUME NEW t \in Runs, GathersAll(t), lineOf' = lineOf, printed'[lineOf[t]] = printed[lineOf[t]],
         output'[t] = output[t], Coming(t)' = Coming(t), Connected(t)' => Connected(t)
  PROVE  GathersAll(t)'
BY DEF GathersAll, Follows

LEMMA GathersMore ==
  ASSUME NEW t \in Runs, Waits(t), UNCHANGED <<lineOf, output>>,
         printed'[lineOf[t]] = printed[lineOf[t]] + 1, Connected(t)' = Connected(t),
         Follows(Coming(t)', lineOf[t], t, Len(output[t]), printed[lineOf[t]] + 1, Connected(t))
  PROVE  GathersAll(t)'
<1>1. Len(output[t]) <= printed[lineOf[t]] + 1
  BY WaitFacts
<1>2. QED BY <1>1 DEF Waits, GathersAll

LEMMA LostGathers ==
  ASSUME NEW t \in Runs, Waits(t), Lost
  PROVE  GathersAll(t)'
<1>1. UNCHANGED <<lineOf, printed, output, rx>> /\ ~Connected(t)' /\ Coming(t)' = rx[t]
  BY DEF Lost, terminals, ears, task, Connected, Coming
<1>2. GoesOn(rx[t], lineOf[t], t, Len(output[t]), printed[lineOf[t]])
  <2>1. CASE Connected(t)
    <3>1. Coming(t) = rx[t] \o wire
      BY <2>1 DEF Coming
    <3>2. Thins(rx[t], Coming(t), lineOf[t])
      BY <3>1, WaitFacts, PrefixThins
    <3>3. QED BY <3>2, WaitFacts, ThinnedGoesOn DEF Follows
  <2>2. CASE ~Connected(t)
    BY <2>2, WaitFacts DEF Coming, Follows
  <2>3. QED BY <2>1, <2>2
<1>3. QED BY <1>1, <1>2 DEF Waits, GathersAll, Follows

(* A terminal that is another one's says something. *)
LEMMA OthersSay ==
  ASSUME NEW t \in Runs, Waits(t), NEW s \in Seq(Items), Emit(s),
         UNCHANGED <<lineOf, up, session, heard, rx, output>>,
         printed'[lineOf[t]] = printed[lineOf[t]],
         Follows(Coming(t) \o s, lineOf[t], t, Len(output[t]), printed[lineOf[t]], Connected(t))
  PROVE  GathersAll(t)'
<1>1. /\ Coming(t)' = (IF Connected(t) THEN Coming(t) \o s ELSE Coming(t))
      /\ Connected(t)' = Connected(t)
  BY WaitFacts, ComingEmits
<1>2. Follows(Coming(t)', lineOf[t], t, Len(output[t]), printed[lineOf[t]], Connected(t))
  BY <1>1, WaitFacts
<1>3. QED BY <1>1, <1>2 DEF Waits, GathersAll

LEMMA PrintsGathers ==
  ASSUME NEW t \in Runs, Waits(t), NEW k \in Lines, Prints(k)
  PROVE  GathersAll(t)'
<1> DEFINE l == lineOf[t]
<1>1. PICK asks \in BOOLEAN : Emit(Notice(Written(k, printed[k] + 1, asks)))
  BY DEF Prints
<1> DEFINE e == Written(k, printed[k] + 1, asks)
<1>2. UNCHANGED <<lineOf, up, session, heard, rx, output>> /\ printed' = [printed EXCEPT ![k] = @ + 1]
  BY DEF Prints, ears, task
<1>3. e \in Items /\ Notice(e) \in Seq(Items)
  <2>1. printed[k] + 1 \in 0 .. MaxPrinted
    BY WaitFacts, TerminalAssumption DEF Prints, TerminalsOK
  <2>2. e \in Items
    BY <2>1, WaitFacts, ItemsTyped
  <2>3. QED BY <2>2, NoticeHolds
<1>4. CASE k # l
  <2>1. ~IsText(e, l) /\ ~IsEnd(e, l)
    BY <1>4 DEF Written, IsText, IsEnd
  <2>2. printed'[l] = printed[l]
    BY <1>2, <1>4, WaitFacts DEF TerminalsOK
  <2> HIDE DEF e
  <2>3. Follows(Coming(t) \o Notice(e), l, t, Len(output[t]), printed[l], Connected(t))
    BY <1>3, <2>1, WaitFacts, FollowsNotice
  <2>4. QED BY <1>1, <1>2, <1>3, <2>2, <2>3, OthersSay DEF e
<1>5. CASE k = l
  <2>1. IsText(e, l) /\ e.by = t /\ e.n = printed[l] + 1 /\ e.line = l /\ e.name = "outputWritten"
    BY <1>5, WaitFacts DEF Written, IsText
  <2>2. printed'[l] = printed[l] + 1
    BY <1>2, <1>5, WaitFacts DEF TerminalsOK
  <2>3. /\ Coming(t)' = (IF Connected(t) THEN Coming(t) \o Notice(e) ELSE Coming(t))
        /\ Connected(t)' = Connected(t)
    BY <1>1, <1>2, <1>3, WaitFacts, ComingEmits
  <2>4. \A i \in 1 .. Len(Coming(t)) : ~IsEnd(Coming(t)[i], l)
    BY <1>5, WaitFacts DEF Prints
  <2> HIDE DEF e
  <2>5. CASE Connected(t)
    <3>1. <<e.line, e.name>> \in subs
      BY <2>1, <2>5, WaitFacts, AllSubscribed DEF Waits
    <3>2. Coming(t)' = Append(Coming(t), e)
      BY <1>3, <2>3, <2>5, <3>1, WaitFacts, NoticeAppends
    <3>3. Follows(Coming(t), l, t, Len(output[t]), printed[l], TRUE)
      BY <2>5, WaitFacts
    <3>4. Follows(Append(Coming(t), e), l, t, Len(output[t]), printed[l] + 1, TRUE)
      BY <1>3, <2>1, <2>4, <3>3, WaitFacts, FollowsNext
    <3>5. Follows(Coming(t)', l, t, Len(output[t]), printed[l] + 1, Connected(t))
      BY <2>5, <3>2, <3>4
    <3>6. QED BY <1>2, <2>2, <2>3, <3>5, GathersMore
  <2>6. CASE ~Connected(t)
    <3>1. GoesOn(Coming(t), l, t, Len(output[t]), printed[l] + 1)
      BY <2>4, WaitFacts, RaisedGoesOn DEF Follows
    <3>2. Follows(Coming(t)', l, t, Len(output[t]), printed[l] + 1, Connected(t))
      BY <2>3, <2>6, <3>1 DEF Follows
    <3>3. QED BY <1>2, <2>2, <2>3, <3>2, GathersMore
  <2>7. QED BY <2>5, <2>6
<1>6. QED BY <1>4, <1>5

(* Where a command ends, its end comes after all it has printed. *)
LEMMA EndGathers ==
  ASSUME NEW t \in Runs, Waits(t), NEW k \in Lines, EndCommand(k),
         UNCHANGED <<lineOf, printed, up, session, heard, rx, output>>
  PROVE  GathersAll(t)'
<1> DEFINE l == lineOf[t]
           e == Signal("commandEnded", k)
<1>1. Emit(Notice(e)) /\ e \in Items /\ Notice(e) \in Seq(Items)
  BY WaitFacts, ItemsTyped, NoticeHolds DEF EndCommand
<1>2. ~IsText(e, l)
  BY DEF Signal, IsText
<1> HIDE DEF e
<1>3. CASE Connected(t)
  <2>1. Follows(Coming(t) \o Notice(e), l, t, Len(output[t]), printed[l], TRUE)
    BY <1>1, <1>2, <1>3, WaitFacts, FollowsNotice
  <2>2. Follows(Coming(t) \o Notice(e), l, t, Len(output[t]), printed[l], Connected(t))
    BY <1>3, <2>1
  <2>3. QED BY <1>1, <2>2, OthersSay
<1>4. CASE ~Connected(t)
  <2>1. Coming(t)' = Coming(t) /\ Connected(t)' = Connected(t)
    BY <1>1, <1>4, WaitFacts, ComingEmits
  <2>2. QED BY <2>1, GathersKept DEF Waits
<1>5. QED BY <1>3, <1>4

LEMMA PausesGathers ==
  ASSUME NEW t \in Runs, Waits(t), NEW k \in Lines, Pauses(k)
  PROVE  GathersAll(t)'
<1> DEFINE l == lineOf[t]
           w == Written(k, printed[k] + 1, FALSE)
           m == Signal("moreDisplayed", k)
           P == Coming(t)
<1>1. Emit(Notice(w) \o Notice(m))
  BY DEF Pauses
<1>2. UNCHANGED <<lineOf, up, session, heard, rx, output>> /\ printed' = [printed EXCEPT ![k] = @ + 1]
  BY DEF Pauses, ears, task
<1>3. w \in Items /\ m \in Items
  <2>1. printed[k] + 1 \in 0 .. MaxPrinted
    BY WaitFacts, TerminalAssumption DEF Pauses, TerminalsOK
  <2>2. QED BY <2>1, WaitFacts, ItemsTyped
<1>4. ~IsText(m, l) /\ ~IsEnd(m, l)
  BY DEF Signal, IsText, IsEnd
<1>5. k # l => ~IsText(w, l) /\ ~IsEnd(w, l)
  BY DEF Written, IsText, IsEnd
<1>6. k = l => IsText(w, l) /\ w.by = t /\ w.n = printed[l] + 1 /\ w.line = l /\ w.name = "outputWritten"
  BY WaitFacts DEF Written, IsText
<1>7. phase[k] # "prompt"
  BY DEF Pauses
<1> HIDE DEF w, m
<1>8. Notice(w) \in Seq(Items) /\ Notice(m) \in Seq(Items)
  BY <1>3, NoticeHolds
<1>9. P \in Seq(Items)
  BY WaitFacts
<1>10. /\ Notice(w) \o Notice(m) \in Seq(Items)
       /\ (P \o Notice(w)) \o Notice(m) = P \o (Notice(w) \o Notice(m))
  <2>1. \A a, b, c \in Seq(Items) : (a \o b) \o c = a \o (b \o c) /\ b \o c \in Seq(Items)
    BY ConcatAssociative, ConcatProperties
  <2> HIDE DEF P
  <2>2. QED BY <1>8, <1>9, <2>1
<1>11. /\ Coming(t)' = (IF Connected(t) THEN P \o (Notice(w) \o Notice(m)) ELSE P)
       /\ Connected(t)' = Connected(t)
  BY <1>1, <1>2, <1>10, WaitFacts, ComingEmits
<1>12. CASE k # l
  <2>1. printed'[l] = printed[l]
    BY <1>2, <1>12, WaitFacts DEF TerminalsOK
  <2> DEFINE Q == P \o Notice(w)
  <2>2. Follows(Q, l, t, Len(output[t]), printed[l], Connected(t)) /\ Q \in Seq(Items)
    BY <1>3, <1>5, <1>12, WaitFacts, FollowsNotice
  <2> HIDE DEF Q
  <2>3. Follows(Q \o Notice(m), l, t, Len(output[t]), printed[l], Connected(t))
    BY <1>3, <1>4, <2>2, WaitFacts, FollowsNotice
  <2> USE DEF Q
  <2>4. QED BY <1>1, <1>2, <1>10, <2>1, <2>3, OthersSay
<1>13. CASE k = l
  <2>1. printed'[l] = printed[l] + 1
    BY <1>2, <1>13, WaitFacts DEF TerminalsOK
  <2>2. \A i \in 1 .. Len(P) : ~IsEnd(P[i], l)
    BY <1>7, <1>13, WaitFacts
  <2>3. CASE Connected(t)
    <3>1. <<w.line, w.name>> \in subs
      BY <1>6, <1>13, <2>3, WaitFacts, AllSubscribed DEF Waits
    <3>2. P \o Notice(w) = Append(P, w)
      BY <1>3, <1>9, <3>1, NoticeAppends
    <3>3. Follows(P, l, t, Len(output[t]), printed[l], TRUE)
      BY <2>3, WaitFacts
    <3>4. Follows(Append(P, w), l, t, Len(output[t]), printed[l] + 1, TRUE) /\ Append(P, w) \in Seq(Items)
      BY <1>3, <1>6, <1>9, <1>13, <2>2, <3>3, WaitFacts, FollowsNext
    <3>5. printed[l] + 1 \in Nat
      BY WaitFacts
    <3>6. Follows(Append(P, w) \o Notice(m), l, t, Len(output[t]), printed[l] + 1, TRUE)
      BY <1>3, <1>4, <3>4, <3>5, WaitFacts, FollowsNotice
    <3>7. Follows(Coming(t)', l, t, Len(output[t]), printed[l] + 1, Connected(t))
      BY <1>10, <1>11, <2>3, <3>2, <3>6
    <3>8. QED BY <1>2, <1>11, <2>1, <3>7, GathersMore
  <2>4. CASE ~Connected(t)
    <3>1. GoesOn(P, l, t, Len(output[t]), printed[l] + 1)
      BY <2>2, WaitFacts, RaisedGoesOn DEF Follows
    <3>2. Follows(Coming(t)', l, t, Len(output[t]), printed[l] + 1, Connected(t))
      BY <1>11, <2>4, <3>1 DEF Follows
    <3>3. QED BY <1>2, <1>11, <2>1, <3>2, GathersMore
  <2>5. QED BY <2>3, <2>4
<1>14. QED BY <1>12, <1>13

LEMMA AnswersGathers ==
  ASSUME NEW t \in Runs, Waits(t), NEW u \in owed, Answers(u)
  PROVE  GathersAll(t)'
<1> DEFINE P == Coming(t)
           e == Answer(u)
<1>1. wire' = Append(wire, e) /\ UNCHANGED <<lineOf, printed, output, up, session, heard, rx>>
  BY DEF Answers, terminals, ears, task
<1>2. e \in Items /\ ~IsText(e, lineOf[t]) /\ ~IsEnd(e, lineOf[t])
  <2>1. u \in Runs
    BY WaitFacts, TypeParts DEF LinkOK
  <2>2. e \in Items
    BY <2>1, WaitFacts, ItemsTyped
  <2>3. QED BY <2>2 DEF Answer, IsText, IsEnd
<1> HIDE DEF e
<1>3. Coming(t)' = (IF Connected(t) THEN Append(P, e) ELSE P) /\ Connected(t)' = Connected(t)
  <2>1. \A a, b \in Seq(Items) : Append(a \o b, e) = a \o Append(b, e)
    <3>1. TAKE a \in Seq(Items), b \in Seq(Items)
    <3>2. <<e>> \in Seq(Items) /\ a \o b \in Seq(Items)
      BY <1>2, ConcatProperties
    <3>3. (a \o b) \o <<e>> = a \o (b \o <<e>>)
      BY <3>2, ConcatAssociative
    <3>4. Append(a \o b, e) = (a \o b) \o <<e>> /\ Append(b, e) = b \o <<e>>
      BY <1>2, <3>2, AppendIsConcat
    <3>5. QED BY <3>3, <3>4
  <2>2. Append(rx[t] \o wire, e) = rx[t] \o Append(wire, e)
    BY <2>1, WaitFacts
  <2>3. QED BY <1>1, <2>2 DEF Coming, Connected
<1>4. CASE Connected(t)
  <2>1. Follows(Append(P, e), lineOf[t], t, Len(output[t]), printed[lineOf[t]], Connected(t))
    BY <1>2, WaitFacts, FollowsAppended
  <2>2. QED BY <1>1, <1>3, <1>4, <2>1 DEF Waits, GathersAll
<1>5. CASE ~Connected(t)
  BY <1>1, <1>3, <1>5, GathersKept DEF Waits
<1>6. QED BY <1>4, <1>5

LEMMA DeliverGathers ==
  ASSUME NEW t \in Runs, Waits(t), Deliver, ~missed'[t]
  PROVE  GathersAll(t)'
<1>1. /\ UNCHANGED <<lineOf, printed, output, up, session, heard>>
      /\ wire # <<>> /\ wire' = Tail(wire)
  BY DEF Deliver, terminals
<1>2. Connected(t)' = Connected(t)
  BY <1>1 DEF Connected
<1>3. Tail(wire) \in Seq(Items) /\ Head(wire) \in Items
  BY <1>1, WaitFacts, HeadTailProperties
<1>4. EarsOK /\ missed[t] \in BOOLEAN /\ rx[t] \in Seq(Items)
  BY WaitFacts, TypeParts DEF EarsOK
<1>5. CASE ~Connected(t)
  <2>1. heard[t] # session
    <3>1. up
      BY <1>1, WaitFacts DEF Waits, Inductive, SubsHaveOwner
    <3>2. QED BY <1>5, <3>1 DEF Connected
  <2>2. rx'[t] = rx[t]
    BY <2>1, WaitFacts DEF Deliver, Broadcast, Hearing
  <2>3. Coming(t)' = Coming(t)
    BY <1>2, <1>5, <2>2 DEF Coming
  <2>4. QED BY <1>1, <1>2, <2>3, GathersKept DEF Waits
<1>6. CASE Connected(t) /\ Head(wire).name = "answer"
  <2>1. rx' = rx
    BY <1>6 DEF Deliver
  <2>2. Coming(t) = rx[t] \o wire /\ Coming(t)' = rx[t] \o Tail(wire)
    BY <1>1, <1>2, <1>6, <2>1 DEF Coming
  <2>3. ~IsText(Head(wire), lineOf[t])
    BY <1>6 DEF IsText
  <2>4. \A s \in Seq(Items) : /\ Thins(s \o Tail(wire), s \o wire, lineOf[t])
                              /\ KeepsTexts(s \o Tail(wire), s \o wire, lineOf[t])
                              /\ s \o Tail(wire) \in Seq(Items)
    BY <1>1, <1>3, <2>3, WaitFacts, MiddleThins, ConcatProperties
  <2>5. /\ Thins(Coming(t)', Coming(t), lineOf[t]) /\ KeepsTexts(Coming(t)', Coming(t), lineOf[t])
        /\ Coming(t)' \in Seq(Items)
    BY <1>4, <2>2, <2>4
  <2>6. Follows(Coming(t)', lineOf[t], t, Len(output[t]), printed[lineOf[t]], Connected(t))
    BY <2>5, WaitFacts, FollowsThinned
  <2>7. QED BY <1>1, <1>2, <2>6 DEF Waits, GathersAll
<1>7. CASE Connected(t) /\ Head(wire).name # "answer"
  <2>1. Hearing(t)
    BY <1>7 DEF Hearing, Connected, Waits, AtWork, Awaiting
  <2>2. rx'[t] = Push(rx[t], Head(wire)) /\ Len(rx[t]) # Buffer
    BY <1>4, <1>7, <2>1, WaitFacts DEF Deliver, Broadcast
  <2>3. Len(rx[t]) <= Buffer /\ Len(rx[t]) \in Nat
    BY <1>4, WaitFacts, LenProperties DEF EarsOK
  <2>4. rx'[t] = Append(rx[t], Head(wire))
    BY <2>2, <2>3, TerminalAssumption DEF Push
  <2>5. \A s \in Seq(Items) : Append(s, Head(wire)) \o Tail(wire) = s \o wire
    <3>1. TAKE s \in Seq(Items)
    <3>2. <<Head(wire)>> \in Seq(Items)
      BY <1>3
    <3>3. \A a, b, c \in Seq(Items) : (a \o b) \o c = a \o (b \o c)
      BY ConcatAssociative
    <3>4. Append(s, Head(wire)) = s \o <<Head(wire)>>
      BY <1>3, AppendIsConcat
    <3>5. <<Head(wire)>> \o Tail(wire) = wire
      <4>1. /\ Len(wire) \in Nat \ {0} /\ Len(Tail(wire)) = Len(wire) - 1
            /\ \A i \in 1 .. Len(Tail(wire)) : Tail(wire)[i] = wire[i + 1]
        BY <1>1, WaitFacts, HeadTailProperties, EmptySeq
      <4>2. Len(<<Head(wire)>>) = 1 /\ <<Head(wire)>>[1] = wire[1]
        BY <1>1, WaitFacts
      <4> DEFINE h == <<Head(wire)>>
                 r == Tail(wire)
      <4>3. h \in Seq(Items) /\ r \in Seq(Items) /\ Len(h) = 1 /\ h[1] = wire[1]
        BY <1>3, <3>2, <4>2
      <4> HIDE DEF h, r
      <4>4. /\ h \o r \in Seq(Items) /\ Len(h \o r) = 1 + Len(r)
            /\ \A i \in 1 .. 1 + Len(r) : (h \o r)[i] = IF i <= 1 THEN h[i] ELSE r[i - 1]
        BY <4>3, ConcatProperties
      <4>5. Len(r) = Len(wire) - 1 /\ \A i \in 1 .. Len(r) : r[i] = wire[i + 1]
        BY <4>1 DEF r
      <4>6. \A i \in 1 .. Len(wire) : (h \o r)[i] = wire[i]
        BY <4>1, <4>3, <4>4, <4>5
      <4>7. Len(h \o r) = Len(wire)
        BY <4>1, <4>4, <4>5
      <4>8. h \o r = wire
        <5> DEFINE x == h \o r
        <5>1. x \in Seq(Items) /\ Len(x) = Len(wire) /\ \A i \in 1 .. Len(wire) : x[i] = wire[i]
          BY <4>4, <4>6, <4>7
        <5> HIDE DEF x
        <5>2. x = wire
          BY <5>1, WaitFacts, SeqEqual
        <5>3. QED BY <5>2 DEF x
      <4>9. QED BY <4>8 DEF h, r
    <3>6. (s \o <<Head(wire)>>) \o Tail(wire) = s \o (<<Head(wire)>> \o Tail(wire))
      BY <1>3, <3>2, <3>3
    <3>7. QED BY <3>4, <3>5, <3>6
  <2>6. Coming(t)' = Coming(t)
    <3>1. Coming(t)' = Append(rx[t], Head(wire)) \o Tail(wire) /\ Coming(t) = rx[t] \o wire
      BY <1>1, <1>2, <1>7, <2>4 DEF Coming
    <3>2. QED BY <1>4, <2>5, <3>1
  <2>7. QED BY <1>1, <1>2, <2>6, GathersKept DEF Waits
<1>8. QED BY <1>5, <1>6, <1>7

(* An event is taken, or none. *)
LEMMA TakesGathers ==
  ASSUME NEW t \in Runs, Waits(t), Effect(t), GoesOnListening(t)
  PROVE  GathersAll(t)'
<1> DEFINE P == Coming(t)
           l == lineOf[t]
<1>1. UNCHANGED <<lineOf, printed, up, session, heard, wire>> /\ Connected(t)' = Connected(t)
  BY DEF Effect, terminals, link, Connected
<1>2. CASE rx'[t] = rx[t] /\ output'[t] = output[t]
  <2>1. Coming(t)' = Coming(t)
    BY <1>1, <1>2 DEF Coming
  <2>2. QED BY <1>1, <1>2, <2>1, GathersKept DEF Waits
<1>3. CASE ~(rx'[t] = rx[t] /\ output'[t] = output[t])
  <2>0. rx[t] # <<>> /\ rx'[t] = Tail(rx[t])
    BY <1>3 DEF GoesOnListening
  <2>1. P # <<>> /\ Head(P) = Head(rx[t]) /\ Coming(t)' = Tail(P)
    <3>1. \A a, b \in Seq(Items) :
            a # <<>> => a \o b # <<>> /\ Head(a \o b) = Head(a) /\ Tail(a \o b) = Tail(a) \o b
      <4>1. TAKE a \in Seq(Items), b \in Seq(Items)
      <4>2. HAVE a # <<>>
      <4>3. /\ Len(a) \in Nat \ {0} /\ Len(b) \in Nat
            /\ Tail(a) \in Seq(Items) /\ Len(Tail(a)) = Len(a) - 1
            /\ \A i \in 1 .. Len(a) - 1 : Tail(a)[i] = a[i + 1]
        BY <4>2, EmptySeq, HeadTailProperties, LenProperties
      <4> DEFINE c == a \o b
                 r == Tail(a)
      <4>4. /\ c \in Seq(Items) /\ Len(c) = Len(a) + Len(b)
            /\ \A i \in 1 .. Len(a) + Len(b) : c[i] = IF i <= Len(a) THEN a[i] ELSE b[i - Len(a)]
        BY ConcatProperties
      <4>5. /\ r \in Seq(Items) /\ Len(r) = Len(a) - 1
            /\ \A i \in 1 .. Len(a) - 1 : r[i] = a[i + 1]
        BY <4>3
      <4> HIDE DEF c, r
      <4>6. c # <<>>
        BY <4>3, <4>4, EmptySeq
      <4>7. Head(c) = Head(a)
        BY <4>2, <4>3, <4>4
      <4>8. /\ Tail(c) \in Seq(Items) /\ Len(Tail(c)) = Len(a) + Len(b) - 1
            /\ \A i \in 1 .. Len(a) + Len(b) - 1 : Tail(c)[i] = c[i + 1]
        BY <4>3, <4>4, <4>6, HeadTailProperties
      <4>9. /\ r \o b \in Seq(Items) /\ Len(r \o b) = Len(a) - 1 + Len(b)
            /\ \A i \in 1 .. Len(a) - 1 + Len(b) :
                 (r \o b)[i] = IF i <= Len(a) - 1 THEN r[i] ELSE b[i - (Len(a) - 1)]
        <5>1. /\ r \o b \in Seq(Items) /\ Len(r \o b) = Len(r) + Len(b)
              /\ \A i \in 1 .. Len(r) + Len(b) : (r \o b)[i] = IF i <= Len(r) THEN r[i] ELSE b[i - Len(r)]
          BY <4>5, ConcatProperties
        <5>2. QED BY <4>5, <5>1
      <4>10. \A i \in 1 .. Len(Tail(c)) : Tail(c)[i] = (r \o b)[i]
        BY <4>3, <4>4, <4>5, <4>8, <4>9
      <4>11. Len(Tail(c)) = Len(r \o b)
        BY <4>3, <4>8, <4>9
      <4>12. Tail(c) = r \o b
        BY <4>8, <4>9, <4>10, <4>11, SeqEqual
      <4>13. QED BY <4>6, <4>7, <4>12 DEF c, r
    <3>2. CASE Connected(t)
      BY <1>1, <2>0, <3>1, <3>2, WaitFacts DEF Coming
    <3>3. CASE ~Connected(t)
      BY <1>1, <2>0, <3>3 DEF Coming
    <3>4. QED BY <3>2, <3>3
  <2>2. P \in Seq(Items) /\ Tail(P) \in Seq(Items) /\ Head(P) \in Items
    BY <2>1, WaitFacts, HeadTailProperties
  <2>3. CASE output'[t] = Append(output[t], Head(rx[t])) /\ IsText(Head(rx[t]), l)
    <3>1. GoesOn(P, l, t, Len(output[t]), printed[l])
      BY WaitFacts DEF Follows
    <3>2. /\ Head(P).by = t /\ Head(P).n = Len(output[t]) + 1 /\ Len(output[t]) + 1 <= printed[l]
          /\ GoesOn(Tail(P), l, t, Len(output[t]) + 1, printed[l])
          /\ Precede(P, l, Len(output[t]), printed[l], Len(P) + 1) =>
               Precede(Tail(P), l, Len(output[t]) + 1, printed[l], Len(Tail(P)) + 1)
      BY <2>1, <2>2, <2>3, <3>1, WaitFacts, TakenGoesOn
    <3>3. Follows(Tail(P), l, t, Len(output[t]) + 1, printed[l], Connected(t))
      BY <3>2, WaitFacts DEF Follows
    <3>4. /\ Len(output'[t]) = Len(output[t]) + 1
          /\ \A i \in 1 .. Len(output[t]) : output'[t][i] = output[t][i]
          /\ output'[t][Len(output[t]) + 1] = Head(P)
      BY <2>1, <2>2, <2>3, WaitFacts, AppendProperties
    <3>5. \A i \in 1 .. Len(output'[t]) : output'[t][i].n = i /\ output'[t][i].by = t
      <4>1. \A i \in 1 .. Len(output[t]) : output[t][i].n = i /\ output[t][i].by = t
        BY DEF Waits, GathersAll
      <4>2. QED BY <3>2, <3>4, <4>1, WaitFacts
    <3>6. QED BY <1>1, <2>1, <3>2, <3>3, <3>4, <3>5 DEF GathersAll
  <2>4. CASE output'[t] = output[t] /\ ~IsText(Head(rx[t]), l)
    <3> DEFINE Q == Tail(P)
    <3>1. Thins(Q, P, l) /\ KeepsTexts(Q, P, l) /\ Q \in Seq(Items)
      BY <2>1, <2>2, <2>4, TailThins
    <3> HIDE DEF Q
    <3>2. Follows(Q, l, t, Len(output[t]), printed[l], Connected(t))
      BY <3>1, WaitFacts, FollowsThinned
    <3>3. Follows(Coming(t)', l, t, Len(output[t]), printed[l], Connected(t))
      BY <2>1, <3>2 DEF Q
    <3>4. QED BY <1>1, <2>4, <3>3 DEF Waits, GathersAll
  <2>5. QED BY <1>3, <2>3, <2>4 DEF GoesOnListening
<1>4. QED BY <1>2, <1>3 DEF GoesOnListening

(* Any step after which the run still waits, if it has not been overtaken. *)
LEMMA GathersStep ==
  ASSUME NEW t \in Runs, Waits(t), [Next]_vars, AtWork(t)', ~missed'[t]
  PROVE  GathersAll(t)'
<1>0. TypeOK /\ StepsFit /\ TerminalsOK /\ CallsOK /\ EarsOK /\ t \in Tasks /\ AtWork(t)
  BY WaitFacts, TypeParts DEF Waits
<1>1. CASE /\ lineOf' = lineOf /\ printed'[lineOf[t]] = printed[lineOf[t]] /\ output'[t] = output[t]
           /\ UNCHANGED <<up, session, wire>> /\ heard'[t] = heard[t] /\ rx'[t] = rx[t]
  BY <1>1, GathersKept DEF Coming, Connected, Waits
<1>2. CASE Pt
  <2>1. ASSUME NEW l \in Lines, Ends(l) PROVE GathersAll(t)'
    BY <2>1, EndGathers DEF Ends, ears, task
  <2>2. QED
    BY <1>2, <2>1, LostGathers, PrintsGathers, PausesGathers, AnswersGathers DEF Pt
<1>3. CASE Deliver
  BY <1>3, DeliverGathers
<1>4. CASE Reconnect
  <2>1. ~Connected(t) /\ ~Connected(t)'
    BY <1>0, <1>4, TypeParts DEF Reconnect, ears, Connected, StepsFit, StepFits, LinkOK, EarsOK
  <2>2. UNCHANGED <<lineOf, printed, output, rx>>
    BY <1>4 DEF Reconnect, terminals, ears, task
  <2>3. Coming(t)' = Coming(t)
    BY <2>1, <2>2 DEF Coming
  <2>4. QED BY <2>1, <2>2, <2>3, GathersKept DEF Waits
<1>5. CASE UNCHANGED vars
  BY <1>1, <1>5 DEF vars
<1>6. ASSUME NEW u \in Tasks, Start(u) \/ SubscribeFails(u) \/ PressSpace(u) \/ UnsubscribeNext(u)
      PROVE  GathersAll(t)'
  BY <1>1, <1>6
  DEF Start, SubscribeFails, PressSpace, Sent, UnsubscribeNext, terminals, link, ears
<1>7. ASSUME NEW u \in Tasks, SubscribeNext(u) PROVE GathersAll(t)'
  <2>1. u # t
    BY <1>0, <1>7 DEF SubscribeNext, AtWork, Awaiting
  <2>2. heard'[t] = heard[t]
    BY <1>0, <1>7, <2>1 DEF SubscribeNext, EarsOK
  <2>3. QED BY <1>1, <1>7, <2>2 DEF SubscribeNext, terminals
<1>8. ASSUME NEW u \in Tasks, Type(u) PROVE GathersAll(t)'
  <2>1. u # t
    BY <1>0, <1>8 DEF Type, AtWork, Awaiting
  <2>2. lineOf[u] # lineOf[t]
    BY <1>0, <1>8, <2>1, WaitFacts, ActsAlone DEF Acts, Waits
  <2>3. printed'[lineOf[t]] = printed[lineOf[t]]
    BY <1>0, <1>8, <2>2 DEF Type, TerminalsOK
  <2>4. QED BY <1>1, <1>8, <2>3 DEF Type, Sent, ears
<1>9. ASSUME NEW u \in Tasks, Interrupt(u) PROVE GathersAll(t)'
  <2>1. UNCHANGED <<lineOf, printed, output, up, session, heard, rx>>
    BY <1>9 DEF Interrupt, ears
  <2>2. CASE phase[lineOf[u]] = "prompt"
    BY <1>1, <1>9, <2>1, <2>2 DEF Interrupt
  <2>3. CASE phase[lineOf[u]] # "prompt"
    <3>1. EndCommand(lineOf[u]) /\ lineOf[u] \in Lines
      BY <1>0, <1>9, <2>3 DEF Interrupt, TerminalsOK
    <3>2. QED BY <2>1, <3>1, EndGathers
  <2>4. QED BY <2>2, <2>3
<1>10. ASSUME NEW u \in Tasks, Listens(u) PROVE GathersAll(t)'
  <2>1. Effect(u)
    BY <1>0, <1>10, ListenStep
  <2>2. CASE u # t
    <3>1. UNCHANGED <<lineOf, printed, up, session, wire, heard>>
      BY <2>1 DEF Effect, terminals, link
    <3>2. output'[t] = output[t] /\ rx'[t] = rx[t]
      BY <1>0, <2>1, <2>2 DEF Effect, CallsOK, EarsOK
    <3>3. QED BY <1>1, <3>1, <3>2
  <2>3. CASE u = t
    <3>1. ~Quits(t)
      BY DEF Quits, AtWork, Awaiting
    <3>2. QED BY <2>1, <2>3, <3>1, TakesGathers DEF Effect
  <2>4. QED BY <2>2, <2>3
<1>11. QED
  BY <1>2, <1>3, <1>4, <1>5, <1>6, <1>7, <1>8, <1>9, <1>10 DEF Next, TaskStep, Listens

(* The end of its command comes when a run has gathered all of it. *)
LEMMA FinishesWhole ==
  ASSUME NEW t \in Runs, Waits(t), Effect(t), Quits(t), result'[t] = "finished"
  PROVE  Whole(t)'
<1> DEFINE P == Coming(t)
           l == lineOf[t]
<1>1. rx[t] # <<>> /\ IsEnd(Head(rx[t]), l) /\ output'[t] = output[t] /\ lasted' = lasted
  BY TerminalAssumption DEF Effect, Quits, terminals
<1>2. Len(rx[t]) \in Nat \ {0} /\ Head(rx[t]) = rx[t][1]
  BY <1>1, WaitFacts, EmptySeq
<1>3. 1 \in 1 .. Len(P) /\ P[1] = rx[t][1]
  <2>1. CASE Connected(t)
    <3>1. /\ Len(rx[t] \o wire) = Len(rx[t]) + Len(wire) /\ Len(wire) \in Nat
          /\ \A i \in 1 .. Len(rx[t]) + Len(wire) :
               (rx[t] \o wire)[i] = IF i <= Len(rx[t]) THEN rx[t][i] ELSE wire[i - Len(rx[t])]
      BY WaitFacts, ConcatProperties, LenProperties
    <3>2. QED BY <1>2, <2>1, <3>1 DEF Coming
  <2>2. CASE ~Connected(t)
    BY <1>2, <2>2 DEF Coming
  <2>3. QED BY <2>1, <2>2
<1>4. Precede(P, l, Len(output[t]), printed[l], 1)
  BY <1>1, <1>2, <1>3, WaitFacts DEF Follows, GoesOn
<1>5. ~(Len(output[t]) < printed[l])
  <2>1. Len(output[t]) < printed[l] => Len(output[t]) + 1 \in Len(output[t]) + 1 .. printed[l]
    BY WaitFacts
  <2>2. QED BY <1>4, <2>1 DEF Precede
<1>6. lasted[t] # Running
  <2>1. 1 \in 1 .. Len(rx[t]) /\ IsEnd(rx[t][1], l)
    BY <1>1, <1>2
  <2>2. QED BY <2>1 DEF Waits, EndsAreOwn
<1>7. lasted[t] = printed[l]
  BY <1>6, WaitFacts DEF TypistFits, TypistFit
<1>8. Len(output[t]) = lasted[t]
  BY <1>5, <1>7, WaitFacts
<1>9. \A i \in 1 .. Len(output[t]) : output[t][i].n = i /\ output[t][i].by = t
  BY DEF Waits, GathersAll
<1>10. DOMAIN output[t] = 1 .. Len(output[t])
  BY WaitFacts, LenProperties
<1>11. QED BY <1>1, <1>8, <1>9, <1>10 DEF Whole

LEMMA NothingIsLostStep ==
  ASSUME OutputInductive, [Next]_vars
  PROVE  NothingIsLost'
<1> USE DEF OutputInductive, TakeTurns
<1> TypeOK /\ StepsFit /\ TypistFits /\ CallsOK /\ EarsOK
  BY TypeParts DEF Inductive
<1> SUFFICES ASSUME NEW t \in Runs, fresh'[t], ~missed'[t]
             PROVE  /\ AtWork(t)' => GathersAll(t)'
                    /\ result'[t] = "finished" => Whole(t)'
  BY DEF NothingIsLost
<1>0. t \in Tasks
  BY DEF Tasks
<1>1. ~missed[t]
  <2>1. UNCHANGED missed \/ Deliver
    <3>1. ASSUME NEW u \in Tasks, Listens(u) PROVE UNCHANGED missed
      BY <3>1, ListenStep DEF Effect
    <3>2. QED
      BY <3>1, OtherSteps
      DEF Start, SubscribeNext, SubscribeFails, Type, PressSpace, Sent, Interrupt, UnsubscribeNext, ears
  <2>2. Deliver => UNCHANGED missed \/ (missed'[t] <=> missed[t] \/ (Hearing(t) /\ Len(rx[t]) = Buffer))
    BY <1>0 DEF Deliver, Broadcast
  <2>3. QED BY <2>1, <2>2
<1>2. ASSUME AtWork(t)' PROVE GathersAll(t)'
  <2>1. CASE AtWork(t)
    <3>1. fresh[t]
      BY <1>0, <2>1, WaitStep DEF Start, AtWork, Awaiting
    <3>2. Waits(t)
      BY <1>1, <2>1, <3>1 DEF NothingIsLost, Waits
    <3>3. QED BY <1>2, <3>2, GathersStep
  <2>2. CASE ~AtWork(t)
    <3>1. Type(t)
      BY <1>0, <1>2, <2>2, WaitStep
    <3>2. fresh[t]
      BY <3>1 DEF Type, Sent
    <3>3. /\ printed'[lineOf[t]] = 0 /\ output'[t] = <<>> /\ lineOf' = lineOf
          /\ UNCHANGED <<wire, rx, up, heard, session>>
      BY <3>1, <3>2, TypesOnQuiet, LinesKept
    <3>4. Coming(t)' = Coming(t)
      BY <3>3 DEF Coming, Connected
    <3>5. ASSUME NEW i \in 1 .. Len(Coming(t))
          PROVE  ~IsText(Coming(t)[i], lineOf[t]) /\ ~IsEnd(Coming(t)[i], lineOf[t])
      <4>1. ~OfLine(Coming(t)[i], lineOf[t])
        BY <1>0, <3>1, <3>2, ComingFrom, TypesOnQuiet
      <4>2. QED BY <4>1 DEF OfLine, IsText, IsEnd
    <3>6. GoesOn(Coming(t), lineOf[t], t, 0, 0)
      BY <3>5 DEF GoesOn
    <3>7. Precede(Coming(t), lineOf[t], 0, 0, Len(Coming(t)) + 1)
      BY DEF Precede
    <3>8. Follows(Coming(t), lineOf[t], t, 0, 0, Connected(t)')
      BY <3>6, <3>7 DEF Follows
    <3>9. Len(<<>>) = 0
      BY EmptySeq
    <3>10. QED BY <3>3, <3>4, <3>8, <3>9 DEF GathersAll
  <2>3. QED BY <2>1, <2>2
<1>3. ASSUME result'[t] = "finished" PROVE Whole(t)'
  <2>1. CASE result[t] = "finished"
    <3>1. pc[t] \in {"leaving", "done"} /\ ~Start(t)
      BY <1>0, <2>1 DEF StepsFit, StepFits, Start
    <3>2. fresh[t]
      BY <1>0, <3>1, WaitStep
    <3>3. Whole(t) /\ lasted[t] # Running
      BY <1>1, <2>1, <3>2 DEF NothingIsLost, EndsAreOwn
    <3>4. lasted'[t] = lasted[t]
      BY <3>3, LastedStep
    <3>5. output'[t] = output[t]
      <4>1. ASSUME NEW u \in Tasks, Listens(u) PROVE output'[t] = output[t]
        <5>1. Effect(u)
          BY <4>1, ListenStep
        <5>2. u # t
          BY <3>1, <5>1 DEF Effect, Awaiting
        <5>3. QED BY <1>0, <5>1, <5>2 DEF Effect, CallsOK
      <4>2. QED
        BY <4>1, OtherSteps
        DEF task, Deliver, Start, SubscribeNext, SubscribeFails, Type, PressSpace, Sent, Interrupt,
            UnsubscribeNext
    <3>6. QED BY <3>3, <3>4, <3>5 DEF Whole
  <2>2. CASE result[t] # "finished"
    <3>1. Listens(t)
      BY <1>0, <1>3, <2>2, FinishedBy
    <3>2. Effect(t) /\ Quits(t) /\ AtWork(t) /\ fresh[t]
      <4>1. Effect(t)
        BY <1>0, <3>1, ListenStep
      <4>2. Quits(t)
        BY <1>3, <2>2, <4>1 DEF Effect, GoesOnListening
      <4>3. pc[t] = "collecting" /\ fresh[t]
        BY <1>3, <4>1, <4>2 DEF Quits, Effect
      <4>4. QED BY <4>1, <4>2, <4>3 DEF AtWork
    <3>3. Waits(t)
      BY <1>1, <3>2 DEF NothingIsLost, Waits
    <3>4. QED BY <1>3, <3>2, <3>3, FinishesWhole
  <2>3. QED BY <2>1, <2>2
<1>4. QED BY <1>2, <1>3

-----------------------------------------------------------------------------
(* What a run returns *)

LEMMA OutputInductiveHolds ==
  ASSUME ~Overlap
  PROVE  Safety => []OutputInductive
<1>1. Init => OutputInductive
  <2>1. Init => StaysQuiet /\ EndsAreOwn /\ NothingIsLost
    BY DEF Init, StaysQuiet, EndsAreOwn, NothingIsLost, Tasks
  <2>2. QED BY <2>1, TakeTurnsInit DEF OutputInductive
<1>2. OutputInductive /\ [Next]_vars => OutputInductive'
  BY TakeTurnsStep, StaysQuietStep, EndsAreOwnStep, NothingIsLostStep DEF OutputInductive, TakeTurns
<1>3. QED BY <1>1, <1>2, PTL DEF Safety

(***************************************************************************)
(* A run that began at a quiet terminal and reports that its command has   *)
(* finished tells of its own command, with any others on other terminals.  *)
(***************************************************************************)
THEOREM FinishedIsTrue ==
  ASSUME ~Overlap
  PROVE  Safety => []FinishedIsOwn
<1>1. OutputInductive => FinishedIsOwn
  BY DEF OutputInductive, EndsAreOwn, FinishedIsOwn
<1>2. QED BY <1>1, OutputInductiveHolds, PTL

(***************************************************************************)
(* Unless the event buffer overtook it, such a run returns every text its  *)
(* command printed, in order, and nothing else.                            *)
(***************************************************************************)
THEOREM OutputIsWhole ==
  ASSUME ~Overlap
  PROVE  Safety => []WholeOutput
<1>1. OutputInductive => WholeOutput
  BY DEF OutputInductive, NothingIsLost, WholeOutput
<1>2. QED BY <1>1, OutputInductiveHolds, PTL
=================================================================================

--------------------------- MODULE IosConsoleProofs ---------------------------
(***************************************************************************)
(* Proofs about the IOS console, for any number of calls and any requests: *)
(* run_cli types its command where it was asked to, a block continues      *)
(* where its last command left the console, what is reported saved is      *)
(* saved, and neither a refused walk to a mode nor a block leaves the      *)
(* console in the way of the next call.                                    *)
(***************************************************************************)
EXTENDS IosConsole, TLAPS

-----------------------------------------------------------------------------
(* The inductive invariant *)

CliSteps == {"booted?", "ready?", "question?", "unlocking", "mode?", "switching", "answering",
             "escaping", "verified", "password"}
BlockSteps == {"entering", "saving"}

Active(t) == pc[t] \notin {"idle", "done"}
Alone(t) == \A u \in Tasks \ {t} : ~Active(u)

(* Where a call stands agrees with what it was asked, and it returns once. *)
StepsFitRequest ==
  \A t \in Tasks :
    /\ pc[t] \in CliSteps => Cli(t)
    /\ pc[t] \in BlockSteps => request[t].tool = "configure_ios"
    /\ pc[t] # "done" => result[t] = "none"
    /\ pc[t] = "idle" => t \notin slips /\ done[t] = 0 /\ context[t] = "global"

Shaped ==
  /\ DOMAIN todo = Tasks /\ DOMAIN request = Tasks
  /\ done \in [Tasks -> Nat]

(* A call that is not shared has the console to itself. *)
UnsharedIsAlone == \A t \in Tasks : Active(t) /\ t \notin shared => Alone(t)

(* Such a block enters its next command where its last one left the console. *)
NextInContext ==
  \A t \in Tasks :
    pc[t] = "entering" /\ todo[t] # <<>> /\ t \notin shared => CommandMode(t) = context[t]

(* What is being saved, and what has been, is complete. *)
SavingIsComplete == \A t \in Tasks : pc[t] = "saving" => Complete(t)

Inductive ==
  /\ TypeOK /\ Shaped /\ StepsFitRequest
  /\ UnsharedIsAlone /\ NextInContext /\ BlockKeepsContext
  /\ SavingIsComplete /\ SavedIsDurable

(* The rest is about run_cli calls that do not share the console with any other call. *)
InTurn == "run_cli" \notin Overlap

CliIsAlone == \A t \in Tasks : Active(t) /\ Cli(t) => Alone(t)

(* What run_cli has learnt of the screen and the mode stays true while it goes on. *)
FitsStep(t) ==
  /\ pc[t] = "ready?" => screen # "booting"
  /\ pc[t] = "question?" => screen \in {"prompt"} \cup Questions
  /\ pc[t] = "unlocking" => screen \in {"enable_password", "line_password"}
  /\ pc[t] \in {"mode?", "switching"} => screen = "prompt"
  /\ pc[t] \in {"answering", "escaping"} => screen = "enable_password"
  /\ pc[t] = "verified" /\ Wants(t) # "current" => screen = "prompt" /\ mode = Wants(t)
ScreenFitsStep == \A t \in Tasks : FitsStep(t)

CliInductive == Inductive /\ CliIsAlone /\ ScreenFitsStep /\ TypedAsMeant

-----------------------------------------------------------------------------
(* Facts about the IOS command line *)

(* A command that is accepted leads to a mode; `end` and `write memory` lead to enable. *)
LEMMA LeadsSomewhere ==
  ASSUME NEW m, NEW c, Accepts(m, c)
  PROVE  /\ Leads(m, c) \in Modes
         /\ c \in {"end", "write_memory"} => Leads(m, c) = "enable"
<1> DEFINE move == CHOOSE v \in Moves : v[1] = m /\ v[2] = c
<1>1. move \in Moves /\ move[2] = c
  BY DEF Accepts
<1>2. Leads(m, c) = move[3]
  BY DEF Leads
<1> HIDE DEF move
<1>3. PICK from, by, to : move = <<from, by, to>>
  BY <1>1, Zenon DEF Moves
<1>4. to \in Modes /\ (by \in {"end", "write_memory"} => to = "enable")
  BY <1>1, <1>3, Zenon DEF Moves, Modes
<1>5. move[2] = by /\ move[3] = to
  BY <1>3
<1>6. QED BY <1>1, <1>2, <1>4, <1>5

(* Configuration mode accepts `end`. *)
LEMMA EndIsAccepted == \A m \in Configuring : Accepts(m, "end")
<1>1. <<"global", "end", "enable">> \in Moves /\ <<"interface", "end", "enable">> \in Moves
  BY DEF Moves
<1>2. QED BY <1>1 DEF Accepts, Configuring

LEMMA WriteIsAccepted == Accepts("enable", "write_memory")
<1>1. <<"enable", "write_memory", "enable">> \in Moves
  BY DEF Moves
<1>2. QED BY <1>1 DEF Accepts

(* What typing does at each screen, as far as the walk of a call relies on it. *)
LEMMA ReactionsAtScreen ==
  ASSUME mode \in Modes, screen \in Screens, NEW text, NEW x \in Reactions(text)
  PROVE  /\ x.mode \in Modes /\ x.screen \in Screens
         /\ screen = "prompt" =>
              /\ x.status = "ok" => x.screen = "prompt"
              /\ x.status = "question" => x.screen \in {"confirm", "enable_password"}
         /\ screen = "enable_password" =>
              /\ x.screen = IF x.status = "question" THEN "enable_password" ELSE "prompt"
              /\ x.status \in {"ok", "question"}
              /\ text = EnterKey => x.screen = "prompt"
         /\ screen = "line_password" => (x.status # "question" => x.screen = "prompt")
         /\ screen = "return" /\ text = EnterKey => x.screen \in {"prompt", "line_password"}
<1> USE DEF Reaction
<1>1. CASE screen = "prompt"
  <2>1. Reactions(text) =
          IF text = "reload" /\ mode = "enable" THEN {Reaction(mode, "confirm", "question")}
          ELSE IF text = "enable" /\ mode = "user" /\ "enable" \in locks
               THEN {Reaction(mode, "enable_password", "question")}
          ELSE IF Accepts(mode, text) THEN {Reaction(Leads(mode, text), "prompt", "ok")}
          ELSE {Reaction(mode, "prompt", IF text = EnterKey THEN "ok" ELSE "invalid")}
    BY <1>1 DEF Reactions
  <2>2. QED BY <1>1, <2>1, LeadsSomewhere DEF Screens, Questions
<1>2. CASE screen = "enable_password"
  <2>1. Reactions(text) =
          IF text = "enable_secret" THEN {Reaction("enable", "prompt", "ok")}
          ELSE {Reaction(mode, "prompt", "ok")}
                 \cup {Reaction(mode, screen, "question") : again \in {text} \ {EnterKey}}
    BY <1>2 DEF Reactions
  <2>2. QED BY <1>2, <2>1 DEF Screens, Questions, Modes
<1>3. CASE screen = "line_password"
  <2>1. Reactions(text) = {IF text = "line_secret" THEN Reaction(mode, "prompt", "ok")
                           ELSE Reaction(mode, screen, "question")}
    BY <1>3 DEF Reactions
  <2>2. QED BY <1>3, <2>1 DEF Screens, Questions
<1>4. CASE screen = "confirm"
  <2>1. Reactions(text) = {IF text \in {EnterKey, "yes"} THEN Reaction("user", "booting", "ok")
                           ELSE Reaction(mode, "prompt", "ok")}
    BY <1>4 DEF Reactions
  <2>2. QED BY <1>4, <2>1 DEF Screens, Questions, Modes
<1>5. CASE screen = "return"
  <2>1. Reactions(text) =
          {IF text # EnterKey THEN Reaction(mode, screen, "ok")
           ELSE IF "line" \in locks THEN Reaction(mode, "line_password", "question")
           ELSE Reaction(mode, "prompt", "ok")}
    BY <1>5 DEF Reactions
  <2>2. QED BY <1>5, <2>1 DEF Screens, Questions
<1>6. CASE screen \in {"dialog", "booting"}
  <2>1. CASE screen = "dialog"
    <3>1. Reactions(text) = {Reaction(mode, IF text = "no" THEN "return" ELSE screen, "ok")}
      BY <2>1 DEF Reactions
    <3>2. QED BY <2>1, <3>1 DEF Screens, Questions
  <2>2. CASE screen = "booting"
    <3>1. Reactions(text) = {Reaction(mode, screen, "ok")}
      BY <2>2 DEF Reactions
    <3>2. QED BY <2>2, <3>1 DEF Screens, Questions
  <2>3. QED BY <1>6, <2>1, <2>2
<1>7. QED BY <1>1, <1>2, <1>3, <1>4, <1>5, <1>6 DEF Screens, Questions

(* Typing keeps the console's types and dirties the configuration for the typist only. *)
LEMMA ShowsTyped ==
  ASSUME TypeOK, NEW t \in Tasks, NEW text,
         \E x \in Reactions(text) : Shows(t, x, text)
  PROVE  /\ mode' \in Modes /\ screen' \in Screens /\ locks' = locks
         /\ unsaved' \subseteq unsaved \cup {t}
<1> PICK x \in Reactions(text) : Shows(t, x, text)
  OBVIOUS
<1>1. x.mode \in Modes /\ x.screen \in Screens
  BY ReactionsAtScreen DEF TypeOK
<1>2. QED BY <1>1 DEF Shows

LEMMA EntersTyped ==
  ASSUME TypeOK, NEW t \in Tasks, NEW m \in Modes, NEW text, Enters(t, m, text)
  PROVE  /\ mode' \in Modes /\ screen' = screen /\ locks' = locks
         /\ unsaved' \subseteq unsaved \cup {t}
BY LeadsSomewhere DEF Enters

-----------------------------------------------------------------------------
(* A step of one call *)

(* What a step of a call under way leaves to the others, and where it may lead. *)
Own(t) ==
  /\ Active(t)
  /\ UNCHANGED <<request, shared>>
  /\ pc' \in [Tasks -> CliSteps \cup BlockSteps \cup {"idle", "done"}]
  /\ DOMAIN todo' = Tasks /\ done' \in [Tasks -> Nat] /\ context' \in [Tasks -> Modes]
  /\ result' \in [Tasks -> {"none", "answer", "refused", "lost", "applied", "saved"}]
  /\ \A u \in Tasks \ {t} :
       /\ pc'[u] = pc[u] /\ todo'[u] = todo[u] /\ done'[u] = done[u]
       /\ context'[u] = context[u] /\ result'[u] = result[u]
  /\ mode' \in Modes /\ screen' \in Screens /\ locks' = locks
  /\ unsaved' \subseteq unsaved \cup {t} /\ slips \subseteq slips' /\ slips' \subseteq slips \cup {t}
  /\ pc'[t] \in {"done"} \cup (IF pc[t] \in CliSteps THEN CliSteps ELSE BlockSteps)
  /\ pc'[t] # "done" => result'[t] = result[t]

(* The steps of a call under way; Start is the other. *)
Goes(t) ==
  \/ CallFails(t) \/ SkipBoot(t) \/ ReadyConsole(t) \/ CheckQuestion(t) \/ Unlock(t)
  \/ ReadMode(t) \/ SwitchMode(t) \/ AnswerStep(t) \/ Escape(t) \/ Verify(t)
  \/ TypeCommand(t) \/ AnswerPassword(t) \/ EnterCommand(t) \/ EnterFails(t)
  \/ EnterEnd(t) \/ WriteMemory(t)

LEMMA OwnStep == ASSUME TypeOK, Shaped, NEW t \in Tasks, Goes(t) PROVE Own(t)
<1> USE DEF Own, Active, TypeOK, Shaped, Go, CliSteps, BlockSteps
<1>1. CASE CallFails(t)
  BY <1>1 DEF CallFails, Ends, Return, console
<1>2. CASE SkipBoot(t)
  BY <1>2 DEF SkipBoot, Screens, Questions
<1>3. CASE ReadyConsole(t)
  <2>1. CASE screen = "dialog"
    BY <1>3, <2>1 DEF ReadyConsole, Shows, Reaction, Screens, Questions
  <2>2. CASE screen = "return"
    <3>1. /\ mode' \in Modes /\ screen' \in Screens /\ locks' = locks
          /\ unsaved' \subseteq unsaved \cup {t}
      BY <1>3, <2>2, ShowsTyped DEF ReadyConsole
    <3>2. QED BY <1>3, <2>2, <3>1 DEF ReadyConsole
  <2>3. CASE screen \notin {"dialog", "return"}
    BY <1>3, <2>3 DEF ReadyConsole, console
  <2>4. QED BY <2>1, <2>2, <2>3
<1>4. CASE CheckQuestion(t)
  BY <1>4 DEF CheckQuestion, Fail, Ends, Return, console
<1>5. CASE Unlock(t)
  <2>1. /\ mode' \in Modes /\ screen' \in Screens /\ locks' = locks
        /\ unsaved' \subseteq unsaved \cup {t}
    BY <1>5, ShowsTyped DEF Unlock
  <2>2. QED BY <1>5, <2>1 DEF Unlock, Fail, Ends, Return
<1>6. CASE ReadMode(t)
  BY <1>6 DEF ReadMode, console
<1>7. CASE SwitchMode(t)
  <2>1. /\ mode' \in Modes /\ screen' \in Screens /\ locks' = locks
        /\ unsaved' \subseteq unsaved \cup {t}
    BY <1>7, ShowsTyped DEF SwitchMode
  <2>2. slips \subseteq slips' /\ slips' \subseteq slips \cup {t}
    BY <1>7 DEF SwitchMode, Slip
  <2>3. pc[t] = "switching" /\ UNCHANGED <<request, shared, done, context>>
    BY <1>7 DEF SwitchMode, Fail, Ends
  <2>4. \/ UNCHANGED <<pc, result>> /\ todo' = [todo EXCEPT ![t] = Tail(@)]
        \/ /\ \E to \in {"escaping", "answering"} : pc' = [pc EXCEPT ![t] = to]
           /\ UNCHANGED <<todo, result>>
        \/ /\ pc' = [pc EXCEPT ![t] = "done"] /\ result' = [result EXCEPT ![t] = "refused"]
           /\ UNCHANGED todo
    BY <1>7 DEF SwitchMode, Fail, Ends, Return
  <2>5. CASE UNCHANGED <<pc, result>> /\ todo' = [todo EXCEPT ![t] = Tail(@)]
    BY <2>1, <2>2, <2>3, <2>5
  <2>6. CASE /\ \E to \in {"escaping", "answering"} : pc' = [pc EXCEPT ![t] = to]
             /\ UNCHANGED <<todo, result>>
    BY <2>1, <2>2, <2>3, <2>6
  <2>7. CASE /\ pc' = [pc EXCEPT ![t] = "done"] /\ result' = [result EXCEPT ![t] = "refused"]
             /\ UNCHANGED todo
    BY <2>1, <2>2, <2>3, <2>7
  <2>8. QED BY <2>4, <2>5, <2>6, <2>7
<1>8. CASE AnswerStep(t)
  <2>1. /\ mode' \in Modes /\ screen' \in Screens /\ locks' = locks
        /\ unsaved' \subseteq unsaved \cup {t}
    BY <1>8, ShowsTyped DEF AnswerStep
  <2>2. QED BY <1>8, <2>1 DEF AnswerStep
<1>9. CASE Escape(t)
  <2>1. /\ mode' \in Modes /\ screen' \in Screens /\ locks' = locks
        /\ unsaved' \subseteq unsaved \cup {t}
    BY <1>9, ShowsTyped DEF Escape
  <2>2. QED BY <1>9, <2>1 DEF Escape, Fail, Ends, Return
<1>10. CASE Verify(t)
  BY <1>10 DEF Verify, Fail, Ends, Return, console
<1>11. CASE TypeCommand(t)
  <2>1. /\ mode' \in Modes /\ screen' \in Screens /\ locks' = locks
        /\ unsaved' \subseteq unsaved \cup {t}
    BY <1>11, ShowsTyped DEF TypeCommand
  <2>2. slips \subseteq slips' /\ slips' \subseteq slips \cup {t}
    BY <1>11 DEF TypeCommand, Slip
  <2>3. QED BY <1>11, <2>1, <2>2 DEF TypeCommand, Return
<1>12. CASE AnswerPassword(t)
  <2>1. /\ mode' \in Modes /\ screen' \in Screens /\ locks' = locks
        /\ unsaved' \subseteq unsaved \cup {t}
    BY <1>12, ShowsTyped DEF AnswerPassword
  <2>2. QED BY <1>12, <2>1 DEF AnswerPassword, Return
<1>13. CASE EnterCommand(t)
  <2>1. CommandMode(t) \in Modes
    BY DEF CommandMode, Modes
  <2>2. /\ mode' \in Modes /\ screen' = screen /\ locks' = locks
        /\ unsaved' \subseteq unsaved \cup {t}
    BY <1>13, <2>1, EntersTyped DEF EnterCommand
  <2>3. slips \subseteq slips' /\ slips' \subseteq slips \cup {t}
    BY <1>13 DEF EnterCommand, Slip
  <2>4. pc[t] = "entering" /\ UNCHANGED <<pc, request, result, shared>>
          /\ context' = [context EXCEPT ![t] = mode']
    BY <1>13 DEF EnterCommand
  <2>5. DOMAIN todo' = Tasks /\ \A u \in Tasks \ {t} : todo'[u] = todo[u]
    BY <1>13 DEF EnterCommand
  <2>6. done' \in [Tasks -> Nat] /\ \A u \in Tasks \ {t} : done'[u] = done[u]
    BY <1>13 DEF EnterCommand
  <2>7. context' \in [Tasks -> Modes] /\ \A u \in Tasks \ {t} : context'[u] = context[u]
    BY <2>2, <2>4
  <2>8. QED BY <2>2, <2>3, <2>4, <2>5, <2>6, <2>7
<1>14. CASE EnterFails(t)
  <2>1. CommandMode(t) \in Modes
    BY DEF CommandMode, Modes
  <2>2. /\ mode' \in Modes /\ screen' = screen /\ locks' = locks
        /\ unsaved' \subseteq unsaved \cup {t}
    BY <1>14, <2>1, EntersTyped DEF EnterFails
  <2>3. QED BY <1>14, <2>2 DEF EnterFails, Ends, Return
<1>15. CASE EnterEnd(t)
  <2>1. /\ mode' \in Modes /\ screen' = screen /\ locks' = locks
        /\ unsaved' \subseteq unsaved \cup {t}
    BY <1>15, EntersTyped DEF EnterEnd
  <2>2. pc[t] = "entering" /\ UNCHANGED <<request, todo, done, context, slips, shared>>
    BY <1>15 DEF EnterEnd
  <2>3. \/ pc' = [pc EXCEPT ![t] = "saving"] /\ result' = result
        \/ pc' = [pc EXCEPT ![t] = "done"] /\ result' = [result EXCEPT ![t] = "applied"]
    BY <1>15 DEF EnterEnd, Return
  <2>4. QED BY <2>1, <2>2, <2>3
<1>16. CASE WriteMemory(t)
  <2>1. /\ mode' \in Modes /\ screen' = screen /\ locks' = locks
        /\ unsaved' \subseteq unsaved \cup {t}
    BY <1>16, EntersTyped DEF WriteMemory, Modes
  <2>2. QED BY <1>16, <2>1 DEF WriteMemory, Return
<1>17. QED BY <1>1, <1>2, <1>3, <1>4, <1>5, <1>6, <1>7, <1>8, <1>9, <1>10, <1>11, <1>12,
              <1>13, <1>14, <1>15, <1>16 DEF Goes

(* Which step it is that slips in a block, enters, saves, or has saved. *)
LEMMA WhoseStep ==
  ASSUME TypeOK, Shaped, StepsFitRequest, NEW t \in Tasks, Goes(t)
  PROVE  /\ slips' # slips => Cli(t) \/ EnterCommand(t)
         /\ pc'[t] = "entering" => EnterCommand(t)
         /\ pc'[t] = "saving" => EnterEnd(t)
         /\ result'[t] = "saved" => WriteMemory(t)
<1> USE DEF TypeOK, Go, Active
<1>1. result[t] # "saved"
  BY OwnStep DEF Own, StepsFitRequest
<1>2. CASE CallFails(t) \/ CheckQuestion(t) \/ Unlock(t) \/ Escape(t) \/ Verify(t)
  BY <1>1, <1>2 DEF CallFails, CheckQuestion, Unlock, Escape, Verify, Fail, Ends, Return
<1>3. CASE SkipBoot(t) \/ ReadyConsole(t) \/ ReadMode(t) \/ AnswerStep(t)
  BY <1>1, <1>3 DEF SkipBoot, ReadyConsole, ReadMode, AnswerStep
<1>4. CASE SwitchMode(t) \/ TypeCommand(t)
  <2>1. Cli(t)
    BY <1>4 DEF SwitchMode, TypeCommand, StepsFitRequest, CliSteps
  <2>2. pc'[t] \notin {"entering", "saving"} /\ result'[t] # "saved"
    BY <1>1, <1>4 DEF SwitchMode, TypeCommand, Fail, Ends, Return
  <2>3. QED BY <2>1, <2>2
<1>5. CASE AnswerPassword(t) \/ EnterFails(t)
  BY <1>1, <1>5 DEF AnswerPassword, EnterFails, Ends, Return
<1>6. CASE EnterCommand(t)
  BY <1>1, <1>6 DEF EnterCommand
<1>7. CASE EnterEnd(t)
  BY <1>1, <1>7 DEF EnterEnd, Return
<1>8. CASE WriteMemory(t)
  BY <1>1, <1>8 DEF WriteMemory, Return
<1>9. QED BY <1>2, <1>3, <1>4, <1>5, <1>6, <1>7, <1>8 DEF Goes

(* A call that starts finds the console as it is. *)
LEMMA StartStep ==
  ASSUME TypeOK, Shaped, NEW t \in Tasks, Start(t)
  PROVE  /\ pc[t] = "idle" /\ UNCHANGED <<mode, screen, locks, unsaved, slips, done, context>>
         /\ pc' \in [Tasks -> CliSteps \cup BlockSteps \cup {"idle", "done"}]
         /\ DOMAIN todo' = Tasks /\ DOMAIN request' = Tasks
         /\ result' \in [Tasks -> {"none", "answer", "refused", "lost", "applied", "saved"}]
         /\ \A u \in Tasks \ {t} :
              /\ pc'[u] = pc[u] /\ todo'[u] = todo[u] /\ request'[u] = request[u]
              /\ result'[u] = result[u]
         /\ \/ /\ Cli(t)' /\ request'[t] \in CliRequest
               /\ pc'[t] = "booted?" /\ result'[t] = result[t]
            \/ request'[t].tool = "configure_ios" /\ pc'[t] = "entering" /\ result'[t] = result[t]
            \/ request'[t].tool = "configure_ios" /\ pc'[t] = "done" /\ result'[t] = "refused"
<1> USE DEF TypeOK, Shaped, Go, CliSteps, BlockSteps
<1>1. PICK r \in Commands[t] :
        \/ /\ r.tool = "run_cli"
           /\ request' = [request EXCEPT ![t] = r]
           /\ Go(t, "booted?") /\ UNCHANGED <<todo, result>>
        \/ /\ r.tool = "configure_ios"
           /\ \E block :
                /\ request' = [request EXCEPT ![t] = [r EXCEPT !.commands = block]]
                /\ todo' = [todo EXCEPT ![t] = block]
                /\ IF block = <<>> THEN Return(t, "refused")
                   ELSE Go(t, "entering") /\ UNCHANGED result
  BY DEF Start
<1>2. pc[t] = "idle" /\ UNCHANGED <<mode, screen, locks, unsaved, slips, done, context>>
  BY DEF Start, console
<1>3. CASE r.tool = "run_cli"
  <2>1. r \in CliRequest
    BY <1>3, RequestAssumption DEF CliRequest, ConfigureIosRequest
  <2>2. QED BY <1>1, <1>2, <1>3, <2>1 DEF Cli
<1>4. CASE r.tool = "configure_ios"
  <2>1. PICK block :
          /\ request' = [request EXCEPT ![t] = [r EXCEPT !.commands = block]]
          /\ todo' = [todo EXCEPT ![t] = block]
          /\ IF block = <<>> THEN Return(t, "refused") ELSE Go(t, "entering") /\ UNCHANGED result
    BY <1>1, <1>4
  <2>2. r \in ConfigureIosRequest
    BY <1>4, RequestAssumption DEF CliRequest, ConfigureIosRequest
  <2>3. [r EXCEPT !.commands = block].tool = "configure_ios"
    BY <1>4, <2>2 DEF ConfigureIosRequest
  <2>4. request'[t].tool = "configure_ios" /\ DOMAIN request' = Tasks
          /\ \A u \in Tasks \ {t} : request'[u] = request[u]
    BY <2>1, <2>3
  <2>5. \/ pc' = [pc EXCEPT ![t] = "entering"] /\ result' = result
        \/ pc' = [pc EXCEPT ![t] = "done"] /\ result' = [result EXCEPT ![t] = "refused"]
    BY <2>1 DEF Return
  <2>6. DOMAIN todo' = Tasks /\ \A u \in Tasks \ {t} : todo'[u] = todo[u]
    BY <2>1
  <2>7. QED BY <1>2, <2>4, <2>5, <2>6
<1>5. QED BY <1>1, <1>3, <1>4

LEMMA StepIsOwnOrStart ==
  ASSUME [Next]_vars
  PROVE  UNCHANGED vars \/ \E t \in Tasks : Start(t) \/ Goes(t)
BY DEF Next, Step, Goes

-----------------------------------------------------------------------------
(* The invariant of all calls *)

Basic == TypeOK /\ Shaped /\ StepsFitRequest

LEMMA BasicStep == Basic /\ [Next]_vars => Basic'
<1> SUFFICES ASSUME Basic, [Next]_vars PROVE Basic'
  OBVIOUS
<1> USE DEF Basic
<1>1. ASSUME NEW t \in Tasks, Start(t) PROVE Basic'
  <2>1. shared' \subseteq Tasks
    BY <1>1 DEF Start, Others, TypeOK
  <2>2. pc' \in [Tasks -> CliSteps \cup BlockSteps \cup {"idle", "done"}]
    BY <1>1, StartStep
  <2>3. TypeOK'
    BY <1>1, <2>1, <2>2, StartStep DEF TypeOK, CliSteps, BlockSteps
  <2>4. Shaped'
    BY <1>1, StartStep DEF Shaped
  <2>5. StepsFitRequest'
    BY <1>1, StartStep DEF StepsFitRequest, Cli, CliSteps, BlockSteps
  <2>6. QED BY <2>3, <2>4, <2>5
<1>2. ASSUME NEW t \in Tasks, Goes(t) PROVE Basic'
  <2>1. Own(t)
    BY <1>2, OwnStep
  <2>2. TypeOK'
    BY <2>1 DEF Own, TypeOK, CliSteps, BlockSteps
  <2>3. Shaped'
    BY <2>1 DEF Own, Shaped
  <2>4. StepsFitRequest'
    BY <2>1 DEF Own, Active, StepsFitRequest, Cli, CliSteps, BlockSteps, TypeOK
  <2>5. QED BY <2>2, <2>3, <2>4
<1>3. CASE UNCHANGED vars
  BY <1>3 DEF vars, TypeOK, Shaped, StepsFitRequest, Cli
<1>4. QED BY <1>1, <1>2, <1>3, StepIsOwnOrStart

LEMMA UnsharedStep == Basic /\ UnsharedIsAlone /\ [Next]_vars => UnsharedIsAlone'
<1> SUFFICES ASSUME Basic, UnsharedIsAlone, [Next]_vars,
                    NEW u \in Tasks, Active(u)', u \notin shared'
             PROVE  Alone(u)'
  BY DEF UnsharedIsAlone
<1> USE DEF Basic
<1>1. ASSUME NEW t \in Tasks, Start(t) PROVE Alone(u)'
  <2>1. shared' = IF Others(t) = {} THEN shared ELSE shared \cup {t} \cup Others(t)
    BY <1>1 DEF Start
  <2>2. CASE u = t
    BY <1>1, <2>1, <2>2, StartStep DEF Others, Alone, Active
  <2>3. CASE u # t
    <3>1. u \in Others(t)
      BY <1>1, <2>3, StartStep DEF Others, Active
    <3>2. QED BY <2>1, <3>1
  <2>4. QED BY <2>2, <2>3
<1>2. ASSUME NEW t \in Tasks, Goes(t) PROVE Alone(u)'
  <2>1. Own(t)
    BY <1>2, OwnStep
  <2>2. Active(u) /\ u \notin shared
    BY <2>1 DEF Own, Active
  <2>3. Alone(u)
    BY <2>2 DEF UnsharedIsAlone
  <2>4. u = t
    BY <2>1, <2>3 DEF Own, Alone
  <2>5. QED BY <2>1, <2>3, <2>4 DEF Own, Alone, Active
<1>3. CASE UNCHANGED vars
  BY <1>3 DEF vars, UnsharedIsAlone, Alone, Active
<1>4. QED BY <1>1, <1>2, <1>3, StepIsOwnOrStart

(* A block that nobody shares the console with finds it where it left it. *)
LEMMA ContextStep ==
  Basic /\ UnsharedIsAlone /\ NextInContext /\ [Next]_vars => NextInContext'
<1> SUFFICES ASSUME Basic, UnsharedIsAlone, NextInContext, [Next]_vars,
                    NEW u \in Tasks, pc'[u] = "entering", todo'[u] # <<>>, u \notin shared'
             PROVE  CommandMode(u)' = context'[u]
  BY DEF NextInContext
<1> USE DEF Basic
<1>1. ASSUME NEW t \in Tasks, Start(t) PROVE CommandMode(u)' = context'[u]
  <2>1. CASE u = t
    BY <1>1, <2>1, StartStep DEF StepsFitRequest, CommandMode
  <2>2. CASE u # t
    <3>1. pc[u] = "entering" /\ todo[u] # <<>> /\ u \notin shared
      BY <1>1, <2>2, StartStep DEF Start
    <3>2. UNCHANGED <<mode, done, context>>
      BY <1>1, StartStep
    <3>3. QED BY <3>1, <3>2 DEF NextInContext, CommandMode
  <2>3. QED BY <2>1, <2>2
<1>2. ASSUME NEW t \in Tasks, Goes(t) PROVE CommandMode(u)' = context'[u]
  <2>1. Own(t)
    BY <1>2, OwnStep
  <2>2. u = t
    BY <2>1 DEF Own, UnsharedIsAlone, Alone, Active
  <2>3. EnterCommand(t)
    BY <1>2, <2>2, WhoseStep
  <2>4. Accepts(CommandMode(t), todo[t][1])
    BY <2>2, <2>3 DEF EnterCommand, Shaped
  <2>5. done'[t] = done[t] + 1 /\ context'[t] = mode'
    BY <2>3, <2>4 DEF EnterCommand, Shaped, TypeOK
  <2>6. QED BY <2>2, <2>5 DEF CommandMode, Shaped
<1>3. CASE UNCHANGED vars
  BY <1>3 DEF vars, NextInContext, CommandMode
<1>4. QED BY <1>1, <1>2, <1>3, StepIsOwnOrStart

LEMMA SlipsStep ==
  Basic /\ NextInContext /\ BlockKeepsContext /\ [Next]_vars => BlockKeepsContext'
<1> SUFFICES ASSUME Basic, NextInContext, BlockKeepsContext, [Next]_vars, NEW u \in slips'
             PROVE  (Cli(u) \/ u \in shared)'
  BY DEF BlockKeepsContext
<1> USE DEF Basic
<1>1. ASSUME NEW t \in Tasks, Start(t) PROVE (Cli(u) \/ u \in shared)'
  <2>1. u \in slips /\ u # t /\ u \in Tasks
    BY <1>1, StartStep DEF StepsFitRequest, TypeOK
  <2>2. shared \subseteq shared'
    BY <1>1 DEF Start
  <2>3. QED BY <1>1, <2>1, <2>2, StartStep DEF BlockKeepsContext, Cli
<1>2. ASSUME NEW t \in Tasks, Goes(t) PROVE (Cli(u) \/ u \in shared)'
  <2>1. UNCHANGED <<request, shared>>
    BY <1>2, OwnStep DEF Own
  <2>2. CASE u \in slips
    BY <2>1, <2>2 DEF BlockKeepsContext, Cli
  <2>3. CASE u \notin slips
    <3>1. u = t /\ slips' # slips
      BY <1>2, <2>3, OwnStep DEF Own
    <3>2. CASE Cli(t)
      BY <2>1, <3>1, <3>2 DEF Cli
    <3>3. CASE EnterCommand(t)
      <4>1. CommandMode(t) # context[t]
        BY <3>1, <3>3 DEF EnterCommand, Slip
      <4>2. QED BY <2>1, <3>1, <3>3, <4>1 DEF EnterCommand, NextInContext
    <3>4. QED BY <1>2, <3>1, <3>2, <3>3, WhoseStep
  <2>4. QED BY <2>2, <2>3
<1>3. CASE UNCHANGED vars
  BY <1>3 DEF vars, BlockKeepsContext, Cli
<1>4. QED BY <1>1, <1>2, <1>3, StepIsOwnOrStart

Kept == SavingIsComplete /\ SavedIsDurable

(* What is being saved stays complete, and what was saved stays so. *)
LEMMA KeptStep == Basic /\ Kept /\ [Next]_vars => Kept'
<1> SUFFICES ASSUME Basic, Kept, [Next]_vars, NEW u \in Tasks
             PROVE  /\ pc'[u] = "saving" => Complete(u)'
                    /\ result'[u] = "saved" => u \notin unsaved' /\ Complete(u)'
  BY DEF Kept, SavingIsComplete, SavedIsDurable
<1> USE DEF Basic
<1>1. ASSUME NEW t \in Tasks, Start(t)
      PROVE  /\ pc'[u] = "saving" => Complete(u)'
             /\ result'[u] = "saved" => u \notin unsaved' /\ Complete(u)'
  <2>1. CASE u = t
    BY <1>1, <2>1, StartStep DEF StepsFitRequest
  <2>2. CASE u # t
    BY <1>1, <2>2, StartStep DEF Kept, SavingIsComplete, SavedIsDurable, Complete
  <2>3. QED BY <2>1, <2>2
<1>2. ASSUME NEW t \in Tasks, Goes(t)
      PROVE  /\ pc'[u] = "saving" => Complete(u)'
             /\ result'[u] = "saved" => u \notin unsaved' /\ Complete(u)'
  <2>1. Own(t)
    BY <1>2, OwnStep
  <2>2. CASE u # t
    BY <2>1, <2>2 DEF Own, Kept, SavingIsComplete, SavedIsDurable, Complete
  <2>3. CASE u = t
    <3>1. ASSUME pc'[t] = "saving" PROVE Complete(t)'
      <4>1. EnterEnd(t)
        BY <1>2, <3>1, WhoseStep
      <4>2. Complete(t) /\ UNCHANGED <<done, request>>
        BY <3>1, <4>1 DEF EnterEnd, Return, Go, TypeOK
      <4>3. QED BY <4>2 DEF Complete
    <3>2. ASSUME result'[t] = "saved" PROVE t \notin unsaved' /\ Complete(t)'
      <4>1. WriteMemory(t)
        BY <1>2, <3>2, WhoseStep
      <4>2. pc[t] = "saving" /\ UNCHANGED <<done, request>>
        BY <4>1 DEF WriteMemory
      <4>3. Complete(t)'
        BY <4>2 DEF Kept, SavingIsComplete, Complete
      <4>4. Enters(t, "enable", "write_memory")
        BY <3>2, <4>1 DEF WriteMemory, Return, Go, TypeOK
      <4>5. unsaved' = {}
        BY <4>4, WriteIsAccepted DEF Enters, Changing
      <4>6. QED BY <4>3, <4>5
    <3>3. QED BY <2>3, <3>1, <3>2
  <2>4. QED BY <2>2, <2>3
<1>3. CASE UNCHANGED vars
  BY <1>3 DEF vars, Kept, SavingIsComplete, SavedIsDurable, Complete
<1>4. QED BY <1>1, <1>2, <1>3, StepIsOwnOrStart

(* The invariant holds at whatever console the first call finds. *)
LEMMA InductiveInit == Init => Inductive
<1> SUFFICES ASSUME Init PROVE Inductive
  OBVIOUS
<1> USE DEF Init
<1>1. TypeOK /\ Shaped
  BY DEF TypeOK, Shaped, Modes
<1>2. StepsFitRequest /\ UnsharedIsAlone /\ NextInContext
  BY DEF StepsFitRequest, CliSteps, BlockSteps, UnsharedIsAlone, Active, NextInContext
<1>3. BlockKeepsContext /\ SavingIsComplete /\ SavedIsDurable
  BY DEF BlockKeepsContext, SavingIsComplete, SavedIsDurable
<1>4. QED BY <1>1, <1>2, <1>3 DEF Inductive

(* Calls, their blocks and what they save keep in step with the console. *)
THEOREM InductiveHolds == Spec => []Inductive
<1>1. Inductive /\ [Next]_vars => Inductive'
  BY BasicStep, UnsharedStep, ContextStep, SlipsStep, KeptStep DEF Inductive, Basic, Kept
<1>2. QED BY <1>1, InductiveInit, PTL DEF Spec

(* Every variable keeps to its type. *)
THEOREM TypesHold == Spec => []TypeOK
<1>1. Inductive => TypeOK
  BY DEF Inductive
<1>2. QED BY <1>1, InductiveHolds, PTL

(* A block that has the console to itself enters every command where its last one left. *)
THEOREM BlocksKeepContext == Spec => []BlockKeepsContext
<1>1. Inductive => BlockKeepsContext
  BY DEF Inductive
<1>2. QED BY <1>1, InductiveHolds, PTL

(* A block reported saved is complete, and no change of it is left unsaved. *)
THEOREM SavedIsSaved == Spec => []SavedIsDurable
<1>1. Inductive => SavedIsDurable
  BY DEF Inductive
<1>2. QED BY <1>1, InductiveHolds, PTL

-----------------------------------------------------------------------------
(* run_cli, one call at a time *)

(* Who starts alone, or beside whom. *)
LEMMA StartsBeside ==
  ASSUME Shaped, NEW t \in Tasks, Start(t)
  PROVE  \/ \A u \in Tasks : ~Active(u)
         \/ /\ request'[t].tool \in Overlap
            /\ \A u \in Tasks : Active(u) => request[u].tool \in Overlap
<1>1. PICK r \in Commands[t] :
        /\ Others(t) = {} \/ {r.tool} \cup {request[u].tool : u \in Others(t)} \subseteq Overlap
        /\ \/ r.tool = "run_cli" /\ request' = [request EXCEPT ![t] = r]
           \/ /\ r.tool = "configure_ios"
              /\ \E block : request' = [request EXCEPT ![t] = [r EXCEPT !.commands = block]]
  BY DEF Start
<1>2. request'[t].tool = r.tool
  <2>1. CASE r.tool = "run_cli"
    BY <1>1, <2>1 DEF Shaped
  <2>2. CASE r.tool = "configure_ios"
    <3>1. PICK block : request' = [request EXCEPT ![t] = [r EXCEPT !.commands = block]]
      BY <1>1, <2>2
    <3>2. r \in ConfigureIosRequest
      BY <2>2, RequestAssumption DEF CliRequest, ConfigureIosRequest
    <3>3. [r EXCEPT !.commands = block].tool = r.tool
      BY <3>2 DEF ConfigureIosRequest
    <3>4. QED BY <3>1, <3>3 DEF Shaped
  <2>3. QED BY <1>1, <2>1, <2>2
<1>3. QED BY <1>1, <1>2 DEF Others, Active

LEMMA CliAloneStep ==
  ASSUME InTurn, Basic, CliIsAlone, [Next]_vars
  PROVE  CliIsAlone'
<1> USE DEF Basic
<1> SUFFICES ASSUME NEW u \in Tasks, Active(u)', Cli(u)' PROVE Alone(u)'
  BY DEF CliIsAlone
<1>1. ASSUME NEW t \in Tasks, Start(t) PROVE Alone(u)'
  <2>1. CASE u = t
    <3>1. \A v \in Tasks : ~Active(v)
      BY <1>1, <2>1, StartsBeside DEF InTurn, Cli
    <3>2. QED BY <1>1, <2>1, <3>1, StartStep DEF Alone, Active
  <2>2. CASE u # t
    <3>1. Active(u) /\ request[u].tool = "run_cli"
      BY <1>1, <2>2, StartStep DEF Active, Cli
    <3>2. QED BY <1>1, <3>1, StartsBeside DEF InTurn
  <2>3. QED BY <2>1, <2>2
<1>2. ASSUME NEW t \in Tasks, Goes(t) PROVE Alone(u)'
  <2>1. Own(t)
    BY <1>2, OwnStep
  <2>2. Active(u) /\ Cli(u)
    BY <2>1 DEF Own, Active, Cli
  <2>3. u = t /\ Alone(u)
    BY <2>1, <2>2 DEF Own, CliIsAlone, Alone
  <2>4. QED BY <2>1, <2>3 DEF Own, Alone, Active
<1>3. CASE UNCHANGED vars
  BY <1>3 DEF vars, CliIsAlone, Alone, Active, Cli
<1>4. QED BY <1>1, <1>2, <1>3, StepIsOwnOrStart

(* A call's own step leaves it at a screen that fits where it stands. *)
LEMMA OwnScreenStep ==
  ASSUME Basic, NEW t \in Tasks, FitsStep(t), Goes(t)
  PROVE  FitsStep(t)'
<1> USE DEF Basic, TypeOK, Go, FitsStep
<1>1. CASE CallFails(t) \/ Escape(t) \/ AnswerPassword(t) \/ EnterFails(t) \/ WriteMemory(t)
  BY <1>1 DEF CallFails, Escape, AnswerPassword, EnterFails, WriteMemory, Fail, Ends, Return
<1>2. CASE SkipBoot(t)
  BY <1>2 DEF SkipBoot
<1>3. CASE ReadyConsole(t)
  <2>1. CASE screen = "dialog"
    BY <1>3, <2>1 DEF ReadyConsole, Shows, Reaction
  <2>2. CASE screen = "return"
    <3>1. PICK x \in Reactions(EnterKey) : Shows(t, x, EnterKey)
      BY <1>3, <2>2 DEF ReadyConsole
    <3>2. screen' \in {"prompt", "line_password"}
      BY <2>2, <3>1, ReactionsAtScreen DEF Shows
    <3>3. QED BY <1>3, <2>2, <3>2 DEF ReadyConsole, Questions
  <2>3. CASE screen \notin {"dialog", "return"}
    BY <1>3, <2>3 DEF ReadyConsole, console, Screens
  <2>4. QED BY <2>1, <2>2, <2>3
<1>4. CASE CheckQuestion(t)
  BY <1>4 DEF CheckQuestion, Fail, Ends, Return, console, Wants, Questions
<1>5. CASE Unlock(t)
  <2>1. PICK x \in Reactions(request[t].line) :
          /\ Shows(t, x, request[t].line)
          /\ IF x.status = "question" THEN Go(t, "done") ELSE Go(t, "mode?")
    BY <1>5 DEF Unlock, Fail, Ends, Return
  <2>2. x.status # "question" => screen' = "prompt"
    BY <1>5, <2>1, ReactionsAtScreen DEF Unlock, Shows
  <2>3. QED BY <2>1, <2>2
<1>6. CASE ReadMode(t)
  BY <1>6 DEF ReadMode, console
<1>7. CASE SwitchMode(t)
  <2>1. PICK x \in Reactions(todo[t][1]) :
          /\ Shows(t, x, todo[t][1])
          /\ \/ x.status = "ok" /\ UNCHANGED pc
             \/ /\ x.status = "question" /\ x.screen # "confirm"
                /\ \E to \in {"escaping", "answering"} : Go(t, to)
             \/ Go(t, "done")
    BY <1>7 DEF SwitchMode, Fail, Ends, Return
  <2>2. pc[t] = "switching" /\ screen = "prompt"
    BY <1>7 DEF SwitchMode
  <2>3. /\ x.status = "ok" => screen' = "prompt"
        /\ x.status = "question" /\ x.screen # "confirm" => screen' = "enable_password"
    BY <2>1, <2>2, ReactionsAtScreen DEF Shows
  <2>4. QED BY <2>1, <2>2, <2>3
<1>8. CASE AnswerStep(t)
  <2>1. PICK x \in Reactions(Secret(t)) :
          /\ Shows(t, x, Secret(t))
          /\ IF x.status = "ok" THEN Go(t, "switching") ELSE Go(t, "escaping")
    BY <1>8 DEF AnswerStep
  <2>2. screen = "enable_password"
    BY <1>8 DEF AnswerStep
  <2>3. screen' = IF x.status = "ok" THEN "prompt" ELSE "enable_password"
    BY <2>1, <2>2, ReactionsAtScreen DEF Shows
  <2>4. QED BY <2>1, <2>3
<1>9. CASE Verify(t)
  BY <1>9 DEF Verify, Fail, Ends, Return, console, Wants
<1>10. CASE TypeCommand(t) \/ EnterCommand(t) \/ EnterEnd(t)
  BY <1>10 DEF TypeCommand, EnterCommand, EnterEnd, Return
<1>11. QED BY <1>1, <1>2, <1>3, <1>4, <1>5, <1>6, <1>7, <1>8, <1>9, <1>10 DEF Goes

LEMMA ScreenStep ==
  ASSUME Basic, CliIsAlone, ScreenFitsStep, [Next]_vars
  PROVE  ScreenFitsStep'
<1> USE DEF Basic
<1> SUFFICES ASSUME NEW u \in Tasks PROVE FitsStep(u)'
  BY DEF ScreenFitsStep
<1>1. ASSUME NEW t \in Tasks, Start(t) PROVE FitsStep(u)'
  <2>1. CASE u = t
    BY <1>1, <2>1, StartStep DEF FitsStep
  <2>2. CASE u # t
    BY <1>1, <2>2, StartStep DEF ScreenFitsStep, FitsStep, Wants
  <2>3. QED BY <2>1, <2>2
<1>2. ASSUME NEW t \in Tasks, Goes(t) PROVE FitsStep(u)'
  <2>1. Own(t)
    BY <1>2, OwnStep
  <2>2. CASE u = t
    BY <1>2, <2>2, OwnScreenStep DEF ScreenFitsStep
  <2>3. CASE u # t
    <3>1. pc[u] \notin CliSteps
      BY <2>1, <2>3 DEF Own, CliIsAlone, StepsFitRequest, Alone, Active, CliSteps
    <3>2. QED BY <2>1, <2>3, <3>1 DEF Own, FitsStep, CliSteps
  <2>4. QED BY <2>2, <2>3
<1>3. CASE UNCHANGED vars
  BY <1>3 DEF vars, ScreenFitsStep, FitsStep, Wants
<1>4. QED BY <1>1, <1>2, <1>3, StepIsOwnOrStart

LEMMA MeantStep ==
  ASSUME Basic, ScreenFitsStep, TypedAsMeant, [Next]_vars
  PROVE  TypedAsMeant'
<1> USE DEF Basic
<1> SUFFICES ASSUME NEW u \in slips' PROVE ~Cli(u)'
  BY DEF TypedAsMeant
<1>1. ASSUME NEW t \in Tasks, Start(t) PROVE ~Cli(u)'
  <2>1. u \in slips /\ u # t /\ u \in Tasks
    BY <1>1, StartStep DEF StepsFitRequest, TypeOK
  <2>2. QED BY <1>1, <2>1, StartStep DEF TypedAsMeant, Cli
<1>2. ASSUME NEW t \in Tasks, Goes(t) PROVE ~Cli(u)'
  <2>1. request' = request /\ slips' \subseteq slips \cup {t}
    BY <1>2, OwnStep DEF Own
  <2>2. CASE u \in slips
    BY <2>1, <2>2 DEF TypedAsMeant, Cli
  <2>3. CASE u \notin slips
    <3>1. u = t /\ slips' # slips
      BY <2>1, <2>3
    <3>2. CASE SwitchMode(t) \/ TypeCommand(t)
      BY <3>1, <3>2 DEF SwitchMode, TypeCommand, Slip, ScreenFitsStep, FitsStep
    <3>3. CASE EnterCommand(t)
      BY <2>1, <3>1, <3>3 DEF EnterCommand, StepsFitRequest, BlockSteps, Cli
    <3>4. QED
      BY <1>2, <3>1, <3>2, <3>3
      DEF Goes, CallFails, SkipBoot, ReadyConsole, CheckQuestion, Unlock, ReadMode, AnswerStep,
          Escape, Verify, AnswerPassword, EnterFails, EnterEnd, WriteMemory
  <2>4. QED BY <2>2, <2>3
<1>3. CASE UNCHANGED vars
  BY <1>3 DEF vars, TypedAsMeant, Cli
<1>4. QED BY <1>1, <1>2, <1>3, StepIsOwnOrStart

(* A run_cli call that has the console to itself knows the screen it types at. *)
THEOREM CliInductiveHolds == ASSUME InTurn PROVE Spec => []CliInductive
<1>1. Init => CliInductive
  BY InductiveInit
  DEF Init, CliInductive, CliIsAlone, ScreenFitsStep, FitsStep, TypedAsMeant, Active
<1>2. CliInductive /\ [Next]_vars => CliInductive'
  BY InTurn, BasicStep, UnsharedStep, ContextStep, SlipsStep, KeptStep, CliAloneStep, ScreenStep,
     MeantStep DEF CliInductive, Inductive, Basic, Kept
<1>3. QED BY <1>1, <1>2, PTL DEF Spec

(* run_cli never types into a question it did not mean, nor in another mode. *)
THEOREM TypedAsMeantHolds == ASSUME InTurn PROVE Spec => []TypedAsMeant
<1>1. CliInductive => TypedAsMeant
  BY DEF CliInductive
<1>2. QED BY <1>1, CliInductiveHolds, PTL

-----------------------------------------------------------------------------
(* What a refused call leaves behind *)

WalkCommands == {"disable", "end", "enable", "configure_terminal"}

(* A call has a mode to walk to, and types on the way what a path has, no more. *)
OnPath(t) ==
  /\ pc[t] \in CliSteps => request[t] \in CliRequest
  /\ pc[t] \in {"unlocking", "mode?"} => Wants(t) # "current"
  /\ pc[t] \in {"switching", "answering"} => todo[t] \in Seq(WalkCommands)
  /\ pc[t] = "answering" => todo[t] # <<>>
  /\ pc[t] = "idle" => ~Cli(t)
Walks == \A t \in Tasks : OnPath(t)

LEMMA PathOfWalk ==
  ASSUME NEW current \in Modes, NEW target \in {"user", "enable", "global"}
  PROVE  Path(current, target) \in Seq(WalkCommands)
<1> DEFINE Paths == {<<>>, <<"disable">>, <<"end", "disable">>, <<"enable">>, <<"end">>,
                     <<"configure_terminal">>, <<"enable", "configure_terminal">>,
                     <<"end", "configure_terminal">>}
<1>1. Path(current, target) \in Paths
  <2>1. CASE current = "user"
    BY <2>1, Zenon DEF Path
  <2>2. CASE current = "enable"
    BY <2>2, Zenon DEF Path
  <2>3. CASE current = "global"
    BY <2>3, Zenon DEF Path
  <2>4. CASE current = "interface"
    BY <2>4, Zenon DEF Path
  <2>5. QED BY <2>1, <2>2, <2>3, <2>4 DEF Modes
<1>2. \A path \in Paths : path \in Seq(WalkCommands)
  <2>1. <<>> \in Seq(WalkCommands)
    OBVIOUS
  <2>2. \A x \in WalkCommands : <<x>> \in Seq(WalkCommands)
    OBVIOUS
  <2>3. \A x, y \in WalkCommands : <<x, y>> \in Seq(WalkCommands)
    OBVIOUS
  <2>4. {"disable", "end", "enable", "configure_terminal"} \subseteq WalkCommands
    BY DEF WalkCommands
  <2>5. QED BY <2>1, <2>2, <2>3, <2>4, Zenon
<1>3. QED BY <1>1, <1>2

(* A call's own step keeps it on its path. *)
LEMMA OwnWalkStep ==
  ASSUME Basic, NEW t \in Tasks, OnPath(t), Goes(t)
  PROVE  OnPath(t)'
<1> USE DEF Basic, TypeOK, Shaped, Go
<1>1. /\ pc'[t] # "idle" /\ request' = request
      /\ pc'[t] \in CliSteps => pc[t] \in CliSteps
  BY OwnStep DEF Own, CliSteps, BlockSteps
<1>7. pc'[t] \in CliSteps => request'[t] \in CliRequest
  BY <1>1 DEF OnPath
<1>2. CASE ReadMode(t)
  <2>1. pc'[t] = "switching" /\ todo'[t] = Path(mode, Wants(t))
    BY <1>2 DEF ReadMode
  <2>2. Path(mode, Wants(t)) \in Seq(WalkCommands)
    <3>1. request[t] \in CliRequest /\ Wants(t) # "current"
      BY <1>2 DEF ReadMode, OnPath, CliSteps
    <3>2. Wants(t) \in {"user", "enable", "global"}
      BY <3>1 DEF CliRequest, Wants
    <3>3. QED BY <3>2, PathOfWalk
  <2>3. QED BY <1>1, <1>7, <2>1, <2>2 DEF OnPath
<1>3. CASE SwitchMode(t)
  <2>1. todo[t] \in Seq(WalkCommands) /\ todo[t] # <<>>
    BY <1>3 DEF SwitchMode, OnPath
  <2>2. \/ todo'[t] = Tail(todo[t]) /\ pc'[t] = "switching"
        \/ todo'[t] = todo[t] /\ pc'[t] \in {"escaping", "answering", "done"}
    BY <1>3 DEF SwitchMode, Fail, Ends, Return
  <2>3. Tail(todo[t]) \in Seq(WalkCommands)
    BY <2>1
  <2>4. pc'[t] \notin {"unlocking", "mode?", "idle"}
    BY <2>2
  <2>5. todo'[t] \in Seq(WalkCommands) /\ (pc'[t] = "answering" => todo'[t] # <<>>)
    BY <2>1, <2>2, <2>3
  <2>6. QED BY <1>7, <2>4, <2>5, Zenon DEF OnPath
<1>4. CASE AnswerStep(t)
  <2>1. todo[t] \in Seq(WalkCommands) /\ todo[t] # <<>>
    BY <1>4 DEF AnswerStep, OnPath
  <2>2. \/ todo'[t] = Tail(todo[t]) /\ pc'[t] = "switching"
        \/ pc'[t] = "escaping"
    BY <1>4 DEF AnswerStep
  <2>3. Tail(todo[t]) \in Seq(WalkCommands)
    BY <2>1
  <2>4. pc'[t] \notin {"unlocking", "mode?", "idle", "answering"}
    BY <2>2
  <2>5. pc'[t] = "switching" => todo'[t] \in Seq(WalkCommands)
    BY <2>2, <2>3
  <2>6. QED BY <1>7, <2>4, <2>5, Zenon DEF OnPath
<1>5. CASE ~ReadMode(t) /\ ~SwitchMode(t) /\ ~AnswerStep(t)
  <2>1. pc'[t] \notin {"switching", "answering"}
    <3>1. CASE CallFails(t) \/ CheckQuestion(t) \/ Unlock(t) \/ Escape(t) \/ Verify(t)
      BY <3>1 DEF CallFails, CheckQuestion, Unlock, Escape, Verify, Fail, Ends, Return
    <3>2. CASE SkipBoot(t) \/ ReadyConsole(t) \/ TypeCommand(t) \/ AnswerPassword(t)
      BY <3>2 DEF SkipBoot, ReadyConsole, TypeCommand, AnswerPassword, Return
    <3>3. CASE EnterCommand(t) \/ EnterFails(t) \/ EnterEnd(t) \/ WriteMemory(t)
      BY <3>3 DEF EnterCommand, EnterFails, EnterEnd, WriteMemory, Ends, Return
    <3>4. QED BY <1>5, <3>1, <3>2, <3>3 DEF Goes
  <2>2. pc'[t] \in {"unlocking", "mode?"} => Wants(t) # "current"
    <3>1. CASE CheckQuestion(t)
      BY <3>1 DEF CheckQuestion, Fail, Ends, Return
    <3>2. CASE Unlock(t)
      BY <3>2 DEF Unlock, OnPath
    <3>3. CASE CallFails(t) \/ Escape(t) \/ Verify(t) \/ EnterFails(t)
      BY <3>3 DEF CallFails, Escape, Verify, EnterFails, Fail, Ends, Return
    <3>4. CASE SkipBoot(t) \/ ReadyConsole(t) \/ TypeCommand(t) \/ AnswerPassword(t)
      BY <3>4 DEF SkipBoot, ReadyConsole, TypeCommand, AnswerPassword, Return
    <3>5. CASE EnterCommand(t) \/ EnterEnd(t) \/ WriteMemory(t)
      BY <3>5 DEF EnterCommand, EnterEnd, WriteMemory, Return
    <3>6. QED BY <1>5, <3>1, <3>2, <3>3, <3>4, <3>5 DEF Goes
  <2>3. QED BY <1>1, <1>7, <2>1, <2>2 DEF OnPath, Wants
<1>6. QED BY <1>2, <1>3, <1>4, <1>5

LEMMA WalkStep ==
  ASSUME Basic, Walks, [Next]_vars
  PROVE  Walks'
<1> USE DEF Basic
<1> SUFFICES ASSUME NEW u \in Tasks PROVE OnPath(u)'
  BY DEF Walks
<1>1. ASSUME NEW t \in Tasks, Start(t) PROVE OnPath(u)'
  <2>1. CASE u = t
    BY <1>1, <2>1, StartStep DEF OnPath, CliSteps
  <2>2. CASE u # t
    BY <1>1, <2>2, StartStep DEF Walks, OnPath, Cli, Wants
  <2>3. QED BY <2>1, <2>2
<1>2. ASSUME NEW t \in Tasks, Goes(t) PROVE OnPath(u)'
  <2>1. CASE u = t
    BY <1>2, <2>1, OwnWalkStep DEF Walks
  <2>2. CASE u # t
    <3>1. pc'[u] = pc[u] /\ todo'[u] = todo[u] /\ request' = request
      BY <1>2, <2>2, OwnStep DEF Own
    <3>2. QED BY <3>1 DEF Walks, OnPath, Cli, Wants
  <2>3. QED BY <2>1, <2>2
<1>3. CASE UNCHANGED vars
  BY <1>3 DEF vars, Walks, OnPath, Cli, Wants
<1>4. QED BY <1>1, <1>2, <1>3, StepIsOwnOrStart

(* A refused step of the walk has put up no question. *)
LEMMA RefusedStep ==
  ASSUME TypeOK, NEW t \in Tasks, OnPath(t), screen = "prompt", SwitchMode(t), pc'[t] = "done"
  PROVE  screen' = "prompt"
<1> USE DEF TypeOK, Go
<1>1. PICK x \in Reactions(todo[t][1]) :
        /\ Shows(t, x, todo[t][1])
        /\ x.status = "invalid" \/ (x.status = "question" /\ x.screen = "confirm")
  BY DEF SwitchMode
<1>2. todo[t][1] # "reload"
  <2>1. todo[t] \in Seq(WalkCommands) /\ todo[t] # <<>>
    BY DEF SwitchMode, OnPath
  <2>2. todo[t][1] \in WalkCommands
    BY <2>1
  <2>3. QED BY <2>2 DEF WalkCommands
<1>3. x.screen = "prompt"
  BY <1>1, <1>2 DEF Reactions, Reaction
<1>4. QED BY <1>1, <1>3 DEF Shows

(* Past the question it found, a refused run_cli returns with the console at its prompt. *)
THEOREM RefusedAtPrompt == ASSUME InTurn PROVE Spec => BackAtPrompt
<1> DEFINE Back ==
      \A t \in Tasks :
        Returns(t) /\ Cli(t) /\ result'[t] = "refused" /\ pc[t] \notin {"question?", "unlocking"}
        => screen' = "prompt"
<1>1. Init => Walks
  BY DEF Init, Walks, OnPath, CliSteps, Cli, NoRequest
<1>2. CliInductive /\ Walks /\ [Next]_vars => Walks'
  BY WalkStep DEF CliInductive, Inductive, Basic
<1>3. CliInductive /\ Walks /\ [Next]_vars => [Back]_vars
  <2> SUFFICES ASSUME CliInductive, Walks, Next, NEW u \in Tasks, Returns(u), Cli(u),
                      pc[u] \notin {"question?", "unlocking"}, result'[u] = "refused"
               PROVE  screen' = "prompt"
    OBVIOUS
  <2> USE DEF CliInductive, Inductive, TypeOK
  <2>1. ASSUME NEW t \in Tasks, Start(t) PROVE screen' = "prompt"
    <3>1. u = t
      BY <2>1, StartStep DEF Returns
    <3>2. QED BY <2>1, <3>1, StartStep DEF Walks, OnPath
  <2>2. ASSUME NEW t \in Tasks, Goes(t) PROVE screen' = "prompt"
    <3>1. u = t
      BY <2>2, OwnStep DEF Own, Returns
    <3>2. OnPath(t) /\ FitsStep(t)
      BY DEF Walks, ScreenFitsStep
    <3>3. CASE Escape(t)
      <4>1. PICK x \in Reactions(EnterKey) : Shows(t, x, EnterKey)
        BY <3>3 DEF Escape
      <4>2. screen = "enable_password"
        BY <3>2, <3>3 DEF Escape, FitsStep
      <4>3. QED BY <4>1, <4>2, ReactionsAtScreen DEF Shows
    <3>4. CASE SwitchMode(t)
      <4>1. screen = "prompt" /\ pc'[t] = "done"
        BY <3>1, <3>2, <3>4 DEF SwitchMode, FitsStep, Returns
      <4>2. QED BY <3>2, <3>4, <4>1, RefusedStep
    <3>5. CASE Verify(t)
      BY <3>1, <3>2, <3>5 DEF Verify, FitsStep, console
    <3>6. CASE CallFails(t) \/ EnterFails(t)
      BY <3>1, <3>6 DEF CallFails, EnterFails, Ends, Return
    <3>7. CASE TypeCommand(t) \/ AnswerPassword(t) \/ EnterEnd(t) \/ WriteMemory(t)
      BY <3>1, <3>7 DEF TypeCommand, AnswerPassword, EnterEnd, WriteMemory, Return, Go, Returns
    <3>8. CASE SkipBoot(t) \/ ReadyConsole(t) \/ ReadMode(t) \/ AnswerStep(t) \/ EnterCommand(t)
      BY <3>1, <3>8
      DEF SkipBoot, ReadyConsole, ReadMode, AnswerStep, EnterCommand, Returns, Go
    <3>9. CASE CheckQuestion(t) \/ Unlock(t)
      BY <3>1, <3>9 DEF CheckQuestion, Unlock
    <3>10. QED BY <2>2, <3>3, <3>4, <3>5, <3>6, <3>7, <3>8, <3>9 DEF Goes
  <2>3. QED BY <2>1, <2>2, StepIsOwnOrStart DEF Next, Step, Goes
<1>4. QED BY <1>1, <1>2, <1>3, CliInductiveHolds, PTL DEF Spec, BackAtPrompt

-----------------------------------------------------------------------------
(* Blocks *)

(* Only the two last steps of a block return a result of it. *)
LEMMA ReturnsResult ==
  ASSUME TypeOK, NEW t \in Tasks, Goes(t), pc[t] # "done", pc'[t] = "done",
         result'[t] \in {"applied", "saved"}
  PROVE  EnterEnd(t) \/ WriteMemory(t)
<1> USE DEF TypeOK, Go
<1>1. ~(CallFails(t) \/ CheckQuestion(t) \/ Unlock(t) \/ Escape(t) \/ Verify(t))
  BY DEF CallFails, CheckQuestion, Unlock, Escape, Verify, Fail, Ends, Return
<1>2. ~(SkipBoot(t) \/ ReadyConsole(t) \/ ReadMode(t) \/ AnswerStep(t) \/ EnterCommand(t))
  BY DEF SkipBoot, ReadyConsole, ReadMode, AnswerStep, EnterCommand
<1>3. ~(TypeCommand(t) \/ AnswerPassword(t) \/ EnterFails(t))
  BY DEF TypeCommand, AnswerPassword, EnterFails, Ends, Return
<1>4. ~SwitchMode(t)
  <2> SUFFICES ASSUME SwitchMode(t) PROVE FALSE
    OBVIOUS
  <2>1. pc' # pc
    OBVIOUS
  <2>2. Fail(t) \/ \E to \in {"escaping", "answering"} : Go(t, to)
    BY <2>1 DEF SwitchMode
  <2>3. QED BY <2>2 DEF Fail, Ends, Return
<1>5. QED BY <1>1, <1>2, <1>3, <1>4 DEF Goes

(* A block that returns its result has left configuration mode. *)
THEOREM BlocksLeaveConfiguration == Spec => LeavesConfiguration
<1> DEFINE Left ==
      \A t \in Tasks : Returns(t) /\ result'[t] \in {"applied", "saved"} => mode' \notin Configuring
<1>1. Inductive /\ [Next]_vars => [Left]_vars
  <2> SUFFICES ASSUME Inductive, Next, NEW u \in Tasks, Returns(u),
                      result'[u] \in {"applied", "saved"}
               PROVE  mode' \notin Configuring
    OBVIOUS
  <2> USE DEF Inductive
  <2>1. ASSUME NEW t \in Tasks, Start(t) PROVE mode' \notin Configuring
    <3>1. u # t
      BY <2>1, StartStep DEF StepsFitRequest
    <3>2. QED BY <2>1, <3>1, StartStep DEF Returns
  <2>2. ASSUME NEW t \in Tasks, Goes(t) PROVE mode' \notin Configuring
    <3>1. u = t
      BY <2>2, OwnStep DEF Own, Returns
    <3>2. EnterEnd(t) \/ WriteMemory(t)
      BY <2>2, <3>1, ReturnsResult DEF Returns
    <3>3. CASE EnterEnd(t)
      <4>1. Enters(t, mode, "end")
        BY <3>3 DEF EnterEnd
      <4>2. CASE mode \in Configuring
        BY <4>1, <4>2, EndIsAccepted, LeadsSomewhere DEF Enters, Configuring
      <4>3. CASE mode \notin Configuring
        <5>1. CASE Accepts(mode, "end")
          BY <4>1, <5>1, LeadsSomewhere DEF Enters, Configuring
        <5>2. CASE ~Accepts(mode, "end")
          BY <4>1, <4>3, <5>2 DEF Enters
        <5>3. QED BY <5>1, <5>2
      <4>4. QED BY <4>2, <4>3
    <3>4. CASE WriteMemory(t)
      <4>1. mode' = "enable"
        BY <3>4, WriteIsAccepted, LeadsSomewhere DEF WriteMemory, Enters
      <4>2. QED BY <4>1 DEF Configuring
    <3>5. QED BY <3>2, <3>3, <3>4
  <2>3. QED BY <2>1, <2>2, StepIsOwnOrStart DEF Next, Step, Goes
<1>2. QED BY <1>1, InductiveHolds, PTL DEF Spec, LeavesConfiguration
=============================================================================

------------------------------ MODULE IosConsole ------------------------------
(***************************************************************************)
(* The IOS console of one router or switch, as run_cli and configure_ios   *)
(* use it.                                                                 *)
(*                                                                         *)
(* run_cli readies the console, refuses to type over an open question,     *)
(* moves the console to the wanted mode one command at a time, answering   *)
(* passwords on the way, checks the mode it reached and types the command. *)
(* configure_ios enters a block of commands, the first in global           *)
(* configuration mode and the rest wherever the one before led, then `end` *)
(* and, if all were accepted, `write memory`.  Typing at the console is    *)
(* one step here: what happens inside it is in Terminal.                   *)
(***************************************************************************)
EXTENDS Naturals, Sequences, SequencesExt

CONSTANTS
  Tasks,      \* run_cli and configure_ios calls
  Commands,   \* what each request may be: [Tasks -> set of requests]
  Overlap     \* the tools whose calls may be under way at the same time

ASSUME ConsoleAssumption == Overlap \subseteq {"run_cli", "configure_ios"}

CliRequest ==
  [tool : {"run_cli"}, mode : {"user", "enable", "global", "current"}, command : STRING,
   line : STRING, enable : STRING]   \* "none" for a password that was not given
ConfigureIosRequest == [tool : {"configure_ios"}, commands : Seq(STRING), save : BOOLEAN]

ASSUME RequestAssumption == \A t \in Tasks : Commands[t] \subseteq CliRequest \cup ConfigureIosRequest

VARIABLES
  mode,      \* the mode of the console
  screen,    \* what it shows: a prompt, a question, or a stage of the boot
  locks,     \* which passwords are set: "line", "enable"
  unsaved,   \* blocks with changes in the running configuration only
  pc,        \* where each call stands
  request,   \* what each call asks for
  todo,      \* commands a call has still to type
  done,      \* commands of the block accepted so far
  result,    \* what a call returned; "lost" is a call to Packet Tracer that failed
  context,   \* the mode the block's last command left the console in
  slips,     \* calls that typed into a question, or in a mode, they did not mean
  shared     \* calls that did not have the console to themselves

console == <<mode, screen, locks, unsaved>>
vars == <<mode, screen, locks, unsaved, pc, request, todo, done, result, context, slips, shared>>

Modes == {"user", "enable", "global", "interface"}
Configuring == {"global", "interface"}
Questions == {"enable_password", "line_password", "confirm"}
Screens == {"booting", "dialog", "return", "prompt"} \cup Questions
NoRequest == [tool |-> "none"]

Init ==
  /\ mode \in Modes
  /\ screen \in Screens \ {"enable_password", "line_password", "confirm"}
  /\ screen # "prompt" => mode = "user"
  /\ locks \in SUBSET {"line", "enable"}
  /\ unsaved = {}
  /\ pc = [t \in Tasks |-> "idle"]
  /\ request = [t \in Tasks |-> NoRequest]
  /\ todo = [t \in Tasks |-> <<>>]
  /\ done = [t \in Tasks |-> 0]
  /\ result = [t \in Tasks |-> "none"]
  /\ context = [t \in Tasks |-> "global"]
  /\ slips = {} /\ shared = {}

-----------------------------------------------------------------------------
(* The IOS command line of Packet Tracer *)

(* Mode, command, and the mode it leads to; any other command is refused. *)
Moves ==
  {<<"user", "enable", "enable">>, <<"enable", "enable", "enable">>,
   <<"enable", "disable", "user">>, <<"enable", "configure_terminal", "global">>,
   <<"global", "end", "enable">>, <<"interface", "end", "enable">>,
   <<"global", "exit", "enable">>, <<"interface", "exit", "global">>,
   <<"global", "interface", "interface">>, <<"interface", "interface", "interface">>,
   <<"global", "hostname", "global">>, <<"interface", "hostname", "global">>,
   <<"interface", "ip_address", "interface">>,
   <<"user", "show", "user">>, <<"enable", "show", "enable">>,
   <<"enable", "write_memory", "enable">>}
Changing == {"hostname", "ip_address"}

Accepts(m, c) == \E move \in Moves : move[1] = m /\ move[2] = c
Leads(m, c) == (CHOOSE move \in Moves : move[1] = m /\ move[2] = c)[3]

EnterKey == ""   \* an empty command
Reaction(m, s, status) == [mode |-> m, screen |-> s, status |-> status]

(***************************************************************************)
(* What typing `text` may do.  A wrong secret ends in "Bad secrets" or is  *)
(* asked for again; the console password is asked for until it is right.   *)
(***************************************************************************)
Reactions(text) ==
  CASE screen = "prompt" ->
         IF text = "reload" /\ mode = "enable" THEN {Reaction(mode, "confirm", "question")}
         ELSE IF text = "enable" /\ mode = "user" /\ "enable" \in locks
              THEN {Reaction(mode, "enable_password", "question")}
         ELSE IF Accepts(mode, text) THEN {Reaction(Leads(mode, text), "prompt", "ok")}
         ELSE {Reaction(mode, "prompt", IF text = EnterKey THEN "ok" ELSE "invalid")}
    [] screen = "enable_password" ->
         IF text = "enable_secret" THEN {Reaction("enable", "prompt", "ok")}
         ELSE {Reaction(mode, "prompt", "ok")}
                \cup {Reaction(mode, screen, "question") : again \in {text} \ {EnterKey}}
    [] screen = "line_password" ->
         {IF text = "line_secret" THEN Reaction(mode, "prompt", "ok")
          ELSE Reaction(mode, screen, "question")}
    [] screen = "confirm" ->
         {IF text \in {EnterKey, "yes"} THEN Reaction("user", "booting", "ok")
          ELSE Reaction(mode, "prompt", "ok")}
    [] screen = "return" ->
         {IF text # EnterKey THEN Reaction(mode, screen, "ok")
          ELSE IF "line" \in locks THEN Reaction(mode, "line_password", "question")
          ELSE Reaction(mode, "prompt", "ok")}
    [] screen = "dialog" ->
         {Reaction(mode, IF text = "no" THEN "return" ELSE screen, "ok")}
    [] screen = "booting" -> {Reaction(mode, screen, "ok")}

(* Who sits at the keyboard changes the configuration it is in. *)
Shows(t, reaction, text) ==
  /\ mode' = reaction.mode /\ screen' = reaction.screen
  /\ unsaved' = IF reaction.status # "ok" \/ screen # "prompt" THEN unsaved
                ELSE IF text \in Changing THEN unsaved \cup {t}
                ELSE IF text = "write_memory" THEN {} ELSE unsaved
  /\ UNCHANGED locks

-----------------------------------------------------------------------------
Go(t, to) == pc' = [pc EXCEPT ![t] = to]
Return(t, what) == Go(t, "done") /\ result' = [result EXCEPT ![t] = what]
Ends(t, what) == Return(t, what) /\ UNCHANGED <<todo, done, context>>
Fail(t) == Ends(t, "refused")

(* Mode switches at the start of a block and `end` at its end are taken out. *)
Normalize(commands) ==
  LET first == SelectInSeq(commands, LAMBDA c : c \notin {"enable", "configure_terminal"})
      last == SelectLastInSeq(commands, LAMBDA c : c # "end")
  IN IF first = 0 \/ last = 0 THEN <<>> ELSE SubSeq(commands, first, last)

Others(t) == {u \in Tasks : pc[u] \notin {"idle", "done"}}

(* Calls take turns at the console, unless Overlap lets their tools run side by side. *)
Start(t) ==
  /\ pc[t] = "idle"
  /\ shared' = IF Others(t) = {} THEN shared ELSE shared \cup {t} \cup Others(t)
  /\ \E r \in Commands[t] :
       /\ Others(t) = {} \/ {r.tool} \cup {request[u].tool : u \in Others(t)} \subseteq Overlap
       /\ \/ /\ r.tool = "run_cli"
             /\ request' = [request EXCEPT ![t] = r]
             /\ Go(t, "booted?") /\ UNCHANGED <<todo, result>>
          \/ /\ r.tool = "configure_ios"
             /\ LET block == Normalize(r.commands) IN
                  /\ request' = [request EXCEPT ![t] = [r EXCEPT !.commands = block]]
                  /\ todo' = [todo EXCEPT ![t] = block]
                  /\ IF block = <<>> THEN Return(t, "refused")
                     ELSE Go(t, "entering") /\ UNCHANGED result
  /\ UNCHANGED <<console, done, context, slips>>

(* A call to Packet Tracer that times out or comes back with an error. *)
CallFails(t) ==
  /\ pc[t] \notin {"idle", "done"}
  /\ Ends(t, "lost")
  /\ UNCHANGED <<console, request, slips, shared>>

(* ready_console *)
SkipBoot(t) ==
  /\ pc[t] = "booted?"
  /\ Go(t, "ready?")
  /\ screen' \in IF screen = "booting" THEN {"dialog", "return"} ELSE {screen}
  /\ UNCHANGED <<mode, locks, unsaved, request, todo, done, result, context, slips, shared>>

ReadyConsole(t) ==
  /\ pc[t] = "ready?"
  /\ \/ screen = "dialog" /\ Shows(t, Reaction(mode, "return", "ok"), "no") /\ UNCHANGED pc
     \/ /\ screen = "return"
        /\ \E reaction \in Reactions(EnterKey) : Shows(t, reaction, EnterKey)
        /\ Go(t, "question?")
     \/ screen \notin {"dialog", "return"} /\ Go(t, "question?") /\ UNCHANGED console
  /\ UNCHANGED <<request, todo, done, result, context, slips, shared>>

Wants(t) == request[t].mode

(* Typing anything but an answer into [confirm], or a command in another mode. *)
Slip(t, meant) == slips' = IF meant THEN slips ELSE slips \cup {t}

(* An open question is not typed over; a password at the console is given. *)
CheckQuestion(t) ==
  /\ pc[t] = "question?"
  /\ \/ Wants(t) = "current" /\ Go(t, "verified") /\ UNCHANGED <<result, todo, done, context>>
     \/ /\ Wants(t) # "current"
        /\ \/ screen \notin Questions /\ Go(t, "mode?") /\ UNCHANGED <<result, todo, done, context>>
           \/ screen = "confirm" /\ Fail(t)
           \/ /\ screen \in Questions \ {"confirm"}
              /\ IF request[t].line = "none" THEN Fail(t)
                 ELSE Go(t, "unlocking") /\ UNCHANGED <<result, todo, done, context>>
  /\ UNCHANGED <<console, request, slips, shared>>

Unlock(t) ==
  /\ pc[t] = "unlocking"
  /\ \E reaction \in Reactions(request[t].line) :
       /\ Shows(t, reaction, request[t].line)
       /\ IF reaction.status = "question" THEN Fail(t)
          ELSE Go(t, "mode?") /\ UNCHANGED <<result, todo, done, context>>
  /\ UNCHANGED <<request, slips, shared>>

-----------------------------------------------------------------------------
(* switch_mode *)

Path(current, target) ==
  CASE target = current -> <<>>
    [] target = "user" /\ current = "enable" -> <<"disable">>
    [] target = "user" /\ current \notin {"user", "enable"} -> <<"end", "disable">>
    [] target = "enable" /\ current = "user" -> <<"enable">>
    [] target = "enable" /\ current \notin {"user", "enable"} -> <<"end">>
    [] target = "global" /\ current = "user" -> <<"enable", "configure_terminal">>
    [] target = "global" /\ current = "enable" -> <<"configure_terminal">>
    [] target = "global" /\ current = "interface" -> <<"end", "configure_terminal">>

ReadMode(t) ==
  /\ pc[t] = "mode?"
  /\ Go(t, "switching")
  /\ todo' = [todo EXCEPT ![t] = Path(mode, Wants(t))]
  /\ UNCHANGED <<console, request, done, result, context, slips, shared>>

(* The step's password: only `enable` takes the enable password, or else the other. *)
Secret(t) ==
  IF todo[t][1] = "enable" /\ request[t].enable # "none" THEN request[t].enable
  ELSE request[t].line

SwitchMode(t) ==
  /\ pc[t] = "switching" /\ todo[t] # <<>>
  /\ Slip(t, screen # "confirm")
  /\ \E reaction \in Reactions(todo[t][1]) :
       /\ Shows(t, reaction, todo[t][1])
       /\ \/ /\ reaction.status = "ok"
             /\ todo' = [todo EXCEPT ![t] = Tail(@)]
             /\ UNCHANGED <<pc, result, done, context>>
          \/ /\ reaction.status = "question" /\ reaction.screen # "confirm"
             /\ Go(t, IF Secret(t) = "none" THEN "escaping" ELSE "answering")
             /\ UNCHANGED <<todo, result, done, context>>
          \/ /\ reaction.status = "invalid" \/ (reaction.status = "question" /\ reaction.screen = "confirm")
             /\ Fail(t)
  /\ UNCHANGED <<request, shared>>

AnswerStep(t) ==
  /\ pc[t] = "answering"
  /\ \E reaction \in Reactions(Secret(t)) :
       /\ Shows(t, reaction, Secret(t))
       /\ IF reaction.status = "ok"
          THEN Go(t, "switching") /\ todo' = [todo EXCEPT ![t] = Tail(@)]
          ELSE Go(t, "escaping") /\ UNCHANGED todo
  /\ UNCHANGED <<request, done, result, context, slips, shared>>

(* Mutant: the password question is left open. *)
Escape_LeavesQuestion(t) ==
  /\ pc[t] = "escaping"
  /\ Fail(t)
  /\ UNCHANGED <<console, request, slips, shared>>

(* "Leave the console at its prompt instead of stuck on the question." *)
Escape(t) ==
  /\ pc[t] = "escaping"
  /\ \E reaction \in Reactions(EnterKey) : Shows(t, reaction, EnterKey)
  /\ Fail(t)
  /\ UNCHANGED <<request, slips, shared>>

(* Mutant: the mode that was reached is not read. *)
Verify_Trusting(t) ==
  /\ pc[t] = "switching" /\ todo[t] = <<>>
  /\ Go(t, "verified")
  /\ UNCHANGED <<console, request, todo, done, result, context, slips, shared>>

Verify(t) ==
  /\ pc[t] = "switching" /\ todo[t] = <<>>
  /\ IF mode = Wants(t) THEN Go(t, "verified") /\ UNCHANGED <<result, todo, done, context>>
     ELSE Fail(t)
  /\ UNCHANGED <<console, request, slips, shared>>

-----------------------------------------------------------------------------
(* The command itself, and the password it may ask for *)

AnyPassword(t) == IF request[t].enable # "none" THEN request[t].enable ELSE request[t].line

TypeCommand(t) ==
  /\ pc[t] = "verified"
  /\ Slip(t, Wants(t) \in {"current", mode} /\ (Wants(t) # "current" => screen = "prompt"))
  /\ \E reaction \in Reactions(request[t].command) :
       /\ Shows(t, reaction, request[t].command)
       /\ IF reaction.screen \in Questions \ {"confirm"} /\ AnyPassword(t) # "none"
          THEN Go(t, "password") /\ UNCHANGED result
          ELSE Return(t, "answer")
  /\ UNCHANGED <<request, todo, done, context, shared>>

AnswerPassword(t) ==
  /\ pc[t] = "password"
  /\ \E reaction \in Reactions(AnyPassword(t)) : Shows(t, reaction, AnyPassword(t))
  /\ Return(t, "answer")
  /\ UNCHANGED <<request, todo, done, context, slips, shared>>

-----------------------------------------------------------------------------
(* configure_ios.  Device.enterCommand goes past the console's login. *)

(* Mutant: every command is entered in global configuration mode. *)
CommandMode_Global(t) == "global"

(* Mutant: run_cli's word for the console's mode, which enterCommand does not know. *)
CommandMode_Current(t) == IF done[t] = 0 THEN "global" ELSE "current"

CommandMode(t) == IF done[t] = 0 THEN "global" ELSE mode

(***************************************************************************)
(* A command entered in mode m; what a call that fails did is not known.   *)
(* A block's command is out of context when it does not continue where the *)
(* one before it left.                                                     *)
(***************************************************************************)
Enters(t, m, text) ==
  LET accepted == Accepts(m, text) IN
  /\ mode' = IF accepted THEN Leads(m, text) ELSE m
  /\ unsaved' = IF ~accepted THEN unsaved
                ELSE IF text \in Changing THEN unsaved \cup {t}
                ELSE IF text = "write_memory" THEN {} ELSE unsaved
  /\ UNCHANGED <<screen, locks>>

EnterCommand(t) ==
  /\ pc[t] = "entering" /\ todo[t] # <<>>
  /\ LET m == CommandMode(t)
         c == todo[t][1]
     IN /\ Enters(t, m, c)
        /\ Slip(t, m = context[t])
        /\ context' = [context EXCEPT ![t] = mode']
        /\ IF Accepts(m, c)
           THEN /\ todo' = [todo EXCEPT ![t] = Tail(@)]
                /\ done' = [done EXCEPT ![t] = @ + 1]
           ELSE todo' = [todo EXCEPT ![t] = <<>>] /\ UNCHANGED done
  /\ UNCHANGED <<pc, request, result, shared>>

(* A call that fails after Packet Tracer has acted on it. *)
EnterFails(t) ==
  /\ pc[t] = "entering" /\ todo[t] # <<>>
  /\ Enters(t, CommandMode(t), todo[t][1])
  /\ Ends(t, "lost")
  /\ UNCHANGED <<request, slips, shared>>

Complete(t) == done[t] = Len(request[t].commands)

(* Mutant: `end` is only sent after a block that was accepted. *)
EnterEnd_OnlyComplete(t) ==
  /\ pc[t] = "entering" /\ todo[t] = <<>>
  /\ IF Complete(t) THEN Enters(t, mode, "end") ELSE UNCHANGED console
  /\ IF request[t].save /\ Complete(t) THEN Go(t, "saving") /\ UNCHANGED result
     ELSE Return(t, "applied")
  /\ UNCHANGED <<request, todo, done, context, slips, shared>>

(* Mutant: what was accepted is saved although the block was not completed. *)
EnterEnd_AlwaysSaves(t) ==
  /\ pc[t] = "entering" /\ todo[t] = <<>>
  /\ Enters(t, mode, "end")
  /\ Return(t, IF request[t].save THEN "saved" ELSE "applied")
  /\ UNCHANGED <<request, todo, done, context, slips, shared>>

EnterEnd(t) ==
  /\ pc[t] = "entering" /\ todo[t] = <<>>
  /\ Enters(t, mode, "end")
  /\ IF request[t].save /\ Complete(t) THEN Go(t, "saving") /\ UNCHANGED result
     ELSE Return(t, "applied")
  /\ UNCHANGED <<request, todo, done, context, slips, shared>>

(* Saved only if IOS says so: "[OK]". *)
WriteMemory(t) ==
  /\ pc[t] = "saving"
  /\ \/ Enters(t, "enable", "write_memory") /\ Return(t, "saved")
     \/ /\ mode' = "enable" /\ UNCHANGED <<screen, locks, unsaved>>
        /\ Return(t, "applied")
  /\ UNCHANGED <<request, todo, done, context, slips, shared>>

-----------------------------------------------------------------------------
Step(t) ==
  Start(t) \/ CallFails(t) \/ SkipBoot(t) \/ ReadyConsole(t) \/ CheckQuestion(t) \/ Unlock(t)
    \/ ReadMode(t) \/ SwitchMode(t) \/ AnswerStep(t) \/ Escape(t) \/ Verify(t) \/ TypeCommand(t)
    \/ AnswerPassword(t) \/ EnterCommand(t) \/ EnterFails(t) \/ EnterEnd(t) \/ WriteMemory(t)

Next == \E t \in Tasks : Step(t)
Spec == Init /\ [][Next]_vars

-----------------------------------------------------------------------------
(* Properties *)

(* Types of the variables that are not requests. *)
TypeOK ==
  /\ mode \in Modes /\ screen \in Screens
  /\ locks \subseteq {"line", "enable"} /\ unsaved \subseteq Tasks /\ slips \subseteq Tasks
  /\ shared \subseteq Tasks
  /\ pc \in [Tasks -> {"idle", "booted?", "ready?", "question?", "unlocking", "mode?", "switching",
                       "answering", "escaping", "verified", "password", "entering", "saving", "done"}]
  /\ result \in [Tasks -> {"none", "answer", "refused", "lost", "applied", "saved"}]
  /\ context \in [Tasks -> Modes]

Cli(t) == request[t].tool = "run_cli"

(***************************************************************************)
(* run_cli types its command in the mode it was asked for and never over   *)
(* an open question: "other modes are refused, because typing `end` would  *)
(* answer the question" (cli/README.md).                                   *)
(***************************************************************************)
TypedAsMeant == \A t \in slips : ~Cli(t)

(***************************************************************************)
(* Every command of a block runs where the one before it left the device:  *)
(* "sub-modes behave exactly as typed at the console" (cli/README.md),     *)
(* unless another call was at the console meanwhile.                       *)
(***************************************************************************)
BlockKeepsContext == \A t \in slips : Cli(t) \/ t \in shared

Returns(t) == pc[t] # "done" /\ pc'[t] = "done"

(***************************************************************************)
(* "Leave the console at its prompt instead of stuck on the question":     *)
(* once run_cli is past what was open at the console when it came, a       *)
(* refusal leaves the prompt free, whether a password of the walk to the   *)
(* mode is missing or wrong, a step fails or another mode is reached.      *)
(***************************************************************************)
BackAtPrompt ==
  [][\A t \in Tasks :
       Returns(t) /\ Cli(t) /\ result'[t] = "refused" /\ pc[t] \notin {"question?", "unlocking"}
       => screen' = "prompt"]_vars

(***************************************************************************)
(* Without the passwords a locked console asks for, the error "names the   *)
(* field to fill in and leaves the console back at its prompt"             *)
(* (cli/README.md); an open [confirm] is to stay open.                     *)
(***************************************************************************)
PasswordErrorsLeavePrompt ==
  [][\A t \in Tasks :
       /\ Returns(t) /\ Cli(t) /\ result'[t] = "refused" /\ screen # "confirm"
       /\ pc[t] \in {"question?", "unlocking", "answering", "escaping"}
       => screen' \notin Questions]_vars

(* A block that returns its result has left configuration mode, accepted or not. *)
LeavesConfiguration ==
  [][\A t \in Tasks : Returns(t) /\ result'[t] \in {"applied", "saved"} => mode' \notin Configuring]_vars

(***************************************************************************)
(* "the device is never left in configuration mode" (cli/README.md): from  *)
(* the first command that was accepted, whatever happens to the others.    *)
(***************************************************************************)
NeverLeftConfiguring ==
  [][\A t \in Tasks : Returns(t) /\ ~Cli(t) /\ done[t] > 0 => mode' \notin Configuring]_vars

(***************************************************************************)
(* `saved` means that the whole block is in the startup configuration:     *)
(* nothing a block changed before it reported saved can be lost.           *)
(***************************************************************************)
SavedIsDurable == \A t \in Tasks : result[t] = "saved" => t \notin unsaved /\ Complete(t)
==============================================================================

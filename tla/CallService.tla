----------------------------- MODULE CallService -----------------------------
(***************************************************************************)
(* What a PTMP session promises to the tasks that call Packet Tracer       *)
(* through it (Session::call), with the sockets, queues and tables left    *)
(* out: a call returns at most once, with the answer to its own request or *)
(* with an error; "closed" is reported only by a session that went down;   *)
(* and a session that is down serves no call issued afterwards.            *)
(***************************************************************************)
CONSTANT Calls

VARIABLES
  down,      \* the session accepts no call any more
  status,    \* what each call is doing
  outcome    \* what each call returned

vars == <<down, status, outcome>>

Nothing == [kind |-> "none"]
Closed == [kind |-> "closed"]
TimedOut == [kind |-> "timeout"]
Unframable == [kind |-> "unframable"]
Value(c) == [kind |-> "value", of |-> c]
Remote(c) == [kind |-> "remote", of |-> c]

Answers(c) == {Value(c), Remote(c), TimedOut, Unframable}

Init ==
  /\ down = FALSE
  /\ status = [c \in Calls |-> "idle"]
  /\ outcome = [c \in Calls |-> Nothing]

(* A call that finds the session down is refused from the start. *)
Issue(c) ==
  /\ status[c] = "idle"
  /\ status' = [status EXCEPT ![c] = IF down THEN "refused" ELSE "waiting"]
  /\ UNCHANGED <<down, outcome>>

(* Going down may catch calls that were not handed over yet: they are refused. *)
GoDown ==
  /\ ~down
  /\ down' = TRUE
  /\ \E R \in SUBSET {c \in Calls : status[c] = "waiting"} :
       status' = [c \in Calls |-> IF c \in R THEN "refused" ELSE status[c]]
  /\ UNCHANGED outcome

(* A waiting call can still be refused by a session that is down. *)
Refuse(c) ==
  /\ down /\ status[c] = "waiting"
  /\ status' = [status EXCEPT ![c] = "refused"]
  /\ UNCHANGED <<down, outcome>>

Return(c) ==
  /\ \/ /\ status[c] = "waiting"
        /\ \E r \in Answers(c) : outcome' = [outcome EXCEPT ![c] = r]
     \/ /\ status[c] \in {"waiting", "refused"} /\ down
        /\ outcome' = [outcome EXCEPT ![c] = Closed]
  /\ status' = [status EXCEPT ![c] = "done"]
  /\ UNCHANGED down

(* The caller's own future was dropped: nobody waits for the answer. *)
Abandon(c) ==
  /\ status[c] = "waiting"
  /\ status' = [status EXCEPT ![c] = "abandoned"]
  /\ UNCHANGED <<down, outcome>>

Next == GoDown \/ \E c \in Calls : Issue(c) \/ Refuse(c) \/ Return(c) \/ Abandon(c)

Safety == Init /\ [][Next]_vars
Spec == Safety /\ \A c \in Calls : WF_vars(Return(c))
==============================================================================

------------------------------ MODULE MCTerminal ------------------------------
(***************************************************************************)
(* Small instances of Terminal.  The passing run has two scenes, told      *)
(* apart by where run a is: at pc1 it takes turns with run b, or works     *)
(* beside it while b is at pc2; at pc2 it takes turns with a watch while   *)
(* the connection comes and goes.  Both restrict Packet Tracer and who     *)
(* starts, never a call under way, so every call is as fair as in Spec.    *)
(***************************************************************************)
EXTENDS Terminal

CONSTANTS a, b, w, pc1, pc2, TurnsPrinted, MaxWaiting

\* Packet Tracer says no more while MaxWaiting messages are on the wire.
Waits == pc' = pc /\ Len(wire') > Len(wire) => Len(wire') <= MaxWaiting

\* Runs are interchangeable: the first to start is a.  Beside it, b's command prints
\* without pages and questions, and the connection stands.
Turns ==
  /\ lineOf[a] = pc1 /\ lineOf[w] = pc1
  /\ pc'[w] = "idle" /\ (pc'[a] = "idle" => pc'[b] = "idle")
  /\ session' = 1 /\ \A l \in Lines : printed'[l] <= TurnsPrinted
  /\ lineOf[b] = pc2 => up' /\ phase'[pc2] \notin {"more", "asking"} /\ Waits

Reconnects ==
  /\ \A t \in Tasks : lineOf[t] = pc2
  /\ pc'[b] = "idle"

Scenes ==
  /\ Init /\ [][Next /\ (Turns \/ Reconnects)]_vars
  /\ \A t \in Tasks : WF_vars(TaskStep(t))
==============================================================================

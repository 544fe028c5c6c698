---------------------------- MODULE LiveConnection ----------------------------
(***************************************************************************)
(* The one connection that all tool calls share.                           *)
(*                                                                         *)
(* A call asks for the session under a mutex, and whoever finds none or a  *)
(* closed one connects: it goes through the configured addresses, the one  *)
(* that worked last first, and at each of them through the PTMP handshake  *)
(* (Session::connect), until one completes.  At the other end are whatever *)
(* programs listen on those ports, and Packet Tracer may quit, restart and *)
(* move to another port at any time.                                       *)
(***************************************************************************)
EXTENDS Integers, Sequences

CONSTANTS
  Tasks,        \* calls that ask for the session, once each
  Ports,        \* how many addresses are configured; an address is its place in the list
  MaxSessions,  \* bound: sessions made
  MaxChanges    \* bound: what happens to Packet Tracer and the other programs

ASSUME ConnectionAssumption ==
  /\ Ports \in Nat \ {0} /\ MaxSessions \in Nat \ {0} /\ MaxChanges \in Nat

Addresses == 1 .. Ports
Sessions == 1 .. MaxSessions
None == 0

VARIABLES
  server,   \* what listens at each address
  changes,  \* how often that has changed, or a connection was lost
  conn,     \* each session's connection: unused, open, gone (unnoticed) or closed
  at,       \* the address each session was made to
  slot,     \* the session in the mutex
  last,     \* the address that worked last (`connected`)
  queue,    \* the calls at the mutex; the first holds it
  pc,       \* where each call stands
  order,    \* the addresses the holder has still to try, the current one first
  stage,    \* the reply the handshake there waits for
  broken,   \* the connection it is made on has been lost
  failure,  \* the failure the holder keeps
  seen,     \* every failure of this connect, in order
  got,      \* the session each call received
  report    \* what each call that failed reports, and the failures behind it

world == <<server, changes>>
search == <<order, stage, broken, failure, seen>>
vars == <<server, changes, conn, at, slot, last, queue, pc, order, stage, broken,
          failure, seen, got, report>>

(* A Packet Tracer with our app registered, without it, or held up by a dialog. *)
Kinds == {"nothing", "other program", "registered", "unregistered", "stuck"}
Stages == <<"tcp", "negotiation", "challenge", "status">>
Failures == {"NotRegistered", "Busy", "Transport", "Unreachable"}

Init ==
  /\ server \in [Addresses -> Kinds] /\ changes = 0
  /\ conn = [n \in Sessions |-> "unused"] /\ at = [n \in Sessions |-> None]
  /\ slot = None /\ last = None
  /\ queue = <<>>
  /\ pc = [t \in Tasks |-> "idle"]
  /\ order = <<>> /\ stage = 1 /\ broken = FALSE /\ failure = "none" /\ seen = <<>>
  /\ got = [t \in Tasks |-> None]
  /\ report = [t \in Tasks |-> [failure |-> "none", seen |-> <<>>]]

-----------------------------------------------------------------------------
(* Packet Tracer and other programs *)

PtKinds == {"registered", "unregistered", "stuck"}

(* Another program takes the port, Packet Tracer restarts, or it only changes its mind. *)
Changes(p) ==
  /\ changes < MaxChanges /\ changes' = changes + 1
  /\ \E kind \in Kinds :
       /\ server' = [server EXCEPT ![p] = kind]
       /\ \/ /\ conn' = [n \in Sessions |-> IF conn[n] = "open" /\ at[n] = p THEN "gone" ELSE conn[n]]
             /\ broken' = (broken \/ (stage > 1 /\ order[1] = p))
          \/ /\ {kind, server[p]} \subseteq PtKinds /\ kind # server[p]
             /\ UNCHANGED <<conn, broken>>
  /\ UNCHANGED <<at, slot, last, queue, pc, order, stage, failure, seen, got, report>>

(* read_loop notices that the connection is gone and raises the closed flag. *)
Notices(n) ==
  /\ conn[n] = "gone"
  /\ conn' = [conn EXCEPT ![n] = "closed"]
  /\ UNCHANGED <<world, at, slot, last, queue, pc, search, got, report>>

-----------------------------------------------------------------------------
(* Session::connect and its handshake *)

(***************************************************************************)
(* How a connection attempt ends at each stage, as PtError: nothing        *)
(* listens, or the end of the stream (Unreachable); a broken stream, an    *)
(* answer of another kind, one that cannot be parsed or settings we do not *)
(* support (Transport); no answer in time (Busy); a status that says no,   *)
(* or a disconnect instead of a status (NotRegistered).                    *)
(***************************************************************************)
At(name) == Stages[stage] = name

FailsWith(kind) ==
  {f \in Failures :
     \/ f = "Unreachable" /\ (broken \/ (IF At("tcp") THEN kind = "nothing" ELSE kind = "other program"))
     \/ f = "Transport" /\ (broken \/ (kind = "other program" /\ ~At("tcp")))
     \/ f = "Busy" /\ kind \in {"other program", "stuck"} /\ ~At("tcp")
     \/ f = "NotRegistered" /\ At("status") /\ (broken \/ kind = "unregistered")}

Answers(kind) ==
  /\ ~broken
  /\ \/ At("tcp") /\ kind # "nothing"
     \/ (At("negotiation") \/ At("challenge")) /\ kind \in {"registered", "unregistered"}
     \/ At("status") /\ kind = "registered"

Restart(with) ==
  order' = with /\ stage' = 1 /\ broken' = FALSE /\ failure' = "none" /\ seen' = <<>>

Trying(t) == pc[t] = "trying" /\ order # <<>>

(* Mutant: the client waits for yet another message after the status. *)
Advances_PastStatus(t) ==
  /\ Trying(t) /\ Answers(server[Head(order)])
  /\ stage' = stage + 1
  /\ UNCHANGED <<world, conn, at, slot, last, queue, pc, order, broken, failure, seen, got, report>>

Advances(t) ==
  /\ Trying(t) /\ stage < 4 /\ Answers(server[Head(order)])
  /\ stage' = stage + 1
  /\ UNCHANGED <<world, conn, at, slot, last, queue, pc, order, broken, failure, seen, got, report>>

-----------------------------------------------------------------------------
(* LivePacketTracer::session and connect *)

Asks(t) ==
  /\ pc[t] = "idle"
  /\ pc' = [pc EXCEPT ![t] = "waiting"]
  /\ queue' = Append(queue, t)
  /\ UNCHANGED <<world, conn, at, slot, last, search, got, report>>

Usable(n) == n # None /\ conn[n] # "closed"

(* Mutant: the other addresses are only tried until one has worked. *)
Order_OnlyLast == IF last = None THEN [p \in Addresses |-> p] ELSE <<last>>

(* Mutant: the address that worked last is tried again in its place. *)
Order_LastTwice == (IF last = None THEN <<>> ELSE <<last>>) \o [p \in Addresses |-> p]

(* The address that worked last, then the others in their order. *)
Order ==
  [i \in Addresses |->
     IF last # None /\ i = 1 THEN last
     ELSE IF i <= last THEN i - 1 ELSE i]

Takes(t, n) ==
  /\ pc' = [pc EXCEPT ![t] = "served"]
  /\ got' = [got EXCEPT ![t] = n]
  /\ queue' = Tail(queue)

(* Mutant: a call that had to wait for the mutex connects without looking again. *)
Enters_NoRecheck(t) ==
  /\ pc[t] = "waiting" /\ queue # <<>> /\ Head(queue) = t
  /\ pc' = [pc EXCEPT ![t] = "trying"]
  /\ Restart(Order)
  /\ UNCHANGED <<world, conn, at, slot, last, queue, got, report>>

Enters(t) ==
  /\ pc[t] = "waiting" /\ queue # <<>> /\ Head(queue) = t
  /\ \/ /\ Usable(slot)
        /\ Takes(t, slot)
        /\ UNCHANGED search
     \/ /\ ~Usable(slot)
        /\ pc' = [pc EXCEPT ![t] = "trying"]
        /\ Restart(Order)
        /\ UNCHANGED <<queue, got>>
  /\ UNCHANGED <<world, conn, at, slot, last, report>>

Unused == {n \in Sessions : conn[n] = "unused"}

(* Mutant: the session is handed out and not kept. *)
Connects_NotKept(t) ==
  /\ Trying(t) /\ stage = 4 /\ Answers(server[Head(order)])
  /\ \E n \in Unused :
       /\ \A m \in Unused : n <= m
       /\ conn' = [conn EXCEPT ![n] = "open"]
       /\ at' = [at EXCEPT ![n] = Head(order)]
       /\ Takes(t, n)
  /\ last' = Head(order)
  /\ Restart(<<>>)
  /\ UNCHANGED <<world, slot, report>>

(* The last reply: nothing is awaited between the handshake and the slot. *)
Connects(t) ==
  /\ Trying(t) /\ stage = 4 /\ Answers(server[Head(order)])
  /\ \E n \in Unused :
       /\ \A m \in Unused : n <= m
       /\ conn' = [conn EXCEPT ![n] = "open"]
       /\ at' = [at EXCEPT ![n] = Head(order)]
       /\ slot' = n
       /\ Takes(t, n)
  /\ last' = Head(order)
  /\ Restart(<<>>)
  /\ UNCHANGED <<world, report>>

Rank(f) ==
  CASE f = "NotRegistered" -> 0 [] f = "Busy" -> 1 [] f = "Transport" -> 2 [] f = "Unreachable" -> 3

(* Mutant: the last failure is kept. *)
Keeps_Latest(kept, new) == new

Keeps(kept, new) == IF kept = "none" \/ Rank(new) < Rank(kept) THEN new ELSE kept

FailsAt(t) ==
  /\ Trying(t)
  /\ \E f \in FailsWith(server[Head(order)]) :
       /\ failure' = Keeps(failure, f)
       /\ seen' = Append(seen, <<Head(order), f>>)
  /\ order' = Tail(order) /\ stage' = 1 /\ broken' = FALSE
  /\ UNCHANGED <<world, conn, at, slot, last, queue, pc, got, report>>

GivesUp(t) ==
  /\ pc[t] = "trying" /\ order = <<>>
  /\ pc' = [pc EXCEPT ![t] = "failed"]
  /\ report' = [report EXCEPT ![t] = [failure |-> failure, seen |-> seen]]
  /\ queue' = Tail(queue)
  /\ Restart(<<>>)
  /\ UNCHANGED <<world, conn, at, slot, last, got>>

(* A call that is dropped gives up its place at the mutex. *)
Leaves(t) ==
  \E k \in DOMAIN queue :
    /\ queue[k] = t
    /\ queue' = [i \in 1 .. Len(queue) - 1 |-> queue[IF i < k THEN i ELSE i + 1]]

(* Mutant: a call that is dropped while it connects keeps the mutex. *)
Cancel_KeepsMutex(t) ==
  /\ pc[t] \in {"waiting", "trying"}
  /\ pc' = [pc EXCEPT ![t] = "cancelled"]
  /\ IF pc[t] = "trying" THEN UNCHANGED queue ELSE Leaves(t)
  /\ IF pc[t] = "waiting" THEN UNCHANGED search
     ELSE Restart(<<>>)
  /\ UNCHANGED <<world, conn, at, slot, last, got, report>>

(* The call's future is dropped: its attempt ends and the mutex passes on. *)
Cancel(t) ==
  /\ pc[t] \in {"waiting", "trying"}
  /\ pc' = [pc EXCEPT ![t] = "cancelled"]
  /\ Leaves(t)
  /\ IF pc[t] = "waiting" THEN UNCHANGED search
     ELSE Restart(<<>>)
  /\ UNCHANGED <<world, conn, at, slot, last, got, report>>

-----------------------------------------------------------------------------
Attempt(t) == Enters(t) \/ Advances(t) \/ Connects(t) \/ FailsAt(t) \/ GivesUp(t)

Next ==
  \/ \E p \in Addresses : Changes(p)
  \/ \E n \in Sessions : Notices(n)
  \/ \E t \in Tasks : Asks(t) \/ Attempt(t) \/ Cancel(t)

Safety == Init /\ [][Next]_vars

(* Every reply comes or times out; a dead connection is noticed. *)
Fairness ==
  /\ \A t \in Tasks : WF_vars(Attempt(t))
  /\ \A n \in Sessions : WF_vars(Notices(n))

Spec == Safety /\ Fairness

-----------------------------------------------------------------------------
(* Properties *)

(* Types of all variables. *)
TypeOK ==
  /\ server \in [Addresses -> Kinds] /\ changes \in 0 .. MaxChanges
  /\ conn \in [Sessions -> {"unused", "open", "gone", "closed"}]
  /\ at \in [Sessions -> Addresses \cup {None}]
  /\ slot \in Sessions \cup {None} /\ last \in Addresses \cup {None}
  /\ queue \in Seq(Tasks)
  /\ pc \in [Tasks -> {"idle", "waiting", "trying", "served", "failed", "cancelled"}]
  /\ order \in Seq(Addresses) /\ stage \in 1 .. 4 /\ broken \in BOOLEAN
  /\ failure \in Failures \cup {"none"} /\ seen \in Seq(Addresses \X Failures)
  /\ got \in [Tasks -> Sessions \cup {None}]
  /\ report \in [Tasks -> [failure : Failures \cup {"none"}, seen : Seq(Addresses \X Failures)]]

(***************************************************************************)
(* There is never more than one session that has not been noticed closed,  *)
(* however many calls find none at the same time and whoever of them is    *)
(* cancelled half way (LivePacketTracer::session).                         *)
(***************************************************************************)
Live(n) == conn[n] \in {"open", "gone"}
OneSession == \A m, n \in Sessions : Live(m) /\ Live(n) => m = n

(* Calls whose session still stands share the one in the slot, events and all. *)
SharedSession == \A t \in Tasks : got[t] # None /\ Live(got[t]) => got[t] = slot

Tried(t) == report[t].seen

(***************************************************************************)
(* A call fails only after every address was tried, once each, and reports *)
(* the most telling of the failures: "a rejected app id before a busy      *)
(* Packet Tracer before a closed port" (LivePacketTracer::connect).        *)
(***************************************************************************)
TriesEachOnce ==
  \A t \in Tasks : pc[t] = "failed" =>
    /\ Len(Tried(t)) = Ports
    /\ \A p \in Addresses : \E i \in DOMAIN Tried(t) : Tried(t)[i][1] = p

MostTelling ==
  \A t \in Tasks : pc[t] = "failed" =>
    /\ \E i \in DOMAIN Tried(t) : Tried(t)[i][2] = report[t].failure
    /\ \A i \in DOMAIN Tried(t) : Rank(report[t].failure) <= Rank(Tried(t)[i][2])

(* No call waits for ever, whoever holds the mutex and whatever listens on the ports. *)
EveryCallServed ==
  \A t \in Tasks : (pc[t] = "waiting") ~> (pc[t] \in {"served", "failed", "cancelled"})

(***************************************************************************)
(* Once Packet Tracer listens on any of the ports with the app registered  *)
(* and stays there, a call made then is served, wherever Packet Tracer was *)
(* before.                                                                 *)
(***************************************************************************)
Settled(k) == changes = k /\ \E p \in Addresses : server[p] = "registered"
FindsPacketTracer ==
  \A t \in Tasks : \A k \in 0 .. MaxChanges :
    [](pc[t] = "waiting" /\ []Settled(k) => <>(pc[t] \in {"served", "cancelled"}))
==============================================================================

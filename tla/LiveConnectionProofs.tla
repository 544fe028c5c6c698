------------------------- MODULE LiveConnectionProofs -------------------------
(***************************************************************************)
(* Proofs about the shared connection for any number of calls, addresses   *)
(* and sessions: there is one session at a time, calls share it, and a     *)
(* call that fails has tried every address and reports the best of what it *)
(* met.                                                                    *)
(***************************************************************************)
EXTENDS LiveConnection, TLAPS

-----------------------------------------------------------------------------
(* The inductive invariant *)

(* Only the session in the slot can stand, so a call that connects makes the only one. *)
SlotHoldsLive == \A n \in Sessions : Live(n) => n = slot

(* The call that connects holds the mutex, and holds it because the slot is of no use. *)
HolderConnects ==
  \A t \in Tasks : pc[t] = "trying" => queue # <<>> /\ Head(queue) = t /\ ~Usable(slot)

(* Nobody stands at the mutex twice, or without a reason. *)
QueueIsTidy ==
  /\ \A i, j \in DOMAIN queue : queue[i] = queue[j] => i = j
  /\ \A i \in DOMAIN queue : pc[queue[i]] \in {"waiting", "trying"}

(* A search has still to try the addresses it has not seen fail. *)
EachOnce ==
  /\ Len(seen) + Len(order) = Ports
  /\ \A p \in Addresses :
       (\E i \in DOMAIN seen : seen[i][1] = p) \/ (\E j \in DOMAIN order : order[j] = p)
Telling ==
  IF seen = <<>> THEN failure = "none"
  ELSE /\ \E i \in DOMAIN seen : seen[i][2] = failure
       /\ \A i \in DOMAIN seen : Rank(failure) <= Rank(seen[i][2])
SearchIsFair == \A t \in Tasks : pc[t] = "trying" => EachOnce /\ Telling

Inductive ==
  /\ TypeOK
  /\ SlotHoldsLive /\ HolderConnects /\ QueueIsTidy
  /\ SearchIsFair /\ TriesEachOnce /\ MostTelling

-----------------------------------------------------------------------------
(* Facts about the operators *)

(* The addresses are all in the order, once each. *)
LEMMA OrderCovers ==
  ASSUME last \in Addresses \cup {None}
  PROVE  /\ Order \in Seq(Addresses) /\ Len(Order) = Ports
         /\ \A p \in Addresses : \E j \in DOMAIN Order : Order[j] = p
<1> USE ConnectionAssumption DEF Addresses, None
<1>1. Order \in [1 .. Ports -> Addresses]
  BY DEF Order
<1>2. Order \in Seq(Addresses) /\ Len(Order) = Ports /\ DOMAIN Order = 1 .. Ports
  BY <1>1
<1>3. ASSUME NEW p \in Addresses PROVE \E j \in DOMAIN Order : Order[j] = p
  <2>1. CASE last = None
    BY <1>2, <2>1 DEF Order
  <2>2. CASE last # None /\ p = last
    <3>1. Order[1] = last
      BY <2>2 DEF Order
    <3>2. QED BY <1>2, <2>2, <3>1
  <2>3. CASE last # None /\ p < last
    <3>1. p + 1 \in Addresses /\ Order[p + 1] = p
      BY <2>3 DEF Order
    <3>2. QED BY <1>2, <3>1
  <2>4. CASE last # None /\ p > last
    <3>1. Order[p] = p
      BY <2>4 DEF Order
    <3>2. QED BY <1>2, <3>1
  <2>5. QED BY <2>1, <2>2, <2>3, <2>4
<1>4. QED BY <1>2, <1>3

(* What remains of the mutex's queue is what was behind the call that left. *)
LEMMA TailQueue ==
  ASSUME NEW S, NEW s \in Seq(S), s # <<>>
  PROVE  /\ Tail(s) \in Seq(S) /\ Len(Tail(s)) = Len(s) - 1
         /\ Head(s) = s[1] /\ 1 \in DOMAIN s
         /\ DOMAIN Tail(s) = 1 .. (Len(s) - 1)
         /\ \A i \in DOMAIN Tail(s) : i + 1 \in DOMAIN s /\ Tail(s)[i] = s[i + 1]
OBVIOUS

LEMMA FirstIsHead ==
  ASSUME NEW S, NEW s \in Seq(S), 1 \in DOMAIN s
  PROVE  s # <<>> /\ Head(s) = s[1]
OBVIOUS

LEMMA AppendQueue ==
  ASSUME NEW S, NEW s \in Seq(S), NEW x \in S
  PROVE  /\ Append(s, x) \in Seq(S) /\ Len(Append(s, x)) = Len(s) + 1
         /\ DOMAIN Append(s, x) = DOMAIN s \cup {Len(s) + 1}
         /\ Append(s, x)[Len(s) + 1] = x
         /\ \A i \in DOMAIN s : Append(s, x)[i] = s[i]
OBVIOUS

(* A call that leaves the queue takes nobody with it and leaves the head in place. *)
LEMMA LeavesQueue ==
  ASSUME TypeOK, QueueIsTidy, NEW t \in Tasks, Leaves(t)
  PROVE  /\ queue' \in Seq(Tasks)
         /\ \A i, j \in DOMAIN queue' : queue'[i] = queue'[j] => i = j
         /\ \A i \in DOMAIN queue' : queue'[i] # t /\ \E j \in DOMAIN queue : queue'[i] = queue[j]
         /\ queue # <<>> /\ Head(queue) # t => queue' # <<>> /\ Head(queue') = Head(queue)
<1> PICK k \in DOMAIN queue :
      /\ queue[k] = t
      /\ queue' = [i \in 1 .. Len(queue) - 1 |-> queue[IF i < k THEN i ELSE i + 1]]
  BY DEF Leaves
<1>1. queue \in Seq(Tasks) /\ DOMAIN queue = 1 .. Len(queue) /\ Len(queue) \in Nat /\ k \in 1 .. Len(queue)
  BY DEF TypeOK
<1>2. \A i \in 1 .. Len(queue) - 1 : (IF i < k THEN i ELSE i + 1) \in 1 .. Len(queue)
  BY <1>1
<1>3. queue' \in [1 .. Len(queue) - 1 -> Tasks]
  BY <1>1, <1>2
<1>4. /\ queue' \in Seq(Tasks) /\ Len(queue') = Len(queue) - 1
      /\ DOMAIN queue' = 1 .. Len(queue) - 1
  BY <1>1, <1>3
<1>5. \A i, j \in DOMAIN queue' : queue'[i] = queue'[j] => i = j
  BY <1>1, <1>2, <1>4 DEF QueueIsTidy
<1>6. \A i \in DOMAIN queue' : queue'[i] # t /\ \E j \in DOMAIN queue : queue'[i] = queue[j]
  BY <1>1, <1>2, <1>4 DEF QueueIsTidy
<1>7. queue # <<>> /\ Head(queue) # t => queue' # <<>> /\ Head(queue') = Head(queue)
  <2> HAVE queue # <<>> /\ Head(queue) # t
  <2>1. Head(queue) = queue[1] /\ k > 1
    BY <1>1
  <2>2. 1 \in DOMAIN queue' /\ queue'[1] = queue[1]
    BY <1>1, <1>4, <2>1
  <2>3. QED BY <1>4, <2>1, <2>2, FirstIsHead
<1>8. QED BY <1>4, <1>5, <1>6, <1>7

(* The failure that is kept is one of the two, and no less telling than either. *)
LEMMA KeepsBest ==
  ASSUME NEW kept \in Failures, NEW new \in Failures
  PROVE  /\ Keeps(kept, new) \in {kept, new}
         /\ Rank(Keeps(kept, new)) <= Rank(kept)
         /\ Rank(Keeps(kept, new)) <= Rank(new)
BY DEF Keeps, Rank, Failures

-----------------------------------------------------------------------------
(* Types *)

SearchTyped ==
  /\ order \in Seq(Addresses) /\ stage \in 1 .. 4 /\ broken \in BOOLEAN
  /\ failure \in Failures \cup {"none"} /\ seen \in Seq(Addresses \X Failures)

LEMMA RestartTyped ==
  ASSUME NEW with \in Seq(Addresses), Restart(with)
  PROVE  SearchTyped'
<1>1. broken' \in BOOLEAN
  BY Zenon DEF Restart
<1>2. order' \in Seq(Addresses) /\ stage' \in 1 .. 4 /\ failure' = "none"
        /\ seen' \in Seq(Addresses \X Failures)
  BY DEF Restart
<1>3. QED BY <1>1, <1>2 DEF SearchTyped

(* Every variable keeps to its type. *)
LEMMA TypeStep == TypeOK /\ HolderConnects /\ [Next]_vars => TypeOK'
<1> SUFFICES ASSUME TypeOK, HolderConnects, [Next]_vars PROVE TypeOK'
  OBVIOUS
<1> USE ConnectionAssumption DEF TypeOK, Sessions, None
<1>0. /\ UNCHANGED search => SearchTyped'
      /\ Restart(<<>>) => SearchTyped'
      /\ Restart(Order) => SearchTyped'
  <2>1. <<>> \in Seq(Addresses) /\ Order \in Seq(Addresses)
    BY OrderCovers
  <2>2. (Restart(<<>>) => SearchTyped') /\ (Restart(Order) => SearchTyped')
    BY <2>1, RestartTyped
  <2>3. UNCHANGED search => SearchTyped'
    BY DEF search, SearchTyped
  <2>4. QED BY <2>2, <2>3
<1>1. ASSUME NEW p \in Addresses, Changes(p) PROVE TypeOK'
  <2>1. server' \in [Addresses -> Kinds] /\ changes' \in 0 .. MaxChanges
    BY <1>1 DEF Changes
  <2>2. conn' \in [Sessions -> {"unused", "open", "gone", "closed"}]
    BY <1>1 DEF Changes
  <2>3. broken' \in BOOLEAN
    BY <1>1, Zenon DEF Changes
  <2>4. QED BY <1>1, <2>1, <2>2, <2>3 DEF Changes
<1>2. ASSUME NEW n \in Sessions, Notices(n) PROVE TypeOK'
  BY <1>0, <1>2 DEF Notices, world, SearchTyped
<1>3. ASSUME NEW t \in Tasks, Asks(t) PROVE TypeOK'
  <2>1. queue' \in Seq(Tasks)
    BY <1>3, AppendQueue DEF Asks
  <2>2. QED BY <1>0, <1>3, <2>1 DEF Asks, world, SearchTyped
<1>4. ASSUME NEW t \in Tasks, Attempt(t) PROVE TypeOK'
  <2>1. CASE Enters(t)
    <3>1. queue' \in Seq(Tasks)
      <4>1. queue # <<>> /\ queue' \in {queue, Tail(queue)}
        BY <2>1 DEF Enters, Takes
      <4>2. queue \in Seq(Tasks)
        OBVIOUS
      <4>3. Tail(queue) \in Seq(Tasks)
        BY <4>1, <4>2, TailQueue
      <4>4. QED BY <4>1, <4>2, <4>3
    <3>2. SearchTyped'
      BY <1>0, <2>1 DEF Enters
    <3>3. pc' \in [Tasks -> {"idle", "waiting", "trying", "served", "failed", "cancelled"}]
            /\ got' \in [Tasks -> Sessions \cup {None}]
      <4>1. /\ pc' \in {[pc EXCEPT ![t] = "served"], [pc EXCEPT ![t] = "trying"]}
            /\ got' \in {got, [got EXCEPT ![t] = slot]}
        BY <2>1, Zenon DEF Enters, Takes
      <4>2. pc' \in [Tasks -> {"idle", "waiting", "trying", "served", "failed", "cancelled"}]
        BY <4>1
      <4>3. got' \in [Tasks -> Sessions \cup {None}]
        BY <4>1
      <4>4. QED BY <4>2, <4>3
    <3>4. UNCHANGED <<world, conn, at, slot, last, report>>
      BY <2>1 DEF Enters
    <3>5. QED BY <3>1, <3>2, <3>3, <3>4 DEF world, SearchTyped
  <2>2. CASE Advances(t)
    BY <2>2 DEF Advances, world
  <2>3. CASE Connects(t)
    <3>1. Head(order) \in Addresses
      BY <2>3, TailQueue DEF Connects, Trying
    <3>2. SearchTyped'
      BY <1>0, <2>3 DEF Connects
    <3>3. queue' \in Seq(Tasks)
      BY <2>3, TailQueue DEF Connects, Trying, Takes, HolderConnects
    <3>4. QED BY <2>3, <3>1, <3>2, <3>3 DEF Connects, Takes, Unused, world, SearchTyped
  <2>4. CASE FailsAt(t)
    <3>1. Tail(order) \in Seq(Addresses) /\ Head(order) \in Addresses
      BY <2>4, TailQueue DEF FailsAt, Trying
    <3>2. PICK f \in Failures : /\ failure' = Keeps(failure, f)
                                /\ seen' = Append(seen, <<Head(order), f>>)
      BY <2>4 DEF FailsAt, FailsWith
    <3>3. seen' \in Seq(Addresses \X Failures)
      BY <3>1, <3>2, AppendQueue
    <3>4. failure' \in Failures \cup {"none"}
      BY <3>2 DEF Keeps
    <3>5. order' \in Seq(Addresses) /\ stage' \in 1 .. 4
      BY <2>4, <3>1 DEF FailsAt
    <3>6. broken' \in BOOLEAN
      BY <2>4, Zenon DEF FailsAt
    <3>7. UNCHANGED <<world, conn, at, slot, last, queue, pc, got, report>>
      BY <2>4 DEF FailsAt
    <3>8. QED BY <3>3, <3>4, <3>5, <3>6, <3>7 DEF world
  <2>5. CASE GivesUp(t)
    <3>1. SearchTyped'
      BY <1>0, <2>5 DEF GivesUp
    <3>2. queue' \in Seq(Tasks)
      BY <2>5, TailQueue DEF GivesUp, HolderConnects
    <3>3. QED BY <2>5, <3>1, <3>2 DEF GivesUp, world, SearchTyped
  <2>6. QED BY <1>4, <2>1, <2>2, <2>3, <2>4, <2>5 DEF Attempt
<1>5. ASSUME NEW t \in Tasks, Cancel(t) PROVE TypeOK'
  <2>1. queue' \in Seq(Tasks)
    <3>1. PICK k \in DOMAIN queue :
            queue' = [i \in 1 .. Len(queue) - 1 |-> queue[IF i < k THEN i ELSE i + 1]]
      BY <1>5 DEF Cancel, Leaves
    <3>2. queue' \in [1 .. Len(queue) - 1 -> Tasks]
      BY <3>1
    <3>3. QED BY <3>1, <3>2
  <2>2. SearchTyped'
    BY <1>0, <1>5 DEF Cancel
  <2>3. QED BY <1>5, <2>1, <2>2 DEF Cancel, world, SearchTyped
<1>6. CASE UNCHANGED vars
  BY <1>6 DEF vars, world, search
<1>7. QED BY <1>1, <1>2, <1>3, <1>4, <1>5, <1>6 DEF Next

-----------------------------------------------------------------------------
(* The mutex and the session it guards *)

Guarded == SlotHoldsLive /\ HolderConnects /\ QueueIsTidy

(* Whoever hands the mutex on was the only call that could be connecting. *)
LEMMA HandOver ==
  ASSUME TypeOK, HolderConnects, QueueIsTidy,
         NEW t \in Tasks, queue # <<>>, Head(queue) = t, queue' = Tail(queue),
         NEW to \in {"served", "failed"}, pc' = [pc EXCEPT ![t] = to]
  PROVE  (\A u \in Tasks : pc'[u] # "trying") /\ QueueIsTidy'
<1>1. \A u \in Tasks : pc'[u] # "trying"
  BY DEF TypeOK, HolderConnects
<1>2. /\ queue \in Seq(Tasks) /\ Head(queue) = queue[1] /\ 1 \in DOMAIN queue
      /\ DOMAIN queue' = 1 .. (Len(queue) - 1)
      /\ \A i \in DOMAIN queue' : i + 1 \in DOMAIN queue /\ queue'[i] = queue[i + 1]
  BY TailQueue DEF TypeOK
<1>3. \A i, j \in DOMAIN queue' : queue'[i] = queue'[j] => i = j
  <2> TAKE i, j \in DOMAIN queue'
  <2> HAVE queue'[i] = queue'[j]
  <2>1. i + 1 \in DOMAIN queue /\ j + 1 \in DOMAIN queue /\ queue[i + 1] = queue[j + 1]
    BY <1>2
  <2>2. i + 1 = j + 1
    BY <2>1 DEF QueueIsTidy
  <2>3. i \in Int /\ j \in Int
    BY <1>2
  <2>4. QED BY <2>2, <2>3
<1>4. \A i \in DOMAIN queue' : pc'[queue'[i]] \in {"waiting", "trying"}
  <2> TAKE i \in DOMAIN queue'
  <2>1. i + 1 \in DOMAIN queue /\ queue'[i] = queue[i + 1] /\ i \in Nat \ {0}
    BY <1>2
  <2>2. queue[i + 1] # queue[1]
    BY <1>2, <2>1 DEF QueueIsTidy
  <2>3. queue[i + 1] \in Tasks /\ queue[i + 1] # t
    BY <1>2, <2>1, <2>2
  <2>4. QED BY <2>1, <2>3 DEF TypeOK, QueueIsTidy
<1>5. QED BY <1>1, <1>3, <1>4 DEF QueueIsTidy

(* Nothing that leaves the mutex alone and only closes sessions disturbs it. *)
LEMMA Closing ==
  ASSUME TypeOK, Guarded, UNCHANGED <<slot, queue, pc>>,
         \A n \in Sessions : Live(n)' => Live(n),
         \A n \in Sessions : conn[n] = "closed" => conn'[n] = "closed"
  PROVE  Guarded'
<1>1. SlotHoldsLive'
  BY DEF Guarded, SlotHoldsLive
<1>2. HolderConnects'
  BY DEF Guarded, HolderConnects, Usable, TypeOK
<1>3. QueueIsTidy'
  BY DEF Guarded, QueueIsTidy
<1>4. QED BY <1>1, <1>2, <1>3 DEF Guarded

LEMMA GuardedStep == TypeOK /\ Guarded /\ [Next]_vars => Guarded'
<1> SUFFICES ASSUME TypeOK, Guarded, [Next]_vars PROVE Guarded'
  OBVIOUS
<1>1. ASSUME NEW p \in Addresses, Changes(p) PROVE Guarded'
  <2>1. \A n \in Sessions : (Live(n)' => Live(n)) /\ (conn[n] = "closed" => conn'[n] = "closed")
    BY <1>1 DEF Changes, Live, TypeOK
  <2>2. UNCHANGED <<slot, queue, pc>>
    BY <1>1 DEF Changes
  <2>3. QED BY <2>1, <2>2, Closing
<1>2. ASSUME NEW n \in Sessions, Notices(n) PROVE Guarded'
  <2>1. \A m \in Sessions : (Live(m)' => Live(m)) /\ (conn[m] = "closed" => conn'[m] = "closed")
    BY <1>2 DEF Notices, Live, TypeOK
  <2>2. UNCHANGED <<slot, queue, pc>>
    BY <1>2 DEF Notices
  <2>3. QED BY <2>1, <2>2, Closing
<1>3. ASSUME NEW t \in Tasks, Asks(t) PROVE Guarded'
  <2>1. /\ queue \in Seq(Tasks) /\ queue' = Append(queue, t)
        /\ pc' = [pc EXCEPT ![t] = "waiting"] /\ pc[t] = "idle" /\ pc \in [Tasks -> {"idle", "waiting", "trying", "served", "failed", "cancelled"}]
    BY <1>3 DEF Asks, TypeOK
  <2>2. \A i \in DOMAIN queue : queue[i] \in Tasks /\ queue[i] # t
    BY <2>1 DEF Guarded, QueueIsTidy
  <2>3. QueueIsTidy'
    <3>1. \A i, j \in DOMAIN queue' : queue'[i] = queue'[j] => i = j
      BY <2>1, <2>2, AppendQueue DEF Guarded, QueueIsTidy
    <3>2. \A i \in DOMAIN queue' : pc'[queue'[i]] \in {"waiting", "trying"}
      BY <2>1, <2>2, AppendQueue DEF Guarded, QueueIsTidy
    <3>3. QED BY <3>1, <3>2 DEF QueueIsTidy
  <2>4. queue # <<>> => queue' # <<>> /\ Head(queue') = Head(queue)
    BY <2>1
  <2>5. HolderConnects'
    <3>1. UNCHANGED <<slot, conn>>
      BY <1>3 DEF Asks
    <3>2. QED BY <2>1, <2>4, <3>1 DEF Guarded, HolderConnects, Usable
  <2>6. SlotHoldsLive'
    BY <1>3 DEF Asks, Guarded, SlotHoldsLive, Live
  <2>7. QED BY <2>3, <2>5, <2>6 DEF Guarded
<1>4. ASSUME NEW t \in Tasks, Attempt(t) PROVE Guarded'
  <2>1. CASE Enters(t)
    <3>1. SlotHoldsLive'
      BY <2>1 DEF Enters, Guarded, SlotHoldsLive, Live
    <3>2. CASE Usable(slot)
      <4>1. queue # <<>> /\ Head(queue) = t /\ queue' = Tail(queue) /\ pc' = [pc EXCEPT ![t] = "served"]
        BY <2>1, <3>2 DEF Enters, Takes
      <4>2. (\A u \in Tasks : pc'[u] # "trying") /\ QueueIsTidy'
        BY <4>1, HandOver DEF Guarded
      <4>3. QED BY <3>1, <4>2 DEF Guarded, HolderConnects
    <3>3. CASE ~Usable(slot)
      <4>1. /\ queue # <<>> /\ Head(queue) = t /\ pc[t] = "waiting" /\ pc' = [pc EXCEPT ![t] = "trying"]
            /\ UNCHANGED <<queue, conn, slot>>
        BY <2>1, <3>3 DEF Enters
      <4>2. QueueIsTidy'
        BY <4>1 DEF Guarded, QueueIsTidy, TypeOK
      <4>3. HolderConnects'
        BY <3>3, <4>1 DEF Guarded, HolderConnects, Usable, TypeOK
      <4>4. QED BY <3>1, <4>2, <4>3 DEF Guarded
    <3>4. QED BY <3>2, <3>3
  <2>2. CASE Advances(t)
    BY <2>2, Closing DEF Advances, Live
  <2>3. CASE Connects(t)
    <3>1. queue # <<>> /\ Head(queue) = t /\ ~Usable(slot)
      BY <2>3 DEF Connects, Trying, Guarded, HolderConnects
    <3>2. queue' = Tail(queue) /\ pc' = [pc EXCEPT ![t] = "served"]
      BY <2>3 DEF Connects, Takes
    <3>3. (\A u \in Tasks : pc'[u] # "trying") /\ QueueIsTidy'
      BY <3>1, <3>2, HandOver DEF Guarded
    <3>4. SlotHoldsLive'
      <4>1. \A n \in Sessions : ~Live(n)
        BY <3>1 DEF Guarded, SlotHoldsLive, Live, Usable, Sessions, None
      <4>2. PICK n \in Unused : conn' = [conn EXCEPT ![n] = "open"] /\ slot' = n
        BY <2>3 DEF Connects
      <4>3. QED BY <4>1, <4>2 DEF SlotHoldsLive, Live, Unused, TypeOK
    <3>5. QED BY <3>3, <3>4 DEF Guarded, HolderConnects
  <2>4. CASE FailsAt(t)
    BY <2>4, Closing DEF FailsAt, Live
  <2>5. CASE GivesUp(t)
    <3>1. queue # <<>> /\ Head(queue) = t
      BY <2>5 DEF GivesUp, Guarded, HolderConnects
    <3>2. queue' = Tail(queue) /\ pc' = [pc EXCEPT ![t] = "failed"]
      BY <2>5 DEF GivesUp
    <3>3. (\A u \in Tasks : pc'[u] # "trying") /\ QueueIsTidy'
      BY <3>1, <3>2, HandOver DEF Guarded
    <3>4. SlotHoldsLive'
      BY <2>5 DEF GivesUp, Guarded, SlotHoldsLive, Live
    <3>5. QED BY <3>3, <3>4 DEF Guarded, HolderConnects
  <2>6. QED BY <1>4, <2>1, <2>2, <2>3, <2>4, <2>5 DEF Attempt
<1>5. ASSUME NEW t \in Tasks, Cancel(t) PROVE Guarded'
  <2>1. /\ Leaves(t) /\ pc' = [pc EXCEPT ![t] = "cancelled"] /\ UNCHANGED <<conn, slot>>
    BY <1>5 DEF Cancel
  <2>2. /\ \A i, j \in DOMAIN queue' : queue'[i] = queue'[j] => i = j
        /\ \A i \in DOMAIN queue' : queue'[i] # t /\ \E j \in DOMAIN queue : queue'[i] = queue[j]
        /\ queue # <<>> /\ Head(queue) # t => queue' # <<>> /\ Head(queue') = Head(queue)
        /\ queue' \in Seq(Tasks)
    BY <2>1, LeavesQueue DEF Guarded
  <2>3. QueueIsTidy'
    <3>1. \A i \in DOMAIN queue' : pc'[queue'[i]] \in {"waiting", "trying"}
      BY <2>1, <2>2 DEF Guarded, QueueIsTidy, TypeOK
    <3>2. QED BY <2>2, <3>1 DEF QueueIsTidy
  <2>4. HolderConnects'
    <3>1. \A u \in Tasks : pc'[u] = "trying" => u # t /\ pc[u] = "trying"
      BY <2>1 DEF TypeOK
    <3>2. QED BY <2>1, <2>2, <3>1 DEF Guarded, HolderConnects, Usable
  <2>5. SlotHoldsLive'
    BY <2>1 DEF Guarded, SlotHoldsLive, Live
  <2>6. QED BY <2>3, <2>4, <2>5 DEF Guarded
<1>6. CASE UNCHANGED vars
  BY <1>6, Closing DEF vars, Live
<1>7. QED BY <1>1, <1>2, <1>3, <1>4, <1>5, <1>6 DEF Next

-----------------------------------------------------------------------------
(* The search for Packet Tracer *)

LEMMA RestartIsFair == ASSUME TypeOK, Restart(Order) PROVE EachOnce' /\ Telling'
<1> DEFINE with == Order
<1>1. with \in Seq(Addresses) /\ Len(with) = Ports /\ \A p \in Addresses : \E j \in DOMAIN with : with[j] = p
  BY OrderCovers DEF TypeOK
<1>2. order' = with /\ seen' = <<>> /\ failure' = "none"
  BY DEF Restart
<1> HIDE DEF with
<1>3. QED BY <1>1, <1>2, ConnectionAssumption DEF EachOnce, Telling, Addresses

(* One more address has been seen to fail, and one fewer is left. *)
LEMMA FailsFairly ==
  ASSUME TypeOK, EachOnce, Telling, NEW t \in Tasks, FailsAt(t)
  PROVE  EachOnce' /\ Telling'
<1>1. PICK f \in Failures :
        /\ failure' = Keeps(failure, f) /\ seen' = Append(seen, <<Head(order), f>>)
        /\ order' = Tail(order) /\ order # <<>>
  BY DEF FailsAt, FailsWith, Trying
<1>2. /\ order \in Seq(Addresses) /\ Head(order) = order[1] /\ Head(order) \in Addresses
      /\ Len(order') = Len(order) - 1 /\ DOMAIN order' = 1 .. (Len(order) - 1)
      /\ DOMAIN order = 1 .. Len(order) /\ Len(order) \in Nat
      /\ \A j \in DOMAIN order' : order'[j] = order[j + 1]
  BY <1>1, TailQueue DEF TypeOK
<1> DEFINE x == <<Head(order), f>>
<1>3. /\ Len(seen') = Len(seen) + 1 /\ Len(seen) \in Nat
      /\ DOMAIN seen' = DOMAIN seen \cup {Len(seen) + 1}
      /\ seen'[Len(seen) + 1] = x
      /\ \A i \in DOMAIN seen : seen'[i] = seen[i]
      /\ seen' # <<>>
      /\ \A i \in DOMAIN seen : seen[i] \in Addresses \X Failures
  <2>1. x \in Addresses \X Failures /\ seen \in Seq(Addresses \X Failures)
    BY <1>2 DEF TypeOK
  <2>2. seen' = Append(seen, x)
    BY <1>1
  <2> HIDE DEF x
  <2>3. QED BY <2>1, <2>2, AppendQueue
<1>4. x[1] = order[1] /\ x[2] = f
  BY <1>2
<1> HIDE DEF x
<1>5. EachOnce'
  <2>1. Len(seen') + Len(order') = Ports
    <3>1. Len(seen) + Len(order) = Ports
      BY DEF EachOnce
    <3>2. Len(seen') = Len(seen) + 1 /\ Len(order') = Len(order) - 1
      BY <1>2, <1>3
    <3>3. Len(seen) \in Nat /\ Len(order) \in Nat
      BY <1>2, <1>3
    <3>4. QED BY <3>1, <3>2, <3>3
  <2>2. ASSUME NEW p \in Addresses
        PROVE  (\E i \in DOMAIN seen' : seen'[i][1] = p) \/ (\E j \in DOMAIN order' : order'[j] = p)
    <3>1. CASE \E i \in DOMAIN seen : seen[i][1] = p
      BY <1>3, <3>1
    <3>2. CASE \E j \in DOMAIN order : order[j] = p
      <4>1. PICK j \in 1 .. Len(order) : order[j] = p
        BY <1>2, <3>2
      <4>2. CASE j = 1
        BY <1>3, <1>4, <4>1, <4>2
      <4>3. CASE j # 1
        <5>1. j - 1 \in DOMAIN order' /\ order'[j - 1] = order[(j - 1) + 1] /\ (j - 1) + 1 = j
          BY <1>2, <4>1, <4>3
        <5>2. QED BY <4>1, <5>1
      <4>4. QED BY <4>2, <4>3
    <3>3. QED BY <3>1, <3>2 DEF EachOnce
  <2>3. QED BY <2>1, <2>2 DEF EachOnce
<1>6. Telling'
  <2>1. CASE seen = <<>>
    <3>1. failure' = f /\ DOMAIN seen' = {Len(seen) + 1}
      BY <1>1, <1>3, <2>1 DEF Telling, Keeps
    <3>2. Rank(f) <= Rank(f)
      BY DEF Rank, Failures
    <3>3. QED BY <1>3, <1>4, <3>1, <3>2 DEF Telling, Rank
  <2>2. CASE seen # <<>>
    <3>1. PICK k \in DOMAIN seen : seen[k][2] = failure
      BY <2>2 DEF Telling
    <3>2. failure \in Failures
      BY <1>3, <3>1
    <3> DEFINE best == failure'
    <3>3. best \in {failure, f} /\ Rank(best) <= Rank(failure) /\ Rank(best) <= Rank(f)
      BY <1>1, <3>2, KeepsBest
    <3>4. \A g \in Failures : Rank(g) \in Int
      BY DEF Rank, Failures
    <3>5. \A i \in DOMAIN seen' : Rank(best) <= Rank(seen'[i][2])
      <4> TAKE i \in DOMAIN seen'
      <4>1. CASE i = Len(seen) + 1
        BY <1>3, <1>4, <3>3, <4>1
      <4>2. CASE i \in DOMAIN seen
        <5>1. seen'[i][2] = seen[i][2] /\ seen[i][2] \in Failures /\ Rank(failure) <= Rank(seen[i][2])
          BY <1>3, <2>2, <4>2 DEF Telling
        <5>2. Rank(best) \in Int /\ Rank(failure) \in Int /\ Rank(seen[i][2]) \in Int
          BY <3>2, <3>3, <3>4, <5>1
        <5>3. QED BY <3>3, <5>1, <5>2
      <4>3. QED BY <1>3, <4>1, <4>2
    <3>6. \E i \in DOMAIN seen' : seen'[i][2] = best
      BY <1>3, <1>4, <3>1, <3>3
    <3>7. QED BY <1>3, <3>5, <3>6 DEF Telling, Rank
  <2>3. QED BY <2>1, <2>2
<1>7. QED BY <1>5, <1>6

LEMMA SearchStep ==
  TypeOK /\ Guarded /\ SearchIsFair /\ [Next]_vars => SearchIsFair'
<1> SUFFICES ASSUME TypeOK, Guarded, SearchIsFair, [Next]_vars,
                    NEW u \in Tasks, pc'[u] = "trying"
             PROVE  EachOnce' /\ Telling'
  BY DEF SearchIsFair
<1>1. ASSUME UNCHANGED <<order, seen, failure>>, pc[u] = "trying" PROVE EachOnce' /\ Telling'
  BY <1>1 DEF SearchIsFair, EachOnce, Telling, Rank
<1>2. ASSUME NEW p \in Addresses, Changes(p) PROVE EachOnce' /\ Telling'
  BY <1>1, <1>2 DEF Changes
<1>3. ASSUME NEW n \in Sessions, Notices(n) PROVE EachOnce' /\ Telling'
  BY <1>1, <1>3 DEF Notices, search
<1>4. ASSUME NEW t \in Tasks, Asks(t) PROVE EachOnce' /\ Telling'
  <2>1. pc[u] = "trying" /\ UNCHANGED search
    BY <1>4 DEF Asks, TypeOK
  <2>2. QED BY <1>1, <2>1 DEF search
<1>5. ASSUME NEW t \in Tasks, Attempt(t) PROVE EachOnce' /\ Telling'
  <2>1. CASE Enters(t)
    <3>1. CASE Usable(slot)
      <4>1. pc[u] = "trying" /\ UNCHANGED search
        BY <2>1, <3>1 DEF Enters, Takes, TypeOK
      <4>2. QED BY <1>1, <4>1 DEF search
    <3>2. CASE ~Usable(slot)
      BY <2>1, <3>2, RestartIsFair DEF Enters
    <3>3. QED BY <3>1, <3>2
  <2>2. CASE Advances(t)
    BY <1>1, <2>2 DEF Advances
  <2>3. CASE Connects(t)
    <3>1. pc' = [pc EXCEPT ![t] = "served"] /\ pc[t] = "trying"
      BY <2>3 DEF Connects, Takes, Trying
    <3>2. u # t /\ pc[u] = "trying"
      BY <3>1 DEF TypeOK
    <3>3. QED BY <3>1, <3>2 DEF Guarded, HolderConnects
  <2>4. CASE FailsAt(t)
    <3>1. pc[u] = "trying"
      BY <2>4 DEF FailsAt
    <3>2. QED BY <2>4, <3>1, FailsFairly DEF SearchIsFair
  <2>5. CASE GivesUp(t)
    BY <2>5 DEF GivesUp, Guarded, HolderConnects, TypeOK
  <2>6. QED BY <1>5, <2>1, <2>2, <2>3, <2>4, <2>5 DEF Attempt
<1>6. ASSUME NEW t \in Tasks, Cancel(t) PROVE EachOnce' /\ Telling'
  <2>1. pc[u] = "trying" /\ u # t
    BY <1>6 DEF Cancel, TypeOK
  <2>2. pc[t] = "waiting"
    BY <1>6, <2>1 DEF Cancel, Guarded, HolderConnects
  <2>3. QED BY <1>1, <1>6, <2>1, <2>2 DEF Cancel, search
<1>7. CASE UNCHANGED vars
  BY <1>1, <1>7 DEF vars, search
<1>8. QED BY <1>2, <1>3, <1>4, <1>5, <1>6, <1>7 DEF Next

-----------------------------------------------------------------------------
(* What calls that failed report *)

Reported == TriesEachOnce /\ MostTelling

LEMMA ReportedStep ==
  TypeOK /\ Guarded /\ SearchIsFair /\ Reported /\ [Next]_vars => Reported'
<1> DEFINE Told(n, tried) ==
      /\ Len(tried) = Ports /\ \A p \in Addresses : \E i \in DOMAIN tried : tried[i][1] = p
      /\ \E i \in DOMAIN tried : tried[i][2] = n
      /\ \A i \in DOMAIN tried : Rank(n) <= Rank(tried[i][2])
<1> SUFFICES ASSUME TypeOK, Guarded, SearchIsFair, Reported, [Next]_vars,
                    NEW u \in Tasks, pc'[u] = "failed"
             PROVE  Told(report'[u].failure, report'[u].seen)
  BY DEF Reported, TriesEachOnce, MostTelling, Tried, Rank
<1>1. ASSUME pc[u] = "failed", report'[u] = report[u]
      PROVE  Told(report'[u].failure, report'[u].seen)
  BY <1>1 DEF Reported, TriesEachOnce, MostTelling, Tried
<1>2. CASE GivesUp(u)
  <2>1. pc[u] = "trying" /\ order = <<>> /\ report'[u].failure = failure /\ report'[u].seen = seen
    BY <1>2 DEF GivesUp, TypeOK
  <2>2. EachOnce /\ Telling
    BY <2>1 DEF SearchIsFair
  <2>3. Len(seen) \in Nat /\ Len(seen) = Ports /\ \A p \in Addresses : \E i \in DOMAIN seen : seen[i][1] = p
    BY <2>1, <2>2 DEF EachOnce, TypeOK
  <2>4. seen # <<>>
    BY <2>3, ConnectionAssumption
  <2>5. Told(failure, seen)
    BY <2>2, <2>3, <2>4 DEF Telling
  <2>6. QED BY <2>1, <2>5
<1>3. CASE ~GivesUp(u)
  <2>1. pc[u] = "failed" /\ report'[u] = report[u]
    <3>1. ASSUME NEW p \in Addresses, Changes(p) PROVE pc' = pc /\ report' = report
      BY <3>1 DEF Changes
    <3>2. ASSUME NEW n \in Sessions, Notices(n) PROVE pc' = pc /\ report' = report
      BY <3>2 DEF Notices
    <3>3. ASSUME NEW t \in Tasks, Asks(t) \/ Cancel(t) PROVE pc[u] = "failed" /\ report' = report
      BY <3>3 DEF Asks, Cancel, TypeOK
    <3>4. ASSUME NEW t \in Tasks, Attempt(t) PROVE pc[u] = "failed" /\ report'[u] = report[u]
      <4>1. CASE Enters(t) \/ Advances(t) \/ Connects(t) \/ FailsAt(t)
        BY <4>1 DEF Enters, Advances, Connects, FailsAt, Takes, TypeOK
      <4>2. CASE GivesUp(t)
        <5>1. t # u
          BY <1>3, <4>2
        <5>2. QED BY <4>2, <5>1 DEF GivesUp, TypeOK
      <4>3. QED BY <3>4, <4>1, <4>2 DEF Attempt
    <3>5. UNCHANGED vars => pc' = pc /\ report' = report
      BY DEF vars
    <3>6. QED BY <3>1, <3>2, <3>3, <3>4, <3>5 DEF Next
  <2>2. QED BY <1>1, <2>1
<1>4. QED BY <1>2, <1>3

-----------------------------------------------------------------------------
(* The theorems *)

(* The invariant holds initially, before any call has asked for the session. *)
LEMMA InductiveInit == Init => Inductive
<1> SUFFICES ASSUME Init PROVE Inductive
  OBVIOUS
<1> USE ConnectionAssumption DEF Init
<1>1. TypeOK
  <2>1. <<>> \in Seq(Tasks) /\ <<>> \in Seq(Addresses) /\ <<>> \in Seq(Addresses \X Failures)
    OBVIOUS
  <2>2. report \in [Tasks -> [failure : Failures \cup {"none"}, seen : Seq(Addresses \X Failures)]]
    BY <2>1
  <2>3. order \in Seq(Addresses) /\ stage \in 1 .. 4 /\ seen \in Seq(Addresses \X Failures) /\ queue \in Seq(Tasks)
    BY <2>1
  <2>4. broken \in BOOLEAN
    BY Zenon
  <2>5. changes \in 0 .. MaxChanges
    OBVIOUS
  <2>6. QED BY <2>2, <2>3, <2>4, <2>5 DEF TypeOK
<1>2. SlotHoldsLive /\ HolderConnects /\ QueueIsTidy
  BY DEF SlotHoldsLive, Live, HolderConnects, QueueIsTidy
<1>3. SearchIsFair /\ TriesEachOnce /\ MostTelling
  BY DEF SearchIsFair, TriesEachOnce, MostTelling
<1>4. QED BY <1>1, <1>2, <1>3 DEF Inductive

(* The mutex, the slot, the search and the reports keep in step, whatever happens. *)
THEOREM InductiveHolds == Safety => []Inductive
<1>1. Init => Inductive
  BY InductiveInit
<1>2. Inductive /\ [Next]_vars => Inductive'
  BY TypeStep, GuardedStep, SearchStep, ReportedStep DEF Inductive, Guarded, Reported
<1>3. QED BY <1>1, <1>2, PTL DEF Safety

(* LivePacketTracer holds at most one session that stands. *)
THEOREM OneSessionHolds == Safety => []OneSession
<1>1. Inductive => OneSession
  BY DEF Inductive, SlotHoldsLive, OneSession
<1>2. QED BY <1>1, InductiveHolds, PTL

(* Calls whose session stands have the one in the slot. *)
THEOREM SessionIsShared == Safety => []SharedSession
<1>1. Inductive => SharedSession
  BY DEF Inductive, TypeOK, SlotHoldsLive, SharedSession
<1>2. QED BY <1>1, InductiveHolds, PTL

(* A call that fails has tried every address, and none of them twice. *)
THEOREM EveryAddressTried == Safety => []TriesEachOnce
<1>1. Inductive => TriesEachOnce
  BY DEF Inductive
<1>2. QED BY <1>1, InductiveHolds, PTL

(* A call that fails reports the most telling of the failures it met. *)
THEOREM FailureIsTold == Safety => []MostTelling
<1>1. Inductive => MostTelling
  BY DEF Inductive
<1>2. QED BY <1>1, InductiveHolds, PTL

(* Every variable keeps to its type. *)
THEOREM TypesHold == Safety => []TypeOK
<1>1. Inductive => TypeOK
  BY DEF Inductive
<1>2. QED BY <1>1, InductiveHolds, PTL
==============================================================================

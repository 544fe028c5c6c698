----------------------------- MODULE PtmpSession -----------------------------
(***************************************************************************)
(* One PTMP session after the handshake: the calls that share it, the      *)
(* writer task, the reader task, the pending-calls table they all touch,   *)
(* and Packet Tracer at the other end of the socket.                       *)
(*                                                                         *)
(* A call is one execution of Session::call; each one runs once.  Its      *)
(* steps interleave with the two tasks at every point where they touch     *)
(* shared state: the table, the closed flag, the outbound queue and the    *)
(* oneshot slot the answer arrives in.                                     *)
(***************************************************************************)
EXTENDS Integers, Sequences

CONSTANTS
  Calls,     \* the executions of Session::call
  NoCall,    \* no call
  IdSpace,   \* how many ids there are before next_id wraps (2^32 in the code)
  Window,    \* bound: frames the socket takes before a write blocks
  MaxNoise   \* bound: messages that belong to no call, in either direction

ASSUME SessionAssumption ==
  /\ NoCall \notin Calls
  /\ IdSpace \in Nat \ {0}
  /\ Window \in Nat \ {0}
  /\ MaxNoise \in Nat

VARIABLES
  pc,         \* where each call stands in Session::call
  id,         \* the id each call drew
  reply,      \* the oneshot slot of each call
  outcome,    \* what each call returned
  pending,    \* the pending table: which call waits under each id
  nextId,     \* the id counter
  closed,     \* the closed flag
  queue,      \* the outbound queue
  queueOpen,  \* the queue's receiver still exists
  permit,     \* the stored permit of `stopped`
  writer,     \* where write_loop stands
  writing,    \* the message write_loop is sending, if any
  reader,     \* where read_loop stands
  closer,     \* where Session::close stands
  conn,       \* the connection as the two tasks see it: "open" or "gone"
  toPt,       \* frames written that Packet Tracer has not read
  backlog,    \* calls Packet Tracer has read and not answered
  fromPt,     \* frames Packet Tracer sent that read_loop has not read
  noise       \* messages so far that belong to no call

table == <<pending, nextId>>
calls == <<pc, id, reply, outcome>>
socket == <<conn, toPt, backlog, fromPt>>
vars == <<pc, id, reply, outcome, pending, nextId, closed, queue, queueOpen, permit,
          writer, writing, reader, closer, conn, toPt, backlog, fromPt, noise>>

Ids == 0 .. (IdSpace - 1)

(* Results of a call.  `of` is the call whose request an answer belongs to. *)
Nothing == [kind |-> "none"]
Closed == [kind |-> "closed"]
TimedOut == [kind |-> "timeout"]
Unframable == [kind |-> "unframable"]
Value(c) == [kind |-> "value", of |-> c]
Remote(c) == [kind |-> "remote", of |-> c]

Results == {Nothing, Closed, TimedOut, Unframable}
             \cup {Value(c) : c \in Calls} \cup {Remote(c) : c \in Calls}

(* Messages.  `call` is the request a message carries or answers. *)
AboutCall(kind, i, c) == [kind |-> kind, id |-> i, call |-> c]
Plain(kind) == [kind |-> kind, id |-> 0, call |-> NoCall]

CallKinds == {"call", "response", "error"}
CallMessages == [kind : CallKinds, id : Ids, call : Calls]
PlainMessages ==
  {Plain(k) : k \in {"disconnect", "keepalive", "subscribe", "event", "garbled", "corrupt"}}
NoMessage == Plain("none")
Messages == CallMessages \cup PlainMessages

Holds(s) == {s[j] : j \in DOMAIN s}

(* Every message about a call that is still somewhere between the two ends. *)
InFlight ==
  {m \in Holds(queue) \cup Holds(toPt) \cup Holds(fromPt) \cup backlog
         \cup {writing} : m.kind \in CallKinds}

Init ==
  /\ pc = [c \in Calls |-> "idle"]
  /\ id = [c \in Calls |-> 0]
  /\ reply = [c \in Calls |-> Nothing]
  /\ outcome = [c \in Calls |-> Nothing]
  /\ pending = [i \in Ids |-> NoCall]
  /\ nextId = 1 % IdSpace
  /\ closed = FALSE
  /\ queue = <<>> /\ queueOpen = TRUE
  /\ permit = FALSE
  /\ writer = "select" /\ writing = NoMessage
  /\ reader = "reading"
  /\ closer = "idle"
  /\ conn = "open" /\ toPt = <<>> /\ backlog = {} /\ fromPt = <<>>
  /\ noise = 0

-----------------------------------------------------------------------------
(* Session::call *)

(***************************************************************************)
(* Bound: ids wrap, but one comes round again only after everything about  *)
(* its previous holder is settled.  In the code that takes 2^32 calls      *)
(* within one call timeout to break.                                       *)
(***************************************************************************)
IdIsFree ==
  /\ pending[nextId] = NoCall
  /\ \A m \in InFlight : m.id # nextId
  /\ \A c \in Calls : pc[c] \notin {"idle", "done", "cancelled"} => id[c] # nextId

(* Mutant: the counter does not wrap. *)
Register_NoWrap(c) ==
  /\ pc[c] = "idle" /\ IdIsFree
  /\ pc' = [pc EXCEPT ![c] = "registered"]
  /\ id' = [id EXCEPT ![c] = nextId]
  /\ pending' = [pending EXCEPT ![nextId] = c]
  /\ nextId' = nextId + 1
  /\ UNCHANGED <<reply, outcome, closed, queue, queueOpen, permit, writer, writing,
                 reader, closer, socket, noise>>

(* Drawing the id and inserting the oneshot sender: nobody can know the id before. *)
Register(c) ==
  /\ pc[c] = "idle" /\ IdIsFree
  /\ pc' = [pc EXCEPT ![c] = "registered"]
  /\ id' = [id EXCEPT ![c] = nextId]
  /\ pending' = [pending EXCEPT ![nextId] = c]
  /\ nextId' = (nextId + 1) % IdSpace
  /\ UNCHANGED <<reply, outcome, closed, queue, queueOpen, permit, writer, writing,
                 reader, closer, socket, noise>>

(* Mutant: a call does not look at the flag. *)
CheckClosed_Skipped(c) ==
  /\ pc[c] = "registered"
  /\ pc' = [pc EXCEPT ![c] = "checked"]
  /\ UNCHANGED <<id, reply, outcome, table, closed, queue, queueOpen, permit, writer,
                 writing, reader, closer, socket, noise>>

CheckClosed(c) ==
  /\ pc[c] = "registered"
  /\ pc' = [pc EXCEPT ![c] = IF closed THEN "refused" ELSE "checked"]
  /\ UNCHANGED <<id, reply, outcome, table, closed, queue, queueOpen, permit, writer,
                 writing, reader, closer, socket, noise>>

(* The send fails only when write_loop has dropped the receiver. *)
Enqueue(c) ==
  /\ pc[c] = "checked"
  /\ \/ /\ queueOpen
        /\ queue' = Append(queue, AboutCall("call", id[c], c))
        /\ pc' = [pc EXCEPT ![c] = "waiting"]
     \/ /\ ~queueOpen
        /\ pc' = [pc EXCEPT ![c] = "refused"]
        /\ UNCHANGED queue
  /\ UNCHANGED <<id, reply, outcome, table, closed, queueOpen, permit, writer, writing,
                 reader, closer, socket, noise>>

(* Returning also drops the receiver of the slot. *)
Finish(c, result) ==
  /\ pc' = [pc EXCEPT ![c] = "done"]
  /\ outcome' = [outcome EXCEPT ![c] = result]
  /\ reply' = [reply EXCEPT ![c] = Nothing]
  /\ UNCHANGED <<id, nextId, closed, queue, queueOpen, permit, writer, writing, reader,
                 closer, socket, noise>>

Refused(c) ==
  /\ pc[c] = "refused"
  /\ pending' = [pending EXCEPT ![id[c]] = NoCall]
  /\ Finish(c, Closed)

TakeReply(c) ==
  /\ pc[c] = "waiting" /\ reply[c] # Nothing
  /\ UNCHANGED pending
  /\ Finish(c, reply[c])

(* Mutant: a call waits as long as the connection stands. *)
Expire_OnlyWhenGone(c) ==
  /\ pc[c] = "waiting" /\ reply[c] = Nothing /\ conn = "gone"
  /\ pc' = [pc EXCEPT ![c] = "expired"]
  /\ UNCHANGED <<id, reply, outcome, table, closed, queue, queueOpen, permit, writer,
                 writing, reader, closer, socket, noise>>

(* tokio's timeout polls the reply first: it fires only while there is none. *)
Expire(c) ==
  /\ pc[c] = "waiting" /\ reply[c] = Nothing
  /\ pc' = [pc EXCEPT ![c] = "expired"]
  /\ UNCHANGED <<id, reply, outcome, table, closed, queue, queueOpen, permit, writer,
                 writing, reader, closer, socket, noise>>

(* Mutants: the entry of a call that timed out stays; every entry goes. *)
Forget_KeepsEntry(c) ==
  /\ pc[c] = "expired"
  /\ UNCHANGED pending
  /\ Finish(c, TimedOut)

Forget(c) ==
  /\ pc[c] = "expired"
  /\ pending' = [pending EXCEPT ![id[c]] = NoCall]
  /\ Finish(c, TimedOut)

(* The task awaiting the call is dropped (try_join! after a sibling failed). *)
Cancel(c) ==
  /\ pc[c] = "waiting"
  /\ pc' = [pc EXCEPT ![c] = "cancelled"]
  /\ UNCHANGED <<id, reply, outcome, table, closed, queue, queueOpen, permit, writer,
                 writing, reader, closer, socket, noise>>

-----------------------------------------------------------------------------
(* Shared::resolve and Shared::shut_down *)

(* Mutant: answers are matched with the calls in order, not by id. *)
Resolve_LowestEntry(i, result) ==
  LET listed == {j \in Ids : pending[j] # NoCall}
      j == CHOOSE j \in listed : \A k \in listed : j <= k
  IN IF listed = {} THEN UNCHANGED <<pending, reply>>
     ELSE /\ pending' = [pending EXCEPT ![j] = NoCall]
          /\ reply' = [reply EXCEPT ![pending[j]] = result]

(***************************************************************************)
(* Takes the entry out of the table and fills its slot; an id that is not  *)
(* there (a call that timed out) is ignored.  Only the task that took the  *)
(* sender out can fill the slot, so the two steps act as one.              *)
(***************************************************************************)
Resolve(i, result) ==
  /\ pending' = [pending EXCEPT ![i] = NoCall]
  /\ reply' = IF pending[i] = NoCall THEN reply
              ELSE [reply EXCEPT ![pending[i]] = result]

Drain ==
  /\ pending' = [i \in Ids |-> NoCall]
  /\ reply' = [c \in Calls |-> IF \E i \in Ids : pending[i] = c THEN Closed ELSE reply[c]]

Drained == writer \in {"notifying", "done"} \/ reader \in {"notifying", "done"}

-----------------------------------------------------------------------------
(* write_loop *)

(* A message that does not fit a frame is answered here and never written. *)
TakeOutbound ==
  /\ writer = "select" /\ queue # <<>>
  /\ queue' = Tail(queue)
  /\ \/ /\ writer' = "sending" /\ writing' = Head(queue)
        /\ UNCHANGED <<reply, pending>>
     \/ /\ Head(queue).kind = "call"
        /\ Resolve(Head(queue).id, Unframable)
        /\ UNCHANGED <<writer, writing>>
  /\ UNCHANGED <<pc, id, outcome, nextId, closed, queueOpen, permit, reader, closer,
                 socket, noise>>

(* select! picks either branch when both are ready. *)
TakeStop ==
  /\ writer = "select" /\ permit
  /\ permit' = FALSE /\ writer' = "closing"
  /\ UNCHANGED <<calls, table, closed, queue, queueOpen, writing, reader, closer,
                 socket, noise>>

(* A frame written to a connection that is gone is lost, with or without an error. *)
Written ==
  /\ writer = "sending"
  /\ \/ /\ conn = "open" /\ Len(toPt) < Window
        /\ toPt' = Append(toPt, writing)
     \/ /\ conn = "gone"
        /\ UNCHANGED toPt
  /\ writer' = IF writing.kind = "disconnect" THEN "closing" ELSE "select"
  /\ writing' = NoMessage
  /\ UNCHANGED <<calls, table, closed, queue, queueOpen, permit, reader, closer, conn,
                 backlog, fromPt, noise>>

WriteFails ==
  /\ writer = "sending" /\ conn = "gone"
  /\ writer' = "closing" /\ writing' = NoMessage
  /\ UNCHANGED <<calls, table, closed, queue, queueOpen, permit, reader, closer, socket,
                 noise>>

WriterCloses ==
  /\ writer = "closing"
  /\ closed' = TRUE /\ writer' = "draining"
  /\ UNCHANGED <<calls, table, queue, queueOpen, permit, writing, reader, closer, socket,
                 noise>>

WriterDrains ==
  /\ writer = "draining"
  /\ Drain /\ writer' = "notifying"
  /\ UNCHANGED <<pc, id, outcome, nextId, closed, queue, queueOpen, permit, writing,
                 reader, closer, socket, noise>>

(* The permit it leaves finds no one; then the receiver and the sink are dropped. *)
WriterEnds ==
  /\ writer = "notifying"
  /\ permit' = TRUE /\ writer' = "done"
  /\ queueOpen' = FALSE /\ queue' = <<>>
  /\ UNCHANGED <<calls, table, closed, writing, reader, closer, socket, noise>>

WriteLoop == TakeOutbound \/ TakeStop \/ Written \/ WriteFails
               \/ WriterCloses \/ WriterDrains \/ WriterEnds

-----------------------------------------------------------------------------
(* read_loop *)

Receive == /\ reader = "reading" /\ fromPt # <<>>
           /\ fromPt' = Tail(fromPt)

ReadAnswer ==
  /\ Receive
  /\ LET m == Head(fromPt) IN
       \/ m.kind = "response" /\ Resolve(m.id, Value(m.call))
       \/ m.kind = "error" /\ Resolve(m.id, Remote(m.call))
  /\ UNCHANGED <<pc, id, outcome, nextId, closed, queue, queueOpen, permit, writer,
                 writing, reader, closer, conn, toPt, backlog, noise>>

(* Events go to the broadcast channel; what cannot be parsed is skipped. *)
ReadSkipped ==
  /\ Receive
  /\ Head(fromPt).kind \in {"event", "garbled"}
  /\ UNCHANGED <<calls, table, closed, queue, queueOpen, permit, writer, writing, reader,
                 closer, conn, toPt, backlog, noise>>

ReadKeepAlive ==
  /\ Receive
  /\ Head(fromPt).kind = "keepalive"
  /\ queue' = IF queueOpen THEN Append(queue, Plain("keepalive")) ELSE queue
  /\ UNCHANGED <<calls, table, closed, queueOpen, permit, writer, writing, reader, closer,
                 conn, toPt, backlog, noise>>

(* A disconnect, or a frame that breaks the framing itself. *)
ReadLast ==
  /\ Receive
  /\ Head(fromPt).kind \in {"disconnect", "corrupt"}
  /\ reader' = "closing"
  /\ UNCHANGED <<calls, table, closed, queue, queueOpen, permit, writer, writing, closer,
                 conn, toPt, backlog, noise>>

(* End of stream after the last frame, or a reset that loses the rest. *)
ReadFails ==
  /\ reader = "reading" /\ conn = "gone"
  /\ reader' = "closing" /\ fromPt' = <<>>
  /\ UNCHANGED <<calls, table, closed, queue, queueOpen, permit, writer, writing, closer,
                 conn, toPt, backlog, noise>>

(* Mutant: the table is drained without raising the flag first. *)
ReaderCloses_NoFlag ==
  /\ reader = "closing"
  /\ reader' = "draining"
  /\ UNCHANGED <<calls, table, closed, queue, queueOpen, permit, writer, writing, closer,
                 socket, noise>>

ReaderCloses ==
  /\ reader = "closing"
  /\ closed' = TRUE /\ reader' = "draining"
  /\ UNCHANGED <<calls, table, queue, queueOpen, permit, writer, writing, closer, socket,
                 noise>>

ReaderDrains ==
  /\ reader = "draining"
  /\ Drain /\ reader' = "notifying"
  /\ UNCHANGED <<pc, id, outcome, nextId, closed, queue, queueOpen, permit, writer,
                 writing, closer, socket, noise>>

(* Mutant: the reader does not wake the writer. *)
ReaderEnds_NoWake ==
  /\ reader = "notifying"
  /\ reader' = "done"
  /\ UNCHANGED <<calls, table, closed, queue, queueOpen, permit, writer, writing, closer,
                 socket, noise>>

ReaderEnds ==
  /\ reader = "notifying"
  /\ permit' = TRUE /\ reader' = "done"
  /\ UNCHANGED <<calls, table, closed, queue, queueOpen, writer, writing, closer, socket,
                 noise>>

ReadLoop == ReadAnswer \/ ReadSkipped \/ ReadKeepAlive \/ ReadLast \/ ReadFails
              \/ ReaderCloses \/ ReaderDrains \/ ReaderEnds

-----------------------------------------------------------------------------
(* Session::close and Session::subscribe *)

Close ==
  \/ /\ closer = "idle"
     /\ closer' = "sent"
     /\ queue' = IF queueOpen THEN Append(queue, Plain("disconnect")) ELSE queue
     /\ UNCHANGED <<calls, table, closed, queueOpen, permit, writer, writing, reader,
                    socket, noise>>
  \/ /\ closer = "sent"
     /\ closer' = "done" /\ closed' = TRUE
     /\ UNCHANGED <<calls, table, queue, queueOpen, permit, writer, writing, reader,
                    socket, noise>>

Subscribe ==
  /\ queueOpen /\ noise < MaxNoise
  /\ queue' = Append(queue, Plain("subscribe")) /\ noise' = noise + 1
  /\ UNCHANGED <<calls, table, closed, queueOpen, permit, writer, writing, reader, closer,
                 socket>>

-----------------------------------------------------------------------------
(* Packet Tracer, as the session sees it: answers in any order, or never. *)

PtReads ==
  /\ conn = "open" /\ toPt # <<>>
  /\ toPt' = Tail(toPt)
  /\ backlog' = IF Head(toPt).kind = "call" THEN backlog \cup {Head(toPt)} ELSE backlog
  /\ UNCHANGED <<calls, table, closed, queue, queueOpen, permit, writer, writing, reader,
                 closer, conn, fromPt, noise>>

PtAnswers ==
  /\ conn = "open"
  /\ \E m \in backlog :
       /\ backlog' = backlog \ {m}
       /\ \E kind \in {"response", "error"} :
            fromPt' = Append(fromPt, AboutCall(kind, m.id, m.call))
  /\ UNCHANGED <<calls, table, closed, queue, queueOpen, permit, writer, writing, reader,
                 closer, conn, toPt, noise>>

PtSpeaks ==
  /\ conn = "open" /\ noise < MaxNoise
  /\ \E kind \in {"event", "garbled", "keepalive", "disconnect", "corrupt"} :
       fromPt' = Append(fromPt, Plain(kind))
  /\ noise' = noise + 1
  /\ UNCHANGED <<calls, table, closed, queue, queueOpen, permit, writer, writing, reader,
                 closer, conn, toPt, backlog>>

(* Packet Tracer closes the connection, crashes, or the network drops it. *)
PtGoes ==
  /\ conn = "open"
  /\ conn' = "gone" /\ toPt' = <<>> /\ backlog' = {}
  /\ UNCHANGED <<calls, table, closed, queue, queueOpen, permit, writer, writing, reader,
                 closer, fromPt, noise>>

Pt == PtReads \/ PtAnswers \/ PtSpeaks \/ PtGoes

-----------------------------------------------------------------------------
CallStep(c) == Register(c) \/ CheckClosed(c) \/ Enqueue(c) \/ Refused(c) \/ TakeReply(c)
                 \/ Expire(c) \/ Forget(c) \/ Cancel(c)

Next == (\E c \in Calls : CallStep(c)) \/ WriteLoop \/ ReadLoop \/ Close \/ Subscribe \/ Pt

Safety == Init /\ [][Next]_vars

(***************************************************************************)
(* Fairness: tokio polls every ready task, the call timeout fires, and a   *)
(* read or a write on a connection that is gone returns.  Nothing is       *)
(* assumed of Packet Tracer.                                               *)
(***************************************************************************)
Fairness ==
  /\ \A c \in Calls : WF_vars(CheckClosed(c) \/ Enqueue(c) \/ Refused(c)
                                \/ TakeReply(c) \/ Expire(c) \/ Forget(c))
  /\ WF_vars(WriteLoop)
  /\ WF_vars(ReadLoop)
  /\ WF_vars(Close /\ closer = "sent")

Spec == Safety /\ Fairness

-----------------------------------------------------------------------------
(* Properties *)

WriterStates == {"select", "sending", "closing", "draining", "notifying", "done"}
ReaderStates == {"reading", "closing", "draining", "notifying", "done"}
CallStates == {"idle", "registered", "checked", "refused", "waiting", "expired",
               "cancelled", "done"}

(* Every variable keeps to its type, the results and the messages included. *)
TypeOK ==
  /\ pc \in [Calls -> CallStates]
  /\ id \in [Calls -> Ids]
  /\ reply \in [Calls -> Results]
  /\ outcome \in [Calls -> Results]
  /\ pending \in [Ids -> Calls \cup {NoCall}]
  /\ nextId \in Ids
  /\ closed \in BOOLEAN /\ queueOpen \in BOOLEAN /\ permit \in BOOLEAN
  /\ queue \in Seq(Messages)
  /\ writer \in WriterStates /\ reader \in ReaderStates
  /\ writing \in IF writer = "sending" THEN Messages ELSE {NoMessage}
  /\ closer \in {"idle", "sent", "done"}
  /\ conn \in {"open", "gone"}
  /\ toPt \in Seq(Messages) /\ fromPt \in Seq(Messages)
  /\ backlog \in SUBSET CallMessages
  /\ noise \in Nat

(***************************************************************************)
(* An answer goes to the call whose request it answers, whatever the order *)
(* of the answers, however late they come after a timeout or a cancelled   *)
(* call, and although ids are used again (Session::call, Shared::resolve). *)
(***************************************************************************)
OwnAnswer ==
  \A c \in Calls : \A r \in {reply[c], outcome[c]} :
    r.kind \in {"value", "remote"} => r.of = c

(***************************************************************************)
(* No call is left waiting by a shutdown: once either task has drained the *)
(* table, every call past the closed check already has its answer, and no  *)
(* later one gets past the check.  This is why shut_down sets the flag     *)
(* before draining and why a call inserts before it reads the flag.        *)
(***************************************************************************)
NoCallStranded ==
  Drained => \A c \in Calls : pc[c] \in {"checked", "waiting"} => reply[c] # Nothing

(***************************************************************************)
(* The table holds no leftovers: an entry belongs to a call that drew that *)
(* id and has not returned.  Only a cancelled call leaves its entry behind *)
(* for a late answer or the shutdown to collect.                           *)
(***************************************************************************)
NoLeftovers ==
  \A i \in Ids : pending[i] # NoCall =>
    /\ id[pending[i]] = i
    /\ pc[pending[i]] \in CallStates \ {"idle", "done"}

(* A call still waiting with an empty slot can be found by its id. *)
WaitersAreListed ==
  \A c \in Calls : pc[c] \in {"registered", "checked", "waiting"} /\ reply[c] = Nothing =>
    pending[id[c]] = c

(* The table lists whoever still waits, and nobody who has returned. *)
TidyTable == NoLeftovers /\ WaitersAreListed

(* Every call started on a session returns or is cancelled, whatever Packet Tracer does. *)
EveryCallReturns ==
  \A c \in Calls : (pc[c] = "registered") ~> (pc[c] \in {"done", "cancelled"})

(***************************************************************************)
(* When the connection is gone both tasks end, and with them both halves   *)
(* of the socket are dropped: "Without it the writer waits on `outbound`   *)
(* forever and the socket is never closed" (the comment on `stopped`).     *)
(***************************************************************************)
SocketReleased == (conn = "gone") ~> (writer = "done" /\ reader = "done")

(* The session implements what CallService promises. *)
Status(c) ==
  IF pc[c] = "registered" /\ closed THEN "refused"
  ELSE IF pc[c] \in {"registered", "checked", "expired"} THEN "waiting"
  ELSE IF pc[c] = "cancelled" THEN "abandoned"
  ELSE pc[c]

Service == INSTANCE CallService WITH
  down <- closed, status <- [c \in Calls |-> Status(c)], outcome <- outcome

ImplementsService == Service!Spec
ImplementsServiceSafety == Service!Safety

-----------------------------------------------------------------------------
(* The inductive invariant behind the safety properties. *)

Holding(c) == pc[c] \notin {"idle", "done", "cancelled"}

(* A call in progress shares its id with no other, in the table or out of it. *)
IdsAreHeld ==
  \A c \in Calls : Holding(c) =>
    /\ pending[id[c]] \in {NoCall, c}
    /\ \A d \in Calls : Holding(d) /\ id[d] = id[c] => d = c

(* An entry leaves the table together with its sender. *)
AnsweredIsUnlisted ==
  \A c \in Calls : reply[c] # Nothing =>
    pc[c] # "idle" /\ \A i \in Ids : pending[i] # c

(* Nothing in flight can be taken for another call's request or answer. *)
MessagesMatchTable == \A m \in InFlight : pending[m.id] \in {NoCall, m.call}

(* The flag is up before anything else tells that the session is closed. *)
FlagFirst ==
  \/ closed
  \/ /\ writer \in {"select", "sending", "closing"}
     /\ reader \in {"reading", "closing"}
     /\ queueOpen
     /\ \A c \in Calls : reply[c] # Closed /\ pc[c] # "refused"

Inductive ==
  /\ TypeOK
  /\ IdsAreHeld /\ AnsweredIsUnlisted /\ NoLeftovers /\ WaitersAreListed
  /\ MessagesMatchTable /\ OwnAnswer
  /\ FlagFirst /\ NoCallStranded
==============================================================================

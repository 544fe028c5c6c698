-------------------------- MODULE PtmpSessionProofs --------------------------
(***************************************************************************)
(* Proofs that a PTMP session keeps its table, its messages and its flag   *)
(* in step for any number of calls, any id space and any bounds.           *)
(***************************************************************************)
EXTENDS PtmpSession, TLAPS

(* The messages a queue holds, after its two operations. *)
LEMMA HoldsAppend ==
  ASSUME NEW S, NEW s \in Seq(S), NEW x
  PROVE  Holds(Append(s, x)) = Holds(s) \cup {x}
<1>1. /\ DOMAIN Append(s, x) = DOMAIN s \cup {Len(s) + 1}
      /\ Append(s, x)[Len(s) + 1] = x
      /\ \A j \in DOMAIN s : Append(s, x)[j] = s[j]
  OBVIOUS
<1>2. QED BY <1>1 DEF Holds

LEMMA HoldsTail ==
  ASSUME NEW S, NEW s \in Seq(S), s # <<>>
  PROVE  /\ Holds(Tail(s)) \subseteq Holds(s)
         /\ Head(s) \in Holds(s)
<1>1. /\ DOMAIN Tail(s) = 1 .. (Len(s) - 1)
      /\ DOMAIN s = 1 .. Len(s) /\ Len(s) \in Nat \ {0}
      /\ Head(s) = s[1]
      /\ \A j \in DOMAIN Tail(s) : Tail(s)[j] = s[j + 1]
  OBVIOUS
<1>2. QED BY <1>1 DEF Holds

LEMMA HoldsEmpty == Holds(<<>>) = {}
BY DEF Holds

LEMMA AppendTyped ==
  \A s \in Seq(Messages), m \in Messages : Append(s, m) \in Seq(Messages)
OBVIOUS

LEMMA PlainIsMessage ==
  \A k \in {"disconnect", "keepalive", "subscribe", "event", "garbled", "corrupt"} :
    Plain(k) \in Messages
BY DEF Messages, PlainMessages

(* Every variable keeps to its type. *)
LEMMA TypeStep == TypeOK /\ [Next]_vars => TypeOK'
<1> SUFFICES ASSUME TypeOK, [Next]_vars PROVE TypeOK'
  OBVIOUS
<1> USE SessionAssumption DEF TypeOK, calls, table, socket
<1>1. ASSUME NEW c \in Calls, CallStep(c) PROVE TypeOK'
  <2>1. CASE Register(c)
    BY <2>1 DEF Register, Ids, CallStates
  <2>2. CASE CheckClosed(c)
    BY <2>2 DEF CheckClosed, CallStates
  <2>3. CASE Enqueue(c)
    <3>1. AboutCall("call", id[c], c) \in Messages
      BY DEF AboutCall, Messages, CallMessages, CallKinds
    <3>2. queue' \in Seq(Messages)
      <4>1. queue' \in {queue, Append(queue, AboutCall("call", id[c], c))}
        BY <2>3 DEF Enqueue
      <4>2. Append(queue, AboutCall("call", id[c], c)) \in Seq(Messages)
        BY <3>1, AppendTyped
      <4>3. QED BY <4>1, <4>2
    <3>3. pc' \in [Calls -> CallStates]
      BY <2>3 DEF Enqueue, CallStates
    <3>4. QED BY <2>3, <3>2, <3>3 DEF Enqueue
  <2>4. CASE Refused(c)
    BY <2>4 DEF Refused, Finish, CallStates, Results
  <2>5. CASE TakeReply(c)
    BY <2>5 DEF TakeReply, Finish, CallStates, Results
  <2>6. CASE Expire(c)
    BY <2>6 DEF Expire, CallStates
  <2>7. CASE Forget(c)
    BY <2>7 DEF Forget, Finish, CallStates, Results
  <2>8. CASE Cancel(c)
    BY <2>8 DEF Cancel, CallStates
  <2>9. QED BY <1>1, <2>1, <2>2, <2>3, <2>4, <2>5, <2>6, <2>7, <2>8 DEF CallStep
<1>2. CASE WriteLoop
  <2>1. CASE TakeOutbound
    <3>1. Tail(queue) \in Seq(Messages) /\ Head(queue) \in Messages
      BY <2>1 DEF TakeOutbound
    <3>2. Head(queue).kind = "call" => Head(queue) \in CallMessages
      BY <3>1 DEF Messages, PlainMessages, Plain
    <3>3. Head(queue).kind = "call" /\ Resolve(Head(queue).id, Unframable)
            => reply' \in [Calls -> Results] /\ pending' \in [Ids -> Calls \cup {NoCall}]
      BY <3>2 DEF Resolve, Results, CallMessages
    <3>4. QED BY <2>1, <3>1, <3>3 DEF TakeOutbound, WriterStates
  <2>2. CASE TakeStop
    BY <2>2 DEF TakeStop, WriterStates
  <2>3. CASE Written
    <3>1. toPt' \in Seq(Messages)
      <4>1. toPt' \in {toPt, Append(toPt, writing)}
        BY <2>3 DEF Written
      <4>2. writing \in Messages
        BY <2>3 DEF Written
      <4>3. Append(toPt, writing) \in Seq(Messages)
        BY <4>2, AppendTyped
      <4>4. QED BY <4>1, <4>3
    <3>2. QED BY <2>3, <3>1 DEF Written, WriterStates
  <2>4. CASE WriteFails
    BY <2>4 DEF WriteFails, WriterStates
  <2>5. CASE WriterCloses
    BY <2>5 DEF WriterCloses, WriterStates
  <2>6. CASE WriterDrains
    BY <2>6 DEF WriterDrains, Drain, WriterStates, Results
  <2>7. CASE WriterEnds
    <3>1. queue' \in Seq(Messages)
      BY <2>7 DEF WriterEnds
    <3>2. QED BY <2>7, <3>1 DEF WriterEnds, WriterStates
  <2>8. QED BY <1>2, <2>1, <2>2, <2>3, <2>4, <2>5, <2>6, <2>7 DEF WriteLoop
<1>3. CASE ReadLoop
  <2>0. Receive => /\ fromPt' \in Seq(Messages)
                   /\ Head(fromPt) \in Messages
    BY DEF Receive
  <2>1. CASE ReadAnswer
    <3> DEFINE m == Head(fromPt)
    <3>1. m.kind \in {"response", "error"} /\ m \in Messages => m \in CallMessages
      BY DEF Messages, PlainMessages, Plain
    <3>2. ASSUME m \in CallMessages, NEW result \in Results, Resolve(m.id, result)
          PROVE  /\ reply' \in [Calls -> Results]
                 /\ pending' \in [Ids -> Calls \cup {NoCall}]
      BY <3>2 DEF Resolve, CallMessages
    <3>4. m \in CallMessages => Value(m.call) \in Results /\ Remote(m.call) \in Results
      BY DEF Results, CallMessages
    <3>3. QED BY <2>0, <2>1, <3>1, <3>2, <3>4 DEF ReadAnswer
  <2>2. CASE ReadSkipped
    BY <2>0, <2>2 DEF ReadSkipped
  <2>3. CASE ReadKeepAlive
    <3>1. queue' \in Seq(Messages)
      BY <2>3, PlainIsMessage DEF ReadKeepAlive
    <3>2. QED BY <2>0, <2>3, <3>1 DEF ReadKeepAlive
  <2>4. CASE ReadLast
    BY <2>0, <2>4 DEF ReadLast, ReaderStates
  <2>5. CASE ReadFails
    BY <2>5 DEF ReadFails, ReaderStates
  <2>6. CASE ReaderCloses
    BY <2>6 DEF ReaderCloses, ReaderStates
  <2>7. CASE ReaderDrains
    BY <2>7 DEF ReaderDrains, Drain, ReaderStates, Results
  <2>8. CASE ReaderEnds
    BY <2>8 DEF ReaderEnds, ReaderStates
  <2>9. QED BY <1>3, <2>1, <2>2, <2>3, <2>4, <2>5, <2>6, <2>7, <2>8 DEF ReadLoop
<1>4. CASE Close
  <2>1. queue' \in Seq(Messages)
    <3>1. queue' \in {queue, Append(queue, Plain("disconnect"))}
      BY <1>4 DEF Close
    <3>2. Append(queue, Plain("disconnect")) \in Seq(Messages)
      BY PlainIsMessage, AppendTyped
    <3>3. QED BY <3>1, <3>2
  <2>2. QED BY <1>4, <2>1 DEF Close
<1>5. CASE Subscribe
  <2>1. queue' \in Seq(Messages)
    BY <1>5, PlainIsMessage DEF Subscribe
  <2>2. QED BY <1>5, <2>1 DEF Subscribe
<1>6. CASE Pt
  <2>1. CASE PtReads
    <3>1. Tail(toPt) \in Seq(Messages) /\ Head(toPt) \in Messages
      BY <2>1 DEF PtReads
    <3>2. Head(toPt).kind = "call" => Head(toPt) \in CallMessages
      BY <3>1 DEF Messages, PlainMessages, Plain
    <3>3. QED BY <2>1, <3>1, <3>2 DEF PtReads
  <2>2. CASE PtAnswers
    <3>1. PICK m \in backlog, kind \in {"response", "error"} :
            /\ backlog' = backlog \ {m}
            /\ fromPt' = Append(fromPt, AboutCall(kind, m.id, m.call))
      BY <2>2 DEF PtAnswers
    <3>2. AboutCall(kind, m.id, m.call) \in Messages
      BY <3>1 DEF AboutCall, Messages, CallMessages, CallKinds
    <3>3. QED BY <2>2, <3>1, <3>2 DEF PtAnswers
  <2>3. CASE PtSpeaks
    <3>1. fromPt' \in Seq(Messages)
      BY <2>3, PlainIsMessage DEF PtSpeaks
    <3>2. QED BY <2>3, <3>1 DEF PtSpeaks
  <2>4. CASE PtGoes
    BY <2>4 DEF PtGoes
  <2>5. QED BY <1>6, <2>1, <2>2, <2>3, <2>4 DEF Pt
<1>7. CASE UNCHANGED vars
  BY <1>7 DEF vars
<1>8. QED BY <1>1, <1>2, <1>3, <1>4, <1>5, <1>6, <1>7 DEF Next

-----------------------------------------------------------------------------
(* The table: which call each id stands for. *)

Table == IdsAreHeld /\ AnsweredIsUnlisted /\ NoLeftovers /\ WaitersAreListed

(* Answering a call takes its entry and its wait away together. *)
LEMMA ResolveKeepsTable ==
  ASSUME TypeOK, Table, NEW i \in Ids, NEW result \in Results \ {Nothing},
         Resolve(i, result), UNCHANGED <<pc, id>>
  PROVE  Table'
<1> USE SessionAssumption DEF TypeOK, Table, Resolve
<1>1. IdsAreHeld'
  BY DEF IdsAreHeld, Holding
<1>2. NoLeftovers'
  BY DEF NoLeftovers
<1>3. AnsweredIsUnlisted'
  BY DEF AnsweredIsUnlisted, NoLeftovers
<1>4. WaitersAreListed'
  BY DEF WaitersAreListed
<1>5. QED BY <1>1, <1>2, <1>3, <1>4

(* Draining answers exactly the calls it takes out. *)
LEMMA DrainKeepsTable ==
  ASSUME TypeOK, Table, Drain, UNCHANGED <<pc, id>>
  PROVE  Table'
<1> USE SessionAssumption DEF TypeOK, Table, Drain
<1>1. IdsAreHeld'
  BY DEF IdsAreHeld, Holding
<1>2. NoLeftovers'
  BY DEF NoLeftovers
<1>3. AnsweredIsUnlisted'
  BY DEF AnsweredIsUnlisted, NoLeftovers, Closed, Nothing
<1>4. WaitersAreListed'
  BY DEF WaitersAreListed, Closed, Nothing
<1>5. QED BY <1>1, <1>2, <1>3, <1>4

LEMMA CallKeepsTable ==
  ASSUME TypeOK, Table, NEW c \in Calls, CallStep(c)
  PROVE  Table'
<1> USE SessionAssumption DEF TypeOK, Table, table
<1>1. CASE Register(c)
  <2>1. /\ pending[nextId] = NoCall /\ pc[c] = "idle"
        /\ pc' = [pc EXCEPT ![c] = "registered"]
        /\ id' = [id EXCEPT ![c] = nextId]
        /\ pending' = [pending EXCEPT ![nextId] = c]
        /\ reply' = reply
        /\ \A d \in Calls : Holding(d) => id[d] # nextId
    BY <1>1 DEF Register, IdIsFree, Holding
  <2>2. reply[c] = Nothing /\ \A i \in Ids : pending[i] # c
    BY <2>1 DEF AnsweredIsUnlisted, NoLeftovers
  <2>3. IdsAreHeld'
    BY <2>1, <2>2 DEF IdsAreHeld, Holding
  <2>4. NoLeftovers'
    BY <2>1, <2>2 DEF NoLeftovers, CallStates
  <2>5. AnsweredIsUnlisted'
    BY <2>1, <2>2 DEF AnsweredIsUnlisted
  <2>6. WaitersAreListed'
    BY <2>1, <2>2 DEF WaitersAreListed
  <2>7. QED BY <2>3, <2>4, <2>5, <2>6
<1>2. CASE CheckClosed(c) \/ Enqueue(c) \/ Expire(c) \/ Cancel(c)
  <2>1. /\ pc[c] \in {"registered", "checked", "waiting"}
        /\ \E to \in {"checked", "waiting", "refused", "expired", "cancelled"} :
             pc' = [pc EXCEPT ![c] = to] /\ (to = "checked" => pc[c] = "registered")
                                        /\ (to = "waiting" => pc[c] = "checked")
        /\ id' = id /\ pending' = pending /\ reply' = reply
    BY <1>2 DEF CheckClosed, Enqueue, Expire, Cancel, CallStates
  <2>2. IdsAreHeld'
    BY <2>1 DEF IdsAreHeld, Holding
  <2>3. NoLeftovers'
    BY <2>1 DEF NoLeftovers, CallStates
  <2>4. AnsweredIsUnlisted'
    BY <2>1 DEF AnsweredIsUnlisted
  <2>5. WaitersAreListed'
    BY <2>1 DEF WaitersAreListed
  <2>6. QED BY <2>2, <2>3, <2>4, <2>5
<1>3. CASE Refused(c) \/ Forget(c)
  <2>1. /\ pc[c] \in {"refused", "expired"}
        /\ pc' = [pc EXCEPT ![c] = "done"]
        /\ id' = id /\ pending' = [pending EXCEPT ![id[c]] = NoCall]
        /\ reply' = [reply EXCEPT ![c] = Nothing]
    BY <1>3 DEF Refused, Forget, Finish
  <2>2. \A d \in Calls : d # c /\ Holding(d) => id[d] # id[c]
    BY <2>1 DEF IdsAreHeld, Holding
  <2>3. IdsAreHeld'
    BY <2>1, <2>2 DEF IdsAreHeld, Holding
  <2>4. NoLeftovers'
    BY <2>1 DEF NoLeftovers, CallStates
  <2>5. AnsweredIsUnlisted'
    BY <2>1 DEF AnsweredIsUnlisted
  <2>6. WaitersAreListed'
    BY <2>1, <2>2 DEF WaitersAreListed, Holding
  <2>7. QED BY <2>3, <2>4, <2>5, <2>6
<1>4. CASE TakeReply(c)
  <2>1. /\ pc[c] = "waiting" /\ reply[c] # Nothing
        /\ pc' = [pc EXCEPT ![c] = "done"]
        /\ id' = id /\ pending' = pending
        /\ reply' = [reply EXCEPT ![c] = Nothing]
    BY <1>4 DEF TakeReply, Finish
  <2>2. \A i \in Ids : pending[i] # c
    BY <2>1 DEF AnsweredIsUnlisted
  <2>3. IdsAreHeld'
    BY <2>1 DEF IdsAreHeld, Holding
  <2>4. NoLeftovers'
    BY <2>1, <2>2 DEF NoLeftovers
  <2>5. AnsweredIsUnlisted'
    BY <2>1 DEF AnsweredIsUnlisted
  <2>6. WaitersAreListed'
    BY <2>1 DEF WaitersAreListed
  <2>7. QED BY <2>3, <2>4, <2>5, <2>6
<1>5. QED BY <1>1, <1>2, <1>3, <1>4 DEF CallStep

-----------------------------------------------------------------------------
(* The messages: what is in flight still means the call it names. *)

LEMMA InFlightTyped ==
  TypeOK => /\ InFlight \subseteq CallMessages
            /\ \A m \in InFlight : m.id \in Ids /\ m.call \in Calls
<1> SUFFICES ASSUME TypeOK PROVE InFlight \subseteq CallMessages
  BY DEF CallMessages
<1>1. \A s \in Seq(Messages) : Holds(s) \subseteq Messages
  BY DEF Holds
<1>2. \A m \in Messages : m.kind \in CallKinds => m \in CallMessages
  BY DEF Messages, PlainMessages, Plain, CallKinds
<1>3. \A m \in CallMessages : m \in Messages
  BY DEF Messages
<1>4. writing.kind \in CallKinds => writing \in Messages
  BY DEF TypeOK, NoMessage, Plain, CallKinds
<1>5. QED BY <1>1, <1>2, <1>3, <1>4 DEF InFlight, TypeOK

(* Entries only leave and messages only move or leave: they still match. *)
LEMMA MatchShrinks ==
  ASSUME TypeOK, TypeOK', MessagesMatchTable,
         \A m \in InFlight' : m \in InFlight,
         \A i \in Ids : pending'[i] \in {pending[i], NoCall}
  PROVE  MessagesMatchTable'
BY InFlightTyped DEF MessagesMatchTable

LEMMA CallKeepsMatch ==
  ASSUME TypeOK, TypeOK', Table, MessagesMatchTable, NEW c \in Calls, CallStep(c)
  PROVE  MessagesMatchTable'
<1> USE SessionAssumption DEF table, socket
<1>1. CASE Register(c)
  <2>1. InFlight' = InFlight
    BY <1>1 DEF Register, InFlight, Holds
  <2>2. \A m \in InFlight : m.id # nextId
    BY <1>1 DEF Register, IdIsFree
  <2>3. \A i \in Ids : i # nextId => pending'[i] = pending[i]
    BY <1>1 DEF Register, TypeOK
  <2>4. QED BY <2>1, <2>2, <2>3, InFlightTyped DEF MessagesMatchTable
<1>2. CASE Enqueue(c) /\ queueOpen
  <2> DEFINE new == AboutCall("call", id[c], c)
  <2>1. Holds(queue') = Holds(queue) \cup {new}
    BY <1>2, HoldsAppend DEF Enqueue, TypeOK
  <2>2. InFlight' \subseteq InFlight \cup {new}
    BY <1>2, <2>1 DEF Enqueue, InFlight
  <2>3. pending[id[c]] \in {NoCall, c}
    BY <1>2 DEF Table, IdsAreHeld, Holding, Enqueue
  <2>4. new.id = id[c] /\ new.call = c /\ pending' = pending
    BY <1>2 DEF AboutCall, Enqueue
  <2>5. QED BY <2>2, <2>3, <2>4, InFlightTyped DEF MessagesMatchTable
<1>3. CASE \/ CheckClosed(c) \/ Refused(c) \/ TakeReply(c) \/ Expire(c) \/ Forget(c)
           \/ Cancel(c) \/ (Enqueue(c) /\ ~queueOpen)
  <2>1. UNCHANGED <<queue, writing, toPt, backlog, fromPt>>
    BY <1>3 DEF CheckClosed, Refused, TakeReply, Expire, Forget, Cancel, Enqueue, Finish
  <2>2. InFlight' = InFlight
    BY <2>1 DEF InFlight, Holds
  <2>3. \A i \in Ids : pending'[i] \in {pending[i], NoCall}
    BY <1>3 DEF CheckClosed, Refused, TakeReply, Expire, Forget, Cancel, Enqueue, Finish,
                TypeOK
  <2>4. QED BY <2>2, <2>3, MatchShrinks
<1>4. QED BY <1>1, <1>2, <1>3 DEF CallStep

(* A step that carries no call's message adds none: plain messages have other kinds. *)
LEMMA PlainIsNoCall ==
  \A k \in {"none", "disconnect", "keepalive", "subscribe", "event", "garbled", "corrupt"} :
    Plain(k).kind \notin CallKinds
BY DEF Plain, CallKinds

LEMMA WriterKeepsMatch ==
  ASSUME TypeOK, TypeOK', MessagesMatchTable, WriteLoop
  PROVE  MessagesMatchTable'
<1> USE DEF table, calls, socket
<1>1. \A i \in Ids : pending'[i] \in {pending[i], NoCall}
  BY DEF WriteLoop, TakeOutbound, TakeStop, Written, WriteFails, WriterCloses, WriterDrains,
         WriterEnds, Resolve, Drain, TypeOK
<1>2. \A m \in InFlight' : m \in InFlight
  <2>1. CASE TakeOutbound
    <3>1. Holds(queue') \subseteq Holds(queue) /\ Head(queue) \in Holds(queue)
      BY <2>1, HoldsTail DEF TakeOutbound, TypeOK
    <3>2. writing' \in {writing, Head(queue)}
      BY <2>1 DEF TakeOutbound
    <3>3. UNCHANGED <<toPt, fromPt, backlog>>
      BY <2>1 DEF TakeOutbound
    <3>4. Holds(toPt)' = Holds(toPt) /\ Holds(fromPt)' = Holds(fromPt)
      BY <3>3 DEF Holds
    <3>5. QED BY <3>1, <3>2, <3>3, <3>4 DEF InFlight
  <2>2. CASE Written
    <3>1. toPt' = toPt \/ toPt' = Append(toPt, writing)
      BY <2>2 DEF Written
    <3>2. Append(toPt, writing) \in Seq(Messages) /\ toPt \in Seq(Messages)
          /\ writing \in Messages
      BY <2>2, AppendTyped DEF Written, TypeOK
    <3>3. Holds(Append(toPt, writing)) = Holds(toPt) \cup {writing}
      BY <3>2, HoldsAppend
    <3>4. Holds(toPt') \subseteq Holds(toPt) \cup {writing}
      BY <3>1, <3>3
    <3>5. writing'.kind \notin CallKinds
      BY <2>2, PlainIsNoCall DEF Written, NoMessage
    <3>6. UNCHANGED <<queue, fromPt, backlog>>
      BY <2>2 DEF Written
    <3>7. QED BY <3>4, <3>5, <3>6 DEF InFlight, Holds
  <2>3. CASE WriteFails
    <3>1. writing'.kind \notin CallKinds
      BY <2>3, PlainIsNoCall DEF WriteFails, NoMessage
    <3>2. QED BY <2>3, <3>1 DEF WriteFails, InFlight, Holds
  <2>4. CASE WriterEnds
    <3>1. Holds(queue') = {}
      BY <2>4, HoldsEmpty DEF WriterEnds
    <3>2. UNCHANGED <<writing, toPt, fromPt, backlog>>
      BY <2>4 DEF WriterEnds
    <3>3. Holds(toPt)' = Holds(toPt) /\ Holds(fromPt)' = Holds(fromPt)
      BY <3>2 DEF Holds
    <3>4. QED BY <3>1, <3>2, <3>3 DEF InFlight
  <2>5. CASE TakeStop \/ WriterCloses \/ WriterDrains
    BY <2>5 DEF TakeStop, WriterCloses, WriterDrains, InFlight, Holds
  <2>6. QED BY <2>1, <2>2, <2>3, <2>4, <2>5 DEF WriteLoop
<1>3. QED BY <1>1, <1>2, MatchShrinks

LEMMA ReaderKeepsMatch ==
  ASSUME TypeOK, TypeOK', MessagesMatchTable, ReadLoop
  PROVE  MessagesMatchTable'
<1> USE DEF table, calls, socket
<1>1. \A i \in Ids : pending'[i] \in {pending[i], NoCall}
  BY DEF ReadLoop, ReadAnswer, ReadSkipped, ReadKeepAlive, ReadLast, ReadFails,
         ReaderCloses, ReaderDrains, ReaderEnds, Resolve, Drain, TypeOK
<1>2. \A m \in InFlight' : m \in InFlight
  <2>1. Receive => Holds(fromPt') \subseteq Holds(fromPt)
    BY HoldsTail DEF Receive, TypeOK
  <2>2. CASE ReadAnswer \/ ReadSkipped \/ ReadLast
    <3>1. UNCHANGED <<writing, queue, toPt, backlog>> /\ Receive
      BY <2>2 DEF ReadAnswer, ReadSkipped, ReadLast
    <3>2. Holds(queue)' = Holds(queue) /\ Holds(toPt)' = Holds(toPt)
      BY <3>1 DEF Holds
    <3>3. QED BY <2>1, <3>1, <3>2 DEF InFlight
  <2>3. CASE ReadKeepAlive
    <3>1. UNCHANGED <<writing, toPt, backlog>> /\ Receive
      BY <2>3 DEF ReadKeepAlive
    <3>2. queue' = queue \/ queue' = Append(queue, Plain("keepalive"))
      BY <2>3 DEF ReadKeepAlive
    <3>3. Holds(Append(queue, Plain("keepalive"))) = Holds(queue) \cup {Plain("keepalive")}
      BY HoldsAppend DEF TypeOK
    <3>4. Holds(queue') \subseteq Holds(queue) \cup {Plain("keepalive")}
      BY <3>2, <3>3
    <3>5. Holds(toPt)' = Holds(toPt)
      BY <3>1 DEF Holds
    <3>6. QED BY <2>1, <3>1, <3>4, <3>5, PlainIsNoCall DEF InFlight
  <2>4. CASE ReadFails
    <3>1. UNCHANGED <<writing, queue, toPt, backlog>> /\ fromPt' = <<>>
      BY <2>4 DEF ReadFails
    <3>2. Holds(queue)' = Holds(queue) /\ Holds(toPt)' = Holds(toPt)
      BY <3>1 DEF Holds
    <3>3. Holds(fromPt') = {}
      BY <3>1, HoldsEmpty
    <3>4. QED BY <3>1, <3>2, <3>3 DEF InFlight
  <2>5. CASE ReaderCloses \/ ReaderDrains \/ ReaderEnds
    BY <2>5 DEF ReaderCloses, ReaderDrains, ReaderEnds, InFlight, Holds
  <2>6. QED BY <2>1, <2>2, <2>3, <2>4, <2>5 DEF ReadLoop
<1>3. QED BY <1>1, <1>2, MatchShrinks

LEMMA OwnerKeepsMatch ==
  ASSUME TypeOK, TypeOK', MessagesMatchTable, Close \/ Subscribe
  PROVE  MessagesMatchTable'
<1> USE DEF table, calls, socket
<1>1. UNCHANGED <<pending, writing, toPt, fromPt, backlog>>
  BY DEF Close, Subscribe
<1>2. \E k \in {"disconnect", "subscribe"} :
        queue' = queue \/ queue' = Append(queue, Plain(k))
  BY DEF Close, Subscribe
<1>3. PICK k \in {"disconnect", "subscribe"} :
        queue' = queue \/ queue' = Append(queue, Plain(k))
  BY <1>2
<1>4. Holds(Append(queue, Plain(k))) = Holds(queue) \cup {Plain(k)}
  BY HoldsAppend DEF TypeOK
<1>5. Holds(queue') \subseteq Holds(queue) \cup {Plain(k)}
  BY <1>3, <1>4
<1>6. Holds(toPt)' = Holds(toPt) /\ Holds(fromPt)' = Holds(fromPt)
  BY <1>1 DEF Holds
<1>7. \A m \in InFlight' : m \in InFlight
  BY <1>1, <1>5, <1>6, PlainIsNoCall DEF InFlight
<1>8. QED BY <1>1, <1>7, MatchShrinks

LEMMA PtKeepsMatch ==
  ASSUME TypeOK, TypeOK', MessagesMatchTable, Pt
  PROVE  MessagesMatchTable'
<1> USE DEF table, calls, socket
<1>1. UNCHANGED <<pending, writing, queue>>
  BY DEF Pt, PtReads, PtAnswers, PtSpeaks, PtGoes
<1>2. Holds(queue)' = Holds(queue)
  BY <1>1 DEF Holds
<1>3. CASE PtReads
  <2>1. Holds(toPt') \subseteq Holds(toPt) /\ Head(toPt) \in Holds(toPt)
    BY <1>3, HoldsTail DEF PtReads, TypeOK
  <2>2. backlog' \subseteq backlog \cup {Head(toPt)} /\ fromPt' = fromPt
    BY <1>3 DEF PtReads
  <2>3. Holds(fromPt)' = Holds(fromPt)
    BY <2>2 DEF Holds
  <2>4. \A m \in InFlight' : m \in InFlight
    BY <1>1, <1>2, <2>1, <2>2, <2>3 DEF InFlight
  <2>5. QED BY <1>1, <2>4, MatchShrinks
<1>4. CASE PtAnswers
  <2>1. PICK m \in backlog, kind \in {"response", "error"} :
          /\ backlog' = backlog \ {m}
          /\ fromPt' = Append(fromPt, AboutCall(kind, m.id, m.call))
    BY <1>4 DEF PtAnswers
  <2> DEFINE answer == AboutCall(kind, m.id, m.call)
  <2>2. Holds(fromPt') = Holds(fromPt) \cup {answer}
    BY <2>1, HoldsAppend DEF TypeOK
  <2>3. toPt' = toPt
    BY <1>4 DEF PtAnswers
  <2>4. Holds(toPt)' = Holds(toPt)
    BY <2>3 DEF Holds
  <2>5. InFlight' \subseteq InFlight \cup {answer}
    BY <1>1, <1>2, <2>1, <2>2, <2>4 DEF InFlight
  <2>6. m \in InFlight
    BY <2>1 DEF InFlight, TypeOK, CallMessages
  <2>7. answer.id = m.id /\ answer.call = m.call
    BY DEF AboutCall
  <2>8. pending[answer.id] \in {NoCall, answer.call}
    BY <2>6, <2>7 DEF MessagesMatchTable
  <2>9. QED BY <1>1, <2>5, <2>8 DEF MessagesMatchTable
<1>5. CASE PtSpeaks
  <2>1. PICK k \in {"event", "garbled", "keepalive", "disconnect", "corrupt"} :
          fromPt' = Append(fromPt, Plain(k))
    BY <1>5 DEF PtSpeaks
  <2>2. Holds(fromPt') = Holds(fromPt) \cup {Plain(k)}
    BY <2>1, HoldsAppend DEF TypeOK
  <2>3. UNCHANGED <<toPt, backlog>>
    BY <1>5 DEF PtSpeaks
  <2>4. Holds(toPt)' = Holds(toPt)
    BY <2>3 DEF Holds
  <2>5. \A m \in InFlight' : m \in InFlight
    BY <1>1, <1>2, <2>2, <2>3, <2>4, PlainIsNoCall DEF InFlight
  <2>6. QED BY <1>1, <2>5, MatchShrinks
<1>6. CASE PtGoes
  <2>1. toPt' = <<>> /\ backlog' = {} /\ fromPt' = fromPt
    BY <1>6 DEF PtGoes
  <2>2. Holds(toPt') = {}
    BY <2>1, HoldsEmpty
  <2>3. Holds(fromPt)' = Holds(fromPt)
    BY <2>1 DEF Holds
  <2>4. \A m \in InFlight' : m \in InFlight
    BY <1>1, <1>2, <2>1, <2>2, <2>3 DEF InFlight
  <2>5. QED BY <1>1, <2>4, MatchShrinks
<1>7. QED BY <1>3, <1>4, <1>5, <1>6 DEF Pt

-----------------------------------------------------------------------------
(* The answers and the flag. *)

LEMMA KindsDiffer ==
  /\ Unframable \in Results \ {Nothing, Closed} /\ Closed # Nothing
  /\ \A c \in Calls : {Value(c), Remote(c)} \subseteq Results \ {Nothing, Closed}
<1>1. /\ Nothing.kind = "none" /\ Closed.kind = "closed" /\ Unframable.kind = "unframable"
      /\ \A c \in Calls : Value(c).kind = "value" /\ Remote(c).kind = "remote"
  BY DEF Nothing, Closed, Unframable, Value, Remote
<1>2. /\ Unframable \in Results
      /\ \A c \in Calls : Value(c) \in Results /\ Remote(c) \in Results
  BY DEF Results
<1>3. QED BY <1>1, <1>2

(* Packet Tracer's answer reaches the call it names, or nobody. *)
LEMMA AnswerIsOwn ==
  ASSUME TypeOK, MessagesMatchTable, ReadAnswer
  PROVE  \E i \in Ids, c \in Calls :
           /\ Resolve(i, Value(c)) \/ Resolve(i, Remote(c))
           /\ pending[i] \in {NoCall, c}
<1> DEFINE m == Head(fromPt)
<1>1. m \in Holds(fromPt)
  BY HoldsTail DEF ReadAnswer, Receive, TypeOK
<1>2. m.kind \in {"response", "error"}
  BY DEF ReadAnswer
<1>3. m \in InFlight
  BY <1>1, <1>2 DEF InFlight, CallKinds
<1>4. m.id \in Ids /\ m.call \in Calls /\ pending[m.id] \in {NoCall, m.call}
  BY <1>3, InFlightTyped DEF MessagesMatchTable
<1>5. QED BY <1>4 DEF ReadAnswer

(* The steps that leave the answers and the table alone. *)
Elsewhere ==
  \/ TakeStop \/ Written \/ WriteFails \/ WriterCloses \/ WriterEnds
  \/ ReadSkipped \/ ReadKeepAlive \/ ReadLast \/ ReadFails \/ ReaderCloses \/ ReaderEnds
  \/ Close \/ Subscribe \/ Pt

LEMMA ElsewhereUnchanged == Elsewhere => UNCHANGED <<pc, id, reply, outcome, pending>>
BY DEF Elsewhere, TakeStop, Written, WriteFails, WriterCloses, WriterEnds, ReadSkipped,
       ReadKeepAlive, ReadLast, ReadFails, ReaderCloses, ReaderEnds, Close, Subscribe,
       Pt, PtReads, PtAnswers, PtSpeaks, PtGoes, calls, table

LEMMA NextCases ==
  Next <=> \/ \E c \in Calls : CallStep(c)
           \/ TakeOutbound \/ WriterDrains \/ ReadAnswer \/ ReaderDrains \/ Elsewhere
BY DEF Next, WriteLoop, ReadLoop, Elsewhere

(* How a step can change the table and the slots, from the tasks' side. *)
LEMMA TaskEffects ==
  ASSUME TypeOK, TakeOutbound \/ WriterDrains \/ ReadAnswer \/ ReaderDrains
  PROVE  /\ UNCHANGED <<pc, id, outcome>>
         /\ \/ UNCHANGED <<reply, pending>>
            \/ Drain
            \/ \E i \in Ids : Resolve(i, Unframable)
            \/ ReadAnswer
<1>1. CASE TakeOutbound
  <2>1. Head(queue) \in Messages
    BY <1>1 DEF TakeOutbound, TypeOK
  <2>2. Head(queue).kind = "call" => Head(queue).id \in Ids
    BY <2>1 DEF Messages, PlainMessages, Plain, CallMessages
  <2>3. QED BY <1>1, <2>2 DEF TakeOutbound
<1>2. QED BY <1>1 DEF WriterDrains, ReadAnswer, ReaderDrains

LEMMA AnswerStep ==
  ASSUME TypeOK, MessagesMatchTable, OwnAnswer, Next
  PROVE  OwnAnswer'
<1> USE DEF TypeOK, OwnAnswer
<1>1. ASSUME NEW c \in Calls, CallStep(c) PROVE OwnAnswer'
  <2>1. CASE \E r \in {Closed, TimedOut, reply[c]} :
               /\ outcome' = [outcome EXCEPT ![c] = r]
               /\ reply' = [reply EXCEPT ![c] = Nothing]
    BY <2>1 DEF Closed, TimedOut, Nothing
  <2>2. CASE UNCHANGED <<reply, outcome>>
    BY <2>2
  <2>3. QED BY <1>1, <2>1, <2>2 DEF CallStep, Register, CheckClosed, Enqueue, Refused,
                                    TakeReply, Expire, Forget, Cancel, Finish
<1>2. CASE TakeOutbound \/ WriterDrains \/ ReadAnswer \/ ReaderDrains
  <2>1. CASE Drain /\ outcome' = outcome
    BY <2>1 DEF Drain, Closed
  <2>2. CASE outcome' = outcome /\ \E i \in Ids : Resolve(i, Unframable)
    BY <2>2, SessionAssumption DEF Resolve, Unframable
  <2>3. CASE ReadAnswer
    <3>1. PICK i \in Ids, c \in Calls :
            /\ Resolve(i, Value(c)) \/ Resolve(i, Remote(c))
            /\ pending[i] \in {NoCall, c}
      BY <2>3, AnswerIsOwn
    <3>2. outcome' = outcome
      BY <2>3 DEF ReadAnswer
    <3>3. Value(c).of = c /\ Remote(c).of = c
      BY DEF Value, Remote
    <3>4. QED BY <3>1, <3>2, <3>3 DEF Resolve
  <2>4. QED BY <1>2, <2>1, <2>2, <2>3, TaskEffects
<1>3. CASE Elsewhere
  BY <1>3, ElsewhereUnchanged
<1>4. QED BY <1>1, <1>2, <1>3, NextCases

LEMMA TableStep ==
  ASSUME TypeOK, MessagesMatchTable, Table, Next
  PROVE  Table'
<1>1. CASE \E c \in Calls : CallStep(c)
  BY <1>1, CallKeepsTable
<1>2. CASE TakeOutbound \/ WriterDrains \/ ReadAnswer \/ ReaderDrains
  <2>1. /\ Unframable \in Results \ {Nothing}
        /\ \A c \in Calls : {Value(c), Remote(c)} \subseteq Results \ {Nothing}
    BY KindsDiffer
  <2>2. CASE UNCHANGED <<pc, id, reply, pending>>
    BY <2>2 DEF Table, IdsAreHeld, Holding, AnsweredIsUnlisted, NoLeftovers, WaitersAreListed
  <2>3. CASE Drain /\ UNCHANGED <<pc, id>>
    BY <2>3, DrainKeepsTable
  <2>4. ASSUME NEW i \in Ids, NEW result \in Results \ {Nothing}, Resolve(i, result),
               UNCHANGED <<pc, id>>
        PROVE  Table'
    BY <2>4, ResolveKeepsTable
  <2>5. CASE ReadAnswer
    <3>1. PICK i \in Ids, c \in Calls : Resolve(i, Value(c)) \/ Resolve(i, Remote(c))
      BY <2>5, AnswerIsOwn
    <3>2. UNCHANGED <<pc, id>>
      BY <2>5 DEF ReadAnswer
    <3>3. QED BY <2>1, <2>4, <3>1, <3>2
  <2>6. QED BY <1>2, <2>1, <2>2, <2>3, <2>4, <2>5, TaskEffects
<1>3. CASE Elsewhere
  BY <1>3, ElsewhereUnchanged
     DEF Table, IdsAreHeld, Holding, AnsweredIsUnlisted, NoLeftovers, WaitersAreListed
<1>4. QED BY <1>1, <1>2, <1>3, NextCases

LEMMA MatchStep ==
  ASSUME TypeOK, TypeOK', Table, MessagesMatchTable, Next
  PROVE  MessagesMatchTable'
BY CallKeepsMatch, WriterKeepsMatch, ReaderKeepsMatch, OwnerKeepsMatch, PtKeepsMatch DEF Next

(* The flag goes up first, and only a drain or the flag tells a call "closed". *)
LEMMA FlagStep ==
  ASSUME TypeOK, MessagesMatchTable, FlagFirst, Next
  PROVE  FlagFirst'
<1> USE DEF TypeOK, FlagFirst, calls, table, socket
<1>1. CASE closed
  <2>1. closed' = TRUE \/ closed' = closed
    BY DEF Next, CallStep, Register, CheckClosed, Enqueue, Refused, TakeReply, Expire, Forget,
           Cancel, Finish, WriteLoop, TakeOutbound, TakeStop, Written, WriteFails,
           WriterCloses, WriterDrains, WriterEnds, ReadLoop, ReadAnswer, ReadSkipped,
           ReadKeepAlive, ReadLast, ReadFails, ReaderCloses, ReaderDrains, ReaderEnds,
           Close, Subscribe, Pt, PtReads, PtAnswers, PtSpeaks, PtGoes
  <2>2. QED BY <1>1, <2>1
<1>2. CASE ~closed
  <2> USE <1>2
  <2>1. ASSUME NEW c \in Calls, CallStep(c) PROVE FlagFirst'
    <3>1. UNCHANGED <<writer, reader, queueOpen>>
      BY <2>1 DEF CallStep, Register, CheckClosed, Enqueue, Refused, TakeReply, Expire,
                  Forget, Cancel, Finish
    <3>2. \A d \in Calls : pc'[d] # "refused"
      BY <2>1 DEF CallStep, Register, CheckClosed, Enqueue, Refused, TakeReply, Expire,
                  Forget, Cancel, Finish
    <3>3. reply' = reply \/ reply' = [reply EXCEPT ![c] = Nothing]
      BY <2>1 DEF CallStep, Register, CheckClosed, Enqueue, Refused, TakeReply, Expire,
                  Forget, Cancel, Finish
    <3>4. QED BY <3>1, <3>2, <3>3 DEF Nothing, Closed
  <2>2. CASE TakeOutbound
    <3>1. \A c \in Calls : reply'[c] # Closed
      BY <2>2, KindsDiffer DEF TakeOutbound, Resolve
    <3>2. QED BY <2>2, <3>1 DEF TakeOutbound
  <2>3. CASE ReadAnswer
    <3>1. \A c \in Calls : reply'[c] # Closed
      <4>1. PICK i \in Ids, c \in Calls : Resolve(i, Value(c)) \/ Resolve(i, Remote(c))
        BY <2>3, AnswerIsOwn
      <4>2. QED BY <4>1, KindsDiffer DEF Resolve
    <3>2. QED BY <2>3, <3>1 DEF ReadAnswer
  <2>4. CASE WriterDrains \/ ReaderDrains
    BY <2>4 DEF WriterDrains, ReaderDrains
  <2>5. CASE Elsewhere
    <3>1. UNCHANGED <<pc, reply>>
      BY <2>5, ElsewhereUnchanged
    <3>2. QED BY <2>5, <3>1
      DEF Elsewhere, TakeStop, Written, WriteFails, WriterCloses, WriterEnds, ReadSkipped,
          ReadKeepAlive, ReadLast, ReadFails, ReaderCloses, ReaderEnds, Close, Subscribe,
          Pt, PtReads, PtAnswers, PtSpeaks, PtGoes
  <2>6. QED BY <2>1, <2>2, <2>3, <2>4, <2>5, NextCases
<1>3. QED BY <1>1, <1>2

(* Before the drain every waiter is listed; the drain answers whoever is listed. *)
LEMMA StrandedStep ==
  ASSUME TypeOK, MessagesMatchTable, Table, FlagFirst, NoCallStranded, Next
  PROVE  NoCallStranded'
<1> USE DEF TypeOK, NoCallStranded, calls, table, socket
<1>1. CASE WriterDrains \/ ReaderDrains
  <2>1. pc' = pc /\ Drain
    BY <1>1 DEF WriterDrains, ReaderDrains
  <2>2. \A c \in Calls : pc[c] \in {"checked", "waiting"} => reply'[c] # Nothing
    BY <2>1 DEF Drain, Table, WaitersAreListed, Closed, Nothing
  <2>3. QED BY <2>1, <2>2
<1>2. CASE ~Drained /\ ~(WriterDrains \/ ReaderDrains)
  <2>1. ~Drained'
    BY <1>2 DEF Next, Drained, CallStep, Register, CheckClosed, Enqueue, Refused, TakeReply,
           Expire, Forget, Cancel, Finish, WriteLoop, TakeOutbound, TakeStop, Written,
           WriteFails, WriterCloses, WriterEnds, ReadLoop, ReadAnswer,
           ReadSkipped, ReadKeepAlive, ReadLast, ReadFails, ReaderCloses,
           ReaderEnds, Close, Subscribe, Pt, PtReads, PtAnswers, PtSpeaks, PtGoes
  <2>2. QED BY <2>1
<1>3. CASE Drained /\ ~(WriterDrains \/ ReaderDrains)
  <2>1. closed
    BY <1>3 DEF Drained, FlagFirst
  <2>2. ASSUME NEW c \in Calls, CallStep(c) PROVE NoCallStranded'
    BY <1>3, <2>1, <2>2 DEF CallStep, Register, CheckClosed, Enqueue, Refused, TakeReply,
                            Expire, Forget, Cancel, Finish
  <2>3. CASE TakeOutbound
    BY <1>3, <2>3, KindsDiffer DEF TakeOutbound, Resolve
  <2>4. CASE ReadAnswer
    <3>1. PICK i \in Ids, c \in Calls : Resolve(i, Value(c)) \/ Resolve(i, Remote(c))
      BY <2>4, AnswerIsOwn
    <3>2. pc' = pc
      BY <2>4 DEF ReadAnswer
    <3>3. QED BY <1>3, <3>1, <3>2, KindsDiffer DEF Resolve
  <2>5. CASE Elsewhere
    BY <1>3, <2>5, ElsewhereUnchanged
  <2>6. QED BY <1>3, <2>2, <2>3, <2>4, <2>5, NextCases
<1>4. QED BY <1>1, <1>2, <1>3

-----------------------------------------------------------------------------
LEMMA InductiveInit == Init => Inductive
<1> SUFFICES ASSUME Init PROVE Inductive
  OBVIOUS
<1> USE SessionAssumption DEF Init
<1>1. TypeOK
  BY DEF TypeOK, Ids, CallStates, Results, WriterStates, ReaderStates
<1>2. InFlight = {}
  BY HoldsEmpty, PlainIsNoCall DEF InFlight, NoMessage
<1>3. QED BY <1>1, <1>2 DEF Inductive, IdsAreHeld, Holding, AnsweredIsUnlisted, NoLeftovers,
                 WaitersAreListed, MessagesMatchTable, OwnAnswer, FlagFirst, NoCallStranded,
                 Drained, Nothing, Closed

LEMMA InductiveStep == Inductive /\ [Next]_vars => Inductive'
<1> SUFFICES ASSUME Inductive, [Next]_vars PROVE Inductive'
  OBVIOUS
<1>1. TypeOK'
  BY TypeStep DEF Inductive
<1>2. CASE Next
  BY <1>1, <1>2, TableStep, MatchStep, AnswerStep, FlagStep, StrandedStep DEF Inductive, Table
<1>3. CASE UNCHANGED vars
  BY <1>1, <1>3 DEF vars, Inductive, IdsAreHeld, Holding, AnsweredIsUnlisted, NoLeftovers,
        WaitersAreListed, MessagesMatchTable, InFlight, Holds, OwnAnswer, FlagFirst,
        NoCallStranded, Drained
<1>4. QED BY <1>2, <1>3

THEOREM InductiveHolds == Safety => []Inductive
<1>1. QED BY InductiveInit, InductiveStep, PTL DEF Safety

(* Every variable of a session keeps to its type. *)
THEOREM TypeCorrect == Safety => []TypeOK
BY InductiveHolds, PTL DEF Inductive

(* Every answer goes to the call that asked, for any number of calls and ids. *)
THEOREM AnswersAreOwn == Safety => []OwnAnswer
BY InductiveHolds, PTL DEF Inductive

(* A shutdown leaves no call waiting for an answer that will not come. *)
THEOREM NoneStranded == Safety => []NoCallStranded
BY InductiveHolds, PTL DEF Inductive

(* The table holds only calls in progress and cancelled ones, under their own ids. *)
THEOREM TableIsTidy == Safety => []TidyTable
BY InductiveHolds, PTL DEF Inductive, TidyTable

-----------------------------------------------------------------------------
(* The session implements CallService: what each step is to the callers. *)

StatusMap == [c \in Calls |-> Status(c)]

(* A step that moves only tasks and messages is a stutter, or the session going down. *)
LEMMA QuietSteps ==
  ASSUME TypeOK, UNCHANGED <<pc, outcome>>, closed' = TRUE \/ closed' = closed
  PROVE  Service!GoDown \/ UNCHANGED Service!vars
<1>1. CASE closed' = closed
  BY <1>1 DEF Service!vars, Status
<1>2. CASE ~closed /\ closed' = TRUE
  <2> DEFINE R == {c \in Calls : pc[c] = "registered"}
  <2>1. \A c \in R : StatusMap[c] = "waiting" /\ Status(c)' = "refused"
    BY <1>2 DEF StatusMap, Status
  <2>2. \A c \in Calls \ R : Status(c)' = StatusMap[c]
    BY <1>2 DEF StatusMap, Status
  <2>3. StatusMap' = [c \in Calls |-> IF c \in R THEN "refused" ELSE StatusMap[c]]
    BY <2>1, <2>2 DEF StatusMap
  <2>4. R \in SUBSET {c \in Calls : StatusMap[c] = "waiting"}
    BY <2>1
  <2>5. QED BY <1>2, <2>3, <2>4 DEF Service!GoDown, StatusMap
<1>3. QED BY <1>1, <1>2 DEF TypeOK

LEMMA CallRefines ==
  ASSUME Inductive, NEW c \in Calls, CallStep(c)
  PROVE  [Service!Next]_(Service!vars)
<1> USE DEF Inductive, TypeOK, calls, table, socket
<1>1. ASSUME NEW to, Status(c)' = to, \A d \in Calls : d # c => pc'[d] = pc[d], closed' = closed
      PROVE  StatusMap' = [StatusMap EXCEPT ![c] = to]
  BY <1>1 DEF StatusMap, Status
<1>2. CASE Register(c)
  <2>1. Status(c)' = (IF closed THEN "refused" ELSE "waiting") /\ Status(c) = "idle"
    BY <1>2 DEF Register, Status
  <2>2. StatusMap' = [StatusMap EXCEPT ![c] = IF closed THEN "refused" ELSE "waiting"]
    BY <1>1, <1>2, <2>1 DEF Register
  <2>3. Service!Issue(c)
    BY <1>2, <2>1, <2>2 DEF Register, Service!Issue, StatusMap
  <2>4. QED BY <2>3 DEF Service!Next
<1>3. CASE CheckClosed(c) \/ Expire(c) \/ (Enqueue(c) /\ queueOpen)
  <2>1. \A d \in Calls : Status(d)' = Status(d)
    BY <1>3 DEF CheckClosed, Expire, Enqueue, Status
  <2>2. UNCHANGED <<closed, outcome>>
    BY <1>3 DEF CheckClosed, Expire, Enqueue
  <2>3. QED BY <2>1, <2>2 DEF Service!vars
<1>4. CASE Enqueue(c) /\ ~queueOpen
  <2>1. closed
    BY <1>4 DEF FlagFirst
  <2>2. Status(c)' = "refused" /\ Status(c) = "waiting"
    BY <1>4 DEF Enqueue, Status
  <2>3. StatusMap' = [StatusMap EXCEPT ![c] = "refused"]
    BY <1>1, <1>4, <2>2 DEF Enqueue
  <2>4. Service!Refuse(c)
    BY <1>4, <2>1, <2>2, <2>3 DEF Enqueue, Service!Refuse, StatusMap
  <2>5. QED BY <2>4 DEF Service!Next
<1>5. CASE Refused(c) \/ Forget(c) \/ TakeReply(c)
  <2>1. Status(c)' = "done" /\ closed' = closed
    BY <1>5 DEF Refused, Forget, TakeReply, Finish, Status
  <2>2. StatusMap' = [StatusMap EXCEPT ![c] = "done"]
    BY <1>1, <1>5, <2>1 DEF Refused, Forget, TakeReply, Finish
  <2>3. CASE Refused(c)
    <3>1. closed /\ Status(c) = "refused"
      BY <2>3 DEF Refused, FlagFirst, Status
    <3>2. outcome' = [outcome EXCEPT ![c] = Service!Closed]
      BY <2>3 DEF Refused, Finish, Closed, Service!Closed
    <3>3. Service!Return(c)
      BY <2>1, <2>2, <3>1, <3>2 DEF Service!Return, StatusMap
    <3>4. QED BY <3>3 DEF Service!Next
  <2>4. CASE Forget(c)
    <3>1. Status(c) = "waiting"
      BY <2>4 DEF Forget, Status
    <3>2. outcome' = [outcome EXCEPT ![c] = Service!TimedOut]
      BY <2>4 DEF Forget, Finish, TimedOut, Service!TimedOut
    <3>3. Service!Return(c)
      BY <2>1, <2>2, <3>1, <3>2 DEF Service!Return, StatusMap, Service!Answers
    <3>4. QED BY <3>3 DEF Service!Next
  <2>5. CASE TakeReply(c)
    <3>1. Status(c) = "waiting"
      BY <2>5 DEF TakeReply, Status
    <3>2. outcome' = [outcome EXCEPT ![c] = reply[c]]
      BY <2>5 DEF TakeReply, Finish
    <3>3. reply[c] = Closed => closed
      BY DEF FlagFirst
    <3>4. reply[c] \in {Closed, TimedOut, Unframable, Value(c), Remote(c)}
      <4>1. reply[c] \in Results \ {Nothing}
        BY <2>5 DEF TakeReply
      <4>2. reply[c].kind \in {"value", "remote"} => reply[c].of = c
        BY DEF OwnAnswer
      <4>3. \A d \in Calls : /\ Value(d).kind = "value" /\ Value(d).of = d
                            /\ Remote(d).kind = "remote" /\ Remote(d).of = d
        BY DEF Value, Remote
      <4>4. QED BY <4>1, <4>2, <4>3 DEF Results
    <3>5. Service!Closed = Closed /\ Service!Answers(c) = {Value(c), Remote(c), TimedOut, Unframable}
      BY DEF Service!Closed, Closed, Service!Answers, Service!Value, Value, Service!Remote,
             Remote, Service!TimedOut, TimedOut, Service!Unframable, Unframable
    <3>6. Service!Return(c)
      BY <2>1, <2>2, <3>1, <3>2, <3>3, <3>4, <3>5 DEF Service!Return, StatusMap
    <3>7. QED BY <3>6 DEF Service!Next
  <2>6. QED BY <1>5, <2>3, <2>4, <2>5
<1>6. CASE Cancel(c)
  <2>1. Status(c)' = "abandoned" /\ Status(c) = "waiting"
    BY <1>6 DEF Cancel, Status
  <2>2. StatusMap' = [StatusMap EXCEPT ![c] = "abandoned"]
    BY <1>1, <1>6, <2>1 DEF Cancel
  <2>3. Service!Abandon(c)
    BY <1>6, <2>1, <2>2 DEF Cancel, Service!Abandon, StatusMap
  <2>4. QED BY <2>3 DEF Service!Next
<1>7. QED BY <1>2, <1>3, <1>4, <1>5, <1>6 DEF CallStep

(***************************************************************************)
(* A session does for its callers what CallService promises: each call     *)
(* returns at most once, with its own answer or an error, "closed" comes   *)
(* only from a session that went down, and no call issued after that is    *)
(* served.                                                                 *)
(***************************************************************************)
THEOREM SessionImplementsService == Safety => ImplementsServiceSafety
<1>1. Init => Service!Init
  <2> SUFFICES ASSUME Init PROVE Service!Init
    OBVIOUS
  <2>1. \A c \in Calls : Status(c) = "idle"
    BY DEF Init, Status
  <2>2. QED BY <2>1 DEF Init, Service!Init, Nothing, Service!Nothing
<1>2. Inductive /\ [Next]_vars => [Service!Next]_(Service!vars)
  <2> SUFFICES ASSUME Inductive, [Next]_vars PROVE [Service!Next]_(Service!vars)
    OBVIOUS
  <2>1. ASSUME NEW c \in Calls, CallStep(c) PROVE [Service!Next]_(Service!vars)
    BY <2>1, CallRefines
  <2>2. CASE \/ TakeOutbound \/ WriterDrains \/ ReadAnswer \/ ReaderDrains \/ Elsewhere
             \/ UNCHANGED vars
    <3>1. UNCHANGED <<pc, outcome>>
      BY <2>2, ElsewhereUnchanged
         DEF TakeOutbound, WriterDrains, ReadAnswer, ReaderDrains, vars
    <3>2. closed' = TRUE \/ closed' = closed
      BY <2>2 DEF TakeOutbound, WriterDrains, ReadAnswer, ReaderDrains, Elsewhere, TakeStop,
           Written, WriteFails, WriterCloses, WriterEnds, ReadSkipped, ReadKeepAlive,
           ReadLast, ReadFails, ReaderCloses, ReaderEnds, Close, Subscribe, Pt, PtReads,
           PtAnswers, PtSpeaks, PtGoes, vars
    <3>3. QED BY <3>1, <3>2, QuietSteps DEF Inductive, Service!Next
  <2>3. QED BY <2>1, <2>2, NextCases
<1>3. QED BY <1>1, <1>2, InductiveHolds, PTL DEF Safety, ImplementsServiceSafety, Service!Safety
==============================================================================

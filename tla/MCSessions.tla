----------------------------- MODULE MCSessions -----------------------------
(***************************************************************************)
(* How calls come to their session and what becomes of them on it, in one  *)
(* run: a behaviour is about the connection that all calls share           *)
(* (LiveConnection), or about one call on one session (PtmpSession).  The  *)
(* part it is not about stays in an initial state, in which nothing it     *)
(* owes is enabled, so that both are as fair as they are alone.            *)
(***************************************************************************)
EXTENDS LiveConnection

CONSTANTS Calls, NoCall, IdSpace, Window, MaxNoise

VARIABLES step, id, reply, outcome, pending, nextId, closed, outbound, queueOpen, permit,
          writer, writing, reader, closer, socket, toPt, backlog, fromPt, noise

Session == INSTANCE PtmpSession WITH pc <- step, queue <- outbound, conn <- socket

sessionvars == <<step, id, reply, outcome, pending, nextId, closed, outbound, queueOpen, permit,
                 writer, writing, reader, closer, socket, toPt, backlog, fromPt, noise>>

ConnectionIdle == Init /\ \A p \in Addresses : server[p] = "nothing"

SessionsInit == Init /\ Session!Init

SessionsNext ==
  \/ Session!Init /\ Next /\ UNCHANGED sessionvars
  \/ ConnectionIdle /\ Session!Next /\ UNCHANGED vars

SessionsSpec ==
  /\ SessionsInit /\ [][SessionsNext]_<<vars, sessionvars>>
  /\ Fairness /\ Session!Fairness

-----------------------------------------------------------------------------
\* Every call started on a session returns or is cancelled, whatever
\* Packet Tracer does.
EveryCallReturns == Session!EveryCallReturns

\* When the connection is gone both tasks end, and with them both halves of the socket are
\* dropped.
SocketReleased == Session!SocketReleased

\* The session implements what CallService promises, its fairness included.
ImplementsService == Session!ImplementsService
=============================================================================

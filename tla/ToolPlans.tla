----------------------------- MODULE ToolPlans -----------------------------
(***************************************************************************)
(* How a tool is written down as data: the IPC calls it makes, in order.   *)
(* A tool's plan is a sequence of calls that may depend on the answers the *)
(* tool has had so far (`seen`, one entry for each call it made), so the   *)
(* call it makes next is the one after the last answer.  packet_tracer/    *)
(* mod.rs gives every call the same outcomes: a value, NotFound (here      *)
(* "missing"), or an error that ends the tool.                             *)
(***************************************************************************)
EXTENDS Integers, Sequences, FiniteSets

\* One IPC call: the method, the object it is called on, its argument, the answers the
\* tool goes on after, and whether it goes on when no answer comes (`.is_ok()`,
\* `.is_err()`, `unwrap_or`).
Item(op, at, val, need, soft) ==
  [op |-> op, at |-> at, val |-> val, need |-> need, soft |-> soft]

\* `call(..).await?`: any value will do.
Tell(op, at, val) == Item(op, at, val, {"ok", "yes", "no"}, FALSE)

Ask(op, at) == Tell(op, at, <<>>)

\* `if !expect_bool(..)? { return Err(Rejected(..)) }`
Must(op, at, val) == Item(op, at, val, {"ok", "yes"}, FALSE)

\* The tool goes on whatever comes of it.
Try(op, at, val) == Item(op, at, val, {"ok", "yes", "no", "missing", "lost"}, TRUE)

\* `return Err(InvalidInput(..))`
Refuse == Item("refuse", "", <<>>, {}, FALSE)

When(condition, plan) == IF condition THEN plan ELSE <<>>

Check(condition) == When(~condition, <<Refuse>>)

\* `first`, and what comes after it once its answers are there: Rest takes the answers
\* of `first` and those after them.
Then(first, seen, Rest(_, _)) ==
  IF Len(seen) < Len(first) THEN first
  ELSE first \o Rest(SubSeq(seen, 1, Len(first)), SubSeq(seen, Len(first) + 1, Len(seen)))

\* `for k in 0..n { if Stop(Poll(k)) { break } }`, as far as the answers allow.
Polls(Poll(_), n, seen, Stop(_)) ==
  LET upto == {k \in 1..n : k <= Len(seen) + 1 /\ \A o \in 1..(k - 1) : ~Stop(seen[o])} IN
  [k \in upto |-> Poll(k)]

\* plans[k][used] is what the k-th goes on with when those before it took `used` of the n
\* answers.
Joined(plans, n) ==
  LET from[k \in 1..(Len(plans) + 1)] ==
        [used \in 0..n |->
           IF k > Len(plans) THEN <<>>
           ELSE LET plan == plans[k][used] IN
                IF used + Len(plan) > n THEN plan ELSE plan \o from[k + 1][used + Len(plan)]] IN
  from[1][0]

\* `for item in items { .. }`: the plans of the items one after the other, each of which
\* may depend on its own answers.
InTurn(items, seen, Plan(_, _)) ==
  Joined([k \in 1..Len(items) |->
            [used \in 0..Len(seen) |-> Plan(items[k], SubSeq(seen, used + 1, Len(seen)))]],
         Len(seen))

----------------------------------------------------------------------------
\* What Packet Tracer answers: its state after the call, the kind of answer and the
\* value in it.

Replies(p, is, data) == [pt |-> p, is |-> is, data |-> data]

Obeys(p) == Replies(p, "ok", "")

Gives(p, data) == Replies(p, "ok", data)

Says(p, truth) == Replies(p, IF truth THEN "yes" ELSE "no", "")

\* The call changed the state to q if it could, and says whether it could.
Did(p, could, q) == Replies(IF could THEN q ELSE p, IF could THEN "yes" ELSE "no", "")

Missing(p) == Replies(p, "missing", "")

\* `Remote::unknown_method`
Unknown(p) == Replies(p, "rejected", "")
=============================================================================

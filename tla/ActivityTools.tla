--------------------------- MODULE ActivityTools ---------------------------
(***************************************************************************)
(* The tools of an activity file (features/activity): status, instructions,*)
(* unlock, check, reset and the network's description.  Until its password *)
(* is confirmed, Packet Tracer answers nothing about an activity but its   *)
(* instructions; a burst of getters is one look.                           *)
(***************************************************************************)
EXTENDS ToolPlans

CONSTANTS
  Password,       \* the password of the activity, "" for none
  Instructions,   \* pages of instructions
  Tests           \* connectivity tests

ASSUME TestsAssumption == Tests \in Nat

\* `require_activity` and `require_unlocked`; a look that answers no refuses.
require_activity == <<Must("isActivityFile", "", <<>>)>>

require_unlocked == require_activity \o <<Must("isPasswordConfirmed", "", <<>>)>>

\* What a locked activity does not tell is not asked.
status(seen) ==
  Then(<<Ask("getSavedFilename", ""), Ask("isActivityFile", "")>>, seen,
       LAMBDA got, more :
         IF got[2].is = "no" THEN <<>>
         ELSE Then(<<Ask("isPasswordConfirmed", "")>>, more,
                LAMBDA confirmed, rest :
                  IF confirmed[1].is = "no" THEN <<Ask("getInstructionCount", "")>>
                  ELSE <<Ask("getScores", ""), Ask("getTimes", ""), Ask("getTimerType", "")>>))

unlock(r, seen) ==
  Then(require_activity \o <<Must("confirmPassword", "", r.password)>>, seen,
       LAMBDA got, more : status(more))

instructions(r, seen) ==
  Then(require_activity \o <<Ask("getInstructionCount", "")>>, seen,
       LAMBDA got, more : Check(r.page \in 1..got[2].data) \o <<Tell("getInstruction", "", r.page)>>)

\* The tests are counted after they were run and their lines read one by one.
check_activity(r, seen) ==
  Then(require_unlocked \o <<Tell("runConnectivityTests", "", <<>>), Ask("getConnectivityCount", "")>>, seen,
       LAMBDA got, more :
         Then([k \in 1..got[4].data |-> Tell("getLastConnectivityTestResultAt", "", k)], more,
              LAMBDA lines, rest : status(rest)))

reset(r, seen) ==
  Then(require_unlocked \o <<Tell("resetActivity", "", <<>>)>>, seen, LAMBDA got, more : status(more))

description(r) ==
  When(r.given, <<Tell("setNetworkDescription", "", r.text)>>) \o <<Ask("getNetworkDescription", "")>>

ActivityPlan(r, seen) ==
  CASE r.tool = "activity_status"       -> status(seen)
    [] r.tool = "activity_instructions" -> instructions(r, seen)
    [] r.tool = "unlock_activity"       -> unlock(r, seen)
    [] r.tool = "check_activity"        -> check_activity(r, seen)
    [] r.tool = "reset_activity"        -> reset(r, seen)
    [] r.tool = "network_description"   -> description(r)

----------------------------------------------------------------------------
\* Packet Tracer's side.

\* What asks about an activity fails without one, and what the password guards fails
\* until it is confirmed.
Guarded(p, reply) == IF p.activity /\ p.unlocked THEN reply ELSE Missing(p)

ActivityAnswer(p, c) ==
  CASE c.op = "isActivityFile" -> Says(p, p.activity)
    [] c.op = "getSavedFilename" -> Obeys(p)
    [] c.op = "getNetworkDescription" -> Gives(p, p.description)
    [] c.op = "setNetworkDescription" -> Obeys([p EXCEPT !.description = c.val])
    [] c.op = "isPasswordConfirmed" -> IF p.activity THEN Says(p, p.unlocked) ELSE Missing(p)
    [] c.op = "confirmPassword" ->
         IF p.activity THEN Says([p EXCEPT !.unlocked = Password \in {"", c.val}], Password \in {"", c.val})
         ELSE Missing(p)
    [] c.op = "getInstructionCount" -> IF p.activity THEN Gives(p, Instructions) ELSE Missing(p)
    [] c.op = "getInstruction" -> IF p.activity /\ c.val \in 1..Instructions THEN Obeys(p) ELSE Missing(p)
    [] c.op \in {"getScores", "getTimes", "getTimerType"} -> Guarded(p, Obeys(p))
    [] c.op = "runConnectivityTests" -> Guarded(p, Obeys([p EXCEPT !.tested = TRUE]))
    [] c.op = "getConnectivityCount" -> Guarded(p, Gives(p, IF p.tested THEN Tests ELSE 0))
    [] c.op = "getLastConnectivityTestResultAt" -> Guarded(p, IF c.val \in 1..Tests THEN Obeys(p) ELSE Missing(p))
    [] c.op = "resetActivity" -> Guarded(p, Obeys([p EXCEPT !.elapsed = FALSE, !.tested = FALSE]))
    [] OTHER -> Unknown(p)

----------------------------------------------------------------------------
\* What the properties ask about.

\* A network, or an activity that some time was spent on.
ActivityInit ==
  {[part |-> "activity", activity |-> a, unlocked |-> Password = "", tested |-> FALSE,
    elapsed |-> TRUE, description |-> ""] : a \in BOOLEAN}

ActivityTopics(r) ==
  CASE r.tool \in {"activity_status", "activity_instructions"} -> {}
    [] r.tool = "network_description" -> {"description"}
    [] OTHER                          -> {"activity"}

ActivityWanted(r, was, now) ==
  CASE r.tool = "unlock_activity" -> now.activity /\ now.unlocked
    [] r.tool = "check_activity"  -> was.unlocked /\ now.unlocked /\ now.tested /\ now.elapsed = was.elapsed
    [] r.tool = "reset_activity"  -> was.unlocked /\ now.unlocked /\ ~now.tested /\ ~now.elapsed
    [] r.tool = "network_description" /\ r.given -> now.description = r.text
    [] OTHER -> TRUE

\* A network that is no activity is never unlocked, checked or reset.
ActivitySound(p) == ~p.activity => ~p.tested /\ p.elapsed /\ (p.unlocked = (Password = ""))
=============================================================================

----------------------------- MODULE MCIosConsole -----------------------------
(* Requests for one or two calls at a console. *)
EXTENDS IosConsole, TLC

CONSTANTS a, b

CliRequests(modes, commands, line, enable) ==
  {[tool |-> "run_cli", mode |-> m, command |-> c, line |-> l, enable |-> e] :
     m \in modes, c \in commands, l \in line, e \in enable}

Sometimes == {"none", "line_secret"}
Often == {"none", "enable_secret", "wrong"}

AnyCli == CliRequests({"user", "enable", "global"}, {"show", "reload", "enable"}, Sometimes, Often)
            \cup CliRequests({"current"}, {"show", "reload", "enable", ""}, Sometimes, Often)
LeavingTraces == CliRequests({"global", "current"}, {"interface", "reload"}, {"none"}, {"none"})
AsksPassword == CliRequests({"enable", "current"}, {"enable"}, {"none"}, Often)

Blocks(commands, n) ==
  {[tool |-> "configure_ios", commands |-> c, save |-> s] :
     c \in UNION {[1 .. k -> commands] : k \in 1 .. n}, s \in BOOLEAN}

Short == Blocks({"hostname", "interface", "end", "bogus"}, 2)
Nested ==
  {[tool |-> "configure_ios", commands |-> <<"interface", x, y>>, save |-> s] :
     x \in {"ip_address", "exit", "end"}, y \in {"hostname", "ip_address", "enable"}, s \in BOOLEAN}

Either == (a :> AnyCli \cup Short) @@ (b :> LeavingTraces \cup AsksPassword \cup Short \cup Nested)
==============================================================================

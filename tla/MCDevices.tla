----------------------------- MODULE MCDevices -----------------------------
\* Constants of the runs of Devices.
EXTENDS Devices

MCGrid == <<>>

Adds(n, at) == [tool |-> "add", name |-> n, to |-> NoName, at |-> at, on |-> FALSE]
On1(tool, n, on) == [tool |-> tool, name |-> n, to |-> NoName, at |-> MCGrid, on |-> on]
Renames(n, m) == [tool |-> "rename", name |-> n, to |-> m, at |-> MCGrid, on |-> FALSE]
Moves(n, at) == [tool |-> "move", name |-> n, to |-> NoName, at |-> at, on |-> FALSE]
Cycle == [tool |-> "cycle", name |-> NoName, to |-> NoName, at |-> MCGrid, on |-> FALSE]

MCPicks == <<"Router0", "Router1", "Router2", "Router3">>

\* Every tool, about a name Packet Tracer may pick, one it never picks and none.
MCRequests ==
  {Adds(NoName, MCGrid), Adds("Core", MCGrid), Adds("Router0", <<500, 500>>),
   Renames("Router0", "Core"), Renames("Core", "Router1"), Renames("Core", "Core"),
   On1("remove", "Router0", FALSE), On1("remove", "Core", FALSE),
   Moves("Core", <<500, 500>>),
   On1("power", "Router0", FALSE), On1("power", "Router0", TRUE),
   On1("power", "Core", FALSE),
   On1("module", "Router0", TRUE), On1("module", "Router0", FALSE), Cycle}

\* One agent adds devices without coordinates and removes one.
MCOneByOne == {Adds(NoName, MCGrid), On1("remove", "Router0", FALSE)}
=============================================================================

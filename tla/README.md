# A TLA+ verification of pktctl

`pktctl` is an MCP server, written in Rust, that lets agents drive Cisco Packet
Tracer over its inter-process protocol, PTMP. Agents run tool calls in parallel;
every call shares one connection, one pending table, one event stream and one open
network in Packet Tracer. This directory holds TLA+ models of the parts where that
is hard to get right, TLC configurations that check them on small instances, and
TLAPS proofs of the properties that matter most for every size.

    tlc -workers 2 -config MCProtocol.cfg MCProtocol           # any run of the table
    tlapm PtmpSessionProofs.tla                                # any module of proofs

`PROJECT.json` lists the components, runs, mutants, the source lines behind each
definition, the hazards found in the code and the theorems.

## 1. The system

| Part (source) | State it keeps | Operations | What is hard |
|---|---|---|---|
| PTMP session (`ptmp/src/session.rs`) | pending table, id counter, closed flag, outbound queue, event broadcast | `call`, `close`, `subscribe`, `events`; writer and reader tasks | table and flag are shared by calls and two tasks; answers out of order or late; shutdown against calls under way |
| Handshake and live connection (`session.rs`, `negotiation.rs`, `packet_tracer/live.rs`) | the session in a mutex, the address that worked last | `session`, `connect` | many calls find the connection gone at once; ports that refuse, hang or reject; cancellation while the mutex is held |
| Terminal runs and watches (`features/terminal.rs`, `events`) | subscriptions at Packet Tracer, one broadcast receiver each | `run`, `interrupt`, `watch` | bounded buffer, events of other terminals, pages, time-out against the end of the command, reconnection between subscriptions |
| IOS console (`features/cli`) | none; Packet Tracer's console has a mode, a screen, passwords | `run_cli`, `configure_ios` | a walk through modes, passwords and questions; calls that fail in the middle of a block |
| Devices, power, modules (`features/devices`, `power`, `modules`, `catalog`) | none; Packet Tracer has the devices and their slots | add, rename, move, remove, `set_power`, `power_cycle_all`, `list_slots`, `add_module`, `remove_module`, `list_models` | checks and changes are separate IPC calls; lost replies; look-ups by name and by index; a device is switched off for a change |
| Links (`features/links`) | none | `connect`, `disconnect`, lists | two checks before one change |
| Network files, edits (`features/workspace/files.rs`, `network_file.rs`, `pktfile`) | a counter of scratch files; files on disk | save, open, new, edits through the file | the open network is discarded before the new one is known to open; changes by others in between; every object has a new uuid afterwards |
| Physical workspace (`features/physical`, `pktfile/src/physical.rs`) | none | locations made, named, moved, removed, arranged, backgrounds | walks that stop half way; objects named by paths, uuids and names that change |
| Hosts, services, desktop, wireless (`features/...`) | none | setters, polls, events of an application | settings that take effect one by one; events every listener hears; a retry after a lost answer |
| Simulation, preferences, activities, canvas (`features/...`) | none | mode and steps, flags, a lock, notes, drawings, screenshots | a mode read once and used for many steps; a view left for a moment |
| PTMP wire format (`ptmp/src/frame.rs`, `value.rs`, `message.rs`, ...) | the buffer of the stream | encode, decode | lengths that arrive in pieces, values that nest and do not say where they end |
| Raw IPC (`features/ipc`, `packet_tracer/api.rs`) | none; the index of the API is fixed | `call_ipc`, `describe_ipc` | the class of an object may be known only when Packet Tracer is asked; every IPC call walks its whole path anew |
| MCP server, configuration, setup, status (`server.rs`, `config.rs`, `setup`, `status`, `tools/ipc-index`) | none | dispatch, look-ups | rmcp runs every tool call as a task of its own: the concurrency of all of the above |

How they interact: a tool call makes IPC calls through `LivePacketTracer::call`,
which takes the session from the mutex (connecting if need be), releases the mutex
and calls `Session::call`. That registers the call in the pending table, queues the
message for the writer task and waits, with a time-out, for the reader task to resolve
it. Events go from the reader task to every broadcast receiver. When either task ends
it raises the closed flag and drains the table, and the next call reconnects. Nothing
above `Session::call` is held across two IPC calls of a tool, so tools interleave
freely in Packet Tracer.

What makes each part correct:

- session: an answer reaches the call that asked, each call returns, no call is
  stranded by a shutdown, the table keeps nothing of calls that returned, both halves of
  the socket are released;
- connection: at most one session, shared by everyone; all addresses are tried, each
  once; the failure reported is the most telling; Packet Tracer is found if it is there;
- terminals: a finished run's output is its own command's, whole and in order; a run
  that gives up leaves a free prompt; whoever listens is subscribed;
- console: nothing is typed into a question or a wrong mode; a block keeps its context;
  `saved` means saved; errors leave the console usable;
- devices: names stay unique but for races, refusals change nothing, what was switched
  off comes back on, what is answered as done is done;
- the other tools: what Packet Tracer holds stays well-formed whatever is lost or
  interleaved; what can be checked is checked before the first change; a tool that
  says it is done did what it was asked and nothing else; a call that sets something
  gets through when it is repeated after its answer was lost;
- wire: however the stream is cut up, the messages read are the messages written.

## 2. The modules

| Module | Models | Extends / refines |
|---|---|---|
| `CallService` | what a session promises to its callers, without sockets or tables | - |
| `PtmpSession` | calls, pending table, writer, reader, close, Packet Tracer's side of the socket | refines `CallService` |
| `PtmpSessionProofs` | TLAPS proofs | `PtmpSession` |
| `LiveConnection` | the mutex, the slot, the search through the addresses and the handshake at each | - |
| `LiveConnectionProofs` | TLAPS proofs | `LiveConnection` |
| `Terminal` | runs and watches, subscriptions, broadcast, reconnection, the terminals | - |
| `TerminalProofs` | TLAPS proofs: subscriptions and free prompts; then what a run returns | `Terminal` |
| `IosConsole` | `run_cli` and `configure_ios` at an IOS console | - |
| `IosConsoleProofs` | TLAPS proofs | `IosConsole` |
| `Devices` | the tools on devices, their power and modules, several at once | - |
| `DevicesProofs` | TLAPS proofs: operations on networks, the invariant, the actions, the answers | `Devices` |
| `NetworkFiles` | save, open, new and the edits through the file, several at once, beside other tools | - |
| `NetworkFilesProofs` | TLAPS proofs | `NetworkFiles` |
| `Wire` | frames, fields, values and messages, between two ends of a socket | - |
| `ToolPlans` | how a tool is written down as a plan of IPC calls | - |
| `LinkTools`, `HostTools`, `ServiceTools`, `SimulationTools`, `PreferenceTools`, `ActivityTools`, `SlotTools` | the plans of one feature's tools, and Packet Tracer's answers | `ToolPlans` |
| `DesktopTools` | the Desktop apps, against the server of the services | `ServiceTools` |
| `FileEdits` | `edit_saved_network` as part of a plan; the physical tree in the file | `ToolPlans` |
| `PhysicalTools`, `CanvasTools` | places, backgrounds; notes, drawings, screenshots | `FileEdits` |
| `WirelessTools` | access points and clients | `HostTools`, `FileEdits` |
| `IpcTools` | `call_ipc`: the walk along a path, the index, the arguments, what it refuses | `ToolPlans` |
| `ToolCalls` | several MCP calls working off plans against one Packet Tracer, with lost calls and repetitions | all of the tools |
| `McpCalls` | the tasks in which the server answers MCP calls | extended by `Devices` and `ToolCalls` |
| `MCNetwork` | one run over `Devices` and every part of `ToolCalls` | `MCDevices`, `ToolCalls` |
| `NetworkProofs` | TLAPS proofs about that run's specification: what stays well-formed | `MCNetwork`, `DevicesProofs` |
| `RefusalsProofs` | TLAPS proofs: what a tool that refuses has done | `NetworkProofs` |
| `MCProtocol` | one run over the session and the bytes under it | `MCPtmpSession`; instantiates `Wire` |
| `MCSessions` | one run, under fairness, over the connection and a call on its session | `LiveConnection`; instantiates `PtmpSession` |
| other `MC...` | constants, symmetry sets and request sets for TLC | the module named |

### PtmpSession and CallService

One action per step of `Session::call` between two accesses of shared state:
`Register` (draw an id, insert the entry), `CheckClosed`, `Enqueue`, then `TakeReply`,
`Expire` (the time-out) or `Cancel` (the caller's future is dropped), and `Forget` (the
entry is removed). `write_loop` is `TakeOutbound`, `Written`, `WriteFails`,
`TakeStop`; `read_loop` is one action per kind of message (`ReadAnswer` with `Resolve`,
`ReadKeepAlive`, `ReadSkipped`, `ReadLast`, `ReadFails`). `shut_down` is three steps
of whichever task runs it, because the other task and the calls can act in between: raise the
flag, drain the table, leave the permit. Packet Tracer reads, answers in any order
with a value or an error, says other things, or goes away (external actions). Ids wrap
at `IdSpace` (2^32 in the code). `IdIsFree` lets an id come round again only when everything
about its last holder is settled: 2^32 calls within one time-out are out of the
code's reach, and with a small `IdSpace` it is this guard, not luck, that says so.

`CallService` is the promise: a call returns at most once, with its own answer or an
error; `closed` only from a session that is down; a call issued to a session that is
down is never served. The refinement maps a call's `pc`, `outcome` and the flag.

### LiveConnection

`Asks` joins the queue at the mutex, `Enters` is the head's look at the slot,
`Restart`, `Advances`, `FailsAt`, `Connects`, `GivesUp` are the search: the last good
address first, the handshake stage by stage, failures kept by `Rank`. `Takes` hands out the
session, `Cancel` drops a call wherever it is. The programs that listen on the ports change
freely (`Changes`): nothing, another program, Packet Tracer with the app registered, without it,
or held up by a dialog. The digest is abstracted to whether it is accepted.

### Terminal

`Start`, `SubscribeNext`, `Type`, `TakeEvent` (with `Take`, `Handle`, `Gather`),
`PressSpace`, `Timeout`, `Interrupt`, `UnsubscribeNext`, `Finish` follow
`Terminal::run`; `WatchTake` is `watch`'s loop. `Broadcast` pushes an event to every
receiver and drops the oldest of a full one (`Push`); `Reconnect` makes a new session,
whose subscriptions start empty while old receivers stay with the old one. Assumed of
Packet Tracer: the interrupt key ends the command at once, a lost connection leaves the
terminals going, subscriptions are a set of keys (as `fake.rs` has it).

### IosConsole

`SkipBoot` and `ReadyConsole` are `ready_console`; `CheckQuestion` and `Unlock` what
`run` does before it types; `ReadMode`, `SwitchMode`, `AnswerStep`, `Escape`, `Verify` are
`switch_mode` along `mode_path`; `TypeCommand` and `AnswerPassword` the command itself;
`EnterCommand`, `EnterFails`, `EnterEnd`, `WriteMemory` are `configure`. IOS is a relation from
mode, command and secret to mode, screen and status, taken from the test canvas and the documented
behaviour: a wrong enable secret is asked for again or ends in "Bad secrets", an empty one
gives up; `enterCommand` goes past the console's login and shares its mode. Calls of
a tool in `Overlap` may run side by side, others take turns. `BackAtPrompt` is about every refusal
of a `run_cli` that is past what was open at the console when it came (a question, a line password): a failed
step, another mode, an enable password that is missing or wrong leave the prompt free. `cli/README.md` promises the prompt of any missing or wrong password,
which is `PasswordErrorsLeavePrompt`, violated at the line password.

### Devices

Every tool is its sequence of IPC calls, one action each (`Find`, `Unused`, `Count`,
`Create`, `SetName`, `Describe`, `Move`, `Remove`, `Row`, `Cut`, `Darken`, `Look`,
`Switch`, `Verify`, `PowerOff`, `Change`, `PowerOn`, ...), so any other call may run between a check and
the change it guards. A call may be lost before it takes effect (`Lose`) or after
(`Changes`). Packet Tracer's side is taken from `testing/canvas`. Two calls *disturb* each
other when one concerns a name the other may use, free or create, or when one is the power
cycle of everything. Calls that ran beside such a race are marked `crossed`, and the properties
say what the others may rely on. Reads of one device that the code sends in one burst are one step.

### NetworkFiles

`CurrentFile`, `Folder`, `Write`, `Written` are `save_to` and what leads to it; `There`, `Clear`,
`Load`, `Count` are `open` (and `Clear` alone `new_network`); `Before`, `Bytes`, `WriteScratch`, then
those of `open`, then `ListUnits` and `Strip` are `edit_saved_network`. A network is what has been built
in it and its power units; `Build` stands for any other tool that changes it. Packet Tracer
may refuse `fileNew` and `fileOpen`, and writes nothing, silently, to a path in `Unwritable`: a file that was there
before stays as it was, and the code, which only looks whether there is one, takes it for the saved network. So
`KeptBeforeDiscard`, the promise of `workspace/README.md`, is violated; `KeptIfWritable` is what holds: nothing is discarded
unkept where the file can be written, and elsewhere only over a file that was there. An edit
is the mark it leaves; that it may not apply is a refusal at `WriteScratch`. A job is
`undisturbed` when nobody else has changed the network since it last saved or took it.

### ToolPlans, the tool modules and ToolCalls

Most tools are a sequence of IPC calls in which nothing is held between two of
them. `ToolPlans` writes such a tool down as data: a *plan* is the sequence of its calls,
given the answers it has had so far (`seen`). An item names the method, the object and the
argument, the kinds of answer the tool goes on after (`need`), and whether it goes on when no answer
comes (`soft`: the code's `.is_ok()` and `unwrap_or`). `<<Refuse>>` is an early `return Err`. So
`connect(r, seen)` reads like `connect.rs` with its `?` and its loops, and each call of
it is a step of its own.

A tool module also has Packet Tracer's side of the calls (`LinkAnswer` and so on: the new
state and the answer, as `testing/canvas` plays them), and what the network does by itself
(`...Settles`: leases, events that arrive, associations).
`ToolCalls` runs the plans: `pt` is Packet Tracer's state, `toolcall` what each task is at, `toolstarted` a
count that bounds the run. `ToolStarts` is an agent's request, checked and refused at once if its
plan begins with `Refuse`; `Answered` is an IPC call that comes back, `RequestLost` one
that never arrived, `ReplyLost` one that took effect unheard; `Settle` is the network's own
step. An agent whose call was lost may ask for the same again (`again`). Two requests
*disturb* each other when their `Topics` meet; a call that ran beside a disturbing one, or
between whose attempts one ran, is `crossed`, and the properties that speak of one call leave it
out. `Alone` is what a request would have come to had nothing else happened and nothing been lost.

The parts share no state, so a behaviour is about one of them, or (in `MCNetwork`) about
`Devices`. `AsksAssumption` says that requests are what the tools' schemas let through, `LeaseAssumption`
that a DHCP server gives addresses of its subnet, `SlotsAssumption` that slots sit in slots, and
`LabelsAssumption` and `AssociationAssumption` that the port labels and the looks at a client are finitely many. Data that no property tells apart is left out: texts, icons, timings.
What the parts keep of the data:

- `LinkTools`: kinds of devices, ports, cables, the cable chosen by kind and port;
- `HostTools`: addresses of `AddressBits` bits, with masks, networks and broadcasts computed as the
  code does; `ServiceTools`: pools, records, pages, accounts of one server;
- `DesktopTools`: events of an application's object, which every listener hears and which may come late. There is one
  subscription to an object: the first listener to stop withdraws it, and what is raised then is heard by nobody.
  A tunnel is up as soon as `connect` is answered, as the test canvas has it;
- `FileEdits`, `PhysicalTools`: the tree of places with a file's chains for each device;
  objects get new uuids when a network is opened, racks without a power unit get one, a closet that
  was added has a table (`physical/README.md`);
- `WirelessTools`: radios, the profiles a file holds, positions on a line;
- `SimulationTools`: mode, clock, frames and pending PDUs; `PreferenceTools`: flags and their two kinds of
  setter; `ActivityTools`: the lock, the tests; `CanvasTools`: notes, shapes, the view;
  `SlotTools`: slots within slots, the catalog and its loose look-up of names;
- `IpcTools`: the index of classes with their methods, the enums, the types of arguments. An IPC call names its
  whole path and walks it anew, so a step that makes an object (`createTimer`) makes one for each call that
  passes it. Enum numbers beyond an i32 become 0. How JSON is read, and `describe_ipc`, are left out; the two
  calls of `object_value` come one after the other.

Some sequences of reads are one look: `Snapshot::read`, the walk over slots, a note's text and position,
the look for access points, `move_to_location` where `connect_wireless` calls it.

### Wire

`Send` is `to_frame` and the encoder, `Arrive` a read of the socket of any length, `Take`
the decoder and `from_frame` on the reading end, `GiveUp` its error. `Garble` lets another program
send something that is no frame. A symbol is NUL or a stretch of text that the code never splits, except the
digits of a length prefix, which are symbols of their own; lengths count symbols. Values are encoded and
decoded by recursive operators that mirror `value.rs`, with value objects of known, unknown and varying
layouts, byte lists that may hold NULs, and texts that look like type codes.

## 3. The runs

| Run | Instance | What it shows |
|---|---|---|
| `session_safety` | 3 interchangeable calls, 2 ids, window 1; or 2 of 25 messages, the negotiation's among them, and garbage as bytes | types, own answers, nobody stranded by a shutdown, a tidy table; messages are read as they were written |
| `sessions` | 2 calls, 2 addresses, 2 sessions, 2 changes; or 1 call on its session, 2 other messages; fairness | one shared session, ranked failures, every call served, Packet Tracer found; the call returns, the socket is released, `CallService` is implemented |
| `terminals` | 2 runs on 1 or 2 terminals, 1 text; or a run and a watch, 2 texts, 3 connections; buffer 2, fairness | whole and own output, free prompt, subscribed while listening, nothing left subscribed, all return |
| `terminal_overrun` (violated) | 1 run, 2 texts, buffer 2 | output can be missed |
| `terminal_watch` (violated) | a run beside a watch | the run withdraws the watch's subscription |
| `ios_console` | 2 calls of any tool, blocks up to 3 commands | modes, questions, context, saving |
| `ios_left_configuring` (violated) | the same without overlap | a failed call leaves the device in configuration mode |
| `ios_login_left_open` (violated) | one `run_cli` at a console with a line password | a missing or wrong password leaves the question open |
| `network` | 4 calls of the device tools, up to 3 devices; or 2-3 calls of another part (raw IPC is one) and one repetition; 2 at a time | the network stays well-formed; races are the only way to clash; refusals change nothing, what was switched off and is known to be comes back on, done is done, repeated setters get through |
| `network_files` | 3 orders of 11, 2 at a time, 1 change by another tool | what was to be kept is on disk when it is discarded, where it can be written; edits neither mix nor lose anything |
| `files_kept_assumed` (violated) | the same | an old file that cannot be written passes for the saved network |
| `devices_grid` (violated) | 4 calls one by one | "the next free grid slot" may be taken |

Where a run has several layers or parts, a behaviour is about one of them, and the others stay in an initial state.
Under fairness (`sessions`) that is an initial state in which no fair action is enabled, so each half is as fair
as it is alone. The two scenes of `terminals` (`MCTerminal`) are told apart by where the first run is, and bound what
Packet Tracer does and who starts, never a run or a watch under way.

Every property of a passing run has a mutant in `PROJECT.json`: a change of one
definition as a plausible bug would make it, under which the same run finds the
property violated.

### Bounds and why they are enough

- Session: three calls give a holder, a waiter and a newcomer; two ids for three
  calls force reuse. `Window` 1 makes writes block. `MaxNoise` lets messages that belong to no call come
  before, between and after. The proofs have no bounds on calls or ids.
- Connection: two addresses suffice for an order, a first choice that is wrong and a failure to
  rank; two changes let Packet Tracer leave one port and appear at the other during a search.
- Terminal: `Buffer` 2 stands for 256; with two texts, or one that
  fills a page, and the end of a command it overflows, and with one plain text it does not. Three connections let a run
  lose two. Beside another run, on its own terminal, a command prints one plain text, and Packet Tracer
  waits while two messages are on the wire (`MaxWaiting`): the proofs have no such bounds.
- Console: three commands are the least with a first, a middle one that changes
  the mode and a last one.
- Devices: `MaxCalls` 4 is add, add, change and a call that meets it; two tasks give every
  pairwise race, and the chains (a freed name picked again) need three calls. `MaxMade` bounds devices.
- Other tools: two calls at once (`Busy`) give every pairwise race; one at a time where the saved network is edited
  (`physical`, `wireless`), since `NetworkFiles` has the races of edits. Two calls of a part (three for
  simulation, preferences, activities and wireless) and one that repeats a lost one (`MaxAgain`) are a change, a
  second change that meets it, and a retry. Four `AddressBits` hold a network, a broadcast and two hosts, and every mask
  that is no mask. `LEASE_POLLS`, `VPN_POLLS`, `ASSOCIATION_POLLS` 2 stand for the code's counts: the outcome
  comes at the first look, at the last, or later. `MAX_STEPS` 3 and `MAX_LIMIT` 2 stand for 200 steps and
  the limit of events, `MaxMails` 2 bounds mails; `MAX_CLIMB`, the room's width and `MAX_DEVICES` are the code's. No plan
  is longer than `MaxPlan` 40 calls.
- Wire: two messages give a boundary between frames; `MAX_FRAME_LEN` 28 and two digits let a frame be exactly
  at the limit, one above it, and its length one or two digits. Of the garbage one is no number, one
  empty, one too long without an end, one above the limit.
- Network files: three orders are two edits at once after an open that brought a unit; one change by another
  tool falls before, between and after the steps of both. Of the two files that cannot
  be written one is there from the start.

### What the properties leave out

- `ToolRefusalsChangeNothing`: tools that work off a list or act and then wait (`Piecemeal`: firewall
  rules, pools, records, accounts, the Desktop apps, a wrong activity password), a spot that is checked after the move
  (`place.rs:274`), an address that is checked after the radio joined (`radio.rs:362`), a capture that fails after the
  view was changed, and a path that makes a timer may have done a part. It holds of all others.
- `ToolDoneIsDone`: of a repeated request only where asking twice is as good as once (`Repeatable`); and not of an
  answer that rests on a lost look-up (`unsure`). `remove_location`, `add_note` and others that make or take
  away may do so twice when repeated. Of a path with `createTimer` it accepts any number of timers that is not too
  small, and of the simulation no call whose mode was switched in between.
- `RetriesGetThrough`: only of `Repeatable` tools, those that set something to what it should be. A repeated `connect`, `disconnect`,
  `configure_dns_server`, `add_server_user` or `set_host_firewall` may be refused because its first attempt took effect:
  the port is taken, the link gone, the record, the account or the rule there.
- `NothingLeftDark`: any IPC call whose answer is lost ends a power cycle or a module change, and what was still to be
  brought back stays off; so does a device whose switching off took effect unheard, which the tool does not know of.
- The physical run has no request that moves a place holding devices into another place through the file: `move_node`
  rewrites the chain of a device it moves, not of the devices inside a place (`pktfile/src/physical.rs:268`), and
  what Packet Tracer does with such a file is not in the repository.
- `ReadAsWritten`: frames above the limit (the encoder does not check it, the reader gives up) and values that
  do not say where they end (`Readable`: a value object of a class with a varying number of fields and something after it;
  Void inside a value).

### Fairness

Assumed weakly fair are only the program's own steps: the tokio tasks run when they
can, timers fire. A time-out may fire at any time after it is armed, never only when nothing
else can happen. Nothing is assumed of Packet Tracer, the network, or the agents: they may
stop for ever. `FindsPacketTracer` is conditional on Packet Tracer settling on a port.
In `LiveConnection` that a dead connection is noticed is the reader task's own step.
The bound on printed texts hides one theoretical starvation: `timeout_at` polls the
receiver before the timer, so a command that prints without end, as fast as the run reads,
could hold its deadline off.

## 4. What the violated runs say

- `terminal_overrun`: `host_console/README.md` says no output can be missed. The
  broadcast buffer holds 256 events; a run that falls behind loses the oldest, which is logged, and
  still answers `finished: true`.
- `terminal_watch`: `events/README.md` recommends watching while another call acts. Subscriptions
  are keys shared by all callers; the first to return withdraws them.
- `ios_left_configuring`: `cli/README.md` says the device is never left in
  configuration mode. An IPC error in the middle of a block returns before `end` is entered.
- `ios_login_left_open`: `cli/README.md` says a missing or wrong password leaves the console at its prompt. At the
  line password `run` returns its error, and the console goes on asking.
- `files_kept_assumed`: `workspace/README.md` says the work is kept and that a file that cannot be written is reported instead of
  assumed. `save_to` looks only whether there is a file: an old one that cannot be written passes for the saved network,
  which is then discarded.
- `devices_grid`: the request's documentation promises the next *free* grid slot. The slot is
  computed from the number of devices, so after a removal the new device lands on another one.

Seen while modelling the tools, and in the models, but against no promise of the repository: `send_email` and
`browse_web` take the next event of their object for their own, whoever caused it, and a listener that stops withdraws the
subscription of every other to that object; a wrong password locks an
unlocked activity again; a device that was off comes back on after a module change; `list_notes` hides notes that read like
a port label; a static address without a gateway leaves the old gateway in place; a look-up of a
DHCP pool that is lost makes a second pool of the same name. `ipc/README.md` says that methods are called one
after another and that a path is checked before anything is sent; where the class of an object is known only when
Packet Tracer is asked, the steps before it have been walked by then, and are walked again by the call itself.

## 5. The proofs

**PtmpSession.** `Inductive` joins `TypeOK` with three groups. About the table:
`TidyTable` in its two halves, `NoLeftovers` and `WaitersAreListed`;
`IdsAreHeld` (a call in progress shares its id with no other), `AnsweredIsUnlisted` (an entry
leaves the table together with its sender). About messages:
`MessagesMatchTable` (nothing in flight can be taken for another call's request or answer).
About the shutdown: `FlagFirst` (the flag is up before anything else tells that the session
is closed). `OwnAnswer` and `NoCallStranded` are not inductive alone: a stale answer must not carry
the id of a younger call, and a call that registers after the drain must still find the
flag up. Each action has its step; the theorems are `TypeCorrect`, `AnswersAreOwn`,
`NoneStranded`, `TableIsTidy` and `SessionImplementsService` (initial states map to
initial states, each step to a step or a stutter of `CallService`'s safety part). The
assumption is `SessionAssumption`: calls are not `NoCall`, the id space and the window are positive.

**LiveConnection.** `Inductive` is `TypeOK` with `SlotHoldsLive` (only the slot's
session may be open), `HolderConnects` (the call that searches heads the queue and found the slot
of no use), `QueueIsTidy` (the queue lists the waiting calls once each) and
`SearchIsFair` (what is still to try and what has failed make up all addresses), besides the
properties themselves. `OneSessionHolds`, `SessionIsShared`, `EveryAddressTried`, `FailureIsTold`, `TypesHold` hold
for any number of calls, addresses and sessions. Assumption: `ConnectionAssumption`.

**Terminal.** `Inductive` is `TypeOK` with `StepsFit` (a call is at the steps of its tool), `TypistFits` (a
terminal works for the run that typed last, until that command has ended), `GraceFrees` (a run that has pressed the
interrupt key has freed its terminal) and `SubsHaveOwner` (every subscription belongs to a call that will withdraw it). It gives `TypesHold`,
`FreeHolds` and `NothingIsLeft` for runs and watches that overlap as they like. Two calls on one terminal share
subscriptions and take each other's text (the violated `terminal_watch`), so the rest assumes `~Overlap`.
`TakeTurns` adds that a terminal has one call at a time and that its subscriptions stand
(`ListenersAreSubscribed`). `OutputInductive` follows the text: `StaysQuiet` (nothing of an earlier command is
under way when a run begins), `EndsAreOwn` (an end that is under way to a run is its own command's:
`FinishedIsTrue`) and `NothingIsLost` (texts gathered, in the receiver, and on the wire are together the texts printed,
in order: `OutputIsWhole`). The step of `Push` is why a run that missed events, or whose connection went, is exempt.
Assumption: `TerminalAssumption`.

**IosConsole.** `Inductive` joins the properties with `Shaped`, `StepsFitRequest`, `UnsharedIsAlone` (a call nothing
ran beside has the console to itself), `NextInContext` (the mode is the one its last command led to) and
`SavingIsComplete` (a block that saves has entered all its commands). That proves `BlocksKeepContext`, `SavedIsSaved`,
`BlocksLeaveConfiguration` and `TypesHold` for any overlap. `CliInductive` adds, when `run_cli` calls take turns
(`InTurn`; what two at one prompt type is mixed), what each step has learnt of screen and mode
(`ScreenFitsStep`): `TypedAsMeantHolds` and `RefusedAtPrompt` (every refusal once the call is past what was open at the console). Assumptions: `ConsoleAssumption`, `RequestAssumption`.

**NetworkFiles.** `Inductive` is `DiskFits`, `JobsFit` and six facts for each job: what it stands for at its step
(`StandsRight`), its scratch file is no one else's (`ScratchIsOwn`), what it was to keep is on disk while nobody changed
the network (`IsKept`), and how an edit's copy, its file and the network agree while the network is its own
(`EditsSteadily`, `EditsUndisturbed`, `SteadyIsUndisturbed`). `KeptWhereWritable`, `EditsChangeNothingElse`,
`EditsLoseNothing` and `TypesHold` hold for any orders, files and number of jobs at once. Assumptions:
`OrdersAssumption` (an order names no scratch file), `ScratchAssumption` (scratch names are distinct and enough),
`LibraryAssumption`.

**Devices.** `Inductive` is `NetworkFits` (ids in the order they were made), `CallsFit`, `CrossedTogether` (calls that
disturb each other are both marked) and, for each running call that nothing has crossed, `Undisturbed`: names are unique, what
the call has found out is still so (`Right`, tool by tool and step by step), and it is `Apart` from every other call. The argument
is that a step alters only names of its own call: by `Apart` these are none of the other's, so
what the other knows stays (`OthersAreLeft`), and a power cycle runs beside moves only. Each of the 24 actions has
its lemma. What it answers is then true (`Truthful`): `RefusalsHold`, `NothingStaysDark`, `DoneHolds`,
and, because a step that gives a name away has made sure of it, `NamesClashOnlyInRaces`. They hold for any number of calls, tasks and devices.
`NothingStaysDark` follows what a call has switched off and knows of (`cut`): a lost answer, of whichever IPC call, leaves off
only what was still to be switched on (`StillOff`). The
first device of a name, the code's look-up, is found by well-founded induction over sets of positions. Assumptions:
`PicksAssumption` (Packet Tracer has enough names), `RequestsAssumption` (a request names what its tool needs).

**ToolCalls.** `Fits` says of each part Packet Tracer keeps well-formed itself (`SelfKept`) what its states are:
lists and sets that refer to what exists, numbers within their bounds, events in time, slots that hold what belongs
there. It is kept by every answer, whatever was asked (`FitsAnswers`), and by what settles (`FitsSettles`); that is a
lemma about Packet Tracer's side, on which `NetworkStaysSound` rests for these parts.

**Network.** In the other parts the state is sound because of what the tools ask. `NetworkFitsAll` is
the `Inductive` of `Devices` and, when a part runs, `ToolsFit`: what a call at work may have heard (`CanvasHeard`,
`WirelessHeard`) and that its next call is `Allowed`: no plan, whatever answers it has had, sets an address that was not
checked (`HostPlans`), edits or opens a file other than the one it took itself (`CanvasPlans`, `WirelessPlans`).
A plan is put together from lists, so the lemmas come in pairs: what the operators that join plans keep (`PlansJoin`,
`JoinedAllowed`, `Afterwards`), then tool by tool. `NetworkStaysSound` is for any requests, tasks and bounds, and for a part or `Devices` alike.

**Refusals.** A call may be refused after it was answered several times, so that nothing has changed is no matter of one
step. Of each tool it is stated by when it may have changed something (`Altered`) and what it then
relies on (`Learnt`): the cable connect has put in and both its ends, the host that was found and its IPv6 being on,
the activity being unlocked. `Heeding` says that each call at work that nothing crossed has learnt this, and has changed nothing
before `Altered` says so. The argument has two halves. A call is `Prudent` (`LinksPrudent`, `HostsPrudent`,
`PreferencesPrudent`, `ActivityPrudent`): with what it has learnt it is refused only before it has altered
anything, and goes on having learnt the rest. And no call takes that back that does not meet it (`OthersLeave`), nor does the
network by itself (`SettlingLeaves`); calls that meet know of each other (`Marked`) and are exempt. This gives
`RefusedToolsChangeNothing` for `Careful`: links, hosts, preferences and the activity. Assumptions: `AsksAssumption` (requests are what the tools'
schemas let through), `PortsAssumption` (a device lists its ports), `TestsAssumption`, and `SettersAssumption`: the setters with a
second argument are those of the workspace flags, which the repository's test
`every_preference_maps_to_real_options_methods` holds against the index; a setter called with too few arguments would be refused
after others were obeyed.

Only model-checked:

- everything under fairness, and the liveness half of the refinement (a limit of the prover);
- `ReadAsWritten`: `Wire` has recursive operators, and what they compute for every value is an induction over data;
- `NetworkIsSound` of the physical and the ipc part: that places form a tree, and where an IPC path leads, are folds over
  sequences, so what they compute is an induction over data too;
- `ToolRefusalsChangeNothing` of the parts not in `Careful`: their tools have more calls that can still be refused after the first
  change, so more has to be known of each (which settings a radio took, what the file held);
- `ToolDoneIsDone`: what a whole plan comes to when all its calls are made, not only what each call may rely on;
- `RetriesGetThrough`: it compares a refusal with what the request would have come to alone (`Alone`), a recursive function
  over all the calls of a plan.

## 6. Not modelled, and the plan

Left out for good: the texts of errors, logs and layouts; the MD5 digest; timestamps; scalar types that are read alike; compression, encryption and the XML of
`.pkt` files (the edits are modelled on what they hold); window capture and the pixels of a picture; HTML to text;
registration files; the offline index generator; parsing of command-line and environment settings.

Not modelled because they keep and change nothing: `status`, `describe_ipc` and the reading of JSON values.
The tool that runs a command on a host is `Terminal`'s run with its checks left out. `fake.rs` and `scripted.rs` are
test support; what they assume of Packet Tracer is in `PtmpSession` and `Terminal`.

The plan, in the order it was followed:

1. the session and its service, the connection, the terminals and the console, each with its races and failures;
2. the devices, the network's files, then the other tools as plans, feature by feature, and the wire;
3. proofs in the same order: session and refinement, connection, terminals, console, files, devices, tools.

What is left:

1. `ToolCalls`: `Careful` extended to the other parts, and from the same invariant (`Learnt`, after the last call) what
   a tool that is done leaves behind.
2. `PhysicalTools`: a place that holds devices moved into another through the file, once it is known what Packet
   Tracer does with the file (section 3).
3. `pktfile`: more of the settings that a wireless edit writes, if Packet Tracer's reading of them is documented.

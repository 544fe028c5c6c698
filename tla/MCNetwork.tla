----------------------------- MODULE MCNetwork -----------------------------
(***************************************************************************)
(* The tools that work on the open network, in one run: a behaviour is     *)
(* about the devices (Devices) or about one part of the other tools        *)
(* (ToolCalls, which has the parts that share no state).  The half a       *)
(* behaviour is not about stays as it is.                                  *)
(***************************************************************************)
EXTENDS MCDevices, ToolCalls, TLC

CONSTANT Parts  \* the parts of ToolCalls that are run

----------------------------------------------------------------------------
\* Links: a computer, a router, a switch, a laptop.

End(d, p) == [dev |-> d, port |-> p]

MCPortsOf == [d \in {"PC", "R1", "SW", "Laptop", "AP"} |->
                CASE d = "PC" -> <<"Fa0", "RS 232">>
                  [] d = "R1" -> <<"Gig0/0", "Serial0/0/0">>
                  [] d = "SW" -> <<"Fa0/1">>
                  [] d = "AP" -> <<"Port 1">>
                  [] OTHER    -> <<"Wireless0">>]

MCKindOf == [d \in DOMAIN MCPortsOf |->
               CASE d = "PC" -> "pc" [] d = "R1" -> "router" [] d = "SW" -> "switch"
                 [] d = "AP" -> "access_point" [] OTHER -> "laptop"]

Connects(a, b, cable) == [tool |-> "connect", a |-> a, b |-> b, cable |-> cable]

PcPort == End("PC", "Fa0")
SwitchPort == End("SW", "Fa0/1")

LinkAsks ==
  {Connects(PcPort, SwitchPort, "auto"), Connects(End("R1", "Gig0/0"), SwitchPort, "auto"),
   Connects(End("R1", "Gig0/0"), PcPort, "fiber"), Connects(PcPort, PcPort, "auto"),
   Connects(End("R1", "Serial0/0/0"), End("PC", "RS 232"), "auto"),
   Connects(End("R1", "Serial0/0/0"), PcPort, "straight"),
   Connects(End("Laptop", "Wireless0"), End("PC", "RS 232"), "auto"),
   [tool |-> "disconnect", end |-> SwitchPort], [tool |-> "disconnect", end |-> PcPort],
   [tool |-> "list_links"], [tool |-> "list_ports", dev |-> "PC"], [tool |-> "remove", dev |-> "PC"]}

----------------------------------------------------------------------------
\* Hosts: addresses of four bits, a PC and a laptop; R1 is no host.

Left == -1

MCLease == [ip |-> 10, mask |-> 8]

Statics(d, ip, mask, gw, dns) ==
  [tool |-> "configure_host", dev |-> d, dhcp |-> FALSE, ip |-> ip, mask |-> mask, gateway |-> gw, dns |-> dns]

V6(mode, address, gw, dns) ==
  [tool |-> "configure_host_ipv6", dev |-> "PC", mode |-> mode, address |-> address, gateway |-> gw, dns |-> dns]

Prefixed(n) == <<[net |-> "host", usable |-> TRUE, prefix |-> n]>>

Firewall(on, on6, adds, removes) ==
  [tool |-> "set_host_firewall", dev |-> "PC", ipv4 |-> on, ipv6 |-> on6, adds |-> adds, removes |-> removes]

Rule(family, protocol, port) == [family |-> family, protocol |-> protocol, port |-> port]

HostAsks ==
  {Statics("PC", 9, 12, 10, Left), Statics("PC", 5, 12, Left, Left), Statics("PC", 8, 12, Left, Left),
   Statics("PC", 9, 12, 5, Left), Statics("PC", 9, 10, Left, Left), Statics("R1", 9, 12, 10, Left),
   Statics("Laptop", 9, 12, 10, 3), [Statics("PC", Left, Left, Left, Left) EXCEPT !.dhcp = TRUE],
   V6("static", Prefixed(64), Left, 2), V6("static", Prefixed(129), Left, Left), V6("auto", <<>>, 1, Left),
   V6("off", <<>>, Left, Left),
   Firewall(1, 1, <<Rule("v4", "tcp", 80), Rule("v6", "icmp", 0)>>, <<>>),
   Firewall(0, Left, <<>>, <<Rule("v4", "tcp", 80)>>), Firewall(0, Left, <<Rule("v6", "icmp", 80)>>, <<>>)}

----------------------------------------------------------------------------
\* Services of the server SRV.

Pool(n, k, ok) == [name |-> n, valid |-> ok,
                   values |-> [f \in {"network", "gateway", "dns", "start", "max_users"} |-> k]]

Dhcp(d, on, pools) == [tool |-> "configure_dhcp_server", dev |-> d, enabled |-> on, pools |-> pools]

Dns(on, records) == [tool |-> "configure_dns_server", dev |-> "SRV", enabled |-> on, records |-> records]

Page(url) == [tool |-> "set_web_page", dev |-> "SRV", url |-> url, contents |-> "x"]

Service(name, on) == [tool |-> "set_server_service", dev |-> "SRV", service |-> name, enabled |-> on]

User(service, password, domain, permissions) ==
  [tool |-> "add_server_user", dev |-> "SRV", service |-> service, user |-> "ana",
   password |-> password, domain |-> domain, permissions |-> permissions]

ServiceAsks ==
  {Dhcp("SRV", TRUE, <<Pool("serverPool", 1, TRUE)>>), Dhcp("SW", FALSE, <<>>),
   Dhcp("SRV", TRUE, <<Pool("lan", 1, TRUE), Pool("lan", 2, TRUE)>>),
   Dhcp("SRV", TRUE, <<Pool("lan", 1, TRUE), Pool("lan", 2, FALSE)>>),
   Service("http", FALSE), [tool |-> "list_server_services", dev |-> "SRV", services |-> <<"http", "dns", "tftp">>],
   Dns(TRUE, <<[name |-> "www", valid |-> TRUE], [name |-> "mx", valid |-> TRUE]>>),
   Dns(FALSE, <<[name |-> "www", valid |-> TRUE], [name |-> "mx", valid |-> FALSE]>>),
   Page("a.html"), Page(""),
   User("email", "a", "lab", {}), User("email", "b", "", {}), User("ftp", "b", "", {"R"}), User("ftp", "b", "", {"x"})}

----------------------------------------------------------------------------
\* Desktop: the applications of PC, against the server SRV; R1 has none.

Browses(d, host, path) == [tool |-> "browse_web", dev |-> d, url |-> [host |-> host, path |-> path]]

Account(host) ==
  [tool |-> "configure_email", dev |-> "PC",
   account |-> [f \in {"name", "email", "username", "password", "incoming_server", "outgoing_server"} |->
                  CASE f = "username" -> "ana" [] f = "password" -> "pw"
                    [] f \in {"incoming_server", "outgoing_server"} -> host
                    [] OTHER -> "ana@lab"]]

Mail(body) == [tool |-> "send_email", dev |-> "PC", to |-> [user |-> "ana", domain |-> "lab"], body |-> body]

Vpn(action, complete) == [tool |-> "vpn_client", dev |-> "PC", action |-> action, complete |-> complete]

File(action, name, text) ==
  [tool |-> "host_files", dev |-> "PC", action |-> action, name |-> name, text |-> text]

DesktopAsks ==
  {Browses("PC", "ip", "index.html"), Browses("PC", "name", "a.html"), Browses("R1", "ip", "a.html"),
   Page("index.html"), Service("smtp", FALSE), Account("SRV"), Account(""), Mail("hi"), Mail("ho"),
   [tool |-> "receive_email", dev |-> "PC"],
   Vpn("connect", TRUE), Vpn("connect", FALSE), Vpn("disconnect", FALSE), Vpn("status", FALSE),
   File("write", "notes.txt", "x"), File("write", "notes.txt", "y"), File("read", "notes.txt", ""),
   File("list", "", ""), File("delete", "notes.txt", "")}

----------------------------------------------------------------------------
\* The physical workspace, with the default city, office and closet.

MCScene == <<3444, 2157>>

First(n) == [name |-> n, nth |-> 1]

Home == <<First("Home City")>>
Office == Append(Home, First("Corporate Office"))
Closet == Append(Office, First("Main Wiring Closet"))
InTable == Append(Office, First("Table"))
SecondRack == Append(Office, [name |-> "Rack", nth |-> 2])

NewPlace(kind, name, inside, x, y) ==
  [tool |-> "add_location", kind |-> kind, name |-> name, inside |-> inside, x |-> x, y |-> y]

Carries(d, l, into, x, y) ==
  [tool |-> "move_to_location", device |-> d, location |-> l, into |-> into, x |-> x, y |-> y]

Arranges(into, devices_, placed) ==
  [tool |-> "arrange_devices", into |-> into, devices |-> devices_, columns |-> Left, margin |-> 12000, spots |-> placed]

Calls(path, name) == [tool |-> "rename_location", path |-> path, name |-> name]

Clears(path) == [tool |-> "remove_location", path |-> path]

Paints(path, image) == [tool |-> "set_background", path |-> path, image |-> image]

PhysicalAsks ==
  {[tool |-> "list_locations"], [tool |-> "show_workspace", view |-> "physical"],
   NewPlace("city", "Porto", <<>>, Left, Left), NewPlace("wiring_closet", "IDF", Office, 50000, 50000),
   NewPlace("wiring_closet", "IDF", Office, 120000, 50000), NewPlace("rack", "Rack", Closet, Left, Left),
   NewPlace("building", "Lab", Office, Left, Left), NewPlace("table", "Bench", Office, 100000, Left),
   Calls(Office, "HQ"), Calls(Home, ""),
   Clears(Append(Office, First("Rack"))), Clears(InTable), Clears(Closet),
   Carries("SW", <<>>, InTable, 50000, 0), Carries("SW", <<>>, Home, 50000, 0),
   Carries("PC", <<>>, Closet, Left, Left), Carries("PC", <<>>, Closet, Left, 5), Carries("PC", <<>>, SecondRack, Left, Left),
   Carries("", Closet, Home, Left, Left), Carries("", Closet, Append(Closet, First("Rack")), Left, Left),
   Carries("", Office, Closet, Left, Left), Carries("", <<>>, Home, Left, Left), Carries("", InTable, Closet, Left, Left),
   Arranges(Home, <<"SW", "PC">>, <<>>), Arranges(Office, <<>>, <<<<5, 5>>>>),
   Arranges(InTable, <<"PC", "SW">>, <<>>), Arranges(InTable, <<"PC", "SW">>, <<<<0, 0>>>>),
   Paints(Office, "grid_10x10"), Paints(<<>>, "city"), Paints(<<>>, "relative")}

----------------------------------------------------------------------------
\* Wireless: two access points and two clients, far enough apart that a client hears one.

MCPlacements == [d \in {"AP1", "AP2", "Laptop", "PC"} |->
                  CASE d = "AP1" -> 100 [] d = "AP2" -> 300 [] d = "Laptop" -> 0 [] OTHER -> 500]

Passphrase == [id |-> "pass", hex |-> FALSE, len |-> 8]
HexKey == [id |-> "hex", hex |-> TRUE, len |-> 10]
Keyless == [id |-> "", hex |-> FALSE, len |-> 0]

Radiates(d, ssid, security, key, aloud) ==
  [tool |-> "configure_access_point", dev |-> d, ssid |-> ssid, security |-> security, key |-> key,
   broadcast |-> aloud]

Joins(d, ssid, security, key, bring, ip, mask, gw) ==
  [tool |-> "connect_wireless", dev |-> d, ssid |-> ssid, security |-> security, key |-> key, bring |-> bring,
   address |-> [dhcp |-> ip = Left, ip |-> ip, mask |-> mask, gateway |-> gw, dns |-> Left]]

WirelessAsks ==
  {Radiates("AP1", "Lab", "wpa2_psk", Passphrase, TRUE), Radiates("AP1", "Lab", "wep", Passphrase, TRUE),
   Radiates("PC", "Lab", "open", Keyless, TRUE), Radiates("AP2", "Lab", "open", Keyless, FALSE),
   Joins("Laptop", "Lab", "wpa2_psk", Passphrase, FALSE, 9, 12, 10),
   Joins("Laptop", "Lab", "open", Keyless, TRUE, Left, Left, Left),
   Joins("PC", "Default", "open", Keyless, TRUE, 9, 12, 10), Joins("PC", "Default", "open", Keyless, TRUE, 8, 12, Left),
   Joins("Laptop", "Lab", "wep", HexKey, FALSE, 9, Left, Left),
   [tool |-> "wireless_status", dev |-> "Laptop"], [tool |-> "wireless_status", dev |-> "AP1"]}

----------------------------------------------------------------------------
\* Simulation mode, preferences, the activity.

Steps(action, times) == [tool |-> "simulation_step", action |-> action, times |-> times]

Pdu(source, destination) == [tool |-> "add_pdu", source |-> source, destination |-> destination]

Events(limit, d) == [tool |-> "list_simulation_events", limit |-> limit, device |-> d]

SimulationAsks ==
  {[tool |-> "simulation_mode", on |-> TRUE], [tool |-> "simulation_mode", on |-> FALSE],
   Steps("forward", 1), Steps("forward", 3), Steps("forward", 0), Steps("backward", 2), Steps("resetSimulation", 1),
   Pdu("PC", "R1"), Pdu("PC", ""), Pdu("PC", "X"), Events(1, ""), Events(0, "R1")}

MCPreferences == <<"animation", "show_port_labels", "workspace_rulers">>

Sets_(values) == [tool |-> "set_preferences", values |-> values]

Option(name, value) == [name |-> name, value |-> value]

PreferenceAsks ==
  {[tool |-> "get_preferences"], Sets_(<<Option("show_port_labels", FALSE)>>),
   Sets_(<<Option("animation", TRUE), Option("show_port_labels", TRUE)>>),
   Sets_(<<Option("animation", TRUE), Option("nothing", TRUE)>>), Sets_(<<Option("workspace_rulers", TRUE)>>)}

ActivityAsks ==
  {[tool |-> "activity_status"], [tool |-> "activity_instructions", page |-> 2],
   [tool |-> "activity_instructions", page |-> 3], [tool |-> "unlock_activity", password |-> "cisco"],
   [tool |-> "unlock_activity", password |-> "wrong"], [tool |-> "check_activity"], [tool |-> "reset_activity"],
   [tool |-> "network_description", given |-> TRUE, text |-> "x"],
   [tool |-> "network_description", given |-> FALSE, text |-> ""]}

----------------------------------------------------------------------------
\* Notes, drawings and screenshots.

Draws(shape, to, radius, color, fill) ==
  [tool |-> "draw", shape |-> shape, x |-> 500, y |-> 300, to |-> to, radius |-> radius, color |-> color, fill |-> fill]

Shoots(view, save_to) == [tool |-> "screenshot", view |-> view, save_to |-> save_to]

CanvasAsks ==
  {[tool |-> "add_note", text |-> "LAN"], [tool |-> "add_note", text |-> ""],
   [tool |-> "list_notes", include_port_labels |-> FALSE], [tool |-> "list_notes", include_port_labels |-> TRUE],
   [tool |-> "remove_note", id |-> <<"note", 1>>], [tool |-> "remove_drawing", id |-> <<"drawing", 1>>],
   [tool |-> "list_drawings"], Draws("circle", <<>>, <<>>, "", ""), Draws("circle", <<>>, <<0>>, "", ""),
   Draws("rectangle", <<<<100, 600>>>>, <<>>, "red", "blue"), Draws("line", <<<<100, 600>>>>, <<>>, "red", "blue"),
   Draws("line", <<<<100, 600>>>>, <<>>, "red", ""), Draws("rectangle", <<>>, <<>>, "red", "blue"),
   Draws("rectangle", <<>>, <<>>, "mauve", ""), Shoots("logical", "unwritable"), Shoots("window", "relative"),
   Shoots("window", ""), Shoots("physical", "a.png"), Shoots("physical_rack", "")}

----------------------------------------------------------------------------
\* Modules: R1 takes a network module with a slot of its own and an interface card.

Item_(class, model, kind) == [class |-> class, model |-> model, kind |-> kind]

MCCatalog ==
  <<Item_("device", "2811", "router"), Item_("device", "2811", "router"),
    Item_("module", "HWIC-2T", "interface_card"), Item_("module", "NM-2W", "network_module")>>

MCSlotKinds ==
  [d \in {"R1"} |->
     [path \in {<<0>>, <<0, 0>>, <<0, 1>>, <<0, 0, 0>>} |->
        IF path = <<0>> THEN "non_removable_module"
        ELSE IF path = <<0, 0>> THEN "network_module" ELSE "interface_card"]]

MCSupported == [d \in {"R1"} |-> {"HWIC-2T", "NM-2W"}]

Installs(d, slot, module) == [tool |-> "add_module", dev |-> d, slot |-> slot, module |-> module]

Pulls(d, slot) == [tool |-> "remove_module", dev |-> d, slot |-> slot]

Catalogues(kind, modules) == [tool |-> "list_models", kind |-> kind, include_modules |-> modules]

SlotAsks ==
  {[tool |-> "list_slots", dev |-> "R1"], [tool |-> "list_slots", dev |-> "X"],
   Installs("R1", <<0, 1>>, "hwic-2t"), Installs("R1", <<0, 0>>, "NM-2W"), Installs("R1", <<0, 0, 0>>, "HWIC-2T"),
   Installs("R1", <<0, 1>>, "NM-2W"), Installs("R1", <<0>>, "hwic2t"), Installs("X", <<0, 1>>, "HWIC-2T"),
   Pulls("R1", <<0, 0>>), Pulls("R1", <<0, 1>>), Pulls("R1", <<0>>),
   Catalogues("router", TRUE), Catalogues("spoon", FALSE)}

----------------------------------------------------------------------------
\* Any path of methods: a part of the index with a class behind a class, a name of its own
\* on the wire, a name in other letters, an enum and a method that crashes Packet Tracer.

Plain_(kind) == [is |-> kind, name |-> ""]
ObjectOf(class) == [is |-> "object", name |-> class]

Method(name, params, returns) ==
  [name |-> name, wire |-> IF name = "getObjectUUID" THEN "getObjectUuid" ELSE name,
   params |-> params, returns |-> returns, local |-> name = "getFactory"]

Class(extends, methods) == [extends |-> extends, methods |-> methods, remote |-> TRUE]

MCApiClasses ==
  [c \in {"IPCObject", "Network", "Device", "CiscoDevice", "Router", "Pc", "Process", "ARPProcess",
          "Simulation", "SimulationTimer", "Options", "AppWindow", "Workspace", "LogicalWorkspace"} |->
     CASE c = "IPCObject" -> Class(<<>>, <<Method("getClassName", <<>>, Plain_("string")),
                                          Method("getObjectUUID", <<>>, Plain_("uuid")),
                                          Method("getFactory", <<>>, Plain_("other"))>>)
       [] c = "Network" -> Class(<<"IPCObject">>, <<Method("getDevice", <<Plain_("qstring")>>, ObjectOf("Device")),
                                                    Method("getDeviceCount", <<>>, Plain_("int"))>>)
       [] c = "Device" -> Class(<<"IPCObject">>, <<Method("getName", <<>>, Plain_("string")),
                                                   Method("setName", <<Plain_("qstring")>>, Plain_("void")),
                                                   Method("setPower", <<Plain_("bool")>>, Plain_("void")),
                                                   Method("getProcess", <<Plain_("string")>>, ObjectOf("Process"))>>)
       [] c \in {"CiscoDevice", "Pc"} -> Class(<<"Device">>, <<>>)
       [] c = "Router" -> Class(<<"CiscoDevice">>, <<Method("getUserPassCount", <<>>, Plain_("int"))>>)
       [] c = "ARPProcess" -> Class(<<"Process">>, <<Method("getArpTable", <<>>, Plain_("data"))>>)
       [] c = "Simulation" -> Class(<<"IPCObject">>, <<Method("createTimer", <<Plain_("int"), Plain_("bool")>>, ObjectOf("SimulationTimer"))>>)
       [] c = "Options" -> Class(<<"IPCObject">>, <<Method("setBufferFullAction", <<[is |-> "enum", name |-> "BufferFullAction"]>>, Plain_("void"))>>)
       [] c = "AppWindow" -> Class(<<"IPCObject">>, <<Method("getActiveWorkspace", <<>>, ObjectOf("Workspace"))>>)
       [] c = "Workspace" -> Class(<<"IPCObject">>, <<Method("getLogicalWorkspace", <<>>, ObjectOf("LogicalWorkspace"))>>)
       [] c = "LogicalWorkspace" -> Class(<<"IPCObject">>, <<Method("getRectItemData", <<Plain_("uuid")>>, Plain_("list"))>>)
       [] OTHER -> Class(<<"IPCObject">>, <<>>)]

MCApiRoots ==
  [root \in {<<"network">>, <<"simulation">>, <<"options">>, <<"appWindow">>} |->
     CASE root = <<"network">> -> "Network" [] root = <<"simulation">> -> "Simulation"
       [] root = <<"options">> -> "Options" [] OTHER -> "AppWindow"]

Root(name) == [uuid |-> FALSE, id |-> <<name>>]
Uuid(id) == [uuid |-> TRUE, id |-> id]

Does(method, args) == [method |-> method, args |-> args]
Text_(v) == [json |-> "string", val |-> v]
Number_(n) == [json |-> "number", val |-> n]
Flag_(b) == [json |-> "bool", val |-> b]

CallsIpc(from, path) == [tool |-> "call_ipc", from |-> from, steps |-> path]

OfDevice(name) == Does("getDevice", <<Text_(name)>>)
NewTimer == Does("createTimer", <<Number_(5), Flag_(TRUE)>>)
Drawing == Does("getRectItemData", <<Text_("{d}")>>)

IpcAsks ==
  {CallsIpc(Root("network"), <<OfDevice("R1"), Does("getUserPassCount", <<>>)>>),
   CallsIpc(Root("network"), <<OfDevice("R1"), Does("setName", <<Text_("R2")>>)>>),
   CallsIpc(Root("network"), <<OfDevice("PC"), Does("setName", <<Text_("R1")>>)>>),
   CallsIpc(Root("network"), <<OfDevice("R1"), Does("setPower", <<Flag_(FALSE)>>)>>),
   CallsIpc(Root("network"), <<OfDevice("R1")>>), CallsIpc(Root("nowhere"), <<>>),
   CallsIpc(Root("network"), <<Does("getDevice", <<Number_(1)>>)>>), CallsIpc(Root("network"), <<Does("getDevice", <<>>)>>),
   CallsIpc(Root("network"), <<Does("getDeviceCount", <<>>), Does("getName", <<>>)>>),
   CallsIpc(Root("network"), <<OfDevice("PC"), Does("getProcess", <<Text_("ArpProcess")>>), Does("getArpTable", <<>>)>>),
   CallsIpc(Uuid(<<"device", "R1">>), <<Does("getObjectUUID", <<>>)>>), CallsIpc(Uuid(<<"timer", 1>>), <<>>),
   CallsIpc(Root("simulation"), <<NewTimer>>), CallsIpc(Root("simulation"), <<NewTimer, Does("stop", <<>>)>>),
   CallsIpc(Root("simulation"), <<Does("createTimer", <<Number_(20), Flag_(TRUE)>>)>>),
   CallsIpc(Root("options"), <<Does("setBufferFullAction", <<Text_("autoclear")>>)>>),
   CallsIpc(Root("options"), <<Does("setBufferFullAction", <<Number_(20)>>)>>),
   CallsIpc(Root("options"), <<Does("getFactory", <<>>)>>),
   CallsIpc(Root("appWindow"), <<Does("getActiveWorkspace", <<>>), Does("getLogicalWorkspace", <<>>), Drawing>>),
   CallsIpc(Uuid(<<"logical">>), <<Drawing>>)}

----------------------------------------------------------------------------
\* What is asked of each part.

MCAsks == [part \in Parts |->
             CASE part = "links"    -> LinkAsks
               [] part = "hosts"    -> HostAsks
               [] part = "services" -> ServiceAsks
               [] part = "desktop"  -> DesktopAsks
               [] part = "physical" -> PhysicalAsks
               [] part = "wireless" -> WirelessAsks
               [] part = "simulation"  -> SimulationAsks
               [] part = "preferences" -> PreferenceAsks
               [] part = "activity"    -> ActivityAsks
               [] part = "canvas"      -> CanvasAsks
               [] part = "modules"     -> SlotAsks
               [] part = "ipc"         -> IpcAsks]

\* One MCP call at a time works on the saved network, where devices are carried and radios set.
MCBusy == [part \in Parts |-> IF part \in {"physical", "wireless"} THEN 1 ELSE 2]

TaskSymmetry == Permutations(Tasks)

\* The parts with few states are run longer.
MCToolCalls == [part \in Parts |-> IF part \in {"simulation", "preferences", "activity", "wireless"} THEN 3 ELSE 2]

MCApiEnums == [e \in {"BufferFullAction"} |-> [a \in {"prompt", "autoclear"} |-> IF a = "prompt" THEN 1 ELSE 2]]

MCMachines == [d \in {"R1", "PC"} |-> IF d = "R1" THEN "Router" ELSE "Pc"]

MCSameLetters == {<<"hwic-2t", "HWIC-2T">>}
MCSameLook == {<<"hwic2t", "HWIC-2T">>}
MCAnyCase == {<<"ArpProcess", "ARPProcess">>}

----------------------------------------------------------------------------
NetworkInit == Init /\ (ToolInit \/ NoTool)

NetworkNext ==
  \/ pt.part = "none" /\ Next /\ UNCHANGED toolvars
  \/ pt.part # "none" /\ ToolNext /\ UNCHANGED vars

NetworkSpec == NetworkInit /\ [][NetworkNext]_<<vars, toolvars>>

----------------------------------------------------------------------------
\* Properties.  The others are checked as they stand in Devices and ToolCalls.

\* Whatever calls run at once, whichever of them are lost and whatever the network does
\* by itself, what Packet Tracer holds is well-formed (Sound of each part): devices are
\* listed in their order, a port holds one cable, a host's address is one a host of its
\* subnet may have, a service has one account to a name, a tunnel that is up knows all it
\* was given, every place is inside another up to the root, frames are in the order of
\* their time, notes and shapes have ids of their own, and a module sits in a slot it fits.
NetworkIsSound == TypeOK /\ (pt.part # "none" => Sound(pt))
=============================================================================

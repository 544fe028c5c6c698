----------------------------- MODULE HostTools -----------------------------
(***************************************************************************)
(* configure_host, configure_host_ipv6 and set_host_firewall               *)
(* (features/hosts).  An IPv4 address is a number of AddressBits bits; 0   *)
(* is "unspecified", that is no address, and NONE stands for a field the   *)
(* request leaves out.                                                     *)
(***************************************************************************)
EXTENDS ToolPlans

CONSTANTS
  Hosts,        \* devices that are not routers or switches
  AddressBits,  \* 32
  LEASE_POLLS,  \* how often a lease is waited for
  Lease         \* the [ip, mask] the network's DHCP server has to give

NONE == -1

Size == 2 ^ AddressBits

----------------------------------------------------------------------------
\* Addresses: hosts/mod.rs.

Bit(bits, i) == (bits \div (2 ^ (AddressBits - i))) % 2

leading_ones(bits) ==
  Cardinality({n \in 1..AddressBits : \A i \in 1..n : Bit(bits, i) = 1})

\* prefix_length(mask) is Some: nothing is left once the leading ones are shifted out.
valid_mask(mask) == (mask * (2 ^ leading_ones(mask))) % Size = 0

network(ip, mask) == ip - (ip % (Size - mask))

broadcast(ip, mask) == network(ip, mask) + (Size - mask) - 1

\* The address of the subnet itself passes.
Plausible_Network(r) ==
  IF r.dhcp THEN r.ip = NONE /\ r.mask = NONE
  ELSE /\ NONE \notin {r.ip, r.mask}
       /\ valid_mask(r.mask)
       /\ leading_ones(r.mask) < AddressBits - 1 => r.ip # broadcast(r.ip, r.mask)
       /\ r.gateway # NONE => network(r.gateway, r.mask) = network(r.ip, r.mask)

\* An address a host of its subnet may have.
ForHosts(ip, mask) ==
  leading_ones(mask) < AddressBits - 1 => ip \notin {network(ip, mask), broadcast(ip, mask)}

\* A DHCP server that is set up as it should be.
ASSUME LeaseAssumption ==
  /\ {AddressBits, LEASE_POLLS} \subseteq Nat
  /\ valid_mask(Lease.mask) /\ ForHosts(Lease.ip, Lease.mask)

\* plan(request): what is refused before Packet Tracer is touched.
Plausible(r) ==
  IF r.dhcp THEN r.ip = NONE /\ r.mask = NONE
  ELSE /\ NONE \notin {r.ip, r.mask}
       /\ valid_mask(r.mask)
       /\ ForHosts(r.ip, r.mask)
       /\ r.gateway # NONE => network(r.gateway, r.mask) = network(r.ip, r.mask)

\* ipv6.rs: an address is [net, usable, prefix], NONE when left out.
Plausible6(r) ==
  CASE r.mode = "static" -> /\ r.address # <<>>
                            /\ \A a \in {r.address[k] : k \in DOMAIN r.address} :
                                 a.prefix \in 1..128 /\ a.usable
    [] OTHER             -> r.address = <<>>

\* check(rule)
PORTED_PROTOCOLS == {"tcp", "udp"}

PROTOCOLS == {"ip", "icmp"} \cup PORTED_PROTOCOLS

check(rule) ==
  /\ rule.protocol \in PROTOCOLS
  /\ rule.protocol \in PORTED_PROTOCOLS \/ rule.port = 0
  /\ rule.port \in 0..65535

----------------------------------------------------------------------------
\* The tools.

\* The port of an end device: routers and switches are refused.
host_port(dev) == <<Must("host", dev, <<>>), Must("getName", dev, <<>>)>>

apply_static(r) ==
  <<Tell("setDhcpClientFlag", r.dev, FALSE),
    Tell("setIpSubnetMask", r.dev, [ip |-> r.ip, mask |-> r.mask])>>
  \o When(r.gateway # NONE, <<Tell("setDefaultGateway", r.dev, r.gateway)>>)
  \o When(r.dns # NONE, <<Tell("setDnsServerIp", r.dev, r.dns)>>)

apply_dhcp(r, seen) ==
  Then(<<Tell("setDhcpClientFlag", r.dev, TRUE), Tell("setDhcpFlag", r.dev, TRUE)>>, seen,
       LAMBDA got, more : Polls(LAMBDA k : Ask("getIpAddress", r.dev), LEASE_POLLS, more,
                                LAMBDA reply : reply.data # 0))

configure(r, seen) ==
  IF ~Plausible(r) THEN <<Refuse>>
  ELSE Then(host_port(r.dev), seen,
            LAMBDA got, more : IF r.dhcp THEN apply_dhcp(r, more)
                               ELSE apply_static(r) \o <<Ask("getIpAddress", r.dev)>>)

servers6(r) ==
  When(r.gateway # NONE, <<Tell("setv6DefaultGateway", r.dev, r.gateway)>>)
  \o When(r.dns # NONE, <<Tell("setv6ServerIp", r.dev, r.dns)>>)

configure_ipv6(r, seen) ==
  Then(Check(Plausible6(r)) \o host_port(r.dev)
       \o <<Tell("setIpv6Enabled", r.dev, r.mode # "off")>>
       \o (CASE r.mode = "off" -> <<Tell("removeAllIpv6Addresses", r.dev, <<>>)>>
             [] r.mode = "auto" -> <<Tell("removeAllIpv6Addresses", r.dev, <<>>),
                                     Tell("setIpv6AddressAutoConfig", r.dev, TRUE)>>
             [] OTHER -> <<Tell("setIpv6AddressAutoConfig", r.dev, FALSE),
                           Tell("removeAllIpv6Addresses", r.dev, <<>>),
                           Must("addIpv6Address", r.dev, r.address[1])>>)
       \o servers6(r),
       seen,
       LAMBDA got, more : Polls(LAMBDA k : Ask("getIpv6Addresses", r.dev), LEASE_POLLS, more,
                                LAMBDA reply : r.mode # "auto" \/ reply.data # <<>>))

\* The list is made when looking at it gives an error of any kind, as the first look at a
\* list nobody has used does.
acl(dev, family, seen) ==
  <<Try("getCommandCount", dev, family)>>
  \o When(seen # <<>> /\ seen[1].is \in {"missing", "lost"}, <<Tell("addAcl", dev, family)>>)

Edits(r) == [k \in 1..(Len(r.adds) + Len(r.removes)) |->
               IF k <= Len(r.adds) THEN [add |-> TRUE, rule |-> r.adds[k]]
               ELSE [add |-> FALSE, rule |-> r.removes[k - Len(r.adds)]]]

Edit(r, edit, seen) ==
  acl(r.dev, edit.rule.family, seen)
  \o When(seen # <<>>, <<Must(IF edit.add THEN "addExtStatement" ELSE "removeExtStatement",
                             r.dev, edit.rule)>>)

\* rules(): looking at the rules makes the list, too, when there is none; the rules of a
\* family are read in one step.
rules(r, family, seen) ==
  acl(r.dev, family, seen) \o When(seen # <<>>, <<Tell("getCommandCount", r.dev, family)>>)

\* The parts of the work once the switches are set.
FirewallStages == <<"edits", "switches", "v4", "v6">>

FirewallStage(r, stage, seen) ==
  CASE stage = "edits"    -> InTurn(Edits(r), seen, LAMBDA edit, own : Edit(r, edit, own))
    [] stage = "switches" -> <<Ask("isInboundFirewallOn", r.dev)>>
    [] OTHER              -> rules(r, stage, seen)

\* All rules are checked first, then the switches are set, then one rule after the other
\* is added or removed: an edit Packet Tracer refuses leaves those before it.
set_firewall(r, seen) ==
  Then(Check(\A k \in DOMAIN Edits(r) : check(Edits(r)[k].rule))
       \o host_port(r.dev)
       \o When(r.ipv4 # NONE, <<Tell("setInboundFirewallService", r.dev, r.ipv4 = 1)>>)
       \o When(r.ipv6 # NONE, <<Tell("setInboundIpv6FirewallService", r.dev, r.ipv6 = 1)>>),
       seen,
       LAMBDA got, more :
         InTurn(FirewallStages, more, LAMBDA stage, own : FirewallStage(r, stage, own)))

HostPlan(r, seen) ==
  CASE r.tool = "configure_host"      -> configure(r, seen)
    [] r.tool = "configure_host_ipv6" -> configure_ipv6(r, seen)
    [] r.tool = "set_host_firewall"   -> set_firewall(r, seen)

----------------------------------------------------------------------------
\* Packet Tracer's side.

Port(p, d) == p.hosts[d]

Sets(p, d, port) == Obeys([p EXCEPT !.hosts[d] = port])

add_address(p, d, a) ==
  Did(p, Port(p, d).on6 /\ a.prefix \in 1..128, [p EXCEPT !.hosts[d].v6 = Append(@, a)])

\* The first statement that is exactly the same.
WithoutFirst(s, x) ==
  LET hits == {k \in DOMAIN s : s[k] = x} IN
  IF hits = {} THEN s
  ELSE LET k == CHOOSE k \in hits : \A o \in hits : k <= o IN
       SubSeq(s, 1, k - 1) \o SubSeq(s, k + 1, Len(s))

\* Packet Tracer refuses to add the same rule twice (hosts/README.md).
Listed(p, d, rule) == \E k \in DOMAIN Port(p, d).rules : Port(p, d).rules[k] = rule

HostAnswer(p, c) ==
  LET d == c.at
      port == Port(p, d) IN
  CASE c.op = "host"    -> Says(p, d \in Hosts)
    [] c.op = "getName" -> Obeys(p)
    [] c.op = "setDhcpClientFlag" -> Sets(p, d, [port EXCEPT !.dhcp = c.val])
    [] c.op = "setDhcpFlag" -> Sets(p, d, [port EXCEPT !.ip = 0, !.mask = 0])
    [] c.op = "setIpSubnetMask" -> Sets(p, d, [port EXCEPT !.ip = c.val.ip, !.mask = c.val.mask])
    [] c.op = "setDefaultGateway" -> Sets(p, d, [port EXCEPT !.gateway = c.val])
    [] c.op = "setDnsServerIp" -> Sets(p, d, [port EXCEPT !.dns = c.val])
    [] c.op = "getIpAddress" -> Gives(p, port.ip)
    [] c.op = "setIpv6Enabled" -> Sets(p, d, [port EXCEPT !.on6 = c.val])
    [] c.op = "setIpv6AddressAutoConfig" -> Sets(p, d, [port EXCEPT !.auto = c.val])
    [] c.op = "removeAllIpv6Addresses" -> Sets(p, d, [port EXCEPT !.v6 = <<>>])
    [] c.op = "addIpv6Address" -> add_address(p, d, c.val)
    [] c.op = "setv6DefaultGateway" -> Sets(p, d, [port EXCEPT !.gateway6 = c.val])
    [] c.op = "setv6ServerIp" -> Sets(p, d, [port EXCEPT !.dns6 = c.val])
    [] c.op = "getIpv6Addresses" -> Gives(p, port.v6)
    [] c.op = "setInboundFirewallService" -> Sets(p, d, [port EXCEPT !.firewall = c.val])
    [] c.op = "setInboundIpv6FirewallService" -> Sets(p, d, [port EXCEPT !.firewall6 = c.val])
    [] c.op = "isInboundFirewallOn" -> Obeys(p)
    [] c.op = "getCommandCount" -> IF c.val \in port.acls THEN Obeys(p) ELSE Missing(p)
    [] c.op = "addAcl" -> Sets(p, d, [port EXCEPT !.acls = @ \cup {c.val}])
    [] c.op = "addExtStatement" ->
         IF c.val.family \in port.acls
         THEN Did(p, ~Listed(p, d, c.val), [p EXCEPT !.hosts[d].rules = Append(@, c.val)])
         ELSE Missing(p)
    [] c.op = "removeExtStatement" ->
         IF c.val.family \in port.acls
         THEN Did(p, Listed(p, d, c.val), [p EXCEPT !.hosts[d].rules = WithoutFirst(@, c.val)])
         ELSE Missing(p)
    [] OTHER -> Unknown(p)

\* The network gives a client that has no address one: a lease, or an address made of the
\* router's advertisement.
Advertised == [net |-> "slaac", usable |-> TRUE, prefix |-> 64]

Addressed(p, d) ==
  {q \in {[p EXCEPT !.hosts[d].ip = Lease.ip, !.hosts[d].mask = Lease.mask]} :
     Port(p, d).dhcp /\ Port(p, d).ip = 0}
  \cup {q \in {[p EXCEPT !.hosts[d].v6 = <<Advertised>>]} :
     Port(p, d).on6 /\ Port(p, d).auto /\ Port(p, d).v6 = <<>>}

HostSettles(p) == UNION {Addressed(p, d) : d \in Hosts}

----------------------------------------------------------------------------
\* What the properties ask about.

FreshPort == [dhcp |-> FALSE, ip |-> 0, mask |-> 0, gateway |-> 0, dns |-> 0,
              on6 |-> FALSE, auto |-> FALSE, v6 |-> <<>>, gateway6 |-> 0, dns6 |-> 0,
              firewall |-> FALSE, firewall6 |-> FALSE, acls |-> {}, rules |-> <<>>]

HostInit == {[part |-> "hosts", hosts |-> [d \in Hosts |-> FreshPort]]}

HostTopics(r) == {[dev |-> r.dev, about |-> r.tool]}

\* The rules as the list had them, with the added at the end and the removed taken out.
Rules(r, was) ==
  LET after[k \in 0..Len(Edits(r))] ==
        IF k = 0 THEN was
        ELSE IF Edits(r)[k].add THEN Append(after[k - 1], Edits(r)[k].rule)
        ELSE WithoutFirst(after[k - 1], Edits(r)[k].rule) IN
  after[Len(Edits(r))]

HostWanted(r, was, now) ==
  LET new == Port(now, r.dev) IN
  CASE r.tool = "configure_host" ->
         /\ new.dhcp = r.dhcp
         /\ ~r.dhcp => new.ip = r.ip /\ new.mask = r.mask
         /\ r.dhcp => new.ip \in {0, Lease.ip}
         /\ r.gateway # NONE /\ ~r.dhcp =>
              new.gateway = r.gateway /\ network(new.gateway, new.mask) = network(new.ip, new.mask)
         /\ r.dns # NONE /\ ~r.dhcp => new.dns = r.dns
    [] r.tool = "configure_host_ipv6" ->
         /\ new.on6 = (r.mode # "off")
         /\ r.mode = "static" => new.v6 = r.address /\ ~new.auto
         /\ r.mode = "auto" => new.auto /\ new.v6 \in {<<>>, <<Advertised>>}
         /\ r.mode = "off" => new.v6 = <<>>
         /\ r.gateway # NONE => new.gateway6 = r.gateway
         /\ r.dns # NONE => new.dns6 = r.dns
    [] r.tool = "set_host_firewall" ->
         /\ r.ipv4 # NONE => new.firewall = (r.ipv4 = 1)
         /\ r.ipv6 # NONE => new.firewall6 = (r.ipv6 = 1)
         /\ {"v4", "v6"} \subseteq new.acls
         /\ new.rules = Rules(r, Port(was, r.dev).rules)

\* An address on a port is a host's address in a subnet that exists.
HostSound(p) ==
  \A d \in Hosts :
    LET port == Port(p, d) IN
    /\ port.ip # 0 => ForHosts(port.ip, port.mask)
    /\ port.mask # 0 => valid_mask(port.mask)
=============================================================================

--------------------------- MODULE WirelessTools ---------------------------
(***************************************************************************)
(* configure_access_point, connect_wireless and wireless_status            *)
(* (features/wireless).  A client associates only when a network is        *)
(* opened, by the profile its file holds, so connect_wireless sets the     *)
(* live radio, then edits the profile into the saved network and opens     *)
(* that, then waits for the association and gives the port its address.    *)
(*                                                                         *)
(* A key is [id, hex, len]; positions are on a line.  Looking for the      *)
(* access points of a network is one look at it, and so is                 *)
(* move_to_location, whose steps PhysicalTools has.                        *)
(***************************************************************************)
EXTENDS HostTools, FileEdits

CONSTANTS
  AccessPoints,      \* devices with a WirelessServerProcess
  Clients,           \* hosts with a WirelessClientProcess
  Placements,         \* where the devices are at first
  RoomWidth,         \* SCENE.0
  ASSOCIATION_POLLS  \* how often an association is waited for

ASSUME AssociationAssumption == ASSOCIATION_POLLS \in Nat

RADIO_RANGE == 120

COMFORTABLE_RANGE == 100

BESIDE_CLIENT == 30

NoAp == ""

NoKey == [id |-> "", hex |-> TRUE, len |-> 0]

\* Security::wire: the authentication and encryption types, none for a key that does not fit.
wire(security, key) ==
  CASE security = "open"     -> {<<0, 0>> : n \in {key.len} \cap {0}}
    [] security = "wep"      -> {<<1, IF n = 10 THEN 1 ELSE 2>> :
                                   n \in IF key.hex THEN {key.len} \cap {10, 26} ELSE {}}
    [] security = "wpa_psk"  -> {<<2, 3>> : n \in {key.len} \cap (8..63)}
    [] security = "wpa2_psk" -> {<<4, 4>> : n \in {key.len} \cap (8..63)}

Types(r) == CHOOSE types \in wire(r.security, r.key) : TRUE

checked(r) == r.ssid # "" /\ wire(r.security, r.key) # {}

----------------------------------------------------------------------------
\* The tools.

\* has_process: no such process is an answer; only a lost call ends the tool.
has_process(dev, role) == Item("getClassName", dev, role, {"ok", "missing"}, FALSE)

apply_radio(r) ==
  <<Tell("setSsid", r.dev, r.ssid), Tell("setAuthenType", r.dev, Types(r)[1]),
    Tell("setEncryptType", r.dev, Types(r)[2])>>
  \o When(r.security # "open", <<Tell("setKey", r.dev, r.key)>>)

configure_access_point(r, seen) ==
  Then(<<Ask("describe", r.dev), has_process(r.dev, "ap")>>, seen,
       LAMBDA got, more :
         IF got[2].is = "missing" \/ ~checked(r) THEN <<Refuse>>
         ELSE apply_radio(r) \o <<Tell("setSsidBrdCastEnabled", r.dev, r.broadcast),
                                  Ask("read_radio", r.dev), Ask("isSsidBrdCastEnabled", r.dev)>>)

\* The nearest access point of the network, whatever its security, is moved beside the
\* client if it is too far for comfort; the rest follows.
nearest(found) == CHOOSE a \in found : \A o \in found : a.away <= o.away

bring_access_point(near, r) ==
  When(near.away > COMFORTABLE_RANGE, <<Must("move_to_location", near.name, r.dev)>>)

Brought(r, seen, Rest(_)) ==
  IF ~r.bring THEN Rest(seen)
  ELSE Then(<<Tell("access_points_for", r.dev, r.ssid)>>, seen,
            LAMBDA got, more :
              IF got[1].data = {} THEN <<Refuse>>
              ELSE Then(bring_access_point(nearest(got[1].data), r), more, LAMBDA moved, then : Rest(then)))

\* Time is moved on between two looks.
wait_for_association(r, seen) ==
  Polls(LAMBDA k : IF k % 2 = 1 THEN Ask("getCurrentApMac", r.dev) ELSE Ask("fast_forward", ""),
        2 * ASSOCIATION_POLLS - 1, seen, LAMBDA reply : reply.data # NoAp)

Waited(r, seen, Rest(_)) ==
  LET polls == wait_for_association(r, seen) IN
  IF Len(polls) > Len(seen) THEN polls
  ELSE polls \o Rest(SubSeq(seen, Len(polls) + 1, Len(seen)))

Profile(r) ==
  [ssid |-> r.ssid, types |-> Types(r), key |-> r.key, dhcp |-> r.address.ip = NONE, ip |-> r.address.ip]

set_client_profile(doc, dev, profile) ==
  IF doc.open /\ dev \in Clients THEN Edited([doc EXCEPT !.profile[dev] = profile]) ELSE Impossible

\* The addressing is plausible or not only now (configure); the diagnosis is a look at the
\* access points again.
address_client(r, seen) ==
  Then(<<Ask("radio_port", r.dev)>>, seen,
       LAMBDA got, more : configure([dev |-> r.dev] @@ r.address, more))

connect_wireless(r, seen) ==
  Then(<<Ask("describe", r.dev), has_process(r.dev, "client"), Try("radio_port", r.dev, <<>>)>>, seen,
       LAMBDA got, more :
         IF \/ got[2].is = "missing" \/ got[3].is # "ok" \/ ~checked(r)
            \/ r.address.ip # NONE /\ r.address.mask = NONE THEN <<Refuse>>
         ELSE Brought(r, more, LAMBDA brought :
                Then(apply_radio(r), brought, LAMBDA applied, then :
                  edit_saved_network(LAMBDA doc : set_client_profile(doc, r.dev, Profile(r)), then,
                    LAMBDA opened : Waited(r, opened,
                      LAMBDA rest : address_client(r, rest))))))

wireless_status(r, seen) ==
  Then(<<Ask("describe", r.dev), has_process(r.dev, "ap")>>, seen,
       LAMBDA got, more :
         IF got[2].is = "ok" THEN <<Ask("read_radio", r.dev), Ask("isSsidBrdCastEnabled", r.dev)>>
         ELSE Then(<<has_process(r.dev, "client"), Try("radio_port", r.dev, <<>>)>>, more,
                LAMBDA client, then :
                  IF client[1].is = "missing" \/ client[2].is # "ok" THEN <<Refuse>>
                  ELSE <<Ask("read_radio", r.dev), Ask("getCurrentApMac", r.dev)>>))

WirelessPlan(r, seen) ==
  CASE r.tool = "configure_access_point" -> configure_access_point(r, seen)
    [] r.tool = "connect_wireless"       -> connect_wireless(r, seen)
    [] r.tool = "wireless_status"        -> wireless_status(r, seen)

----------------------------------------------------------------------------
\* Packet Tracer's side.

Away(p, a, b) == IF p.at[a] < p.at[b] THEN p.at[b] - p.at[a] ELSE p.at[a] - p.at[b]

\* The key counts only when there is one.
Matches(radio, profile) ==
  /\ radio.ssid = profile.ssid /\ <<radio.authen, radio.encrypt>> = profile.types
  /\ radio.authen = 0 \/ radio.key = profile.key

Reachable(p, c) == {a \in AccessPoints : Matches(p.radio[a], p.profile[c]) /\ Away(p, a, c) <= RADIO_RANGE}

\* Every client takes an access point that its profile fits and its radio reaches.
associate(p) ==
  [p EXCEPT !.associated = [c \in Clients |-> IF Reachable(p, c) = {} THEN NoAp
                                              ELSE CHOOSE a \in Reachable(p, c) : TRUE]]

access_points_for(p, c, ssid) ==
  {[name |-> a, away |-> Away(p, a, c)] : a \in {a \in AccessPoints : p.radio[a].ssid = ssid}}

Beside(p, c) == IF p.at[c] + BESIDE_CLIENT > RoomWidth THEN RoomWidth ELSE p.at[c] + BESIDE_CLIENT

WirelessAnswer(p, c) ==
  LET d == c.at IN
  CASE c.op = "list_devices"    -> Gives(p, {})
    [] c.op = "fast_forward"    -> Obeys(p)
    [] c.op = "fileSaveToBytes" -> Gives(p, p)
    [] c.op = "fileNew"         -> Obeys([p EXCEPT !.open = FALSE])
    [] c.op = "fileOpen"        -> Obeys(associate(c.val))
    [] OTHER ->
       IF ~p.open THEN Missing(p)
       ELSE CASE c.op = "describe" -> Obeys(p)
              [] c.op = "getClassName" ->
                   IF d \in IF c.val = "ap" THEN AccessPoints ELSE Clients THEN Obeys(p) ELSE Missing(p)
              [] c.op = "radio_port" -> Obeys(p)
              [] c.op = "setSsid" -> Obeys([p EXCEPT !.radio[d].ssid = c.val])
              [] c.op = "setAuthenType" -> Obeys([p EXCEPT !.radio[d].authen = c.val])
              [] c.op = "setEncryptType" -> Obeys([p EXCEPT !.radio[d].encrypt = c.val])
              [] c.op = "setKey" -> Obeys([p EXCEPT !.radio[d].key = c.val])
              [] c.op = "setSsidBrdCastEnabled" -> Obeys([p EXCEPT !.radio[d].broadcast = c.val])
              [] c.op = "isSsidBrdCastEnabled" -> Says(p, p.radio[d].broadcast)
              [] c.op = "read_radio" -> Obeys(p)
              [] c.op = "getCurrentApMac" -> Gives(p, p.associated[d])
              [] c.op = "access_points_for" -> Gives(p, access_points_for(p, d, c.val))
              [] c.op = "move_to_location" -> Did(p, TRUE, [p EXCEPT !.at[d] = Beside(p, c.val)])
              [] OTHER -> HostAnswer(p, c)

\* A lease comes over the air.
WirelessSettles(p) ==
  IF p.open THEN UNION {Addressed(p, c) : c \in {c \in Clients : p.associated[c] # NoAp}} ELSE {}

----------------------------------------------------------------------------
\* What the properties ask about.

FreshRadio == [ssid |-> "Default", authen |-> 0, encrypt |-> 0, key |-> NoKey, broadcast |-> TRUE]

FreshProfile == [ssid |-> "Default", types |-> <<0, 0>>, key |-> NoKey, dhcp |-> TRUE, ip |-> NONE]

WirelessInit ==
  {associate([part |-> "wireless", open |-> TRUE, at |-> Placements,
              radio |-> [d \in AccessPoints \cup Clients |-> FreshRadio],
              profile |-> [c \in Clients |-> FreshProfile], associated |-> [c \in Clients |-> NoAp],
              hosts |-> [h \in Hosts |-> FreshPort]])}

\* Opening the network anew is about every device in it.
WirelessTopics(r) ==
  CASE r.tool = "wireless_status"        -> {}
    [] r.tool = "configure_access_point" -> {r.dev}
    [] r.tool = "connect_wireless"       -> AccessPoints \cup Clients

\* The radio as it was asked for; an open network leaves the old key where it is.
Tuned(radio, r) ==
  /\ radio.ssid = r.ssid /\ <<radio.authen, radio.encrypt>> = Types(r)
  /\ r.security # "open" => radio.key = r.key

\* The nearest of the access points that are there under the name.
NearestFits(p, r) ==
  LET named == access_points_for(p, r.dev, r.ssid)
      closest == {a \in named : \A o \in named : a.away <= o.away} IN
  \A a \in closest : Matches(p.radio[a.name], Profile(r))

WirelessWanted(r, was, now) ==
  CASE r.tool = "configure_access_point" ->
         Tuned(now.radio[r.dev], r) /\ now.radio[r.dev].broadcast = r.broadcast
    [] r.tool = "connect_wireless" ->
         /\ Tuned(now.radio[r.dev], r) /\ now.profile[r.dev] = Profile(r)
         /\ \A d \in (AccessPoints \cup Clients) \ {r.dev} : now.radio[d] = was.radio[d]
         /\ \A c \in Clients \ {r.dev} : now.profile[c] = was.profile[c]
         /\ now.associated[r.dev] \in IF Reachable(now, r.dev) = {} THEN {NoAp} ELSE Reachable(now, r.dev)
         /\ r.bring /\ NearestFits(was, r) => now.associated[r.dev] # NoAp
         /\ HostWanted([tool |-> "configure_host", dev |-> r.dev] @@ r.address, was, now)
    [] OTHER -> TRUE

\* The profile a client associates by is one its security allows, whatever became of the
\* calls that set the radio; its access point is one.
WirelessSound(p) ==
  \A c \in Clients :
    /\ p.associated[c] \in AccessPoints \cup {NoAp}
    /\ p.profile[c].types \in UNION {wire(s, p.profile[c].key) : s \in {"open", "wep", "wpa_psk", "wpa2_psk"}}
    /\ HostSound(p)
=============================================================================

---------------------------- MODULE ServiceTools ----------------------------
(***************************************************************************)
(* The server tools (features/services): set_server_service, the DHCP and  *)
(* DNS servers, web pages and FTP or e-mail accounts, on the one server    *)
(* SRV of the network.                                                     *)
(***************************************************************************)
EXTENDS ToolPlans

\* The settings of a DHCP pool, in the order configure_dhcp writes them to a pool that is
\* there already.  The network is start_ip under the mask.
PoolSettings == <<"network", "gateway", "dns", "start", "max_users">>

\* Any error of the second look-up counts as "has no server services".
server(dev) == <<Must("describe", dev, <<>>), Try("getClassName", dev, <<>>)>>

OnServer(dev, seen, Tool(_)) ==
  Then(server(dev), seen,
       LAMBDA got, more : IF got[2].is = "ok" THEN Tool(more) ELSE <<Refuse>>)

set_service(r, seen) ==
  OnServer(r.dev, seen, LAMBDA more : <<Tell("setEnable", r.service, r.enabled),
                                      Ask("isEnable", r.service)>>)

\* Every service of the catalog is asked; a process the server has not is left out.
list_services(r, seen) ==
  OnServer(r.dev, seen, LAMBDA more : [k \in 1..Len(r.services) |->
    IF k = 1 THEN Ask("isEnable", r.services[k])
    ELSE Item("isEnable", r.services[k], <<>>, {"ok", "missing"}, FALSE)])

\* A pool of that name is updated setting by setting; when looking it up fails, for
\* whatever reason, a new one is made.
dhcp_pool(pool, seen) ==
  IF ~pool.valid THEN <<Refuse>>
  ELSE Then(<<Try("getPool", pool.name, <<>>)>>, seen,
            LAMBDA got, more :
              IF got[1].is = "ok"
              THEN [k \in DOMAIN PoolSettings |->
                      Tell(PoolSettings[k], pool.name, pool.values)]
              ELSE <<Tell("addNewPool", pool.name, pool.values)>>)

configure_dhcp(r, seen) ==
  OnServer(r.dev, seen, LAMBDA more :
    InTurn(r.pools, more, LAMBDA pool, own : dhcp_pool(pool, own))
    \o <<Tell("setEnable", "dhcp", r.enabled), Ask("isEnable", "dhcp")>>)

configure_dns(r, seen) ==
  OnServer(r.dev, seen, LAMBDA more :
    InTurn(r.records, more,
           LAMBDA record, own : Check(record.valid) \o <<Must("addRecord", record.name, record)>>)
    \o <<Tell("setEnable", "dns", r.enabled), Ask("isEnable", "dns")>>)

set_web_page(r, seen) ==
  OnServer(r.dev, seen, LAMBDA more : Check(r.url # "")
    \o <<Tell("setPageContents", r.url, r.contents), Must("getPage", r.url, r.contents)>>)

\* What is refused for the permissions comes only after the server was looked up, but
\* before the account is made.
add_user(r, seen) ==
  OnServer(r.dev, seen, LAMBDA more : Check(r.user # "")
    \o IF r.service = "ftp"
       THEN Check(r.permissions \subseteq {"R", "W", "D", "N", "L"} /\ r.permissions # {})
            \o <<Tell("addFtpUser", r.user, r.password), Must("isExistingUser", r.user, <<>>)>>
       ELSE When(r.domain # "", <<Tell("setServerDomainName", r.domain, <<>>)>>)
            \o <<Must("addUser", r.user, r.password)>>)

ServicePlan(r, seen) ==
  CASE r.tool = "set_server_service"    -> set_service(r, seen)
    [] r.tool = "list_server_services"  -> list_services(r, seen)
    [] r.tool = "configure_dhcp_server" -> configure_dhcp(r, seen)
    [] r.tool = "configure_dns_server"  -> configure_dns(r, seen)
    [] r.tool = "set_web_page"          -> set_web_page(r, seen)
    [] r.tool = "add_server_user"       -> add_user(r, seen)

----------------------------------------------------------------------------
\* Packet Tracer's side: p.srv is the server's services.

PoolsCalled(s, name) == {k \in DOMAIN s.pools : s.pools[k].name = name}

\* getPool(name): the first of that name.
PoolAt(s, name) == CHOOSE k \in PoolsCalled(s, name) : \A o \in PoolsCalled(s, name) : k <= o

Keeps(p, srv) == Obeys([p EXCEPT !.srv = srv])

SetPool(p, name, setting, values) ==
  IF PoolsCalled(p.srv, name) = {} THEN Missing(p)
  ELSE Obeys([p EXCEPT !.srv.pools[PoolAt(p.srv, name)].values[setting] = values[setting]])

add_record(p, record) ==
  Did(p, record \notin p.srv.records, [p EXCEPT !.srv.records = @ \cup {record}])

\* addUser: the password is kept also when the account was there and the answer is no.
add_account(p, user, password) ==
  Replies([p EXCEPT !.srv.mail_users = {u \in @ : u.user # user}
                                       \cup {[user |-> user, password |-> password]}],
        IF \E u \in p.srv.mail_users : u.user = user THEN "no" ELSE "yes", "")

ServiceAnswer(p, c) ==
  LET s == p.srv IN
  CASE c.op = "describe"     -> Obeys(p)
    [] c.op = "getClassName" -> IF c.at = "SRV" THEN Obeys(p) ELSE Missing(p)
    [] c.op = "setEnable"    -> Keeps(p, [s EXCEPT !.on[c.at] = c.val])
    [] c.op = "isEnable"     -> IF c.at \in DOMAIN s.on THEN Obeys(p) ELSE Missing(p)
    [] c.op = "getPool"      -> IF PoolsCalled(s, c.at) # {} THEN Obeys(p) ELSE Missing(p)
    [] c.op = "addNewPool"   -> Keeps(p, [s EXCEPT !.pools = Append(@, [name |-> c.at, values |-> c.val])])
    [] c.op \in {PoolSettings[k] : k \in DOMAIN PoolSettings} -> SetPool(p, c.at, c.op, c.val)
    [] c.op = "addRecord"    -> add_record(p, c.val)
    [] c.op = "setPageContents" -> Keeps(p, [s EXCEPT !.pages[c.at] = c.val])
    [] c.op = "getPage"      -> Says(p, s.pages[c.at] = c.val)
    [] c.op = "addFtpUser"   -> Keeps(p, [s EXCEPT !.ftp_users = {u \in @ : u.user # c.at}
                                            \cup {[user |-> c.at, password |-> c.val]}])
    [] c.op = "isExistingUser" -> Says(p, \E u \in s.ftp_users : u.user = c.at)
    [] c.op = "setServerDomainName" -> Keeps(p, [s EXCEPT !.domain = c.at])
    [] c.op = "addUser"      -> add_account(p, c.at, c.val)
    [] OTHER                 -> Unknown(p)

----------------------------------------------------------------------------
\* What the properties ask about.

FreshServer ==
  [on |-> [s \in {"dhcp", "dns", "http", "smtp", "pop3"} |-> s # "dhcp" /\ s # "dns"],
   pools |-> <<[name |-> "serverPool", values |-> [k \in {PoolSettings[i] : i \in DOMAIN PoolSettings} |-> 0]]>>,
   records |-> {}, pages |-> [u \in {"index.html", "a.html"} |-> IF u = "index.html" THEN "hello" ELSE ""],
   ftp_users |-> {}, mail_users |-> {}, domain |-> "", mailbox |-> [u \in {"ana", "eva"} |-> <<>>]]

ServiceInit == {[part |-> "services", srv |-> FreshServer]}

ServiceTopics(r) ==
  CASE r.tool = "configure_dhcp_server" -> {"dhcp"}
    [] r.tool = "configure_dns_server"  -> {"dns"}
    [] r.tool = "set_web_page"          -> {r.url}
    [] r.tool = "add_server_user"       -> {"users"}
    [] r.tool = "set_server_service"    -> {r.service}
    [] OTHER                            -> {}

\* The pool that is found under the name.
PoolWanted(s, pool) ==
  /\ PoolsCalled(s, pool.name) # {}
  /\ s.pools[PoolAt(s, pool.name)].values = pool.values

ServiceWanted(r, now) ==
  CASE r.tool = "set_server_service" -> now.srv.on[r.service] = r.enabled
    [] r.tool = "configure_dhcp_server" ->
         /\ now.srv.on["dhcp"] = r.enabled
         /\ \A k \in DOMAIN r.pools :
              (\A l \in DOMAIN r.pools : l > k => r.pools[l].name # r.pools[k].name)
              => PoolWanted(now.srv, r.pools[k])
    [] r.tool = "configure_dns_server" ->
         /\ now.srv.on["dns"] = r.enabled
         /\ {r.records[k] : k \in DOMAIN r.records} \subseteq now.srv.records
    [] r.tool = "set_web_page" -> now.srv.pages[r.url] = r.contents
    [] r.tool = "add_server_user" ->
         [user |-> r.user, password |-> r.password] \in
           (IF r.service = "ftp" THEN now.srv.ftp_users ELSE now.srv.mail_users)
    [] OTHER -> TRUE

\* Accounts are one to a name.
ServiceSound(p) ==
  \A users \in {p.srv.ftp_users, p.srv.mail_users} :
    \A u, v \in users : u.user = v.user => u = v
=============================================================================

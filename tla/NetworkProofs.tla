---------------------------- MODULE NetworkProofs -----------------------------
(***************************************************************************)
(* Proofs about the tools that work on the open network, taken together,   *)
(* for any network, any requests, any number of MCP calls and any loss.    *)
(* First what Packet Tracer itself keeps well-formed, whatever it is asked;*)
(* then what depends on the calls that the tools send: addresses, drawings *)
(* and the wireless network.  There the argument is about plans: whatever  *)
(* answers a tool has had, no call of its plan sets an address that was not*)
(* checked, and the file it opens is the one it took, with its own edit.   *)
(***************************************************************************)
EXTENDS MCNetwork, DevicesProofs

----------------------------------------------------------------------------
(* What Packet Tracer keeps well-formed by itself *)

\* Preferences.

PreferencesFit(p) ==
  {"part", "values"} \subseteq DOMAIN p /\ p.part = "preferences" /\ DOMAIN p.values = Known

LEMMA PreferencesBegin ==
  ASSUME NEW p \in PreferenceInit
  PROVE  PreferencesFit(p)
BY DEF PreferenceInit, PreferencesFit

LEMMA PreferencesAnswer ==
  ASSUME NEW p, PreferencesFit(p), NEW c
  PROVE  PreferencesFit(PreferenceAnswer(p, c).pt)
<1> DEFINE q == PreferenceAnswer(p, c).pt
<1>1. q = p \/ q = [p EXCEPT !.values[c.at] = c.val.value]
  BY Zenon DEF PreferenceAnswer, Gives, Obeys, Missing, Unknown, Replies
<1> HIDE DEF q
<1> SUFFICES PreferencesFit(q)
  BY DEF q
<1>2. QED BY <1>1 DEF PreferencesFit

----------------------------------------------------------------------------
\* The activity.

ActivityFits(p) ==
  /\ {"part", "activity", "unlocked", "tested", "elapsed", "description"} \subseteq DOMAIN p
  /\ p.part = "activity" /\ ActivitySound(p)

LEMMA ActivityBegins ==
  ASSUME NEW p \in ActivityInit
  PROVE  ActivityFits(p)
<1>1. PICK a \in BOOLEAN : p = [part |-> "activity", activity |-> a, unlocked |-> Password = "",
                                 tested |-> FALSE, elapsed |-> TRUE, description |-> ""]
  BY Zenon DEF ActivityInit
<1>2. p.unlocked = (Password = "") /\ p.tested = FALSE /\ p.elapsed = TRUE
  BY Zenon, <1>1
<1>3. {"part", "activity", "unlocked", "tested", "elapsed", "description"} \subseteq DOMAIN p /\ p.part = "activity"
  BY Zenon, <1>1
<1>4. QED BY Zenon, <1>2, <1>3 DEF ActivityFits, ActivitySound

LEMMA ActivityAnswers ==
  ASSUME NEW p, ActivityFits(p), NEW c
  PROVE  ActivityFits(ActivityAnswer(p, c).pt)
<1> DEFINE q == ActivityAnswer(p, c).pt
<1>1. \/ q = p
      \/ q = [p EXCEPT !.description = c.val]
      \/ p.activity /\ q = [p EXCEPT !.unlocked = Password \in {"", c.val}]
      \/ p.activity /\ q = [p EXCEPT !.tested = TRUE]
      \/ p.activity /\ q = [p EXCEPT !.elapsed = FALSE, !.tested = FALSE]
  BY Zenon DEF ActivityAnswer, Guarded, Gives, Obeys, Says, Missing, Unknown, Replies
<1> HIDE DEF q
<1> SUFFICES ActivityFits(q)
  BY DEF q
<1>2. PICK v : \/ q = p \/ q = [p EXCEPT !.description = v] \/ q = [p EXCEPT !.unlocked = v]
               \/ q = [p EXCEPT !.tested = v] \/ q = [p EXCEPT !.elapsed = v, !.tested = v]
  BY Zenon, <1>1
<1>3. /\ {"part", "activity", "unlocked", "tested", "elapsed", "description"} \subseteq DOMAIN q
      /\ q.part = "activity" /\ q.activity = p.activity
  BY <1>2 DEF ActivityFits
<1>4. p.activity \/ (q.tested = p.tested /\ q.elapsed = p.elapsed /\ q.unlocked = p.unlocked)
  BY Zenon, <1>1 DEF ActivityFits
<1>5. QED BY Zenon, <1>3, <1>4 DEF ActivityFits, ActivitySound

----------------------------------------------------------------------------
\* Links.

\* A port takes one cable.
OneCable(links) ==
  \A l, m \in links : {l.a, l.b} \cap {m.a, m.b} # {} => l = m

LinksFit(p) ==
  /\ {"part", "devs", "links"} \subseteq DOMAIN p /\ p.part = "links"
  /\ OneCable(p.links)
  /\ \A l \in p.links : l.a # l.b /\ Exists(p, l.a) /\ Exists(p, l.b)

LEMMA AtMostOne ==
  ASSUME NEW S, \A x, y \in S : x = y
  PROVE  Cardinality(S) <= 1
<1>1. CASE S = {}
  BY <1>1, FS_EmptySet
<1>2. CASE S # {}
  <2>1. PICK x : S = {x}
    BY <1>2
  <2>2. QED BY <2>1, FS_Singleton
<1>3. QED BY <1>1, <1>2

LEMMA LinksFitAreSound ==
  ASSUME NEW p, LinksFit(p)
  PROVE  LinkSound(p)
<1>1. ASSUME NEW e
      PROVE  Cardinality(Linked(p, e)) <= 1
  <2>1. \A l, m \in Linked(p, e) : l = m
    BY DEF LinksFit, OneCable, Linked
  <2>2. QED BY <2>1, AtMostOne
<1>2. QED BY <1>1 DEF LinksFit, LinkSound

LEMMA LinksBegin ==
  ASSUME NEW p \in LinkInit
  PROVE  LinksFit(p)
<1>1. /\ {"part", "devs", "links"} \subseteq DOMAIN p /\ p.part = "links" /\ p.devs = DOMAIN PortsOf
      /\ \A l \in p.links : l = [a |-> Radio, b |-> Station, cable |-> "wireless"] /\ {l.a, l.b} \subseteq Ends
  BY DEF LinkInit
<1>2. \A e \in Ends : e.dev \in DOMAIN PortsOf
  BY DEF Ends
<1>3. Radio # Station
  <2>1. Radio.dev # Station.dev
    BY DEF Radio, Station
  <2>2. QED BY <2>1
<1>4. QED BY <1>1, <1>2, <1>3 DEF LinksFit, OneCable, Exists

LEMMA LinksAnswer ==
  ASSUME NEW p, LinksFit(p), NEW c
  PROVE  LinksFit(LinkAnswer(p, c).pt)
<1> DEFINE q == LinkAnswer(p, c).pt
           link == [a |-> c.at, b |-> c.val.to, cable |-> c.val.cable]
<1>1. \/ q = p
      \/ /\ c.at # c.val.to
         /\ \A e \in {c.at, c.val.to} : Exists(p, e) /\ Linked(p, e) = {}
         /\ q = [p EXCEPT !.links = @ \cup {link}]
      \/ q = [p EXCEPT !.links = @ \ Linked(p, c.at)]
      \/ q = [p EXCEPT !.devs = @ \ {c.at}, !.links = {l \in @ : c.at \notin {l.a.dev, l.b.dev}}]
  BY Zenon DEF LinkAnswer, create_link, delete_link, remove_device, Did, Says, Gives, Obeys, Missing, Unknown, Replies
<1> HIDE DEF q
<1> SUFFICES LinksFit(q)
  BY DEF q
<1>2. CASE q = p
  BY <1>2
<1>3. CASE /\ c.at # c.val.to
           /\ \A e \in {c.at, c.val.to} : Exists(p, e) /\ Linked(p, e) = {}
           /\ q = [p EXCEPT !.links = @ \cup {link}]
  <2>1. /\ {"part", "devs", "links"} \subseteq DOMAIN q /\ q.part = "links" /\ q.devs = p.devs
        /\ q.links = p.links \cup {link}
    BY <1>3 DEF LinksFit
  <2>2. link.a = c.at /\ link.b = c.val.to
    OBVIOUS
  <2> HIDE DEF link
  <2>3. \A l \in p.links : {l.a, l.b} \cap {link.a, link.b} = {}
    BY <1>3, <2>2 DEF Linked
  <2>4. OneCable(q.links)
    BY <2>1, <2>3 DEF LinksFit, OneCable
  <2>5. \A l \in q.links : l.a # l.b /\ Exists(q, l.a) /\ Exists(q, l.b)
    BY <1>3, <2>1, <2>2 DEF LinksFit, Exists
  <2>6. QED BY <2>1, <2>4, <2>5 DEF LinksFit
<1>4. CASE q = [p EXCEPT !.links = @ \ Linked(p, c.at)]
  <2>1. /\ {"part", "devs", "links"} \subseteq DOMAIN q /\ q.part = "links" /\ q.devs = p.devs
        /\ q.links \subseteq p.links
    BY <1>4 DEF LinksFit
  <2>2. QED BY <2>1 DEF LinksFit, OneCable, Exists
<1>5. CASE q = [p EXCEPT !.devs = @ \ {c.at}, !.links = {l \in @ : c.at \notin {l.a.dev, l.b.dev}}]
  <2>1. /\ {"part", "devs", "links"} \subseteq DOMAIN q /\ q.part = "links" /\ q.devs = p.devs \ {c.at}
        /\ q.links = {l \in p.links : c.at \notin {l.a.dev, l.b.dev}}
    BY <1>5 DEF LinksFit
  <2>2. QED BY <2>1 DEF LinksFit, OneCable, Exists
<1>6. QED BY Zenon, <1>1, <1>2, <1>3, <1>4, <1>5
----------------------------------------------------------------------------
\* Services: whatever is asked, accounts stay one to a name.

OneEach(users) == \A u, v \in users : u.user = v.user => u = v

ServerFits(s) ==
  /\ {"on", "pools", "records", "pages", "ftp_users", "mail_users", "domain", "mailbox"} \subseteq DOMAIN s
  /\ OneEach(s.ftp_users) /\ OneEach(s.mail_users)

ServicesFit(p) ==
  {"part", "srv"} \subseteq DOMAIN p /\ p.part = "services" /\ ServerFits(p.srv)

LEMMA NewAccount ==
  ASSUME NEW users, OneEach(users), NEW name, NEW password
  PROVE  OneEach({u \in users : u.user # name} \cup {[user |-> name, password |-> password]})
BY DEF OneEach

\* Most calls leave the accounts alone.
LEMMA OtherSettings ==
  ASSUME NEW s, ServerFits(s), NEW v
  PROVE  /\ ServerFits([s EXCEPT !.on = v]) /\ ServerFits([s EXCEPT !.pools = v])
         /\ ServerFits([s EXCEPT !.records = v]) /\ ServerFits([s EXCEPT !.pages = v])
         /\ ServerFits([s EXCEPT !.domain = v]) /\ ServerFits([s EXCEPT !.mailbox = v])
BY DEF ServerFits

LEMMA Kept ==
  ASSUME NEW p, NEW srv, ServerFits(srv)
  PROVE  \E s : ServerFits(s) /\ Keeps(p, srv).pt \in {p, [p EXCEPT !.srv = s]}
<1>1. Keeps(p, srv).pt = [p EXCEPT !.srv = srv]
  BY Zenon DEF Keeps, Obeys, Replies
<1>2. QED BY Zenon, <1>1

LEMMA ServerAnswers ==
  ASSUME NEW p, "srv" \in DOMAIN p, ServerFits(p.srv), NEW c
  PROVE  \E s : ServerFits(s) /\ ServiceAnswer(p, c).pt \in {p, [p EXCEPT !.srv = s]}
<1> DEFINE reply == ServiceAnswer(p, c)
           ftp == {u \in p.srv.ftp_users : u.user # c.at} \cup {[user |-> c.at, password |-> c.val]}
           mail == {u \in p.srv.mail_users : u.user # c.at} \cup {[user |-> c.at, password |-> c.val]}
<1>1. {PoolSettings[k] : k \in DOMAIN PoolSettings} = {"network", "gateway", "dns", "start", "max_users"}
  BY DEF PoolSettings
<1>2. CASE c.op = "setEnable"
  <2> DEFINE t == [p.srv EXCEPT !.on[c.at] = c.val]
  <2>1. c.op \notin {PoolSettings[k] : k \in DOMAIN PoolSettings}
    BY <1>2, <1>1
  <2>2. reply = Keeps(p, t)
    BY Zenon, <1>2, <2>1 DEF ServiceAnswer
  <2>3. ServerFits(t)
    BY DEF ServerFits
  <2> HIDE DEF t
  <2>4. QED BY Zenon, <2>2, <2>3, Kept
<1>3. CASE c.op = "addNewPool"
  <2> DEFINE t == [p.srv EXCEPT !.pools = Append(@, [name |-> c.at, values |-> c.val])]
  <2>1. c.op \notin {PoolSettings[k] : k \in DOMAIN PoolSettings}
    BY <1>3, <1>1
  <2>2. reply = Keeps(p, t)
    BY Zenon, <1>3, <2>1 DEF ServiceAnswer
  <2>3. ServerFits(t)
    BY Zenon, OtherSettings
  <2> HIDE DEF t
  <2>4. QED BY Zenon, <2>2, <2>3, Kept
<1>4. CASE c.op = "setPageContents"
  <2> DEFINE t == [p.srv EXCEPT !.pages[c.at] = c.val]
  <2>1. c.op \notin {PoolSettings[k] : k \in DOMAIN PoolSettings}
    BY <1>4, <1>1
  <2>2. reply = Keeps(p, t)
    BY Zenon, <1>4, <2>1 DEF ServiceAnswer
  <2>3. ServerFits(t)
    BY DEF ServerFits
  <2> HIDE DEF t
  <2>4. QED BY Zenon, <2>2, <2>3, Kept
<1>5. CASE c.op = "setServerDomainName"
  <2> DEFINE t == [p.srv EXCEPT !.domain = c.at]
  <2>1. c.op \notin {PoolSettings[k] : k \in DOMAIN PoolSettings}
    BY <1>5, <1>1
  <2>2. reply = Keeps(p, t)
    BY Zenon, <1>5, <2>1 DEF ServiceAnswer
  <2>3. ServerFits(t)
    BY Zenon, OtherSettings
  <2> HIDE DEF t
  <2>4. QED BY Zenon, <2>2, <2>3, Kept
<1>6. CASE c.op = "addFtpUser"
  <2> DEFINE t == [p.srv EXCEPT !.ftp_users = ftp]
  <2>1. c.op \notin {PoolSettings[k] : k \in DOMAIN PoolSettings}
    BY <1>6, <1>1
  <2>2. reply = Keeps(p, t)
    BY Zenon, <1>6, <2>1 DEF ServiceAnswer
  <2>3. ServerFits(t)
    <3>1. OneEach(ftp)
      BY Zenon, NewAccount DEF ServerFits
    <3> HIDE DEF ftp
    <3>2. QED BY <3>1 DEF ServerFits
  <2> HIDE DEF t
  <2>4. QED BY Zenon, <2>2, <2>3, Kept
<1>7. CASE c.op = "addUser"
  <2> DEFINE t == [p.srv EXCEPT !.mail_users = mail]
  <2>1. c.op \notin {PoolSettings[k] : k \in DOMAIN PoolSettings}
    BY <1>7, <1>1
  <2>2. reply = add_account(p, c.at, c.val)
    BY Zenon, <1>7, <2>1 DEF ServiceAnswer
  <2>3. OneEach(mail)
    BY Zenon, NewAccount DEF ServerFits
  <2>4. reply.pt = [p EXCEPT !.srv.mail_users = mail]
    <3>1. add_account(p, c.at, c.val).pt = [p EXCEPT !.srv.mail_users = mail]
      BY DEF add_account, Replies
    <3>2. QED BY Zenon, <2>2, <3>1
  <2> HIDE DEF mail
  <2>5. ServerFits(t)
    BY <2>3 DEF ServerFits
  <2>6. [p EXCEPT !.srv.mail_users = mail] = [p EXCEPT !.srv = t]
    BY Zenon
  <2> HIDE DEF t
  <2>7. QED BY Zenon, <2>4, <2>5, <2>6
<1>8. CASE c.op = "addRecord"
  <2> DEFINE v == p.srv.records \cup {c.val}
             t == [p.srv EXCEPT !.records = v]
  <2>1. c.op \notin {PoolSettings[k] : k \in DOMAIN PoolSettings}
    BY <1>8, <1>1
  <2>2. reply = add_record(p, c.val)
    BY Zenon, <1>8, <2>1 DEF ServiceAnswer
  <2>3. reply.pt = p \/ reply.pt = [p EXCEPT !.srv.records = v]
    <3>1. add_record(p, c.val).pt = p \/ add_record(p, c.val).pt = [p EXCEPT !.srv.records = v]
      BY DEF add_record, Did, Replies
    <3>2. QED BY Zenon, <2>2, <3>1
  <2> HIDE DEF v
  <2>4. ServerFits(t)
    BY Zenon, OtherSettings
  <2>5. [p EXCEPT !.srv.records = v] = [p EXCEPT !.srv = t]
    BY Zenon
  <2> HIDE DEF t
  <2>6. QED BY Zenon, <2>3, <2>4, <2>5
<1>9. CASE c.op \in {PoolSettings[k] : k \in DOMAIN PoolSettings}
  <2> DEFINE at == PoolAt(p.srv, c.at)
             t == [p.srv EXCEPT !.pools[at].values[c.op] = c.val[c.op]]
  <2>1. reply = SetPool(p, c.at, c.op, c.val)
    BY Zenon, <1>1, <1>9 DEF ServiceAnswer
  <2>2. reply.pt = p \/ reply.pt = [p EXCEPT !.srv.pools[at].values[c.op] = c.val[c.op]]
    <3>1. \/ SetPool(p, c.at, c.op, c.val).pt = p
          \/ SetPool(p, c.at, c.op, c.val).pt = [p EXCEPT !.srv.pools[at].values[c.op] = c.val[c.op]]
      BY DEF SetPool, Obeys, Missing, Replies
    <3>2. QED BY Zenon, <2>1, <3>1
  <2> HIDE DEF at
  <2>3. ServerFits(t)
    BY DEF ServerFits
  <2>4. [p EXCEPT !.srv.pools[at].values[c.op] = c.val[c.op]] = [p EXCEPT !.srv = t]
    BY Zenon
  <2> HIDE DEF t
  <2>5. QED BY Zenon, <2>2, <2>3, <2>4
<1>10. CASE /\ c.op \notin {"setEnable", "addNewPool", "addRecord", "setPageContents", "setServerDomainName",
                           "addFtpUser", "addUser"}
            /\ c.op \notin {PoolSettings[k] : k \in DOMAIN PoolSettings}
  <2>1. reply.pt = p
    BY Zenon, <1>10 DEF ServiceAnswer, Says, Obeys, Missing, Unknown, Replies
  <2>2. QED BY Zenon, <2>1
<1>11. QED BY Zenon, <1>2, <1>3, <1>4, <1>5, <1>6, <1>7, <1>8, <1>9, <1>10

LEMMA ServicesAnswer ==
  ASSUME NEW p, ServicesFit(p), NEW c
  PROVE  ServicesFit(ServiceAnswer(p, c).pt)
<1>1. PICK s : ServerFits(s) /\ ServiceAnswer(p, c).pt \in {p, [p EXCEPT !.srv = s]}
  BY ServerAnswers DEF ServicesFit
<1>2. ServicesFit([p EXCEPT !.srv = s])
  BY <1>1 DEF ServicesFit
<1>3. QED BY <1>1, <1>2

LEMMA FreshServerFits == ServerFits(FreshServer) /\ FreshServer.mail_users = {}
BY DEF FreshServer, ServerFits, OneEach

LEMMA ServicesBegin ==
  ASSUME NEW p \in ServiceInit
  PROVE  ServicesFit(p)
BY FreshServerFits DEF ServiceInit, ServicesFit

LEMMA ServicesFitAreSound ==
  ASSUME NEW p, ServerFits(p.srv)
  PROVE  ServiceSound(p)
BY DEF ServerFits, OneEach, ServiceSound

----------------------------------------------------------------------------
\* The desktop: a tunnel that is up has been told everything.

\* The apps of a device.
AppsFit(k) ==
  /\ {"account", "files", "vpn"} \subseteq DOMAIN k /\ {"fields", "connected"} \subseteq DOMAIN k.vpn
  /\ k.vpn.connected => k.vpn.fields = VpnFull

DesktopFits(p) ==
  /\ {"part", "srv", "desk", "log", "coming", "heeded"} \subseteq DOMAIN p /\ p.part = "desktop"
  /\ ServerFits(p.srv)
  /\ DOMAIN p.desk = Desktops /\ \A d \in Desktops : AppsFit(p.desk[d])

LEMMA DesktopFitsIsSound ==
  ASSUME NEW p, DesktopFits(p)
  PROVE  DesktopSound(p)
BY ServicesFitAreSound DEF DesktopFits, DesktopSound, AppsFit

LEMMA DesktopBegins ==
  ASSUME NEW p \in DesktopInit
  PROVE  DesktopFits(p)
<1>1. PICK account : p = [part |-> "desktop",
         srv |-> [FreshServer EXCEPT !.domain = "lab", !.mail_users = {[user |-> "ana", password |-> "pw"]}],
         desk |-> [d \in Desktops |-> [FreshDesktop EXCEPT !.account = account]],
         log |-> <<>>, coming |-> <<>>, heeded |-> {}]
  BY DEF DesktopInit
<1>2. ServerFits([FreshServer EXCEPT !.domain = "lab", !.mail_users = {[user |-> "ana", password |-> "pw"]}])
  BY FreshServerFits DEF ServerFits, OneEach
<1>3. AppsFit([FreshDesktop EXCEPT !.account = account])
  BY DEF FreshDesktop, AppsFit
<1>4. QED BY <1>1, <1>2, <1>3 DEF DesktopFits

\* What is to come, what was heard, who listens and the mailboxes of the server are free.
LEMMA HeededFits ==
  ASSUME NEW p, DesktopFits(p), NEW w
  PROVE  DesktopFits([p EXCEPT !.heeded = w])
BY DEF DesktopFits

LEMMA ComingFits ==
  ASSUME NEW p, DesktopFits(p), NEW w
  PROVE  DesktopFits([p EXCEPT !.coming = w])
BY DEF DesktopFits

LEMMA HeardFits ==
  ASSUME NEW p, DesktopFits(p), NEW v, NEW w
  PROVE  DesktopFits([p EXCEPT !.log = v, !.coming = w])
BY DEF DesktopFits

LEMMA BoxFits ==
  ASSUME NEW p, DesktopFits(p), NEW v
  PROVE  DesktopFits([p EXCEPT !.srv.mailbox = v])
<1>1. ServerFits([p.srv EXCEPT !.mailbox = v])
  BY OtherSettings DEF DesktopFits
<1>2. QED BY <1>1 DEF DesktopFits

LEMMA ObeysWith ==
  ASSUME NEW p
  PROVE  Obeys(p).pt = p
BY DEF Obeys, Replies

\* Only what a device's apps hold changes.
LEMMA OnDesk ==
  ASSUME NEW p, DesktopFits(p), NEW d, NEW k, d \in Desktops => AppsFit(k)
  PROVE  DesktopFits([p EXCEPT !.desk[d] = k])
BY DEF DesktopFits

LEMMA OnDeskVpn ==
  ASSUME NEW p, DesktopFits(p), NEW d, NEW vpn,
         {"fields", "connected"} \subseteq DOMAIN vpn, vpn.connected => vpn.fields = VpnFull
  PROVE  DesktopFits([p EXCEPT !.desk[d].vpn = vpn])
<1>1. d \in Desktops => AppsFit([p.desk[d] EXCEPT !.vpn = vpn])
  BY DEF DesktopFits, AppsFit
<1>2. [p EXCEPT !.desk[d].vpn = vpn] = [p EXCEPT !.desk[d] = [p.desk[d] EXCEPT !.vpn = vpn]]
  BY Zenon
<1>3. DesktopFits([p EXCEPT !.desk[d] = [p.desk[d] EXCEPT !.vpn = vpn]])
  BY Zenon, <1>1, OnDesk
<1>4. QED BY Zenon, <1>2, <1>3

LEMMA DesktopSettlesFit ==
  ASSUME NEW p, DesktopFits(p), NEW q \in DesktopSettles(p)
  PROVE  DesktopFits(q)
<1>1. \E sent : q = [p EXCEPT !.log = sent, !.coming = Tail(@)]
  BY Zenon DEF DesktopSettles
<1>2. PICK sent : q = [p EXCEPT !.log = sent, !.coming = Tail(@)]
  BY Zenon, <1>1
<1>3. DesktopFits([p EXCEPT !.log = sent, !.coming = Tail(p.coming)])
  BY Zenon, HeardFits
<1>4. QED BY Zenon, <1>2, <1>3

LEMMA RaisesFit ==
  ASSUME NEW p, DesktopFits(p), NEW dev, NEW class, NEW event
  PROVE  DesktopFits(Raises(p, dev, class, event))
<1> DEFINE e == [dev |-> dev, class |-> class, event |-> event]
<1>1. Raises(p, dev, class, event) = [p EXCEPT !.coming = Append(@, e)]
  BY Zenon DEF Raises
<1>2. DesktopFits([p EXCEPT !.coming = Append(@, e)])
  BY Zenon, ComingFits
<1>3. QED BY Zenon, <1>1, <1>2

LEMMA SendFits ==
  ASSUME NEW p, DesktopFits(p), NEW dev, NEW mail
  PROVE  DesktopFits(send_mail(p, dev, mail))
<1>1. DesktopFits(Delivered(p, mail.to, mail.body))
  <2> DEFINE v == [p.srv.mailbox EXCEPT ![mail.to.user] = Append(@, mail.body)]
  <2>1. \/ Delivered(p, mail.to, mail.body) = p
        \/ Delivered(p, mail.to, mail.body) = [p EXCEPT !.srv.mailbox[mail.to.user] = Append(@, mail.body)]
    BY Zenon DEF Delivered
  <2>2. [p EXCEPT !.srv.mailbox[mail.to.user] = Append(@, mail.body)] = [p EXCEPT !.srv.mailbox = v]
    BY Zenon
  <2>3. DesktopFits([p EXCEPT !.srv.mailbox = v])
    BY Zenon, BoxFits
  <2>4. QED BY Zenon, <2>1, <2>2, <2>3
<1>2. QED BY Zenon, <1>1, RaisesFit DEF send_mail

LEMMA ReceiveFits ==
  ASSUME NEW p, DesktopFits(p), NEW dev
  PROVE  DesktopFits(receive_mail(p, dev))
<1> DEFINE account == p.desk[dev].account
           mails == p.srv.mailbox[account.username]
           events == [k \in DOMAIN mails |->
                        [dev |-> dev, class |-> "pop3", event |-> [status |-> "ok", body |-> mails[k]]]]
           box == [p.srv.mailbox EXCEPT ![account.username] = <<>>]
<1>1. \/ receive_mail(p, dev) = Raises(p, dev, "pop3", [status |-> "failed", body |-> ""])
      \/ receive_mail(p, dev) = [p EXCEPT !.srv.mailbox[account.username] = <<>>, !.coming = @ \o events]
  BY Zenon DEF receive_mail
<1>2. [p EXCEPT !.srv.mailbox[account.username] = <<>>, !.coming = @ \o events]
      = [[p EXCEPT !.srv.mailbox = box] EXCEPT !.coming = p.coming \o events]
  <2> HIDE DEF events
  <2> QED BY Zenon
<1> HIDE DEF account, mails, events, box
<1>3. DesktopFits([[p EXCEPT !.srv.mailbox = box] EXCEPT !.coming = p.coming \o events])
  BY Zenon, BoxFits, ComingFits
<1>4. DesktopFits(Raises(p, dev, "pop3", [status |-> "failed", body |-> ""]))
  BY Zenon, RaisesFit
<1>5. QED BY Zenon, <1>1, <1>2, <1>3, <1>4

LEMMA DesktopAnswers ==
  ASSUME NEW p, DesktopFits(p), NEW c
  PROVE  DesktopFits(DesktopAnswer(p, c).pt)
<1> DEFINE reply == DesktopAnswer(p, c)
           Kind == {"go", "setField", "sendMail", "getMailIpc", "setVpn", "connect", "disconnect",
                    "setTextContent", "addTextFile", "removeFile", "subscribe", "unsubscribe"}
           Looks == {"app", "getObjectUuid", "setHttps", "cancel", "files", "next", "account", "isConnected",
                     "fileExist", "getContent"}
<1>1. CASE c.op \in Looks
  <2>1. reply.pt = p
    BY Zenon, <1>1 DEF DesktopAnswer, Says, Gives, Obeys, Missing, Replies
  <2>2. QED BY Zenon, <2>1
<1>2. CASE c.op = "go"
  <2>1. reply = Obeys(Raises(p, c.at, "http", Fetched(p, c.val)))
    BY Zenon, <1>2 DEF DesktopAnswer
  <2>2. reply.pt = Raises(p, c.at, "http", Fetched(p, c.val))
    BY Zenon, <2>1, ObeysWith
  <2>3. QED BY Zenon, <2>2, RaisesFit
<1>3. CASE c.op = "sendMail"
  <2>1. reply = Obeys(send_mail(p, c.at, c.val))
    BY Zenon, <1>3 DEF DesktopAnswer
  <2>2. reply.pt = send_mail(p, c.at, c.val)
    BY Zenon, <2>1, ObeysWith
  <2>3. QED BY Zenon, <2>2, SendFits
<1>4. CASE c.op = "getMailIpc"
  <2>1. reply = Obeys(receive_mail(p, c.at))
    BY Zenon, <1>4 DEF DesktopAnswer
  <2>2. reply.pt = receive_mail(p, c.at)
    BY Zenon, <2>1, ObeysWith
  <2>3. QED BY Zenon, <2>2, ReceiveFits
<1>5. CASE c.op = "setField"
  <2> DEFINE d == c.at.dev
             k == [p.desk[d] EXCEPT !.account[c.at.field] = c.val]
  <2>1. reply = Obeys([p EXCEPT !.desk[d].account[c.at.field] = c.val])
    BY Zenon, <1>5 DEF DesktopAnswer
  <2>2. reply.pt = [p EXCEPT !.desk[d].account[c.at.field] = c.val]
    BY Zenon, <2>1, ObeysWith
  <2>3. [p EXCEPT !.desk[d].account[c.at.field] = c.val] = [p EXCEPT !.desk[d] = k]
    BY Zenon
  <2>4. d \in Desktops => AppsFit(k)
    BY DEF DesktopFits, AppsFit
  <2> HIDE DEF k
  <2>5. DesktopFits([p EXCEPT !.desk[d] = k])
    BY Zenon, <2>4, OnDesk
  <2>6. QED BY Zenon, <2>2, <2>3, <2>5
<1>6. CASE c.op \in {"setTextContent", "addTextFile", "removeFile"}
  <2> DEFINE d == c.at.dev
             K(v) == [p.desk[d] EXCEPT !.files[c.at.name] = v]
  <2>1. \E v : reply.pt = p \/ reply.pt = [p EXCEPT !.desk[d].files[c.at.name] = v]
    BY Zenon, <1>6 DEF DesktopAnswer, Did, Obeys, Missing, Replies
  <2>2. PICK v : reply.pt = p \/ reply.pt = [p EXCEPT !.desk[d].files[c.at.name] = v]
    BY Zenon, <2>1
  <2>3. [p EXCEPT !.desk[d].files[c.at.name] = v] = [p EXCEPT !.desk[d] = K(v)]
    BY Zenon
  <2>4. d \in Desktops => AppsFit(K(v))
    BY DEF DesktopFits, AppsFit
  <2> HIDE DEF K
  <2>5. DesktopFits([p EXCEPT !.desk[d] = K(v)])
    BY Zenon, <2>4, OnDesk
  <2>6. QED BY Zenon, <2>2, <2>3, <2>5
<1>7. CASE c.op = "setVpn"
  <2> DEFINE vpn == p.desk[c.at].vpn
             new == [vpn EXCEPT !.fields = @ \cup {c.val}]
  <2>1. \/ reply.pt = p
        \/ c.val \in VpnFull /\ reply.pt = [p EXCEPT !.desk[c.at].vpn.fields = @ \cup {c.val}]
    BY Zenon, <1>7 DEF DesktopAnswer, Obeys, Unknown, Replies
  <2>2. [p EXCEPT !.desk[c.at].vpn.fields = @ \cup {c.val}] = [p EXCEPT !.desk[c.at].vpn = new]
    BY Zenon
  <2>3. CASE c.at \in Desktops /\ c.val \in VpnFull
    <3>1. {"fields", "connected"} \subseteq DOMAIN new /\ (new.connected => new.fields = VpnFull)
      BY <2>3 DEF DesktopFits, AppsFit
    <3> HIDE DEF new
    <3>2. DesktopFits([p EXCEPT !.desk[c.at].vpn = new])
      BY Zenon, <3>1, OnDeskVpn
    <3>3. QED BY Zenon, <2>1, <2>2, <3>2
  <2>4. CASE c.at \notin Desktops
    <3>1. DesktopFits([p EXCEPT !.desk[c.at] = [p.desk[c.at] EXCEPT !.vpn = new]])
      BY Zenon, <2>4, OnDesk
    <3>2. [p EXCEPT !.desk[c.at].vpn = new] = [p EXCEPT !.desk[c.at] = [p.desk[c.at] EXCEPT !.vpn = new]]
      <4> HIDE DEF new
      <4> QED BY Zenon
    <3>3. QED BY Zenon, <2>1, <2>2, <3>1, <3>2
  <2>5. QED BY Zenon, <2>1, <2>3, <2>4
<1>8. CASE c.op \in {"connect", "disconnect"}
  <2> DEFINE vpn == p.desk[c.at].vpn
             Switched(v) == [vpn EXCEPT !.connected = v]
  <2>1. \E v : (v => vpn.fields = VpnFull) /\ reply.pt = [p EXCEPT !.desk[c.at].vpn.connected = v]
    BY Zenon, <1>8 DEF DesktopAnswer, Obeys, Replies
  <2>2. PICK v : (v => vpn.fields = VpnFull) /\ reply.pt = [p EXCEPT !.desk[c.at].vpn.connected = v]
    BY Zenon, <2>1
  <2>3. [p EXCEPT !.desk[c.at].vpn.connected = v] = [p EXCEPT !.desk[c.at].vpn = Switched(v)]
    BY Zenon
  <2>4. CASE c.at \in Desktops
    <3>1. {"fields", "connected"} \subseteq DOMAIN Switched(v)
      BY <2>4 DEF DesktopFits, AppsFit
    <3>2. Switched(v).connected => Switched(v).fields = VpnFull
      <4>1. "connected" \in DOMAIN vpn /\ "fields" \in DOMAIN vpn
        BY <2>4 DEF DesktopFits, AppsFit
      <4>2. Switched(v).connected = v /\ Switched(v).fields = vpn.fields
        BY Zenon, <4>1
      <4>3. QED BY Zenon, <4>2, <2>2
    <3> HIDE DEF Switched
    <3>3. DesktopFits([p EXCEPT !.desk[c.at].vpn = Switched(v)])
      BY Zenon, <3>1, <3>2, OnDeskVpn
    <3>4. QED BY Zenon, <2>2, <2>3, <3>3
  <2>5. CASE c.at \notin Desktops
    <3>1. DesktopFits([p EXCEPT !.desk[c.at] = [p.desk[c.at] EXCEPT !.vpn = Switched(v)]])
      BY Zenon, <2>5, OnDesk
    <3>2. [p EXCEPT !.desk[c.at].vpn = Switched(v)] = [p EXCEPT !.desk[c.at] = [p.desk[c.at] EXCEPT !.vpn = Switched(v)]]
      <4> HIDE DEF Switched
      <4> QED BY Zenon
    <3>3. QED BY Zenon, <2>2, <2>3, <3>1, <3>2
  <2>6. QED BY Zenon, <2>4, <2>5
<1>9. CASE c.op \in {"subscribe", "unsubscribe"}
  <2>1. PICK w : reply.pt = [p EXCEPT !.heeded = w]
    BY Zenon, <1>9 DEF DesktopAnswer, Obeys, Gives, Replies
  <2> HIDE DEF reply
  <2>2. DesktopFits([p EXCEPT !.heeded = w])
    BY Zenon, HeededFits
  <2>3. DesktopFits(reply.pt)
    BY Zenon, <2>1, <2>2
  <2>4. QED BY Zenon, <2>3 DEF reply
<1>10. CASE c.op \notin Looks \cup Kind
  <2>1. reply = ServiceAnswer(p, c)
    BY Zenon, <1>10 DEF DesktopAnswer
  <2>2. PICK s : ServerFits(s) /\ ServiceAnswer(p, c).pt \in {p, [p EXCEPT !.srv = s]}
    BY ServerAnswers DEF DesktopFits
  <2>3. DesktopFits([p EXCEPT !.srv = s])
    BY <2>2 DEF DesktopFits
  <2>4. QED BY Zenon, <2>1, <2>2, <2>3
<1>11. QED BY Zenon, <1>1, <1>2, <1>3, <1>4, <1>5, <1>6, <1>7, <1>8, <1>9, <1>10

----------------------------------------------------------------------------
\* Sequences, whatever is in them.

IsSeq(s) == \E S : s \in Seq(S)

LEMMA SequenceLaws ==
  ASSUME NEW s, IsSeq(s)
  PROVE  s \in Seq({s[k] : k \in DOMAIN s}) /\ Len(s) \in Nat /\ DOMAIN s = 1..Len(s)
<1>1. PICK S : s \in Seq(S)
  BY DEF IsSeq
<1>2. QED BY <1>1

LEMMA Concatenation ==
  ASSUME NEW s, NEW t, IsSeq(s), IsSeq(t)
  PROVE  /\ IsSeq(s \o t) /\ Len(s \o t) = Len(s) + Len(t)
         /\ \A k \in 1..Len(s) : (s \o t)[k] = s[k]
         /\ \A k \in 1..(Len(s) + Len(t)) : k > Len(s) => (s \o t)[k] = t[k - Len(s)]
<1> DEFINE S == {s[k] : k \in DOMAIN s} \cup {t[k] : k \in DOMAIN t}
<1>1. s \in Seq(S) /\ t \in Seq(S)
  <2>1. \A k \in DOMAIN s : s[k] \in S
    OBVIOUS
  <2>2. \A k \in DOMAIN t : t[k] \in S
    OBVIOUS
  <2> HIDE DEF S
  <2>3. PICK S1 : s \in Seq(S1)
    BY DEF IsSeq
  <2>4. PICK S2 : t \in Seq(S2)
    BY DEF IsSeq
  <2>5. QED BY <2>1, <2>2, <2>3, <2>4
<1> HIDE DEF S
<1>2. s \o t \in Seq(S) /\ Len(s \o t) = Len(s) + Len(t)
  BY <1>1
<1>3. \A k \in 1..Len(s) : (s \o t)[k] = s[k]
  BY <1>1
<1>4. \A k \in 1..(Len(s) + Len(t)) : k > Len(s) => (s \o t)[k] = t[k - Len(s)]
  BY <1>1
<1>5. QED BY <1>2, <1>3, <1>4 DEF IsSeq

LEMMA OneMoreAtEnd ==
  ASSUME NEW s, IsSeq(s), NEW e
  PROVE  /\ IsSeq(Append(s, e)) /\ Len(Append(s, e)) = Len(s) + 1
         /\ \A k \in 1..Len(s) : Append(s, e)[k] = s[k]
         /\ Append(s, e)[Len(s) + 1] = e
<1> DEFINE S == {s[k] : k \in DOMAIN s} \cup {e}
<1>1. s \in Seq(S) /\ e \in S
  <2>1. \A k \in DOMAIN s : s[k] \in S
    OBVIOUS
  <2>2. e \in S
    OBVIOUS
  <2> HIDE DEF S
  <2>3. PICK S1 : s \in Seq(S1)
    BY DEF IsSeq
  <2>4. QED BY <2>1, <2>2, <2>3
<1> HIDE DEF S
<1>2. Append(s, e) \in Seq(S)
  BY <1>1
<1>3. QED BY <1>1, <1>2 DEF IsSeq

----------------------------------------------------------------------------
\* The simulation.

\* Events in the order of their time, none later than now.
InTime(frames, now) ==
  /\ IsSeq(frames)
  /\ \A i \in DOMAIN frames : frames[i].time \in Int /\ frames[i].time <= now
  /\ \A i, j \in DOMAIN frames : i < j => frames[i].time <= frames[j].time

SimulationFits(p) ==
  /\ {"part", "on", "clock", "frames", "pending", "current"} \subseteq DOMAIN p /\ p.part = "simulation"
  /\ p.clock \in Nat /\ InTime(p.frames, p.clock) /\ IsSeq(p.pending)
  /\ ~p.on => p.frames = <<>> /\ p.pending = <<>>

LEMMA SimulationFitsIsSound ==
  ASSUME NEW p, SimulationFits(p)
  PROVE  SimulationSound(p)
BY DEF SimulationFits, InTime, SimulationSound

LEMMA NothingListed == IsSeq(<<>>) /\ \A now : InTime(<<>>, now)
BY DEF IsSeq, InTime

LEMMA SimulationBegins ==
  ASSUME NEW p \in SimulationInit
  PROVE  SimulationFits(p)
<1>1. p = [part |-> "simulation", on |-> FALSE, clock |-> 0, frames |-> <<>>, pending |-> <<>>, current |-> 0]
  BY Zenon DEF SimulationInit
<1>2. /\ {"part", "on", "clock", "frames", "pending", "current"} \subseteq DOMAIN p /\ p.part = "simulation"
      /\ p.clock = 0 /\ p.frames = <<>> /\ p.pending = <<>>
  BY Zenon, <1>1
<1>3. 0 \in Nat
  OBVIOUS
<1>4. QED BY Zenon, <1>2, <1>3, NothingListed DEF SimulationFits

\* Events of one time, no earlier than those there are, go to the end.
LEMMA LaterEvents ==
  ASSUME NEW frames, NEW now \in Nat, InTime(frames, now), NEW new, IsSeq(new),
         NEW later \in Nat, now <= later, \A k \in DOMAIN new : new[k].time = later
  PROVE  InTime(frames \o new, later)
<1> DEFINE all == frames \o new
<1>1. /\ IsSeq(all) /\ Len(all) = Len(frames) + Len(new)
      /\ \A k \in 1..Len(frames) : all[k] = frames[k]
      /\ \A k \in 1..(Len(frames) + Len(new)) : k > Len(frames) => all[k] = new[k - Len(frames)]
  BY Concatenation DEF InTime
<1>2. /\ DOMAIN frames = 1..Len(frames) /\ Len(frames) \in Nat
      /\ DOMAIN new = 1..Len(new) /\ Len(new) \in Nat
  BY SequenceLaws DEF InTime
<1> HIDE DEF all
<1>3. DOMAIN all = 1..Len(all)
  BY <1>1, SequenceLaws
<1>4. \A k \in DOMAIN all : \/ k \in DOMAIN frames /\ all[k] = frames[k]
                            \/ k > Len(frames) /\ all[k].time = later
  <2> TAKE k \in DOMAIN all
  <2>1. CASE k \in DOMAIN frames
    BY <1>1, <1>2, <2>1
  <2>2. CASE k \notin DOMAIN frames
    <3>1. k > Len(frames) /\ k - Len(frames) \in DOMAIN new /\ k \in 1..(Len(frames) + Len(new))
      BY <1>1, <1>2, <1>3, <2>2
    <3>2. all[k] = new[k - Len(frames)]
      BY <1>1, <3>1
    <3>3. QED BY <3>1, <3>2
  <2>3. QED BY <2>1, <2>2
<1>5. \A k \in DOMAIN all : all[k].time \in Int /\ all[k].time <= later
  BY <1>4 DEF InTime
<1>6. \A i, j \in DOMAIN all : i < j => all[i].time <= all[j].time
  BY <1>2, <1>3, <1>4, <1>5 DEF InTime
<1>7. InTime(all, later)
  BY <1>1, <1>5, <1>6 DEF InTime
<1>8. QED BY <1>7 DEF all

LEMMA ForwardFits ==
  ASSUME NEW p, SimulationFits(p)
  PROVE  SimulationFits(forward(p))
<1> DEFINE q == forward(p)
           arrived == [k \in DOMAIN p.pending |->
                         Event(p.clock + 1, p.pending[k].destination, p.pending[k].source, TRUE)]
           all == p.frames \o arrived
           at == IF all = <<>> THEN 0 ELSE Len(all) - 1
<1>1. q = [p EXCEPT !.clock = @ + 1, !.frames = all, !.pending = <<>>, !.current = at]
  BY Zenon DEF forward
<1>2. \A k \in DOMAIN arrived : arrived[k].time = p.clock + 1
  BY Zenon DEF Event
<1>3. IsSeq(arrived) /\ DOMAIN arrived = DOMAIN p.pending /\ Len(arrived) = Len(p.pending)
  <2> DEFINE E(k) == Event(p.clock + 1, p.pending[k].destination, p.pending[k].source, TRUE)
  <2>1. arrived = [k \in DOMAIN p.pending |-> E(k)]
    OBVIOUS
  <2>2. DOMAIN p.pending = 1..Len(p.pending) /\ Len(p.pending) \in Nat
    BY SequenceLaws DEF SimulationFits
  <2> HIDE DEF E, arrived
  <2>3. arrived \in Seq({E(k) : k \in DOMAIN p.pending})
    BY <2>1, <2>2
  <2>4. DOMAIN arrived = 1..Len(p.pending)
    BY <2>1, <2>2
  <2>5. Len(arrived) = Len(p.pending)
    BY <2>2, <2>3, <2>4
  <2>6. IsSeq(arrived)
    BY <2>3 DEF IsSeq
  <2>7. QED BY <2>2, <2>4, <2>5, <2>6
<1> HIDE DEF arrived, at, q
<1>4. InTime(all, p.clock + 1)
  BY <1>2, <1>3, LaterEvents DEF SimulationFits
<1>5. ~p.on => all = <<>>
  <2> SUFFICES ASSUME ~p.on PROVE all = <<>>
    OBVIOUS
  <2>1. p.frames = <<>> /\ p.pending = <<>>
    BY Zenon DEF SimulationFits
  <2>2. Len(all) = 0 /\ IsSeq(all)
    BY <1>3, <2>1, Concatenation, NothingListed
  <2>3. QED BY <2>2 DEF IsSeq
<1> HIDE DEF all
<1>6. /\ {"part", "on", "clock", "frames", "pending", "current"} \subseteq DOMAIN q /\ q.part = "simulation"
      /\ q.on = p.on /\ q.clock = p.clock + 1 /\ q.frames = all /\ q.pending = <<>>
  BY <1>1 DEF SimulationFits
<1>7. q.clock \in Nat
  BY <1>6 DEF SimulationFits
<1>8. SimulationFits(q)
  BY Zenon, <1>4, <1>5, <1>6, <1>7, NothingListed DEF SimulationFits
<1>9. QED BY <1>8 DEF q

LEMMA PduFits ==
  ASSUME NEW p, SimulationFits(p), p.on, NEW source, NEW pdu
  PROVE  SimulationFits([p EXCEPT !.frames = Append(@, Event(p.clock, source, "", FALSE)),
                                  !.pending = Append(@, pdu)])
<1> DEFINE event == Event(p.clock, source, "", FALSE)
           frames == Append(p.frames, event)
           q == [p EXCEPT !.frames = frames, !.pending = Append(@, pdu)]
<1>1. event.time = p.clock
  BY Zenon DEF Event
<1> HIDE DEF event
<1>2. InTime(frames, p.clock)
  <2>1. frames = p.frames \o <<event>>
    <3>1. PICK S : p.frames \in Seq(S)
      BY DEF SimulationFits, InTime, IsSeq
    <3>2. p.frames \in Seq(S \cup {event}) /\ event \in S \cup {event}
      BY <3>1
    <3>3. QED BY <3>2
  <2>2. IsSeq(<<event>>) /\ \A k \in DOMAIN <<event>> : <<event>>[k].time = p.clock
    <3>1. <<event>> \in Seq({event}) /\ \A k \in DOMAIN <<event>> : <<event>>[k] = event
      OBVIOUS
    <3>2. QED BY <1>1, <3>1 DEF IsSeq
  <2>3. InTime(p.frames \o <<event>>, p.clock)
    BY <2>2, LaterEvents DEF SimulationFits
  <2>4. QED BY <2>1, <2>3
<1> HIDE DEF frames
<1>3. /\ {"part", "on", "clock", "frames", "pending", "current"} \subseteq DOMAIN q /\ q.part = "simulation"
      /\ q.on = p.on /\ q.clock = p.clock /\ q.frames = frames /\ q.pending = Append(p.pending, pdu)
  BY DEF SimulationFits
<1>4. IsSeq(q.pending)
  BY <1>3, OneMoreAtEnd DEF SimulationFits
<1>5. SimulationFits(q)
  BY Zenon, <1>2, <1>3, <1>4 DEF SimulationFits
<1>6. QED BY <1>5 DEF frames, event

LEMMA SimulationAnswers ==
  ASSUME NEW p, SimulationFits(p), NEW c
  PROVE  SimulationFits(SimulationAnswer(p, c).pt)
<1> DEFINE q == SimulationAnswer(p, c).pt
           pdu == [source |-> c.val.source, destination |-> c.val.destination]
           on == [p EXCEPT !.on = TRUE]
           off == [Clear(p) EXCEPT !.on = FALSE]
           restarted == [Clear(p) EXCEPT !.current = 0]
           sent == [p EXCEPT !.frames = Append(@, Event(p.clock, c.val.source, "", FALSE)),
                             !.pending = Append(@, pdu)]
<1>1. q = p \/ q = on \/ q = off \/ q = forward(p) \/ q = backward(p) \/ q = restarted \/ (p.on /\ q = sent)
  BY Zenon DEF SimulationAnswer, add_simple_pdu, Gives, Obeys, Missing, Unknown, Replies
<1>2. SimulationFits(on)
  <2>1. ASSUME NEW v, v
        PROVE  SimulationFits([p EXCEPT !.on = v])
    <3> DEFINE r == [p EXCEPT !.on = v]
    <3>1. /\ {"part", "on", "clock", "frames", "pending", "current"} \subseteq DOMAIN r /\ r.part = "simulation"
          /\ r.on = v /\ r.clock = p.clock /\ r.frames = p.frames /\ r.pending = p.pending
      BY DEF SimulationFits
    <3> HIDE DEF r
    <3>2. SimulationFits(r)
      BY Zenon, <2>1, <3>1 DEF SimulationFits
    <3>3. QED BY <3>2 DEF r
  <2>2. QED BY Zenon, <2>1
<1>3. SimulationFits(Clear(p))
  BY NothingListed DEF SimulationFits, Clear
<1>4. SimulationFits(off) /\ SimulationFits(restarted)
  <2>1. ASSUME NEW v
        PROVE  SimulationFits([Clear(p) EXCEPT !.on = v]) /\ SimulationFits([Clear(p) EXCEPT !.current = v])
    <3>1. Clear(p).frames = <<>> /\ Clear(p).pending = <<>>
      BY DEF SimulationFits, Clear
    <3>2. QED BY <1>3, <3>1 DEF SimulationFits
  <2>2. QED BY Zenon, <2>1
<1>5. SimulationFits(backward(p))
  BY DEF backward, SimulationFits
<1>6. SimulationFits(forward(p))
  BY Zenon, ForwardFits
<1>7. p.on => SimulationFits(sent)
  <2> HIDE DEF pdu
  <2>1. QED BY Zenon, PduFits
<1> HIDE DEF q, on, off, restarted, sent
<1>8. SimulationFits(q)
  BY Zenon, <1>1, <1>2, <1>4, <1>5, <1>6, <1>7
<1>9. QED BY <1>8 DEF q

----------------------------------------------------------------------------
\* Modules.

LEMMA Beginning ==
  ASSUME NEW s \in Seq(Nat), NEW m \in Nat, m <= Len(s)
  PROVE  SubSeq(s, 1, m) \in Seq(Nat) /\ Len(SubSeq(s, 1, m)) = m /\ \A k \in 1..m : SubSeq(s, 1, m)[k] = s[k]
OBVIOUS

LEMMA AboveAbove ==
  ASSUME NEW path \in Seq(Nat), NEW up \in Parents(path), NEW top \in Parents(up)
  PROVE  top \in Parents(path)
<1>1. PICK n \in 1..(Len(path) - 1) : up = SubSeq(path, 1, n)
  BY DEF Parents
<1>2. up \in Seq(Nat) /\ Len(up) = n /\ \A k \in 1..n : up[k] = path[k]
  BY <1>1
<1>3. PICK m \in 1..(Len(up) - 1) : top = SubSeq(up, 1, m)
  BY DEF Parents
<1>4. top \in Seq(Nat) /\ Len(top) = m /\ \A k \in 1..m : top[k] = up[k]
  <2>1. m \in Nat /\ m <= Len(up)
    BY <1>2, <1>3
  <2>2. up \in Seq(Nat)
    BY <1>2
  <2>3. QED BY Zenon, <1>3, <2>1, <2>2, Beginning
<1> DEFINE low == SubSeq(path, 1, m)
<1>5. low \in Seq(Nat) /\ Len(low) = m /\ \A k \in 1..m : low[k] = path[k]
  <2>1. m \in Nat /\ m <= Len(path)
    BY <1>1, <1>2, <1>3
  <2>2. QED BY <2>1
<1> HIDE DEF low
<1>6. \A k \in 1..m : top[k] = low[k]
  <2>1. \A k \in 1..m : k \in 1..n
    BY <1>2, <1>3
  <2>2. QED BY <1>2, <1>4, <1>5, <2>1
<1>7. top = low
  BY <1>4, <1>5, <1>6
<1>8. m \in 1..(Len(path) - 1)
  BY <1>1, <1>2, <1>3
<1>9. QED BY <1>7, <1>8 DEF low, Parents

\* A module is in a slot that is there and takes its kind.
Seated(d, holds) ==
  \A path \in DOMAIN SlotKinds[d] :
    holds[path] \notin {"", "board"} =>
      /\ path \in Present(d, holds)
      /\ \E k \in DOMAIN Catalog : Catalog[k].model = holds[path] /\ Catalog[k].kind = SlotKinds[d][path]

SlotsFit(p) ==
  /\ {"part", "power", "holds"} \subseteq DOMAIN p /\ p.part = "modules"
  /\ DOMAIN p.power = DOMAIN SlotKinds /\ DOMAIN p.holds = DOMAIN SlotKinds
  /\ \A d \in DOMAIN SlotKinds : DOMAIN p.holds[d] = DOMAIN SlotKinds[d] /\ Seated(d, p.holds[d])

LEMMA SlotsFitAreSound ==
  ASSUME NEW p, SlotsFit(p)
  PROVE  SlotSound(p)
BY Zenon DEF SlotsFit, Seated, SlotSound

LEMMA SlotsBegin ==
  ASSUME NEW p \in SlotInit
  PROVE  SlotsFit(p)
<1> DEFINE Built(d) == [path \in DOMAIN SlotKinds[d] |-> IF SlotKinds[d][path] \in FIXED_KINDS THEN "board" ELSE ""]
           AllOn == [d \in DOMAIN SlotKinds |-> TRUE]
           Holds == [d \in DOMAIN SlotKinds |-> Built(d)]
<1>1. p = [part |-> "modules", power |-> AllOn, holds |-> Holds]
  BY Zenon DEF SlotInit
<1>2. /\ {"part", "power", "holds"} \subseteq DOMAIN p /\ p.part = "modules"
      /\ p.power = AllOn /\ p.holds = Holds
  BY Zenon, <1>1
<1>3. DOMAIN AllOn = DOMAIN SlotKinds
  BY Zenon
<1>4. \A d \in DOMAIN SlotKinds : DOMAIN Built(d) = DOMAIN SlotKinds[d] /\ Seated(d, Built(d))
  BY DEF Seated
<1> HIDE DEF Built, AllOn
<1>5. QED BY <1>2, <1>3, <1>4 DEF SlotsFit

LEMMA InsertFits ==
  ASSUME NEW p, SlotsFit(p), NEW d \in DOMAIN SlotKinds, NEW slot, NEW module
  PROVE  SlotsFit(Insert(p, d, slot, module).pt)
<1> DEFINE q == Insert(p, d, slot, module).pt
           holds == p.holds[d]
           after == [holds EXCEPT ![slot] = module.model]
<1>1. \/ q = p
      \/ /\ \E k \in DOMAIN Catalog : Catalog[k].model = module.model /\ Catalog[k].kind = module.kind
         /\ slot \in Present(d, holds) /\ holds[slot] = "" /\ SlotKinds[d][slot] = module.kind
         /\ q = [p EXCEPT !.holds[d][slot] = module.model]
  BY Zenon DEF Insert, Did, Replies
<1>2. CASE /\ \E k \in DOMAIN Catalog : Catalog[k].model = module.model /\ Catalog[k].kind = module.kind
           /\ slot \in Present(d, holds) /\ holds[slot] = "" /\ SlotKinds[d][slot] = module.kind
           /\ q = [p EXCEPT !.holds[d][slot] = module.model]
  <2>1. slot \in DOMAIN SlotKinds[d] /\ DOMAIN holds = DOMAIN SlotKinds[d] /\ Seated(d, holds)
    BY Zenon, <1>2 DEF Present, SlotsFit
  <2>2. \A path \in DOMAIN SlotKinds[d] : after[path] = IF path = slot THEN module.model ELSE holds[path]
    BY <2>1
  <2>3. \A path \in DOMAIN SlotKinds[d] : \A up \in Parents(path) :
          up \in DOMAIN SlotKinds[d] /\ (holds[up] # "" => after[up] # "")
    BY Zenon, <1>2, <2>2, SlotsAssumption
  <2>4. DOMAIN after = DOMAIN SlotKinds[d]
    BY <2>1
  <2>5. q = [p EXCEPT !.holds[d] = after]
    BY Zenon, <1>2
  <2> HIDE DEF after, holds
  <2>6. \A path \in Present(d, holds) : path \in Present(d, after)
    BY Zenon, <2>3 DEF Present
  <2>7. Seated(d, after)
    BY Zenon, <1>2, <2>1, <2>2, <2>6 DEF Seated
  <2> HIDE DEF q
  <2>8. SlotsFit(q)
    BY <2>4, <2>5, <2>7 DEF SlotsFit
  <2>9. QED BY <2>8 DEF q
<1>3. QED BY Zenon, <1>1, <1>2

LEMMA PullFits ==
  ASSUME NEW p, SlotsFit(p), NEW d \in DOMAIN SlotKinds, NEW slot
  PROVE  SlotsFit(Pull(p, d, slot).pt)
<1> DEFINE q == Pull(p, d, slot).pt
           holds == p.holds[d]
           after == [path \in DOMAIN holds |-> IF path = slot \/ slot \in Parents(path) THEN "" ELSE holds[path]]
<1>1. q = p \/ q = [p EXCEPT !.holds[d] = after]
  BY Zenon DEF Pull, Did, Replies
<1>2. DOMAIN holds = DOMAIN SlotKinds[d] /\ Seated(d, holds)
  BY DEF SlotsFit
<1>3. DOMAIN after = DOMAIN SlotKinds[d]
  BY <1>2
<1>4. \A path \in DOMAIN SlotKinds[d] :
        after[path] = IF path = slot \/ slot \in Parents(path) THEN "" ELSE holds[path]
  BY <1>2
<1> HIDE DEF after, holds
<1>5. ASSUME NEW path \in Present(d, holds), after[path] # ""
      PROVE  path \in Present(d, after)
  <2>1. /\ path \in DOMAIN SlotKinds[d] /\ path \in Seq(Nat) /\ Parents(path) \subseteq DOMAIN SlotKinds[d]
        /\ \A up \in Parents(path) : holds[up] # ""
    BY Zenon, SlotsAssumption DEF Present
  <2>2. slot \notin Parents(path)
    BY Zenon, <1>4, <1>5, <2>1
  <2>3. \A up \in Parents(path) : up # slot /\ slot \notin Parents(up)
    BY Zenon, <2>1, <2>2, AboveAbove
  <2>4. \A up \in Parents(path) : after[up] # ""
    BY Zenon, <1>4, <2>1, <2>3
  <2>5. QED BY Zenon, <2>1, <2>4 DEF Present
<1>6. Seated(d, after)
  BY Zenon, <1>2, <1>4, <1>5 DEF Seated
<1> HIDE DEF q
<1>7. SlotsFit(q)
  BY <1>1, <1>3, <1>6 DEF SlotsFit
<1>8. QED BY <1>7 DEF q

LEMMA SlotsAnswer ==
  ASSUME NEW p, SlotsFit(p), NEW c
  PROVE  SlotsFit(SlotAnswer(p, c).pt)
<1> DEFINE q == SlotAnswer(p, c).pt
           powered == [p EXCEPT !.power[c.at] = c.val]
<1>1. \/ q = p
      \/ q = powered
      \/ c.at \in DOMAIN p.power /\ q = Insert(p, c.at, c.val.slot, c.val.module).pt
      \/ c.at \in DOMAIN p.power /\ q = Pull(p, c.at, c.val.slot).pt
  BY Zenon DEF SlotAnswer, Gives, Obeys, Missing, Replies
<1>2. SlotsFit(powered)
  BY DEF SlotsFit
<1>3. c.at \in DOMAIN p.power => SlotsFit(Insert(p, c.at, c.val.slot, c.val.module).pt)
  BY Zenon, InsertFits DEF SlotsFit
<1>4. c.at \in DOMAIN p.power => SlotsFit(Pull(p, c.at, c.val.slot).pt)
  BY Zenon, PullFits DEF SlotsFit
<1> HIDE DEF q, powered
<1>5. SlotsFit(q)
  BY Zenon, <1>1, <1>2, <1>3, <1>4
<1>6. QED BY <1>5 DEF q

----------------------------------------------------------------------------
\* The parts that Packet Tracer itself keeps well-formed, whatever it is asked.

SelfKept == {"preferences", "activity", "links", "services", "desktop", "simulation", "modules"}

Fits(p) ==
  \/ PreferencesFit(p) \/ ActivityFits(p) \/ LinksFit(p) \/ ServicesFit(p) \/ DesktopFits(p)
  \/ SimulationFits(p) \/ SlotsFit(p)

LEMMA FitsIsSound ==
  ASSUME NEW p, Fits(p)
  PROVE  Sound(p)
<1>1. CASE PreferencesFit(p)
  BY Zenon, <1>1 DEF PreferencesFit, Sound, PreferenceSound
<1>2. CASE ActivityFits(p)
  BY Zenon, <1>2 DEF ActivityFits, Sound
<1>3. CASE LinksFit(p)
  <2>1. LinkSound(p)
    BY Zenon, <1>3, LinksFitAreSound
  <2>2. QED BY Zenon, <1>3, <2>1 DEF LinksFit, Sound
<1>4. CASE ServicesFit(p)
  <2>1. ServiceSound(p)
    BY Zenon, <1>4, ServicesFitAreSound DEF ServicesFit
  <2>2. QED BY Zenon, <1>4, <2>1 DEF ServicesFit, Sound
<1>5. CASE DesktopFits(p)
  <2>1. DesktopSound(p)
    BY Zenon, <1>5, DesktopFitsIsSound
  <2>2. QED BY Zenon, <1>5, <2>1 DEF DesktopFits, Sound
<1>6. CASE SimulationFits(p)
  <2>1. SimulationSound(p)
    BY Zenon, <1>6, SimulationFitsIsSound
  <2>2. QED BY Zenon, <1>6, <2>1 DEF SimulationFits, Sound
<1>7. CASE SlotsFit(p)
  <2>1. SlotSound(p)
    BY Zenon, <1>7, SlotsFitAreSound
  <2>2. QED BY Zenon, <1>7, <2>1 DEF SlotsFit, Sound
<1>8. QED BY Zenon, <1>1, <1>2, <1>3, <1>4, <1>5, <1>6, <1>7 DEF Fits

LEMMA FitsAnswers ==
  ASSUME NEW p, Fits(p), NEW c
  PROVE  Fits(Answer(p, c).pt)
<1>1. CASE PreferencesFit(p)
  <2>1. Answer(p, c) = PreferenceAnswer(p, c)
    BY Zenon, <1>1 DEF PreferencesFit, Answer
  <2>2. QED BY Zenon, <1>1, <2>1, PreferencesAnswer DEF Fits
<1>2. CASE ActivityFits(p)
  <2>1. Answer(p, c) = ActivityAnswer(p, c)
    BY Zenon, <1>2 DEF ActivityFits, Answer
  <2>2. QED BY Zenon, <1>2, <2>1, ActivityAnswers DEF Fits
<1>3. CASE LinksFit(p)
  <2>1. Answer(p, c) = LinkAnswer(p, c)
    BY Zenon, <1>3 DEF LinksFit, Answer
  <2>2. QED BY Zenon, <1>3, <2>1, LinksAnswer DEF Fits
<1>4. CASE ServicesFit(p)
  <2>1. Answer(p, c) = ServiceAnswer(p, c)
    BY Zenon, <1>4 DEF ServicesFit, Answer
  <2>2. QED BY Zenon, <1>4, <2>1, ServicesAnswer DEF Fits
<1>5. CASE DesktopFits(p)
  <2>1. Answer(p, c) = DesktopAnswer(p, c)
    BY Zenon, <1>5 DEF DesktopFits, Answer
  <2>2. QED BY Zenon, <1>5, <2>1, DesktopAnswers DEF Fits
<1>6. CASE SimulationFits(p)
  <2>1. Answer(p, c) = SimulationAnswer(p, c)
    BY Zenon, <1>6 DEF SimulationFits, Answer
  <2>2. QED BY Zenon, <1>6, <2>1, SimulationAnswers DEF Fits
<1>7. CASE SlotsFit(p)
  <2>1. Answer(p, c) = SlotAnswer(p, c)
    BY Zenon, <1>7 DEF SlotsFit, Answer
  <2>2. QED BY Zenon, <1>7, <2>1, SlotsAnswer DEF Fits
<1>8. QED BY Zenon, <1>1, <1>2, <1>3, <1>4, <1>5, <1>6, <1>7 DEF Fits

\* Of these parts only the desktop does something by itself.
LEMMA FitsSettles ==
  ASSUME NEW p, Fits(p), NEW q \in Settled(p)
  PROVE  Fits(q)
<1>1. CASE DesktopFits(p)
  <2>1. Settled(p) = DesktopSettles(p)
    BY Zenon, <1>1 DEF DesktopFits, Settled
  <2>2. QED BY Zenon, <1>1, <2>1, DesktopSettlesFit DEF Fits
<1>2. CASE ~DesktopFits(p)
  <2>1. p.part \notin {"hosts", "desktop", "wireless"}
    BY <1>2 DEF Fits, PreferencesFit, ActivityFits, LinksFit, ServicesFit, SimulationFits, SlotsFit
  <2>2. Settled(p) = {}
    BY Zenon, <2>1 DEF Settled
  <2>3. QED BY Zenon, <2>2
<1>3. QED BY Zenon, <1>1, <1>2

\* What a step does to Packet Tracer.
LEMMA StepsAreAnswers ==
  ASSUME [ToolNext]_toolvars
  PROVE  \/ pt' = pt
         \/ \E t \in Tasks : AtWork(t) /\ pt' = Answer(pt, toolcall[t].next).pt
         \/ pt' \in Settled(pt)
BY Zenon DEF ToolNext, Settle, ToolStarts, ToolSteps, Answered, AnsweredWith, RequestLost, ReplyLost, toolvars

LEMMA PartsBegin ==
  ASSUME ToolInit, pt.part \in SelfKept
  PROVE  Fits(pt)
<1>1. PICK part \in DOMAIN Asks : pt \in Begins(part)
  BY Zenon DEF ToolInit
<1>2. part \in {"links", "hosts", "services", "desktop", "physical", "wireless", "simulation",
                "preferences", "activity", "canvas", "modules", "ipc"}
  BY Zenon, AsksAssumption
<1>3. CASE part = "preferences"
  BY Zenon, <1>1, <1>3, PreferencesBegin DEF Begins, Fits
<1>4. CASE part = "activity"
  BY Zenon, <1>1, <1>4, ActivityBegins DEF Begins, Fits
<1>5. CASE part = "links"
  BY Zenon, <1>1, <1>5, LinksBegin DEF Begins, Fits
<1>6. CASE part = "services"
  BY Zenon, <1>1, <1>6, ServicesBegin DEF Begins, Fits
<1>7. CASE part = "desktop"
  BY Zenon, <1>1, <1>7, DesktopBegins DEF Begins, Fits
<1>8. CASE part = "simulation"
  BY Zenon, <1>1, <1>8, SimulationBegins DEF Begins, Fits
<1>9. CASE part = "modules"
  BY Zenon, <1>1, <1>9, SlotsBegin DEF Begins, Fits
<1>10. part \notin {"hosts", "physical", "wireless", "canvas", "ipc"}
  <2>1. ASSUME part = "hosts" PROVE FALSE
    <3>1. pt \in HostInit
      BY Zenon, <1>1, <2>1 DEF Begins
    <3>2. pt.part = "hosts"
      BY <3>1 DEF HostInit
    <3>3. QED BY <3>2 DEF SelfKept
  <2>2. ASSUME part = "physical" PROVE FALSE
    <3>1. pt \in PhysicalInit
      BY Zenon, <1>1, <2>2 DEF Begins
    <3>2. PICK nodes : pt = [part |-> "physical", physical |-> FALSE, logical |-> "", gen |-> 0, nodes |-> nodes]
      BY Zenon, <3>1 DEF PhysicalInit
    <3>3. pt.part = "physical"
      BY Zenon, <3>2
    <3>4. QED BY <3>3 DEF SelfKept
  <2>3. ASSUME part = "wireless" PROVE FALSE
    <3>1. pt.part = "wireless"
      BY Zenon, <1>1, <2>3 DEF Begins, WirelessInit, associate
    <3>2. QED BY <3>1 DEF SelfKept
  <2>4. ASSUME part = "canvas" PROVE FALSE
    <3>1. pt \in CanvasInit
      BY Zenon, <1>1, <2>4 DEF Begins
    <3>2. pt.part = "canvas"
      BY <3>1 DEF CanvasInit
    <3>3. QED BY <3>2 DEF SelfKept
  <2>5. ASSUME part = "ipc" PROVE FALSE
    <3>1. pt \in IpcInit
      BY Zenon, <1>1, <2>5 DEF Begins
    <3>2. pt.part = "ipc"
      BY <3>1 DEF IpcInit
    <3>3. QED BY <3>2 DEF SelfKept
  <2>6. QED BY Zenon, <2>1, <2>2, <2>3, <2>4, <2>5
<1>11. QED BY Zenon, <1>2, <1>3, <1>4, <1>5, <1>6, <1>7, <1>8, <1>9, <1>10

LEMMA PartsKept ==
  ASSUME Fits(pt), [ToolNext]_toolvars
  PROVE  Fits(pt)'
<1>1. CASE pt' = pt
  BY Zenon, <1>1 DEF Fits, PreferencesFit
<1>2. QED BY Zenon, <1>1, StepsAreAnswers, FitsAnswers, FitsSettles

----------------------------------------------------------------------------
(* What depends on the calls *)

\* Plans.

\* A call sets an address only if a host of its subnet may have it, and opens a file or
\* switches IPv6 only where it may.
Allowed(item, may) ==
  /\ item.op = "setIpSubnetMask" => valid_mask(item.val.mask) /\ ForHosts(item.val.ip, item.val.mask)
  /\ item.op = "fileOpen" => item.val \in may
  /\ item.op = "setIpv6Enabled" => item.at \in may

AllowedPlan(plan, may) == IsSeq(plan) /\ \A k \in DOMAIN plan : Allowed(plan[k], may)

LEMMA PlansJoin ==
  ASSUME NEW may, NEW s, NEW t, AllowedPlan(s, may), AllowedPlan(t, may)
  PROVE  AllowedPlan(s \o t, may)
<1> DEFINE all == s \o t
<1>1. /\ IsSeq(all) /\ Len(all) = Len(s) + Len(t)
      /\ \A k \in 1..Len(s) : all[k] = s[k]
      /\ \A k \in 1..(Len(s) + Len(t)) : k > Len(s) => all[k] = t[k - Len(s)]
  BY Concatenation DEF AllowedPlan
<1>2. /\ DOMAIN s = 1..Len(s) /\ Len(s) \in Nat
      /\ DOMAIN t = 1..Len(t) /\ Len(t) \in Nat
  BY SequenceLaws DEF AllowedPlan
<1> HIDE DEF all
<1>3. DOMAIN all = 1..Len(all)
  BY <1>1, SequenceLaws
<1>4. ASSUME NEW k \in DOMAIN all
      PROVE  \/ k \in DOMAIN s /\ all[k] = s[k]
             \/ k - Len(s) \in DOMAIN t /\ all[k] = t[k - Len(s)]
  <2>1. CASE k \in DOMAIN s
    BY <1>1, <1>2, <2>1
  <2>2. CASE k \notin DOMAIN s
    <3>1. k > Len(s) /\ k - Len(s) \in DOMAIN t /\ k \in 1..(Len(s) + Len(t))
      BY <1>1, <1>2, <1>3, <2>2
    <3>2. QED BY <1>1, <3>1
  <2>3. QED BY <2>1, <2>2
<1>5. \A k \in DOMAIN all : Allowed(all[k], may)
  BY Zenon, <1>4 DEF AllowedPlan
<1>6. QED BY <1>1, <1>5 DEF all, AllowedPlan

LEMMA NoPlan == \A may : AllowedPlan(<<>>, may) 
BY DEF AllowedPlan, IsSeq

LEMMA PlanOfOne ==
  ASSUME NEW may, NEW a, Allowed(a, may)
  PROVE  AllowedPlan(<<a>>, may)
<1>1. <<a>> \in Seq({a}) /\ \A k \in DOMAIN <<a>> : <<a>>[k] = a
  OBVIOUS
<1>2. QED BY Zenon, <1>1 DEF AllowedPlan, IsSeq

\* Calls that neither set an address nor open a file.
LEMMA Harmless ==
  ASSUME NEW may, NEW op,
         op \notin {"setIpSubnetMask", "fileOpen", "setIpv6Enabled"},
         NEW at, NEW val, NEW need, NEW soft
  PROVE  Allowed(Item(op, at, val, need, soft), may)
BY DEF Allowed, Item

\* The plans of a loop, one after the other.
LEMMA JoinedIsList ==
  ASSUME NEW Items, NEW n \in Nat, NEW plans, Len(plans) \in Nat,
         \A k \in 1..Len(plans) : \A used \in 0..n : plans[k][used] \in Seq(Items)
  PROVE  Joined(plans, n) \in Seq(Items)
<1> DEFINE m == Len(plans)
           Rest(f, k, used) ==
             IF k > m THEN <<>>
             ELSE IF used + Len(plans[k][used]) > n THEN plans[k][used]
             ELSE plans[k][used] \o f[k + 1][used + Len(plans[k][used])]
           From(f, lo) == f = [k \in lo..(m + 1) |-> [used \in 0..n |-> Rest(f, k, used)]]
           from == CHOOSE f : From(f, 1)
<1>1. Joined(plans, n) = from[1][0]
  BY Zenon DEF Joined
<1>2. \A k \in 1..m : \A used \in 0..n : Len(plans[k][used]) \in Nat
  OBVIOUS
<1>3. \A f, k, used : k \in Nat /\ k > m => Rest(f, k, used) = <<>>
  OBVIOUS
<1>4. ASSUME NEW f, NEW g, NEW k \in 1..m, NEW used \in 0..n, f[k + 1] = g[k + 1]
      PROVE  Rest(f, k, used) = Rest(g, k, used)
  BY <1>4
<1> DEFINE Turn(f, k) == [used \in 0..n |-> Rest(f, k, used)]
<1>5. ASSUME NEW f, NEW g, NEW k \in 1..(m + 1), k <= m => f[k + 1] = g[k + 1]
      PROVE  Turn(f, k) = Turn(g, k)
  <2> SUFFICES ASSUME NEW used \in 0..n PROVE Rest(f, k, used) = Rest(g, k, used)
    BY Zenon
  <2> HIDE DEF Rest
  <2>1. CASE k <= m
    BY <1>4, <1>5, <2>1
  <2>2. CASE ~(k <= m)
    BY <1>3, <2>2
  <2>3. QED BY <2>1, <2>2
<1>6. \E f : From(f, 1)
  <2> HIDE DEF Turn
  <2> DEFINE Up(f, lo) == f = [k \in lo..(m + 1) |-> Turn(f, k)]
             T == {j \in Nat : j <= m => \E f : Up(f, m + 1 - j)}
  <2>1. 0 \in T
    <3> DEFINE g == [k \in (m + 1)..(m + 1) |-> Turn(<<>>, k)]
    <3>1. \A k \in (m + 1)..(m + 1) : Turn(<<>>, k) = Turn(g, k)
      <4> HIDE DEF g
      <4>1. QED BY <1>5
    <3>2. g = [k \in (m + 1)..(m + 1) |-> Turn(g, k)]
      <4> DEFINE S == (m + 1)..(m + 1)
      <4> HIDE DEF S
      <4>1. QED BY Zenon, <3>1 DEF S
    <3>3. Up(g, m + 1 - 0)
      <4>1. m + 1 - 0 = m + 1
        OBVIOUS
      <4> HIDE DEF g
      <4>2. QED BY <3>2, <4>1
    <3> HIDE DEF Up
    <3>4. QED BY <3>3
  <2>2. ASSUME NEW j \in T \cap Nat
        PROVE  j + 1 \in T
    <3> SUFFICES ASSUME j + 1 <= m PROVE \E f : Up(f, m + 1 - (j + 1))
      OBVIOUS
    <3>1. PICK g : Up(g, m + 1 - j)
      <4> HIDE DEF Up
      <4>1. QED OBVIOUS
    <3> DEFINE lo == m + 1 - (j + 1)
               h == [k \in lo..(m + 1) |-> Turn(g, k)]
    <3>2. lo \in 1..m /\ lo + 1 = m + 1 - j
      OBVIOUS
    <3>3. \A k \in (lo + 1)..(m + 1) : h[k] = g[k]
      <4> HIDE DEF lo
      <4>1. \A k \in (lo + 1)..(m + 1) : h[k] = Turn(g, k)
        BY <3>2
      <4>2. \A k \in (lo + 1)..(m + 1) : g[k] = Turn(g, k)
        BY <3>1, <3>2
      <4>3. QED BY <4>1, <4>2
    <3> HIDE DEF lo
    <3>4. \A k \in lo..(m + 1) : Turn(g, k) = Turn(h, k)
      <4> HIDE DEF h
      <4> TAKE k \in lo..(m + 1)
      <4>1. k \in 1..(m + 1) /\ (k <= m => g[k + 1] = h[k + 1])
        BY <3>2, <3>3
      <4>2. QED BY <1>5, <4>1
    <3>5. h = [k \in lo..(m + 1) |-> Turn(h, k)]
      <4> DEFINE S == lo..(m + 1)
      <4>1. \A k \in S : Turn(g, k) = Turn(h, k)
        BY <3>4
      <4>2. h = [k \in S |-> Turn(g, k)]
        OBVIOUS
      <4> HIDE DEF S, h
      <4>3. h = [k \in S |-> Turn(h, k)]
        BY Zenon, <4>1, <4>2
      <4>4. QED BY <4>3 DEF S
    <3>6. QED BY <3>5 DEF lo
  <2>3. m \in T
    <3> HIDE DEF T
    <3>1. QED BY <2>1, <2>2, EveryNumber
  <2>4. m + 1 - m = 1
    OBVIOUS
  <2>5. \E f : Up(f, 1)
    <3> HIDE DEF Up
    <3>1. QED BY <2>3, <2>4
  <2>6. QED BY Zenon, <2>5 DEF Turn
<1>7. From(from, 1)
  BY Zenon, <1>6
<1> HIDE DEF from
<1>8. \A k \in 1..(m + 1) : \A used \in 0..n : from[k][used] = Rest(from, k, used)
  <2> HIDE DEF Rest
  <2> DEFINE S == 1..(m + 1)
             U == 0..n
             R(k, used) == Rest(from, k, used)
  <2>1. from = [k \in S |-> [used \in U |-> R(k, used)]]
    BY Zenon, <1>7
  <2> HIDE DEF S, U, R
  <2>2. \A k \in S : \A used \in U : from[k][used] = R(k, used)
    BY <2>1
  <2>3. QED BY <2>2 DEF S, U, R
<1>9. \A k \in 1..(m + 1) : \A used \in 0..n : from[k][used] \in Seq(Items)
  <2> DEFINE Good(j) == \A used \in 0..n : from[m + 1 - j][used] \in Seq(Items)
             T == {j \in Nat : j <= m => Good(j)}
  <2>1. 0 \in T
    <3>1. \A used \in 0..n : from[m + 1 - 0][used] = <<>>
      <4>1. m + 1 - 0 = m + 1 /\ m + 1 \in 1..(m + 1)
        OBVIOUS
      <4> HIDE DEF Rest
      <4>2. QED BY <1>3, <1>8, <4>1
    <3>2. Good(0)
      <4>1. <<>> \in Seq(Items)
        OBVIOUS
      <4>2. QED BY Zenon, <3>1, <4>1
    <3> HIDE DEF Good
    <3>3. QED BY <3>2
  <2>2. ASSUME NEW j \in T \cap Nat
        PROVE  j + 1 \in T
    <3> SUFFICES ASSUME j + 1 <= m PROVE Good(j + 1)
      <4> HIDE DEF Good
      <4> QED OBVIOUS
    <3> SUFFICES ASSUME NEW used \in 0..n PROVE from[m + 1 - (j + 1)][used] \in Seq(Items)
      BY Zenon
    <3>0. Good(j)
      <4> HIDE DEF Good
      <4> QED OBVIOUS
    <3> DEFINE k == m + 1 - (j + 1)
               plan == plans[k][used]
    <3>1. k \in 1..m /\ k \in 1..(m + 1) /\ ~(k > m) /\ k + 1 = m + 1 - j
      OBVIOUS
    <3>2. \A u \in 0..n : from[k + 1][u] \in Seq(Items)
      BY Zenon, <3>0, <3>1
    <3> HIDE DEF k
    <3>3. plan \in Seq(Items) /\ Len(plan) \in Nat
      BY <1>2, <3>1
    <3>4. from[k][used] = Rest(from, k, used)
      BY Zenon, <1>8, <3>1
    <3>5. CASE used + Len(plan) > n
      <4>1. from[k][used] = plan
        BY Zenon, <3>1, <3>4, <3>5
      <4>2. QED BY <3>3, <4>1 DEF k
    <3>6. CASE ~(used + Len(plan) > n)
      <4>1. from[k][used] = plan \o from[k + 1][used + Len(plan)]
        BY Zenon, <3>1, <3>4, <3>6
      <4>2. used + Len(plan) \in 0..n
        <5> DEFINE len == Len(plan)
        <5>1. len \in Nat /\ ~(used + len > n)
          BY Zenon, <3>3, <3>6
        <5> HIDE DEF len
        <5>2. used + len \in 0..n
          BY <5>1
        <5>3. QED BY <5>2 DEF len
      <4>3. from[k + 1][used + Len(plan)] \in Seq(Items)
        BY Zenon, <3>2, <4>2
      <4>4. plan \o from[k + 1][used + Len(plan)] \in Seq(Items)
        BY <3>3, <4>3
      <4>5. QED BY <4>1, <4>4 DEF k
    <3>7. QED BY <3>5, <3>6
  <2>3. \A j \in Nat : j \in T
    <3> HIDE DEF T
    <3>1. QED BY <2>1, <2>2, EveryNumber
  <2>4. ASSUME NEW k \in 1..(m + 1)
        PROVE  \A used \in 0..n : from[k][used] \in Seq(Items)
    <3>1. m + 1 - k \in Nat /\ m + 1 - k <= m /\ m + 1 - (m + 1 - k) = k
      OBVIOUS
    <3>2. Good(m + 1 - k)
      <4> HIDE DEF Good
      <4> QED BY <2>3, <3>1
    <3>3. QED BY Zenon, <3>1, <3>2
  <2>5. QED BY Zenon, <2>4
<1>10. 1 \in 1..(m + 1) /\ 0 \in 0..n
  OBVIOUS
<1>11. QED BY Zenon, <1>1, <1>9, <1>10

LEMMA JoinedAllowed ==
  ASSUME NEW may, NEW n \in Nat, NEW plans, Len(plans) \in Nat,
         \A k \in 1..Len(plans) : \A used \in 0..n : AllowedPlan(plans[k][used], may)
  PROVE  AllowedPlan(Joined(plans, n), may)
<1> DEFINE m == Len(plans)
           ItemsOf(k, used) == {plans[k][used][i] : i \in DOMAIN plans[k][used]}
           Items == UNION {UNION {ItemsOf(k, used) : used \in 0..n} : k \in 1..m}
           plan == Joined(plans, n)
<1>1. \A k \in 1..m : \A used \in 0..n : plans[k][used] \in Seq(ItemsOf(k, used))
  BY Zenon, SequenceLaws DEF AllowedPlan
<1>2. \A item \in Items : Allowed(item, may)
  <2>1. \A k \in 1..m : \A used \in 0..n : \A item \in ItemsOf(k, used) : Allowed(item, may)
    BY Zenon DEF AllowedPlan
  <2> HIDE DEF ItemsOf
  <2>2. \A item \in Items : \E k \in 1..m : \E used \in 0..n : item \in ItemsOf(k, used)
    OBVIOUS
  <2>3. QED BY Zenon, <2>1, <2>2
<1>3. \A k \in 1..m : \A used \in 0..n : plans[k][used] \in Seq(Items)
  <2> SUFFICES ASSUME NEW k \in 1..m, NEW used \in 0..n
               PROVE  plans[k][used] \in Seq(Items)
    BY Zenon
  <2> DEFINE s == plans[k][used]
             S == ItemsOf(k, used)
  <2>1. S \subseteq Items
    <3> HIDE DEF ItemsOf
    <3>1. QED OBVIOUS
  <2>2. s \in Seq(S)
    BY Zenon, <1>1
  <2> HIDE DEF s, S, Items
  <2>3. s \in Seq(Items)
    BY <2>1, <2>2
  <2>4. QED BY <2>3 DEF s
<1> HIDE DEF Items
<1>4. plan \in Seq(Items)
  BY Zenon, <1>3, JoinedIsList
<1> HIDE DEF plan
<1>5. \A k \in DOMAIN plan : plan[k] \in Items
  BY <1>4
<1>6. AllowedPlan(plan, may)
  BY Zenon, <1>2, <1>4, <1>5 DEF AllowedPlan, IsSeq
<1>7. QED BY <1>6 DEF plan

LEMMA PlanOfTwo ==
  ASSUME NEW may, NEW a, NEW b, Allowed(a, may), Allowed(b, may)
  PROVE  AllowedPlan(<<a, b>>, may)
<1>1. <<a, b>> \in Seq({a, b}) /\ \A k \in DOMAIN <<a, b>> : <<a, b>>[k] \in {a, b}
  OBVIOUS
<1>2. QED BY Zenon, <1>1 DEF AllowedPlan, IsSeq

LEMMA PlanIf ==
  ASSUME NEW may, NEW condition, NEW plan, condition => AllowedPlan(plan, may)
  PROVE  AllowedPlan(When(condition, plan), may)
BY Zenon, NoPlan DEF When

LEMMA RefusingAllowed == \A may : Allowed(Refuse, may)
BY Zenon, Harmless DEF Refuse

LEMMA CheckAllowed ==
  ASSUME NEW may, NEW condition
  PROVE  AllowedPlan(Check(condition), may)
<1>1. AllowedPlan(<<Refuse>>, may)
  BY Zenon, RefusingAllowed, PlanOfOne
<1>2. QED BY Zenon, <1>1, PlanIf DEF Check

LEMMA Asking ==
  ASSUME NEW may, NEW op,
         op \notin {"setIpSubnetMask", "fileOpen", "setIpv6Enabled"},
         NEW at, NEW val
  PROVE  /\ Allowed(Ask(op, at), may) /\ Allowed(Tell(op, at, val), may)
         /\ Allowed(Must(op, at, val), may) /\ Allowed(Try(op, at, val), may)
BY Zenon, Harmless DEF Ask, Tell, Must, Try

\* What is left of a sequence.
LEMMA Remainder ==
  ASSUME NEW s, IsSeq(s), NEW m \in Nat
  PROVE  IsSeq(SubSeq(s, m + 1, Len(s)))
<1>1. PICK S : s \in Seq(S)
  BY DEF IsSeq
<1>2. SubSeq(s, m + 1, Len(s)) \in Seq(S)
  BY <1>1
<1>3. QED BY <1>2 DEF IsSeq

\* The answers that come after a first part of a plan.
LEMMA Afterwards ==
  ASSUME NEW may, NEW first, AllowedPlan(first, may), NEW seen, IsSeq(seen)
  PROVE  IsSeq(SubSeq(seen, Len(first) + 1, Len(seen)))
<1>1. Len(first) \in Nat
  BY SequenceLaws DEF AllowedPlan
<1>2. QED BY <1>1, Remainder

\* Numbers from one on with no gap.
LEMMA NoGap ==
  ASSUME NEW n \in Int, NEW U \in SUBSET (1..n), \A k \in U : \A j \in 1..k : j \in U
  PROVE  \E m \in Nat : U = 1..m
<1> DEFINE T == {k \in Nat : k + 1 \notin U}
<1>1. T # {}
  <2>1. CASE n < 1
    <3>1. 0 \in T
      BY <2>1
    <3>2. QED BY <3>1
  <2>2. CASE n >= 1
    <3>1. n \in T
      BY <2>2
    <3>2. QED BY <3>1
  <2>3. QED BY <2>1, <2>2
<1>2. PICK m \in T : \A y \in T : m <= y
  BY <1>1, SmallestOf
<1>3. ASSUME NEW k \in U
      PROVE  k \in 1..m
  <2>1. k \in Nat /\ k >= 1
    OBVIOUS
  <2>2. ASSUME k > m PROVE FALSE
    <3>1. m + 1 \in 1..k
      BY <2>1, <2>2
    <3>2. m + 1 \in U
      BY <3>1
    <3>3. QED BY <3>2
  <2>3. QED BY <2>1, <2>2
<1>4. ASSUME NEW k \in 1..m
      PROVE  k \in U
  <2>1. k - 1 \in Nat /\ ~(m <= k - 1)
    OBVIOUS
  <2>2. k - 1 \notin T
    BY <1>2, <2>1
  <2>3. (k - 1) + 1 \in U
    BY <2>1, <2>2
  <2>4. QED BY <2>3
<1>5. QED BY <1>3, <1>4

LEMMA AsSequence ==
  ASSUME NEW n \in Nat, NEW S, NEW f \in [1..n -> S]
  PROVE  f \in Seq(S)
OBVIOUS

\* The polls of m answers, none of which stopped before.
Upto(n, m, Stopped) == {k \in 1..n : k <= m + 1 /\ \A o \in 1..(k - 1) : o \notin Stopped}

\* What Polls makes is a plan.
LEMMA PollsAllowed ==
  ASSUME NEW may, NEW n \in Int, NEW m \in Nat, NEW Stopped,
         NEW plan, plan = [k \in Upto(n, m, Stopped) |-> plan[k]],
         \A k \in Upto(n, m, Stopped) : Allowed(plan[k], may)
  PROVE  AllowedPlan(plan, may)
<1> DEFINE U == Upto(n, m, Stopped)
<1>1. U \in SUBSET (1..n) /\ n \in Int
  BY DEF Upto
<1>2. ASSUME NEW k \in U, NEW j \in 1..k
      PROVE  j \in U
  <2>1. k \in 1..n /\ k <= m + 1 /\ \A o \in 1..(k - 1) : o \notin Stopped
    BY DEF Upto
  <2>2. j \in 1..n /\ j <= m + 1
    BY <2>1
  <2>3. \A o \in 1..(j - 1) : o \notin Stopped
    BY <2>1
  <2>4. QED BY <2>2, <2>3 DEF Upto
<1> HIDE DEF U
<1>3. PICK last \in Nat : U = 1..last
  BY <1>1, <1>2, NoGap
<1>4. plan \in Seq({plan[k] : k \in U})
  <2> DEFINE S == {plan[k] : k \in U}
  <2>1. \A k \in 1..last : plan[k] \in S
    BY <1>3
  <2> HIDE DEF S
  <2>2. plan \in [1..last -> S]
    <3>1. plan = [k \in 1..last |-> plan[k]]
      BY Zenon, <1>3 DEF U
    <3>2. QED BY <2>1, <3>1
  <2>3. plan \in Seq(S)
    BY Zenon, <2>2, AsSequence
  <2>4. QED BY <2>3 DEF S
<1>5. DOMAIN plan = U /\ \A k \in U : Allowed(plan[k], may)
  BY DEF U
<1>6. QED BY <1>4, <1>5 DEF AllowedPlan, IsSeq

----------------------------------------------------------------------------
\* Hosts: an address is set only when it is one a host of its subnet may have.

LEMMA StaticAllowed ==
  ASSUME NEW may, NEW r, Plausible(r), ~r.dhcp
  PROVE  AllowedPlan(apply_static(r), may)
<1> DEFINE V == may
           set == Tell("setIpSubnetMask", r.dev, [ip |-> r.ip, mask |-> r.mask])
<1>1. valid_mask(r.mask) /\ ForHosts(r.ip, r.mask)
  BY Zenon DEF Plausible
<1>2. set.op = "setIpSubnetMask" /\ set.val.ip = r.ip /\ set.val.mask = r.mask
  BY DEF Tell, Item
<1>3. Allowed(set, V)
  <2> HIDE DEF set
  <2>1. set.op \notin {"fileOpen", "setIpv6Enabled"}
    BY <1>2
  <2>2. QED BY Zenon, <1>1, <1>2, <2>1 DEF Allowed
<1> HIDE DEF V, set
<1>4. Allowed(Tell("setDhcpClientFlag", r.dev, FALSE), V)
  BY Zenon, Asking
<1>5. AllowedPlan(<<Tell("setDhcpClientFlag", r.dev, FALSE), set>>, V)
  BY Zenon, <1>3, <1>4, PlanOfTwo
<1>6. AllowedPlan(When(r.gateway # NONE, <<Tell("setDefaultGateway", r.dev, r.gateway)>>), V)
  BY Zenon, Asking, PlanOfOne, PlanIf
<1>7. AllowedPlan(When(r.dns # NONE, <<Tell("setDnsServerIp", r.dev, r.dns)>>), V)
  BY Zenon, Asking, PlanOfOne, PlanIf
<1>8. AllowedPlan(<<Tell("setDhcpClientFlag", r.dev, FALSE), set>>
                  \o When(r.gateway # NONE, <<Tell("setDefaultGateway", r.dev, r.gateway)>>), V)
  BY Zenon, <1>5, <1>6, PlansJoin
<1>9. AllowedPlan(<<Tell("setDhcpClientFlag", r.dev, FALSE), set>>
                  \o When(r.gateway # NONE, <<Tell("setDefaultGateway", r.dev, r.gateway)>>)
                  \o When(r.dns # NONE, <<Tell("setDnsServerIp", r.dev, r.dns)>>), V)
  BY Zenon, <1>7, <1>8, PlansJoin
<1>10. QED BY Zenon, <1>9 DEF apply_static, set, V

LEMMA DhcpAllowed ==
  ASSUME NEW may, NEW r, NEW seen, IsSeq(seen)
  PROVE  AllowedPlan(apply_dhcp(r, seen), may)
<1> DEFINE first == <<Tell("setDhcpClientFlag", r.dev, TRUE), Tell("setDhcpFlag", r.dev, TRUE)>>
           more == SubSeq(seen, Len(first) + 1, Len(seen))
           n == LEASE_POLLS
           m == Len(more)
           U == {k \in 1..n : k <= m + 1 /\ \A o \in 1..(k - 1) : ~(more[o].data # 0)}
           Stopped == {o \in 1..n : more[o].data # 0}
           polls == [k \in U |-> Ask("getIpAddress", r.dev)]
<1>1. AllowedPlan(first, may)
  BY Zenon, Asking, PlanOfTwo
<1>2. m \in Nat
  BY Zenon, <1>1, Afterwards, SequenceLaws
<1>3. apply_dhcp(r, seen) = first \/ apply_dhcp(r, seen) = first \o polls
  BY Zenon DEF apply_dhcp, Then, Polls
<1>4. AllowedPlan(polls, may)
  <2> HIDE DEF more, m
  <2>1. U = Upto(n, m, Stopped)
    <3>1. \A k \in 1..n : \A o \in 1..(k - 1) : ~(more[o].data # 0) <=> o \notin Stopped
      BY LeaseAssumption
    <3> HIDE DEF Stopped
    <3>2. QED BY Zenon, <3>1 DEF Upto
  <2>2. \A k \in Upto(n, m, Stopped) : Allowed(polls[k], may)
    <3>1. \A k \in U : polls[k] = Ask("getIpAddress", r.dev)
      OBVIOUS
    <3> HIDE DEF U, polls
    <3>2. QED BY Zenon, <2>1, <3>1, Asking
  <2>3. n \in Int
    BY LeaseAssumption
  <2>4. polls = [k \in Upto(n, m, Stopped) |-> polls[k]]
    <3>1. polls = [k \in U |-> polls[k]]
      OBVIOUS
    <3> HIDE DEF U, polls
    <3>2. QED BY Zenon, <2>1, <3>1
  <2> HIDE DEF U, polls, n, Stopped
  <2>5. QED BY Zenon, <1>2, <2>2, <2>3, <2>4, PollsAllowed
<1>5. QED BY Zenon, <1>1, <1>3, <1>4, PlansJoin

LEMMA ConfigureAllowed ==
  ASSUME NEW may, NEW r, NEW seen, IsSeq(seen)
  PROVE  AllowedPlan(configure(r, seen), may)
<1> DEFINE V == may
           port == host_port(r.dev)
           more == SubSeq(seen, Len(port) + 1, Len(seen))
<1>1. AllowedPlan(<<Refuse>>, V)
  BY Zenon, RefusingAllowed, PlanOfOne
<1>2. AllowedPlan(port, V)
  BY Zenon, Asking, PlanOfTwo DEF host_port
<1>3. AllowedPlan(apply_dhcp(r, more), V)
  BY Zenon, <1>2, Afterwards, DhcpAllowed
<1>4. ASSUME Plausible(r), ~r.dhcp
      PROVE  AllowedPlan(apply_static(r) \o <<Ask("getIpAddress", r.dev)>>, V)
  BY Zenon, <1>4, StaticAllowed, Asking, PlanOfOne, PlansJoin
<1>5. \/ configure(r, seen) \in {<<Refuse>>, port}
      \/ configure(r, seen) = port \o apply_dhcp(r, more)
      \/ /\ Plausible(r) /\ ~r.dhcp
         /\ configure(r, seen) = port \o (apply_static(r) \o <<Ask("getIpAddress", r.dev)>>)
  BY Zenon DEF configure, Then
<1> HIDE DEF V, port, more
<1>6. AllowedPlan(configure(r, seen), V)
  BY Zenon, <1>1, <1>2, <1>3, <1>4, <1>5, PlansJoin
<1>7. QED BY <1>6 DEF V

LEMMA PlanOfThree ==
  ASSUME NEW may, NEW a, NEW b, NEW c, Allowed(a, may), Allowed(b, may), Allowed(c, may)
  PROVE  AllowedPlan(<<a, b, c>>, may)
<1>1. <<a, b, c>> \in Seq({a, b, c}) /\ \A k \in DOMAIN <<a, b, c>> : <<a, b, c>>[k] \in {a, b, c}
  OBVIOUS
<1>2. QED BY Zenon, <1>1 DEF AllowedPlan, IsSeq

LEMMA Configure6Allowed ==
  ASSUME NEW may, NEW r, r.dev \in may, NEW seen, IsSeq(seen)
  PROVE  AllowedPlan(configure_ipv6(r, seen), may)
<1> DEFINE off == <<Tell("removeAllIpv6Addresses", r.dev, <<>>)>>
           auto == <<Tell("removeAllIpv6Addresses", r.dev, <<>>), Tell("setIpv6AddressAutoConfig", r.dev, TRUE)>>
           static == <<Tell("setIpv6AddressAutoConfig", r.dev, FALSE), Tell("removeAllIpv6Addresses", r.dev, <<>>),
                       Must("addIpv6Address", r.dev, r.address[1])>>
           change == CASE r.mode = "off" -> off [] r.mode = "auto" -> auto [] OTHER -> static
           enable == <<Tell("setIpv6Enabled", r.dev, r.mode # "off")>>
           first == Check(Plausible6(r)) \o host_port(r.dev) \o enable \o change \o servers6(r)
           more == SubSeq(seen, Len(first) + 1, Len(seen))
           n == LEASE_POLLS
           m == Len(more)
           U == {k \in 1..n : k <= m + 1 /\ \A o \in 1..(k - 1) : ~(r.mode # "auto" \/ more[o].data # <<>>)}
           Stopped == {o \in 1..n : r.mode # "auto" \/ more[o].data # <<>>}
           polls == [k \in U |-> Ask("getIpv6Addresses", r.dev)]
<1>1. AllowedPlan(first, may)
  <2>1. AllowedPlan(change, may)
    <3>1. AllowedPlan(off, may) /\ AllowedPlan(auto, may) /\ AllowedPlan(static, may)
      BY Zenon, Asking, PlanOfOne, PlanOfTwo, PlanOfThree
    <3> HIDE DEF off, auto, static
    <3>2. change \in {off, auto, static}
      BY Zenon
    <3> HIDE DEF change
    <3>3. QED BY Zenon, <3>1, <3>2
  <2>2. AllowedPlan(Check(Plausible6(r)), may) /\ AllowedPlan(host_port(r.dev), may)
    BY Zenon, CheckAllowed, Asking, PlanOfTwo DEF host_port
  <2>3. AllowedPlan(enable, may)
    <3> DEFINE set == Tell("setIpv6Enabled", r.dev, r.mode # "off")
    <3>1. set.op = "setIpv6Enabled" /\ set.at = r.dev
      BY DEF Tell, Item
    <3> HIDE DEF set
    <3>2. set.op \notin {"setIpSubnetMask", "fileOpen"}
      BY <3>1
    <3>3. Allowed(set, may)
      BY Zenon, <3>1, <3>2 DEF Allowed
    <3>4. QED BY Zenon, <3>3, PlanOfOne DEF set
  <2>4. AllowedPlan(servers6(r), may)
    BY Zenon, Asking, PlanOfOne, PlanIf, PlansJoin DEF servers6
  <2> HIDE DEF change, enable
  <2>5. AllowedPlan(Check(Plausible6(r)) \o host_port(r.dev) \o enable, may)
    BY Zenon, <2>2, <2>3, PlansJoin
  <2>6. AllowedPlan(Check(Plausible6(r)) \o host_port(r.dev) \o enable \o change, may)
    BY Zenon, <2>1, <2>5, PlansJoin
  <2>7. QED BY Zenon, <2>4, <2>6, PlansJoin
<1>2. m \in Nat
  BY Zenon, <1>1, Afterwards, SequenceLaws
<1>3. configure_ipv6(r, seen) = first \/ configure_ipv6(r, seen) = first \o polls
  <2> HIDE DEF more
  <2>1. configure_ipv6(r, seen) = IF Len(seen) < Len(first) THEN first ELSE first \o polls
    BY Zenon DEF configure_ipv6, Then, Polls, more
  <2>2. QED BY Zenon, <2>1
<1> HIDE DEF first
<1>4. AllowedPlan(polls, may)
  <2> HIDE DEF more, m
  <2>1. U = Upto(n, m, Stopped)
    <3>1. \A k \in 1..n : \A o \in 1..(k - 1) : ~(r.mode # "auto" \/ more[o].data # <<>>) <=> o \notin Stopped
      BY LeaseAssumption
    <3> HIDE DEF Stopped
    <3>2. QED BY Zenon, <3>1 DEF Upto
  <2>2. \A k \in Upto(n, m, Stopped) : Allowed(polls[k], may)
    <3>1. \A k \in U : polls[k] = Ask("getIpv6Addresses", r.dev)
      OBVIOUS
    <3> HIDE DEF U, polls
    <3>2. QED BY Zenon, <2>1, <3>1, Asking
  <2>3. n \in Int
    BY LeaseAssumption
  <2>4. polls = [k \in Upto(n, m, Stopped) |-> polls[k]]
    <3>1. polls = [k \in U |-> polls[k]]
      OBVIOUS
    <3> HIDE DEF U, polls
    <3>2. QED BY Zenon, <2>1, <3>1
  <2> HIDE DEF U, polls, n, Stopped
  <2>5. QED BY Zenon, <1>2, <2>2, <2>3, <2>4, PollsAllowed
<1>5. QED BY Zenon, <1>1, <1>3, <1>4, PlansJoin

\* A loop over a list, whose turns are plans.
LEMMA LoopAllowed ==
  ASSUME NEW may, NEW n \in Nat, NEW m \in Nat, NEW plans, plans = [k \in 1..m |-> plans[k]],
         \A k \in 1..m : \A used \in 0..n : AllowedPlan(plans[k][used], may)
  PROVE  AllowedPlan(Joined(plans, n), may)
<1> DEFINE S == {plans[k] : k \in 1..m}
<1>1. \A k \in 1..m : plans[k] \in S
  OBVIOUS
<1> HIDE DEF S
<1>2. plans \in [1..m -> S]
  <2> DEFINE D == 1..m
  <2> HIDE DEF D
  <2>1. plans = [k \in D |-> plans[k]] /\ \A k \in D : plans[k] \in S
    BY <1>1 DEF D
  <2>2. plans \in [D -> S]
    BY <2>1
  <2>3. QED BY <2>2 DEF D
<1>3. plans \in Seq(S)
  BY Zenon, <1>2, AsSequence
<1>4. Len(plans) = m
  <2>1. DOMAIN plans = 1..m
    BY <1>2
  <2>2. QED BY <1>3, <2>1
<1>5. QED BY Zenon, <1>4, JoinedAllowed

LEMMA EditAllowed ==
  ASSUME NEW may, NEW r, NEW edit, NEW seen
  PROVE  AllowedPlan(Edit(r, edit, seen), may)
<1> DEFINE look == <<Try("getCommandCount", r.dev, edit.rule.family)>>
           make == When(seen # <<>> /\ seen[1].is \in {"missing", "lost"}, <<Tell("addAcl", r.dev, edit.rule.family)>>)
           op == IF edit.add THEN "addExtStatement" ELSE "removeExtStatement"
           change == When(seen # <<>>, <<Must(op, r.dev, edit.rule)>>)
<1>1. AllowedPlan(look, may)
  BY Zenon, Asking, PlanOfOne
<1>2. AllowedPlan(make, may)
  BY Zenon, Asking, PlanOfOne, PlanIf
<1>3. AllowedPlan(change, may)
  <2>1. op \notin {"setIpSubnetMask", "fileOpen", "setIpv6Enabled"}
    OBVIOUS
  <2> HIDE DEF op
  <2>2. QED BY Zenon, <2>1, Asking, PlanOfOne, PlanIf
<1>4. Edit(r, edit, seen) = look \o make \o change
  BY Zenon DEF Edit, acl
<1> HIDE DEF look, make, change
<1>5. QED BY Zenon, <1>1, <1>2, <1>3, <1>4, PlansJoin

\* The rules of a firewall, one after the other.
LEMMA FirewallEditsAllowed ==
  ASSUME NEW may, NEW r, IsSeq(r.adds), IsSeq(r.removes), NEW seen, IsSeq(seen)
  PROVE  AllowedPlan(InTurn(Edits(r), seen, LAMBDA edit, own : Edit(r, edit, own)), may)
<1> DEFINE edits == Edits(r)
           n == Len(seen)
           m == Len(edits)
           plans == [k \in 1..m |-> [used \in 0..n |-> Edit(r, edits[k], SubSeq(seen, used + 1, n))]]
<1>1. n \in Nat
  BY Zenon, SequenceLaws
<1>2. m \in Nat
  <2> DEFINE len == Len(r.adds) + Len(r.removes)
             S == {edits[k] : k \in 1..len}
  <2>1. len \in Nat
    <3>1. Len(r.adds) \in Nat /\ Len(r.removes) \in Nat
      BY Zenon, SequenceLaws
    <3>2. \A a, b \in Nat : a + b \in Nat
      OBVIOUS
    <3>3. QED BY Zenon, <3>1, <3>2
  <2>2. edits \in [1..len -> S]
    <3> DEFINE D == 1..len
               E(k) == IF k <= Len(r.adds) THEN [add |-> TRUE, rule |-> r.adds[k]]
                       ELSE [add |-> FALSE, rule |-> r.removes[k - Len(r.adds)]]
    <3>1. edits = [k \in D |-> E(k)]
      BY Zenon DEF Edits
    <3> HIDE DEF D, E
    <3>2. edits \in [D -> {edits[k] : k \in D}]
      BY <3>1
    <3>3. QED BY <3>2 DEF D
  <2> HIDE DEF S, edits, len
  <2>3. edits \in Seq(S)
    BY Zenon, <2>1, <2>2, AsSequence
  <2>4. QED BY <2>3
<1>3. InTurn(edits, seen, LAMBDA edit, own : Edit(r, edit, own)) = Joined(plans, n)
  BY Zenon DEF InTurn
<1> HIDE DEF n, m, edits
<1>4. \A k \in 1..m : \A used \in 0..n : AllowedPlan(plans[k][used], may)
  <2> DEFINE K == 1..m
             L == 0..n
             P(k, used) == Edit(r, edits[k], SubSeq(seen, used + 1, n))
  <2>1. plans = [k \in K |-> [used \in L |-> P(k, used)]]
    OBVIOUS
  <2>2. \A k, used : AllowedPlan(P(k, used), may)
    BY Zenon, EditAllowed
  <2> HIDE DEF K, L, P, plans
  <2>3. \A k \in K : \A used \in L : plans[k][used] = P(k, used)
    BY <2>1
  <2>4. QED BY <2>2, <2>3 DEF K, L
<1>5. plans = [k \in 1..m |-> plans[k]]
  <2> DEFINE K == 1..m
             F(k) == [used \in 0..n |-> Edit(r, edits[k], SubSeq(seen, used + 1, n))]
  <2>1. plans = [k \in K |-> F(k)]
    OBVIOUS
  <2> HIDE DEF K, F, plans
  <2>2. plans = [k \in K |-> plans[k]]
    BY <2>1
  <2>3. QED BY <2>2 DEF K
<1> HIDE DEF plans
<1>6. AllowedPlan(Joined(plans, n), may)
  BY Zenon, <1>1, <1>2, <1>4, <1>5, LoopAllowed
<1>7. QED BY Zenon, <1>3, <1>6 DEF edits

\* What is read at the end.
LEMMA RulesAllowed ==
  ASSUME NEW may, NEW r, NEW family, NEW seen
  PROVE  AllowedPlan(rules(r, family, seen), may)
<1> DEFINE look == <<Try("getCommandCount", r.dev, family)>>
           make == When(seen # <<>> /\ seen[1].is \in {"missing", "lost"}, <<Tell("addAcl", r.dev, family)>>)
           read == When(seen # <<>>, <<Tell("getCommandCount", r.dev, family)>>)
<1>1. AllowedPlan(look, may)
  BY Zenon, Asking, PlanOfOne
<1>2. AllowedPlan(make, may) /\ AllowedPlan(read, may)
  BY Zenon, Asking, PlanOfOne, PlanIf
<1>3. rules(r, family, seen) = look \o make \o read
  BY Zenon DEF rules, acl
<1> HIDE DEF look, make, read
<1>4. QED BY Zenon, <1>1, <1>2, <1>3, PlansJoin

LEMMA StageAllowed ==
  ASSUME NEW may, NEW r, IsSeq(r.adds), IsSeq(r.removes), NEW stage, NEW seen, IsSeq(seen)
  PROVE  AllowedPlan(FirewallStage(r, stage, seen), may)
<1> DEFINE edits == InTurn(Edits(r), seen, LAMBDA edit, own : Edit(r, edit, own))
           look == <<Ask("isInboundFirewallOn", r.dev)>>
<1>1. FirewallStage(r, stage, seen) \in {edits, look, rules(r, stage, seen)}
  BY Zenon DEF FirewallStage
<1>2. AllowedPlan(edits, may)
  BY Zenon, FirewallEditsAllowed DEF InTurn
<1>3. AllowedPlan(look, may)
  BY Zenon, Asking, PlanOfOne
<1> HIDE DEF edits, look
<1>4. QED BY Zenon, <1>1, <1>2, <1>3, RulesAllowed

LEMMA FirewallAllowed ==
  ASSUME NEW may, NEW r, IsSeq(r.adds), IsSeq(r.removes), NEW seen, IsSeq(seen)
  PROVE  AllowedPlan(set_firewall(r, seen), may)
<1> DEFINE check_ == Check(\A k \in DOMAIN Edits(r) : check(Edits(r)[k].rule))
           on == When(r.ipv4 # NONE, <<Tell("setInboundFirewallService", r.dev, r.ipv4 = 1)>>)
           on6 == When(r.ipv6 # NONE, <<Tell("setInboundIpv6FirewallService", r.dev, r.ipv6 = 1)>>)
           first == check_ \o host_port(r.dev) \o on \o on6
           more == SubSeq(seen, Len(first) + 1, Len(seen))
           stages == FirewallStages
           n == Len(more)
           m == Len(stages)
           plans == [k \in 1..m |-> [used \in 0..n |-> FirewallStage(r, stages[k], SubSeq(more, used + 1, n))]]
<1>1. AllowedPlan(first, may)
  <2>1. AllowedPlan(check_, may) /\ AllowedPlan(host_port(r.dev), may)
    BY Zenon, CheckAllowed, Asking, PlanOfTwo DEF host_port
  <2>2. AllowedPlan(on, may) /\ AllowedPlan(on6, may)
    BY Zenon, Asking, PlanOfOne, PlanIf
  <2> HIDE DEF check_, on, on6
  <2>3. QED BY Zenon, <2>1, <2>2, PlansJoin
<1>2. IsSeq(more) /\ n \in Nat
  BY Zenon, <1>1, Afterwards, SequenceLaws
<1>3. m \in Nat
  BY DEF FirewallStages
<1>4. set_firewall(r, seen) = first \/ set_firewall(r, seen) = first \o Joined(plans, n)
  <2>1. set_firewall(r, seen) =
          IF Len(seen) < Len(first) THEN first
          ELSE first \o InTurn(stages, more, LAMBDA stage, own : FirewallStage(r, stage, own))
    BY Zenon DEF set_firewall, Then
  <2>2. InTurn(stages, more, LAMBDA stage, own : FirewallStage(r, stage, own)) = Joined(plans, n)
    BY Zenon DEF InTurn
  <2>3. QED BY Zenon, <2>1, <2>2
<1> HIDE DEF first, more, n, m, stages
<1>5. \A used \in 0..n : IsSeq(SubSeq(more, used + 1, n))
  <2>1. \A used \in 0..n : used \in Nat
    BY <1>2
  <2>2. QED BY Zenon, <1>2, <2>1, Remainder DEF n
<1>6. \A k \in 1..m : \A used \in 0..n : AllowedPlan(plans[k][used], may)
  <2> DEFINE K == 1..m
             L == 0..n
             P(k, used) == FirewallStage(r, stages[k], SubSeq(more, used + 1, n))
  <2>1. plans = [k \in K |-> [used \in L |-> P(k, used)]]
    OBVIOUS
  <2>2. \A k : \A used \in L : AllowedPlan(P(k, used), may)
    BY Zenon, <1>5, StageAllowed
  <2> HIDE DEF K, L, P, plans
  <2>3. \A k \in K : \A used \in L : plans[k][used] = P(k, used)
    BY <2>1
  <2>4. QED BY <2>2, <2>3 DEF K, L
<1>7. plans = [k \in 1..m |-> plans[k]]
  <2> DEFINE K == 1..m
             F(k) == [used \in 0..n |-> FirewallStage(r, stages[k], SubSeq(more, used + 1, n))]
  <2>1. plans = [k \in K |-> F(k)]
    OBVIOUS
  <2> HIDE DEF K, F, plans
  <2>2. plans = [k \in K |-> plans[k]]
    BY <2>1
  <2>3. QED BY <2>2 DEF K
<1> HIDE DEF plans
<1>8. AllowedPlan(Joined(plans, n), may)
  BY Zenon, <1>2, <1>3, <1>6, <1>7, LoopAllowed
<1>9. QED BY Zenon, <1>1, <1>4, <1>8, PlansJoin

\* The host whose IPv6 a tool switches.
Switches(r) == IF r.tool = "configure_host_ipv6" THEN {r.dev} ELSE {}

\* Whatever a tool for hosts has been answered, it sets no other address and switches the
\* IPv6 of no other host.
LEMMA HostPlans ==
  ASSUME NEW r, "hosts" \in DOMAIN Asks, r \in Asks["hosts"], NEW seen, IsSeq(seen)
  PROVE  AllowedPlan(HostPlan(r, seen), Switches(r))
<1>1. r.tool \in {"configure_host", "configure_host_ipv6", "set_host_firewall"}
  BY Zenon, AsksAssumption
<1>2. CASE r.tool = "configure_host"
  <2>1. HostPlan(r, seen) = configure(r, seen)
    BY Zenon, <1>2 DEF HostPlan
  <2>2. QED BY Zenon, <2>1, ConfigureAllowed
<1>3. CASE r.tool = "configure_host_ipv6"
  <2>1. HostPlan(r, seen) = configure_ipv6(r, seen)
    BY Zenon, <1>3 DEF HostPlan
  <2>2. r.dev \in Switches(r)
    BY Zenon, <1>3 DEF Switches
  <2>3. QED BY Zenon, <2>1, <2>2, Configure6Allowed
<1>4. CASE r.tool = "set_host_firewall"
  <2>1. HostPlan(r, seen) = set_firewall(r, seen)
    BY Zenon, <1>4 DEF HostPlan
  <2>2. IsSeq(r.adds) /\ IsSeq(r.removes)
    BY Zenon, <1>4, AsksAssumption DEF ListOf, IsSeq
  <2>3. QED BY Zenon, <2>1, <2>2, FirewallAllowed
<1>5. QED BY Zenon, <1>1, <1>2, <1>3, <1>4

\* The next call of a plan is one of its calls, or none.
LEMMA NextAllowed ==
  ASSUME NEW may, NEW plan, AllowedPlan(plan, may), NEW n \in Nat
  PROVE  Allowed(ItemAfter(plan, n), may)
<1>1. CASE n < Len(plan)
  <2>1. DOMAIN plan = 1..Len(plan) /\ Len(plan) \in Nat
    BY SequenceLaws DEF AllowedPlan
  <2>2. n + 1 \in DOMAIN plan
    BY <1>1, <2>1
  <2>3. ItemAfter(plan, n) = plan[n + 1]
    BY Zenon, <1>1 DEF ItemAfter
  <2>4. QED BY Zenon, <2>2, <2>3 DEF AllowedPlan
<1>2. CASE ~(n < Len(plan))
  <2>1. ItemAfter(plan, n) = Idle.next
    BY Zenon, <1>2 DEF ItemAfter
  <2>2. Idle.next = Item("done", "", <<>>, {}, FALSE)
    BY Zenon DEF Idle
  <2>3. QED BY Zenon, <2>1, <2>2, Harmless
<1>3. QED BY <1>1, <1>2

\* A port and the network's hosts.
PortFits(port) ==
  /\ {"dhcp", "ip", "mask", "gateway", "dns", "on6", "auto", "v6", "gateway6",
    "dns6", "firewall", "firewall6", "acls", "rules"}
       \subseteq DOMAIN port
  /\ port.ip # 0 => ForHosts(port.ip, port.mask)
  /\ port.mask # 0 => valid_mask(port.mask)

PortsFit(hosts) == DOMAIN hosts = Hosts /\ \A d \in Hosts : PortFits(hosts[d])

HostsFit(p) == {"part", "hosts"} \subseteq DOMAIN p /\ p.part = "hosts" /\ PortsFit(p.hosts)

LEMMA FreshPortFits == PortFits(FreshPort)
BY DEF FreshPort, PortFits

\* Most calls leave the address alone.
OtherPorts(port, v) ==
  {[port EXCEPT !.dhcp = v], [port EXCEPT !.gateway = v], [port EXCEPT !.dns = v], [port EXCEPT !.on6 = v],
   [port EXCEPT !.auto = v], [port EXCEPT !.v6 = v], [port EXCEPT !.gateway6 = v],
   [port EXCEPT !.dns6 = v], [port EXCEPT !.firewall = v], [port EXCEPT !.firewall6 = v],
   [port EXCEPT !.acls = v], [port EXCEPT !.rules = v]}

LEMMA OtherPortSettings ==
  ASSUME NEW port, PortFits(port), NEW v
  PROVE  \A new \in OtherPorts(port, v) : PortFits(new)
BY DEF PortFits, OtherPorts

LEMMA AddressSettings ==
  ASSUME NEW port, PortFits(port)
  PROVE  /\ PortFits([port EXCEPT !.ip = 0, !.mask = 0])
         /\ \A ip, mask : valid_mask(mask) /\ ForHosts(ip, mask) => PortFits([port EXCEPT !.ip = ip, !.mask = mask])
BY DEF PortFits

\* What a call, or the network itself, makes of the ports: one of them becomes another.
LEMMA OnePort ==
  ASSUME NEW hosts, PortsFit(hosts), NEW d, NEW port, d \in Hosts => PortFits(port)
  PROVE  PortsFit([hosts EXCEPT ![d] = port])
BY DEF PortsFit

LEMMA HostAnswers ==
  ASSUME NEW p, "hosts" \in DOMAIN p, PortsFit(p.hosts), NEW may, NEW c, Allowed(c, may)
  PROVE  \E hosts : PortsFit(hosts) /\ HostAnswer(p, c).pt \in {p, [p EXCEPT !.hosts = hosts]}
<1> DEFINE reply == HostAnswer(p, c)
           d == c.at
           port == p.hosts[d]
           v6 == Append(port.v6, c.val)
           acls == port.acls \cup {c.val}
           more == Append(port.rules, c.val)
           less == WithoutFirst(port.rules, c.val)
<1>1. \/ reply.pt = p
      \/ reply.pt = [p EXCEPT !.hosts[d] = [port EXCEPT !.dhcp = c.val]]
      \/ reply.pt = [p EXCEPT !.hosts[d] = [port EXCEPT !.ip = 0, !.mask = 0]]
      \/ c.op = "setIpSubnetMask" /\ reply.pt = [p EXCEPT !.hosts[d] = [port EXCEPT !.ip = c.val.ip, !.mask = c.val.mask]]
      \/ reply.pt = [p EXCEPT !.hosts[d] = [port EXCEPT !.gateway = c.val]]
      \/ reply.pt = [p EXCEPT !.hosts[d] = [port EXCEPT !.dns = c.val]]
      \/ reply.pt = [p EXCEPT !.hosts[d] = [port EXCEPT !.on6 = c.val]]
      \/ reply.pt = [p EXCEPT !.hosts[d] = [port EXCEPT !.auto = c.val]]
      \/ reply.pt = [p EXCEPT !.hosts[d] = [port EXCEPT !.v6 = <<>>]]
      \/ reply.pt = [p EXCEPT !.hosts[d].v6 = v6]
      \/ reply.pt = [p EXCEPT !.hosts[d] = [port EXCEPT !.gateway6 = c.val]]
      \/ reply.pt = [p EXCEPT !.hosts[d] = [port EXCEPT !.dns6 = c.val]]
      \/ reply.pt = [p EXCEPT !.hosts[d] = [port EXCEPT !.firewall = c.val]]
      \/ reply.pt = [p EXCEPT !.hosts[d] = [port EXCEPT !.firewall6 = c.val]]
      \/ reply.pt = [p EXCEPT !.hosts[d] = [port EXCEPT !.acls = acls]]
      \/ reply.pt = [p EXCEPT !.hosts[d].rules = more]
      \/ reply.pt = [p EXCEPT !.hosts[d].rules = less]
  BY ZenonT(60) DEF HostAnswer, Port, Sets, add_address, Says, Obeys, Gives, Did, Missing, Unknown, Replies
<1>2. /\ [p EXCEPT !.hosts[d].v6 = v6] = [p EXCEPT !.hosts[d] = [port EXCEPT !.v6 = v6]]
      /\ [p EXCEPT !.hosts[d].rules = more] = [p EXCEPT !.hosts[d] = [port EXCEPT !.rules = more]]
      /\ [p EXCEPT !.hosts[d].rules = less] = [p EXCEPT !.hosts[d] = [port EXCEPT !.rules = less]]
  BY Zenon
<1>3. c.op = "setIpSubnetMask" => valid_mask(c.val.mask) /\ ForHosts(c.val.ip, c.val.mask)
  BY Zenon DEF Allowed
<1>4. PICK new : /\ reply.pt = p \/ reply.pt = [p EXCEPT !.hosts[d] = new]
                 /\ d \in Hosts => PortFits(new)
  <2> HIDE DEF v6, acls, more, less
  <2>1. PICK u :
          \/ reply.pt = p
          \/ reply.pt = [p EXCEPT !.hosts[d] = [port EXCEPT !.ip = 0, !.mask = 0]]
          \/ c.op = "setIpSubnetMask" /\ reply.pt = [p EXCEPT !.hosts[d] = [port EXCEPT !.ip = c.val.ip, !.mask = c.val.mask]]
          \/ \E new \in OtherPorts(port, u) : reply.pt = [p EXCEPT !.hosts[d] = new]
    BY ZenonT(60), <1>1, <1>2 DEF OtherPorts
  <2>2. d \in Hosts => PortFits(port)
    BY Zenon DEF PortsFit
  <2> HIDE DEF reply, port, d
  <2>3. d \in Hosts => \A new \in OtherPorts(port, u) : PortFits(new)
    BY Zenon, <2>2, OtherPortSettings
  <2>4. d \in Hosts => PortFits([port EXCEPT !.ip = 0, !.mask = 0])
    BY Zenon, <2>2, AddressSettings
  <2>5. c.op = "setIpSubnetMask" /\ d \in Hosts => PortFits([port EXCEPT !.ip = c.val.ip, !.mask = c.val.mask])
    BY Zenon, <1>3, <2>2, AddressSettings
  <2>6. QED BY Zenon, <2>1, <2>2, <2>3, <2>4, <2>5
<1> HIDE DEF reply, d
<1> DEFINE hosts == [p.hosts EXCEPT ![d] = new]
<1>5. [p EXCEPT !.hosts[d] = new] = [p EXCEPT !.hosts = hosts]
  BY Zenon
<1>6. PortsFit(hosts)
  BY Zenon, <1>4, OnePort
<1> HIDE DEF hosts
<1>7. PortsFit(hosts) /\ reply.pt \in {p, [p EXCEPT !.hosts = hosts]}
  BY Zenon, <1>4, <1>5, <1>6
<1>8. QED BY <1>7 DEF reply

\* An address the network gives.
LEMMA LeasesFit ==
  ASSUME NEW p, "hosts" \in DOMAIN p, PortsFit(p.hosts), NEW d, NEW q \in Addressed(p, d)
  PROVE  \E hosts : PortsFit(hosts) /\ q = [p EXCEPT !.hosts = hosts]
<1> DEFINE port == p.hosts[d]
           leased == [port EXCEPT !.ip = Lease.ip, !.mask = Lease.mask]
           advertised == [port EXCEPT !.v6 = <<Advertised>>]
<1>1. q = [p EXCEPT !.hosts[d] = leased] \/ q = [p EXCEPT !.hosts[d] = advertised]
  <2>1. \/ q = [p EXCEPT !.hosts[d].ip = Lease.ip, !.hosts[d].mask = Lease.mask]
        \/ q = [p EXCEPT !.hosts[d].v6 = <<Advertised>>]
    BY Zenon DEF Addressed
  <2>2. [p EXCEPT !.hosts[d].v6 = <<Advertised>>] = [p EXCEPT !.hosts[d] = advertised]
    BY Zenon
  <2>3. [p EXCEPT !.hosts[d].ip = Lease.ip, !.hosts[d].mask = Lease.mask] = [p EXCEPT !.hosts[d] = leased]
    BY DEF PortsFit
  <2>4. QED BY Zenon, <2>1, <2>2, <2>3
<1>2. d \in Hosts => PortFits(leased) /\ PortFits(advertised)
  <2>1. d \in Hosts => PortFits(port)
    BY Zenon DEF PortsFit
  <2> HIDE DEF port
  <2>2. d \in Hosts => PortFits(leased)
    BY Zenon, <2>1, AddressSettings, LeaseAssumption
  <2>3. advertised \in OtherPorts(port, <<Advertised>>)
    BY Zenon DEF OtherPorts
  <2> HIDE DEF advertised
  <2>4. QED BY Zenon, <2>1, <2>2, <2>3, OtherPortSettings
<1>3. PortsFit([p.hosts EXCEPT ![d] = leased]) /\ PortsFit([p.hosts EXCEPT ![d] = advertised])
  <2> HIDE DEF leased, advertised
  <2>1. QED BY Zenon, <1>2, OnePort
<1>4. /\ [p EXCEPT !.hosts[d] = leased] = [p EXCEPT !.hosts = [p.hosts EXCEPT ![d] = leased]]
      /\ [p EXCEPT !.hosts[d] = advertised] = [p EXCEPT !.hosts = [p.hosts EXCEPT ![d] = advertised]]
  <2> HIDE DEF leased, advertised
  <2>1. QED BY Zenon
<1> HIDE DEF leased, advertised
<1>5. QED BY Zenon, <1>1, <1>3, <1>4

----------------------------------------------------------------------------
\* Calls: what each task is about to ask follows from its plan and its answers.

\* The parts whose plans the proofs are about.
Planned == {"links", "hosts", "services", "wireless", "preferences", "activity", "canvas"}

PlanIn(part, r, seen) ==
  CASE part = "links"    -> LinkPlan(r, seen)
    [] part = "hosts"    -> HostPlan(r, seen)
    [] part = "services" -> ServicePlan(r, seen)
    [] part = "wireless" -> WirelessPlan(r, seen)
    [] part = "preferences" -> PreferencePlan(r, seen)
    [] part = "activity"    -> ActivityPlan(r, seen)
    [] part = "canvas"      -> CanvasPlan(r, seen)

ToolCallFits(part, c) ==
  /\ {"on", "req", "seen", "result", "from", "alone", "next", "changed", "crossed", "again"} \subseteq DOMAIN c
  /\ IsSeq(c.seen)
  /\ ~c.on => c.seen = <<>>
  /\ c.on => c.req \in Asks[part] /\ c.next = ItemAfter(PlanIn(part, c.req, c.seen), Len(c.seen))

ToolCallsFit(part, calls) == DOMAIN calls = Tasks /\ \A t \in Tasks : ToolCallFits(part, calls[t])

\* How a call goes on after an answer.
Hears(c, d, reply) ==
  /\ d.on = c.on /\ d.req = c.req /\ d.seen = Append(c.seen, reply)

LEMMA PlansInParts ==
  ASSUME pt.part \in Planned, NEW r, NEW seen
  PROVE  Following(r, seen) = ItemAfter(PlanIn(pt.part, r, seen), Len(seen))
<1>1. Plan(r, seen) = PlanIn(pt.part, r, seen)
  BY Zenon DEF Plan, PlanIn, Planned
<1>2. QED BY Zenon, <1>1 DEF Following

LEMMA IdleFits == \A part : ToolCallFits(part, Idle)
<1>1. /\ {"on", "req", "seen", "result", "from", "alone", "next", "changed", "crossed", "again"} \subseteq DOMAIN Idle
      /\ Idle.seen = <<>>
  BY DEF Idle
<1>2. ~Idle.on
  BY Zenon DEF Idle
<1>3. IsSeq(Idle.seen)
  BY Zenon, <1>1, NothingListed
<1>4. QED BY Zenon, <1>1, <1>2, <1>3 DEF ToolCallFits

\* A call that ends.
LEMMA EndedFits ==
  ASSUME NEW part, NEW c, ToolCallFits(part, c), NEW result, NEW next
  PROVE  /\ ToolCallFits(part, [Idle EXCEPT !.result = result])
         /\ ~[Idle EXCEPT !.result = result].on
         /\ ToolCallFits(part, [c EXCEPT !.on = FALSE, !.result = result, !.seen = <<>>, !.next = next,
                                     !.changed = FALSE, !.again = FALSE])
         /\ ~[c EXCEPT !.on = FALSE, !.result = result, !.seen = <<>>, !.next = next,
                       !.changed = FALSE, !.again = FALSE].on
<1> DEFINE All == {"on", "req", "seen", "result", "from", "alone", "next", "changed", "crossed", "again"}
           d == [Idle EXCEPT !.result = result]
           e == [c EXCEPT !.on = FALSE, !.result = result, !.seen = <<>>, !.next = next,
                          !.changed = FALSE, !.again = FALSE]
<1>1. All \subseteq DOMAIN Idle /\ All \subseteq DOMAIN c
  BY IdleFits DEF ToolCallFits
<1>2. All \subseteq DOMAIN d /\ d.seen = Idle.seen
  BY <1>1
<1>3. ~d.on /\ Idle.seen = <<>>
  BY Zenon DEF Idle
<1>4. All \subseteq DOMAIN e /\ e.seen = <<>>
  BY <1>1
<1>5. ~e.on
  BY Zenon, <1>1
<1>6. IsSeq(<<>>)
  BY NothingListed
<1> HIDE DEF d, e
<1>7. ToolCallFits(part, d) /\ ToolCallFits(part, e)
  BY Zenon, <1>2, <1>3, <1>4, <1>5, <1>6 DEF ToolCallFits
<1>8. QED BY <1>3, <1>5, <1>7 DEF d, e

\* A call that goes on.
LEMMA FurtherFits ==
  ASSUME NEW part, NEW c, ToolCallFits(part, c), c.on, NEW reply, NEW changed,
         NEW next, next = ItemAfter(PlanIn(part, c.req, Append(c.seen, reply)), Len(Append(c.seen, reply)))
  PROVE  /\ ToolCallFits(part, [c EXCEPT !.seen = Append(c.seen, reply), !.next = next, !.changed = changed])
         /\ Hears(c, [c EXCEPT !.seen = Append(c.seen, reply), !.next = next, !.changed = changed], reply)
<1> DEFINE All == {"on", "req", "seen", "result", "from", "alone", "next", "changed", "crossed", "again"}
           seen == Append(c.seen, reply)
           d == [c EXCEPT !.seen = seen, !.next = next, !.changed = changed]
<1>1. All \subseteq DOMAIN c /\ IsSeq(c.seen)
  BY DEF ToolCallFits
<1>2. IsSeq(seen)
  BY Zenon, <1>1, OneMoreAtEnd
<1> HIDE DEF seen
<1>3. All \subseteq DOMAIN d /\ d.seen = seen /\ d.next = next /\ d.req = c.req
  BY <1>1
<1>4. d.on = c.on
  BY Zenon, <1>1
<1>5. next = ItemAfter(PlanIn(part, c.req, seen), Len(seen))
  BY DEF seen
<1> HIDE DEF d
<1>6. ToolCallFits(part, d)
  BY Zenon, <1>2, <1>3, <1>4, <1>5 DEF ToolCallFits
<1>7. Hears(c, d, reply)
  BY Zenon, <1>3, <1>4 DEF Hears, seen
<1>8. QED BY <1>6, <1>7 DEF d, seen

\* A task's call is as it was, but for what the properties keep of it.
Same(c, d) == d.on = c.on /\ d.req = c.req /\ d.seen = c.seen /\ d.next = c.next

LEMMA SameFits ==
  ASSUME NEW part, NEW c, ToolCallFits(part, c), NEW crossed
  PROVE  ToolCallFits(part, [c EXCEPT !.crossed = crossed]) /\ Same(c, [c EXCEPT !.crossed = crossed])
<1> DEFINE All == {"on", "req", "seen", "result", "from", "alone", "next", "changed", "crossed", "again"}
           d == [c EXCEPT !.crossed = crossed]
<1>1. All \subseteq DOMAIN c
  BY DEF ToolCallFits
<1>2. All \subseteq DOMAIN d /\ d.req = c.req /\ d.seen = c.seen /\ d.next = c.next
  BY <1>1
<1>3. d.on = c.on
  BY Zenon, <1>1
<1> HIDE DEF d
<1>4. ToolCallFits(part, d) /\ Same(c, d)
  BY Zenon, <1>2, <1>3 DEF ToolCallFits, Same
<1>5. QED BY <1>4 DEF d

\* A call that begins.
LEMMA AskedFits ==
  ASSUME NEW part, NEW c, ToolCallFits(part, c), NEW d, d = c \/ d.seen = <<>>,
         {"on", "req", "seen", "result", "from", "alone", "next", "changed", "crossed", "again"} \subseteq DOMAIN d,
         ~c.on, NEW r \in Asks[part], d.req = r, NEW again, NEW crossed,
         NEW next, next = ItemAfter(PlanIn(part, r, <<>>), Len(<<>>))
  PROVE  /\ ToolCallFits(part, [[d EXCEPT !.on = TRUE, !.result = "none", !.again = again, !.crossed = crossed]
                            EXCEPT !.next = next])
         /\ [[d EXCEPT !.on = TRUE, !.result = "none", !.again = again, !.crossed = crossed]
                EXCEPT !.next = next].seen = <<>>
<1> DEFINE All == {"on", "req", "seen", "result", "from", "alone", "next", "changed", "crossed", "again"}
           e == [d EXCEPT !.on = TRUE, !.result = "none", !.again = again, !.crossed = crossed]
           f == [e EXCEPT !.next = next]
<1>1. All \subseteq DOMAIN d /\ d.seen = <<>>
  BY Zenon DEF ToolCallFits
<1>2. All \subseteq DOMAIN e /\ e.seen = <<>> /\ e.req = r
  BY <1>1
<1>3. e.on
  BY Zenon, <1>1
<1> HIDE DEF e
<1>4. All \subseteq DOMAIN f /\ f.seen = <<>> /\ f.req = r /\ f.next = next
  BY <1>2
<1>5. f.on
  BY Zenon, <1>2, <1>3
<1>6. IsSeq(<<>>)
  BY NothingListed
<1> HIDE DEF f
<1>7. ToolCallFits(part, f)
  BY Zenon, <1>4, <1>5, <1>6 DEF ToolCallFits
<1>8. QED BY <1>4, <1>7 DEF e, f

LEMMA OneCallFits ==
  ASSUME NEW part, NEW calls, ToolCallsFit(part, calls), NEW t \in Tasks, NEW d, ToolCallFits(part, d)
  PROVE  /\ ToolCallsFit(part, [calls EXCEPT ![t] = d])
         /\ [calls EXCEPT ![t] = d][t] = d
         /\ \A o \in Tasks \ {t} : [calls EXCEPT ![t] = d][o] = calls[o]
BY DEF ToolCallsFit

\* What a step makes of a task's call.
CallEnds(o) == ~toolcall'[o].on

CallBegins(o) == toolcall'[o].seen = <<>>

CallHears(o) ==
  LET reply == Answer(pt, toolcall[o].next) IN
  /\ AtWork(o) /\ pt' = reply.pt /\ reply.is \in toolcall[o].next.need
  /\ Hears(toolcall[o], toolcall'[o], Told(reply))

CallMisses(o) ==
  /\ AtWork(o) /\ toolcall[o].next.soft
  /\ Hears(toolcall[o], toolcall'[o], [is |-> "lost", data |-> ""])

CallMoves(o) ==
  CallEnds(o) \/ CallBegins(o) \/ Same(toolcall[o], toolcall'[o]) \/ CallHears(o) \/ CallMisses(o)

LEMMA FinishesFits ==
  ASSUME ToolCallsFit(pt.part, toolcall), NEW t \in Tasks, NEW result, Finishes(t, result)
  PROVE  ToolCallsFit(pt.part, toolcall') /\ \A o \in Tasks : CallMoves(o)
<1> DEFINE c == toolcall[t]
           lost == [c EXCEPT !.on = FALSE, !.result = result, !.seen = <<>>, !.next = Idle.next,
                             !.changed = FALSE, !.again = FALSE]
           ended == [Idle EXCEPT !.result = result]
           d == IF result = "lost" THEN lost ELSE ended
<1>1. toolcall' = [toolcall EXCEPT ![t] = d]
  BY Zenon DEF Finishes, CallBecomes
<1>2. ToolCallFits(pt.part, d) /\ ~d.on
  <2>1. ToolCallFits(pt.part, c)
    BY DEF ToolCallsFit
  <2>2. ToolCallFits(pt.part, lost) /\ ~lost.on /\ ToolCallFits(pt.part, ended) /\ ~ended.on
    BY Zenon, <2>1, EndedFits
  <2> HIDE DEF lost, ended
  <2>3. QED BY Zenon, <2>2
<1> HIDE DEF d
<1>3. ToolCallsFit(pt.part, toolcall')
  BY Zenon, <1>1, <1>2, OneCallFits
<1>4. ~toolcall'[t].on /\ \A o \in Tasks \ {t} : toolcall'[o] = toolcall[o]
  <2>1. toolcall'[t] = d /\ \A o \in Tasks \ {t} : toolcall'[o] = toolcall[o]
    BY <1>1 DEF ToolCallsFit
  <2>2. QED BY Zenon, <1>2, <2>1
<1>5. CallEnds(t)
  BY Zenon, <1>4 DEF CallEnds
<1>6. \A o \in Tasks \ {t} : Same(toolcall[o], toolcall'[o])
  BY Zenon, <1>4 DEF Same
<1>7. QED BY Zenon, <1>3, <1>5, <1>6 DEF CallMoves

LEMMA GoesOnFits ==
  ASSUME ToolCallsFit(pt.part, toolcall), pt.part \in Planned, NEW t \in Tasks, AtWork(t), NEW reply,
         GoesOn(t, Append(toolcall[t].seen, reply)),
         \A d : Hears(toolcall[t], d, reply) /\ toolcall'[t] = d => CallHears(t) \/ CallMisses(t)
  PROVE  ToolCallsFit(pt.part, toolcall') /\ \A o \in Tasks : CallMoves(o)
<1> DEFINE c == toolcall[t]
           seen == Append(c.seen, reply)
           next == Following(c.req, seen)
           changed == c.changed \/ pt' # pt
           d == [c EXCEPT !.seen = seen, !.next = next, !.changed = changed]
<1>1. (\E result : Finishes(t, result)) \/ toolcall' = [toolcall EXCEPT ![t] = d]
  BY Zenon DEF GoesOn, GoesOnWith, CallBecomes
<1>2. CASE toolcall' = [toolcall EXCEPT ![t] = d]
  <2>1. ToolCallFits(pt.part, c) /\ c.on
    BY Zenon DEF ToolCallsFit, AtWork
  <2>2. next = ItemAfter(PlanIn(pt.part, c.req, seen), Len(seen))
    BY Zenon, PlansInParts
  <2> HIDE DEF next, changed
  <2>3. ToolCallFits(pt.part, d) /\ Hears(c, d, reply)
    BY Zenon, <2>1, <2>2, FurtherFits
  <2> HIDE DEF d
  <2>4. ToolCallsFit(pt.part, toolcall')
    BY Zenon, <1>2, <2>3, OneCallFits
  <2>5. toolcall'[t] = d /\ \A o \in Tasks \ {t} : toolcall'[o] = toolcall[o]
    BY <1>2 DEF ToolCallsFit
  <2>6. CallHears(t) \/ CallMisses(t)
    BY Zenon, <2>3, <2>5
  <2>7. \A o \in Tasks \ {t} : Same(toolcall[o], toolcall'[o])
    BY Zenon, <2>5 DEF Same
  <2>8. QED BY Zenon, <2>4, <2>6, <2>7 DEF CallMoves
<1>3. QED BY Zenon, <1>1, <1>2, FinishesFits

LEMMA StepsFit ==
  ASSUME ToolCallsFit(pt.part, toolcall), pt.part \in Planned, NEW t \in Tasks, ToolSteps(t)
  PROVE  ToolCallsFit(pt.part, toolcall') /\ \A o \in Tasks : CallMoves(o)
<1>1. AtWork(t)
  BY Zenon DEF ToolSteps, Answered, RequestLost, ReplyLost
<1>2. CASE Answered(t)
  <2> DEFINE answer == Answer(pt, toolcall[t].next)
             reply == Told(answer)
  <2>1. pt' = answer.pt
    BY Zenon, <1>2 DEF Answered, AnsweredWith
  <2>2. CASE answer.is \in toolcall[t].next.need
    <3>1. GoesOn(t, Append(toolcall[t].seen, reply))
      BY Zenon, <1>2, <2>2 DEF Answered, AnsweredWith
    <3>2. \A d : Hears(toolcall[t], d, reply) /\ toolcall'[t] = d => CallHears(t)
      BY Zenon, <1>1, <2>1, <2>2 DEF CallHears
    <3> HIDE DEF reply
    <3>3. QED BY Zenon, <1>1, <3>1, <3>2, GoesOnFits
  <2>3. CASE ~(answer.is \in toolcall[t].next.need)
    <3>1. \E result : Finishes(t, result)
      BY Zenon, <1>2, <2>3 DEF Answered, AnsweredWith
    <3>2. QED BY Zenon, <3>1, FinishesFits
  <2>4. QED BY Zenon, <2>2, <2>3
<1>3. CASE Unheard(t)
  <2> DEFINE reply == [is |-> "lost", data |-> ""]
  <2>1. CASE toolcall[t].next.soft
    <3>1. GoesOn(t, Append(toolcall[t].seen, reply))
      BY Zenon, <1>3, <2>1 DEF Unheard
    <3>2. \A d : Hears(toolcall[t], d, reply) /\ toolcall'[t] = d => CallMisses(t)
      BY Zenon, <1>1, <2>1 DEF CallMisses
    <3> HIDE DEF reply
    <3>3. QED BY Zenon, <1>1, <3>1, <3>2, GoesOnFits
  <2>2. CASE ~toolcall[t].next.soft
    <3>1. \E result : Finishes(t, result)
      BY Zenon, <1>3, <2>2 DEF Unheard
    <3>2. QED BY Zenon, <3>1, FinishesFits
  <2>3. QED BY Zenon, <2>1, <2>2
<1>4. QED BY Zenon, <1>2, <1>3 DEF ToolSteps, RequestLost, ReplyLost

LEMMA StartsFit ==
  ASSUME ToolCallsFit(pt.part, toolcall), pt.part \in Planned, NEW t \in Tasks, ToolStarts(t)
  PROVE  ToolCallsFit(pt.part, toolcall') /\ \A o \in Tasks : CallMoves(o)
<1>1. PICK r \in Asks[pt.part] : \E again \in BOOLEAN :
        /\ again => toolcall[t].req = r
        /\ Begin(t, [AskedFor(t, r, again) EXCEPT !.next = Following(r, <<>>)], Rivals(t, r))
  <2>1. \E r \in Asks[pt.part] :
          LET again == toolcall[t].result = "lost" /\ toolcall[t].req = r IN
          Begin(t, [AskedFor(t, r, again) EXCEPT !.next = Following(r, <<>>)], Rivals(t, r))
    BY Zenon DEF ToolStarts
  <2>2. PICK r \in Asks[pt.part] : 
          LET again == toolcall[t].result = "lost" /\ toolcall[t].req = r IN
          Begin(t, [AskedFor(t, r, again) EXCEPT !.next = Following(r, <<>>)], Rivals(t, r))
    BY Zenon, <2>1
  <2>3. (toolcall[t].result = "lost" /\ toolcall[t].req = r) \in BOOLEAN
    BY Zenon
  <2>4. QED BY Zenon, <2>2, <2>3
<1>2. PICK again \in BOOLEAN :
        /\ again => toolcall[t].req = r
        /\ Begin(t, [AskedFor(t, r, again) EXCEPT !.next = Following(r, <<>>)], Rivals(t, r))
  BY Zenon, <1>1
<1> DEFINE c == toolcall[t]
           from == IF r.tool \in Relative THEN pt ELSE Idle.from
           alone == IF Repeatable(r) THEN Alone(r, pt) ELSE Idle.alone
           fresh == [Idle EXCEPT !.req = r, !.from = from, !.alone = alone]
           d == IF again THEN c ELSE fresh
           crossed == d.crossed \/ Owes(r) \/ \E o \in Rivals(t, r) : AtWork(o)
           next == Following(r, <<>>)
           asked == [[d EXCEPT !.on = TRUE, !.result = "none", !.again = again, !.crossed = crossed] EXCEPT !.next = next]
           All == {"on", "req", "seen", "result", "from", "alone", "next", "changed", "crossed", "again"}
<1>3. Begin(t, asked, Rivals(t, r))
  BY Zenon, <1>2 DEF AskedFor
<1>4. ToolCallFits(pt.part, c) /\ ~c.on
  BY Zenon DEF ToolCallsFit, ToolStarts, AtWork
<1>5. (d = c \/ d.seen = <<>>) /\ All \subseteq DOMAIN d /\ d.req = r
  <2>1. All \subseteq DOMAIN Idle /\ Idle.seen = <<>>
    BY DEF Idle
  <2> HIDE DEF from, alone
  <2>2. All \subseteq DOMAIN fresh /\ fresh.seen = <<>> /\ fresh.req = r
    BY <2>1
  <2>3. All \subseteq DOMAIN c
    BY <1>4 DEF ToolCallFits
  <2> HIDE DEF fresh, c, All
  <2>4. QED BY Zenon, <1>2, <2>2, <2>3 DEF c
<1> HIDE DEF d, crossed
<1>6. ToolCallFits(pt.part, asked) /\ asked.seen = <<>>
  <2>1. next = ItemAfter(PlanIn(pt.part, r, <<>>), Len(<<>>))
    BY Zenon, PlansInParts
  <2> HIDE DEF next, c
  <2>2. QED BY ZenonT(60), <1>4, <1>5, <2>1, AskedFits
<1> HIDE DEF asked, c
<1>7. CASE toolcall' = [o \in Tasks |-> IF o = t THEN asked
                                       ELSE IF o \in Rivals(t, r) THEN [toolcall[o] EXCEPT !.crossed = TRUE]
                                       ELSE toolcall[o]]
  <2>1. toolcall'[t] = asked
    BY Zenon, <1>7
  <2>2. \A o \in Tasks \ {t} : toolcall'[o] \in {toolcall[o], [toolcall[o] EXCEPT !.crossed = TRUE]}
    BY Zenon, <1>7
  <2>3. DOMAIN toolcall' = Tasks
    BY Zenon, <1>7
  <2>4. \A o \in Tasks \ {t} : ToolCallFits(pt.part, toolcall'[o]) /\ Same(toolcall[o], toolcall'[o])
    <3> SUFFICES ASSUME NEW o \in Tasks \ {t}
                 PROVE  ToolCallFits(pt.part, toolcall'[o]) /\ Same(toolcall[o], toolcall'[o])
      OBVIOUS
    <3>1. ToolCallFits(pt.part, toolcall[o]) /\ Same(toolcall[o], toolcall[o])
      BY Zenon DEF ToolCallsFit, Same
    <3>2. ToolCallFits(pt.part, [toolcall[o] EXCEPT !.crossed = TRUE])
          /\ Same(toolcall[o], [toolcall[o] EXCEPT !.crossed = TRUE])
      BY Zenon, <3>1, SameFits
    <3>3. QED BY Zenon, <2>2, <3>1, <3>2
  <2>5. ToolCallsFit(pt.part, toolcall')
    BY Zenon, <1>6, <2>1, <2>3, <2>4 DEF ToolCallsFit
  <2>6. CallBegins(t)
    BY Zenon, <1>6, <2>1 DEF CallBegins
  <2>7. QED BY Zenon, <2>4, <2>5, <2>6 DEF CallMoves
<1>8. CASE Finishes(t, "refused")
  BY Zenon, <1>8, FinishesFits
<1>9. QED BY Zenon, <1>3, <1>7, <1>8 DEF Begin

\* The calls keep to their plans.
LEMMA ToolCallsKept ==
  ASSUME ToolCallsFit(pt.part, toolcall), pt.part \in Planned, [ToolNext]_toolvars
  PROVE  ToolCallsFit(pt.part, toolcall') /\ \A o \in Tasks : CallMoves(o)
<1>1. CASE toolcall' = toolcall
  <2>1. \A o \in Tasks : CallMoves(o)
    BY Zenon, <1>1 DEF CallMoves, Same
  <2>2. QED BY Zenon, <1>1, <2>1
<1>2. QED BY Zenon, <1>1, StepsFit, StartsFit DEF ToolNext, Settle, toolvars

\* A call that is asked is one its plan allows.
LEMMA AskedAllowed ==
  ASSUME NEW part, ToolCallsFit(part, toolcall), NEW t \in Tasks, AtWork(t), NEW may,
         AllowedPlan(PlanIn(part, toolcall[t].req, toolcall[t].seen), may)
  PROVE  Allowed(toolcall[t].next, may)
<1> DEFINE c == toolcall[t]
<1>1. IsSeq(c.seen) /\ c.next = ItemAfter(PlanIn(part, c.req, c.seen), Len(c.seen))
  BY Zenon DEF ToolCallsFit, ToolCallFits, AtWork
<1>2. Len(c.seen) \in Nat
  BY <1>1, SequenceLaws
<1>3. QED BY Zenon, <1>1, <1>2, NextAllowed

LEMMA HostsKept ==
  ASSUME pt.part = "hosts", "hosts" \in DOMAIN Asks, HostsFit(pt), ToolCallsFit(pt.part, toolcall),
         [ToolNext]_toolvars
  PROVE  HostsFit(pt')
<1>1. ASSUME NEW hosts, PortsFit(hosts)
      PROVE  HostsFit([pt EXCEPT !.hosts = hosts])
  <2> DEFINE q == [pt EXCEPT !.hosts = hosts]
  <2>1. {"part", "hosts"} \subseteq DOMAIN q /\ q.part = "hosts" /\ q.hosts = hosts
    BY DEF HostsFit
  <2> HIDE DEF q
  <2>2. HostsFit(q)
    BY Zenon, <1>1, <2>1 DEF HostsFit
  <2>3. QED BY <2>2 DEF q
<1>2. "hosts" \in DOMAIN pt /\ PortsFit(pt.hosts)
  BY DEF HostsFit
<1>3. ASSUME NEW t \in Tasks, AtWork(t)
      PROVE  HostsFit(Answer(pt, toolcall[t].next).pt)
  <2> DEFINE r == toolcall[t].req
             c == toolcall[t].next
  <2>1. r \in Asks["hosts"] /\ IsSeq(toolcall[t].seen)
    BY Zenon, <1>3 DEF ToolCallsFit, ToolCallFits, AtWork
  <2>2. PlanIn(pt.part, r, toolcall[t].seen) = HostPlan(r, toolcall[t].seen)
    BY Zenon DEF PlanIn
  <2>3. Allowed(c, Switches(r))
    BY Zenon, <1>3, <2>1, <2>2, HostPlans, AskedAllowed
  <2>4. Answer(pt, c) = HostAnswer(pt, c)
    BY Zenon DEF Answer
  <2> HIDE DEF c, r
  <2>5. PICK hosts : PortsFit(hosts) /\ HostAnswer(pt, c).pt \in {pt, [pt EXCEPT !.hosts = hosts]}
    BY Zenon, <1>2, <2>3, HostAnswers
  <2>6. HostsFit(Answer(pt, c).pt)
    BY Zenon, <1>1, <2>4, <2>5
  <2>7. QED BY <2>6 DEF c
<1>4. ASSUME NEW q \in Settled(pt)
      PROVE  HostsFit(q)
  <2>1. Settled(pt) = HostSettles(pt)
    BY Zenon DEF Settled
  <2>2. PICK d \in Hosts : q \in Addressed(pt, d)
    BY Zenon, <2>1 DEF HostSettles
  <2>3. \E hosts : PortsFit(hosts) /\ q = [pt EXCEPT !.hosts = hosts]
    BY <1>2, <2>2, LeasesFit
  <2>4. QED BY Zenon, <1>1, <2>3
<1>5. QED BY Zenon, <1>3, <1>4, StepsAreAnswers

LEMMA HostsBegin ==
  ASSUME NEW p \in HostInit
  PROVE  HostsFit(p)
<1>1. p = [part |-> "hosts", hosts |-> [d \in Hosts |-> FreshPort]]
  BY Zenon DEF HostInit
<1>2. {"part", "hosts"} \subseteq DOMAIN p /\ p.part = "hosts" /\ p.hosts = [d \in Hosts |-> FreshPort]
  BY <1>1
<1>3. PortsFit([d \in Hosts |-> FreshPort])
  BY FreshPortFits DEF PortsFit
<1>4. QED BY Zenon, <1>2, <1>3 DEF HostsFit

LEMMA PortsAreSound ==
  ASSUME NEW p, PortsFit(p.hosts)
  PROVE  HostSound(p)
BY Zenon DEF PortsFit, PortFits, HostSound, Port

----------------------------------------------------------------------------
\* The canvas.

\* A sequence on both sides of one of its places.
LEMMA TwoHalves ==
  ASSUME NEW S, NEW s \in Seq(S), NEW i \in 1..Len(s)
  PROVE  /\ SubSeq(s, 1, i - 1) \in Seq(S) /\ SubSeq(s, i + 1, Len(s)) \in Seq(S)
         /\ Len(SubSeq(s, 1, i - 1)) = i - 1 /\ Len(SubSeq(s, i + 1, Len(s))) = Len(s) - i
         /\ \A k \in 1..(i - 1) : SubSeq(s, 1, i - 1)[k] = s[k]
         /\ \A k \in 1..(Len(s) - i) : SubSeq(s, i + 1, Len(s))[k] = s[i + k]
<1>1. SubSeq(s, 1, i - 1) \in Seq(S) /\ Len(SubSeq(s, 1, i - 1)) = i - 1
  OBVIOUS
<1>2. SubSeq(s, i + 1, Len(s)) \in Seq(S) /\ Len(SubSeq(s, i + 1, Len(s))) = Len(s) - i
  OBVIOUS
<1>3. \A k \in 1..(i - 1) : SubSeq(s, 1, i - 1)[k] = s[k]
  OBVIOUS
<1>4. \A k \in 1..(Len(s) - i) : SubSeq(s, i + 1, Len(s))[k] = s[i + k]
  OBVIOUS
<1>5. QED BY <1>1, <1>2, <1>3, <1>4

\* What is left when one is taken out.
LEMMA TakenOut ==
  ASSUME NEW s, IsSeq(s), NEW i \in 1..Len(s)
  PROVE  /\ IsSeq(RemoveAt(s, i)) /\ Len(RemoveAt(s, i)) = Len(s) - 1
         /\ \A k \in 1..(Len(s) - 1) : RemoveAt(s, i)[k] = IF k < i THEN s[k] ELSE s[k + 1]
<1>1. PICK S : s \in Seq(S)
  BY DEF IsSeq
<1> DEFINE a == SubSeq(s, 1, i - 1)
           b == SubSeq(s, i + 1, Len(s))
           t == RemoveAt(s, i)
<1>3. t = a \o b
  BY Zenon DEF RemoveAt
<1>4. /\ a \in Seq(S) /\ b \in Seq(S) /\ Len(a) = i - 1 /\ Len(b) = Len(s) - i
      /\ \A k \in 1..(i - 1) : a[k] = s[k]
      /\ \A k \in 1..(Len(s) - i) : b[k] = s[i + k]
  BY Zenon, <1>1, TwoHalves
<1>5. Len(s) \in Nat
  BY <1>1
<1> HIDE DEF a, b, t
<1>6. IsSeq(t) /\ Len(t) = Len(s) - 1
  <2>1. IsSeq(a) /\ IsSeq(b)
    BY Zenon, <1>4 DEF IsSeq
  <2>2. IsSeq(t) /\ Len(t) = Len(a) + Len(b)
    BY Zenon, <1>3, <2>1, Concatenation
  <2>3. QED BY <1>4, <1>5, <2>2
<1>7. \A k \in 1..(Len(s) - 1) : t[k] = IF k < i THEN s[k] ELSE s[k + 1]
  <2> TAKE k \in 1..(Len(s) - 1)
  <2>1. CASE k < i
    <3>1. k \in 1..Len(a)
      BY <1>4, <2>1
    <3>2. t[k] = a[k]
      BY <1>3, <1>4, <3>1
    <3>3. QED BY <1>4, <2>1, <3>1, <3>2
  <2>2. CASE ~(k < i)
    <3>1. k - Len(a) \in 1..Len(b) /\ k \in 1..(Len(a) + Len(b)) /\ k > Len(a) /\ i + (k - Len(a)) = k + 1
      BY <1>4, <1>5, <2>2
    <3>2. t[k] = b[k - Len(a)]
      BY <1>3, <1>4, <3>1
    <3>3. b[k - Len(a)] = s[i + (k - Len(a))]
      BY <1>4, <3>1
    <3>4. QED BY <2>2, <3>1, <3>2, <3>3
  <2>3. QED BY <2>1, <2>2
<1>8. QED BY <1>6, <1>7 DEF t

\* Ids of a kind up to the n-th, each once.
OwnIds(items, kind, n) ==
  /\ IsSeq(items)
  /\ \A k \in DOMAIN items : \E i \in 1..n : items[k].id = <<kind, i>>
  /\ \A j, k \in DOMAIN items : items[j].id = items[k].id => j = k

LEMMA OwnMore ==
  ASSUME NEW items, NEW kind, NEW n \in Nat, OwnIds(items, kind, n), NEW item, item.id = <<kind, n + 1>>
  PROVE  OwnIds(Append(items, item), kind, n + 1)
<1> DEFINE more == Append(items, item)
<1>1. /\ IsSeq(more) /\ Len(more) = Len(items) + 1
      /\ \A k \in 1..Len(items) : more[k] = items[k]
      /\ more[Len(items) + 1] = item
  BY Zenon, OneMoreAtEnd DEF OwnIds
<1>2. DOMAIN items = 1..Len(items) /\ Len(items) \in Nat
  BY SequenceLaws DEF OwnIds
<1> HIDE DEF more
<1>3. DOMAIN more = 1..(Len(items) + 1)
  BY <1>1, SequenceLaws
<1>4. ASSUME NEW k \in DOMAIN items
      PROVE  more[k] = items[k] /\ (\E i \in 1..(n + 1) : more[k].id = <<kind, i>>) /\ more[k].id # item.id
  <2>1. more[k] = items[k]
    BY <1>1, <1>2
  <2>2. PICK i \in 1..n : items[k].id = <<kind, i>>
    BY Zenon DEF OwnIds
  <2>3. i # n + 1 /\ i \in 1..(n + 1)
    OBVIOUS
  <2>4. <<kind, i>> # <<kind, n + 1>>
    BY <2>3
  <2>5. QED BY Zenon, <2>1, <2>2, <2>3, <2>4
<1>5. \A k \in DOMAIN more : k \in DOMAIN items \/ k = Len(items) + 1
  BY <1>2, <1>3
<1>6. \A k \in DOMAIN more : \E i \in 1..(n + 1) : more[k].id = <<kind, i>>
  <2>1. n + 1 \in 1..(n + 1)
    OBVIOUS
  <2>2. QED BY Zenon, <1>1, <1>4, <1>5, <2>1
<1>7. \A j, k \in DOMAIN more : more[j].id = more[k].id => j = k
  BY Zenon, <1>1, <1>4, <1>5 DEF OwnIds
<1>8. QED BY <1>1, <1>6, <1>7 DEF more, OwnIds

LEMMA OwnLess ==
  ASSUME NEW items, NEW kind, NEW n, OwnIds(items, kind, n), NEW id
  PROVE  /\ OwnIds(WithoutId(items, id), kind, n)
         /\ \A k \in DOMAIN WithoutId(items, id) : \E j \in DOMAIN items : WithoutId(items, id)[k] = items[j]
<1> DEFINE less == WithoutId(items, id)
           at == {k \in DOMAIN items : items[k].id = id}
           i == CHOOSE k \in at : TRUE
<1>1. CASE at = {}
  <2>1. less = items
    BY Zenon, <1>1 DEF WithoutId
  <2>2. QED BY Zenon, <2>1
<1>2. CASE at # {}
  <2>1. less = RemoveAt(items, i) /\ i \in DOMAIN items
    BY Zenon, <1>2 DEF WithoutId
  <2>2. DOMAIN items = 1..Len(items) /\ Len(items) \in Nat /\ IsSeq(items)
    BY SequenceLaws DEF OwnIds
  <2>3. /\ IsSeq(less) /\ Len(less) = Len(items) - 1
        /\ \A k \in 1..(Len(items) - 1) : less[k] = IF k < i THEN items[k] ELSE items[k + 1]
    BY ZenonT(60), <2>1, <2>2, TakenOut
  <2> HIDE DEF less, i
  <2> DEFINE was(k) == IF k < i THEN k ELSE k + 1
  <2>4. DOMAIN less = 1..(Len(items) - 1)
    BY <2>3, SequenceLaws
  <2>5. \A k \in DOMAIN less : was(k) \in DOMAIN items /\ less[k] = items[was(k)]
    BY <2>1, <2>2, <2>3, <2>4
  <2>6. \A j, k \in DOMAIN less : was(j) = was(k) => j = k
    BY <2>1, <2>2, <2>4
  <2> HIDE DEF was
  <2>7. OwnIds(less, kind, n)
    <3>1. \A k \in DOMAIN less : \E j \in 1..n : less[k].id = <<kind, j>>
      <4> SUFFICES ASSUME NEW k \in DOMAIN less PROVE \E j \in 1..n : less[k].id = <<kind, j>>
        OBVIOUS
      <4> DEFINE x == items[was(k)]
      <4>1. less[k] = x /\ \E j \in 1..n : x.id = <<kind, j>>
        BY Zenon, <2>5 DEF OwnIds
      <4> HIDE DEF x
      <4>2. QED BY Zenon, <4>1
    <3>2. ASSUME NEW j \in DOMAIN less, NEW k \in DOMAIN less, less[j].id = less[k].id
          PROVE  j = k
      <4>1. items[was(j)].id = items[was(k)].id
        BY Zenon, <2>5, <3>2
      <4>2. was(j) = was(k)
        BY Zenon, <2>5, <4>1 DEF OwnIds
      <4>3. QED BY <2>6, <4>2
    <3>3. QED BY Zenon, <2>3, <3>1, <3>2 DEF OwnIds
  <2>8. QED BY Zenon, <2>5, <2>7 DEF less
<1>3. QED BY <1>1, <1>2

LEMMA OwnWider ==
  ASSUME NEW items, NEW kind, NEW n \in Nat, OwnIds(items, kind, n), NEW m \in Nat, n <= m
  PROVE  OwnIds(items, kind, m)
<1>1. \A i \in 1..n : i \in 1..m
  OBVIOUS
<1>2. QED BY Zenon, <1>1 DEF OwnIds

LEMMA OwnCount ==
  ASSUME NEW items, NEW kind, NEW n, OwnIds(items, kind, n)
  PROVE  Cardinality({items[k].id : k \in DOMAIN items}) = Len(items)
<1> DEFINE S == DOMAIN items
           T == {items[k].id : k \in S}
           f == [k \in S |-> items[k].id]
<1>1. S = 1..Len(items) /\ Len(items) \in Nat
  BY SequenceLaws DEF OwnIds
<1>2. IsFiniteSet(S) /\ Cardinality(S) = Len(items)
  <2> DEFINE len == Len(items)
  <2>1. S = 1..len /\ len \in Nat
    BY <1>1
  <2> HIDE DEF len, S
  <2>2. IsFiniteSet(1..len) /\ Cardinality(1..len) = len
    BY <2>1, FS_Interval
  <2>3. QED BY <2>1, <2>2 DEF len
<1>3. f \in [S -> T] /\ (\A t \in T : \E k \in S : f[k] = t) /\ \A j, k \in S : f[j] = f[k] => j = k
  BY DEF OwnIds
<1> HIDE DEF S, T, f
<1>4. f \in Surjection(S, T) /\ f \in Injection(S, T)
  <2>1. DOMAIN f = S
    BY <1>3
  <2>2. QED BY Zenon, <1>3, <2>1 DEF Surjection, Injection, IsInjective
<1>5. Cardinality(T) = Cardinality(S)
  BY Zenon, <1>2, <1>4, FS_Surjection
<1>6. QED BY <1>2, <1>5 DEF S, T

\* A network's canvas, also in a file.
CanvasFits(p) ==
  /\ {"part", "open", "notes", "drawings", "noted", "drawn", "physical", "place", "visible"} \subseteq DOMAIN p
  /\ p.part = "canvas" /\ p.noted \in Nat /\ p.drawn \in Nat
  /\ OwnIds(p.notes, "note", p.noted) /\ OwnIds(p.drawings, "drawing", p.drawn)
  /\ \A k \in DOMAIN p.drawings : InOrder(p.drawings[k].shape)

LEMMA CanvasFitsIsSound ==
  ASSUME NEW p, CanvasFits(p)
  PROVE  CanvasSound(p)
BY Zenon, OwnCount DEF CanvasFits, CanvasSound, NoteIds, DrawingIds

LEMMA NothingOwned == \A kind : OwnIds(<<>>, kind, 0)
<1>1. IsSeq(<<>>) /\ DOMAIN <<>> = {}
  BY NothingListed
<1>2. QED BY Zenon, <1>1 DEF OwnIds

LEMMA CanvasBegins ==
  ASSUME NEW p \in CanvasInit
  PROVE  CanvasFits(p)
<1>1. /\ {"part", "open", "notes", "drawings", "noted", "drawn", "physical", "place", "visible"} \subseteq DOMAIN p
      /\ p.part = "canvas" /\ p.noted = 0 /\ p.drawn = 0 /\ p.notes = <<>> /\ p.drawings = <<>>
  BY DEF CanvasInit
<1>2. DOMAIN <<>> = {} /\ 0 \in Nat
  OBVIOUS
<1>3. QED BY Zenon, <1>1, <1>2, NothingOwned DEF CanvasFits

\* A shape that can be drawn is not inside out.
LEMMA ShapesInOrder ==
  ASSUME NEW r, r.shape \in {"circle", "rectangle", "line"}, {r.x, r.y} \subseteq Int,
         r.radius \in Seq(Int), r.to \in Seq(Int \X Int), Drawable(r)
  PROVE  InOrder(Shape(r))
<1> DEFINE corners == CHOOSE corners \in geometry(r) : TRUE
<1>1. corners \in geometry(r)
  BY Zenon DEF Drawable
<1>2. Shape(r) = [kind |-> r.shape, start |-> corners[1], end |-> corners[2], outline |-> colour(r.color), fill |-> r.fill]
  BY Zenon DEF Shape
<1> HIDE DEF corners
<1>3. Shape(r).kind = r.shape /\ Shape(r).start = corners[1] /\ Shape(r).end = corners[2]
  <2> DEFINE outline == colour(r.color)
             fill == r.fill
  <2> HIDE DEF outline, fill
  <2>1. QED BY <1>2 DEF outline, fill
<1>4. CASE r.shape = "circle"
  <2> DEFINE radius == IF r.radius = <<>> THEN DEFAULT_RADIUS ELSE r.radius[1]
  <2>1. radius \in Int
    BY DEF DEFAULT_RADIUS
  <2>2. geometry(r) = {<<<<r.x - radius, r.y - radius>>, <<r.x + radius, r.y + radius>>>> : n \in {radius} \cap (1..radius)}
    BY Zenon, <1>4 DEF geometry
  <2> HIDE DEF radius
  <2>3. /\ corners = <<<<r.x - radius, r.y - radius>>, <<r.x + radius, r.y + radius>>>>
        /\ radius \in 1..radius
    BY <1>1, <2>2
  <2>4. /\ corners[1][1] = r.x - radius /\ corners[2][1] = r.x + radius
        /\ corners[1][2] = r.y - radius /\ corners[2][2] = r.y + radius
    BY <2>3
  <2>5. QED BY <1>3, <2>1, <2>3, <2>4 DEF InOrder
<1>5. CASE r.shape = "rectangle"
  <2>1. geometry(r) = {<<<<Lower(r.x, to[1]), Lower(r.y, to[2])>>, <<Upper(r.x, to[1]), Upper(r.y, to[2])>>>> : to \in ToSet(r.to)}
    BY Zenon, <1>5 DEF geometry
  <2>2. PICK to \in ToSet(r.to) :
          corners = <<<<Lower(r.x, to[1]), Lower(r.y, to[2])>>, <<Upper(r.x, to[1]), Upper(r.y, to[2])>>>>
    BY Zenon, <1>1, <2>1
  <2>3. to[1] \in Int /\ to[2] \in Int
    BY DEF ToSet
  <2>4. /\ corners[1][1] = Lower(r.x, to[1]) /\ corners[2][1] = Upper(r.x, to[1])
        /\ corners[1][2] = Lower(r.y, to[2]) /\ corners[2][2] = Upper(r.y, to[2])
    BY <2>2
  <2>5. \A a, b \in Int : Lower(a, b) <= Upper(a, b)
    BY DEF Lower, Upper
  <2>6. QED BY <1>3, <2>3, <2>4, <2>5 DEF InOrder
<1>6. CASE r.shape = "line"
  BY <1>3, <1>6 DEF InOrder
<1>7. QED BY Zenon, <1>4, <1>5, <1>6

\* The file with one shape more.
LEMMA ShapeAdded ==
  ASSUME NEW doc, CanvasFits(doc), NEW shape, InOrder(shape), add_shape(doc, shape).ok
  PROVE  CanvasFits(add_shape(doc, shape).doc) /\ add_shape(doc, shape).doc.noted = doc.noted
<1> DEFINE item == [id |-> <<"drawing", doc.drawn + 1>>, shape |-> shape]
           more == Append(doc.drawings, item)
           q == [doc EXCEPT !.drawings = more, !.drawn = @ + 1]
<1>1. add_shape(doc, shape).doc = q
  <2>1. ~Impossible.ok
    BY Zenon DEF Impossible
  <2>2. add_shape(doc, shape) = Edited(q)
    BY Zenon, <2>1 DEF add_shape
  <2>3. Edited(q).doc = q
    BY Zenon DEF Edited
  <2>4. QED BY Zenon, <2>2, <2>3
<1>2. item.id = <<"drawing", doc.drawn + 1>> /\ item.shape = shape
  OBVIOUS
<1> HIDE DEF item
<1>3. OwnIds(more, "drawing", doc.drawn + 1)
  BY Zenon, <1>2, OwnMore DEF CanvasFits
<1>4. \A k \in DOMAIN more : InOrder(more[k].shape)
  <2>1. IsSeq(doc.drawings) /\ IsSeq(more)
    BY Zenon, <1>3 DEF CanvasFits, OwnIds
  <2>2. /\ Len(more) = Len(doc.drawings) + 1
        /\ \A k \in 1..Len(doc.drawings) : more[k] = doc.drawings[k]
        /\ more[Len(doc.drawings) + 1] = item
    BY ZenonT(60), <2>1, OneMoreAtEnd
  <2>3. DOMAIN more = 1..Len(more) /\ DOMAIN doc.drawings = 1..Len(doc.drawings) /\ Len(doc.drawings) \in Nat
    BY <2>1, SequenceLaws
  <2> DEFINE len == Len(doc.drawings)
  <2>4. \A k \in 1..(len + 1) : k \in 1..len \/ k = len + 1
    BY <2>3
  <2>5. DOMAIN more = 1..(len + 1)
    BY Zenon, <2>2, <2>3
  <2> HIDE DEF more
  <2>6. QED BY Zenon, <1>2, <2>2, <2>3, <2>4, <2>5 DEF CanvasFits
<1> HIDE DEF more
<1>5. /\ {"part", "open", "notes", "drawings", "noted", "drawn", "physical", "place", "visible"} \subseteq DOMAIN q
      /\ q.part = "canvas" /\ q.noted = doc.noted /\ q.drawn = doc.drawn + 1 /\ q.notes = doc.notes /\ q.drawings = more
  BY DEF CanvasFits
<1>6. q.drawn \in Nat
  BY <1>5 DEF CanvasFits
<1> HIDE DEF q
<1>7. CanvasFits(q)
  BY Zenon, <1>3, <1>4, <1>5, <1>6 DEF CanvasFits
<1>8. QED BY Zenon, <1>1, <1>5, <1>7

\* A call that opens a file opens one that fits, with no note newer than the network has.
Opens(c, p) == c.op = "fileOpen" => CanvasFits(c.val) /\ c.val.noted <= p.noted

LEMMA CanvasAnswers ==
  ASSUME NEW p, CanvasFits(p), NEW c, Opens(c, p)
  PROVE  CanvasFits(CanvasAnswer(p, c).pt) /\ p.noted <= CanvasAnswer(p, c).pt.noted
<1> DEFINE All == {"part", "open", "notes", "drawings", "noted", "drawn", "physical", "place", "visible"}
           q == CanvasAnswer(p, c).pt
           note == [id |-> <<"note", p.noted + 1>>, text |-> c.val.text]
           notes == Append(p.notes, note)
           fewer == WithoutId(p.notes, c.val)
           less == WithoutId(p.drawings, c.val)
           opened == [c.val EXCEPT !.noted = p.noted, !.physical = p.physical, !.place = p.place]
<1>1. \/ q = p
      \/ q = [p EXCEPT !.open = FALSE]
      \/ c.op = "fileOpen" /\ q = opened
      \/ q = [p EXCEPT !.physical = TRUE]
      \/ q = [p EXCEPT !.physical = FALSE]
      \/ q = [p EXCEPT !.place = "Intercity"]
      \/ q = [p EXCEPT !.place = "Main Wiring Closet"]
      \/ q = [p EXCEPT !.notes = notes, !.noted = p.noted + 1]
      \/ q = [p EXCEPT !.notes = fewer, !.drawings = less]
  BY ZenonT(60) DEF CanvasAnswer, add_canvas_note, remove_canvas_item, Gives, Obeys, Says, Did, Missing, Shows, Unknown, Replies
<1>2. All \subseteq DOMAIN p /\ p.part = "canvas" /\ p.noted \in Nat /\ p.drawn \in Nat
  BY DEF CanvasFits
<1>3. CASE q = p
  BY <1>2, <1>3
<1>4. CASE c.op = "fileOpen" /\ q = opened
  <2>1. CanvasFits(c.val) /\ c.val.noted <= p.noted
    BY Zenon, <1>4 DEF Opens
  <2>2. /\ All \subseteq DOMAIN opened /\ opened.part = "canvas" /\ opened.noted = p.noted
        /\ opened.drawn = c.val.drawn /\ opened.notes = c.val.notes /\ opened.drawings = c.val.drawings
    BY <2>1 DEF CanvasFits
  <2>3. OwnIds(c.val.notes, "note", p.noted)
    BY Zenon, <1>2, <2>1, OwnWider DEF CanvasFits
  <2> HIDE DEF opened, q
  <2>4. CanvasFits(q)
    BY Zenon, <1>2, <1>4, <2>1, <2>2, <2>3 DEF CanvasFits
  <2>5. p.noted <= q.noted
    BY <1>2, <1>4, <2>2
  <2>6. QED BY Zenon, <2>4, <2>5 DEF q
<1>5. CASE q = [p EXCEPT !.notes = notes, !.noted = p.noted + 1]
  <2>1. note.id = <<"note", p.noted + 1>>
    OBVIOUS
  <2> HIDE DEF note
  <2>2. OwnIds(notes, "note", p.noted + 1)
    BY Zenon, <2>1, OwnMore DEF CanvasFits
  <2> HIDE DEF notes, q
  <2>3. /\ All \subseteq DOMAIN q /\ q.part = "canvas" /\ q.noted = p.noted + 1
        /\ q.drawn = p.drawn /\ q.notes = notes /\ q.drawings = p.drawings
    BY <1>2, <1>5
  <2>4. q.noted \in Nat /\ p.noted <= q.noted
    BY <1>2, <2>3
  <2>5. CanvasFits(q)
    BY Zenon, <1>2, <2>2, <2>3, <2>4 DEF CanvasFits
  <2>6. QED BY <2>4, <2>5 DEF q
<1>6. CASE q = [p EXCEPT !.notes = fewer, !.drawings = less]
  <2>1. OwnIds(fewer, "note", p.noted)
    BY Zenon, OwnLess DEF CanvasFits
  <2>2. OwnIds(p.drawings, "drawing", p.drawn) /\ \A k \in DOMAIN p.drawings : InOrder(p.drawings[k].shape)
    BY Zenon DEF CanvasFits
  <2>3. OwnIds(less, "drawing", p.drawn)
    BY Zenon, <2>2, OwnLess
  <2>4. \A k \in DOMAIN less : \E j \in DOMAIN p.drawings : less[k] = p.drawings[j]
    BY <2>2, OwnLess
  <2>5. \A k \in DOMAIN less : InOrder(less[k].shape)
    BY Zenon, <2>2, <2>4
  <2> HIDE DEF fewer, less, q
  <2>6. /\ All \subseteq DOMAIN q /\ q.part = "canvas" /\ q.noted = p.noted
        /\ q.drawn = p.drawn /\ q.notes = fewer /\ q.drawings = less
    BY <1>2, <1>6
  <2>7. CanvasFits(q)
    BY Zenon, <1>2, <2>1, <2>5, <2>6, <2>3 DEF CanvasFits
  <2>8. QED BY <1>2, <2>6, <2>7 DEF q
<1>7. CASE \E v : q = [p EXCEPT !.open = v] \/ q = [p EXCEPT !.physical = v] \/ q = [p EXCEPT !.place = v]
  <2> HIDE DEF q
  <2>1. /\ All \subseteq DOMAIN q /\ q.part = "canvas" /\ q.noted = p.noted
        /\ q.drawn = p.drawn /\ q.notes = p.notes /\ q.drawings = p.drawings
    BY <1>2, <1>7
  <2>2. CanvasFits(q)
    BY Zenon, <1>2, <2>1 DEF CanvasFits
  <2>3. QED BY <1>2, <2>1, <2>2 DEF q
<1> HIDE DEF q, opened, notes, fewer, less
<1>8. \/ q = p \/ (c.op = "fileOpen" /\ q = opened)
      \/ q = [p EXCEPT !.notes = notes, !.noted = p.noted + 1] \/ q = [p EXCEPT !.notes = fewer, !.drawings = less]
      \/ \E v : q = [p EXCEPT !.open = v] \/ q = [p EXCEPT !.physical = v] \/ q = [p EXCEPT !.place = v]
  BY Zenon, <1>1
<1>9. CanvasFits(q) /\ p.noted <= q.noted
  BY Zenon, <1>3, <1>4, <1>5, <1>6, <1>7, <1>8 DEF q
<1>10. QED BY <1>9 DEF q

\* What the tools read of a canvas: a list, or the whole of it.
LookOps == {"list_links", "getCanvasNoteIds", "read_note", "getCanvasIds", "position"}

LEMMA FiniteLists ==
  ASSUME NEW S, IsFiniteSet(S)
  PROVE  IsSeq(SetToSeq(S))
<1>1. Cardinality(S) \in Nat /\ ExistsBijection(1..Cardinality(S), S)
  BY FS_CardinalityType
<1>2. \E f \in [1..Cardinality(S) -> S] : IsInjective(f)
  BY Zenon, <1>1 DEF ExistsBijection, Bijection, Injection, IsInjective
<1>3. SetToSeq(S) \in [1..Cardinality(S) -> S]
  BY Zenon, <1>2 DEF SetToSeq
<1>4. SetToSeq(S) \in Seq(S)
  BY Zenon, <1>1, <1>3, AsSequence
<1>5. QED BY Zenon, <1>4 DEF IsSeq

LEMMA CanvasReplies ==
  ASSUME NEW p, CanvasFits(p), NEW c
  PROVE  LET reply == CanvasAnswer(p, c) IN
         /\ c.op = "list_devices" => reply.data = {}
         /\ c.op = "fileSaveToBytes" => reply.data = p
         /\ c.op \in LookOps => reply.is = "missing" \/ IsSeq(reply.data)
<1> DEFINE reply == CanvasAnswer(p, c)
           ids == IdsOf(p.notes)
           labels == SetToSeq(LabelIds)
           ofkind == IdsOfKind(p, c.val)
<1>1. c.op = "list_devices" => reply = Gives(p, {})
  BY Zenon DEF CanvasAnswer
<1>2. c.op = "fileSaveToBytes" => reply = Gives(p, p)
  BY Zenon DEF CanvasAnswer
<1>3. c.op \in LookOps => \/ reply = Missing(p) \/ reply = Gives(p, <<>>)
                           \/ reply = Gives(p, ids \o labels) \/ reply = Gives(p, ofkind)
  BY ZenonT(60) DEF CanvasAnswer, LookOps, Shows
<1>4. IsSeq(p.notes) /\ IsSeq(p.drawings)
  BY Zenon DEF CanvasFits, OwnIds
<1>5. IsSeq(<<>>)
  BY NothingListed
<1>6. IsSeq(ids \o labels)
  <2>1. /\ DOMAIN p.notes = 1..Len(p.notes) /\ Len(p.notes) \in Nat
    BY <1>4, SequenceLaws
  <2>2. IsSeq(ids)
    <3> DEFINE ends == {p.notes[k].id : k \in DOMAIN p.notes}
    <3>1. ids \in [DOMAIN p.notes -> ends]
      BY Zenon DEF IdsOf
    <3> HIDE DEF ids, ends
    <3>2. ids \in Seq(ends)
      BY Zenon, <2>1, <3>1, AsSequence
    <3>3. QED BY Zenon, <3>2 DEF IsSeq
  <2>3. IsFiniteSet(LabelIds)
    <3> DEFINE f == [text \in PortLabels |-> <<"label", text>>]
    <3>1. LabelIds = {f[text] : text \in PortLabels}
      BY Zenon DEF LabelIds
    <3>2. f \in [PortLabels -> LabelIds] /\ \A id \in LabelIds : \E text \in PortLabels : f[text] = id
      BY Zenon DEF LabelIds
    <3>3. f \in Surjection(PortLabels, LabelIds)
      BY Zenon, <3>2 DEF Surjection
    <3> HIDE DEF f
    <3>4. QED BY Zenon, <3>3, FS_Surjection, LabelsAssumption
  <2>4. IsSeq(labels)
    BY Zenon, <2>3, FiniteLists
  <2>5. QED BY Zenon, <2>2, <2>4, Concatenation
<1>7. IsSeq(ofkind)
  <2> DEFINE at == {k \in DOMAIN p.drawings : p.drawings[k].shape.kind = c.val}
             found == {p.drawings[k].id : k \in at}
             f == [k \in at |-> p.drawings[k].id]
  <2>1. /\ DOMAIN p.drawings = 1..Len(p.drawings) /\ Len(p.drawings) \in Nat
    BY <1>4, SequenceLaws
  <2>2. IsFiniteSet(at)
    <3>1. IsFiniteSet(DOMAIN p.drawings)
      BY <2>1, FS_Interval
    <3>2. at \subseteq DOMAIN p.drawings
      OBVIOUS
    <3>3. QED BY Zenon, <3>1, <3>2, FS_Subset
  <2>3. f \in Surjection(at, found)
    BY Zenon DEF Surjection
  <2> HIDE DEF f, at
  <2>4. IsFiniteSet(found)
    BY Zenon, <2>2, <2>3, FS_Surjection
  <2>5. ofkind = SetToSeq(found)
    BY Zenon DEF IdsOfKind, at
  <2>6. QED BY Zenon, <2>4, <2>5, FiniteLists
<1> HIDE DEF ids, labels, ofkind, reply
<1>8. \A data : Gives(p, data).data = data /\ Missing(p).is = "missing"
  BY DEF Gives, Missing, Replies
<1>9. QED BY Zenon, <1>1, <1>2, <1>3, <1>5, <1>6, <1>7, <1>8 DEF reply

----------------------------------------------------------------------------
\* Edits of the saved network.

\* What comes after the calls of a first part.
LEMMA LaterItems ==
  ASSUME NEW first, IsSeq(first), NEW plan, IsSeq(plan), NEW n \in Nat
  PROVE  ItemAfter(first \o plan, Len(first) + n) = ItemAfter(plan, n)
<1> DEFINE all == first \o plan
<1>1. /\ Len(all) = Len(first) + Len(plan)
      /\ \A k \in 1..(Len(first) + Len(plan)) : k > Len(first) => all[k] = plan[k - Len(first)]
  BY Zenon, Concatenation
<1>2. Len(first) \in Nat /\ Len(plan) \in Nat
  BY SequenceLaws
<1> DEFINE a == Len(first)
           b == Len(plan)
<1> HIDE DEF all
<1>3. ItemAfter(all, a + n) = IF a + n < a + b THEN all[a + n + 1] ELSE Idle.next
  BY Zenon, <1>1 DEF ItemAfter
<1>4. ItemAfter(plan, n) = IF n < b THEN plan[n + 1] ELSE Idle.next
  BY Zenon DEF ItemAfter
<1>5. CASE n < b
  <2>1. a + n + 1 \in 1..(a + b) /\ a + n + 1 > a /\ a + n + 1 - a = n + 1 /\ a + n < a + b
    BY <1>2, <1>5
  <2>2. all[a + n + 1] = plan[n + 1]
    BY <1>1, <2>1
  <2>3. QED BY Zenon, <1>3, <1>4, <1>5, <2>1, <2>2 DEF all
<1>6. CASE ~(n < b)
  <2>1. ~(a + n < a + b)
    BY <1>2, <1>6
  <2>2. QED BY Zenon, <1>3, <1>4, <1>6, <2>1 DEF all
<1>7. QED BY Zenon, <1>5, <1>6

\* The calls of an edit: the network is taken, and one of `may` is opened.
TakesAndOpens(plan, seen, may) ==
  \/ Len(seen) < 2 /\ plan = take_network
  \/ plan = take_network \o <<Refuse>>
  \/ \E doc \in may : plan = take_network \o open_edited(doc)
  \/ \E doc \in may : \E rest : AllowedPlan(rest, may) /\ plan = take_network \o (open_edited(doc) \o rest)

LEMMA EditsAllowed ==
  ASSUME NEW may, NEW plan, NEW seen, TakesAndOpens(plan, seen, may)
  PROVE  /\ AllowedPlan(plan, may)
         /\ Len(seen) = 1 => ItemAfter(plan, 1) = Ask("fileSaveToBytes", "")
         /\ Len(seen) = 4 => ItemAfter(plan, 4) \in {Ask("list_devices", ""), Idle.next}
<1>1. take_network = <<Ask("list_devices", ""), Ask("fileSaveToBytes", "")>>
  BY Zenon DEF take_network
<1>2. AllowedPlan(take_network, may)
  BY Zenon, <1>1, Asking, PlanOfTwo
<1>3. IsSeq(take_network) /\ Len(take_network) = 2 /\ take_network[2] = Ask("fileSaveToBytes", "")
  <2> DEFINE a == Ask("list_devices", "")
             b == Ask("fileSaveToBytes", "")
  <2> HIDE DEF a, b
  <2>1. Len(<<a, b>>) = 2 /\ <<a, b>>[2] = b
    OBVIOUS
  <2>2. QED BY Zenon, <1>1, <1>2, <2>1 DEF a, b, AllowedPlan
<1>4. ASSUME NEW rest, AllowedPlan(rest, may)
      PROVE  /\ AllowedPlan(take_network \o rest, may)
             /\ ItemAfter(take_network \o rest, 1) = Ask("fileSaveToBytes", "")
             /\ \A n \in Nat : ItemAfter(take_network \o rest, 2 + n) = ItemAfter(rest, n)
  <2> DEFINE all == take_network \o rest
  <2>1. AllowedPlan(all, may)
    BY Zenon, <1>2, <1>4, PlansJoin
  <2>2. Len(rest) \in Nat /\ Len(all) = 2 + Len(rest) /\ all[2] = take_network[2]
    <3>1. IsSeq(rest)
      BY Zenon, <1>4 DEF AllowedPlan
    <3>2. Len(rest) \in Nat
      BY <3>1, SequenceLaws
    <3>3. Len(all) = Len(take_network) + Len(rest) /\ \A k \in 1..Len(take_network) : all[k] = take_network[k]
      BY Zenon, <1>3, <3>1, Concatenation
    <3> HIDE DEF all
    <3>4. 2 \in 1..2
      OBVIOUS
    <3>5. QED BY Zenon, <1>3, <3>2, <3>3, <3>4
  <2> HIDE DEF all
  <2>3. 1 < Len(all)
    <3> DEFINE len == Len(all)
               more == Len(rest)
    <3>1. len = 2 + more /\ more \in Nat
      BY Zenon, <2>2
    <3> HIDE DEF len, more
    <3>2. 1 < len
      BY <3>1
    <3>3. QED BY <3>2 DEF len
  <2>4. ItemAfter(all, 1) = all[1 + 1]
    BY Zenon, <2>3 DEF ItemAfter
  <2>5. 1 + 1 = 2
    OBVIOUS
  <2>6. ItemAfter(all, 1) = Ask("fileSaveToBytes", "")
    BY Zenon, <1>3, <2>2, <2>4, <2>5
  <2>7. \A n \in Nat : ItemAfter(all, 2 + n) = ItemAfter(rest, n)
    BY Zenon, <1>3, <1>4, LaterItems DEF AllowedPlan, all
  <2>8. QED BY Zenon, <2>1, <2>6, <2>7 DEF all
<1>5. ASSUME NEW doc \in may
      PROVE  /\ AllowedPlan(open_edited(doc), may) /\ Len(open_edited(doc)) = 3
             /\ open_edited(doc)[3] = Ask("list_devices", "")
  <2> DEFINE a == Must("fileNew", "", <<>>)
             b == Must("fileOpen", "", doc)
             c == Ask("list_devices", "")
  <2>1. Allowed(a, may) /\ Allowed(c, may)
    BY Zenon, Asking
  <2>2. b.op = "fileOpen" /\ b.val = doc
    BY DEF Must, Item
  <2>3. Allowed(b, may)
    <3> HIDE DEF b
    <3>1. b.op # "setIpSubnetMask"
      BY <2>2
    <3>2. QED BY Zenon, <2>2, <3>1 DEF Allowed
  <2> HIDE DEF a, b, c
  <2>4. AllowedPlan(<<a, b, c>>, may)
    BY Zenon, <2>1, <2>3, PlanOfThree
  <2>5. Len(<<a, b, c>>) = 3 /\ <<a, b, c>>[3] = c
    OBVIOUS
  <2>6. QED BY Zenon, <2>4, <2>5 DEF open_edited, a, b, c
<1>6. CASE Len(seen) < 2 /\ plan = take_network
  <2>1. 1 < Len(plan) /\ 1 + 1 = 2
    <3>1. Len(plan) = 2
      BY Zenon, <1>3, <1>6
    <3>2. QED BY <3>1
  <2>2. ItemAfter(plan, 1) = Ask("fileSaveToBytes", "")
    BY Zenon, <1>3, <1>6, <2>1 DEF ItemAfter
  <2>3. ~(Len(seen) = 4)
    BY <1>6
  <2>4. QED BY Zenon, <1>2, <1>6, <2>2, <2>3
<1>7. CASE plan = take_network \o <<Refuse>>
  <2>1. AllowedPlan(<<Refuse>>, may)
    BY Zenon, RefusingAllowed, PlanOfOne
  <2>2. ItemAfter(<<Refuse>>, 2) = Idle.next
    <3>1. ~(2 < Len(<<Refuse>>))
      OBVIOUS
    <3>2. QED BY Zenon, <3>1 DEF ItemAfter
  <2>3. 2 \in Nat /\ 2 + 2 = 4
    OBVIOUS
  <2>4. ItemAfter(plan, 2 + 2) = ItemAfter(<<Refuse>>, 2)
    BY Zenon, <1>4, <1>7, <2>1, <2>3
  <2>5. QED BY Zenon, <1>4, <1>7, <2>1, <2>2, <2>3, <2>4
<1>8. CASE \E doc \in may : plan = take_network \o open_edited(doc)
  <2>1. PICK doc \in may : plan = take_network \o open_edited(doc)
    BY <1>8
  <2>2. 2 < Len(open_edited(doc)) /\ 2 + 1 = 3
    <3>1. Len(open_edited(doc)) = 3
      BY Zenon, <1>5
    <3>2. QED BY <3>1
  <2>3. ItemAfter(open_edited(doc), 2) = Ask("list_devices", "")
    BY Zenon, <1>5, <2>2 DEF ItemAfter
  <2>4. 2 \in Nat /\ 2 + 2 = 4
    OBVIOUS
  <2>5. ItemAfter(plan, 2 + 2) = ItemAfter(open_edited(doc), 2)
    BY Zenon, <1>4, <1>5, <2>1, <2>4
  <2>6. QED BY Zenon, <1>4, <1>5, <2>1, <2>3, <2>4, <2>5
<1>9. CASE \E doc \in may : \E rest : AllowedPlan(rest, may) /\ plan = take_network \o (open_edited(doc) \o rest)
  <2>1. PICK doc \in may : \E rest : AllowedPlan(rest, may) /\ plan = take_network \o (open_edited(doc) \o rest)
    BY <1>9
  <2>2. PICK rest : AllowedPlan(rest, may) /\ plan = take_network \o (open_edited(doc) \o rest)
    BY <2>1
  <2> DEFINE all == open_edited(doc) \o rest
  <2>3. AllowedPlan(all, may)
    BY Zenon, <1>5, <2>2, PlansJoin
  <2>4. Len(all) = 3 + Len(rest) /\ all[3] = Ask("list_devices", "") /\ Len(rest) \in Nat
    <3>1. IsSeq(rest) /\ IsSeq(open_edited(doc))
      BY Zenon, <1>5, <2>2 DEF AllowedPlan
    <3>2. Len(rest) \in Nat
      BY <3>1, SequenceLaws
    <3>3. Len(all) = Len(open_edited(doc)) + Len(rest) /\ \A k \in 1..Len(open_edited(doc)) : all[k] = open_edited(doc)[k]
      BY Zenon, <3>1, Concatenation
    <3>4. 3 \in 1..3
      OBVIOUS
    <3>5. QED BY Zenon, <1>5, <3>2, <3>3, <3>4
  <2> HIDE DEF all
  <2>5. 2 < Len(all) /\ 2 + 1 = 3
    <3> DEFINE len == Len(all)
               more == Len(rest)
    <3>1. len = 3 + more /\ more \in Nat
      BY Zenon, <2>4
    <3> HIDE DEF len, more
    <3>2. 2 < len /\ 2 + 1 = 3
      BY <3>1
    <3>3. QED BY <3>2 DEF len
  <2>6. ItemAfter(all, 2) = Ask("list_devices", "")
    BY Zenon, <2>4, <2>5 DEF ItemAfter
  <2>7. 2 \in Nat /\ 2 + 2 = 4 /\ plan = take_network \o all
    BY <2>2 DEF all
  <2>8. ItemAfter(plan, 2 + 2) = ItemAfter(all, 2)
    BY Zenon, <1>4, <2>3, <2>7
  <2>9. QED BY Zenon, <1>4, <2>3, <2>6, <2>7, <2>8
<1>10. QED BY Zenon, <1>6, <1>7, <1>8, <1>9 DEF TakesAndOpens

\* An edit leaves no power unit to take away where there were none.
LEMMA NothingStripped ==
  ASSUME NEW may, NEW before
  PROVE  AllowedPlan(strip_units(before, {}), may)
<1> DEFINE extra == SetToSeq({d \in {} \ before : d.pdu})
           last == <<Tell("fast_forward", "", <<>>)>>
           removals == [k \in DOMAIN extra |-> Must("removeDevice", extra[k].name, <<>>)]
<1>1. {d \in {} \ before : d.pdu} = {}
  OBVIOUS
<1>2. Cardinality({}) = 0 /\ 1..0 = {}
  BY FS_EmptySet
<1>3. <<>> \in [{} -> {}] /\ \A f \in [{} -> {}] : f = <<>>
  <2>1. <<>> \in Seq({}) /\ DOMAIN <<>> = {}
    OBVIOUS
  <2>2. <<>> \in [{} -> {}]
    BY <2>1
  <2>3. ASSUME NEW f \in [{} -> {}] PROVE f = <<>>
    <3>1. 0 \in Nat /\ f \in [1..0 -> {}]
      BY <1>2
    <3>2. f \in Seq({})
      BY Zenon, <3>1, AsSequence
    <3>3. DOMAIN f = {}
      OBVIOUS
    <3>4. QED BY <3>2, <3>3
  <2>4. QED BY <2>2, <2>3
<1>4. extra = <<>>
  <2>1. \E f \in [1..Cardinality({}) -> {}] : IsInjective(f)
    BY Zenon, <1>2, <1>3 DEF IsInjective
  <2>2. SetToSeq({}) \in [1..Cardinality({}) -> {}]
    BY Zenon, <2>1 DEF SetToSeq
  <2>3. QED BY Zenon, <1>1, <1>2, <1>3, <2>2
<1>5. removals = <<>>
  BY <1>4
<1>6. AllowedPlan(last, may)
  BY Zenon, Asking, PlanOfOne
<1>7. strip_units(before, {}) = removals \o last
  BY Zenon DEF strip_units
<1> HIDE DEF removals, last
<1>8. AllowedPlan(removals, may)
  BY Zenon, <1>5, NoPlan
<1>9. QED BY Zenon, <1>6, <1>7, <1>8, PlansJoin

\* The plan of an edit, as it is written down: `edited` is the network with the edit, and
\* `after` are the calls that follow.
EditPlan(seen, edited, after) ==
  LET got == SubSeq(seen, 1, Len(take_network))
      more == SubSeq(seen, Len(take_network) + 1, Len(seen))
      opening == open_edited(edited.doc)
      opened == SubSeq(more, 1, Len(opening))
      rest == SubSeq(more, Len(opening) + 1, Len(more))
      strip == strip_units(got[1].data, opened[3].data) IN
  IF Len(seen) < Len(take_network) THEN take_network
  ELSE take_network \o (IF ~edited.ok THEN <<Refuse>>
                        ELSE IF Len(more) < Len(opening) THEN opening
                        ELSE opening \o (IF Len(rest) < Len(strip) THEN strip ELSE strip \o after))

LEMMA EditCalls ==
  /\ Len(take_network) = 2
  /\ \A doc : Len(open_edited(doc)) = 3
<1>1. \A a, b, c : Len(<<a, b>>) = 2 /\ Len(<<a, b, c>>) = 3
  OBVIOUS
<1>2. QED BY Zenon, <1>1 DEF take_network, open_edited

\* The answers to the calls of an edit.
LEMMA EditAnswers ==
  ASSUME NEW seen, IsSeq(seen)
  PROVE  /\ Len(seen) >= 2 => SubSeq(seen, 1, 2)[2] = seen[2]
         /\ IsSeq(SubSeq(seen, 3, Len(seen)))
         /\ Len(seen) >= 2 => Len(SubSeq(seen, 3, Len(seen))) = Len(seen) - 2
         /\ Len(seen) >= 5 => SubSeq(SubSeq(seen, 3, Len(seen)), 1, 3)[3] = seen[5]
<1>1. PICK S : seen \in Seq(S)
  BY DEF IsSeq
<1> DEFINE more == SubSeq(seen, 3, Len(seen))
<1>2. Len(seen) >= 2 => SubSeq(seen, 1, 2)[2] = seen[2]
  BY <1>1
<1>3. more \in Seq(S)
  BY <1>1
<1>4. ASSUME Len(seen) >= 2 PROVE Len(more) = Len(seen) - 2
  <2>1. 2 \in 1..Len(seen) /\ 2 + 1 = 3
    BY <1>1, <1>4
  <2>2. Len(SubSeq(seen, 2 + 1, Len(seen))) = Len(seen) - 2
    BY Zenon, <1>1, <2>1, TwoHalves
  <2>3. QED BY Zenon, <2>1, <2>2
<1>5. Len(seen) >= 5 => more[3] = seen[5]
  BY <1>1
<1> HIDE DEF more
<1>6. ASSUME Len(seen) >= 5 PROVE SubSeq(more, 1, 3)[3] = seen[5]
  <2>1. Len(seen) \in Nat
    BY <1>1
  <2>2. Len(more) >= 3
    BY <1>4, <1>6, <2>1
  <2>3. SubSeq(more, 1, 3)[3] = more[3]
    BY <1>3, <2>2
  <2>4. QED BY <1>5, <1>6, <2>3
<1>7. IsSeq(more)
  BY Zenon, <1>3 DEF IsSeq
<1>8. QED BY <1>2, <1>4, <1>6, <1>7 DEF more

LEMMA EditPlans ==
  ASSUME NEW may, NEW seen, IsSeq(seen), NEW edited, NEW after,
         Len(seen) >= 2 /\ edited.ok => edited.doc \in may,
         Len(seen) >= 5 => seen[5].data = {} /\ AllowedPlan(after, may)
  PROVE  TakesAndOpens(EditPlan(seen, edited, after), seen, may)
<1> DEFINE got == SubSeq(seen, 1, 2)
           more == SubSeq(seen, 3, Len(seen))
           opening == open_edited(edited.doc)
           opened == SubSeq(more, 1, 3)
           rest == SubSeq(more, 4, Len(more))
           strip == strip_units(got[1].data, opened[3].data)
           plan == EditPlan(seen, edited, after)
<1>1. 2 + 1 = 3 /\ 3 + 1 = 4
  OBVIOUS
<1>2. plan = IF Len(seen) < 2 THEN take_network
             ELSE take_network \o (IF ~edited.ok THEN <<Refuse>>
                        ELSE IF Len(more) < 3 THEN opening
                        ELSE opening \o (IF Len(rest) < Len(strip) THEN strip ELSE strip \o after))
  BY Zenon, EditCalls, <1>1 DEF EditPlan
<1>3. Len(seen) \in Nat
  BY SequenceLaws
<1> HIDE DEF rest, plan
<1>4. CASE Len(seen) < 2
  BY Zenon, <1>2, <1>4 DEF TakesAndOpens, plan
<1>5. CASE Len(seen) >= 2
  <2>1. ~(Len(seen) < 2)
    BY <1>3, <1>5
  <2>2. CASE ~edited.ok
    BY Zenon, <1>2, <2>1, <2>2 DEF TakesAndOpens, plan
  <2>3. CASE edited.ok /\ Len(more) < 3
    <3>1. plan = take_network \o opening
      BY Zenon, <1>2, <2>1, <2>3
    <3>2. QED BY Zenon, <1>5, <2>3, <3>1 DEF TakesAndOpens, plan
  <2>4. CASE edited.ok /\ ~(Len(more) < 3)
    <3>1. Len(seen) >= 5
      <4>1. Len(more) = Len(seen) - 2
        BY <1>5, EditAnswers
      <4> HIDE DEF more
      <4>2. QED BY <1>3, <2>4, <4>1
    <3>2. opened[3] = seen[5]
      BY <3>1, EditAnswers
    <3>3. strip = strip_units(got[1].data, {})
      BY Zenon, <3>1, <3>2
    <3>4. AllowedPlan(strip, may)
      BY Zenon, <3>3, NothingStripped
    <3> HIDE DEF strip, more, opened, got
    <3>5. AllowedPlan(strip \o after, may)
      BY Zenon, <3>1, <3>4, PlansJoin
    <3>6. plan = take_network \o (opening \o strip) \/ plan = take_network \o (opening \o (strip \o after))
      BY Zenon, <1>2, <2>1, <2>4
    <3>7. edited.doc \in may
      BY Zenon, <1>5, <2>4
    <3>8. QED BY Zenon, <3>4, <3>5, <3>6, <3>7 DEF TakesAndOpens, plan
  <2>5. QED BY Zenon, <2>2, <2>3, <2>4
<1>6. QED BY <1>3, <1>4, <1>5

----------------------------------------------------------------------------
\* What the canvas tools ask.

\* The shape is drawn into the network that was taken.
DrawnFiles(r, seen) ==
  LET drawn == add_shape(seen[2].data, Shape(r)) IN
  {doc \in {drawn.doc} : Drawable(r) /\ Len(seen) >= 2 /\ drawn.ok}

LEMMA DrawPlans ==
  ASSUME NEW r, NEW seen, IsSeq(seen), Len(seen) >= 5 => seen[5].data = {}
  PROVE  draw(r, seen) = <<Refuse>> \/ TakesAndOpens(draw(r, seen), seen, DrawnFiles(r, seen))
<1> DEFINE edited == add_shape(SubSeq(seen, 1, Len(take_network))[2].data, Shape(r))
           may == DrawnFiles(r, seen)
<1>1. CASE ~Drawable(r)
  BY Zenon, <1>1 DEF draw
<1>2. CASE Drawable(r)
  <2>1. draw(r, seen) = EditPlan(seen, edited, <<>>)
    BY Zenon, <1>2 DEF draw, edit_saved_network, Then, EditPlan
  <2>2. ASSUME Len(seen) >= 2, edited.ok PROVE edited.doc \in may
    <3>1. edited = add_shape(seen[2].data, Shape(r))
      BY Zenon, <2>2, EditCalls, EditAnswers
    <3> HIDE DEF edited
    <3>2. QED BY Zenon, <1>2, <2>2, <3>1 DEF DrawnFiles
  <2> HIDE DEF edited, may
  <2>3. AllowedPlan(<<>>, may)
    BY Zenon, NoPlan
  <2>4. TakesAndOpens(EditPlan(seen, edited, <<>>), seen, may)
    BY Zenon, <2>2, <2>3, EditPlans
  <2>5. QED BY Zenon, <2>1, <2>4 DEF may
<1>3. QED BY <1>1, <1>2

\* What the lists are made of.
LookVals(seen) ==
  {<<>>, "circle", "rectangle", "line"} \cup UNION {{seen[k].data[j] : j \in DOMAIN seen[k].data} : k \in DOMAIN seen}

LookItems(seen) == UNION {{Tell(op, "", val) : val \in LookVals(seen)} : op \in LookOps}

LEMMA EveryLook ==
  ASSUME NEW seen
  PROVE  /\ \A op \in LookOps : \A val \in LookVals(seen) : Tell(op, "", val) \in LookItems(seen)
         /\ \A item \in LookItems(seen) : \E op \in LookOps : \E val : item = Tell(op, "", val)
<1> DEFINE V == LookVals(seen)
           Seek(op, val) == Tell(op, "", val)
           Of(op) == {Seek(op, val) : val \in V}
<1>1. LookItems(seen) = UNION {Of(op) : op \in LookOps}
  BY Zenon DEF LookItems
<1> HIDE DEF V, Seek
<1>2. \A op : \A val \in V : Seek(op, val) \in Of(op)
  OBVIOUS
<1>3. \A op : \A item \in Of(op) : \E val : item = Seek(op, val)
  OBVIOUS
<1> HIDE DEF Of
<1>4. \A op \in LookOps : \A item \in Of(op) : item \in LookItems(seen)
  BY <1>1
<1>5. \A item \in LookItems(seen) : \E op \in LookOps : item \in Of(op)
  BY <1>1
<1>6. QED BY Zenon, <1>2, <1>3, <1>4, <1>5 DEF V, Seek

LEMMA LookedUpVals ==
  ASSUME NEW seen
  PROVE  /\ {<<>>, "circle", "rectangle", "line"} \subseteq LookVals(seen)
         /\ \A k \in DOMAIN seen : \A j \in DOMAIN seen[k].data : seen[k].data[j] \in LookVals(seen)
BY DEF LookVals

LEMMA LooksAllowed ==
  ASSUME NEW may, NEW seen, NEW plan \in Seq(LookItems(seen))
  PROVE  AllowedPlan(plan, may)
<1>1. \A item \in LookItems(seen) : Allowed(item, may)
  <2>1. \A op \in LookOps : op \notin {"setIpSubnetMask", "fileOpen", "setIpv6Enabled"}
    BY DEF LookOps
  <2>2. \A op \in LookOps : \A val : Allowed(Tell(op, "", val), may)
    BY Zenon, <2>1, Asking
  <2>3. \A item \in LookItems(seen) : \E op \in LookOps : \E val : item = Tell(op, "", val)
    BY Zenon, EveryLook
  <2>4. QED BY Zenon, <2>2, <2>3
<1> DEFINE S == LookItems(seen)
<1> HIDE DEF S
<1>2. \A k \in DOMAIN plan : plan[k] \in S
  <2>1. plan \in Seq(S)
    BY DEF S
  <2>2. QED BY <2>1
<1>3. QED BY Zenon, <1>1, <1>2 DEF AllowedPlan, IsSeq, S

\* A list of answers' data, each looked up.
LEMMA EachLookedUp ==
  ASSUME NEW op \in LookOps, NEW seen, NEW k \in DOMAIN seen, IsSeq(seen[k].data)
  PROVE  [j \in DOMAIN seen[k].data |-> Tell(op, "", seen[k].data[j])] \in Seq(LookItems(seen))
<1> DEFINE data == seen[k].data
           S == LookItems(seen)
           f == [j \in DOMAIN data |-> Tell(op, "", data[j])]
<1>1. DOMAIN data = 1..Len(data) /\ Len(data) \in Nat
  BY SequenceLaws
<1>2. \A j \in DOMAIN data : Tell(op, "", data[j]) \in S
  BY Zenon, EveryLook, LookedUpVals
<1>3. f \in [DOMAIN data -> S]
  BY Zenon, <1>2
<1> HIDE DEF f, S, data
<1>4. f \in Seq(S)
  BY Zenon, <1>1, <1>3, AsSequence
<1>5. QED BY Zenon, <1>4 DEF f, S, data

LEMMA LookPlans ==
  ASSUME NEW S, NEW a \in S, NEW b \in S, NEW rest \in Seq(S)
  PROVE  /\ <<a>> \in Seq(S) /\ <<a>> \o rest \in Seq(S)
         /\ <<>> \o <<b>> \in Seq(S) /\ Len(<<>> \o <<b>>) = 1
         /\ <<a>> \o <<b>> \in Seq(S) /\ Len(<<a>> \o <<b>>) = 2
         /\ (<<>> \o <<b>>) \o rest \in Seq(S) /\ (<<a>> \o <<b>>) \o rest \in Seq(S)
<1>1. <<a>> \in Seq(S) /\ <<b>> \in Seq(S) /\ <<>> \in Seq(S)
  OBVIOUS
<1>2. Len(<<a>>) = 1 /\ Len(<<b>>) = 1 /\ Len(<<>>) = 0
  OBVIOUS
<1> DEFINE one == <<a>>
           two == <<b>>
           none == <<>>
<1> HIDE DEF one, two, none
<1>3. one \in Seq(S) /\ two \in Seq(S) /\ none \in Seq(S) /\ Len(one) = 1 /\ Len(two) = 1 /\ Len(none) = 0
  BY <1>1, <1>2 DEF one, two, none
<1>4. /\ none \o two \in Seq(S) /\ Len(none \o two) = 1
      /\ one \o two \in Seq(S) /\ Len(one \o two) = 2 /\ one \o rest \in Seq(S)
  <2>1. none \o two \in Seq(S) /\ one \o two \in Seq(S) /\ one \o rest \in Seq(S)
    BY <1>3
  <2>2. IsSeq(none) /\ IsSeq(one) /\ IsSeq(two)
    BY Zenon, <1>3 DEF IsSeq
  <2>3. Len(none \o two) = Len(none) + Len(two) /\ Len(one \o two) = Len(one) + Len(two)
    BY Zenon, <2>2, Concatenation
  <2>4. QED BY <1>3, <2>1, <2>3
<1>5. (none \o two) \o rest \in Seq(S) /\ (one \o two) \o rest \in Seq(S)
  BY <1>4
<1>6. QED BY <1>3, <1>4, <1>5 DEF one, two, none

LEMMA NotesListed ==
  ASSUME NEW r, NEW seen, IsSeq(seen), \A k \in DOMAIN seen : IsSeq(seen[k].data)
  PROVE  list_notes(r, seen) \in Seq(LookItems(seen))
<1> DEFINE S == LookItems(seen)
           a == Ask("list_links", "")
           b == Ask("getCanvasNoteIds", "")
           first == When(~r.include_port_labels, <<a>>) \o <<b>>
           got == SubSeq(seen, 1, Len(first))
           ids == got[Len(got)].data
           rest == [k \in DOMAIN ids |-> read_note(ids[k])]
<1>1. a \in S /\ b \in S
  <2>1. "list_links" \in LookOps /\ "getCanvasNoteIds" \in LookOps
    BY DEF LookOps
  <2>2. <<>> \in LookVals(seen)
    BY LookedUpVals
  <2>3. QED BY Zenon, <2>1, <2>2, EveryLook DEF Ask
<1>2. list_notes(r, seen) = IF Len(seen) < Len(first) THEN first ELSE first \o rest
  BY Zenon DEF list_notes, Then
<1>3. first = <<>> \o <<b>> \/ first = <<a>> \o <<b>>
  <2> HIDE DEF a, b
  <2>1. QED BY Zenon DEF When
<1>4. first \in Seq(S) /\ Len(first) \in 1..2
  <2> HIDE DEF S, a, b, first
  <2>1. <<>> \in Seq(S)
    OBVIOUS
  <2>2. /\ <<>> \o <<b>> \in Seq(S) /\ Len(<<>> \o <<b>>) = 1
        /\ <<a>> \o <<b>> \in Seq(S) /\ Len(<<a>> \o <<b>>) = 2
    BY Zenon, <1>1, <2>1, LookPlans
  <2>3. first \in Seq(S) /\ (Len(first) = 1 \/ Len(first) = 2)
    BY Zenon, <1>3, <2>2
  <2>4. QED BY <2>3
<1> HIDE DEF S, a, b, first, rest
<1>5. CASE Len(seen) < Len(first)
  BY Zenon, <1>2, <1>4, <1>5 DEF S
<1>6. CASE ~(Len(seen) < Len(first))
  <2> DEFINE n == Len(first)
  <2>1. DOMAIN seen = 1..Len(seen) /\ Len(seen) \in Nat
    BY SequenceLaws
  <2>2. n \in DOMAIN seen
    <3>1. n \in 1..2 /\ ~(Len(seen) < n)
      BY <1>4, <1>6
    <3> HIDE DEF n
    <3>2. QED BY <2>1, <3>1
  <2>3. got[Len(got)] = seen[n]
    <3>1. PICK V : seen \in Seq(V)
      BY DEF IsSeq
    <3>2. n \in 1..Len(seen)
      BY <2>1, <2>2
    <3> HIDE DEF n
    <3>3. Len(SubSeq(seen, 1, n)) = n
      BY <3>1, <3>2
    <3>4. SubSeq(seen, 1, n)[n] = seen[n]
      BY <3>1, <3>2
    <3>5. QED BY Zenon, <3>3, <3>4 DEF n
  <2>4. rest = [j \in DOMAIN seen[n].data |-> Tell("read_note", "", seen[n].data[j])]
    BY Zenon, <2>3 DEF rest, read_note
  <2>5. "read_note" \in LookOps /\ IsSeq(seen[n].data)
    BY <2>2 DEF LookOps
  <2> HIDE DEF n
  <2>6. rest \in Seq(S)
    BY Zenon, <2>2, <2>4, <2>5, EachLookedUp DEF S
  <2>7. QED BY Zenon, <1>1, <1>2, <1>3, <1>6, <2>6, LookPlans DEF S
<1>7. QED BY <1>5, <1>6

LEMMA DrawingsListed ==
  ASSUME NEW seen, IsSeq(seen), \A k \in DOMAIN seen : IsSeq(seen[k].data)
  PROVE  list_drawings(seen) \in Seq(LookItems(seen))
<1> DEFINE S == LookItems(seen)
           n == Len(seen)
           kinds == <<"circle", "rectangle", "line">>
           got(used) == SubSeq(seen, used + 1, n)
           ids(used) == SubSeq(got(used), 1, Len(<<ids_of("circle")>>))
           one(k, used) == IF Len(got(used)) < Len(<<ids_of(kinds[k])>>) THEN <<ids_of(kinds[k])>>
                           ELSE <<ids_of(kinds[k])>> \o positions(SubSeq(got(used), 1, Len(<<ids_of(kinds[k])>>))[1].data)
           plans == [k \in 1..Len(kinds) |-> [used \in 0..n |-> one(k, used)]]
<1>1. list_drawings(seen) = Joined(plans, n)
  BY Zenon DEF list_drawings, InTurn, Then
<1>2. DOMAIN seen = 1..n /\ n \in Nat
  BY SequenceLaws
<1>3. Len(kinds) = 3 /\ \A k \in 1..3 : kinds[k] \in {"circle", "rectangle", "line"}
  OBVIOUS
<1>4. \A k \in 1..3 : ids_of(kinds[k]) \in S
  <2>1. "getCanvasIds" \in LookOps
    BY DEF LookOps
  <2> HIDE DEF kinds
  <2>2. \A k \in 1..3 : kinds[k] \in LookVals(seen)
    BY <1>3, LookedUpVals
  <2>3. QED BY Zenon, <2>1, <2>2, EveryLook DEF ids_of
<1>5. ASSUME NEW k \in 1..3, NEW used \in 0..n
      PROVE  one(k, used) \in Seq(S)
  <2> DEFINE item == ids_of(kinds[k])
  <2>1. Len(<<item>>) = 1
    OBVIOUS
  <2>2. one(k, used) = IF Len(got(used)) < 1 THEN <<item>>
                       ELSE <<item>> \o positions(SubSeq(got(used), 1, 1)[1].data)
    BY Zenon, <2>1
  <2>3. item \in S
    BY Zenon, <1>4
  <2> HIDE DEF item, S
  <2>4. CASE Len(got(used)) < 1
    BY <2>2, <2>3, <2>4
  <2>5. CASE ~(Len(got(used)) < 1)
    <3>1. used + 1 \in 1..n /\ SubSeq(got(used), 1, 1)[1] = seen[used + 1]
      <4>1. PICK V : seen \in Seq(V)
        BY DEF IsSeq
      <4>2. got(used) \in Seq(V)
        BY <4>1
      <4>3. used + 1 <= n
        BY <2>5, <4>1
      <4>4. got(used)[1] = seen[used + 1]
        BY <4>1, <4>3
      <4>5. Len(got(used)) >= 1
        BY <2>5, <4>2
      <4> HIDE DEF got
      <4>6. SubSeq(got(used), 1, 1)[1] = got(used)[1]
        BY <4>2, <4>5
      <4>7. QED BY <1>2, <4>3, <4>4, <4>6
    <3> DEFINE at == used + 1
    <3>2. "position" \in LookOps /\ IsSeq(seen[at].data) /\ at \in DOMAIN seen
      BY <1>2, <3>1 DEF LookOps
    <3> DEFINE rest == positions(seen[at].data)
    <3>3. rest = [j \in DOMAIN seen[at].data |-> Tell("position", "", seen[at].data[j])]
      BY Zenon DEF positions
    <3> HIDE DEF at
    <3>4. rest \in Seq(S)
      BY Zenon, <3>2, <3>3, EachLookedUp DEF S
    <3>5. one(k, used) = <<item>> \o rest
      BY Zenon, <2>2, <2>5, <3>1 DEF at
    <3> HIDE DEF rest
    <3>6. QED BY Zenon, <2>3, <3>4, <3>5, LookPlans
  <2>6. QED BY <2>4, <2>5
<1>6. /\ Len(plans) = 3
      /\ \A k \in 1..3 : \A used \in 0..n : plans[k][used] = one(k, used)
  <2> HIDE DEF one, n
  <2>1. plans = [k \in 1..3 |-> [used \in 0..n |-> one(k, used)]]
    BY Zenon, <1>3
  <2> DEFINE P == {plans[k] : k \in 1..3}
             K == 1..3
             L == 0..n
  <2> HIDE DEF plans, kinds
  <2>2. \A k \in K : \A used \in L : plans[k][used] = one(k, used)
    BY Zenon, <2>1 DEF K, L
  <2>3. plans \in [1..3 -> P]
    BY Zenon, <2>1
  <2>4. DOMAIN plans = 1..3
    BY <2>1
  <2>5. plans \in Seq(P)
    <3>1. 3 \in Nat
      OBVIOUS
    <3> HIDE DEF P
    <3>2. QED BY Zenon, <2>3, <3>1, AsSequence
  <2>6. Len(plans) = 3
    <3> HIDE DEF P
    <3> QED BY <2>4, <2>5
  <2>7. QED BY <2>2, <2>6 DEF K, L
<1> HIDE DEF plans, one, S, n, kinds
<1>7. 3 \in Nat
  OBVIOUS
<1>8. Joined(plans, n) \in Seq(S)
  BY Zenon, <1>2, <1>5, <1>6, <1>7, JoinedIsList
<1>9. QED BY Zenon, <1>1, <1>8 DEF S

LEMMA NotesPlan ==
  ASSUME NEW may, NEW r, NEW seen, IsSeq(seen)
  PROVE  AllowedPlan(add_note(r, seen), may) /\ AllowedPlan(remove_note(r), may) /\ AllowedPlan(remove_drawing(r), may)
<1> DEFINE first == Check(r.text # "") \o <<Ask("getIncNoteZOrder", ""), Tell("addNote", "", r)>>
           got == SubSeq(seen, 1, Len(first))
           rest == <<read_note(got[2].data)>>
<1>1. AllowedPlan(first, may)
  <2>1. AllowedPlan(<<Ask("getIncNoteZOrder", ""), Tell("addNote", "", r)>>, may)
    BY Zenon, Asking, PlanOfTwo
  <2>2. QED BY Zenon, <2>1, CheckAllowed, PlansJoin
<1>2. AllowedPlan(rest, may)
  BY Zenon, Asking, PlanOfOne DEF read_note
<1>3. add_note(r, seen) = first \/ add_note(r, seen) = first \o rest
  BY Zenon DEF add_note, Then
<1> HIDE DEF first, rest
<1>4. AllowedPlan(add_note(r, seen), may)
  BY Zenon, <1>1, <1>2, <1>3, PlansJoin
<1>5. AllowedPlan(<<Must("removeCanvasItem", "", r.id)>>, may)
  BY Zenon, Asking, PlanOfOne
<1>6. QED BY Zenon, <1>4, <1>5 DEF remove_note, remove_drawing

LEMMA ScreenshotPlan ==
  ASSUME NEW may, NEW r, r.view \in {"logical", "window", "physical", "physical_rack"}, NEW seen
  PROVE  AllowedPlan(screenshot(r, seen), may)
<1>1. AllowedPlan(<<Refuse>>, may)
  BY Zenon, RefusingAllowed, PlanOfOne
<1>2. AllowedPlan(write(r), may)
  BY Zenon, Asking, PlanOfOne, PlanIf DEF write
<1>3. AllowedPlan(<<Ask("getWorkspaceImage", "")>>, may) /\ AllowedPlan(<<Must("capture_window", "", <<>>)>>, may)
  BY Zenon, Asking, PlanOfOne
<1>4. ASSUME NEW place \in {"switchToTopView", "switchToHomeRack"},
             screenshot(r, seen) = InPhysical(place, seen, LAMBDA rest : write(r))
      PROVE  AllowedPlan(screenshot(r, seen), may)
  <2> DEFINE first == <<Ask("isPhysicalMode", "")>>
             was == SubSeq(seen, 1, Len(first))
             more == SubSeq(seen, Len(first) + 1, Len(seen))
             there == physical(place, was[1].is)
             got == SubSeq(more, 1, Len(there))
             rest == SubSeq(more, Len(there) + 1, Len(more))
             back == go_back(was[1].is)
             last == IF got[Len(got)].is # "ok" THEN <<Refuse>> ELSE write(r)
  <2>1. screenshot(r, seen) \in {first, first \o there, first \o (there \o back), first \o (there \o (back \o last))}
    BY Zenon, <1>4 DEF InPhysical, Then
  <2>2. AllowedPlan(first, may)
    BY Zenon, Asking, PlanOfOne
  <2>3. AllowedPlan(there, may)
    <3>1. AllowedPlan(When(was[1].is = "no", <<Ask("showPhysicalMode", "")>>), may)
      BY Zenon, Asking, PlanOfOne, PlanIf
    <3>2. place \notin {"setIpSubnetMask", "fileOpen", "setIpv6Enabled"}
      OBVIOUS
    <3>3. AllowedPlan(<<Ask(place, ""), capture_window>>, may)
      BY Zenon, <3>2, Asking, PlanOfTwo DEF capture_window
    <3>4. QED BY Zenon, <3>1, <3>3, PlansJoin DEF physical
  <2>4. AllowedPlan(back, may)
    BY Zenon, Asking, PlanOfOne, PlanIf DEF go_back
  <2>5. AllowedPlan(last, may)
    BY Zenon, <1>1, <1>2
  <2> HIDE DEF first, there, back, last
  <2>6. AllowedPlan(back \o last, may)
    BY Zenon, <2>4, <2>5, PlansJoin
  <2>7. AllowedPlan(there \o back, may) /\ AllowedPlan(there \o (back \o last), may)
    BY Zenon, <2>3, <2>4, <2>6, PlansJoin
  <2>8. AllowedPlan(first \o there, may) /\ AllowedPlan(first \o (there \o back), may)
        /\ AllowedPlan(first \o (there \o (back \o last)), may)
    BY Zenon, <2>2, <2>3, <2>7, PlansJoin
  <2>9. QED BY Zenon, <2>1, <2>2, <2>8
<1>5. CASE r.save_to = "relative"
  BY Zenon, <1>1, <1>5 DEF screenshot
<1>6. CASE r.save_to # "relative" /\ r.view = "logical"
  <2>1. screenshot(r, seen) = <<Ask("getWorkspaceImage", "")>> \o write(r)
    BY Zenon, <1>6 DEF screenshot
  <2>2. QED BY Zenon, <1>2, <1>3, <2>1, PlansJoin
<1>7. CASE r.save_to # "relative" /\ r.view = "window"
  <2>1. screenshot(r, seen) = <<Must("capture_window", "", <<>>)>> \o write(r)
    BY Zenon, <1>7 DEF screenshot
  <2>2. QED BY Zenon, <1>2, <1>3, <2>1, PlansJoin
<1>8. CASE r.save_to # "relative" /\ r.view = "physical"
  <2>1. screenshot(r, seen) = InPhysical("switchToTopView", seen, LAMBDA rest : write(r))
    BY Zenon, <1>8 DEF screenshot
  <2>2. QED BY Zenon, <1>4, <2>1
<1>9. CASE r.save_to # "relative" /\ r.view = "physical_rack"
  <2>1. screenshot(r, seen) = InPhysical("switchToHomeRack", seen, LAMBDA rest : write(r))
    BY Zenon, <1>9 DEF screenshot
  <2>2. QED BY Zenon, <1>4, <2>1
<1>10. QED BY Zenon, <1>5, <1>6, <1>7, <1>8, <1>9

\* What a call has been answered that its plan depends on.
CanvasHeard(c, noted) ==
  /\ c.req.tool \in {"list_notes", "list_drawings"} => \A k \in DOMAIN c.seen : IsSeq(c.seen[k].data)
  /\ c.req.tool = "draw" =>
       /\ Len(c.seen) >= 2 => CanvasFits(c.seen[2].data) /\ c.seen[2].data.noted <= noted
       /\ Len(c.seen) >= 5 => c.seen[5].data = {}

CanvasCalls(p, calls) == \A t \in Tasks : CanvasHeard(calls[t], p.noted)

\* Whatever a canvas tool has been answered, the file it opens is one that fits.
LEMMA CanvasPlans ==
  ASSUME "canvas" \in DOMAIN Asks, NEW c, ToolCallFits("canvas", c), c.on, NEW noted, CanvasHeard(c, noted)
  PROVE  /\ c.next.op = "fileOpen" => CanvasFits(c.next.val) /\ c.next.val.noted <= noted
         /\ c.req.tool \in {"list_notes", "list_drawings"} =>
              c.next = Idle.next \/ \E op \in LookOps : \E val : c.next = Tell(op, "", val)
         /\ c.req.tool = "draw" =>
              /\ Len(c.seen) = 1 => c.next \in {Ask("fileSaveToBytes", ""), Idle.next}
              /\ Len(c.seen) = 4 => c.next \in {Ask("list_devices", ""), Idle.next}
<1> DEFINE r == c.req
           seen == c.seen
           n == Len(seen)
           plan == CanvasPlan(r, seen)
<1>1. r \in Asks["canvas"] /\ IsSeq(seen) /\ c.next = ItemAfter(plan, n)
  BY Zenon DEF ToolCallFits, PlanIn
<1>2. n \in Nat
  BY Zenon, <1>1, SequenceLaws
<1>3. r.tool \in {"add_note", "list_notes", "remove_note", "draw", "list_drawings", "remove_drawing", "screenshot"}
  BY Zenon, <1>1, AsksAssumption
<1>4. ASSUME AllowedPlan(plan, {}) PROVE ~(c.next.op = "fileOpen")
  <2>1. Allowed(c.next, {})
    BY Zenon, <1>1, <1>2, <1>4, NextAllowed
  <2>2. QED BY Zenon, <2>1 DEF Allowed
<1>5. CASE r.tool \in {"list_notes", "list_drawings"}
  <2> DEFINE S == LookItems(seen)
  <2>1. plan \in Seq(S)
    <3>1. \A k \in DOMAIN seen : IsSeq(seen[k].data)
      BY Zenon, <1>5 DEF CanvasHeard
    <3>2. plan = list_notes(r, seen) \/ plan = list_drawings(seen)
      BY Zenon, <1>5 DEF CanvasPlan
    <3>3. QED BY Zenon, <1>1, <3>1, <3>2, NotesListed, DrawingsListed
  <2>2. ~(c.next.op = "fileOpen")
    BY Zenon, <1>4, <2>1, LooksAllowed
  <2>3. c.next = Idle.next \/ c.next \in S
    <3> HIDE DEF S, plan, n
    <3>1. n < Len(plan) => n + 1 \in DOMAIN plan
      BY <1>2, <2>1
    <3>2. n < Len(plan) => plan[n + 1] \in S
      BY <2>1, <3>1
    <3>3. QED BY Zenon, <1>1, <3>2 DEF ItemAfter
  <2>4. ~(r.tool = "draw")
    BY <1>5
  <2>5. QED BY Zenon, <2>2, <2>3, <2>4, EveryLook
<1>6. CASE r.tool = "draw"
  <2> DEFINE may == DrawnFiles(r, seen)
             drawn == add_shape(seen[2].data, Shape(r))
  <2>1. plan = draw(r, seen)
    BY Zenon, <1>6 DEF CanvasPlan
  <2>2. plan = <<Refuse>> \/ TakesAndOpens(plan, seen, may)
    BY Zenon, <1>1, <1>6, <2>1, DrawPlans DEF CanvasHeard
  <2>3. AllowedPlan(<<Refuse>>, may)
    BY Zenon, RefusingAllowed, PlanOfOne
  <2>4. Allowed(c.next, may)
    <3>1. AllowedPlan(plan, may)
      BY Zenon, <2>2, <2>3, EditsAllowed
    <3>2. QED BY Zenon, <1>1, <1>2, <3>1, NextAllowed
  <2>5. ASSUME c.next.op = "fileOpen" PROVE CanvasFits(c.next.val) /\ c.next.val.noted <= noted
    <3>1. c.next.val \in may
      BY Zenon, <2>4, <2>5 DEF Allowed
    <3>2. c.next.val = drawn.doc /\ Drawable(r) /\ n >= 2 /\ drawn.ok
      BY Zenon, <3>1 DEF DrawnFiles
    <3>3. CanvasFits(seen[2].data) /\ seen[2].data.noted <= noted
      BY Zenon, <1>6, <3>2 DEF CanvasHeard
    <3>4. InOrder(Shape(r))
      <4>1. r.shape \in {"circle", "rectangle", "line"} /\ {r.x, r.y} \subseteq Int
            /\ r.radius \in Seq(Int) /\ r.to \in Seq(Int \X Int)
        BY Zenon, <1>1, <1>6, AsksAssumption
      <4>2. Drawable(r)
        BY Zenon, <3>2
      <4> HIDE DEF r
      <4>3. QED BY <4>1, <4>2, ShapesInOrder
    <3> HIDE DEF r, seen
    <3>5. CanvasFits(drawn.doc) /\ drawn.doc.noted = seen[2].data.noted
      BY Zenon, <3>2, <3>3, <3>4, ShapeAdded
    <3> HIDE DEF drawn
    <3>6. QED BY Zenon, <3>2, <3>3, <3>5
  <2>6. ASSUME n \in {1, 4} PROVE ItemAfter(<<Refuse>>, n) = Idle.next
    <3>1. Len(<<Refuse>>) = 1
      OBVIOUS
    <3> HIDE DEF n
    <3>2. ~(n < Len(<<Refuse>>))
      BY <2>6, <3>1
    <3>3. QED BY Zenon, <3>2 DEF ItemAfter
  <2>7. n = 1 => c.next \in {Ask("fileSaveToBytes", ""), Idle.next}
    BY Zenon, <1>1, <2>2, <2>6, EditsAllowed
  <2>8. n = 4 => c.next \in {Ask("list_devices", ""), Idle.next}
    BY Zenon, <1>1, <2>2, <2>6, EditsAllowed
  <2>9. ~(r.tool \in {"list_notes", "list_drawings"})
    BY <1>6
  <2>10. QED BY Zenon, <2>5, <2>7, <2>8, <2>9
<1>7. CASE r.tool \in {"add_note", "remove_note", "remove_drawing", "screenshot"}
  <2>1. plan \in {add_note(r, seen), remove_note(r), remove_drawing(r)} \/ (r.tool = "screenshot" /\ plan = screenshot(r, seen))
    BY Zenon, <1>7 DEF CanvasPlan
  <2>2. r.tool = "screenshot" => r.view \in {"logical", "window", "physical", "physical_rack"}
    BY Zenon, <1>1, AsksAssumption
  <2>3. AllowedPlan(plan, {})
    <3>1. IsSeq(seen)
      BY Zenon, <1>1
    <3> HIDE DEF plan, r, seen
    <3>2. /\ AllowedPlan(add_note(r, seen), {}) /\ AllowedPlan(remove_note(r), {}) /\ AllowedPlan(remove_drawing(r), {})
      BY Zenon, <3>1, NotesPlan
    <3>3. r.tool = "screenshot" => AllowedPlan(screenshot(r, seen), {})
      BY <2>2, ScreenshotPlan
    <3>4. QED BY Zenon, <2>1, <3>2, <3>3
  <2>4. ~(r.tool \in {"list_notes", "list_drawings"}) /\ ~(r.tool = "draw")
    BY <1>7
  <2>5. QED BY Zenon, <1>4, <2>3, <2>4
<1>8. QED BY Zenon, <1>3, <1>5, <1>6, <1>7

\* What the items of the plans above let through, and that they are not passed over.
LEMMA ItemsAsk ==
  ASSUME NEW op, NEW at, NEW val
  PROVE  Tell(op, at, val).op = op /\ Tell(op, at, val).need = {"ok", "yes", "no"} /\ ~Tell(op, at, val).soft
BY Zenon DEF Tell, Item

LEMMA NoneIsAsked == Idle.next.need = {} /\ ~Idle.next.soft
BY Zenon DEF Idle, Item

LEMMA OneAnswerMore ==
  ASSUME NEW c, IsSeq(c.seen), NEW d, NEW reply, Hears(c, d, reply)
  PROVE  /\ d.req = c.req /\ Len(c.seen) \in Nat /\ Len(d.seen) = Len(c.seen) + 1
         /\ \A k \in 1..Len(c.seen) : d.seen[k] = c.seen[k]
         /\ d.seen[Len(c.seen) + 1] = reply
         /\ DOMAIN c.seen = 1..Len(c.seen) /\ DOMAIN d.seen = 1..(Len(c.seen) + 1)
<1>1. d.seen = Append(c.seen, reply) /\ d.req = c.req
  BY Zenon DEF Hears
<1>2. Len(c.seen) \in Nat /\ DOMAIN c.seen = 1..Len(c.seen)
  BY SequenceLaws
<1> DEFINE seen == Append(c.seen, reply)
           n == Len(c.seen)
<1>3. IsSeq(seen) /\ Len(seen) = n + 1 /\ (\A k \in 1..n : seen[k] = c.seen[k]) /\ seen[n + 1] = reply
  BY Zenon, OneMoreAtEnd
<1> HIDE DEF seen, n
<1>4. DOMAIN seen = 1..Len(seen)
  BY <1>3, SequenceLaws
<1>5. QED BY Zenon, <1>1, <1>2, <1>3, <1>4 DEF seen, n

LEMMA HeardMore ==
  ASSUME NEW c, IsSeq(c.seen), NEW d, NEW reply, Hears(c, d, reply),
         NEW noted \in Nat, NEW more \in Nat, noted <= more, CanvasHeard(c, noted),
         c.req.tool \in {"list_notes", "list_drawings"} => IsSeq(reply.data),
         c.req.tool = "draw" /\ Len(c.seen) = 1 => CanvasFits(reply.data) /\ reply.data.noted <= more,
         c.req.tool = "draw" /\ Len(c.seen) = 4 => reply.data = {}
  PROVE  CanvasHeard(d, more)
<1> DEFINE n == Len(c.seen)
<1>1. /\ d.req = c.req /\ n \in Nat /\ Len(d.seen) = n + 1
      /\ \A k \in 1..n : d.seen[k] = c.seen[k]
      /\ d.seen[n + 1] = reply
      /\ DOMAIN c.seen = 1..n /\ DOMAIN d.seen = 1..(n + 1)
  BY Zenon, OneAnswerMore
<1> HIDE DEF n
<1>2. ASSUME c.req.tool \in {"list_notes", "list_drawings"}, NEW k \in DOMAIN d.seen
      PROVE  IsSeq(d.seen[k].data)
  <2>1. k \in DOMAIN c.seen \/ k = n + 1
    BY <1>1
  <2>2. QED BY Zenon, <1>1, <1>2, <2>1 DEF CanvasHeard
<1>3. ASSUME c.req.tool = "draw", n + 1 >= 2
      PROVE  CanvasFits(d.seen[2].data) /\ d.seen[2].data.noted <= more
  <2>1. CASE n = 1
    <3>1. d.seen[2] = reply
      BY <1>1, <2>1
    <3>2. QED BY Zenon, <1>3, <2>1, <3>1 DEF n
  <2>2. CASE n >= 2
    <3>1. d.seen[2] = c.seen[2]
      BY <1>1, <2>2
    <3>2. CanvasFits(c.seen[2].data) /\ c.seen[2].data.noted <= noted
      BY Zenon, <1>3, <2>2 DEF CanvasHeard, n
    <3>3. c.seen[2].data.noted \in Nat
      BY Zenon, <3>2 DEF CanvasFits
    <3>4. c.seen[2].data.noted <= more
      BY <3>2, <3>3
    <3>5. QED BY Zenon, <3>1, <3>2, <3>4
  <2>3. QED BY <1>1, <1>3, <2>1, <2>2
<1>4. ASSUME c.req.tool = "draw", n + 1 >= 5
      PROVE  d.seen[5].data = {}
  <2>1. CASE n = 4
    <3>1. d.seen[5] = reply
      BY <1>1, <2>1
    <3>2. QED BY Zenon, <1>4, <2>1, <3>1 DEF n
  <2>2. CASE n >= 5
    <3>1. d.seen[5] = c.seen[5]
      BY <1>1, <2>2
    <3>2. QED BY Zenon, <1>4, <2>2, <3>1 DEF CanvasHeard, n
  <2>3. QED BY <1>1, <1>4, <2>1, <2>2
<1>5. QED BY Zenon, <1>1, <1>2, <1>3, <1>4 DEF CanvasHeard

LEMMA NothingHeard ==
  ASSUME NEW c, c.seen = <<>>, NEW noted
  PROVE  CanvasHeard(c, noted)
<1>1. DOMAIN <<>> = {} /\ ~(Len(<<>>) >= 2) /\ ~(Len(<<>>) >= 5)
  OBVIOUS
<1>2. QED BY Zenon, <1>1 DEF CanvasHeard

LEMMA CanvasKept ==
  ASSUME pt.part = "canvas", "canvas" \in DOMAIN Asks, CanvasFits(pt), ToolCallsFit(pt.part, toolcall),
         CanvasCalls(pt, toolcall), [ToolNext]_toolvars
  PROVE  CanvasFits(pt') /\ CanvasCalls(pt', toolcall')
<1>1. ASSUME NEW t \in Tasks, AtWork(t)
      PROVE  /\ ToolCallFits("canvas", toolcall[t]) /\ toolcall[t].on /\ CanvasHeard(toolcall[t], pt.noted)
             /\ Opens(toolcall[t].next, pt)
             /\ Answer(pt, toolcall[t].next) = CanvasAnswer(pt, toolcall[t].next)
  <2>1. ToolCallFits("canvas", toolcall[t]) /\ toolcall[t].on /\ CanvasHeard(toolcall[t], pt.noted)
    BY Zenon, <1>1 DEF ToolCallsFit, CanvasCalls, AtWork
  <2>2. Opens(toolcall[t].next, pt)
    BY Zenon, <2>1, CanvasPlans DEF Opens
  <2>3. Answer(pt, toolcall[t].next) = CanvasAnswer(pt, toolcall[t].next)
    BY Zenon DEF Answer
  <2>4. QED BY <2>1, <2>2, <2>3
<1>2. CanvasFits(pt') /\ pt.noted <= pt'.noted
  <2>1. ASSUME NEW t \in Tasks, AtWork(t)
        PROVE  CanvasFits(Answer(pt, toolcall[t].next).pt) /\ pt.noted <= Answer(pt, toolcall[t].next).pt.noted
    <3> DEFINE item == toolcall[t].next
    <3>1. Opens(item, pt) /\ Answer(pt, item) = CanvasAnswer(pt, item)
      BY Zenon, <1>1, <2>1
    <3> HIDE DEF item
    <3>2. CanvasFits(CanvasAnswer(pt, item).pt) /\ pt.noted <= CanvasAnswer(pt, item).pt.noted
      BY Zenon, <3>1, CanvasAnswers
    <3>3. QED BY Zenon, <3>1, <3>2 DEF item
  <2>2. Settled(pt) = {}
    BY Zenon DEF Settled
  <2>3. pt.noted <= pt.noted
    BY DEF CanvasFits
  <2>4. \/ pt' = pt
        \/ pt' \in Settled(pt)
        \/ \E t \in Tasks : AtWork(t) /\ pt' = Answer(pt, toolcall[t].next).pt
    BY Zenon, StepsAreAnswers
  <2>5. CASE pt' \in Settled(pt)
    BY <2>2, <2>5
  <2>6. QED BY Zenon, <2>1, <2>3, <2>4, <2>5
<1>3. ToolCallsFit(pt.part, toolcall') /\ \A o \in Tasks : CallMoves(o)
  BY Zenon, ToolCallsKept DEF Planned
<1>4. pt.noted \in Nat /\ pt'.noted \in Nat
  BY Zenon, <1>2 DEF CanvasFits
<1>5. ASSUME NEW t \in Tasks
      PROVE  CanvasHeard(toolcall'[t], pt'.noted)
  <2> DEFINE c == toolcall[t]
             d == toolcall'[t]
             item == c.next
             answer == Answer(pt, item)
  <2>1. CanvasHeard(c, pt.noted) /\ IsSeq(c.seen)
    BY Zenon DEF CanvasCalls, ToolCallsFit, ToolCallFits
  <2>2. CASE CallEnds(t) \/ CallBegins(t)
    <3>1. d.seen = <<>>
      BY Zenon, <1>3, <2>2 DEF ToolCallsFit, ToolCallFits, CallEnds, CallBegins
    <3>2. QED BY Zenon, <3>1, NothingHeard
  <2>3. CASE Same(c, d)
    <3>1. d.req = c.req /\ d.seen = c.seen
      BY Zenon, <2>3 DEF Same
    <3>2. ASSUME c.req.tool = "draw", Len(c.seen) >= 2 PROVE CanvasFits(c.seen[2].data) /\ c.seen[2].data.noted <= pt'.noted
      <4>1. CanvasFits(c.seen[2].data) /\ c.seen[2].data.noted <= pt.noted
        BY Zenon, <2>1, <3>2 DEF CanvasHeard
      <4>2. c.seen[2].data.noted \in Nat
        BY Zenon, <4>1 DEF CanvasFits
      <4> DEFINE x == c.seen[2].data.noted
                 y == pt.noted
                 z == pt'.noted
      <4>3. x \in Nat /\ y \in Nat /\ z \in Nat /\ x <= y /\ y <= z
        BY Zenon, <1>2, <1>4, <4>1, <4>2
      <4> HIDE DEF x, y, z
      <4>4. x <= z
        BY <4>3
      <4>5. QED BY Zenon, <4>1, <4>4 DEF x, z
    <3>3. QED BY Zenon, <2>1, <3>1, <3>2 DEF CanvasHeard
  <2>4. ASSUME AtWork(t), NEW reply, Hears(c, d, reply),
               item # Idle.next => \A op, at, val : item = Tell(op, at, val) =>
                 /\ op \in LookOps => IsSeq(reply.data)
                 /\ op = "fileSaveToBytes" => reply.data = pt
                 /\ op = "list_devices" => reply.data = {},
               item # Idle.next
        PROVE  CanvasHeard(d, pt'.noted)
    <3>1. /\ c.req.tool \in {"list_notes", "list_drawings"} =>
               c.next = Idle.next \/ \E op \in LookOps : \E val : c.next = Tell(op, "", val)
          /\ c.req.tool = "draw" =>
               /\ Len(c.seen) = 1 => c.next \in {Ask("fileSaveToBytes", ""), Idle.next}
               /\ Len(c.seen) = 4 => c.next \in {Ask("list_devices", ""), Idle.next}
      BY Zenon, <1>1, <2>4, CanvasPlans
    <3>2. c.req.tool \in {"list_notes", "list_drawings"} => IsSeq(reply.data)
      BY Zenon, <2>4, <3>1
    <3>3. c.req.tool = "draw" /\ Len(c.seen) = 1 => CanvasFits(reply.data) /\ reply.data.noted <= pt'.noted
      BY Zenon, <1>2, <2>4, <3>1 DEF Ask
    <3>4. c.req.tool = "draw" /\ Len(c.seen) = 4 => reply.data = {}
      BY Zenon, <2>4, <3>1 DEF Ask
    <3> DEFINE noted == pt.noted
               more == pt'.noted
    <3>5. noted \in Nat /\ more \in Nat /\ noted <= more
      BY Zenon, <1>2, <1>4
    <3> HIDE DEF noted, more, c, d, item
    <3>6. CanvasHeard(d, more)
      BY Zenon, <2>1, <2>4, <3>2, <3>3, <3>4, <3>5, HeardMore DEF noted, more
    <3>7. QED BY <3>6 DEF d, more
  <2>5. CASE CallHears(t)
    <3>1. AtWork(t) /\ answer.is \in item.need /\ Hears(c, d, Told(answer))
      BY Zenon, <2>5 DEF CallHears
    <3>2. answer = CanvasAnswer(pt, item)
      BY Zenon, <1>1, <3>1
    <3>3. item # Idle.next
      BY Zenon, <3>1, NoneIsAsked
    <3>4. \A op, at, val : item = Tell(op, at, val) =>
            /\ op \in LookOps => IsSeq(answer.data)
            /\ op = "fileSaveToBytes" => answer.data = pt
            /\ op = "list_devices" => answer.data = {}
      <4>1. ASSUME NEW op, NEW at, NEW val, item = Tell(op, at, val) PROVE item.op = op /\ ~(answer.is = "missing")
        <5>1. Tell(op, at, val).op = op /\ Tell(op, at, val).need = {"ok", "yes", "no"}
          BY Zenon DEF Tell, Item
        <5> HIDE DEF item, answer
        <5>2. item.op = op /\ answer.is \in {"ok", "yes", "no"}
          BY Zenon, <3>1, <4>1, <5>1
        <5>3. QED BY <5>2
      <4>2. /\ item.op = "list_devices" => answer.data = {}
            /\ item.op = "fileSaveToBytes" => answer.data = pt
            /\ item.op \in LookOps => answer.is = "missing" \/ IsSeq(answer.data)
        <5> HIDE DEF item, answer
        <5>1. QED BY Zenon, <3>2, CanvasReplies
      <4> HIDE DEF item, answer
      <4>3. QED BY Zenon, <4>1, <4>2
    <3>5. Told(answer).data = answer.data
      BY DEF Told
    <3> DEFINE reply == Told(answer)
    <3> HIDE DEF reply, answer
    <3>6. Hears(c, d, reply) /\ reply.data = answer.data
      BY <3>1, <3>5 DEF reply
    <3>7. QED BY Zenon, <2>4, <3>1, <3>3, <3>4, <3>6
  <2>6. CASE CallMisses(t)
    <3> DEFINE reply == [is |-> "lost", data |-> ""]
    <3>1. AtWork(t) /\ item.soft /\ Hears(c, d, reply)
      BY Zenon, <2>6 DEF CallMisses
    <3>2. item # Idle.next /\ \A op, at, val : item # Tell(op, at, val)
      <4>1. \A op, at, val : ~Tell(op, at, val).soft
        BY Zenon, ItemsAsk
      <4> HIDE DEF item
      <4>2. QED BY Zenon, <3>1, <4>1, NoneIsAsked
    <3> HIDE DEF reply
    <3>3. QED BY Zenon, <2>4, <3>1, <3>2
  <2>7. QED BY Zenon, <1>3, <2>2, <2>3, <2>5, <2>6 DEF CallMoves
<1>6. QED BY Zenon, <1>2, <1>5 DEF CanvasCalls

----------------------------------------------------------------------------
\* The wireless network.

\* The pairs of types that some security allows with the key.
Wired(key) == UNION {wire(s, key) : s \in {"open", "wep", "wpa_psk", "wpa2_psk"}}

ProfilesFit(profile) == DOMAIN profile = Clients /\ \A c \in Clients : profile[c].types \in Wired(profile[c].key)

\* A network with its access points, also in a file.
WirelessFits(p) ==
  /\ {"part", "open", "at", "radio", "profile", "associated", "hosts"} \subseteq DOMAIN p
  /\ p.part = "wireless" /\ PortsFit(p.hosts) /\ ProfilesFit(p.profile)
  /\ \A c \in Clients : p.associated[c] \in AccessPoints \cup {NoAp}

LEMMA WirelessFitsIsSound ==
  ASSUME NEW p, WirelessFits(p)
  PROVE  WirelessSound(p)
BY Zenon, PortsAreSound DEF WirelessFits, ProfilesFit, Wired, WirelessSound

\* A client takes an access point it can reach, or none.
LEMMA AssociationsFit ==
  ASSUME NEW p, WirelessFits(p)
  PROVE  WirelessFits(associate(p))
<1> DEFINE taken == [c \in Clients |-> IF Reachable(p, c) = {} THEN NoAp ELSE CHOOSE a \in Reachable(p, c) : TRUE]
           q == [p EXCEPT !.associated = taken]
<1>1. \A c : Reachable(p, c) \subseteq AccessPoints
  BY DEF Reachable
<1>2. \A c \in Clients : taken[c] \in AccessPoints \cup {NoAp}
  BY <1>1
<1> HIDE DEF taken
<1>3. /\ {"part", "open", "at", "radio", "profile", "associated", "hosts"} \subseteq DOMAIN q /\ q.part = "wireless"
      /\ q.hosts = p.hosts /\ q.profile = p.profile /\ q.associated = taken
  BY DEF WirelessFits
<1> HIDE DEF q
<1>4. WirelessFits(q)
  BY Zenon, <1>2, <1>3 DEF WirelessFits
<1>5. QED BY Zenon, <1>4 DEF associate, q, taken

LEMMA WirelessBegins ==
  ASSUME NEW p \in WirelessInit
  PROVE  WirelessFits(p)
<1> DEFINE profile == [c \in Clients |-> FreshProfile]
           nowhere == [c \in Clients |-> NoAp]
           radio == [d \in AccessPoints \cup Clients |-> FreshRadio]
           hosts == [h \in Hosts |-> FreshPort]
           fresh == [part |-> "wireless", open |-> TRUE, at |-> Placements, radio |-> radio,
                     profile |-> profile, associated |-> nowhere, hosts |-> hosts]
<1>1. p = associate(fresh)
  BY Zenon DEF WirelessInit
<1>2. PortsFit(hosts)
  BY FreshPortFits DEF PortsFit
<1>3. ProfilesFit(profile)
  <2>1. FreshProfile.types = <<0, 0>> /\ FreshProfile.key = NoKey
    BY Zenon DEF FreshProfile
  <2>2. NoKey.len = 0
    BY Zenon DEF NoKey
  <2>3. <<0, 0>> \in wire("open", NoKey)
    <3>1. wire("open", NoKey) = {<<0, 0>> : n \in {NoKey.len} \cap {0}}
      BY Zenon DEF wire
    <3> HIDE DEF profile
    <3>2. QED BY <2>2, <3>1
  <2>4. FreshProfile.types \in Wired(FreshProfile.key)
    <3>1. "open" \in {"open", "wep", "wpa_psk", "wpa2_psk"}
      OBVIOUS
    <3>2. QED BY Zenon, <2>1, <2>3, <3>1 DEF Wired
  <2>5. DOMAIN profile = Clients /\ \A c \in Clients : profile[c] = FreshProfile
    BY Zenon
  <2> HIDE DEF profile
  <2>6. QED BY Zenon, <2>4, <2>5 DEF ProfilesFit
<1>4. \A c \in Clients : nowhere[c] \in AccessPoints \cup {NoAp}
  OBVIOUS
<1> HIDE DEF profile, nowhere, radio, hosts
<1>5. /\ {"part", "open", "at", "radio", "profile", "associated", "hosts"} \subseteq DOMAIN fresh /\ fresh.part = "wireless"
      /\ fresh.hosts = hosts /\ fresh.profile = profile /\ fresh.associated = nowhere
  OBVIOUS
<1> HIDE DEF fresh
<1>6. WirelessFits(fresh)
  BY Zenon, <1>2, <1>3, <1>4, <1>5 DEF WirelessFits
<1>7. QED BY Zenon, <1>1, <1>6, AssociationsFit

\* What does not disturb it.
LEMMA OtherWireless ==
  ASSUME NEW p, WirelessFits(p), NEW v, NEW hosts, PortsFit(hosts)
  PROVE  \A q \in {p, [p EXCEPT !.open = v], [p EXCEPT !.radio = v], [p EXCEPT !.at = v], [p EXCEPT !.hosts = hosts]} :
           WirelessFits(q)
<1> DEFINE All == {"part", "open", "at", "radio", "profile", "associated", "hosts"}
<1>1. All \subseteq DOMAIN p /\ p.part = "wireless"
  BY DEF WirelessFits
<1>2. ASSUME NEW q \in {[p EXCEPT !.open = v], [p EXCEPT !.radio = v], [p EXCEPT !.at = v], [p EXCEPT !.hosts = hosts]}
      PROVE  WirelessFits(q)
  <2>1. /\ All \subseteq DOMAIN q /\ q.part = "wireless" /\ q.hosts \in {p.hosts, hosts}
        /\ q.profile = p.profile /\ q.associated = p.associated
    BY <1>1
  <2>2. QED BY Zenon, <2>1 DEF WirelessFits
<1>3. QED BY <1>2

LEMMA WirelessAnswers ==
  ASSUME NEW p, WirelessFits(p), NEW may, \A f \in may : WirelessFits(f), NEW c, Allowed(c, may)
  PROVE  WirelessFits(WirelessAnswer(p, c).pt)
<1> DEFINE q == WirelessAnswer(p, c).pt
           d == c.at
           r == p.radio[d]
           ssid == [r EXCEPT !.ssid = c.val]
           authen == [r EXCEPT !.authen = c.val]
           encrypt == [r EXCEPT !.encrypt = c.val]
           key == [r EXCEPT !.key = c.val]
           shown == [r EXCEPT !.broadcast = c.val]
           beside == Beside(p, c.val)
           R(x) == [p EXCEPT !.radio[d] = x]
<1>1. \/ q = p
      \/ q = [p EXCEPT !.open = FALSE]
      \/ c.op = "fileOpen" /\ q = associate(c.val)
      \/ q = [p EXCEPT !.radio[d].ssid = c.val]
      \/ q = [p EXCEPT !.radio[d].authen = c.val]
      \/ q = [p EXCEPT !.radio[d].encrypt = c.val]
      \/ q = [p EXCEPT !.radio[d].key = c.val]
      \/ q = [p EXCEPT !.radio[d].broadcast = c.val]
      \/ q = [p EXCEPT !.at[d] = beside]
      \/ q = HostAnswer(p, c).pt
  BY ZenonT(60) DEF WirelessAnswer, Gives, Obeys, Says, Did, Missing, Replies
<1>2. /\ [p EXCEPT !.radio[d].ssid = c.val] = [p EXCEPT !.radio = [p.radio EXCEPT ![d] = ssid]]
      /\ [p EXCEPT !.radio[d].authen = c.val] = [p EXCEPT !.radio = [p.radio EXCEPT ![d] = authen]]
      /\ [p EXCEPT !.radio[d].encrypt = c.val] = [p EXCEPT !.radio = [p.radio EXCEPT ![d] = encrypt]]
      /\ [p EXCEPT !.radio[d].key = c.val] = [p EXCEPT !.radio = [p.radio EXCEPT ![d] = key]]
      /\ [p EXCEPT !.radio[d].broadcast = c.val] = [p EXCEPT !.radio = [p.radio EXCEPT ![d] = shown]]
      /\ [p EXCEPT !.at[d] = beside] = [p EXCEPT !.at = [p.at EXCEPT ![d] = beside]]
  BY Zenon
<1>3. PICK hosts : PortsFit(hosts) /\ HostAnswer(p, c).pt \in {p, [p EXCEPT !.hosts = hosts]}
  <2>1. "hosts" \in DOMAIN p /\ PortsFit(p.hosts)
    BY DEF WirelessFits
  <2>2. QED BY Zenon, <2>1, HostAnswers
<1> HIDE DEF q, ssid, authen, encrypt, key, shown, beside
<1>4. \/ q = p \/ q = [p EXCEPT !.hosts = hosts]
      \/ c.op = "fileOpen" /\ q = associate(c.val)
      \/ \E v : q = [p EXCEPT !.open = v] \/ q = [p EXCEPT !.radio = v] \/ q = [p EXCEPT !.at = v]
  BY Zenon, <1>1, <1>2, <1>3
<1>5. CASE c.op = "fileOpen" /\ q = associate(c.val)
  <2>1. WirelessFits(c.val)
    BY Zenon, <1>5 DEF Allowed
  <2>2. WirelessFits(associate(c.val))
    BY Zenon, <2>1, AssociationsFit
  <2>3. QED BY Zenon, <1>5, <2>2 DEF q
<1>6. CASE \E v : q \in {p, [p EXCEPT !.open = v], [p EXCEPT !.radio = v], [p EXCEPT !.at = v], [p EXCEPT !.hosts = hosts]}
  <2>1. PICK v : q \in {p, [p EXCEPT !.open = v], [p EXCEPT !.radio = v], [p EXCEPT !.at = v], [p EXCEPT !.hosts = hosts]}
    BY <1>6
  <2>2. \A x \in {p, [p EXCEPT !.open = v], [p EXCEPT !.radio = v], [p EXCEPT !.at = v], [p EXCEPT !.hosts = hosts]} :
           WirelessFits(x)
    BY Zenon, <1>3, OtherWireless
  <2>3. WirelessFits(q)
    BY Zenon, <2>1, <2>2
  <2>4. QED BY <2>3 DEF q
<1>7. QED BY Zenon, <1>4, <1>5, <1>6

LEMMA WirelessReplies ==
  ASSUME NEW p, NEW c
  PROVE  /\ c.op = "list_devices" => WirelessAnswer(p, c).data = {}
         /\ c.op = "fileSaveToBytes" => WirelessAnswer(p, c).data = p
<1>1. c.op = "list_devices" => WirelessAnswer(p, c) = Gives(p, {})
  BY Zenon DEF WirelessAnswer
<1>2. c.op = "fileSaveToBytes" => WirelessAnswer(p, c) = Gives(p, p)
  BY Zenon DEF WirelessAnswer
<1>3. \A data : Gives(p, data).data = data
  BY DEF Gives, Replies
<1>4. QED BY Zenon, <1>1, <1>2, <1>3

LEMMA WirelessSettled ==
  ASSUME NEW p, WirelessFits(p), NEW q \in WirelessSettles(p)
  PROVE  WirelessFits(q)
<1>1. PICK d : q \in Addressed(p, d)
  <2>1. \A x \in {} : FALSE
    OBVIOUS
  <2>2. QED BY Zenon, <2>1 DEF WirelessSettles
<1>2. "hosts" \in DOMAIN p /\ PortsFit(p.hosts)
  BY DEF WirelessFits
<1>3. PICK hosts : PortsFit(hosts) /\ q = [p EXCEPT !.hosts = hosts]
  <2>1. \E hosts : PortsFit(hosts) /\ q = [p EXCEPT !.hosts = hosts]
    BY <1>1, <1>2, LeasesFit
  <2>2. QED BY Zenon, <2>1
<1>4. q \in {p, [p EXCEPT !.open = p], [p EXCEPT !.radio = p], [p EXCEPT !.at = p], [p EXCEPT !.hosts = hosts]}
  BY Zenon, <1>3
<1>5. QED BY Zenon, <1>3, <1>4, OtherWireless

\* What is left of the answers after the first m of them.
LeftFrom(rest, seen, m) ==
  /\ IsSeq(seen) /\ IsSeq(rest) /\ m \in Nat /\ Len(seen) = m + Len(rest)
  /\ \A k \in 1..Len(rest) : rest[k] = seen[m + k]

LEMMA AllLeft ==
  ASSUME NEW seen, IsSeq(seen)
  PROVE  LeftFrom(seen, seen, 0)
<1>1. Len(seen) \in Nat
  BY SequenceLaws
<1>2. 0 \in Nat /\ Len(seen) = 0 + Len(seen) /\ \A k \in 1..Len(seen) : 0 + k = k
  BY <1>1
<1>3. QED BY Zenon, <1>2 DEF LeftFrom

LEMMA LeftOver ==
  ASSUME NEW S, NEW s \in Seq(S), NEW c \in Nat, c <= Len(s)
  PROVE  /\ SubSeq(s, c + 1, Len(s)) \in Seq(S)
         /\ Len(SubSeq(s, c + 1, Len(s))) = Len(s) - c
         /\ \A k \in 1..(Len(s) - c) : SubSeq(s, c + 1, Len(s))[k] = s[c + k]
<1>1. SubSeq(s, c + 1, Len(s)) \in Seq(S)
  OBVIOUS
<1>2. Len(SubSeq(s, c + 1, Len(s))) = Len(s) - c
  OBVIOUS
<1>3. \A k \in 1..(Len(s) - c) : SubSeq(s, c + 1, Len(s))[k] = s[c + k]
  OBVIOUS
<1>4. QED BY <1>1, <1>2, <1>3

LEMMA LessLeft ==
  ASSUME NEW rest, NEW seen, NEW m, LeftFrom(rest, seen, m), NEW c \in Nat, ~(Len(rest) < c)
  PROVE  LeftFrom(SubSeq(rest, c + 1, Len(rest)), seen, m + c)
<1> DEFINE more == SubSeq(rest, c + 1, Len(rest))
           n == Len(rest)
<1>1. PICK S : rest \in Seq(S)
  BY DEF LeftFrom, IsSeq
<1>2. n \in Nat /\ c <= n
  BY <1>1
<1>3. more \in Seq(S) /\ Len(more) = n - c /\ \A k \in 1..(n - c) : more[k] = rest[c + k]
  BY Zenon, <1>1, <1>2, LeftOver
<1> HIDE DEF more
<1>4. m \in Nat /\ Len(seen) = m + n /\ \A k \in 1..n : rest[k] = seen[m + k]
  BY Zenon DEF LeftFrom
<1> HIDE DEF n
<1>5. m + c \in Nat /\ Len(seen) = (m + c) + Len(more)
  BY <1>2, <1>3, <1>4
<1>6. ASSUME NEW k \in 1..Len(more)
      PROVE  more[k] = seen[(m + c) + k]
  <2>1. k \in 1..(n - c) /\ c + k \in 1..n /\ m + (c + k) = (m + c) + k
    BY <1>2, <1>3, <1>4
  <2>2. more[k] = rest[c + k] /\ rest[c + k] = seen[m + (c + k)]
    BY Zenon, <1>3, <1>4, <2>1
  <2>3. QED BY Zenon, <2>1, <2>2
<1>7. QED BY Zenon, <1>3, <1>5, <1>6 DEF LeftFrom, IsSeq, more

\* A plan that comes to an edit after b calls; n answers are there.
EditsAt(plan, n, b, may) ==
  /\ AllowedPlan(plan, may)
  /\ n = b + 1 => ItemAfter(plan, b + 1) \in {Ask("fileSaveToBytes", ""), Idle.next}
  /\ n = b + 4 => ItemAfter(plan, b + 4) \in {Ask("list_devices", ""), Idle.next}

LEMMA EditsNow ==
  ASSUME NEW may, NEW plan, NEW seen, TakesAndOpens(plan, seen, may)
  PROVE  EditsAt(plan, Len(seen), 0, may)
<1>1. 0 + 1 = 1 /\ 0 + 4 = 4
  OBVIOUS
<1>2. QED BY Zenon, <1>1, EditsAllowed DEF EditsAt

LEMMA EditsNever ==
  ASSUME NEW may, NEW n, NEW b \in Nat
  PROVE  EditsAt(<<Refuse>>, n, b, may)
<1>1. AllowedPlan(<<Refuse>>, may)
  BY Zenon, RefusingAllowed, PlanOfOne
<1>2. Len(<<Refuse>>) = 1
  OBVIOUS
<1>3. ~(b + 1 < Len(<<Refuse>>)) /\ ~(b + 4 < Len(<<Refuse>>))
  BY <1>2
<1>4. ItemAfter(<<Refuse>>, b + 1) = Idle.next /\ ItemAfter(<<Refuse>>, b + 4) = Idle.next
  BY Zenon, <1>3 DEF ItemAfter
<1>5. QED BY Zenon, <1>1, <1>4 DEF EditsAt

LEMMA EditsLater ==
  ASSUME NEW may, NEW first, AllowedPlan(first, may), NEW n \in Nat, NEW b \in Nat,
         NEW plan, NEW rest,
         plan = IF n < Len(first) THEN first ELSE first \o rest,
         ~(n < Len(first)) => EditsAt(rest, n - Len(first), b, may)
  PROVE  EditsAt(plan, n, Len(first) + b, may)
<1> DEFINE a == Len(first)
<1>1. IsSeq(first) /\ a \in Nat
  BY SequenceLaws DEF AllowedPlan
<1>2. CASE n < a
  <2>1. plan = first
    BY Zenon, <1>2
  <2> HIDE DEF a
  <2>2. n # (a + b) + 1 /\ n # (a + b) + 4
    BY <1>1, <1>2
  <2>3. QED BY Zenon, <2>1, <2>2 DEF EditsAt, a
<1>3. CASE ~(n < a)
  <2>1. plan = first \o rest /\ EditsAt(rest, n - a, b, may)
    BY Zenon, <1>3
  <2>2. AllowedPlan(plan, may)
    BY Zenon, <2>1, PlansJoin DEF EditsAt
  <2>3. IsSeq(rest)
    BY Zenon, <2>1 DEF EditsAt, AllowedPlan
  <2>4. \A k \in Nat : ItemAfter(plan, a + k) = ItemAfter(rest, k)
    <3>1. \A k \in Nat : ItemAfter(first \o rest, Len(first) + k) = ItemAfter(rest, k)
      BY Zenon, <1>1, <2>3, LaterItems
    <3>2. plan = first \o rest
      BY Zenon, <2>1
    <3> HIDE DEF a
    <3>3. \A k \in Nat : ItemAfter(plan, Len(first) + k) = ItemAfter(rest, k)
      BY Zenon, <3>1, <3>2
    <3>4. QED BY Zenon, <3>3 DEF a
  <2> HIDE DEF a
  <2>5. /\ b + 1 \in Nat /\ b + 4 \in Nat /\ (a + b) + 1 = a + (b + 1) /\ (a + b) + 4 = a + (b + 4)
        /\ n = (a + b) + 1 => n - a = b + 1
        /\ n = (a + b) + 4 => n - a = b + 4
    BY <1>1
  <2>6. n = (a + b) + 1 => ItemAfter(plan, (a + b) + 1) \in {Ask("fileSaveToBytes", ""), Idle.next}
    BY Zenon, <2>1, <2>4, <2>5 DEF EditsAt
  <2>7. n = (a + b) + 4 => ItemAfter(plan, (a + b) + 4) \in {Ask("list_devices", ""), Idle.next}
    BY Zenon, <2>1, <2>4, <2>5 DEF EditsAt
  <2>8. QED BY Zenon, <2>2, <2>6, <2>7 DEF EditsAt, a
<1>4. QED BY <1>2, <1>3

----------------------------------------------------------------------------
\* What the wireless tools ask.

LEMMA RadioAllowed ==
  ASSUME NEW may, NEW r
  PROVE  AllowedPlan(apply_radio(r), may) /\ Len(apply_radio(r)) \in {3, 4}
<1> DEFINE three == <<Tell("setSsid", r.dev, r.ssid), Tell("setAuthenType", r.dev, Types(r)[1]),
                      Tell("setEncryptType", r.dev, Types(r)[2])>>
           key == <<Tell("setKey", r.dev, r.key)>>
           keyed == When(r.security # "open", key)
<1>1. AllowedPlan(three, may)
  BY Zenon, Asking, PlanOfThree
<1>2. AllowedPlan(key, may)
  BY Zenon, Asking, PlanOfOne
<1>3. AllowedPlan(keyed, may)
  BY Zenon, <1>2, PlanIf
<1>4. Len(three) = 3
  <2>1. \A x, y, z : Len(<<x, y, z>>) = 3
    OBVIOUS
  <2>2. QED BY Zenon, <2>1
<1>5. Len(keyed) = 0 \/ Len(keyed) = 1
  <2>1. Len(<<>>) = 0 /\ \A x : Len(<<x>>) = 1
    OBVIOUS
  <2>2. QED BY Zenon, <2>1 DEF When
<1>6. apply_radio(r) = three \o keyed
  BY Zenon DEF apply_radio
<1> HIDE DEF three, keyed
<1>7. Len(three \o keyed) = Len(three) + Len(keyed)
  BY Zenon, <1>1, <1>3, Concatenation DEF AllowedPlan
<1>8. Len(three \o keyed) \in {3, 4}
  <2> DEFINE a == Len(three)
             b == Len(keyed)
             c == Len(three \o keyed)
  <2>1. a = 3 /\ (b = 0 \/ b = 1) /\ c = a + b
    BY Zenon, <1>4, <1>5, <1>7
  <2> HIDE DEF a, b, c
  <2>2. c \in {3, 4}
    BY <2>1
  <2>3. QED BY <2>2 DEF c
<1>9. QED BY Zenon, <1>1, <1>3, <1>6, <1>8, PlansJoin

LEMMA BringAllowed ==
  ASSUME NEW may, NEW near, NEW r
  PROVE  AllowedPlan(bring_access_point(near, r), may) /\ Len(bring_access_point(near, r)) \in {0, 1}
<1>1. AllowedPlan(bring_access_point(near, r), may)
  BY Zenon, Asking, PlanOfOne, PlanIf DEF bring_access_point
<1>2. Len(<<>>) = 0 /\ \A x : Len(<<x>>) = 1
  OBVIOUS
<1>3. Len(bring_access_point(near, r)) = 0 \/ Len(bring_access_point(near, r)) = 1
  BY Zenon, <1>2 DEF bring_access_point, When
<1>4. QED BY <1>1, <1>3

\* The client is waited for and addressed.
Awaiting(r, seen) == Waited(r, seen, LAMBDA rest : address_client(r, rest))

LEMMA WaitedAllowed ==
  ASSUME NEW may, NEW r, NEW seen, IsSeq(seen)
  PROVE  AllowedPlan(Awaiting(r, seen), may)
<1> DEFINE n == 2 * ASSOCIATION_POLLS - 1
           m == Len(seen)
           Poll(k) == IF k % 2 = 1 THEN Ask("getCurrentApMac", r.dev) ELSE Ask("fast_forward", "")
           U == {k \in 1..n : k <= m + 1 /\ \A o \in 1..(k - 1) : ~(seen[o].data # NoAp)}
           Stopped == {o \in 1..n : seen[o].data # NoAp}
           polls == [k \in U |-> Poll(k)]
           more == SubSeq(seen, Len(polls) + 1, Len(seen))
           addressed == address_client(r, more)
<1>1. wait_for_association(r, seen) = polls
  BY Zenon DEF wait_for_association, Polls
<1>2. m \in Nat /\ n \in Int
  BY SequenceLaws, AssociationAssumption
<1>3. AllowedPlan(polls, may)
  <2>1. U = Upto(n, m, Stopped)
    <3>1. \A k \in 1..n : \A o \in 1..(k - 1) : ~(seen[o].data # NoAp) <=> o \notin Stopped
      BY <1>2
    <3> HIDE DEF Stopped
    <3>2. QED BY Zenon, <3>1 DEF Upto
  <2>2. \A k \in Upto(n, m, Stopped) : Allowed(polls[k], may)
    <3>1. \A k \in U : polls[k] = Poll(k)
      BY Zenon
    <3>2. \A k : Allowed(Poll(k), may)
      BY Zenon, Asking
    <3> HIDE DEF U, polls, Poll
    <3>3. QED BY Zenon, <2>1, <3>1, <3>2
  <2>3. polls = [k \in Upto(n, m, Stopped) |-> polls[k]]
    <3> HIDE DEF Poll
    <3>1. polls = [k \in U |-> polls[k]]
      OBVIOUS
    <3> HIDE DEF U, polls
    <3>2. QED BY Zenon, <2>1, <3>1
  <2> HIDE DEF U, polls, n, m, Stopped
  <2>4. QED BY Zenon, <1>2, <2>2, <2>3, PollsAllowed
<1> HIDE DEF polls
<1>4. IsSeq(more)
  BY Zenon, <1>3, Afterwards
<1>5. AllowedPlan(addressed, may)
  <2> DEFINE first == <<Ask("radio_port", r.dev)>>
             rest == SubSeq(more, Len(first) + 1, Len(more))
             address == [dev |-> r.dev] @@ r.address
  <2>1. AllowedPlan(first, may)
    BY Zenon, Asking, PlanOfOne
  <2>2. IsSeq(rest)
    BY Zenon, <1>4, <2>1, Afterwards
  <2> HIDE DEF more, address
  <2>3. AllowedPlan(configure(address, rest), may)
    BY Zenon, <2>2, ConfigureAllowed
  <2>4. addressed = first \/ addressed = first \o configure(address, rest)
    BY Zenon DEF address_client, Then, address
  <2>5. QED BY Zenon, <2>1, <2>3, <2>4, PlansJoin
<1>6. Awaiting(r, seen) = polls \/ Awaiting(r, seen) = polls \o addressed
  BY Zenon, <1>1 DEF Awaiting, Waited
<1> HIDE DEF addressed
<1>7. QED BY Zenon, <1>3, <1>5, <1>6, PlansJoin

LEMMA EditsThen ==
  ASSUME NEW may, NEW first, AllowedPlan(first, may), NEW x, NEW seen, NEW m, LeftFrom(x, seen, m),
         NEW b \in Nat, NEW plan, NEW rest,
         plan = IF Len(x) < Len(first) THEN first ELSE first \o rest,
         NEW y, y = SubSeq(x, Len(first) + 1, Len(x)),
         LeftFrom(y, seen, m + Len(first)) => EditsAt(rest, Len(y), b, may)
  PROVE  EditsAt(plan, Len(x), Len(first) + b, may)
<1> DEFINE n == Len(x)
           a == Len(first)
<1>1. n \in Nat /\ a \in Nat /\ m \in Nat
  BY SequenceLaws DEF LeftFrom, AllowedPlan
<1>2. ASSUME ~(n < a) PROVE EditsAt(rest, n - a, b, may)
  <2>1. LeftFrom(y, seen, m + a)
    BY Zenon, <1>1, <1>2, LessLeft
  <2>2. Len(seen) = (m + a) + Len(y) /\ Len(seen) = m + n /\ Len(y) \in Nat
    BY <2>1, SequenceLaws DEF LeftFrom
  <2> DEFINE k == Len(y)
  <2> HIDE DEF n, a, k
  <2>3. k = n - a
    <3> DEFINE l == Len(seen)
    <3>1. l = (m + a) + k /\ l = m + n /\ k \in Nat
      BY Zenon, <2>2 DEF n, k
    <3> HIDE DEF l
    <3>2. QED BY <1>1, <3>1
  <2>4. EditsAt(rest, k, b, may)
    BY Zenon, <2>1 DEF k, a
  <2>5. QED BY Zenon, <2>3, <2>4
<1>3. QED BY Zenon, <1>1, <1>2, EditsLater

\* The profile is written into the network that was taken after b answers.
ProfiledFiles(r, seen, b) ==
  LET profiled == set_client_profile(seen[b + 2].data, r.dev, Profile(r)) IN
  {doc \in {profiled.doc} : Len(seen) >= b + 2 /\ profiled.ok}

\* The end of connect_wireless: the radio is set, the edit made and the client addressed.
Joining(r, x) ==
  Then(apply_radio(r), x, LAMBDA applied, then :
    edit_saved_network(LAMBDA doc : set_client_profile(doc, r.dev, Profile(r)), then,
      LAMBDA opened : Awaiting(r, opened)))

LEMMA JoiningEdits ==
  ASSUME NEW r, NEW x, NEW seen, NEW m, LeftFrom(x, seen, m), NEW b, b = m + Len(apply_radio(r)),
         Len(seen) >= b + 5 => seen[b + 5].data = {}
  PROVE  EditsAt(Joining(r, x), Len(x), Len(apply_radio(r)), ProfiledFiles(r, seen, b))
<1> DEFINE may == ProfiledFiles(r, seen, b)
           radio == apply_radio(r)
           y == SubSeq(x, Len(radio) + 1, Len(x))
           edited == set_client_profile(SubSeq(y, 1, Len(take_network))[2].data, r.dev, Profile(r))
           more == SubSeq(y, Len(take_network) + 1, Len(y))
           opening == open_edited(edited.doc)
           opened == SubSeq(more, 1, Len(opening))
           leftover == SubSeq(more, Len(opening) + 1, Len(more))
           strip == strip_units(SubSeq(y, 1, Len(take_network))[1].data, opened[3].data)
           final == SubSeq(leftover, Len(strip) + 1, Len(leftover))
           after == Awaiting(r, final)
           edit == EditPlan(y, edited, after)
<1>1. Joining(r, x) = IF Len(x) < Len(radio) THEN radio ELSE radio \o edit
  BY Zenon DEF Joining, edit_saved_network, Then, EditPlan
<1>2. AllowedPlan(radio, may)
  BY Zenon, RadioAllowed
<1>3. ASSUME LeftFrom(y, seen, b) PROVE EditsAt(edit, Len(y), 0, may)
  <2>1. IsSeq(y) /\ b \in Nat /\ Len(seen) = b + Len(y) /\ \A k \in 1..Len(y) : y[k] = seen[b + k]
    BY Zenon, <1>3 DEF LeftFrom
  <2>2. Len(y) \in Nat
    BY <2>1, SequenceLaws
  <2> HIDE DEF y
  <2>3. Len(y) >= 2 => Len(seen) >= b + 2 /\ y[2] = seen[b + 2]
    BY <2>1, <2>2
  <2>4. Len(y) >= 5 => Len(seen) >= b + 5 /\ y[5] = seen[b + 5]
    BY <2>1, <2>2
  <2>5. ASSUME Len(y) >= 2, edited.ok PROVE edited.doc \in may
    <3>1. edited = set_client_profile(seen[b + 2].data, r.dev, Profile(r))
      BY Zenon, <2>1, <2>3, <2>5, EditCalls, EditAnswers
    <3> HIDE DEF edited
    <3>2. QED BY Zenon, <2>3, <2>5, <3>1 DEF ProfiledFiles
  <2>6. ASSUME Len(y) >= 5 PROVE y[5].data = {} /\ AllowedPlan(after, may)
    <3>1. y[5].data = {}
      BY Zenon, <2>4, <2>6
    <3>2. opened[3] = y[5] /\ IsSeq(more)
      <4>1. 2 + 1 = 3
        OBVIOUS
      <4>2. more = SubSeq(y, 3, Len(y)) /\ opened = SubSeq(more, 1, 3)
        BY Zenon, <4>1, EditCalls
      <4>3. SubSeq(SubSeq(y, 3, Len(y)), 1, 3)[3] = y[5] /\ IsSeq(SubSeq(y, 3, Len(y)))
        BY Zenon, <2>1, <2>6, EditAnswers
      <4>4. QED BY Zenon, <4>2, <4>3
    <3>3. AllowedPlan(strip, may)
      BY Zenon, <3>1, <3>2, NothingStripped
    <3>4. IsSeq(leftover)
      <4>1. 3 \in Nat
        OBVIOUS
      <4>2. QED BY Zenon, <3>2, <4>1, EditCalls, Remainder
    <3> HIDE DEF strip, leftover
    <3>5. IsSeq(final)
      BY Zenon, <3>3, <3>4, Afterwards
    <3> HIDE DEF final
    <3>6. QED BY Zenon, <3>1, <3>5, WaitedAllowed
  <2> HIDE DEF edited, after, may
  <2>7. TakesAndOpens(EditPlan(y, edited, after), y, may)
    BY Zenon, <2>1, <2>5, <2>6, EditPlans
  <2>8. QED BY Zenon, <2>7, EditsNow
<1>4. 0 \in Nat /\ \A k \in Nat : k + 0 = k
  OBVIOUS
<1>5. Len(radio) \in Nat
  BY Zenon, <1>2, SequenceLaws DEF AllowedPlan
<1> HIDE DEF edit, may, y
<1>6. y = SubSeq(x, Len(radio) + 1, Len(x))
  BY DEF y
<1> HIDE DEF radio
<1>7. EditsAt(Joining(r, x), Len(x), Len(radio) + 0, may)
  BY Zenon, <1>1, <1>2, <1>3, <1>4, <1>6, EditsThen DEF radio
<1>8. QED BY Zenon, <1>4, <1>5, <1>7 DEF radio, may

\* The calls of connect_wireless before its edit.
EditStart(r, seen) ==
  3 + IF r.bring THEN 1 + (Len(bring_access_point(nearest(seen[4].data), r)) + Len(apply_radio(r)))
      ELSE Len(apply_radio(r))

\* The file it opens, if any.
ConnectFiles(r, seen) == IF checked(r) THEN ProfiledFiles(r, seen, EditStart(r, seen)) ELSE {}

LEMMA BringingEdits ==
  ASSUME NEW r, NEW near, NEW x, NEW seen, NEW m, LeftFrom(x, seen, m),
         NEW b, b = m + (Len(bring_access_point(near, r)) + Len(apply_radio(r))),
         Len(seen) >= b + 5 => seen[b + 5].data = {}
  PROVE  EditsAt(Then(bring_access_point(near, r), x, LAMBDA moved, then : Joining(r, then)), Len(x),
                 Len(bring_access_point(near, r)) + Len(apply_radio(r)), ProfiledFiles(r, seen, b))
<1> DEFINE may == ProfiledFiles(r, seen, b)
           first == bring_access_point(near, r)
           radio == Len(apply_radio(r))
           y == SubSeq(x, Len(first) + 1, Len(x))
           rest == Joining(r, y)
           plan == Then(first, x, LAMBDA moved, then : Joining(r, then))
<1>1. AllowedPlan(first, may) /\ Len(first) \in Nat
  BY BringAllowed
<1>2. radio \in Nat
  BY RadioAllowed
<1>3. plan = IF Len(x) < Len(first) THEN first ELSE first \o rest
  BY Zenon DEF Then
<1>4. ASSUME LeftFrom(y, seen, m + Len(first)) PROVE EditsAt(rest, Len(y), radio, may)
  <2>1. b = (m + Len(first)) + radio
    <3> DEFINE l == Len(first)
    <3>1. m \in Nat /\ l \in Nat /\ radio \in Nat /\ b = m + (l + radio)
      BY Zenon, <1>1, <1>2 DEF LeftFrom
    <3> HIDE DEF l, radio
    <3>2. b = (m + l) + radio
      BY <3>1
    <3>3. QED BY <3>2 DEF l
  <2> HIDE DEF first, y
  <2>2. QED BY Zenon, <1>4, <2>1, JoiningEdits
<1> HIDE DEF first, radio, rest, may
<1>5. EditsAt(plan, Len(x), Len(first) + radio, may)
  <2>1. y = SubSeq(x, Len(first) + 1, Len(x))
    OBVIOUS
  <2> HIDE DEF y, plan
  <2>2. QED BY Zenon, <1>1, <1>2, <1>3, <1>4, <2>1, EditsThen
<1>6. QED BY Zenon, <1>5 DEF first, radio, may

LEMMA FetchingEdits ==
  ASSUME NEW r, NEW x, NEW seen, LeftFrom(x, seen, 3), NEW b, b = EditStart(r, seen),
         Len(seen) >= b + 5 => seen[b + 5].data = {}
  PROVE  EditsAt(Brought(r, x, LAMBDA brought : Joining(r, brought)), Len(x),
                 IF r.bring THEN 1 + (Len(bring_access_point(nearest(seen[4].data), r)) + Len(apply_radio(r)))
                 ELSE Len(apply_radio(r)), ProfiledFiles(r, seen, b))
<1> DEFINE may == ProfiledFiles(r, seen, b)
           plan == Brought(r, x, LAMBDA brought : Joining(r, brought))
           radio == Len(apply_radio(r))
           near == nearest(seen[4].data)
           moves == Len(bring_access_point(near, r))
           first == <<Tell("access_points_for", r.dev, r.ssid)>>
           got == SubSeq(x, 1, Len(first))
           y == SubSeq(x, Len(first) + 1, Len(x))
           there == nearest(got[1].data)
           coming == Then(bring_access_point(there, r), y, LAMBDA moved, then : Joining(r, then))
           rest == IF got[1].data = {} THEN <<Refuse>> ELSE coming
<1>1. radio \in Nat /\ moves \in Nat
  BY RadioAllowed, BringAllowed
<1>2. CASE ~r.bring
  <2>1. plan = Joining(r, x) /\ b = 3 + radio
    BY Zenon, <1>2 DEF Brought, EditStart
  <2>2. EditsAt(Joining(r, x), Len(x), radio, may)
    BY Zenon, <2>1, JoiningEdits
  <2>3. QED BY Zenon, <1>2, <2>1, <2>2
<1>3. CASE r.bring
  <2>1. plan = IF Len(x) < Len(first) THEN first ELSE first \o rest
    BY Zenon, <1>3 DEF Brought, Then
  <2>2. AllowedPlan(first, may)
    BY Zenon, Asking, PlanOfOne
  <2>3. Len(first) = 1
    OBVIOUS
  <2>4. ASSUME LeftFrom(y, seen, 3 + Len(first)) PROVE EditsAt(rest, Len(y), moves + radio, may)
    <3>1. LeftFrom(y, seen, 4)
      <4>1. 3 + 1 = 4
        OBVIOUS
      <4>2. QED BY Zenon, <2>3, <2>4, <4>1
    <3>2. got[1] = seen[4]
      <4>1. IsSeq(x) /\ Len(seen) = 3 + Len(x) /\ (\A k \in 1..Len(x) : x[k] = seen[3 + k]) /\ Len(seen) = 4 + Len(y)
            /\ IsSeq(y) /\ got = SubSeq(x, 1, 1)
        BY Zenon, <2>3, <3>1 DEF LeftFrom
      <4> HIDE DEF y, got
      <4>2. Len(x) \in Nat /\ Len(y) \in Nat
        BY Zenon, <4>1, SequenceLaws
      <4>3. Len(x) >= 1
        BY <4>1, <4>2
      <4>4. PICK S : x \in Seq(S)
        BY <4>1 DEF IsSeq
      <4>5. SubSeq(x, 1, 1)[1] = x[1]
        BY <4>3, <4>4
      <4>6. x[1] = seen[4]
        BY <4>1, <4>2, <4>3
      <4>7. QED BY Zenon, <4>1, <4>5, <4>6
    <3>3. there = near
      BY Zenon, <3>2
    <3> HIDE DEF y, got, near, first
    <3>4. CASE got[1].data = {}
      <4>1. rest = <<Refuse>>
        BY Zenon, <3>4
      <4>2. moves + radio \in Nat
        BY <1>1
      <4> HIDE DEF rest, moves, radio, may
      <4>3. QED BY Zenon, <4>1, <4>2, EditsNever
    <3>5. CASE got[1].data # {}
      <4>1. b = 4 + (moves + radio)
        <5>1. b = 3 + (1 + (moves + radio))
          BY Zenon, <1>3 DEF EditStart, near
        <5> HIDE DEF moves, radio
        <5>2. QED BY <1>1, <5>1
      <4>2. EditsAt(Then(bring_access_point(near, r), y, LAMBDA moved, then : Joining(r, then)), Len(y), moves + radio, may)
        BY Zenon, <3>1, <4>1, BringingEdits
      <4>3. rest = Then(bring_access_point(near, r), y, LAMBDA moved, then : Joining(r, then))
        BY Zenon, <3>3, <3>5
      <4> HIDE DEF rest, moves, radio, may
      <4>4. QED BY Zenon, <4>2, <4>3
    <3>6. QED BY Zenon, <3>4, <3>5
  <2>5. y = SubSeq(x, Len(first) + 1, Len(x)) /\ moves + radio \in Nat
    BY <1>1
  <2> HIDE DEF y, rest, first, plan, moves, radio, may
  <2>6. EditsAt(plan, Len(x), Len(first) + (moves + radio), may)
    BY Zenon, <2>1, <2>2, <2>4, <2>5, EditsThen
  <2>7. QED BY Zenon, <1>3, <2>3, <2>6 DEF plan, moves, radio, near, may
<1>4. QED BY <1>2, <1>3

LEMMA ConnectPlans ==
  ASSUME NEW r, NEW seen, IsSeq(seen), NEW b, b = EditStart(r, seen),
         Len(seen) >= b + 5 => seen[b + 5].data = {}
  PROVE  EditsAt(connect_wireless(r, seen), Len(seen), b, ConnectFiles(r, seen))
<1> DEFINE may == ConnectFiles(r, seen)
           first == <<Ask("describe", r.dev), has_process(r.dev, "client"), Try("radio_port", r.dev, <<>>)>>
           got == SubSeq(seen, 1, Len(first))
           y == SubSeq(seen, Len(first) + 1, Len(seen))
           refused == \/ got[2].is = "missing" \/ got[3].is # "ok" \/ ~checked(r)
                      \/ r.address.ip # NONE /\ r.address.mask = NONE
           brought == Brought(r, y, LAMBDA brought : Joining(r, brought))
           rest == IF refused THEN <<Refuse>> ELSE brought
           after == IF r.bring THEN 1 + (Len(bring_access_point(nearest(seen[4].data), r)) + Len(apply_radio(r)))
                    ELSE Len(apply_radio(r))
<1>1. connect_wireless(r, seen) = IF Len(seen) < Len(first) THEN first ELSE first \o rest
  BY Zenon DEF connect_wireless, Then, Joining, Awaiting
<1>2. AllowedPlan(first, may)
  BY Zenon, Asking, Harmless, PlanOfThree DEF has_process
<1>3. Len(first) = 3
  OBVIOUS
<1>4. after \in Nat /\ b = 3 + after
  <2>1. after \in Nat
    BY RadioAllowed, BringAllowed
  <2>2. QED BY Zenon, <2>1 DEF EditStart
<1> HIDE DEF first, got
<1>5. ASSUME LeftFrom(y, seen, 0 + Len(first)) PROVE EditsAt(rest, Len(y), after, may)
  <2>1. LeftFrom(y, seen, 3)
    <3>1. 0 + 3 = 3
      OBVIOUS
    <3>2. QED BY Zenon, <1>3, <1>5, <3>1
  <2> HIDE DEF y
  <2>2. EditsAt(brought, Len(y), after, ProfiledFiles(r, seen, b))
    BY Zenon, <2>1, FetchingEdits
  <2>3. ~refused => may = ProfiledFiles(r, seen, b)
    BY Zenon DEF ConnectFiles
  <2> HIDE DEF refused, brought, after, may
  <2>4. QED BY Zenon, <1>4, <2>2, <2>3, EditsNever
<1>6. LeftFrom(seen, seen, 0) /\ y = SubSeq(seen, Len(first) + 1, Len(seen))
  BY Zenon, AllLeft
<1> HIDE DEF y, rest, after, may
<1>7. EditsAt(connect_wireless(r, seen), Len(seen), Len(first) + after, may)
  BY Zenon, <1>1, <1>2, <1>4, <1>5, <1>6, EditsThen
<1>8. QED BY Zenon, <1>3, <1>4, <1>7 DEF may

\* A profile that was checked fits the file it is written into.
LEMMA ProfileWritten ==
  ASSUME NEW doc, WirelessFits(doc), NEW r, checked(r), r.security \in {"open", "wep", "wpa_psk", "wpa2_psk"},
         NEW dev, set_client_profile(doc, dev, Profile(r)).ok
  PROVE  WirelessFits(set_client_profile(doc, dev, Profile(r)).doc)
<1> DEFINE profile == Profile(r)
           written == [doc.profile EXCEPT ![dev] = profile]
           q == [doc EXCEPT !.profile = written]
<1>1. set_client_profile(doc, dev, profile) = Edited([doc EXCEPT !.profile[dev] = profile]) /\ dev \in Clients
  <2>1. ~Impossible.ok
    BY Zenon DEF Impossible
  <2>2. QED BY Zenon, <2>1 DEF set_client_profile
<1>2. [doc EXCEPT !.profile[dev] = profile] = q
  BY Zenon
<1>3. Edited(q).doc = q
  BY Zenon DEF Edited
<1>4. profile.types = Types(r) /\ profile.key = r.key
  BY Zenon DEF Profile
<1>5. Types(r) \in Wired(r.key)
  <2>1. Types(r) \in wire(r.security, r.key)
    <3> DEFINE W == wire(r.security, r.key)
    <3>1. W # {} /\ Types(r) = CHOOSE types \in W : TRUE
      BY Zenon DEF checked, Types
    <3> HIDE DEF W
    <3>2. Types(r) \in W
      BY <3>1
    <3>3. QED BY <3>2 DEF W
  <2>2. QED BY Zenon, <2>1 DEF Wired
<1> HIDE DEF profile
<1>6. ProfilesFit(written)
  <2>1. ProfilesFit(doc.profile)
    BY Zenon DEF WirelessFits
  <2> DEFINE was == doc.profile
  <2>2. DOMAIN was = Clients /\ \A c \in Clients : was[c].types \in Wired(was[c].key)
    BY Zenon, <2>1 DEF ProfilesFit
  <2> HIDE DEF was
  <2> DEFINE now == [was EXCEPT ![dev] = profile]
  <2>3. DOMAIN now = Clients /\ now[dev] = profile /\ \A c \in Clients : c # dev => now[c] = was[c]
    BY <1>1, <2>2
  <2> HIDE DEF now
  <2>4. \A c \in Clients : now[c].types \in Wired(now[c].key)
    BY Zenon, <1>4, <1>5, <2>2, <2>3
  <2>5. QED BY Zenon, <2>3, <2>4 DEF ProfilesFit, now, was
<1> HIDE DEF written
<1>7. WirelessFits(q)
  <2>1. /\ {"part", "open", "at", "radio", "profile", "associated", "hosts"} \subseteq DOMAIN doc /\ doc.part = "wireless"
        /\ PortsFit(doc.hosts) /\ \A c \in Clients : doc.associated[c] \in AccessPoints \cup {NoAp}
    BY DEF WirelessFits
  <2>2. /\ {"part", "open", "at", "radio", "profile", "associated", "hosts"} \subseteq DOMAIN q /\ q.part = "wireless"
        /\ q.hosts = doc.hosts /\ q.profile = written /\ q.associated = doc.associated
    BY <2>1
  <2> HIDE DEF q
  <2>3. QED BY Zenon, <1>6, <2>1, <2>2 DEF WirelessFits
<1>8. QED BY Zenon, <1>1, <1>2, <1>3, <1>7 DEF profile

LEMMA AccessPointPlan ==
  ASSUME NEW may, NEW r, NEW seen, IsSeq(seen)
  PROVE  AllowedPlan(configure_access_point(r, seen), may)
<1> DEFINE first == <<Ask("describe", r.dev), has_process(r.dev, "ap")>>
           radio == apply_radio(r)
           shown == <<Tell("setSsidBrdCastEnabled", r.dev, r.broadcast), Ask("read_radio", r.dev),
                      Ask("isSsidBrdCastEnabled", r.dev)>>
<1>1. \/ configure_access_point(r, seen) = first
      \/ configure_access_point(r, seen) = first \o <<Refuse>>
      \/ configure_access_point(r, seen) = first \o (radio \o shown)
  BY Zenon DEF configure_access_point, Then
<1>2. AllowedPlan(first, may)
  BY Zenon, Asking, Harmless, PlanOfTwo DEF has_process
<1>3. AllowedPlan(radio, may)
  BY Zenon, RadioAllowed
<1>4. AllowedPlan(shown, may)
  BY Zenon, Asking, PlanOfThree
<1>5. AllowedPlan(<<Refuse>>, may)
  BY Zenon, RefusingAllowed, PlanOfOne
<1> HIDE DEF first, radio, shown
<1>6. AllowedPlan(radio \o shown, may)
  BY Zenon, <1>3, <1>4, PlansJoin
<1>7. QED BY Zenon, <1>1, <1>2, <1>5, <1>6, PlansJoin

LEMMA WirelessStatusPlan ==
  ASSUME NEW may, NEW r, NEW seen, IsSeq(seen)
  PROVE  AllowedPlan(wireless_status(r, seen), may)
<1> DEFINE first == <<Ask("describe", r.dev), has_process(r.dev, "ap")>>
           ap == <<Ask("read_radio", r.dev), Ask("isSsidBrdCastEnabled", r.dev)>>
           asked == <<has_process(r.dev, "client"), Try("radio_port", r.dev, <<>>)>>
           client == <<Ask("read_radio", r.dev), Ask("getCurrentApMac", r.dev)>>
<1>1. \/ wireless_status(r, seen) = first
      \/ wireless_status(r, seen) = first \o ap
      \/ wireless_status(r, seen) = first \o asked
      \/ wireless_status(r, seen) = first \o (asked \o <<Refuse>>)
      \/ wireless_status(r, seen) = first \o (asked \o client)
  BY Zenon DEF wireless_status, Then
<1>2. AllowedPlan(first, may) /\ AllowedPlan(asked, may)
  BY Zenon, Asking, Harmless, PlanOfTwo DEF has_process
<1>3. AllowedPlan(ap, may) /\ AllowedPlan(client, may)
  BY Zenon, Asking, PlanOfTwo
<1>4. AllowedPlan(<<Refuse>>, may)
  BY Zenon, RefusingAllowed, PlanOfOne
<1> HIDE DEF first, ap, asked, client
<1>5. AllowedPlan(asked \o <<Refuse>>, may) /\ AllowedPlan(asked \o client, may)
  BY Zenon, <1>2, <1>3, <1>4, PlansJoin
<1>6. QED BY Zenon, <1>1, <1>2, <1>3, <1>5, PlansJoin

\* What connect_wireless has been answered that its plan depends on.
WirelessHeard(c) ==
  LET b == EditStart(c.req, c.seen) IN
  c.req.tool = "connect_wireless" =>
    /\ Len(c.seen) >= b + 2 => WirelessFits(c.seen[b + 2].data)
    /\ Len(c.seen) >= b + 5 => c.seen[b + 5].data = {}

WirelessCalls(calls) == \A t \in Tasks : WirelessHeard(calls[t])

\* Whatever a wireless tool has been answered, the file it opens is one that fits.
LEMMA WirelessPlans ==
  ASSUME "wireless" \in DOMAIN Asks, NEW c, ToolCallFits("wireless", c), c.on, WirelessHeard(c)
  PROVE  /\ \E may : (\A f \in may : WirelessFits(f)) /\ Allowed(c.next, may)
         /\ c.req.tool = "connect_wireless" =>
              /\ Len(c.seen) = EditStart(c.req, c.seen) + 1 => c.next \in {Ask("fileSaveToBytes", ""), Idle.next}
              /\ Len(c.seen) = EditStart(c.req, c.seen) + 4 => c.next \in {Ask("list_devices", ""), Idle.next}
<1> DEFINE r == c.req
           seen == c.seen
           n == Len(seen)
           plan == WirelessPlan(r, seen)
           b == EditStart(r, seen)
<1>1. r \in Asks["wireless"] /\ IsSeq(seen) /\ c.next = ItemAfter(plan, n)
  BY Zenon DEF ToolCallFits, PlanIn
<1>2. n \in Nat
  BY Zenon, <1>1, SequenceLaws
<1>3. /\ r.tool \in {"configure_access_point", "connect_wireless", "wireless_status"}
      /\ r.tool = "connect_wireless" => r.security \in {"open", "wep", "wpa_psk", "wpa2_psk"}
  BY Zenon, <1>1, AsksAssumption
<1>4. CASE r.tool \in {"configure_access_point", "wireless_status"}
  <2>1. plan = configure_access_point(r, seen) \/ plan = wireless_status(r, seen)
    BY Zenon, <1>4 DEF WirelessPlan
  <2>2. AllowedPlan(plan, {})
    BY Zenon, <1>1, <2>1, AccessPointPlan, WirelessStatusPlan
  <2>3. Allowed(c.next, {}) /\ \A f \in {} : WirelessFits(f)
    BY Zenon, <1>1, <1>2, <2>2, NextAllowed
  <2>4. r.tool # "connect_wireless"
    BY <1>4
  <2>5. QED BY Zenon, <2>3, <2>4
<1>5. CASE r.tool = "connect_wireless"
  <2> DEFINE may == ConnectFiles(r, seen)
  <2>1. plan = connect_wireless(r, seen)
    BY Zenon, <1>5 DEF WirelessPlan
  <2>2. n >= b + 5 => seen[b + 5].data = {}
    BY Zenon, <1>5 DEF WirelessHeard
  <2>3. EditsAt(plan, n, b, may)
    BY Zenon, <1>1, <2>1, <2>2, ConnectPlans
  <2>4. ASSUME NEW f \in may PROVE WirelessFits(f)
    <3>1. /\ checked(r) /\ f \in ProfiledFiles(r, seen, b)
      <4>1. \A x \in {} : FALSE
        OBVIOUS
      <4>2. QED BY Zenon, <4>1 DEF ConnectFiles
    <3> DEFINE doc == seen[b + 2].data
    <3>2. n >= b + 2 /\ set_client_profile(doc, r.dev, Profile(r)).ok /\ f = set_client_profile(doc, r.dev, Profile(r)).doc
      BY Zenon, <3>1 DEF ProfiledFiles
    <3>3. WirelessFits(doc)
      BY Zenon, <1>5, <3>2 DEF WirelessHeard
    <3> HIDE DEF doc, r
    <3>4. r.security \in {"open", "wep", "wpa_psk", "wpa2_psk"}
      BY Zenon, <1>3, <1>5
    <3>5. QED BY Zenon, <3>1, <3>2, <3>3, <3>4, ProfileWritten
  <2>5. Allowed(c.next, may)
    BY Zenon, <1>1, <1>2, <2>3, NextAllowed DEF EditsAt
  <2> HIDE DEF may
  <2>6. QED BY Zenon, <1>1, <2>3, <2>4, <2>5 DEF EditsAt
<1>6. QED BY Zenon, <1>3, <1>4, <1>5

LEMMA WirelessNothingHeard ==
  ASSUME NEW c, c.seen = <<>>
  PROVE  WirelessHeard(c)
<1> DEFINE b == EditStart(c.req, c.seen)
<1>1. b \in Nat
  <2> DEFINE k == Len(apply_radio(c.req))
             l == Len(bring_access_point(nearest(c.seen[4].data), c.req))
  <2>1. k \in Nat /\ l \in Nat
    BY RadioAllowed, BringAllowed
  <2>2. b = 3 + IF c.req.bring THEN 1 + (l + k) ELSE k
    BY Zenon DEF EditStart
  <2> HIDE DEF k, l, b
  <2>3. QED BY <2>1, <2>2
<1> HIDE DEF b
<1>2. ~(Len(<<>>) >= b + 2) /\ ~(Len(<<>>) >= b + 5)
  BY <1>1
<1>3. QED BY Zenon, <1>2 DEF WirelessHeard, b

LEMMA WirelessHeardMore ==
  ASSUME NEW c, IsSeq(c.seen), NEW d, NEW reply, Hears(c, d, reply), WirelessHeard(c),
         c.req.tool = "connect_wireless" /\ Len(c.seen) = EditStart(c.req, c.seen) + 1 => WirelessFits(reply.data),
         c.req.tool = "connect_wireless" /\ Len(c.seen) = EditStart(c.req, c.seen) + 4 => reply.data = {}
  PROVE  WirelessHeard(d)
<1> DEFINE n == Len(c.seen)
           b == EditStart(c.req, c.seen)
           e == EditStart(d.req, d.seen)
           radio == Len(apply_radio(c.req))
           first == Len(bring_access_point(nearest(c.seen[4].data), c.req))
           now == Len(bring_access_point(nearest(d.seen[4].data), c.req))
<1>1. /\ d.req = c.req /\ n \in Nat /\ Len(d.seen) = n + 1
      /\ \A k \in 1..n : d.seen[k] = c.seen[k]
      /\ d.seen[n + 1] = reply
  BY Zenon, OneAnswerMore
<1>2. radio \in {3, 4} /\ first \in Nat /\ now \in Nat
  BY RadioAllowed, BringAllowed
<1>3. /\ b = 3 + IF c.req.bring THEN 1 + (first + radio) ELSE radio
      /\ e = 3 + IF c.req.bring THEN 1 + (now + radio) ELSE radio
  BY Zenon, <1>1 DEF EditStart
<1>4. d.seen[4] = c.seen[4] => now = first
  BY Zenon
<1> HIDE DEF n, b, e, radio, first, now
<1>5. b \in Nat /\ e \in Nat /\ e >= 6
  BY <1>2, <1>3
<1>6. CASE n < 4
  <2>1. ~(n + 1 >= e + 2) /\ ~(n + 1 >= e + 5)
    BY <1>1, <1>5, <1>6
  <2>2. QED BY Zenon, <1>1, <2>1 DEF WirelessHeard, e
<1>7. CASE n >= 4
  <2>1. d.seen[4] = c.seen[4]
    BY <1>1, <1>7
  <2>2. e = b
    BY Zenon, <1>3, <1>4, <2>1
  <2>3. ASSUME c.req.tool = "connect_wireless", n + 1 >= b + 2 PROVE WirelessFits(d.seen[b + 2].data)
    <3>1. CASE n = b + 1
      <4>1. d.seen[b + 2] = reply
        <5>1. b + 2 = n + 1
          BY <1>5, <3>1
        <5>2. QED BY Zenon, <1>1, <5>1
      <4>2. QED BY Zenon, <2>3, <3>1, <4>1 DEF n, b
    <3>2. CASE n >= b + 2
      <4>1. d.seen[b + 2] = c.seen[b + 2]
        <5>1. b + 2 \in 1..n
          BY <1>1, <1>5, <3>2
        <5>2. QED BY Zenon, <1>1, <5>1
      <4>2. QED BY Zenon, <2>3, <3>2, <4>1 DEF WirelessHeard, n, b
    <3>3. n = b + 1 \/ n >= b + 2
      BY <1>1, <1>5, <2>3
    <3>4. QED BY <3>1, <3>2, <3>3
  <2>4. ASSUME c.req.tool = "connect_wireless", n + 1 >= b + 5 PROVE d.seen[b + 5].data = {}
    <3>1. CASE n = b + 4
      <4>1. d.seen[b + 5] = reply
        <5>1. b + 5 = n + 1
          BY <1>5, <3>1
        <5>2. QED BY Zenon, <1>1, <5>1
      <4>2. QED BY Zenon, <2>4, <3>1, <4>1 DEF n, b
    <3>2. CASE n >= b + 5
      <4>1. d.seen[b + 5] = c.seen[b + 5]
        <5>1. b + 5 \in 1..n
          BY <1>1, <1>5, <3>2
        <5>2. QED BY Zenon, <1>1, <5>1
      <4>2. QED BY Zenon, <2>4, <3>2, <4>1 DEF WirelessHeard, n, b
    <3>3. n = b + 4 \/ n >= b + 5
      BY <1>1, <1>5, <2>4
    <3>4. QED BY <3>1, <3>2, <3>3
  <2>5. QED BY Zenon, <1>1, <2>2, <2>3, <2>4 DEF WirelessHeard, e
<1>8. QED BY <1>1, <1>6, <1>7

LEMMA WirelessKept ==
  ASSUME pt.part = "wireless", "wireless" \in DOMAIN Asks, WirelessFits(pt), ToolCallsFit(pt.part, toolcall),
         WirelessCalls(toolcall), [ToolNext]_toolvars
  PROVE  WirelessFits(pt') /\ WirelessCalls(toolcall')
<1>1. ASSUME NEW t \in Tasks, AtWork(t)
      PROVE  /\ ToolCallFits("wireless", toolcall[t]) /\ toolcall[t].on /\ WirelessHeard(toolcall[t])
             /\ Answer(pt, toolcall[t].next) = WirelessAnswer(pt, toolcall[t].next)
  <2>1. ToolCallFits("wireless", toolcall[t]) /\ toolcall[t].on /\ WirelessHeard(toolcall[t])
    BY Zenon, <1>1 DEF ToolCallsFit, WirelessCalls, AtWork
  <2>2. Answer(pt, toolcall[t].next) = WirelessAnswer(pt, toolcall[t].next)
    BY Zenon DEF Answer
  <2>3. QED BY <2>1, <2>2
<1>2. WirelessFits(pt')
  <2>1. ASSUME NEW t \in Tasks, AtWork(t)
        PROVE  WirelessFits(Answer(pt, toolcall[t].next).pt)
    <3> DEFINE item == toolcall[t].next
    <3>1. \E may : (\A f \in may : WirelessFits(f)) /\ Allowed(item, may)
      BY Zenon, <1>1, <2>1, WirelessPlans
    <3>2. PICK may : (\A f \in may : WirelessFits(f)) /\ Allowed(item, may)
      BY Zenon, <3>1
    <3>3. WirelessFits(WirelessAnswer(pt, item).pt)
      BY Zenon, <3>2, WirelessAnswers
    <3>4. QED BY Zenon, <1>1, <2>1, <3>3
  <2>2. Settled(pt) = WirelessSettles(pt)
    BY Zenon DEF Settled
  <2>3. QED BY Zenon, <2>1, <2>2, StepsAreAnswers, WirelessSettled
<1>3. ToolCallsFit(pt.part, toolcall') /\ \A o \in Tasks : CallMoves(o)
  BY Zenon, ToolCallsKept DEF Planned
<1>4. ASSUME NEW t \in Tasks
      PROVE  WirelessHeard(toolcall'[t])
  <2> DEFINE c == toolcall[t]
             d == toolcall'[t]
             item == c.next
             answer == Answer(pt, item)
  <2>1. WirelessHeard(c) /\ IsSeq(c.seen)
    BY Zenon DEF WirelessCalls, ToolCallsFit, ToolCallFits
  <2>2. CASE CallEnds(t) \/ CallBegins(t)
    <3>1. d.seen = <<>>
      BY Zenon, <1>3, <2>2 DEF ToolCallsFit, ToolCallFits, CallEnds, CallBegins
    <3>2. QED BY Zenon, <3>1, WirelessNothingHeard
  <2>3. CASE Same(c, d)
    <3>1. d.req = c.req /\ d.seen = c.seen
      BY Zenon, <2>3 DEF Same
    <3>2. QED BY Zenon, <2>1, <3>1 DEF WirelessHeard
  <2>4. ASSUME AtWork(t), NEW reply, Hears(c, d, reply), item # Idle.next,
               \A op, at, val : item = Tell(op, at, val) =>
                 (op = "fileSaveToBytes" => reply.data = pt) /\ (op = "list_devices" => reply.data = {})
        PROVE  WirelessHeard(d)
    <3>1. c.req.tool = "connect_wireless" =>
            /\ Len(c.seen) = EditStart(c.req, c.seen) + 1 => c.next \in {Ask("fileSaveToBytes", ""), Idle.next}
            /\ Len(c.seen) = EditStart(c.req, c.seen) + 4 => c.next \in {Ask("list_devices", ""), Idle.next}
      BY Zenon, <1>1, <2>4, WirelessPlans
    <3>2. c.req.tool = "connect_wireless" /\ Len(c.seen) = EditStart(c.req, c.seen) + 1 => WirelessFits(reply.data)
      BY Zenon, <2>4, <3>1 DEF Ask
    <3>3. c.req.tool = "connect_wireless" /\ Len(c.seen) = EditStart(c.req, c.seen) + 4 => reply.data = {}
      BY Zenon, <2>4, <3>1 DEF Ask
    <3> HIDE DEF c, d, item
    <3>4. WirelessHeard(d)
      BY Zenon, <2>1, <2>4, <3>2, <3>3, WirelessHeardMore
    <3>5. QED BY <3>4 DEF d
  <2>5. CASE CallHears(t)
    <3>1. AtWork(t) /\ answer.is \in item.need /\ Hears(c, d, Told(answer))
      BY Zenon, <2>5 DEF CallHears
    <3>2. answer = WirelessAnswer(pt, item)
      BY Zenon, <1>1, <3>1
    <3>3. item # Idle.next
      BY Zenon, <3>1, NoneIsAsked
    <3>4. \A op, at, val : item = Tell(op, at, val) =>
            (op = "fileSaveToBytes" => answer.data = pt) /\ (op = "list_devices" => answer.data = {})
      <4>1. \A op, at, val : Tell(op, at, val).op = op
        BY Zenon DEF Tell, Item
      <4> HIDE DEF item, answer
      <4>2. (item.op = "fileSaveToBytes" => answer.data = pt) /\ (item.op = "list_devices" => answer.data = {})
        BY Zenon, <3>2, WirelessReplies
      <4>3. ASSUME NEW op, NEW at, NEW val, item = Tell(op, at, val) PROVE item.op = op
        BY Zenon, <4>1, <4>3
      <4>4. QED BY Zenon, <4>2, <4>3
    <3>5. Told(answer).data = answer.data
      BY DEF Told
    <3> DEFINE reply == Told(answer)
    <3> HIDE DEF reply, answer
    <3>6. Hears(c, d, reply) /\ reply.data = answer.data
      BY <3>1, <3>5 DEF reply
    <3>7. QED BY Zenon, <2>4, <3>1, <3>3, <3>4, <3>6
  <2>6. CASE CallMisses(t)
    <3> DEFINE reply == [is |-> "lost", data |-> ""]
    <3>1. AtWork(t) /\ item.soft /\ Hears(c, d, reply)
      BY Zenon, <2>6 DEF CallMisses
    <3>2. item # Idle.next /\ \A op, at, val : item # Tell(op, at, val)
      <4>1. \A op, at, val : ~Tell(op, at, val).soft
        BY Zenon, ItemsAsk
      <4> HIDE DEF item
      <4>2. QED BY Zenon, <3>1, <4>1, NoneIsAsked
    <3> HIDE DEF reply
    <3>3. QED BY Zenon, <2>4, <3>1, <3>2
  <2>7. QED BY Zenon, <1>3, <2>2, <2>3, <2>5, <2>6 DEF CallMoves
<1>5. QED BY Zenon, <1>2, <1>4 DEF WirelessCalls

----------------------------------------------------------------------------
\* The parts together.

\* What Packet Tracer holds and what the calls ask of it, in the parts that the tools'
\* plans keep well-formed and in those that Packet Tracer keeps so itself.
ToolsFit ==
  \/ Fits(pt)
  \/ "hosts" \in DOMAIN Asks /\ HostsFit(pt) /\ ToolCallsFit("hosts", toolcall)
  \/ "canvas" \in DOMAIN Asks /\ CanvasFits(pt) /\ ToolCallsFit("canvas", toolcall) /\ CanvasCalls(pt, toolcall)
  \/ "wireless" \in DOMAIN Asks /\ WirelessFits(pt) /\ ToolCallsFit("wireless", toolcall) /\ WirelessCalls(toolcall)

LEMMA ToolsBegin ==
  ASSUME ToolInit, pt.part \notin {"physical", "ipc"}
  PROVE  ToolsFit
<1>1. PICK part \in DOMAIN Asks : pt \in Begins(part)
  BY Zenon DEF ToolInit
<1>2. part \in {"links", "hosts", "services", "desktop", "physical", "wireless", "simulation",
                "preferences", "activity", "canvas", "modules", "ipc"}
  BY Zenon, AsksAssumption
<1>3. ASSUME NEW t \in Tasks
      PROVE  toolcall[t].seen = <<>>
  <2>1. Idle.seen = <<>>
    BY Zenon DEF Idle
  <2>2. QED BY Zenon, <2>1 DEF ToolInit
<1>4. ToolCallsFit("hosts", toolcall) /\ ToolCallsFit("canvas", toolcall) /\ ToolCallsFit("wireless", toolcall)
  BY Zenon, IdleFits DEF ToolInit, ToolCallsFit
<1>5. CASE part = "hosts"
  BY Zenon, <1>1, <1>4, <1>5, HostsBegin DEF Begins, ToolsFit
<1>6. CASE part = "canvas"
  <2>1. CanvasFits(pt)
    BY Zenon, <1>1, <1>6, CanvasBegins DEF Begins
  <2>2. CanvasCalls(pt, toolcall)
    BY Zenon, <1>3, NothingHeard DEF CanvasCalls
  <2>3. QED BY Zenon, <1>1, <1>4, <1>6, <2>1, <2>2 DEF ToolsFit
<1>7. CASE part = "wireless"
  <2>1. WirelessFits(pt)
    BY Zenon, <1>1, <1>7, WirelessBegins DEF Begins
  <2>2. WirelessCalls(toolcall)
    BY Zenon, <1>3, WirelessNothingHeard DEF WirelessCalls
  <2>3. QED BY Zenon, <1>1, <1>4, <1>7, <2>1, <2>2 DEF ToolsFit
<1>8. CASE part \in {"physical", "ipc"}
  <2>1. CASE part = "physical"
    <3>1. pt \in PhysicalInit
      BY Zenon, <1>1, <2>1 DEF Begins
    <3>2. PICK nodes : pt = [part |-> "physical", physical |-> FALSE, logical |-> "", gen |-> 0, nodes |-> nodes]
      BY Zenon, <3>1 DEF PhysicalInit
    <3>3. QED BY Zenon, <3>2
  <2>2. CASE part = "ipc"
    <3>1. pt \in IpcInit
      BY Zenon, <1>1, <2>2 DEF Begins
    <3>2. pt.part = "ipc"
      BY <3>1 DEF IpcInit
    <3>3. QED BY <3>2
  <2>3. QED BY Zenon, <1>8, <2>1, <2>2
<1>9. CASE part \in {"links", "services", "desktop", "simulation", "preferences", "activity", "modules"}
  <2>1. pt.part = part
    BY Zenon, <1>1, <1>9, PreferencesBegin, ActivityBegins, LinksBegin, ServicesBegin, DesktopBegins, SimulationBegins, SlotsBegin
       DEF Begins, PreferencesFit, ActivityFits, LinksFit, ServicesFit, DesktopFits, SimulationFits, SlotsFit
  <2>2. pt.part \in SelfKept
    BY Zenon, <1>9, <2>1 DEF SelfKept
  <2>3. QED BY Zenon, <2>2, PartsBegin DEF ToolsFit
<1>10. QED BY Zenon, <1>2, <1>5, <1>6, <1>7, <1>8, <1>9

LEMMA ToolsKept ==
  ASSUME ToolsFit, [ToolNext]_toolvars
  PROVE  ToolsFit'
<1>1. CASE Fits(pt)
  BY Zenon, <1>1, PartsKept DEF ToolsFit
<1>2. CASE "hosts" \in DOMAIN Asks /\ HostsFit(pt) /\ ToolCallsFit("hosts", toolcall)
  <2>1. pt.part = "hosts"
    BY Zenon, <1>2 DEF HostsFit
  <2>2. HostsFit(pt') /\ ToolCallsFit("hosts", toolcall')
    BY Zenon, <1>2, <2>1, HostsKept, ToolCallsKept DEF Planned
  <2>3. QED BY Zenon, <1>2, <2>2 DEF ToolsFit
<1>3. CASE "canvas" \in DOMAIN Asks /\ CanvasFits(pt) /\ ToolCallsFit("canvas", toolcall) /\ CanvasCalls(pt, toolcall)
  <2>1. pt.part = "canvas"
    BY Zenon, <1>3 DEF CanvasFits
  <2>2. CanvasFits(pt') /\ CanvasCalls(pt', toolcall') /\ ToolCallsFit("canvas", toolcall')
    BY Zenon, <1>3, <2>1, CanvasKept, ToolCallsKept DEF Planned
  <2>3. QED BY Zenon, <1>3, <2>2 DEF ToolsFit
<1>4. CASE "wireless" \in DOMAIN Asks /\ WirelessFits(pt) /\ ToolCallsFit("wireless", toolcall) /\ WirelessCalls(toolcall)
  <2>1. pt.part = "wireless"
    BY Zenon, <1>4 DEF WirelessFits
  <2>2. WirelessFits(pt') /\ WirelessCalls(toolcall') /\ ToolCallsFit("wireless", toolcall')
    BY Zenon, <1>4, <2>1, WirelessKept, ToolCallsKept DEF Planned
  <2>3. QED BY Zenon, <1>4, <2>2 DEF ToolsFit
<1>5. QED BY Zenon, <1>1, <1>2, <1>3, <1>4 DEF ToolsFit

LEMMA ToolsAreSound ==
  ASSUME ToolsFit
  PROVE  Sound(pt)
<1>1. CASE HostsFit(pt)
  BY Zenon, <1>1, PortsAreSound DEF HostsFit, Sound
<1>2. CASE CanvasFits(pt)
  BY Zenon, <1>2, CanvasFitsIsSound DEF CanvasFits, Sound
<1>3. CASE WirelessFits(pt)
  BY Zenon, <1>3, WirelessFitsIsSound DEF WirelessFits, Sound
<1>4. QED BY Zenon, <1>1, <1>2, <1>3, FitsIsSound DEF ToolsFit

\* The devices, or the part a behaviour is about.
NetworkFitsAll == Inductive /\ (pt.part # "none" => ToolsFit)

\* Whatever is asked of the network, by however many MCP calls at once, whichever calls or
\* answers are lost and whatever the network does by itself: the devices are listed in
\* their order under their types, a host's address is one its subnet has, the profiles of
\* the wireless clients are ones their security allows, notes and shapes keep ids of their
\* own, and the parts Packet Tracer keeps itself stay well-formed.
THEOREM NetworkStaysSound == NetworkSpec /\ pt.part \notin {"physical", "ipc"} => []NetworkIsSound
<1>1. NetworkInit /\ pt.part \notin {"physical", "ipc"} => NetworkFitsAll
  <2>1. NoTool => pt.part = "none"
    BY DEF NoTool
  <2>2. QED BY Zenon, <2>1, NothingIsThere, ToolsBegin DEF NetworkInit, NetworkFitsAll
<1>2. NetworkFitsAll /\ [NetworkNext]_<<vars, toolvars>> => NetworkFitsAll'
  <2> SUFFICES ASSUME NetworkFitsAll, [NetworkNext]_<<vars, toolvars>>
               PROVE  NetworkFitsAll'
    OBVIOUS
  <2>1. [Next]_vars
    BY Zenon DEF NetworkNext
  <2>2. Inductive'
    BY Zenon, <2>1, NextKeeps DEF NetworkFitsAll
  <2>3. pt' = pt \/ (pt.part # "none" /\ [ToolNext]_toolvars)
    BY Zenon DEF NetworkNext, toolvars
  <2>4. CASE pt.part # "none" /\ [ToolNext]_toolvars
    BY Zenon, <2>2, <2>4, ToolsKept DEF NetworkFitsAll
  <2>5. CASE ~(pt.part # "none")
    <3>1. pt' = pt
      BY Zenon, <2>3, <2>5
    <3>2. QED BY Zenon, <2>2, <2>5, <3>1 DEF NetworkFitsAll
  <2>6. CASE pt.part # "none" /\ ~[ToolNext]_toolvars
    BY Zenon, <2>6 DEF NetworkNext, toolvars
  <2>7. QED BY Zenon, <2>4, <2>5, <2>6
<1>3. NetworkFitsAll => NetworkIsSound
  BY Zenon, TypesFit, ToolsAreSound DEF NetworkFitsAll, NetworkIsSound
<1>4. QED BY <1>1, <1>2, <1>3, PTL DEF NetworkSpec
=============================================================================

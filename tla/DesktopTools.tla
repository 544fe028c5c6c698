---------------------------- MODULE DesktopTools ----------------------------
(***************************************************************************)
(* The Desktop apps of an end device (features/desktop): the Web Browser,  *)
(* the Email and VPN apps and the text files, against the server of        *)
(* ServiceTools.                                                           *)
(*                                                                         *)
(* The browser and the mail clients answer with an event of their object.  *)
(* Every listener to that object hears it, whichever call raised it, and   *)
(* it may come after the listener has stopped waiting.  The subscription   *)
(* is one for all of them: the first listener to stop withdraws it.        *)
(***************************************************************************)
EXTENDS ServiceTools

CONSTANTS
  Desktops,      \* end devices that have the apps
  VPN_POLLS,     \* how often the tunnel is looked at before the deadline
  MaxMails       \* bound: mails a receiver waits for

\* The account's fields, in the order they are set; `name` may be left empty.
FIELDS == <<"name", "email", "username", "password", "incoming_server", "outgoing_server">>

Fields == {FIELDS[k] : k \in DOMAIN FIELDS}

\* App::open: an end device that has the process.
open(dev) == <<Must("app", dev, <<>>), Must("getObjectUuid", dev, <<>>)>>

\* A listener to the events of an object: its start and stop, and the next event after that
\* position, "no" when the deadline passes first.
Object(dev, class) == [dev |-> dev, class |-> class]

Listen(dev, class) == <<Ask("getObjectUuid", dev), Ask("subscribe", Object(dev, class))>>

NextEvent(dev, class, position) == Tell("next", Object(dev, class), position)

Stop(dev, class) == Try("unsubscribe", Object(dev, class), <<>>)

\* A failure is held back until the listener has been stopped.
HeldBack(item) == [item EXCEPT !.soft = TRUE]

\* async { action; listener.next() }.await; listener.stop(); outcome?
\* The first of Packet Tracer's answers is the listener's start.
Heeded(dev, class, action, seen, Rest(_)) ==
  Then(Listen(dev, class) \o <<HeldBack(action)>>, seen, LAMBDA begun, more :
    IF begun[3].is = "lost" THEN <<Stop(dev, class), Refuse>>
    ELSE Then(<<HeldBack(NextEvent(dev, class, begun[2].data)), Stop(dev, class)>>, more,
              LAMBDA heard, rest : IF heard[1].is = "lost" THEN <<Refuse>> ELSE Rest(heard[1])))

\* The browser takes the next onDone of the device's HTTP client for its own.
browse_web(r, seen) ==
  Then(Check(r.url.host # "") \o open(r.dev) \o <<Tell("setHttps", r.dev, FALSE)>>, seen,
       LAMBDA got, more :
         Heeded(r.dev, "http", Tell("go", r.dev, r.url), more,
                LAMBDA done : When(done.is = "no", <<Tell("cancel", r.dev, <<>>), Refuse>>)))

configure_email(r, seen) ==
  Check(\A f \in Fields : r.account[f] # "")
  \o open(r.dev)
  \o [k \in DOMAIN FIELDS |-> Tell("setField", [dev |-> r.dev, field |-> FIELDS[k]],
                                   r.account[FIELDS[k]])]
  \o <<Ask("account", r.dev)>>

\* configured(app): the account must be complete; what was read is used from then on.
Configured(account) == \A f \in Fields \ {"name"} : account[f] # ""

WithAccount(r, seen, Tool(_, _)) ==
  Then(open(r.dev) \o <<Ask("account", r.dev)>>, seen,
       LAMBDA got, more : IF Configured(got[Len(got)].data)
                          THEN Tool(got[Len(got)].data, more) ELSE <<Refuse>>)

\* The sender takes the next mailSent of the device for its own mail's.
send_email(r, seen) ==
  WithAccount(r, seen, LAMBDA account, more :
    Heeded(r.dev, "smtp", Tell("sendMail", r.dev, [account |-> account, to |-> r.to, body |-> r.body]), more,
           LAMBDA sent : Check(sent.is # "no" /\ sent.data.event.status = "ok")))

\* Mails are taken as they come until none has come for a while or fetching failed.
Fetching(reply) == reply.is = "ok" /\ reply.data.event.status = "ok"

receive_email(r, seen) ==
  WithAccount(r, seen, LAMBDA account, more :
    Then(Listen(r.dev, "pop3") \o <<HeldBack(Tell("getMailIpc", r.dev, <<>>))>>, more,
         LAMBDA begun, mails :
           IF begun[3].is = "lost" THEN <<Stop(r.dev, "pop3"), Refuse>>
           ELSE LET polls == Polls(LAMBDA k : HeldBack(NextEvent(r.dev, "pop3",
                                                IF k = 1 THEN begun[2].data ELSE mails[k - 1].data.at)),
                                   MaxMails + 1, mails, LAMBDA reply : ~Fetching(reply)) IN
                Then(polls \o <<Stop(r.dev, "pop3")>>, mails,
                     LAMBDA heard, rest : Check(\A k \in DOMAIN polls : heard[k].is = "no" \/ Fetching(heard[k])))))

\* wait_until: the flag is looked at until it is as wanted or time is up.
WaitUntil(dev, connected, seen) ==
  Polls(LAMBDA k : Ask("isConnected", dev), VPN_POLLS, seen,
        LAMBDA reply : (reply.is = "yes") = connected)

\* Whether the last look found it so.
Reached(connected, seen) == seen # <<>> /\ (seen[Len(seen)].is = "yes") = connected

vpn_client(r, seen) ==
  LET settings == <<"server", "group", "group_key", "username", "password">> IN
  Then(Check(r.action = "connect" => r.complete)
       \o open(r.dev)
       \o When(r.action = "connect",
               [k \in DOMAIN settings |-> Tell("setVpn", r.dev, settings[k])]
               \o <<Tell("connect", r.dev, <<>>)>>)
       \o When(r.action = "disconnect", <<Tell("disconnect", r.dev, <<>>)>>), seen,
       LAMBDA got, more :
         IF r.action = "status" THEN <<Ask("isConnected", r.dev)>>
         ELSE LET polls == WaitUntil(r.dev, r.action = "connect", more) IN
              IF Len(more) < Len(polls) THEN polls
              ELSE polls \o Check(r.action = "connect" => Reached(TRUE, SubSeq(more, 1, Len(polls))))
                         \o <<Ask("isConnected", r.dev)>>)

\* A file is always made, never written in place.
write_made(file, exists, text) == <<Must("addTextFile", file, text)>>

\* A file that is there is written in place.
write_file(file, exists, text) ==
  IF exists THEN <<Tell("setTextContent", file, text)>> ELSE <<Must("addTextFile", file, text)>>

\* Whether the file exists is looked up first.
host_files(r, seen) ==
  Then(Check(r.action # "list" => r.name # "") \o open(r.dev)
       \o When(r.action # "list", <<Ask("fileExist", [dev |-> r.dev, name |-> r.name])>>), seen,
       LAMBDA got, more :
         LET file == [dev |-> r.dev, name |-> r.name]
             exists == got[Len(got)].is = "yes" IN
         (CASE r.action = "list" -> <<>>
            [] r.action \in {"read", "delete"} /\ ~exists -> <<Refuse>>
            [] r.action = "read" /\ exists   -> <<Ask("getContent", file)>>
            [] r.action = "delete" /\ exists -> <<Must("removeFile", file, <<>>)>>
            [] r.action = "write" -> write_file(file, exists, r.text))
         \o <<Ask("files", r.dev)>>)

DesktopPlan(r, seen) ==
  CASE r.tool = "browse_web"      -> browse_web(r, seen)
    [] r.tool = "configure_email" -> configure_email(r, seen)
    [] r.tool = "send_email"      -> send_email(r, seen)
    [] r.tool = "receive_email"   -> receive_email(r, seen)
    [] r.tool = "vpn_client"      -> vpn_client(r, seen)
    [] r.tool = "host_files"      -> host_files(r, seen)
    [] OTHER                      -> ServicePlan(r, seen)

----------------------------------------------------------------------------
\* Packet Tracer's side: the apps of each device, the events raised so far and those
\* still to come.

Raises(p, dev, class, event) ==
  [p EXCEPT !.coming = Append(@, [dev |-> dev, class |-> class, event |-> event])]

Heard(p, object, position) ==
  {k \in (position + 1)..Len(p.log) : p.log[k].dev = object.dev /\ p.log[k].class = object.class}

\* fetch(url): the status and the page, as the server has it at that moment.
Fetched(p, url) ==
  IF url.host = "name" /\ ~(p.srv.on["dns"] /\ \E r \in p.srv.records : r.name = "www")
  THEN [status |-> "host_not_found", page |-> "", url |-> url]
  ELSE IF ~p.srv.on["http"] \/ p.srv.pages[url.path] = ""
  THEN [status |-> "not_found", page |-> "", url |-> url]
  ELSE [status |-> "ok", page |-> p.srv.pages[url.path], url |-> url]

\* deliver: a mail for an account nobody has is taken and dropped.
Delivered(p, to, body) ==
  IF p.srv.domain = to.domain /\ \E u \in p.srv.mail_users : u.user = to.user
  THEN [p EXCEPT !.srv.mailbox[to.user] = Append(@, body)] ELSE p

send_mail(p, dev, mail) ==
  IF mail.account.outgoing_server = "SRV" /\ p.srv.on["smtp"]
  THEN Raises(Delivered(p, mail.to, mail.body), dev, "smtp", [status |-> "ok", body |-> mail.body])
  ELSE Raises(p, dev, "smtp", [status |-> "timeout", body |-> mail.body])

\* collect: the mailbox is emptied, and one event is raised for each mail.
receive_mail(p, dev) ==
  LET account == p.desk[dev].account
      login == [user |-> account.username, password |-> account.password]
      mails == p.srv.mailbox[account.username] IN
  IF account.incoming_server # "SRV" \/ ~p.srv.on["pop3"] \/ login \notin p.srv.mail_users
  THEN Raises(p, dev, "pop3", [status |-> "failed", body |-> ""])
  ELSE [p EXCEPT !.srv.mailbox[account.username] = <<>>,
                 !.coming = @ \o [k \in DOMAIN mails |->
                   [dev |-> dev, class |-> "pop3", event |-> [status |-> "ok", body |-> mails[k]]]]]

VpnFull == {"server", "group", "group_key", "username", "password"}

DesktopAnswer(p, c) ==
  CASE c.op = "app"           -> Says(p, c.at \in Desktops)
    [] c.op \in {"getObjectUuid", "setHttps", "cancel", "files"} -> Obeys(p)
    [] c.op = "subscribe"     -> Gives([p EXCEPT !.heeded = @ \cup {c.at}], Len(p.log))
    [] c.op = "unsubscribe"   -> Obeys([p EXCEPT !.heeded = @ \ {c.at}])
    [] c.op = "next"          ->
         IF Heard(p, c.at, c.val) = {} THEN Says(p, FALSE)
         ELSE LET k == CHOOSE k \in Heard(p, c.at, c.val) : \A o \in Heard(p, c.at, c.val) : k <= o IN
              Gives(p, [at |-> k, event |-> p.log[k].event])
    [] c.op = "go"            -> Obeys(Raises(p, c.at, "http", Fetched(p, c.val)))
    [] c.op = "setField"      -> Obeys([p EXCEPT !.desk[c.at.dev].account[c.at.field] = c.val])
    [] c.op = "account"       -> Gives(p, p.desk[c.at].account)
    [] c.op = "sendMail"      -> Obeys(send_mail(p, c.at, c.val))
    [] c.op = "getMailIpc"    -> Obeys(receive_mail(p, c.at))
    [] c.op = "setVpn"        -> IF c.val \in VpnFull THEN Obeys([p EXCEPT !.desk[c.at].vpn.fields = @ \cup {c.val}])
                                 ELSE Unknown(p)
    [] c.op = "connect"       -> Obeys([p EXCEPT !.desk[c.at].vpn.connected =
                                                  p.desk[c.at].vpn.fields = VpnFull])
    [] c.op = "disconnect"    -> Obeys([p EXCEPT !.desk[c.at].vpn.connected = FALSE])
    [] c.op = "isConnected"   -> Says(p, p.desk[c.at].vpn.connected)
    [] c.op = "fileExist"     -> Says(p, p.desk[c.at.dev].files[c.at.name] # "")
    [] c.op = "getContent"    -> IF p.desk[c.at.dev].files[c.at.name] # "" THEN Obeys(p) ELSE Missing(p)
    [] c.op = "setTextContent" ->
         IF p.desk[c.at.dev].files[c.at.name] = "" THEN Missing(p)
         ELSE Obeys([p EXCEPT !.desk[c.at.dev].files[c.at.name] = c.val])
    [] c.op = "addTextFile"   -> Did(p, p.desk[c.at.dev].files[c.at.name] = "",
                                     [p EXCEPT !.desk[c.at.dev].files[c.at.name] = c.val])
    [] c.op = "removeFile"    -> Did(p, p.desk[c.at.dev].files[c.at.name] # "",
                                     [p EXCEPT !.desk[c.at.dev].files[c.at.name] = ""])
    [] OTHER                  -> ServiceAnswer(p, c)

\* An event comes when Packet Tracer gets round to it, and is sent if anyone is subscribed
\* to its object then.
DesktopSettles(p) ==
  LET event == Head(p.coming)
      sent == IF Object(event.dev, event.class) \in p.heeded THEN Append(p.log, event) ELSE p.log IN
  IF p.coming = <<>> THEN {} ELSE {[p EXCEPT !.log = sent, !.coming = Tail(@)]}

----------------------------------------------------------------------------
\* What the properties ask about.

FreshDesktop ==
  [account |-> [f \in Fields |-> ""], files |-> [n \in {"notes.txt"} |-> ""],
   vpn |-> [fields |-> {}, connected |-> FALSE]]

\* A server with a mail account and a client that is set up for it.
AnasAccount == [f \in Fields |-> CASE f = "username" -> "ana" [] f = "password" -> "pw"
                                   [] f \in {"incoming_server", "outgoing_server"} -> "SRV"
                                   [] OTHER -> "ana@lab"]

DesktopInit ==
  {[part |-> "desktop",
    srv |-> [FreshServer EXCEPT !.domain = "lab",
                                !.mail_users = {[user |-> "ana", password |-> "pw"]}],
    desk |-> [d \in Desktops |-> [FreshDesktop EXCEPT !.account = account]],
    log |-> <<>>, coming |-> <<>>, heeded |-> {}] : account \in {FreshDesktop.account, AnasAccount}}

\* An event is on its way that the app's next listener will take for its own: an earlier
\* call raised it and gave up, or was lost.
DesktopOwes(p, r) ==
  r.tool \in {"browse_web", "send_email", "receive_email"}
  /\ \E k \in DOMAIN p.coming : p.coming[k].dev = r.dev

\* The calls that use the same app of the same device, and a browser and those who write
\* what it fetches.
DesktopTopics(r) ==
  CASE r.tool = "browse_web"      -> {<<r.dev, "http">>, <<"page", r.url.path>>, <<"set", "http">>, <<"set", "dns">>}
    [] r.tool = "set_web_page"    -> {<<"page", r.url>>}
    [] r.tool = "set_server_service" -> {<<"set", r.service>>}
    [] r.tool = "vpn_client"      -> {<<r.dev, "vpn">>}
    [] r.tool = "host_files"      -> {<<r.dev, "files">>}
    [] r.tool \in {"configure_email", "send_email", "receive_email"} -> {<<r.dev, "mail">>}
    [] OTHER                      -> {<<"server", r.tool>>}

\* The event that the browser or the sender heard before it stopped its listener.
HeardEvent(told) == told[Len(told) - 1].data.event

DesktopWanted(r, now, told) ==
  CASE r.tool = "browse_web" ->
         /\ HeardEvent(told).url = r.url
         /\ HeardEvent(told).status = "ok" => HeardEvent(told).page = now.srv.pages[r.url.path]
    [] r.tool = "configure_email" -> now.desk[r.dev].account = r.account
    [] r.tool = "send_email" -> HeardEvent(told).body = r.body
    [] r.tool = "receive_email" -> now.coming = <<>> =>
         now.srv.mailbox[now.desk[r.dev].account.username] = <<>>
    [] r.tool = "vpn_client" ->
         /\ r.action = "connect" => now.desk[r.dev].vpn = [fields |-> VpnFull, connected |-> TRUE]
         /\ r.action = "disconnect" => ~now.desk[r.dev].vpn.connected
    [] r.tool = "host_files" ->
         /\ r.action = "write" => now.desk[r.dev].files[r.name] = r.text
         /\ r.action = "delete" => now.desk[r.dev].files[r.name] = ""
    [] OTHER -> ServiceWanted(r, now)

\* A tunnel is up only with every field filled in.
DesktopSound(p) ==
  /\ ServiceSound(p)
  /\ \A d \in Desktops : p.desk[d].vpn.connected => p.desk[d].vpn.fields = VpnFull
=============================================================================

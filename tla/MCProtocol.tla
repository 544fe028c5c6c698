----------------------------- MODULE MCProtocol -----------------------------
(***************************************************************************)
(* The two layers of PTMP in one run: a behaviour is about the session and *)
(* its calls, where a message is one step, or about the bytes that carry   *)
(* the messages (Wire).                                                    *)
(***************************************************************************)
EXTENDS MCPtmpSession, SequencesExt

CONSTANTS MAX_FRAME_LEN, MAX_LEN_DIGITS, MaxWritten

VARIABLES written, garbled, socket_bytes, src, read, failed

T(text) == [type |-> "String", text |-> <<text>>]
I(n) == [type |-> "Int", text |-> <<n>>]
Object(class, fields) == [type |-> "Data", class |-> <<class>>, fields |-> fields]
Pair(a, b) == [type |-> "Pair", first |-> a, second |-> b]
Items(element, items) == [type |-> "Vector", element |-> element, items |-> items]

Replies(value) == [kind |-> <<"102">>, id |-> 3, value |-> value]
Calls_(args) == [kind |-> <<"100">>, id |-> 7, steps |-> <<[method |-> <<"root">>, args |-> <<>>], [method |-> <<"get">>, args |-> args]>>]
Negotiation(kind, reserved) ==
  [kind |-> <<kind>>, fields |-> <<<<"uuid">>, <<"1">>, <<"1">>, <<"1">>, <<"4">>, <<>>, <<"0">>, reserved>>]
Event(args) == [kind |-> <<"103">>, names |-> <<<<"t">>, <<"c">>, <<>>, <<"n">>>>, args |-> args]

\* Texts that look like codes, numbers or nothing; bytes that look like separators; values
\* inside values; a frame of exactly the limit, one above it; what cannot be sent.
MCMessages ==
  {[kind |-> <<"104">>, fields |-> <<<<"c">>, <<>>, <<"n">>, <<"false">>>>],
   Negotiation("0", <<>>), Negotiation("1", <<":PTVER9">>),
   Replies([type |-> "Void"]), Replies(T("0")), Replies([type |-> "String", text |-> <<>>]),
   Replies([type |-> "Bytes", bytes |-> <<"NUL", "1", "NUL">>]),
   Replies(Pair(T("2"), [type |-> "Ip", text |-> <<"10.0.0.1">>])),
   Replies(Items("Int", <<I("1"), I("0")>>)), Replies(Items("Int", [k \in 1..10 |-> I("1")])), Replies(Items("Pair", <<Pair(I("1"), I("1"))>>)),
   Replies(Object("Acl", <<T("8"), I("4")>>)), Replies(Object("Chart", <<I("4"), I("2")>>)),
   Replies(Items("Data", <<Object("Acl", <<I("4"), Object("Acl", <<I("1"), I("2")>>)>>)>>)),
   Event(<<T("0"), Object("Acl", <<I("4"), I("2")>>)>>), Event(<<Object("Chart", <<I("4")>>)>>),
   Event(<<Pair([type |-> "Void"], I("1"))>>),
   Calls_(<<I("1"), T("0")>>), Calls_(<<[type |-> "String", text |-> <<"a", "NUL">>]>>),
   Calls_(<<Items("Int", <<>>)>>),
   [kind |-> <<"6">>, fields |-> <<>>], [kind |-> <<"5">>, fields |-> <<<<"true">>>>],
   [kind |-> <<"4">>, fields |-> <<<<"a">>, <<"d">>>>], [kind |-> <<"7">>, fields |-> <<<<"r">>>>],
   [kind |-> <<"101">>, id |-> 3, fields |-> <<<<"c">>, <<>>>>]}

MCGarbage == {<<"x", "NUL">>, <<"NUL", "1">>, <<"1", "1", "1">>, <<"9", "9", "NUL">>}

MCLayouts == [class \in {<<"Acl">>, <<"Chart">>} |-> IF class = <<"Acl">> THEN 2 ELSE -1]

Bytes == INSTANCE Wire
  WITH socket <- socket_bytes, Messages <- MCMessages, Garbage <- MCGarbage,
       Layouts <- MCLayouts,
       Addresses <- {<<"10.0.0.1">>}

wirevars == <<written, garbled, socket_bytes, src, read, failed>>

ProtocolInit == Init /\ Bytes!Init

ProtocolNext ==
  \/ Bytes!Init /\ Next /\ UNCHANGED wirevars
  \/ Init /\ Bytes!Next /\ UNCHANGED vars

ProtocolSafety == ProtocolInit /\ [][ProtocolNext]_<<vars, wirevars>>

----------------------------------------------------------------------------
\* However the socket cuts the bytes up, the messages read are the ones written, in order,
\* none missing once everything has arrived; the stream is given up only over what is no
\* frame of PTMP, after everything before it was read.
ReadAsWritten == Bytes!ReadAsWritten
=============================================================================

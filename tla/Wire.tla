-------------------------------- MODULE Wire --------------------------------
(***************************************************************************)
(* What PTMP puts on the socket: ptmp/src/frame.rs, fields.rs, value.rs,   *)
(* call.rs, event.rs, negotiation.rs and message.rs.  One end turns        *)
(* messages into frames, the socket delivers their bytes in pieces of any  *)
(* size, the other end puts frames and messages together again.            *)
(*                                                                         *)
(* A symbol is NUL or a stretch of text the code never splits; lengths are *)
(* counted in symbols.  The digits of a length prefix are symbols of their *)
(* own, because they may arrive apart.                                     *)
(***************************************************************************)
EXTENDS Integers, Sequences, SequencesExt, FiniteSetsExt

CONSTANTS
  Messages,       \* what the writing end may be given
  Garbage,        \* what a program that does not speak PTMP may send
  Layouts,        \* class of value objects -> number of its fields, AnyCount if that varies
  Addresses,      \* texts that are IPv4, IPv6 or MAC addresses
  MAX_FRAME_LEN, MAX_LEN_DIGITS,
  MaxWritten      \* bound: messages written

VARIABLES
  written,        \* the messages framed so far
  garbled,        \* something else was sent after them
  socket,         \* symbols sent that have not arrived
  src,            \* the reading end's buffer
  read,           \* the messages it understood
  failed          \* its stream has ended with an error

wirevars == <<written, garbled, socket, src, read, failed>>

NUL == "NUL"
AnyCount == -1

----------------------------------------------------------------------------
\* Texts and fields.

\* n.to_string() and parse(): the numbers a message of this size can hold.
Numbers == 0..(2 * MAX_FRAME_LEN)

Number(text) == {n \in Numbers : text = <<ToString(n)>>}

text_field(text) == Append(text, NUL)

\* What is left to read, and what was read if it could be.
Fail == [ok |-> FALSE, rest |-> <<>>, val |-> <<>>]

Got(val, rest) == [ok |-> TRUE, rest |-> rest, val |-> val]

Bind(got, Then(_, _)) == IF got.ok THEN Then(got.val, got.rest) ELSE Fail

next(body) ==
  IF NUL \notin ToSet(body) THEN Fail
  ELSE LET end == SelectInSeq(body, LAMBDA s : s = NUL) IN
       Got(SubSeq(body, 1, end - 1), SubSeq(body, end + 1, Len(body)))

parse(body) ==
  Bind(next(body), LAMBDA text, rest :
    IF Number(text) = {} THEN Fail ELSE Got(CHOOSE n \in Number(text) : TRUE, rest))

raw(len, body) ==
  IF Len(body) < len THEN Fail ELSE Got(SubSeq(body, 1, len), SubSeq(body, len + 1, Len(body)))

----------------------------------------------------------------------------
\* Values.

\* The codes of the types that are told apart here.
TypeCode == [Void |-> 0, Byte |-> 1, Bool |-> 2, Int |-> 4, String |-> 8, Ip |-> 10,
             Pair |-> 14, Vector |-> 15, Data |-> 16]

type_code(v) == IF v.type = "Bytes" THEN "Vector" ELSE v.type

code_field(type) == text_field(<<ToString(TypeCode[type])>>)

Coded(text) == {type \in DOMAIN TypeCode : text = <<ToString(TypeCode[type])>>}

parse_code(body) ==
  Bind(next(body), LAMBDA text, rest :
    IF Coded(text) = {} THEN Fail ELSE Got(CHOOSE type \in Coded(text) : TRUE, rest))

is_scalar(v) == v.type \in {"Byte", "Bool", "Int", "String", "Ip"}

encode_argument(v) == code_field(v.type) \o text_field(v.text)

RECURSIVE encode_result(_), encode_payload(_)

encode_result(v) ==
  IF v.type = "Void" THEN <<>> ELSE code_field(type_code(v)) \o encode_payload(v)

encode_payload(v) ==
  CASE v.type = "Void"   -> <<>>
    [] v.type = "Pair"   -> encode_result(v.first) \o encode_result(v.second)
    [] v.type = "Vector" -> code_field(v.element) \o text_field(<<ToString(Len(v.items))>>)
                            \o FlattenSeq([k \in DOMAIN v.items |-> encode_payload(v.items[k])])
    [] v.type = "Bytes"  -> code_field("Byte") \o text_field(<<ToString(Len(v.bytes))>>) \o v.bytes
    [] v.type = "Data"   -> text_field(v.class)
                            \o FlattenSeq([k \in DOMAIN v.fields |-> encode_result(v.fields[k])])
    [] OTHER             -> text_field(v.text)

\* What the text of a scalar must look like to be read as one.
Parses(type, text) ==
  CASE type \in {"Byte", "Int"} -> Number(text) # {}
    [] type = "Bool"   -> text \in {<<"true">>, <<"false">>}
    [] type = "Ip"     -> text \in Addresses
    [] type = "String" -> TRUE

\* With no layouts every class is read field by field.
layout(class) ==
  IF DOMAIN Layouts = {} THEN "variable"
  ELSE IF class \notin DOMAIN Layouts THEN "not a class"
  ELSE IF Layouts[class] = AnyCount THEN "variable" ELSE "fixed"

RECURSIVE decode(_), decode_payload(_, _), payloads(_, _, _), values(_, _), greedy(_)

\* count values, one after the other
payloads(count, type, body) ==
  IF count = 0 THEN Got(<<>>, body)
  ELSE Bind(decode_payload(type, body), LAMBDA v, rest :
         Bind(payloads(count - 1, type, rest), LAMBDA vs, left : Got(<<v>> \o vs, left)))

values(count, body) ==
  IF count = 0 THEN Got(<<>>, body)
  ELSE Bind(decode(body), LAMBDA v, rest :
         Bind(values(count - 1, rest), LAMBDA vs, left : Got(<<v>> \o vs, left)))

\* Values as long as the next token looks like a type code.
greedy(body) ==
  IF ~parse_code(body).ok THEN Got(<<>>, body)
  ELSE Bind(decode(body), LAMBDA v, rest :
         Bind(greedy(rest), LAMBDA vs, left : Got(<<v>> \o vs, left)))

decode(body) == Bind(parse_code(body), LAMBDA type, rest : decode_payload(type, rest))

Scalar(type, text) == [type |-> type, text |-> text]

decode_data(class, body) ==
  LET object(vs, left) == Got([type |-> "Data", class |-> class, fields |-> vs], left) IN
  IF class \in Addresses THEN Got(Scalar("Ip", class), body)
  ELSE CASE layout(class) = "fixed"       -> Bind(values(Layouts[class], body), object)
         [] layout(class) = "variable"    -> Bind(greedy(body), object)
         [] layout(class) = "not a class" -> Got(Scalar("String", class), body)

decode_payload(type, body) ==
  CASE type = "Void" -> Got([type |-> "Void"], body)
    [] type = "Pair" ->
         Bind(decode(body), LAMBDA first, rest :
           Bind(decode(rest), LAMBDA second, left :
             Got([type |-> "Pair", first |-> first, second |-> second], left)))
    [] type = "Vector" ->
         Bind(parse_code(body), LAMBDA element, rest :
           Bind(parse(rest), LAMBDA count, items :
             IF element = "Byte"
             THEN Bind(raw(count, items), LAMBDA bytes, left : Got([type |-> "Bytes", bytes |-> bytes], left))
             ELSE Bind(payloads(count, element, items), LAMBDA vs, left :
                    Got([type |-> "Vector", element |-> element, items |-> vs], left))))
    [] type = "Data" -> Bind(next(body), decode_data)
    [] OTHER -> Bind(next(body), LAMBDA text, rest :
                  IF Parses(type, text) THEN Got(Scalar(type, text), rest) ELSE Fail)

\* Arguments up to the code of Void.
RECURSIVE arguments(_)
arguments(body) ==
  Bind(parse_code(body), LAMBDA type, rest :
    IF type = "Void" THEN Got(<<>>, rest)
    ELSE Bind(decode_payload(type, rest), LAMBDA v, more :
           Bind(arguments(more), LAMBDA vs, left : Got(<<v>> \o vs, left))))

END_OF_ARGUMENTS == code_field("Void")

----------------------------------------------------------------------------
\* Messages.  Those that are texts only are a kind and its fields.

NEGOTIATION_REQUEST == <<"0">>
NEGOTIATION_RESPONSE == <<"1">>
AUTH_REQUEST == <<"2">>
AUTH_CHALLENGE == <<"3">>
AUTH_RESPONSE == <<"4">>
AUTH_STATUS == <<"5">>
KEEP_ALIVE == <<"6">>
DISCONNECT == <<"7">>
IPC_CALL == <<"100">>
IPC_ERROR == <<"101">>
IPC_RESPONSE == <<"102">>
IPC_EVENT == <<"103">>
IPC_SUBSCRIBE == <<"104">>

\* How many texts these kinds carry.
TextFields == [k \in {KEEP_ALIVE} |-> 0] @@ [k \in {IPC_SUBSCRIBE} |-> 4]
              @@ [k \in {AUTH_REQUEST, AUTH_CHALLENGE, AUTH_STATUS} |-> 1]

\* The last of them is a flag.
Flagged == {AUTH_STATUS, IPC_SUBSCRIBE}

\* A negotiation opens with these two texts; its settings follow, five of them numbers.
SIGNATURE == <<"PTMP">>
PROTOCOL_VERSION == <<"1">>
Settings == 7
NumberSettings == {2, 3, 4, 5, 7}

encode_step(step) ==
  text_field(step.method) \o FlattenSeq([k \in DOMAIN step.args |-> encode_argument(step.args[k])])
  \o END_OF_ARGUMENTS

id_field(id) == text_field(<<ToString(id)>>)

Flat(fields) == FlattenSeq([k \in DOMAIN fields |-> text_field(fields[k])])

encode(m) ==
  text_field(m.kind) \o
  CASE m.kind \in {NEGOTIATION_REQUEST, NEGOTIATION_RESPONSE} -> Flat(<<SIGNATURE, PROTOCOL_VERSION>> \o m.fields)
    [] m.kind = IPC_CALL     -> id_field(m.id) \o FlattenSeq([k \in DOMAIN m.steps |-> encode_step(m.steps[k])])
    [] m.kind = IPC_RESPONSE -> id_field(m.id) \o encode_result(m.value)
    [] m.kind = IPC_ERROR    -> id_field(m.id) \o Flat(m.fields)
    [] m.kind = AUTH_RESPONSE -> Flat(m.fields) \o text_field(<<>>)
    [] m.kind = IPC_EVENT    -> Flat(m.names) \o FlattenSeq([k \in DOMAIN m.args |-> encode_result(m.args[k])])
                                \o END_OF_ARGUMENTS
    [] OTHER                 -> Flat(m.fields)

RECURSIVE steps(_), texts(_, _)
steps(body) ==
  IF body = <<>> THEN Got(<<>>, body)
  ELSE Bind(next(body), LAMBDA method, rest :
         Bind(arguments(rest), LAMBDA args, more :
           Bind(steps(more), LAMBDA others, left : Got(<<[method |-> method, args |-> args]>> \o others, left))))

texts(count, body) ==
  IF count = 0 THEN Got(<<>>, body)
  ELSE Bind(next(body), LAMBDA text, rest :
         Bind(texts(count - 1, rest), LAMBDA others, left : Got(<<text>> \o others, left)))

\* A text that may be missing.
next_or_empty(body) == IF next(body).ok THEN next(body) ELSE Got(<<>>, body)

\* Packet Tracer may leave the last setting out.
negotiation(kind, body) ==
  Bind(texts(2, body), LAMBDA opening, rest :
    IF opening # <<SIGNATURE, PROTOCOL_VERSION>> THEN Fail
    ELSE Bind(texts(Settings, rest), LAMBDA settings, more :
           IF \E k \in NumberSettings : Number(settings[k]) = {} THEN Fail
           ELSE Bind(next_or_empty(more), LAMBDA reserved, left :
                  Got([kind |-> kind, fields |-> Append(settings, reserved)], left))))

decode_message(kind, body) ==
  CASE kind \in {NEGOTIATION_REQUEST, NEGOTIATION_RESPONSE} -> negotiation(kind, body)
    [] kind = IPC_CALL ->
         Bind(parse(body), LAMBDA id, rest :
           Bind(steps(rest), LAMBDA path, left :
             IF path = <<>> THEN Fail ELSE Got([kind |-> kind, id |-> id, steps |-> path], left)))
    [] kind = IPC_RESPONSE ->
         Bind(parse(body), LAMBDA id, rest :
           Bind(IF rest = <<>> THEN Got([type |-> "Void"], rest) ELSE decode(rest), LAMBDA v, left :
             Got([kind |-> kind, id |-> id, value |-> v], left)))
    [] kind = IPC_EVENT ->
         Bind(texts(4, body), LAMBDA names, rest :
           Bind(arguments(rest), LAMBDA args, left :
             Got([kind |-> kind, names |-> names, args |-> args], left)))
    [] kind = IPC_ERROR ->
         Bind(parse(body), LAMBDA id, rest :
           Bind(next(rest), LAMBDA class, more :
             Bind(next_or_empty(more), LAMBDA message, left :
               Got([kind |-> kind, id |-> id, fields |-> <<class, message>>], left))))
    [] kind = AUTH_RESPONSE ->
         Bind(texts(2, body), LAMBDA fields, rest :
           Bind(next_or_empty(rest), LAMBDA custom, left :
             Got([kind |-> kind, fields |-> fields], left)))
    [] kind = DISCONNECT ->
         Bind(next_or_empty(body), LAMBDA reason, left : Got([kind |-> kind, fields |-> <<reason>>], left))
    [] kind \in DOMAIN TextFields ->
         Bind(texts(TextFields[kind], body), LAMBDA fields, left :
           IF kind \in Flagged /\ ~Parses("Bool", Last(fields)) THEN Fail
           ELSE Got([kind |-> kind, fields |-> fields], left))
    [] OTHER -> Fail

\* What is left over fails the message.
finish(got) == IF got.ok /\ got.rest # <<>> THEN Fail ELSE got

from_frame(body) == finish(Bind(next(body), decode_message))

----------------------------------------------------------------------------
\* Frames.

encode_frame(body) ==
  LET len == Len(body)
      digits[n \in Numbers] == IF n < 10 THEN <<ToString(n)>> ELSE digits[n \div 10] \o <<ToString(n % 10)>>
  IN digits[len] \o <<NUL>> \o body

Digit(s) == s \in {ToString(n) : n \in 0..9}

parse_length(digits) ==
  IF digits = <<>> \/ \E k \in DOMAIN digits : ~Digit(digits[k]) THEN Fail
  ELSE LET value[k \in 0..Len(digits)] ==
             IF k = 0 THEN 0 ELSE 10 * value[k - 1] + (CHOOSE n \in 0..9 : ToString(n) = digits[k])
       IN Got(value[Len(digits)], <<>>)

\* decode(src): a frame, more bytes are needed, or the stream is no good.
More == [is |-> "more", body |-> <<>>, used |-> 0]
Bad == [is |-> "error", body |-> <<>>, used |-> 0]

\* The separator is not passed over.
separate_short(buffer, separator, len) ==
  IF Len(buffer) < separator + len THEN More
  ELSE [is |-> "frame", body |-> SubSeq(buffer, separator, separator + len - 1), used |-> separator + len - 1]

separate(buffer, separator, len) ==
  IF Len(buffer) < separator + len THEN More
  ELSE [is |-> "frame", body |-> SubSeq(buffer, separator + 1, separator + len), used |-> separator + len]

decode_frame(buffer) ==
  LET head == SubSeq(buffer, 1, Min({Len(buffer), MAX_LEN_DIGITS + 1})) IN
  IF NUL \notin ToSet(head)
  THEN IF Len(head) > MAX_LEN_DIGITS THEN Bad ELSE More
  ELSE LET separator == SelectInSeq(head, LAMBDA s : s = NUL)
           len == parse_length(SubSeq(head, 1, separator - 1)) IN
       IF ~len.ok \/ len.val > MAX_FRAME_LEN THEN Bad ELSE separate(buffer, separator, len.val)

----------------------------------------------------------------------------
\* The two ends.

RECURSIVE ValueTexts(_)
ValueTexts(v) ==
  CASE v.type = "Pair"   -> ValueTexts(v.first) \cup ValueTexts(v.second)
    [] v.type = "Vector" -> UNION {ValueTexts(v.items[k]) : k \in DOMAIN v.items}
    [] v.type = "Data"   -> {v.class} \cup UNION {ValueTexts(v.fields[k]) : k \in DOMAIN v.fields}
    [] is_scalar(v)      -> {v.text}
    [] OTHER             -> {}

ValuesOf(m) ==
  CASE m.kind = IPC_CALL     -> UNION {ToSet(m.steps[k].args) : k \in DOMAIN m.steps}
    [] m.kind = IPC_RESPONSE -> {m.value}
    [] m.kind = IPC_EVENT    -> ToSet(m.args)
    [] OTHER                 -> {}

NamesOf(m) ==
  CASE m.kind = IPC_CALL     -> {m.steps[k].method : k \in DOMAIN m.steps}
    [] m.kind = IPC_RESPONSE -> {}
    [] m.kind = IPC_EVENT    -> ToSet(m.names)
    [] OTHER                 -> ToSet(m.fields)

\* to_frame: only scalars can be arguments of a call, and no text may hold a NUL.
to_frame_ok(m) ==
  /\ m.kind = IPC_CALL => \A v \in ValuesOf(m) : is_scalar(v)
  /\ \A text \in NamesOf(m) \cup UNION {ValueTexts(v) : v \in ValuesOf(m)} : NUL \notin ToSet(text)

\* write_loop: what cannot be framed is not sent (its call is told).
Send ==
  /\ Len(written) < MaxWritten /\ ~garbled
  /\ \E m \in Messages :
       /\ to_frame_ok(m)
       /\ written' = Append(written, m)
       /\ socket' = socket \o encode_frame(encode(m))
  /\ UNCHANGED <<garbled, src, read, failed>>

\* The other program stops speaking PTMP.
Garble ==
  /\ ~garbled /\ garbled' = TRUE
  /\ \E g \in Garbage : socket' = socket \o g
  /\ UNCHANGED <<written, src, read, failed>>

\* The socket is read when the buffer holds no whole frame, any number of bytes at a time.
Arrive ==
  /\ ~failed /\ decode_frame(src).is = "more"
  /\ \E n \in 1..Len(socket) :
       /\ src' = src \o SubSeq(socket, 1, n)
       /\ socket' = SubSeq(socket, n + 1, Len(socket))
  /\ UNCHANGED <<written, garbled, read, failed>>

\* read_loop: a message that cannot be read is passed over.
Take ==
  LET frame == decode_frame(src)
      message == from_frame(frame.body) IN
  /\ ~failed /\ frame.is = "frame"
  /\ src' = SubSeq(src, frame.used + 1, Len(src))
  /\ read' = IF message.ok THEN Append(read, message.val) ELSE read
  /\ UNCHANGED <<written, garbled, socket, failed>>

GiveUp ==
  /\ ~failed /\ decode_frame(src).is = "error"
  /\ failed' = TRUE
  /\ UNCHANGED <<written, garbled, socket, src, read>>

Init ==
  /\ written = <<>> /\ garbled = FALSE /\ socket = <<>>
  /\ src = <<>> /\ read = <<>> /\ failed = FALSE

Next == Send \/ Garble \/ Arrive \/ Take \/ GiveUp

Spec == Init /\ [][Next]_wirevars

----------------------------------------------------------------------------
\* Properties.

\* A value says where it ends: a value object of a class with a known number of fields,
\* or one of any number that nothing follows; Void stands only for a whole answer.
RECURSIVE Ends(_, _)
Ends(v, last) ==
  CASE v.type = "Void"   -> FALSE
    [] v.type = "Pair"   -> Ends(v.first, FALSE) /\ Ends(v.second, last)
    [] v.type = "Vector" -> \A k \in DOMAIN v.items : Ends(v.items[k], last /\ k = Len(v.items))
    [] v.type = "Data"   -> /\ layout(v.class) = "fixed" => Len(v.fields) = Layouts[v.class]
                            /\ layout(v.class) = "variable" => last
                            /\ layout(v.class) # "not a class"
                            /\ \A k \in DOMAIN v.fields :
                                 Ends(v.fields[k], layout(v.class) = "fixed" /\ last /\ k = Len(v.fields))
    [] OTHER             -> TRUE

Readable(m) ==
  /\ m.kind = IPC_RESPONSE => m.value.type = "Void" \/ Ends(m.value, TRUE)
  /\ m.kind = IPC_EVENT => \A k \in DOMAIN m.args : Ends(m.args[k], FALSE)

Fits(m) == Len(encode(m)) <= MAX_FRAME_LEN

\* However the socket cuts the bytes up, the messages read are the ones written, in order,
\* none missing once everything has arrived; and the stream is given up only over what is
\* no frame of PTMP, after everything before it was read.  (Values that do not say where
\* they end, and frames above the limit, are left out: the codec has no way to read them.)
ReadAsWritten ==
  (\A k \in DOMAIN written : Readable(written[k]) /\ Fits(written[k])) =>
    /\ IsPrefix(read, written)
    /\ socket = <<>> /\ decode_frame(src).is = "more" /\ ~garbled => read = written /\ src = <<>>
    /\ failed => garbled /\ read = written
=============================================================================

----------------------------- MODULE FrameCodec -----------------------------
(***************************************************************************)
(* Messages, frames and the conversions between them: to_frame,            *)
(* add_extra_headers and serialize on the way out, the body part of        *)
(* parse_frame and to_client_msg or to_server_msg on the way in            *)
(* (src/frame.rs, src/lib.rs).                                             *)
(*                                                                         *)
(* An optional value is a set of at most one element.  A header is a pair  *)
(* of texts, in which digits and the sign of a number are symbols, too.    *)
(* A symbol of a body is a byte.  A frame is a record of command, headers  *)
(* and body as in the code; a message a record of                          *)
(*   kind     the variant of ToServer or FromServer, by its command        *)
(*   fields   its String fields, by the key of the header each is read     *)
(*            from                                                         *)
(*   headers  the field headers of Send and Message (None is << >>)        *)
(*   body     its body                                                     *)
(*   extra    extra_headers                                                *)
(***************************************************************************)
EXTENDS HeaderText, Decimal

NUL == "NUL"

\* What the code reads one variant from: the spellings of its command, and
\* the headers that must and may be there.
Variant(spellings, required, optional) ==
    [spellings |-> spellings, required |-> required, optional |-> optional]

ToServer ==
    [CONNECT |-> Variant({"STOMP", "CONNECT", "stomp", "connect"},
        {"accept-version", "host"}, {"login", "passcode", "heart-beat"}),
     DISCONNECT |-> Variant({"DISCONNECT", "disconnect"}, {}, {"receipt"}),
     SEND |-> Variant({"SEND", "send"}, {"destination"}, {"transaction"}),
     SUBSCRIBE |-> Variant({"SUBSCRIBE", "subscribe"},
        {"destination", "id"}, {"ack"}),
     UNSUBSCRIBE |-> Variant({"UNSUBSCRIBE", "unsubscribe"}, {"id"}, {}),
     ACK |-> Variant({"ACK", "ack"}, {"id"}, {"transaction"}),
     NACK |-> Variant({"NACK", "nack"}, {"id"}, {"transaction"}),
     BEGIN |-> Variant({"BEGIN", "begin"}, {"transaction"}, {}),
     COMMIT |-> Variant({"COMMIT", "commit"}, {"transaction"}, {}),
     ABORT |-> Variant({"ABORT", "abort"}, {"transaction"}, {})]

FromServer ==
    [CONNECTED |-> Variant({"CONNECTED", "connected"},
        {"version"}, {"session", "server", "heart-beat"}),
     MESSAGE |-> Variant({"MESSAGE", "message"},
        {"destination", "message-id", "subscription"}, {}),
     RECEIPT |-> Variant({"RECEIPT", "receipt"}, {"receipt-id"}, {}),
     ERROR |-> Variant({"ERROR", "error"}, {}, {"message"})]

Variants ==
    [kind \in DOMAIN ToServer \cup DOMAIN FromServer |->
        IF kind \in DOMAIN ToServer THEN ToServer[kind] ELSE FromServer[kind]]

Fields(kind) == Variants[kind].required \cup Variants[kind].optional

FieldKeys(kind) == {<<f>> : f \in Fields(kind)}

\* The variants with a body, and those with a field headers.
Bodied   == {"SEND", "MESSAGE", "ERROR"}
Headered == {"SEND", "MESSAGE"}

\* The fields to_frame writes as headers, in that order.
WrittenToServer ==
    [CONNECT     |-> <<"accept-version", "host", "login", "heart-beat", "passcode">>,
     DISCONNECT  |-> <<"receipt">>,
     SEND        |-> <<"destination", "transaction">>,
     SUBSCRIBE   |-> <<"destination", "id", "ack">>,
     UNSUBSCRIBE |-> <<"id">>,
     ACK         |-> <<"id", "transaction">>,
     NACK        |-> <<"id", "transaction">>,
     BEGIN       |-> <<"transaction">>,
     COMMIT      |-> <<"transaction">>,
     ABORT       |-> <<"transaction">>]

WrittenFromServer ==
    [CONNECTED |-> <<"version", "session", "server", "heart-beat">>,
     MESSAGE   |-> <<"subscription", "message-id", "destination">>,
     RECEIPT   |-> <<"receipt-id">>,
     ERROR     |-> <<"message">>]

Written ==
    [kind \in DOMAIN Variants |->
        IF kind \in DOMAIN WrittenToServer THEN WrittenToServer[kind]
                                           ELSE WrittenFromServer[kind]]

\* The header a field is written as: its own, but for one.
WrittenAs(kind, field) ==
    IF kind = "SEND" /\ field = "transaction" THEN "id" ELSE field

Keys(headers) == {headers[i][1] : i \in 1..Len(headers)}

HeadersUtf8(headers) ==
    \A i \in 1..Len(headers) : IsUtf8(headers[i][1]) /\ IsUtf8(headers[i][2])

\* The headers that have none of these keys.
Without(headers, keys) ==
    LET upto[i \in 0..Len(headers)] ==
          IF i = 0 THEN << >>
          ELSE IF headers[i][1] \in keys THEN upto[i - 1]
          ELSE Append(upto[i - 1], headers[i])
    IN  upto[Len(headers)]

-----------------------------------------------------------------------------
(***************************************************************************)
(* On the way out.                                                         *)
(***************************************************************************)

\* The elements of a sequence of optional values, one after the other.
Present(options) ==
    LET upto[i \in 0..Len(options)] ==
          IF i = 0 THEN << >>
          ELSE upto[i - 1] \o (IF options[i] = {} THEN << >>
                               ELSE <<CHOOSE x \in options[i] : TRUE>>)
    IN  upto[Len(options)]

\* to_frame of the content, through Frame::new: headers without a value are
\* left out.
ContentHeaders(m) ==
    LET written == Written[m.kind]
        header(field) ==
            {<<<<WrittenAs(m.kind, field)>>, val>> : val \in m.fields[field]}
    IN  Present([i \in 1..Len(written) |-> header(written[i])]) \o m.headers

\* Faulty variant: keys that are there already are not looked for.
AddAllExtraHeaders(headers, extra) == headers \o extra

\* add_extra_headers: the extra headers whose key the content has not set.
AddExtraHeaders(headers, extra) == headers \o Without(extra, Keys(headers))

\* Message::to_frame.
ToFrame(m) ==
    [command |-> m.kind,
     headers |-> AddExtraHeaders(ContentHeaders(m), m.extra),
     body    |-> m.body]

\* Faulty variant: keys are not escaped.
SerializeRawKeys(frame) ==
    [frame EXCEPT !.headers = [i \in 1..Len(@) |->
                                  <<@[i][1], Escape(@[i][2])>>]]

\* serialize writes keys and values escaped, and the body as it is; it adds
\* no content-length.
Serialize(frame) ==
    [frame EXCEPT !.headers = [i \in 1..Len(@) |->
                                  <<Escape(@[i][1]), Escape(@[i][2])>>]]

-----------------------------------------------------------------------------
(***************************************************************************)
(* On the way in.                                                          *)
(***************************************************************************)

\* The first header with this key, if any.
Find(headers, key) ==
    LET at == {i \in 1..Len(headers) : headers[i][1] = key} IN
    {headers[i][2] : i \in {i \in at : \A j \in at : i <= j}}

\* get_content_length: the value of the first header of that name, None if
\* there is none or if it is no number.
ContentLength(headers) ==
    UNION {Number(val) : val \in Find(headers, <<"content-length">>)}

Contents(body) == IF body = {} THEN << >> ELSE CHOOSE b \in body : TRUE

\* Faulty variant: every body ends at its first NUL.
ParseToNul(frame) ==
    LET bytes == Contents(frame.body)
        nuls  == {i \in 1..Len(bytes) : bytes[i] = NUL}
    IN  [outcome |-> IF nuls = {} THEN "frame" ELSE "cut",
         frame   |-> [frame EXCEPT !.body = IF bytes = << >> THEN {} ELSE @]]

\* parse_frame on a frame as it was serialized and what follows it.  Without
\* a content-length the body ends at its first NUL, and an empty one is None;
\* with one, exactly that many bytes are taken, and a NUL must follow.
\* "cut" and "swallowed" are misreadings that parse_frame cannot notice: the
\* frame ends too early, or its NUL has become part of the body.  A header
\* without a key, which serialize writes like any other, is refused.
Parse(frame) ==
    LET bytes  == Contents(frame.body)
        length == ContentLength(frame.headers)
        nuls   == {i \in 1..Len(bytes) : bytes[i] = NUL}
        n      == IF length # {} THEN CHOOSE l \in length : TRUE
                  ELSE IF nuls = {} THEN Len(bytes)
                  ELSE (CHOOSE i \in nuls : \A j \in nuls : i <= j) - 1
    IN  [outcome |-> IF << >> \in Keys(frame.headers) THEN "parser_error"
                     ELSE IF n = Len(bytes) THEN "frame"
                     ELSE IF n > Len(bytes) THEN "swallowed"
                     ELSE IF bytes[n + 1] = NUL THEN "cut"
                     ELSE "parser_error",
         frame   |-> [frame EXCEPT !.body =
                        IF n > Len(bytes) THEN @
                        ELSE IF n = 0 /\ length = {} THEN {}
                        ELSE {SubSeq(bytes, 1, n)}]]

\* Faulty variant: the value is not unescaped.
FetchHeaderRaw(headers, key) == {val \in Find(headers, key) : IsUtf8(val)}

\* fetch_header: a value that is not UTF-8 counts as missing.
FetchHeader(headers, key) ==
    {val \in {Unescape(raw) : raw \in Find(headers, key)} : IsUtf8(val)}

AckModes == {<<"auto">>, <<"client">>, <<"client-individual">>}

\* Some values that parse_heartbeat takes for two numbers, each with the text
\* that to_frame writes for these numbers.
Heartbeats == [v \in {<<"6,7">>, <<"+06,7">>} |-> <<"6,7">>]

\* The field is there if it must be, and its value is one the variant can
\* hold.
FieldOK(kind, field, value) ==
    /\ field \in Variants[kind].required => value # {}
    /\ kind = "SUBSCRIBE" /\ field = "ack" => value \subseteq AckModes
    /\ kind = "CONNECT" /\ field = "heart-beat" => value \subseteq DOMAIN Heartbeats

\* The value as the variant holds it, written as text again.
Held(kind, field, value) ==
    IF kind = "CONNECT" /\ field = "heart-beat"
    THEN {Heartbeats[v] : v \in value} ELSE value

\* Faulty variant: the values are not unescaped.
HeadersOfRaw(kind, headers) ==
    IF kind = "SEND" THEN Without(headers, FieldKeys(kind)) ELSE headers

\* all_headers of a MESSAGE, optional_headers of a SEND.
HeadersOf(kind, headers) ==
    LET taken == IF kind = "SEND" THEN Without(headers, FieldKeys(kind)) ELSE headers
    IN  [i \in 1..Len(taken) |-> <<taken[i][1], Unescape(taken[i][2])>>]

\* to_client_msg or to_server_msg, whichever knows the command.
ToMessage(frame, variants) ==
    LET kinds   == {k \in DOMAIN variants : frame.command \in variants[k].spellings}
        kind    == CHOOSE k \in kinds : TRUE
        fields  == [f \in Fields(kind) |-> FetchHeader(frame.headers, <<f>>)]
        headers == IF kind \in Headered THEN HeadersOf(kind, frame.headers)
                                        ELSE << >>
    IN  IF kinds = {} \/ \E f \in DOMAIN fields : ~ FieldOK(kind, f, fields[f])
        THEN [outcome |-> "conversion_error"]
        ELSE IF ~ HeadersUtf8(headers) THEN [outcome |-> "panic"]
        ELSE [outcome |-> "message",
              message |->
                [kind    |-> kind,
                 fields  |-> [f \in DOMAIN fields |-> Held(kind, f, fields[f])],
                 headers |-> headers,
                 body    |-> IF kind \in Bodied THEN frame.body ELSE {},
                 extra   |-> Without(frame.headers, FieldKeys(kind))]]

-----------------------------------------------------------------------------
(***************************************************************************)
(* The values of the types.                                                *)
(***************************************************************************)

\* The texts that the code itself writes and looks for are texts.
ASSUME NamesAssumption ==
    /\ {"content-length", "id"} \cup UNION {Fields(k) : k \in DOMAIN Variants}
         \subseteq Symbols
    /\ AckModes \cup DOMAIN Heartbeats \subseteq Text

Headers == Seq(Text \X Text)

AtMostOne(option) == \A x, y \in option : x = y

\* A frame of bytes.
IsFrame(frame) ==
    /\ frame \in [command : STRING, headers : Headers, body : SUBSET Text]
    /\ AtMostOne(frame.body)

\* A Message<ToServer> or Message<FromServer>.  Its fields and its field
\* headers are Strings, its body and its extra headers are bytes.
IsMessage(m) ==
    /\ m.kind \in DOMAIN Variants
    /\ m.fields \in [Fields(m.kind) -> SUBSET Text]
    /\ \A f \in Fields(m.kind) :
        /\ AtMostOne(m.fields[f])
        /\ \A v \in m.fields[f] : IsUtf8(v)
        /\ FieldOK(m.kind, f, m.fields[f])
        /\ Held(m.kind, f, m.fields[f]) = m.fields[f]
    /\ m.headers \in Headers
    /\ HeadersUtf8(m.headers)
    /\ m.kind \notin Headered => m.headers = << >>
    /\ m.body \in SUBSET Text
    /\ AtMostOne(m.body)
    /\ m.kind \notin Bodied => m.body = {}
    /\ m.extra \in Headers

=============================================================================

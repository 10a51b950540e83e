------------------------------ MODULE MCRelay ------------------------------
(***************************************************************************)
(* Small sets of messages and frames for Relay.                            *)
(***************************************************************************)
EXTENDS Relay, Functions

MCSymbols ==
    {Backslash, Colon, LF, CR, NonUtf8, NUL, "c", "n", "r", "t", "x", "k", "b",
     Plus, "content-length", "id", "auto", "client", "client-individual", "6,7", "+06,7"}
    \cup Range(Numerals) \cup UNION {Fields(k) : k \in DOMAIN Variants}

MCPlain   == <<"x">>
MCSpecial == <<"x", Colon, Backslash, "c", LF, CR>>
MCKey     == <<"k">>
MCOddKey  == <<"k", Colon>>

\* Values for a field of a message that an application builds.
MCValues(kind, field) ==
    IF field = "heart-beat" /\ kind = "CONNECT" THEN Range(Heartbeats)
    ELSE IF field = "ack" THEN {<<"auto">>, <<"client">>}
    ELSE {MCPlain, MCSpecial}

MCFieldSets(kind) ==
    {fields \in [Fields(kind) -> {{}} \cup {{v} : v \in {MCPlain, MCSpecial,
                    <<"auto">>, <<"client">>} \cup Range(Heartbeats)}] :
        \A f \in Fields(kind) :
            /\ fields[f] \subseteq MCValues(kind, f)
            /\ f \in Variants[kind].required => fields[f] # {}}

MCTenBytes == <<"b", NUL, "b", "b", "b", "b", "b", "b", "b", "b">>

MCBodies ==
    {{}, {<< >>}, {<<"b">>}, {<<"b", NUL>>}, {<<"b", NUL, "b">>}, {MCTenBytes}}

\* Content-lengths: with a sign, of two digits, too large, and no number.
MCLengths ==
    {<<"1">>, <<"2">>, <<Plus, "3">>, <<"1", "0">>, <<"1", "3">>, <<Plus>>, <<"x">>}

MCHeaderLists ==
    {<< >>, <<<<MCKey, MCSpecial>>>>, <<<<MCOddKey, MCPlain>>, <<<<"id">>, MCPlain>>>>,
     <<<<<<"transaction">>, MCSpecial>>, <<MCKey, MCPlain>>>>}
    \cup {<<<<<<"content-length">>, n>>>> : n \in MCLengths}

MCExtras ==
    {<< >>, <<<<MCKey, MCSpecial>>, <<MCKey, MCPlain>>>>,
     <<<<MCOddKey, <<NonUtf8>>>>, <<<<"ack">>, MCPlain>>>>,
     <<<<<< >>, MCPlain>>>>}

MCMessages ==
    {[kind |-> kind, fields |-> fields, headers |-> headers, body |-> body,
      extra |-> extra] :
        <<kind, fields, headers, body, extra>> \in
          UNION {({k} \X MCFieldSets(k)
                      \X (IF k \in Headered THEN MCHeaderLists ELSE {<< >>})
                      \X (IF k \in Bodied THEN MCBodies ELSE {{}})
                      \X MCExtras) : k \in DOMAIN Variants}}

\* Frames as peers write them: commands of either case, values escaped or
\* not, unknown commands, missing and invalid headers.
MCRawValues == {MCPlain, <<"x", Backslash, "c", Backslash, "r">>, <<Backslash, "t", Backslash>>,
                <<NonUtf8>>, <<"auto">>, <<"+06,7">>}

MCRawHeaders(kind) ==
    LET keys == Written[kind] IN
    {[i \in 1..Len(keys) |-> <<<<keys[i]>>, v>>] : v \in MCRawValues}
        \cup {[i \in 1..Len(keys) |-> <<<<keys[i]>>, IF i = odd THEN v ELSE MCPlain>>] :
                odd \in 1..Len(keys), v \in MCRawValues}

MCFrames ==
    {[command |-> command, headers |-> headers \o more, body |-> body] :
        <<command, headers, more, body>> \in
          UNION {(Variants[k].spellings \cup {"HELLO"})
                     \X MCRawHeaders(k)
                     \X ({<< >>} \cup {<<<<MCKey, v>>>> : v \in MCRawValues})
                     \X (IF k \in Bodied THEN {{}, {<<"b", NUL>>}} ELSE {{}}) :
                   k \in DOMAIN Variants}}

=============================================================================

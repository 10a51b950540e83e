---------------------------- MODULE MCWireReader ----------------------------
(***************************************************************************)
(* Small streams for WireReader: frames with every line ending in front,   *)
(* between and behind them, a CR that no LF follows, bodies that hold a    *)
(* NUL or a whole frame, and bytes that are no frame.                      *)
(***************************************************************************)
EXTENDS WireReader

MCShort   == <<"M", LF, LF, NUL>>
MCUnknown == <<"U", LF, LF, NUL>>
MCWithCRs == <<"M", CR, LF, "U", Colon, CR, LF, CR, LF, NUL>>
MCNulBody == <<"M", LF, ContentLengthKey, Colon, "1", LF, LF, NUL, NUL>>
MCNested  == <<"M", LF, ContentLengthKey, Colon, "4", LF, LF>> \o MCUnknown \o <<NUL>>
MCTwice   == <<"M", LF, ContentLengthKey, Colon, "8", LF, LF>> \o MCUnknown \o MCUnknown \o <<NUL>>
MCTooLong == <<"M", LF, ContentLengthKey, Colon, "5", LF, LF>> \o MCUnknown \o <<NUL>>
MCBad     == <<Colon, LF>>

MCEndings == {<< >>, <<LF>>, <<CR, LF>>}
MCBlanks  == {<<LF, LF>>, <<CR, LF, LF>>, <<LF, LF, LF>>}

MCKnown == {<<"M">>}

MCWire(text) == [bytes |-> text, asides |-> {}, coalesce |-> TRUE]

\* At most one line ending between the frames.
MCOneEnding ==
    {MCWire(ab[1] \o e \o ab[2] \o e) :
        ab \in {<<MCNulBody, MCShort>>, <<MCUnknown, MCNested>>,
                <<MCShort, MCBad>>, <<MCShort, MCTooLong>>},
        e \in MCEndings}
    \cup {MCWire(e \o MCWithCRs \o e \o MCShort) : e \in MCEndings}

\* Blank lines, a body that holds a frame, and a frame that never ends.
MCBlankLines ==
    {MCWire(a \o e \o MCShort \o f) :
        a \in {<< >>, MCShort}, e \in MCEndings \cup MCBlanks, f \in {<< >>, <<CR, LF>>}}
    \cup {MCWire(MCNested \o e \o MCShort) : e \in {<< >>, <<LF, LF>>}}
    \cup {MCWire(MCShort \o MCTooLong)}

\* Side-channel messages between and inside of frames.
MCWithAsides ==
    {[bytes |-> MCShort \o e \o MCShort, asides |-> asides, coalesce |-> FALSE] :
        e \in MCEndings \cup MCBlanks, asides \in SUBSET {2, 4, 5}}

\* A body that holds two frames, and a side-channel message behind it.
MCTornBody == {[bytes |-> MCTwice, asides |-> {Len(MCTwice)}, coalesce |-> FALSE]}

\* What only a read past the buffer brings together: a line ending and bytes
\* that are no frame.
MCBroughtTogether ==
    {MCWire(MCShort \o <<LF>> \o MCShort \o MCBad),
     MCWire(MCShort \o MCShort \o <<LF, LF, LF>> \o MCShort)}

\* A CR that has no LF behind it, at the end of the stream too.
MCLoneCR ==
    {MCWire(a \o e \o <<CR>> \o b) :
        a \in {<< >>, MCShort}, e \in {<< >>, <<CR, LF>>}, b \in {<< >>, MCShort}}

MCWires == MCOneEnding \cup MCBlankLines \cup MCWithAsides \cup MCTornBody \cup MCBroughtTogether
            \cup MCLoneCR

=============================================================================

----------------------------- MODULE HeaderText -----------------------------
(***************************************************************************)
(* Header keys and values of a STOMP frame, and how src/frame.rs escapes   *)
(* and unescapes them.  A text is a sequence of symbols: the ones that     *)
(* matter here, and any other string for a run of bytes that are neither   *)
(* escaped nor part of an escape sequence.                                 *)
(***************************************************************************)
EXTENDS Integers, Sequences

CONSTANT Symbols

Text == Seq(Symbols)

Backslash == "\\"
Colon     == ":"
LF        == "LF"
CR        == "CR"
NonUtf8   == "0xFF"     \* a byte that makes a text no UTF-8

\* The letter that follows the backslash in the escape of a symbol.
Letters == [c |-> Colon, n |-> LF, r |-> CR]

ASSUME SymbolsAssumption ==
    {Backslash, Colon, LF, CR} \cup DOMAIN Letters \subseteq Symbols

EscapeSymbol(s) ==
    IF s = Backslash THEN <<Backslash, Backslash>>
    ELSE IF \E l \in DOMAIN Letters : Letters[l] = s
         THEN <<Backslash, CHOOSE l \in DOMAIN Letters : Letters[l] = s>>
         ELSE <<s>>

\* write_escaped, for every symbol of a key or value.
Escape(text) ==
    LET upto[i \in 0..Len(text)] ==
          IF i = 0 THEN << >> ELSE upto[i - 1] \o EscapeSymbol(text[i])
    IN  upto[Len(text)]

\* What a backslash and the symbol behind it stand for; they are kept when
\* that is no escape sequence.
UnescapePair(s) ==
    IF s \in DOMAIN Letters THEN <<Letters[s]>>
    ELSE IF s = Backslash THEN <<Backslash>>
    ELSE <<Backslash, s>>

\* unescape_header_value.
Unescape(text) ==
    LET from[i \in 1..(Len(text) + 1)] ==
          IF i > Len(text) THEN << >>
          ELSE IF text[i] = Backslash /\ i < Len(text)
               THEN UnescapePair(text[i + 1]) \o from[i + 2]
               ELSE <<text[i]>> \o from[i + 1]
    IN  from[1]

\* String::from_utf8 succeeds.
IsUtf8(text) == \A i \in 1..Len(text) : text[i] # NonUtf8

=============================================================================

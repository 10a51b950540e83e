---------------------------- MODULE FrameParser ----------------------------
(***************************************************************************)
(* parse_frame (src/frame.rs), rule by rule, on a buffer that may end      *)
(* anywhere.  A buffer is a sequence of symbols: the bytes that matter to  *)
(* the grammar, the header key content-length as one symbol, and any other *)
(* string for a byte with no meaning of its own.                           *)
(*                                                                         *)
(* A rule is applied at position p, in front of symbol p + 1, and yields   *)
(* the position behind what it took; or NeedsMore when the buffer ends     *)
(* first (winnow's Incomplete), or Fails (its Backtrack).                  *)
(***************************************************************************)
EXTENDS Decimal

CONSTANT Letters   \* the symbols that are ASCII letters

LF    == "LF"
CR    == "CR"
Colon == ":"
NUL   == "NUL"
ContentLengthKey == "content-length"

ASSUME LettersAssumption == {CR, LF} \cap Letters = {}

NeedsMore == -1
Fails     == -2

Then(p, Rule(_)) == IF p < 0 THEN p ELSE Rule(p)

\* The first position from p on that is in front of one of these symbols, or
\* the end of the buffer.
Until(s, p, stops) ==
    CHOOSE q \in p..Len(s) :
        /\ q = Len(s) \/ s[q + 1] \in stops
        /\ \A r \in p..(q - 1) : s[r + 1] \notin stops

\* Faulty variant: a CR at the end of the buffer is no line ending.
EndOfLineOfCompleteInput(s, p) ==
    IF p = Len(s) THEN NeedsMore
    ELSE IF s[p + 1] = LF THEN p + 1
    ELSE IF s[p + 1] = CR /\ p + 1 < Len(s) /\ s[p + 2] = LF THEN p + 2
    ELSE Fails

\* line_ending.
EndOfLine(s, p) ==
    IF p = Len(s) THEN NeedsMore
    ELSE IF s[p + 1] = LF THEN p + 1
    ELSE IF s[p + 1] # CR THEN Fails
    ELSE IF p + 1 = Len(s) THEN NeedsMore
    ELSE IF s[p + 2] = LF THEN p + 2
    ELSE Fails

\* opt(line_ending.complete_err()): what has not arrived is not there.
OptEndOfLine(s, p) ==
    LET end == EndOfLine(s, p) IN IF end < 0 THEN p ELSE end

\* Faulty variant: letters up to the end of the buffer are no command.
Alpha1OfCompleteInput(s, p) ==
    LET stop == Until(s, p, {s[i] : i \in 1..Len(s)} \ Letters) IN
    IF stop = p \/ stop = Len(s) THEN Fails ELSE stop

\* alpha1.
Alpha1(s, p) ==
    LET stop == Until(s, p, {s[i] : i \in 1..Len(s)} \ Letters) IN
    IF stop = Len(s) THEN NeedsMore ELSE IF stop = p THEN Fails ELSE stop

-----------------------------------------------------------------------------
(***************************************************************************)
(* Headers.                                                                *)
(***************************************************************************)

KeyEnd(s, p) == Until(s, p, {Colon, CR, LF})

ValueEnd(s, p) == Until(s, KeyEnd(s, p) + 1, {CR, LF})

Key(s, p) == SubSeq(s, p + 1, KeyEnd(s, p))

Value(s, p) == SubSeq(s, KeyEnd(s, p) + 2, ValueEnd(s, p))

\* Faulty variant: a line without a colon waits for one.
HeaderWaitsForColon(s, p) ==
    LET key == KeyEnd(s, p) IN
    IF key = p /\ p < Len(s) THEN Fails
    ELSE IF key = Len(s) \/ s[key + 1] # Colon THEN NeedsMore
    ELSE EndOfLine(s, ValueEnd(s, p))

\* parse_header.
Header(s, p) ==
    LET key == KeyEnd(s, p) IN
    IF key = Len(s) THEN NeedsMore
    ELSE IF key = p \/ s[key + 1] # Colon THEN Fails
    ELSE EndOfLine(s, ValueEnd(s, p))

\* repeat(0.., parse_header), then the empty line.
HeadersEnd(s, p) ==
    LET from[q \in p..Len(s)] ==
          LET next == Header(s, q) IN
          IF next = Fails THEN EndOfLine(s, q) ELSE Then(next, LAMBDA n : from[n])
    IN  from[p]

\* Faulty variant: of several values the last that is a number counts.
ContentLengthLast(s, p) ==
    LET from[q \in p..Len(s)] ==
          IF Header(s, q) < 0 THEN {}
          ELSE IF Key(s, q) = <<ContentLengthKey>> /\ from[Header(s, q)] = {}
               THEN Number(Value(s, q))
               ELSE from[Header(s, q)]
    IN  from[p]

\* get_content_length of the headers from position p on: the first header of
\* that name decides, also when its value is no number.
ContentLength(s, p) ==
    LET from[q \in p..Len(s)] ==
          IF Header(s, q) < 0 THEN {}
          ELSE IF Key(s, q) = <<ContentLengthKey>> THEN Number(Value(s, q))
          ELSE from[Header(s, q)]
    IN  from[p]

-----------------------------------------------------------------------------
(***************************************************************************)
(* The frame.                                                              *)
(***************************************************************************)

\* take_until(0.., NUL), or take(length) if there is one.
BodyEnd(s, p, length) ==
    LET end == IF length = {} THEN Until(s, p, {NUL})
               ELSE p + CHOOSE n \in length : TRUE
    IN  IF end > Len(s) \/ (length = {} /\ end = Len(s)) THEN NeedsMore ELSE end

\* Faulty variant: the line ending behind the NUL is waited for.
TerminatorWaits(s, p) ==
    IF p = Len(s) THEN NeedsMore
    ELSE IF s[p + 1] # NUL THEN Fails
    ELSE IF EndOfLine(s, p + 1) = NeedsMore THEN NeedsMore
    ELSE OptEndOfLine(s, p + 1)

\* literal(NUL), and the line ending behind it if it has arrived.
Terminator(s, p) ==
    IF p = Len(s) THEN NeedsMore
    ELSE IF s[p + 1] # NUL THEN Fails
    ELSE OptEndOfLine(s, p + 1)

\* parse_frame: where it stops, and, if it has found a frame, the command and
\* body, and the positions in front of the command and behind the NUL.
ParseFrame(s) ==
    LET start   == OptEndOfLine(s, 0)
        command == Alpha1(s, start)
        line    == Then(command, LAMBDA p : EndOfLine(s, p))
        head    == Then(line, LAMBDA p : HeadersEnd(s, p))
        body    == Then(head, LAMBDA p : BodyEnd(s, p, ContentLength(s, line)))
        end     == Then(body, LAMBDA p : Terminator(s, p))
    IN  [end     |-> end,
         start   |-> start,
         nul     |-> body + 1,
         command |-> IF end < 0 THEN << >> ELSE SubSeq(s, start + 1, command),
         body    |-> IF end < 0 THEN << >> ELSE SubSeq(s, head + 1, body)]

=============================================================================

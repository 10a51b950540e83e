--------------------------- MODULE GrowingBuffer ---------------------------
(***************************************************************************)
(* A buffer that grows (BufferedTransport::append) and what parse_frame    *)
(* says of it each time: decode() starts from the front of the buffer      *)
(* again after every read, and remembers nothing of the parse before.      *)
(***************************************************************************)
EXTENDS FrameGrammar

CONSTANTS
    Starts,      \* what the first read may return
    Pieces,      \* what every other read may append
    MaxPieces,   \* a bound: how many of these reads
    Completions  \* texts that may complete a frame

ASSUME TextsAssumption == Starts \cup Pieces \subseteq Seq(STRING)

VARIABLES
    input,    \* the bytes read so far
    verdict,  \* what parse_frame says of them
    pieces    \* how many reads there were behind the first

growing == <<input, verdict, pieces>>

GrowthInit ==
    /\ input \in Starts
    /\ verdict = ParseFrame(input)
    /\ pieces = 0

AppendAndParse(piece) ==
    /\ pieces < MaxPieces
    /\ pieces' = pieces + 1
    /\ LET grown == input \o piece IN
        /\ input' = grown
        /\ verdict' = ParseFrame(grown)

GrowthNext == \E piece \in Pieces : AppendAndParse(piece)

Growth == GrowthInit /\ [][GrowthNext]_growing

-----------------------------------------------------------------------------

\* parse_frame finds a frame exactly when the buffer begins with one, with
\* its body as announced or up to its first NUL, and stops behind the NUL or
\* behind the line ending that follows it.  No buffer begins with two.
FindsFrames ==
    /\ Frames(input) = IF verdict.end < 0 THEN {} ELSE {<<verdict.nul, verdict.body>>}
    /\ verdict.end >= 0 => verdict.end = OptEndOfLine(input, verdict.nul)

\* parse_frame: "If the input doesn't contain a complete frame, it returns
\* Incomplete", and next() then waits for more.  That is never in vain: there
\* are bytes that make a frame of what is in the buffer.
IncompleteIsViable ==
    verdict.end = NeedsMore =>
        \E text \in Completions : ParseFrame(input \o text).end >= 0

\* What has been decided stays decided, however the bytes are cut: more of
\* them turn no error into a frame and no frame into an error or another
\* frame, and only add the line ending behind it.  The one exception is a
\* buffer that holds the CR of a CR LF and nothing else.
DecisionsStand ==
    [][/\ verdict.end = Fails /\ input # <<CR>> => verdict'.end = Fails
       /\ verdict.end >= 0 =>
            /\ verdict'.command = verdict.command
            /\ verdict'.body = verdict.body
            /\ verdict'.end \in {verdict.end, OptEndOfLine(input', verdict.end)}]_growing

=============================================================================

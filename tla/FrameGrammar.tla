---------------------------- MODULE FrameGrammar ----------------------------
(***************************************************************************)
(* What a STOMP frame is, said without a parser: the reference for         *)
(* FrameParser.  A frame is a line ending or none, a line of letters,      *)
(* lines with a colon, an empty line, a body and a NUL.                    *)
(*                                                                         *)
(* A line is known by the positions of the LF in front of it and of the LF *)
(* at its end.                                                             *)
(***************************************************************************)
EXTENDS FrameParser

\* The LFs at positions p to q.
LineEnds(s, p, q) == {i \in p..q : s[i] = LF}

\* j is the first LF behind position i.
IsNextEnd(s, i, j) ==
    /\ i < j
    /\ s[j] = LF
    /\ \A k \in (i + 1)..(j - 1) : s[k] # LF

\* Where the text of the line stops that ends with the LF at position j.
TextEnd(s, j) == IF j > 1 /\ s[j - 1] = CR THEN j - 2 ELSE j - 1

\* A key, a colon and a value.
IsHeaderLine(s, i, j) ==
    /\ s[i + 1] # Colon
    /\ \E k \in (i + 2)..TextEnd(s, j) : s[k] = Colon

\* Behind the LF at position line there are header lines and an empty line,
\* which ends with the LF at position head.
IsHead(s, line, head) ==
    \A i \in LineEnds(s, line, head - 1) :
        \E j \in (i + 1)..head :
            /\ IsNextEnd(s, i, j)
            /\ IF j = head THEN TextEnd(s, j) = i ELSE IsHeaderLine(s, i, j)

\* The length that these headers announce, if they do.
Announced(s, line, head) ==
    LET keys  == {i \in LineEnds(s, line, head - 1) :
                    s[i + 1] = ContentLengthKey /\ s[i + 2] = Colon}
        first == CHOOSE i \in keys : \A j \in keys : i <= j
        last  == CHOOSE j \in (first + 1)..head : IsNextEnd(s, first, j)
    IN  IF keys = {} THEN {} ELSE Number(SubSeq(s, first + 3, TextEnd(s, last)))

\* Buffer s begins with a frame whose head ends at position head and which
\* has its NUL at position nul.
IsFrame(s, head, nul) ==
    LET start == IF s[1] = LF THEN 1 ELSE IF s[1] = CR THEN 2 ELSE 0
    IN  /\ s[head] = LF
        /\ s[nul] = NUL
        /\ \A i \in 1..head : s[i] = CR => s[i + 1] = LF
        /\ \E line \in LineEnds(s, start + 2, head - 1) :
            /\ start < TextEnd(s, line)
            /\ \A i \in (start + 1)..TextEnd(s, line) : s[i] \in Letters
            /\ IsHead(s, line, head)
            /\ IF Announced(s, line, head) = {}
               THEN \A i \in (head + 1)..(nul - 1) : s[i] # NUL
               ELSE Announced(s, line, head) = {nul - 1 - head}

\* The frames that buffer s begins with, by the position of their NUL, and
\* their bodies: one or none.
Frames(s) ==
    {<<f[2], SubSeq(s, f[1] + 1, f[2] - 1)>> :
        f \in {hn \in (1..Len(s)) \X (1..Len(s)) :
                  hn[1] < hn[2] /\ IsFrame(s, hn[1], hn[2])}}

=============================================================================

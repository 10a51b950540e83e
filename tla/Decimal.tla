------------------------------ MODULE Decimal ------------------------------
(***************************************************************************)
(* The numbers that get_content_length (src/frame.rs) reads from the value *)
(* of a header.  A text is a sequence of symbols, in which every digit is  *)
(* a symbol of its own, and so is a plus sign.                             *)
(***************************************************************************)
EXTENDS Integers, Sequences

CONSTANT MaxLength   \* the largest content-length a u32 can hold

ASSUME MaxLengthAssumption == MaxLength \in Nat

Plus == "+"

Numerals == <<"0", "1", "2", "3", "4", "5", "6", "7", "8", "9">>

\* The values of the symbols that are decimal digits.
Digit ==
    [d \in {Numerals[i] : i \in 1..10} |-> (CHOOSE i \in 1..10 : Numerals[i] = d) - 1]

\* v.parse::<u32>().ok(): digits, leading zeros among them, with a plus sign
\* in front or without; None if there are none or their value is too large.
Number(text) ==
    LET first == IF text # << >> /\ text[1] = Plus THEN 2 ELSE 1
        upto[i \in 0..Len(text)] ==
          IF i < first THEN 0 ELSE 10 * upto[i - 1] + Digit[text[i]]
    IN  IF Len(text) < first \/ \E i \in first..Len(text) : text[i] \notin DOMAIN Digit
        THEN {}
        ELSE {upto[Len(text)]} \cap 0..MaxLength

=============================================================================

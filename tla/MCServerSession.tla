-------------------------- MODULE MCServerSession --------------------------
(***************************************************************************)
(* Small instances of ServerSession.                                       *)
(***************************************************************************)
EXTENDS ServerSession

CONSTANTS right, wrong

MCOffer(versions, login) ==
    [cmd |-> "CONNECT", versions |-> versions, login |-> login]

\* The version string is split at its commas and not trimmed.
MCOffers ==
    {MCOffer({"1.2"}, right), MCOffer({"1.1", "1.2"}, wrong),
     MCOffer({"1.0"}, right), MCOffer({"1.1", " 1.2"}, right)}

=============================================================================

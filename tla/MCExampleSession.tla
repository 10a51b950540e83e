-------------------------- MODULE MCExampleSession --------------------------
(***************************************************************************)
(* A small instance of ExampleSession.                                     *)
(***************************************************************************)
EXTENDS ExampleSession

CONSTANTS nobody

MCCredentials == {nobody}

MCOffers ==
    {[cmd |-> "CONNECT", versions |-> versions, login |-> nobody] :
        versions \in {{"1.1", "1.2"}, {"1.0"}}}

=============================================================================

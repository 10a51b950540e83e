-------------------------- MODULE MCGrowingBuffer --------------------------
(***************************************************************************)
(* Small pieces for GrowingBuffer: every symbol alone, and the lines of a  *)
(* content-length that is a number, and of one that is too large.          *)
(***************************************************************************)
EXTENDS GrowingBuffer

MCStarts == {<< >>, <<"M", LF>>, <<CR, LF, "M", "M">>}

MCPieces ==
    {<<"M">>, <<LF>>, <<CR>>, <<Colon>>, <<NUL>>,
     <<ContentLengthKey, Colon, Plus, "1", LF>>, <<ContentLengthKey, Colon, "1", "0">>}

MCCompletions ==
    {front \o back : front \in {<< >>, <<LF>>, <<"M", LF>>, <<Colon, LF>>},
                     back \in {<<NUL>>, <<"M", NUL>>, <<LF, NUL>>, <<LF, "M", NUL>>}}

=============================================================================

--------------------------- MODULE ServerSession ---------------------------
(***************************************************************************)
(* ServerStompHandle and a client that does not use this library: it       *)
(* writes what it likes, as early as it likes.                             *)
(***************************************************************************)
EXTENDS ServerHandle, FiniteSets

CONSTANTS
    Offers,        \* the CONNECT frames the client may write
    ClientWrites   \* a bound: how many frames it writes

ASSUME OffersAssumption == \A f \in Offers : f.cmd = "CONNECT"

vars == <<c2s, s2c, up, serverVars>>

\* A SEND with its place in the stream, a frame of no known command, and
\* bytes that are no frame.
OtherFrames(n) ==
    {[cmd |-> "SEND", n |-> n], [cmd |-> "UNKNOWN"], [cmd |-> "malformed"]}

Init == ConnectionInit /\ ServerInit

ClientWrite ==
    /\ up
    /\ ~ c2s.closed
    /\ Len(c2s.sent) < ClientWrites
    /\ \E f \in Offers \cup OtherFrames(Len(c2s.sent) + 1) : c2s' = Put(c2s, f)
    /\ UNCHANGED <<s2c, up, serverVars>>

ClientClose ==
    /\ ~ c2s.closed
    /\ c2s' = Shut(c2s)
    /\ UNCHANGED <<s2c, up, serverVars>>

Next ==
    \/ ClientWrite
    \/ ClientClose
    \/ ServerNext
    \/ Break /\ UNCHANGED serverVars

Spec == Init /\ [][Next]_vars

-----------------------------------------------------------------------------

Opens(f) == f.cmd = "CONNECT" /\ "1.2" \in f.versions /\ f.login \in Accepted

\* The application reads on exactly where the handshake stopped: what its
\* handle has returned are the frames behind a CONNECT that was accepted, all
\* of them, also those that the client sent without waiting for CONNECTED and
\* that came in the same chunk as its CONNECT.
ReadsOnFromConnect ==
    server = "ready" =>
        LET first == c2s.decoded - Len(received) IN
        /\ first > 0
        /\ Opens(c2s.sent[first])
        /\ \A i \in 1..Len(received) : received[i] = c2s.sent[first + i]

\* handle_login is asked about no client but one that offers version 1.2, in
\* the order of their CONNECT frames.
LoginsAreOffered ==
    \E at \in [1..Len(logins) -> 1..c2s.decoded] :
        /\ \A i, j \in 1..Len(logins) : i < j => at[i] < at[j]
        /\ \A i \in 1..Len(logins) :
            /\ c2s.sent[at[i]].cmd = "CONNECT"
            /\ "1.2" \in c2s.sent[at[i]].versions
            /\ c2s.sent[at[i]].login = logins[i]

\* The places in a sequence at which an element of a set stands.
Where(s, T) == {i \in 1..Len(s) : s[i] \in T}

\* A session is created for each login that was accepted and for no other,
\* and each CONNECTED on the wire stands for a session of its own.
SessionsMatchLogins ==
    /\ sessions = Cardinality(Where(logins, Accepted))
    /\ Cardinality(Where(s2c.sent, {Connected})) <= sessions

=============================================================================

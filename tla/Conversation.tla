---------------------------- MODULE Conversation ----------------------------
(***************************************************************************)
(* What the two handles of a connection promise together: the client's     *)
(* handle exists only once the server has granted a session to the very    *)
(* credentials the client presented, each end speaks only from then on,    *)
(* and each hears what the other said, in order, once, and from the first  *)
(* word: nothing said right behind the handshake is lost in it.            *)
(***************************************************************************)
EXTENDS Integers, Sequences

CONSTANTS
    Credentials,  \* the credentials a client may present
    Accepted,     \* those for which a session is granted
    Words         \* what the ends may say to each other

VARIABLES
    presented,    \* the credentials the client has presented, if any
    granted,      \* the credentials a session was granted to, if any
    joined,       \* whether the client has been given its handle
    clientSaid, serverHeard,  \* from the client to the server
    serverSaid, clientHeard   \* from the server to the client

vars == <<presented, granted, joined,
          clientSaid, serverHeard, serverSaid, clientHeard>>

said == <<clientSaid, serverHeard, serverSaid, clientHeard>>

Init ==
    /\ presented = {}
    /\ granted = {}
    /\ joined = FALSE
    /\ clientSaid = << >> /\ serverHeard = << >>
    /\ serverSaid = << >> /\ clientHeard = << >>

Present ==
    /\ presented = {}
    /\ \E login \in Credentials : presented' = {login}
    /\ UNCHANGED <<granted, joined, said>>

Grant ==
    /\ granted = {}
    /\ presented # {}
    /\ presented \subseteq Accepted
    /\ granted' = presented
    /\ UNCHANGED <<presented, joined, said>>

Join ==
    /\ granted # {}
    /\ ~ joined
    /\ joined' = TRUE
    /\ UNCHANGED <<presented, granted, said>>

ClientSpeaks ==
    /\ joined
    /\ \E w \in Words : clientSaid' = Append(clientSaid, w)
    /\ UNCHANGED <<presented, granted, joined,
                   serverHeard, serverSaid, clientHeard>>

ServerSpeaks ==
    /\ granted # {}
    /\ \E w \in Words : serverSaid' = Append(serverSaid, w)
    /\ UNCHANGED <<presented, granted, joined,
                   clientSaid, serverHeard, clientHeard>>

ServerHears ==
    /\ Len(serverHeard) < Len(clientSaid)
    /\ serverHeard' = Append(serverHeard, clientSaid[Len(serverHeard) + 1])
    /\ UNCHANGED <<presented, granted, joined,
                   clientSaid, serverSaid, clientHeard>>

ClientHears ==
    /\ joined
    /\ Len(clientHeard) < Len(serverSaid)
    /\ clientHeard' = Append(clientHeard, serverSaid[Len(clientHeard) + 1])
    /\ UNCHANGED <<presented, granted, joined,
                   clientSaid, serverHeard, serverSaid>>

Next ==
    \/ Present
    \/ Grant
    \/ Join
    \/ ClientSpeaks
    \/ ServerSpeaks
    \/ ServerHears
    \/ ClientHears

Spec == Init /\ [][Next]_vars

=============================================================================

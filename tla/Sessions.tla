------------------------------ MODULE Sessions ------------------------------
(***************************************************************************)
(* What a yonaa server promises to the code that installs its handlers,    *)
(* in terms of the handler calls alone: every client is announced once, its *)
(* data is handed over in order between the announcement and the notice of *)
(* its disconnection, and that notice comes at most once.                  *)
(***************************************************************************)
EXTENDS Integers

CONSTANTS
    Peers,          \* the clients
    MaxBytes,       \* bytes one client sends
    MaxBufferSize   \* most bytes handed over by one on_data_receive_ call

VARIABLES
    connects,       \* calls of on_client_connect_ for each client
    disconnects,    \* calls of on_client_disconnect_ for each client
    delivered       \* bytes of each client passed to on_data_receive_

sessionVars == <<connects, disconnects, delivered>>

Init ==
    /\ connects = [p \in Peers |-> 0]
    /\ disconnects = [p \in Peers |-> 0]
    /\ delivered = [p \in Peers |-> 0]

InSession(p) == connects[p] = 1 /\ disconnects[p] = 0

OnClientConnect(p) ==
    /\ connects[p] = 0
    /\ connects' = [connects EXCEPT ![p] = 1]
    /\ UNCHANGED <<disconnects, delivered>>

OnDataReceive(p, n) ==
    /\ InSession(p) /\ delivered[p] + n <= MaxBytes
    /\ delivered' = [delivered EXCEPT ![p] = @ + n]
    /\ UNCHANGED <<connects, disconnects>>

OnClientDisconnect(p) ==
    /\ InSession(p)
    /\ disconnects' = [disconnects EXCEPT ![p] = 1]
    /\ UNCHANGED <<connects, delivered>>

Next ==
    \E p \in Peers :
        \/ OnClientConnect(p)
        \/ \E n \in 1..MaxBufferSize : OnDataReceive(p, n)
        \/ OnClientDisconnect(p)

Spec == Init /\ [][Next]_sessionVars

=============================================================================

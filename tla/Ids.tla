-------------------------------- MODULE Ids --------------------------------
(***************************************************************************)
(* next_available_id (server.cpp), a global that the network threads of    *)
(* all servers of a process share without synchronisation.                 *)
(* handle_incoming_connections_ takes an id before it calls accept and     *)
(* takes it back when accept fails; ++ and -- are a load and a store each. *)
(***************************************************************************)
EXTENDS Integers

CONSTANTS
    Servers,    \* the server objects, each with its network thread
    IdModulus,  \* a client_id is a uint64_t: 2^64 in the code
    MaxId       \* bound: an id is taken while next_available_id is below it

ASSUME IdsAssumption ==
    /\ IdModulus \in Nat /\ MaxId \in Nat /\ MaxId + 1 < IdModulus

VARIABLES
    next_available_id,
    pc,             \* each network thread: idle, taking, accepting, returning
    loaded,         \* what the load of its ++ or -- read
    new_client_id,
    ids,            \* ids of the clients in each server's clients_
    raced,          \* history: a load went stale, or an id taken back was not the last
    doubled         \* history: a client got the id of another one

vars == <<next_available_id, pc, loaded, new_client_id, ids, raced, doubled>>

ClientId == 0..(IdModulus - 1)

\* The variables keep their types: client_id is unsigned, and wraps around.
TypeOK ==
    /\ next_available_id \in ClientId
    /\ pc \in [Servers -> {"idle", "taking", "accepting", "returning"}]
    /\ loaded \in [Servers -> ClientId] /\ new_client_id \in [Servers -> ClientId]
    /\ ids \in [Servers -> SUBSET ClientId]
    /\ raced \in BOOLEAN /\ doubled \in BOOLEAN

Init ==
    /\ next_available_id = 1
    /\ pc = [s \in Servers |-> "idle"]
    /\ loaded = [s \in Servers |-> 0] /\ new_client_id = [s \in Servers |-> 0]
    /\ ids = [s \in Servers |-> {}]
    /\ raced = FALSE /\ doubled = FALSE

\* next_available_id++ and next_available_id--
NotIncremented(i) == i
Incremented(i) == (i + 1) % IdModulus

DecrementedSigned(i) == i - 1
Decremented(i) == (i - 1) % IdModulus

\* Every client of the process.
AllIds == UNION {ids[s] : s \in Servers}

-----------------------------------------------------------------------------
(* handle_incoming_connections_ *)

\* A connection is pending; the load of next_available_id++.
BeginTake(s) ==
    /\ pc[s] = "idle" /\ next_available_id < MaxId
    /\ loaded' = [loaded EXCEPT ![s] = next_available_id]
    /\ pc' = [pc EXCEPT ![s] = "taking"]
    /\ UNCHANGED <<next_available_id, new_client_id, ids, raced, doubled>>

\* The store of next_available_id++.
Take(s) ==
    /\ pc[s] = "taking"
    /\ new_client_id' = [new_client_id EXCEPT ![s] = loaded[s]]
    /\ next_available_id' = Incremented(loaded[s])
    /\ raced' = (raced \/ next_available_id # loaded[s])
    /\ pc' = [pc EXCEPT ![s] = "accepting"]
    /\ UNCHANGED <<loaded, ids, doubled>>

\* acceptor::accept succeeded: the client goes into clients_.
AcceptClient(s) ==
    /\ pc[s] = "accepting"
    /\ ids' = [ids EXCEPT ![s] = @ \cup {new_client_id[s]}]
    /\ doubled' = (doubled \/ new_client_id[s] \in AllIds)
    /\ pc' = [pc EXCEPT ![s] = "idle"]
    /\ UNCHANGED <<next_available_id, loaded, new_client_id, raced>>

\* acceptor::accept failed; the load of next_available_id--.
AcceptFails(s) ==
    /\ pc[s] = "accepting"
    /\ loaded' = [loaded EXCEPT ![s] = next_available_id]
    /\ pc' = [pc EXCEPT ![s] = "returning"]
    /\ UNCHANGED <<next_available_id, new_client_id, ids, raced, doubled>>

\* The store of next_available_id--: whichever id was given last is taken back.
TakeBack(s) ==
    /\ pc[s] = "returning"
    /\ next_available_id' = Decremented(loaded[s])
    /\ raced' = (raced \/ next_available_id # loaded[s]
                       \/ next_available_id # Incremented(new_client_id[s]))
    /\ pc' = [pc EXCEPT ![s] = "idle"]
    /\ UNCHANGED <<loaded, new_client_id, ids, doubled>>

\* handle_disconnected_clients_, between two rounds of the loop.
RemoveClient(s, i) ==
    /\ pc[s] = "idle" /\ i \in ids[s]
    /\ ids' = [ids EXCEPT ![s] = @ \ {i}]
    /\ UNCHANGED <<next_available_id, pc, loaded, new_client_id, raced, doubled>>

-----------------------------------------------------------------------------

Next ==
    \E s \in Servers :
        \/ BeginTake(s) \/ Take(s) \/ AcceptClient(s) \/ AcceptFails(s) \/ TakeBack(s)
        \/ \E i \in ids[s] : RemoveClient(s, i)

Spec == Init /\ [][Next]_vars

-----------------------------------------------------------------------------
(* Properties *)

\* Ids are unique over all servers of the process, and none is the 0 that tells
\* message_all_clients to exclude nobody, as long as no ++ or -- was torn apart by
\* another thread's and no server took back an id while another's was newer.
IdsUniqueUnlessRaced == ~raced => (~doubled /\ 0 \notin AllIds)

=============================================================================

------------------------------- MODULE Server -------------------------------
(***************************************************************************)
(* yonaa::server (src/server.cpp): the network thread's loop over          *)
(* handle_incoming_connections_, handle_incoming_messages_ and             *)
(* handle_disconnected_clients_, the user's handlers it calls and the API  *)
(* calls they make, and the run / stop / ~server life cycle driven by the  *)
(* user's thread.  The acceptor, poll_group and connection operations it   *)
(* calls are part of the actions that call them.                           *)
(*                                                                         *)
(* A client_info object is named by the connection it was created for, so  *)
(* clients_ is a sequence over Peers and nullptr (a moved-from             *)
(* unique_ptr), and info[p] holds the object's fields.                     *)
(***************************************************************************)
EXTENDS Sockets, Sequences

CONSTANTS
    BacklogSize,    \* backlog_size of acceptor.cpp
    MaxForeign,     \* bound: descriptors other code holds at one time
    HandlerCalls,   \* the API calls the user's handlers make
    nullptr         \* a moved-from std::unique_ptr in clients_

ASSUME ServerAssumption ==
    /\ BacklogSize \in Nat /\ MaxForeign \in Nat
    /\ HandlerCalls \subseteq {"message_client", "message_all_clients", "remove_client"}
    /\ nullptr \notin Peers

VARIABLES
    pc,             \* control point of the network thread, or how the process died
    user,           \* the thread that owns the server: using, joining or gone
    listening,      \* acceptor_ is open
    backlog,        \* connections the kernel holds for acceptor_
    running_, has_disconnected_clients_, ec_, clients_, info, next_available_id,
    pfds_,          \* descriptors in poll_group_
    events,         \* poll_result entries not handled yet
    first, result,  \* cursors of std::remove_if; first is then the loop's iterator
    connects, disconnects, delivered,   \* history: handler calls seen by the user
    kicked,         \* history: of clients_, those the user removed or sent an empty buffer
    stopRequested   \* history: stop() after run(), since the loop last read running_

handlerVars == <<connects, disconnects, delivered>>
historyVars == <<connects, disconnects, delivered, kicked, stopRequested>>
clientVars == <<has_disconnected_clients_, ec_, clients_, info, next_available_id>>
cursorVars == <<first, result>>
vars == <<kernelVars, pc, user, listening, backlog, running_, clientVars, pfds_,
          events, cursorVars, historyVars>>

\* on_connect, on_data and on_disconnect: inside the user's handler.
Callbacks == {"on_connect", "on_data", "on_disconnect"}
Dead == {"segv", "terminated", "exited"}
Labels == {"none", "spawned", "setup", "loop", "accept", "poll", "events",
           "removing", "disconnecting", "ended"} \cup Callbacks \cup Dead

ClientInfo == [id : Nat, fd : Fds \cup {0}, socket_ : Fds \cup {0},
               is_connected : BOOLEAN]
Statuses == SUBSET SocketStatus

Live == {clients_[k] : k \in DOMAIN clients_} \ {nullptr}
Alive == pc \notin Dead /\ user # "gone"

\* The server's variables keep the types their C++ declarations give them.
TypeOK ==
    /\ SocketsTypeOK
    /\ pc \in Labels /\ user \in {"using", "joining", "gone"}
    /\ listening \in BOOLEAN /\ backlog \subseteq Peers
    /\ running_ \in BOOLEAN /\ has_disconnected_clients_ \in BOOLEAN
    /\ ec_ \in BOOLEAN
    /\ clients_ \in Seq(Peers \cup {nullptr})
    /\ info \in [Peers -> ClientInfo]
    /\ next_available_id \in Nat \ {0}
    /\ pfds_ \subseteq Fds
    /\ events \subseteq [fd : Fds, status : Statuses]
    /\ first \in Nat \ {0} /\ result \in Nat \ {0}
    /\ connects \in [Peers -> Nat] /\ disconnects \in [Peers -> Nat]
    /\ delivered \in [Peers -> Nat]
    /\ kicked \subseteq Peers /\ stopRequested \in BOOLEAN

Init ==
    /\ SocketsInit
    /\ pc = "none" /\ user = "using"
    /\ listening = FALSE /\ backlog = {}
    /\ running_ = FALSE /\ has_disconnected_clients_ = FALSE /\ ec_ = FALSE
    /\ clients_ = <<>>
    /\ info = [p \in Peers |->
                 [id |-> 0, fd |-> 0, socket_ |-> 0, is_connected |-> FALSE]]
    /\ next_available_id = 1
    /\ pfds_ = {} /\ events = {}
    /\ first = 1 /\ result = 1
    /\ connects = [p \in Peers |-> 0] /\ disconnects = [p \in Peers |-> 0]
    /\ delivered = [p \in Peers |-> 0]
    /\ kicked = {} /\ stopRequested = FALSE

-----------------------------------------------------------------------------
(* Helpers *)

\* connection::disconnect and ~connection: close the socket, forget its number.
DisconnectedKeepingSocket(p) == info
Disconnected(p) == [info EXCEPT ![p].socket_ = 0]

\* remove_client on each p in S: mark the client and raise the flag.
MarkedNever(S) == info
Marked(S) ==
    [p \in Peers |-> IF p \in S THEN [info[p] EXCEPT !.is_connected = FALSE]
                     ELSE info[p]]

FlaggedNever(S) == has_disconnected_clients_
Flagged(S) == has_disconnected_clients_ \/ S # {}

\* find_if over clients_: position k is the first with id i.  The predicate
\* dereferences every pointer it passes, so none of them may be null.
FindsId(k, i) ==
    /\ \A j \in 1..k : clients_[j] # nullptr
    /\ info[clients_[k]].id = i
    /\ \A j \in 1..(k - 1) : info[clients_[j]].id # i

FindsFd(k, f) ==
    /\ \A j \in 1..k : clients_[j] # nullptr
    /\ info[clients_[k]].fd = f
    /\ \A j \in 1..(k - 1) : info[clients_[j]].fd # f

\* The loop conditions of network_thread_function_.
KeepsRunningForever == TRUE
KeepsRunning == running_

-----------------------------------------------------------------------------
(* The life cycle: server::run, server::stop, server::~server *)

\* run() with running_ already set returns at once.  Assigning to a std::thread
\* that was never joined calls std::terminate.
Run ==
    /\ Alive /\ user = "using" /\ ~running_
    /\ pc' = IF pc = "none" THEN "spawned" ELSE "terminated"
    /\ UNCHANGED <<kernelVars, user, listening, backlog, running_, clientVars, pfds_,
                   events, cursorVars, historyVars>>

\* From the owner's thread or from inside a handler.
Stop ==
    /\ Alive /\ (user = "using" \/ pc \in Callbacks)
    /\ running_' = FALSE
    /\ stopRequested' = (stopRequested \/ pc # "none")
    /\ UNCHANGED <<kernelVars, pc, user, listening, backlog, clientVars, pfds_,
                   events, cursorVars, handlerVars, kicked>>

\* ~server joins a joinable thread, and does not call stop().
Destroy ==
    /\ Alive /\ user = "using"
    /\ user' = IF pc = "none" THEN "gone" ELSE "joining"
    /\ UNCHANGED <<kernelVars, pc, listening, backlog, running_, clientVars, pfds_,
                   events, cursorVars, historyVars>>

\* join() returns; the members go, and with clients_ every open connection.
Join ==
    /\ Alive /\ user = "joining" /\ pc = "ended"
    /\ user' = "gone"
    /\ fdTable' = Closed({info[p].socket_ : p \in Live})
    /\ info' = [p \in Peers |-> [info[p] EXCEPT !.socket_ = 0]]
    /\ clients_' = <<>>
    /\ UNCHANGED <<foreign, peerState, sent, consumed, pc, listening, backlog,
                   running_, has_disconnected_clients_, ec_, next_available_id,
                   pfds_, events, cursorVars, historyVars>>

-----------------------------------------------------------------------------
(* network_thread_function_ *)

Start ==
    /\ Alive /\ pc = "spawned"
    /\ running_' = TRUE
    /\ pc' = "setup"
    /\ UNCHANGED <<kernelVars, user, listening, backlog, clientVars, pfds_, events,
                   cursorVars, historyVars>>

\* resolve and acceptor::open; a failure of either calls std::exit.
OpenAcceptor ==
    /\ Alive /\ pc = "setup"
    /\ \/ listening' = TRUE /\ pc' = "loop"
       \/ listening' = listening /\ pc' = "exited"
    /\ UNCHANGED <<kernelVars, user, backlog, running_, clientVars, pfds_, events,
                   cursorVars, historyVars>>

LoopTest ==
    /\ Alive /\ pc = "loop"
    /\ IF KeepsRunning
       THEN pc' = "accept" /\ UNCHANGED <<listening, backlog>>
       ELSE pc' = "ended" /\ listening' = FALSE /\ backlog' = {}
    /\ stopRequested' = FALSE
    /\ UNCHANGED <<kernelVars, user, running_, clientVars, pfds_, events, cursorVars,
                   handlerVars, kicked>>

-----------------------------------------------------------------------------
(* handle_incoming_connections_ *)

has_pending_connection == backlog # {}

AcceptDone ==
    /\ Alive /\ pc = "accept"
    /\ ~running_ \/ ~has_pending_connection
    /\ pc' = "poll"
    /\ UNCHANGED <<kernelVars, user, listening, backlog, running_, clientVars, pfds_,
                   events, cursorVars, historyVars>>

\* The id a successful accept leaves for the next client.
IdReused == next_available_id
IdTakenBack == next_available_id - 1
IdAfterAccept == next_available_id + 1

AcceptClient(p, f) ==
    /\ Alive /\ pc = "accept" /\ running_
    /\ p \in backlog /\ fdTable[f] = Nobody /\ ~ec_
    /\ backlog' = backlog \ {p}
    /\ fdTable' = [fdTable EXCEPT ![f] = p]
    /\ info' = [info EXCEPT ![p] = [id |-> next_available_id, fd |-> f,
                                    socket_ |-> f, is_connected |-> TRUE]]
    /\ next_available_id' = IdAfterAccept
    /\ clients_' = Append(clients_, p)
    /\ pfds_' = pfds_ \cup {f}
    /\ connects' = [connects EXCEPT ![p] = @ + 1]
    /\ pc' = "on_connect"
    /\ UNCHANGED <<foreign, peerState, sent, consumed, user, listening, running_,
                   has_disconnected_clients_, ec_, events, cursorVars, disconnects,
                   delivered, kicked, stopRequested>>

\* accept succeeded, but ec_ still holds an earlier error: new_client is
\* destroyed, which closes the connection, and the id is taken back.
AcceptDropped(p) ==
    /\ Alive /\ pc = "accept" /\ running_
    /\ p \in backlog /\ ec_ /\ \E f \in Fds : fdTable[f] = Nobody
    /\ backlog' = backlog \ {p}
    /\ UNCHANGED <<kernelVars, pc, user, listening, running_, clientVars, pfds_,
                   events, cursorVars, historyVars>>

\* ::accept returned -1: the connection was aborted, or the process has no
\* descriptor left and the connection stays queued.  The kernel reserves the
\* descriptor first.
AcceptFails(p) ==
    /\ Alive /\ pc = "accept" /\ running_
    /\ p \in backlog
    /\ backlog' = IF \E f \in Fds : fdTable[f] = Nobody THEN backlog \ {p} ELSE backlog
    /\ ec_' = TRUE
    /\ UNCHANGED <<kernelVars, pc, user, listening, running_,
                   has_disconnected_clients_, clients_, info, next_available_id,
                   pfds_, events, cursorVars, historyVars>>

-----------------------------------------------------------------------------
(* handle_incoming_messages_ *)

\* poll_group::poll: an entry for every descriptor with any revents.
PollResultUnfiltered == {[fd |-> f, status |-> {"readable"}] : f \in pfds_}
PollResult ==
    {[fd |-> f, status |-> ssm_from_revents(Revents(f))] :
        f \in {g \in pfds_ : Revents(g) # {}}}

Poll ==
    /\ Alive /\ pc = "poll"
    /\ events' = PollResult
    /\ pc' = "events"
    /\ UNCHANGED <<kernelVars, user, listening, backlog, running_, clientVars, pfds_,
                   cursorVars, historyVars>>

\* The loop is over, or stop() made it return; handle_disconnected_clients_
\* returns at once when nothing was ever marked.
EventsDone ==
    /\ Alive /\ pc = "events"
    /\ ~running_ \/ events = {}
    /\ events' = {}
    /\ pc' = IF has_disconnected_clients_ THEN "removing" ELSE "loop"
    /\ first' = 1 /\ result' = 1
    /\ UNCHANGED <<kernelVars, user, listening, backlog, running_, clientVars, pfds_,
                   historyVars>>

Handling(e) ==
    /\ Alive /\ pc = "events" /\ running_ /\ e \in events
    /\ events' = events \ {e}
    /\ UNCHANGED <<foreign, peerState, sent, user, listening, backlog, running_,
                   clients_, next_available_id, pfds_, cursorVars, connects,
                   disconnects, kicked, stopRequested>>

\* No client has the descriptor, or its status is empty.
SkipEvent(e) ==
    /\ Handling(e)
    /\ UNCHANGED <<fdTable, consumed, pc, has_disconnected_clients_, ec_, info,
                   delivered>>

HandleHangUp(p, e) ==
    /\ Handling(e)
    /\ e.status \cap {"error", "hung_up"} # {}
    /\ info' = Marked({p})
    /\ has_disconnected_clients_' = Flagged({p})
    /\ UNCHANGED <<fdTable, consumed, pc, ec_, delivered>>

\* connection::receive got data.  A stale ec_ makes the handler drop the data
\* and mark the client; otherwise on_data_receive_ is called with it.
ReceiveData(p, e) ==
    LET q == fdTable[info[p].socket_] IN
    /\ Handling(e)
    /\ e.status = {"readable"} /\ info[p].socket_ # 0
    /\ q \in Peers /\ Unread(q) > 0
    /\ consumed' = [consumed EXCEPT ![q] = @ + RecvSize(q)]
    /\ IF ec_
       THEN /\ info' = Marked({p}) /\ has_disconnected_clients_' = Flagged({p})
            /\ UNCHANGED <<pc, delivered>>
       ELSE /\ delivered' = [delivered EXCEPT ![p] = @ + RecvSize(q)]
            /\ pc' = "on_data"
            /\ UNCHANGED <<info, has_disconnected_clients_>>
    /\ UNCHANGED <<fdTable, ec_>>

\* ::recv returned 0: the connection closes itself, and ec_ is assigned errno,
\* which no call has set on this path and may be zero or left over.
ReceiveEof(p, e) ==
    LET q == fdTable[info[p].socket_] IN
    /\ Handling(e)
    /\ e.status = {"readable"} /\ info[p].socket_ # 0
    /\ q \in Peers /\ Unread(q) = 0 /\ peerState[q] = "fin"
    /\ fdTable' = Closed({info[p].socket_})
    /\ ec_' \in BOOLEAN
    /\ info' = [Disconnected(p) EXCEPT ![p].is_connected = FALSE]
    /\ has_disconnected_clients_' = Flagged({p})
    /\ UNCHANGED <<consumed, pc, delivered>>

\* The connection is closed already, or ::recv returned -1.
ReceiveError(p, e) ==
    LET q == fdTable[info[p].socket_] IN
    /\ Handling(e)
    /\ e.status = {"readable"}
    /\ IF info[p].socket_ = 0 THEN TRUE
       ELSE q \in Peers => (Unread(q) = 0 /\ peerState[q] = "rst")
    /\ ec_' = TRUE
    /\ info' = Marked({p})
    /\ has_disconnected_clients_' = Flagged({p})
    /\ UNCHANGED <<fdTable, consumed, pc, delivered>>

HandleEvent(e) ==
    LET found == {k \in DOMAIN clients_ : FindsFd(k, e.fd)} IN
    IF found = {} \/ e.status = {}
    THEN SkipEvent(e)
    ELSE \E k \in found :
            \/ HandleHangUp(clients_[k], e)
            \/ ReceiveData(clients_[k], e)
            \/ ReceiveEof(clients_[k], e)
            \/ ReceiveError(clients_[k], e)

-----------------------------------------------------------------------------
(* handle_disconnected_clients_ *)

\* One iteration of std::remove_if.  Moving a unique_ptr onto a slot destroys
\* the client_info the slot held, which closes its connection.
RemoveIf ==
    /\ Alive /\ pc = "removing" /\ first <= Len(clients_)
    /\ first' = first + 1
    /\ IF ~info[clients_[first]].is_connected
       THEN UNCHANGED <<result, clients_, info, fdTable>>
       ELSE /\ result' = result + 1
            /\ IF result = first
               THEN UNCHANGED <<clients_, info, fdTable>>
               ELSE LET old == clients_[result] IN
                    /\ clients_' = [clients_ EXCEPT ![result] = clients_[first],
                                                    ![first] = nullptr]
                    /\ info' = IF old = nullptr THEN info ELSE Disconnected(old)
                    /\ fdTable' = IF old = nullptr THEN fdTable
                                  ELSE Closed({info[old].socket_})
    /\ UNCHANGED <<foreign, peerState, sent, consumed, pc, user, listening, backlog,
                   running_, has_disconnected_clients_, ec_, next_available_id,
                   pfds_, events, historyVars>>

RemoveIfDone ==
    /\ Alive /\ pc = "removing" /\ first > Len(clients_)
    /\ first' = result
    /\ pc' = "disconnecting"
    /\ UNCHANGED <<kernelVars, user, listening, backlog, running_, clientVars, pfds_,
                   events, result, historyVars>>

\* poll_group::remove_socket
remove_socket_skipped(f) == pfds_
remove_socket(f) == pfds_ \ {f}

DisconnectClient ==
    LET p == clients_[first] IN
    /\ Alive /\ pc = "disconnecting" /\ first <= Len(clients_) /\ p # nullptr
    /\ pfds_' = remove_socket(info[p].fd)
    /\ fdTable' = Closed({info[p].socket_})
    /\ info' = Disconnected(p)
    /\ disconnects' = [disconnects EXCEPT ![p] = @ + 1]
    /\ first' = first + 1
    /\ pc' = "on_disconnect"
    /\ UNCHANGED <<foreign, peerState, sent, consumed, user, listening, backlog,
                   running_, has_disconnected_clients_, ec_, clients_,
                   next_available_id, events, result, connects, delivered, kicked,
                   stopRequested>>

\* it->get() is null and client->fd is read through it.
NullSkipped ==
    /\ Alive /\ pc = "disconnecting" /\ first <= Len(clients_)
    /\ clients_[first] = nullptr
    /\ first' = first + 1
    /\ UNCHANGED <<kernelVars, pc, user, listening, backlog, running_, clientVars,
                   pfds_, events, result, historyVars>>
DisconnectNull ==
    /\ Alive /\ pc = "disconnecting" /\ first <= Len(clients_)
    /\ clients_[first] = nullptr
    /\ pc' = "segv"
    /\ UNCHANGED <<kernelVars, user, listening, backlog, running_, clientVars, pfds_,
                   events, cursorVars, historyVars>>

\* clients_.erase(first_disconnected_client, clients_.end())
EraseSkipped == clients_
Erased == SubSeq(clients_, 1, result - 1)

\* has_disconnected_clients_ is never lowered.
FlagLowered == FALSE
FlagAfterErase == has_disconnected_clients_

EraseClients ==
    /\ Alive /\ pc = "disconnecting" /\ first > Len(clients_)
    /\ clients_' = Erased
    /\ has_disconnected_clients_' = FlagAfterErase
    /\ first' = 1 /\ result' = 1
    /\ kicked' = kicked \cap Live'
    /\ pc' = "loop"
    /\ UNCHANGED <<kernelVars, user, listening, backlog, running_, ec_, info,
                   next_available_id, pfds_, events, handlerVars, stopRequested>>

-----------------------------------------------------------------------------
(* What the user's handlers do: any calls of the API, then return.  A call   *)
(* that finds no client, or one already marked, returns without an effect.   *)

\* conn.send to the clients at positions T in order, of which those at F fail.
\* ec_ keeps the error, so every client after a failure counts as failed too.
SendTo(T, F) ==
    LET lost == {clients_[k] : k \in {k \in T : ec_ \/ \E j \in F : j <= k}} IN
    /\ ec_' = (ec_ \/ F # {})
    /\ info' = Marked(lost)
    /\ has_disconnected_clients_' = Flagged(lost)

\* The failures a send to T may have; an empty buffer always fails.
SendFailures(T, empty) ==
    IF empty THEN {T}
    ELSE {F \in SUBSET T :
            /\ \A k \in F : SendMayFail(info[clients_[k]].socket_)
            /\ \A k \in T \ F : SendMaySucceed(info[clients_[k]].socket_)}

message_client(i, empty) ==
    /\ Alive /\ pc \in Callbacks /\ "message_client" \in HandlerCalls
    /\ \E k \in DOMAIN clients_ :
        /\ FindsId(k, i) /\ info[clients_[k]].is_connected
        /\ \E F \in SendFailures({k}, empty) : SendTo({k}, F)
        /\ kicked' = IF empty THEN kicked \cup {clients_[k]} ELSE kicked
    /\ UNCHANGED <<kernelVars, pc, user, listening, backlog, running_, clients_,
                   next_available_id, pfds_, events, cursorVars, handlerVars,
                   stopRequested>>

message_all_clients(exclude, empty) ==
    LET T == {k \in DOMAIN clients_ : /\ info[clients_[k]].id # exclude
                                      /\ info[clients_[k]].is_connected} IN
    /\ Alive /\ pc \in Callbacks /\ "message_all_clients" \in HandlerCalls
    /\ \A k \in DOMAIN clients_ : clients_[k] # nullptr
    /\ \E F \in SendFailures(T, empty) : SendTo(T, F)
    /\ kicked' = IF empty THEN kicked \cup {clients_[k] : k \in T} ELSE kicked
    /\ UNCHANGED <<kernelVars, pc, user, listening, backlog, running_, clients_,
                   next_available_id, pfds_, events, cursorVars, handlerVars,
                   stopRequested>>

remove_client(i) ==
    /\ Alive /\ pc \in Callbacks /\ "remove_client" \in HandlerCalls
    /\ \E k \in DOMAIN clients_ :
        /\ FindsId(k, i)
        /\ info' = Marked({clients_[k]})
        /\ has_disconnected_clients_' = Flagged({clients_[k]})
        /\ kicked' = kicked \cup {clients_[k]}
    /\ UNCHANGED <<kernelVars, pc, user, listening, backlog, running_, ec_, clients_,
                   next_available_id, pfds_, events, cursorVars, handlerVars,
                   stopRequested>>

\* A call that walks clients_ onto a null pointer.
HandlerHitsNull ==
    /\ Alive /\ pc \in Callbacks /\ HandlerCalls # {}
    /\ \E k \in DOMAIN clients_ : clients_[k] = nullptr
    /\ pc' = "segv"
    /\ UNCHANGED <<kernelVars, user, listening, backlog, running_, clientVars, pfds_,
                   events, cursorVars, historyVars>>

HandlerReturns ==
    /\ Alive /\ pc \in Callbacks
    /\ pc' = CASE pc = "on_connect" -> "accept"
               [] pc = "on_data" -> "events"
               [] pc = "on_disconnect" -> "disconnecting"
    /\ UNCHANGED <<kernelVars, user, listening, backlog, running_, clientVars, pfds_,
                   events, cursorVars, historyVars>>

-----------------------------------------------------------------------------
(* The environment: remote hosts and the rest of the process *)

PeerConnects(p) ==
    /\ Alive /\ listening /\ peerState[p] = "none"
    /\ Cardinality(backlog) < BacklogSize
    /\ peerState' = [peerState EXCEPT ![p] = "open"]
    /\ backlog' = backlog \cup {p}
    /\ UNCHANGED <<fdTable, foreign, sent, consumed, pc, user, listening, running_,
                   clientVars, pfds_, events, cursorVars, historyVars>>

PeerActs(p) ==
    /\ Alive /\ (p \in backlog \/ Attached(p))
    /\ PeerSends(p) \/ PeerCloses(p) \/ PeerResets(p)
    /\ UNCHANGED <<pc, user, listening, backlog, running_, clientVars, pfds_,
                   events, cursorVars, historyVars>>

ForeignActs(f) ==
    /\ Alive
    /\ \/ Cardinality(foreign) < MaxForeign /\ ForeignOpens(f)
       \/ ForeignCloses(f)
    /\ UNCHANGED <<pc, user, listening, backlog, running_, clientVars, pfds_,
                   events, cursorVars, historyVars>>

-----------------------------------------------------------------------------

NetworkThread ==
    \/ Start \/ OpenAcceptor \/ LoopTest
    \/ AcceptDone
    \/ \E p \in Peers, f \in Fds : AcceptClient(p, f)
    \/ \E p \in Peers : AcceptDropped(p) \/ AcceptFails(p)
    \/ Poll \/ EventsDone
    \/ \E e \in events : HandleEvent(e)
    \/ RemoveIf \/ RemoveIfDone \/ DisconnectClient \/ DisconnectNull \/ EraseClients
    \/ HandlerReturns

\* Ids a handler may pass: every one it has heard of, and one it has not.
Handlers ==
    \/ \E i \in 1..next_available_id : remove_client(i)
    \/ \E i \in 1..next_available_id, empty \in BOOLEAN : message_client(i, empty)
    \/ \E i \in 0..next_available_id, empty \in BOOLEAN : message_all_clients(i, empty)
    \/ HandlerHitsNull

Owner == Run \/ Stop \/ Destroy \/ Join

Environment ==
    \/ \E p \in Peers : PeerConnects(p) \/ PeerActs(p)
    \/ \E f \in Fds : ForeignActs(f)

\* The process is gone, or the server object is.
Halted == ~Alive /\ UNCHANGED vars

Next == NetworkThread \/ Handlers \/ Owner \/ Environment \/ Halted

Spec == Init /\ [][Next]_vars

\* The network thread is scheduled, handlers return, and join() returns once
\* the thread has ended.  Nobody is obliged to call the API or to connect.
FairSpec == Spec /\ WF_vars(NetworkThread) /\ WF_vars(Join)

-----------------------------------------------------------------------------
(* Safety *)

\* Control points at which clients_ is not being compacted.
Stable == pc \in {"loop", "accept", "on_connect", "poll", "events", "on_data"}
          /\ user # "gone"

\* No two clients in clients_ share an id, so client_info_from_id finds the
\* client the caller means although ids are taken back after a failed accept.
UniqueIds ==
    \A j, k \in DOMAIN clients_ :
        (j # k /\ clients_[j] # nullptr /\ clients_[k] # nullptr)
            => info[clients_[j]].id # info[clients_[k]].id

\* A descriptor refers to a connection exactly when a client in clients_ holds
\* it as its socket: no connection is leaked, used after close or mixed up with
\* another although connection::receive closes descriptors that clients_ and
\* poll_group_ still mention.
DescriptorsOwned ==
    \A f \in Fds, p \in Peers :
        fdTable[f] = p <=> (p \in Live /\ info[p].socket_ = f)

\* The server never closes a descriptor that other code of the process opened
\* under a number the server had used before.
ForeignIntact == \A f \in foreign : fdTable[f] = Foreign

\* Outside handle_disconnected_clients_ every client that was announced and not
\* reported as disconnected is in clients_: when std::remove_if has destroyed one
\* without a notice, the network thread never gets back to its loop.
UnreportedClientsStay ==
    Stable => \A p \in Peers : connects[p] > disconnects[p] => p \in Live

\* Whenever clients_ is not being compacted, poll_group_ watches exactly the
\* descriptors of the clients, and no two clients have the same one.
PollGroupTracksClients ==
    Stable =>
        /\ pfds_ = {info[p].fd : p \in Live}
        /\ \A p, q \in Live : p # q => info[p].fd # info[q].fd

\* ::poll is never given a descriptor that was closed or has become something
\* else since add_socket.
PolledDescriptorsAreOpen ==
    (pc = "poll" /\ user # "gone") => \A f \in pfds_ : fdTable[f] \in Live

\* The single network thread cannot block in ::recv: whatever handle_incoming_-
\* messages_ has still to handle is an open socket on which ::recv returns.
RecvNeverBlocks ==
    pc \in {"events", "on_data"} =>
        \A e \in events : fdTable[e.fd] \in Live /\ RecvReady(fdTable[e.fd])

\* Every byte taken from the socket of a client that is not marked for removal
\* has been given to on_data_receive_, in that client's name.
NoByteLost ==
    \A p \in Live : info[p].is_connected => delivered[p] = consumed[p]

\* A client marked in clients_ always finds has_disconnected_clients_ raised,
\* even one that on_client_disconnect_ marks while others are being removed.
MarkedClientsFlagged ==
    (\E p \in Live : ~info[p].is_connected) => has_disconnected_clients_

\* The handlers see well-formed sessions: the server implements Sessions.
Abstract == INSTANCE Sessions
            WITH connects <- connects, disconnects <- disconnects, delivered <- delivered
SessionsRefined == Abstract!Spec

-----------------------------------------------------------------------------
(* Liveness *)

\* stop() that the network thread can see (after it has set running_) ends it.
StopEndsThread ==
    (pc \notin {"none", "spawned"} /\ ~running_) ~> (pc = "ended" \/ ~Alive)

\* ~server returns, once stop() has been called where the network thread can see
\* it, before or while the destructor waits in join().
DestructorReturns ==
    (user = "joining" /\ pc \notin {"none", "spawned"} /\ ~running_) ~> ~Alive

\* A client whose peer closed or reset the connection leaves clients_, unless
\* the server is stopped or the process dies first.
FailedClientsLeave ==
    \A p \in Peers :
        (p \in Live /\ peerState[p] \in {"fin", "rst"})
            ~> (p \notin Live \/ ~running_ \/ ~Alive)

\* So does a client that a handler passed to remove_client.
RemovedClientsLeave ==
    \A p \in Peers :
        (p \in Live /\ p \in kicked) ~> (p \notin Live \/ ~running_ \/ ~Alive)

-----------------------------------------------------------------------------
(* Statements of the repository that the code does not keep *)

\* server.cpp says of handle_disconnected_clients_ that it "physically and
\* logically" disconnects the clients it removes: none leaves clients_ without
\* its on_client_disconnect_ call.
RemovedClientsAreNotified ==
    user # "gone" => \A p \in Peers : connects[p] > disconnects[p] => p \in Live

\* server.cpp marks a client when its send or receive failed: a client is marked
\* only if its peer is gone or the user asked for it.
OnlyFailedClientsMarked ==
    \A p \in Live : ~info[p].is_connected => (p \in kicked \/ peerState[p] # "open")

\* server.hpp: stop() requests that the server stop its operation.
StopIsHonoured == stopRequested ~> (pc = "ended" \/ ~Alive)

=============================================================================

---------------------------- MODULE PollingProofs ----------------------------
(***************************************************************************)
(* Proofs about Server: what poll_group_ watches, and which clients are    *)
(* marked for removal, while clients_ grows in handle_incoming_-           *)
(* connections_ and shrinks in handle_disconnected_clients_.               *)
(***************************************************************************)
EXTENDS ServerProofs

-----------------------------------------------------------------------------
(* The inductive invariant.  clients_ and poll_group_ disagree while clients   *)
(* are removed, so it says how far each loop of handle_disconnected_clients_   *)
(* has come.  Once remove_if has moved a client it has left a null pointer     *)
(* behind its result, and the loop that follows cannot get past it: only a     *)
(* removal that moved nothing reaches the erase.                               *)

Handlings == {"events", "on_data"}
Disconnecting == {"disconnecting", "on_disconnect"}

NoNull == \A k \in DOMAIN clients_ : clients_[k] # nullptr

\* A client keeps the number of its descriptor, and the socket until it is closed;
\* only a client marked for removal has its socket closed.
SocketFields ==
    \A p \in Live :
        /\ info[p].fd \in Fds /\ info[p].socket_ \in {0, info[p].fd}
        /\ info[p].is_connected => info[p].socket_ = info[p].fd

FdsDistinct == \A p, q \in Live : p # q => info[p].fd # info[q].fd

\* Positions of the clients whose sockets are certainly open: those remove_if has
\* kept, and all of them from the erase to the next poll.
Kept == IF pc \in Compacting THEN 1..(result - 1)
        ELSE IF pc \in Handlings THEN {} ELSE DOMAIN clients_

KeptOpen ==
    Alive => \A k \in Kept : /\ clients_[k] # nullptr
                             /\ info[clients_[k]].socket_ = info[clients_[k]].fd

\* A null pointer is behind the result of remove_if, and ahead of the loop after it.
NullsAhead ==
    Alive => \A k \in DOMAIN clients_ :
                clients_[k] = nullptr =>
                    \/ pc = "removing" /\ result <= k /\ k < first
                    \/ pc \in Disconnecting /\ first <= k

\* Everything remove_if has passed and not kept is marked or null.
TailMarked ==
    Alive => \A k \in DOMAIN clients_ :
                (/\ result <= k /\ clients_[k] # nullptr
                 /\ pc \in Disconnecting \/ (pc = "removing" /\ k < first))
                    => ~info[clients_[k]].is_connected

\* Positions of the clients whose descriptors have left poll_group_.
Passed == IF pc \in Disconnecting THEN result..(first - 1) ELSE {}

Watched ==
    (Alive /\ NoNull) =>
        pfds_ = {info[clients_[k]].fd : k \in DOMAIN clients_ \ Passed}

PollInv ==
    /\ IInv
    /\ SocketFields /\ FdsDistinct
    /\ KeptOpen /\ NullsAhead /\ TailMarked /\ Watched
    /\ MarkedClientsFlagged

-----------------------------------------------------------------------------
(* Lemmas *)

\* Marking clients clears is_connected of those clients, and only that.
LEMMA MarkedRest ==
    ASSUME TypeOK, NEW S, NEW p \in Peers
    PROVE  /\ Marked(S)[p].fd = info[p].fd
           /\ Marked(S)[p].is_connected => (info[p].is_connected /\ p \notin S)
           /\ p \notin S => Marked(S)[p] = info[p]
<1>1. info[p] \in ClientInfo
  BY DEF TypeOK
<1> QED BY <1>1 DEF Marked, ClientInfo

\* Disconnecting a client changes no descriptor number and no mark.
LEMMA DisconnectedRest ==
    ASSUME TypeOK, NEW p \in Peers, NEW q \in Peers
    PROVE  /\ Disconnected(p)[q].fd = info[q].fd
           /\ Disconnected(p)[q].is_connected = info[q].is_connected
<1>1. info \in [Peers -> [id : Nat, fd : Fds \cup {0}, socket_ : Fds \cup {0},
                          is_connected : BOOLEAN]]
  BY DEF TypeOK, ClientInfo
<1> QED BY <1>1 DEF Disconnected

\* clients_, position by position.
LEMMA Positions ==
    ASSUME TypeOK
    PROVE  /\ DOMAIN clients_ = 1..Len(clients_) /\ Len(clients_) \in Nat
           /\ first \in Nat \ {0} /\ result \in Nat \ {0}
           /\ Live \subseteq Peers
           /\ \A k \in DOMAIN clients_ :
                clients_[k] # nullptr => (clients_[k] \in Live /\ clients_[k] \in Peers)
<1>1. clients_ \in Seq(Peers \cup {nullptr})
  BY DEF TypeOK
<1>2. Live \subseteq Peers
  BY <1>1, LiveElements
<1>3. \A k \in DOMAIN clients_ : clients_[k] # nullptr => clients_[k] \in Live
  BY LiveElements
<1> QED BY <1>1, <1>2, <1>3 DEF TypeOK

\* A step that leaves clients_, poll_group_ and the sockets alone, marks clients
\* at most with the flag raised, and keeps to one of the phases of the loop.
LEMMA FrameStep ==
    ASSUME PollInv, IInv', UNCHANGED <<clients_, pfds_>>, Alive' => Alive,
           \A p \in Peers : /\ info'[p].fd = info[p].fd
                            /\ info'[p].socket_ = info[p].socket_
                            /\ info'[p].is_connected => info[p].is_connected,
           has_disconnected_clients_ => has_disconnected_clients_',
           has_disconnected_clients_' \/ \A p \in Peers : info'[p] = info[p],
           \/ pc' \in Dead
           \/ pc \notin Compacting /\ pc' \notin Compacting
              /\ (pc \in Handlings => pc' \in Handlings)
           \/ pc' = pc /\ UNCHANGED <<first, result>>
           \/ pc \in Disconnecting /\ pc' \in Disconnecting /\ UNCHANGED <<first, result>>
    PROVE  PollInv'
<1>1. /\ TypeOK /\ Live' = Live /\ Live \subseteq Peers
      /\ DOMAIN clients_ = 1..Len(clients_) /\ Len(clients_) \in Nat
      /\ \A k \in DOMAIN clients_ : clients_[k] # nullptr => clients_[k] \in Peers
  BY Positions DEF PollInv, IInv, TypeInv, Live
<1>2. SocketFields' /\ FdsDistinct'
  BY <1>1 DEF PollInv, SocketFields, FdsDistinct
<1>3. MarkedClientsFlagged'
  BY <1>1 DEF PollInv, MarkedClientsFlagged
<1>4. ASSUME Alive'
      PROVE  /\ Alive /\ Kept' \subseteq Kept /\ Passed' = Passed
             /\ Kept \subseteq DOMAIN clients_
             /\ (pc' \in Compacting \/ pc \in Compacting) => UNCHANGED <<first, result>>
             /\ (pc' = "removing" <=> pc = "removing")
             /\ (pc' \in Disconnecting <=> pc \in Disconnecting)
  <2>1. Alive /\ pc' \notin Dead
    BY <1>4 DEF Alive
  <2>2. pc \in Compacting => result <= Len(clients_) + 1
    BY <1>1, Positions DEF PollInv, IInv, TypeInv, Cursors
  <2>3. Kept \subseteq DOMAIN clients_
    BY <1>1, <2>2, Positions DEF Kept
  <2> QED BY <2>1, <2>3 DEF Kept, Passed, Compacting, Disconnecting, Handlings
<1>5. KeptOpen'
  <2>1. ASSUME Alive', NEW k \in Kept'
        PROVE  clients_'[k] # nullptr
               /\ info'[clients_'[k]].socket_ = info'[clients_'[k]].fd
    <3>1. k \in DOMAIN clients_ /\ clients_[k] # nullptr
          /\ info[clients_[k]].socket_ = info[clients_[k]].fd
      BY <1>4, <2>1 DEF PollInv, KeptOpen
    <3> QED BY <1>1, <3>1
  <2> QED BY <2>1 DEF KeptOpen
<1>6. NullsAhead'
  <2>1. ASSUME Alive', NEW k \in DOMAIN clients_', clients_'[k] = nullptr
        PROVE  \/ pc' = "removing" /\ result' <= k /\ k < first'
               \/ pc' \in Disconnecting /\ first' <= k
    <3>1. \/ pc = "removing" /\ result <= k /\ k < first
          \/ pc \in Disconnecting /\ first <= k
      BY <1>4, <2>1 DEF PollInv, NullsAhead
    <3> QED BY <1>4, <2>1, <3>1 DEF Compacting, Disconnecting
  <2> QED BY <2>1 DEF NullsAhead
<1>7. TailMarked'
  <2>1. ASSUME Alive', NEW k \in DOMAIN clients_', result' <= k, clients_'[k] # nullptr,
               pc' \in Disconnecting \/ (pc' = "removing" /\ k < first')
        PROVE  ~info'[clients_'[k]].is_connected
    <3>1. UNCHANGED <<first, result>>
      BY <1>4, <2>1 DEF Compacting, Disconnecting
    <3>2. ~info[clients_[k]].is_connected /\ clients_[k] \in Peers
      BY <1>1, <1>4, <2>1, <3>1 DEF PollInv, TailMarked
    <3> QED BY <3>2
  <2> QED BY <2>1 DEF TailMarked
<1>8. Watched'
  <2>1. ASSUME Alive', NoNull'
        PROVE  pfds_' = {info'[clients_'[k]].fd : k \in DOMAIN clients_' \ Passed'}
    <3>1. NoNull
      BY <2>1 DEF NoNull
    <3>2. /\ pfds_ = {info[clients_[k]].fd : k \in DOMAIN clients_ \ Passed}
          /\ Passed' = Passed
      BY <1>4, <2>1, <3>1 DEF PollInv, Watched
    <3>3. \A k \in DOMAIN clients_ : info'[clients_[k]].fd = info[clients_[k]].fd
      BY <1>1, <3>1 DEF NoNull
    <3> HIDE DEF Passed
    <3> QED BY <3>2, <3>3
  <2> QED BY <2>1 DEF Watched
<1> QED BY <1>2, <1>3, <1>5, <1>6, <1>7, <1>8 DEF PollInv

\* The initial state satisfies the invariant.
LEMMA PollInit == Init => PollInv
<1> SUFFICES ASSUME Init PROVE PollInv
  OBVIOUS
<1>1. IInv
  BY OwnershipInit
<1>2. Live = {} /\ DOMAIN clients_ = {} /\ pfds_ = {} /\ pc = "none"
  BY DEF Init, Live
<1>3. Kept = {}
  BY <1>2 DEF Kept, Compacting, Handlings
<1> QED BY <1>1, <1>2, <1>3 DEF PollInv, SocketFields, FdsDistinct, KeptOpen,
     NullsAhead, TailMarked, Watched, MarkedClientsFlagged

-----------------------------------------------------------------------------
(* The steps *)

\* Calls made by the owner, up to the end of join().
LEMMA PollOwner ==
    ASSUME PollInv, IInv', Owner
    PROVE  PollInv'
<1>1. CASE Run
  <2>1. (pc' = "spawned" /\ pc = "none") \/ pc' \in Dead
    BY <1>1 DEF Run, Dead
  <2> QED BY <1>1, <2>1, FrameStep DEF Run, clientVars, Compacting, Handlings
<1>2. CASE Stop \/ Destroy
  BY <1>2, FrameStep DEF Stop, Destroy, clientVars, cursorVars
<1>3. CASE Join
  <2>1. /\ clients_' = <<>> /\ DOMAIN clients_' = {} /\ Live' = {}
        /\ ~Alive'
    BY <1>3 DEF Join, Live, Alive
  <2> QED BY <2>1 DEF PollInv, SocketFields, FdsDistinct, KeptOpen, NullsAhead,
       TailMarked, Watched, MarkedClientsFlagged
<1> QED BY <1>1, <1>2, <1>3 DEF Owner

\* API calls made by a handler: a client is marked only with the flag raised.
LEMMA PollHandlers ==
    ASSUME PollInv, IInv', Handlers
    PROVE  PollInv'
<1>1. TypeOK
  BY DEF PollInv, IInv, TypeInv
<1>2. ASSUME NEW S, info' = Marked(S), has_disconnected_clients_' = Flagged(S),
             UNCHANGED <<pc, user, clients_, pfds_, cursorVars>>
      PROVE  PollInv'
  <2>1. \A p \in Peers : /\ info'[p].fd = info[p].fd
                         /\ info'[p].socket_ = info[p].socket_
                         /\ info'[p].is_connected => info[p].is_connected
                         /\ p \notin S => info'[p] = info[p]
    BY <1>1, <1>2, MarkedFields, MarkedRest
  <2>2. has_disconnected_clients_ => has_disconnected_clients_'
    BY <1>2 DEF Flagged
  <2>3. has_disconnected_clients_' \/ \A p \in Peers : info'[p] = info[p]
    BY <1>2, <2>1 DEF Flagged
  <2> QED BY <1>2, <2>1, <2>2, <2>3, FrameStep DEF cursorVars, Alive
<1>3. ASSUME NEW i, remove_client(i)
      PROVE  PollInv'
  BY <1>2, <1>3 DEF remove_client
<1>4. ASSUME NEW i, NEW empty, message_client(i, empty)
      PROVE  PollInv'
  BY <1>2, <1>4 DEF message_client, SendTo
<1>5. ASSUME NEW i, NEW empty, message_all_clients(i, empty)
      PROVE  PollInv'
  BY <1>2, <1>5 DEF message_all_clients, SendTo
<1>6. CASE HandlerHitsNull
  BY <1>6, FrameStep DEF HandlerHitsNull, clientVars, Dead
<1> QED BY <1>3, <1>4, <1>5, <1>6 DEF Handlers

\* The remote hosts and the rest of the process.
LEMMA PollEnvironment ==
    ASSUME PollInv, IInv', Environment
    PROVE  PollInv'
<1>1. /\ UNCHANGED <<clients_, pfds_, pc, first, result, info, has_disconnected_clients_>>
      /\ Alive
  BY DEF Environment, PeerConnects, PeerActs, ForeignActs, clientVars, cursorVars
<1> QED BY <1>1, FrameStep

\* The network thread's steps that neither add, close nor remove a client.
LEMMA PollThread ==
    ASSUME PollInv, IInv',
           \/ Start \/ OpenAcceptor \/ LoopTest \/ AcceptDone \/ Poll
           \/ HandlerReturns \/ DisconnectNull
           \/ \E p \in Peers : AcceptDropped(p) \/ AcceptFails(p)
    PROVE  PollInv'
<1>1. CASE Start \/ OpenAcceptor \/ LoopTest \/ AcceptDone \/ Poll
  BY <1>1, FrameStep DEF Start, OpenAcceptor, LoopTest, AcceptDone, Poll, clientVars,
     cursorVars, Compacting, Handlings
<1>2. CASE HandlerReturns
  <2>1. \/ pc = "on_connect" /\ pc' = "accept"
        \/ pc = "on_data" /\ pc' = "events"
        \/ pc = "on_disconnect" /\ pc' = "disconnecting"
    BY <1>2 DEF HandlerReturns, Callbacks
  <2> QED BY <1>2, <2>1, FrameStep DEF HandlerReturns, clientVars, cursorVars,
       Compacting, Handlings, Disconnecting
<1>3. CASE DisconnectNull
  BY <1>3, FrameStep DEF DisconnectNull, clientVars, Dead
<1>4. ASSUME NEW p \in Peers, AcceptDropped(p) \/ AcceptFails(p)
      PROVE  PollInv'
  BY <1>4, FrameStep DEF AcceptDropped, AcceptFails, clientVars, cursorVars
<1> QED BY <1>1, <1>2, <1>3, <1>4

\* handle_incoming_connections_: the descriptor of the new client is not that of
\* any other, because all of them are open.
LEMMA PollAccept ==
    ASSUME PollInv, IInv', NEW p \in Peers, NEW f \in Fds, AcceptClient(p, f)
    PROVE  PollInv'
<1>1. /\ TypeOK /\ Live \subseteq Peers /\ info \in [Peers -> ClientInfo]
      /\ clients_ \in Seq(Peers \cup {nullptr})
      /\ p \notin Live /\ p # nullptr /\ Alive /\ pc = "accept" /\ pc' = "on_connect"
      /\ fdTable[f] = Nobody
  BY Positions, ServerAssumption DEF PollInv, IInv, TypeInv, TypeOK, ArrivalsInv,
     AcceptClient
<1>2. /\ Len(clients_') = Len(clients_) + 1 /\ DOMAIN clients_' = 1..(Len(clients_) + 1)
      /\ DOMAIN clients_ = 1..Len(clients_) /\ Len(clients_) \in Nat
      /\ \A k \in 1..Len(clients_) : clients_'[k] = clients_[k]
      /\ clients_'[Len(clients_) + 1] = p
  BY <1>1 DEF AcceptClient
<1>3. Live' = Live \cup {p}
  BY <1>1, <1>2 DEF Live
<1>4. /\ info'[p].fd = f /\ info'[p].socket_ = f /\ info'[p].is_connected
      /\ \A q \in Peers : q # p => info'[q] = info[q]
      /\ pfds_' = pfds_ \cup {f}
      /\ has_disconnected_clients_' = has_disconnected_clients_
  BY <1>1 DEF AcceptClient
<1>5. ASSUME NEW k \in DOMAIN clients_
      PROVE  /\ clients_[k] \in Live /\ clients_[k] \in Peers /\ clients_[k] # p
             /\ clients_[k] # nullptr
             /\ info[clients_[k]].socket_ = info[clients_[k]].fd
             /\ info'[clients_[k]] = info[clients_[k]]
  <2>1. Kept = DOMAIN clients_
    BY <1>1 DEF Kept, Compacting, Handlings
  <2>2. clients_[k] # nullptr /\ info[clients_[k]].socket_ = info[clients_[k]].fd
    BY <1>1, <2>1 DEF PollInv, KeptOpen
  <2> QED BY <1>1, <1>4, <2>2, Positions
<1>6. SocketFields'
  BY <1>1, <1>3, <1>4 DEF PollInv, SocketFields
<1>7. FdsDistinct'
  <2>1. ASSUME NEW q \in Live
        PROVE  info[q].fd # f
    <3>1. PICK k \in DOMAIN clients_ : clients_[k] = q
      BY LiveElements
    <3>2. info[q].socket_ = info[q].fd /\ info[q].fd \in Fds /\ q \in Peers
      BY <1>5, <3>1 DEF PollInv, SocketFields
    <3>3. fdTable[info[q].fd] = q
      BY <3>2 DEF PollInv, IInv, DescriptorsOwned
    <3> QED BY <1>1, <3>2, <3>3, SocketsAssumption
  <2> QED BY <1>1, <1>3, <1>4, <2>1 DEF PollInv, FdsDistinct
<1>8. /\ Kept' = DOMAIN clients_' /\ Passed' = {} /\ Passed = {}
      /\ pc' \notin Compacting /\ pc' \notin Disconnecting /\ pc' # "removing"
  BY <1>1 DEF Kept, Passed, Compacting, Handlings, Disconnecting
<1>9. \A k \in DOMAIN clients_' :
        /\ clients_'[k] # nullptr
        /\ info'[clients_'[k]].socket_ = info'[clients_'[k]].fd
  BY <1>1, <1>2, <1>4, <1>5
<1>10. KeptOpen'
  BY <1>8, <1>9 DEF KeptOpen
<1>11. NullsAhead' /\ TailMarked'
  BY <1>8, <1>9 DEF NullsAhead, TailMarked
<1>12. Watched'
  <2>1. NoNull
    BY <1>5 DEF NoNull
  <2>2. pfds_ = {info[clients_[k]].fd : k \in DOMAIN clients_}
    BY <1>1, <1>8, <2>1 DEF PollInv, Watched
  <2>3. /\ \A k \in 1..Len(clients_) : info'[clients_'[k]].fd = info[clients_[k]].fd
        /\ info'[clients_'[Len(clients_) + 1]].fd = f
    BY <1>2, <1>4, <1>5
  <2>4. {info'[clients_'[k]].fd : k \in 1..(Len(clients_) + 1)} = pfds_ \cup {f}
    BY <1>2, <2>2, <2>3
  <2> QED BY <1>2, <1>4, <1>8, <2>4 DEF Watched
<1>13. MarkedClientsFlagged'
  BY <1>1, <1>3, <1>4 DEF PollInv, MarkedClientsFlagged
<1> QED BY <1>6, <1>7, <1>10, <1>11, <1>12, <1>13 DEF PollInv

\* handle_incoming_messages_: a socket is closed only as its client is marked.
LEMMA PollEvent ==
    ASSUME PollInv, IInv', NEW e \in events, HandleEvent(e)
    PROVE  PollInv'
<1>1. TypeOK
  BY DEF PollInv, IInv, TypeInv
<1>2. ASSUME Handling(e), pc' \in {pc, "on_data"},
             \/ info' = info /\ has_disconnected_clients_' = has_disconnected_clients_
             \/ \E p \in Peers : /\ info' = Marked({p})
                                 /\ has_disconnected_clients_' = Flagged({p})
      PROVE  PollInv'
  <2>1. \A p \in Peers : /\ info'[p].fd = info[p].fd
                         /\ info'[p].socket_ = info[p].socket_
                         /\ info'[p].is_connected => info[p].is_connected
    <3>1. ASSUME NEW q \in Peers, info' = Marked({q}), NEW p \in Peers
          PROVE  /\ info'[p].fd = info[p].fd /\ info'[p].socket_ = info[p].socket_
                 /\ info'[p].is_connected => info[p].is_connected
      BY <1>1, <3>1, MarkedFields, MarkedRest
    <3> QED BY <1>2, <3>1
  <2>2. has_disconnected_clients_ => has_disconnected_clients_'
    BY <1>2 DEF Flagged
  <2>3. has_disconnected_clients_' \/ \A p \in Peers : info'[p] = info[p]
    BY <1>2 DEF Flagged
  <2>4. /\ UNCHANGED <<clients_, pfds_, first, result>> /\ Alive
        /\ pc \in Handlings /\ pc' \in Handlings /\ pc \notin Compacting
        /\ pc' \notin Compacting
    BY <1>2 DEF Handling, cursorVars, Handlings, Compacting
  <2> QED BY <2>1, <2>2, <2>3, <2>4, FrameStep
<1>3. CASE SkipEvent(e)
  BY <1>2, <1>3 DEF SkipEvent
<1>4. ASSUME NEW p \in Peers,
             HandleHangUp(p, e) \/ ReceiveData(p, e) \/ ReceiveError(p, e)
      PROVE  PollInv'
  <2>1. /\ Handling(e) /\ pc' \in {pc, "on_data"}
        /\ \/ info' = info /\ has_disconnected_clients_' = has_disconnected_clients_
           \/ info' = Marked({p}) /\ has_disconnected_clients_' = Flagged({p})
    BY <1>4 DEF HandleHangUp, ReceiveData, ReceiveError
  <2> QED BY <1>2, <2>1
<1>5. ASSUME NEW p \in Live, ReceiveEof(p, e)
      PROVE  PollInv'
  <2>1. /\ p \in Peers /\ Live \subseteq Peers /\ Live' = Live
        /\ Alive /\ pc = "events" /\ UNCHANGED <<pc, clients_, pfds_>>
    BY <1>1, <1>5, Positions DEF ReceiveEof, Handling, Live
  <2>2. /\ info'[p].socket_ = 0 /\ ~info'[p].is_connected
        /\ \A q \in Peers : /\ info'[q].fd = info[q].fd
                            /\ q # p => /\ info'[q].socket_ = info[q].socket_
                                        /\ info'[q].is_connected = info[q].is_connected
    <3> DEFINE D == Disconnected(p)
    <3>1. D \in [Peers -> ClientInfo] /\ info' = [D EXCEPT ![p].is_connected = FALSE]
      BY <1>1, <1>5, HelperTypes DEF ReceiveEof
    <3>2. /\ D[p].socket_ = 0
          /\ \A q \in Peers : /\ D[q].fd = info[q].fd
                              /\ D[q].is_connected = info[q].is_connected
                              /\ q # p => D[q].socket_ = info[q].socket_
      BY <1>1, <2>1, DisconnectedFields, DisconnectedRest
    <3> HIDE DEF D
    <3> QED BY <2>1, <3>1, <3>2 DEF ClientInfo
  <2>3. SocketFields' /\ FdsDistinct'
    BY <2>1, <2>2 DEF PollInv, SocketFields, FdsDistinct
  <2>4. MarkedClientsFlagged'
    <3>1. has_disconnected_clients_'
      BY <1>5 DEF ReceiveEof, Flagged
    <3> QED BY <3>1 DEF MarkedClientsFlagged
  <2>5. /\ pc' \notin Compacting /\ pc' \notin Disconnecting /\ pc' # "removing"
        /\ Kept' = {} /\ Passed' = {} /\ Passed = {}
    BY <2>1 DEF Compacting, Disconnecting, Kept, Passed, Handlings
  <2>6. \A k \in DOMAIN clients_ : clients_[k] # nullptr
    BY <2>1 DEF PollInv, NullsAhead, Disconnecting
  <2>7. KeptOpen' /\ NullsAhead' /\ TailMarked'
    BY <2>1, <2>5, <2>6 DEF KeptOpen, NullsAhead, TailMarked
  <2>8. Watched'
    <3>1. pfds_ = {info[clients_[k]].fd : k \in DOMAIN clients_}
      BY <2>1, <2>5, <2>6 DEF PollInv, Watched, NoNull
    <3>2. \A k \in DOMAIN clients_ : info'[clients_[k]].fd = info[clients_[k]].fd
      BY <1>1, <2>2, <2>6, Positions
    <3> QED BY <2>1, <2>5, <3>1, <3>2 DEF Watched
  <2> QED BY <2>3, <2>4, <2>7, <2>8 DEF PollInv
<1>6. CASE \E k \in DOMAIN clients_ :
             /\ clients_[k] # nullptr
             /\ \/ HandleHangUp(clients_[k], e) \/ ReceiveData(clients_[k], e)
                \/ ReceiveEof(clients_[k], e) \/ ReceiveError(clients_[k], e)
  <2>1. PICK k \in DOMAIN clients_ :
            /\ clients_[k] # nullptr
            /\ \/ HandleHangUp(clients_[k], e) \/ ReceiveData(clients_[k], e)
               \/ ReceiveEof(clients_[k], e) \/ ReceiveError(clients_[k], e)
    BY <1>6
  <2>2. clients_[k] \in Live /\ clients_[k] \in Peers
    BY <1>1, <2>1, Positions
  <2> QED BY <2>1, <2>2, <1>4, <1>5
<1> QED BY <1>1, <1>3, <1>6, HandleEventCases

\* The removal starts: if the flag was never raised then every client is open.
LEMMA PollEventsDone ==
    ASSUME PollInv, IInv', EventsDone
    PROVE  PollInv'
<1>1. /\ TypeOK /\ Live' = Live /\ Live \subseteq Peers /\ Alive
      /\ UNCHANGED <<clients_, info, pfds_, has_disconnected_clients_, user>>
      /\ pc = "events" /\ first' = 1 /\ result' = 1
      /\ pc' = IF has_disconnected_clients_ THEN "removing" ELSE "loop"
  BY Positions DEF PollInv, IInv, TypeInv, EventsDone, clientVars, Live
<1>2. NoNull
  BY <1>1 DEF PollInv, NullsAhead, NoNull, Disconnecting
<1>3. SocketFields' /\ FdsDistinct' /\ MarkedClientsFlagged'
  BY <1>1 DEF PollInv, SocketFields, FdsDistinct, MarkedClientsFlagged
<1>4. KeptOpen'
  <2>1. CASE has_disconnected_clients_
    <3>1. Kept' = {}
      BY <1>1, <2>1 DEF Kept, Compacting
    <3> QED BY <3>1 DEF KeptOpen
  <2>2. CASE ~has_disconnected_clients_
    <3>1. Kept' = DOMAIN clients_
      BY <1>1, <2>2 DEF Kept, Compacting, Handlings
    <3>2. \A k \in DOMAIN clients_ : info[clients_[k]].socket_ = info[clients_[k]].fd
      BY <1>1, <1>2, <2>2, Positions DEF PollInv, MarkedClientsFlagged, SocketFields,
         NoNull
    <3> QED BY <1>1, <1>2, <3>1, <3>2 DEF KeptOpen, NoNull
  <2> QED BY <2>1, <2>2
<1>5. NullsAhead'
  BY <1>1, <1>2 DEF NullsAhead, NoNull
<1>6. TailMarked'
  <2>1. pc' \notin Disconnecting
    BY <1>1 DEF Disconnecting
  <2>2. \A k \in DOMAIN clients_ : ~(k < 1)
    BY <1>1, Positions
  <2> QED BY <1>1, <2>1, <2>2 DEF TailMarked
<1>7. Watched'
  <2>1. Passed = {} /\ Passed' = {}
    BY <1>1 DEF Passed, Disconnecting
  <2> QED BY <1>1, <1>2, <2>1 DEF PollInv, Watched
<1> QED BY <1>3, <1>4, <1>5, <1>6, <1>7 DEF PollInv

\* One iteration of remove_if.  A move leaves a null pointer behind the result.
LEMMA PollRemoveIf ==
    ASSUME PollInv, IInv', RemoveIf
    PROVE  PollInv'
<1>1. /\ TypeOK /\ Live \subseteq Peers /\ Alive /\ Alive' /\ pc = "removing"
      /\ clients_ \in Seq(Peers \cup {nullptr})
      /\ DOMAIN clients_ = 1..Len(clients_) /\ Len(clients_) \in Nat
      /\ first \in 1..Len(clients_) /\ result \in 1..Len(clients_) /\ result <= first
      /\ first' = first + 1
      /\ UNCHANGED <<pc, pfds_, has_disconnected_clients_>>
  <2>1. /\ Alive /\ Alive' /\ pc = "removing" /\ first <= Len(clients_)
        /\ first' = first + 1
        /\ UNCHANGED <<pc, pfds_, has_disconnected_clients_>>
    BY DEF RemoveIf, Alive
  <2>2. TypeOK /\ clients_ \in Seq(Peers \cup {nullptr})
    BY DEF PollInv, IInv, TypeInv, TypeOK
  <2>3. result <= first
    BY <2>1 DEF PollInv, IInv, TypeInv, Cursors, Compacting
  <2> QED BY <2>1, <2>2, <2>3, Positions
<1>2. clients_[first] # nullptr /\ clients_[first] \in Live /\ clients_[first] \in Peers
  BY <1>1, Positions DEF PollInv, NullsAhead, Disconnecting
<1>3. /\ Kept = 1..(result - 1) /\ Kept' = 1..(result' - 1)
      /\ Passed = {} /\ Passed' = {}
      /\ pc \notin Disconnecting
  BY <1>1 DEF Kept, Passed, Compacting, Disconnecting
<1>4. /\ \A k \in 1..(result - 1) :
            clients_[k] # nullptr /\ info[clients_[k]].socket_ = info[clients_[k]].fd
      /\ \A k \in 1..Len(clients_) : clients_[k] = nullptr => (result <= k /\ k < first)
      /\ \A k \in 1..Len(clients_) :
            (result <= k /\ clients_[k] # nullptr /\ k < first)
                => ~info[clients_[k]].is_connected
  BY <1>1, <1>3 DEF PollInv, KeptOpen, NullsAhead, TailMarked
<1>5. CASE UNCHANGED clients_
  <2>1. UNCHANGED <<clients_, info>> /\ Live' = Live
    <3>1. ASSUME info' # info
          PROVE  FALSE
      <4>1. /\ result # first /\ result \in 1..Len(clients_)
            /\ clients_' = [clients_ EXCEPT ![result] = clients_[first],
                                            ![first] = nullptr]
        BY <1>1, <3>1 DEF RemoveIf
      <4>2. clients_[first] \in Peers \cup {nullptr}
        BY <1>2
      <4>3. clients_'[first] = nullptr
        BY <1>1, <4>1, <4>2, ExceptTwice
      <4> QED BY <1>2, <1>5, <4>3
    <3> QED BY <1>5, <3>1 DEF Live
  <2>2. SocketFields' /\ FdsDistinct' /\ MarkedClientsFlagged'
    BY <1>1, <2>1 DEF PollInv, SocketFields, FdsDistinct, MarkedClientsFlagged
  <2>3. Watched'
    BY <1>1, <1>3, <2>1 DEF PollInv, Watched, NoNull
  <2>4. CASE ~info[clients_[first]].is_connected
    <3>1. result' = result
      BY <2>4 DEF RemoveIf
    <3>2. KeptOpen' /\ NullsAhead'
      BY <1>1, <1>3, <1>4, <2>1, <3>1 DEF KeptOpen, NullsAhead
    <3>3. TailMarked'
      <4>1. \A k \in 1..Len(clients_) :
                (result <= k /\ clients_[k] # nullptr /\ k < first + 1)
                    => ~info[clients_[k]].is_connected
        BY <1>1, <1>4, <2>4
      <4> QED BY <1>1, <1>3, <2>1, <3>1, <4>1 DEF TailMarked
    <3> QED BY <2>2, <2>3, <3>2, <3>3 DEF PollInv
  <2>5. CASE info[clients_[first]].is_connected
    <3>1. result' = result + 1 /\ result = first
      <4>1. result' = result + 1
        BY <2>5 DEF RemoveIf
      <4>2. ASSUME result # first
            PROVE  FALSE
        <5>1. clients_' = [clients_ EXCEPT ![result] = clients_[first],
                                           ![first] = nullptr]
          BY <2>5, <4>2 DEF RemoveIf
        <5>2. clients_[first] \in Peers \cup {nullptr}
          BY <1>2
        <5>3. clients_'[first] = nullptr
          BY <1>1, <5>1, <5>2, ExceptTwice
        <5> QED BY <1>2, <1>5, <5>3
      <4> QED BY <4>1, <4>2
    <3>2. info[clients_[first]].socket_ = info[clients_[first]].fd
      BY <1>2, <2>5 DEF PollInv, SocketFields
    <3>3. KeptOpen'
      <4>1. \A k \in 1..((result + 1) - 1) :
              clients_[k] # nullptr /\ info[clients_[k]].socket_ = info[clients_[k]].fd
        BY <1>1, <1>2, <1>4, <3>1, <3>2
      <4> QED BY <1>3, <2>1, <3>1, <4>1 DEF KeptOpen
    <3>4. NullsAhead' /\ TailMarked'
      <4>1. \A k \in 1..Len(clients_) : clients_[k] # nullptr
        BY <1>1, <1>4, <3>1
      <4>2. \A k \in 1..Len(clients_) : ~(first + 1 <= k /\ k < first + 1)
        BY <1>1
      <4> QED BY <1>1, <1>3, <2>1, <3>1, <4>1, <4>2 DEF NullsAhead, TailMarked
    <3> QED BY <2>2, <2>3, <3>3, <3>4 DEF PollInv
  <2> QED BY <2>4, <2>5
<1>6. CASE ~UNCHANGED clients_
  <2> DEFINE old == clients_[result]
  <2>1. /\ result # first /\ result' = result + 1 /\ info[clients_[first]].is_connected
        /\ clients_' = [clients_ EXCEPT ![result] = clients_[first], ![first] = nullptr]
        /\ info' = IF old = nullptr THEN info ELSE Disconnected(old)
    BY <1>6 DEF RemoveIf
  <2>2. /\ DOMAIN clients_' = 1..Len(clients_)
        /\ \A k \in 1..Len(clients_) :
             clients_'[k] = IF k = first THEN nullptr
                            ELSE IF k = result THEN clients_[first] ELSE clients_[k]
    <3>1. clients_[first] \in Peers \cup {nullptr}
      BY <1>2
    <3>2. /\ clients_' \in Seq(Peers \cup {nullptr}) /\ Len(clients_') = Len(clients_)
          /\ \A k \in 1..Len(clients_) :
               clients_'[k] = IF k = first THEN nullptr
                              ELSE IF k = result THEN clients_[first] ELSE clients_[k]
      BY <1>1, <2>1, <3>1, ExceptTwice
    <3> QED BY <3>2
  <2>3. \A j, k \in 1..Len(clients_) :
            (j # k /\ clients_[j] # nullptr) => clients_[j] # clients_[k]
    BY <1>1 DEF PollInv, IInv, ClientsDistinct
  <2>4. ASSUME NEW k \in 1..Len(clients_), clients_'[k] # nullptr
        PROVE  /\ clients_'[k] \in Live /\ clients_'[k] \in Peers /\ clients_'[k] # old
    <3>1. CASE k = result
      BY <1>1, <1>2, <2>1, <2>2, <2>3, <3>1
    <3>2. CASE k # result
      <4>1. clients_'[k] = clients_[k] /\ k # first
        BY <2>2, <2>4, <3>2
      <4>2. clients_[k] # old
        BY <1>1, <2>3, <2>4, <3>2, <4>1
      <4> QED BY <1>1, <2>4, <4>1, <4>2, Positions
    <3> QED BY <3>1, <3>2
  <2>5. Live' \subseteq Live /\ old \notin Live'
    <3>1. ASSUME NEW q \in Live'
          PROVE  q \in Live /\ q # old
      <4>1. PICK k \in 1..Len(clients_) : clients_'[k] = q /\ q # nullptr
        BY <2>2 DEF Live
      <4> QED BY <2>4, <4>1
    <3> QED BY <3>1
  <2>6. \A q \in Peers : /\ info'[q].fd = info[q].fd
                         /\ info'[q].is_connected = info[q].is_connected
                         /\ q # old => info'[q].socket_ = info[q].socket_
    <3>1. CASE old = nullptr
      BY <2>1, <3>1
    <3>2. CASE old # nullptr
      <4>1. old \in Peers /\ info' = Disconnected(old)
        BY <1>1, <2>1, <3>2, Positions
      <4> HIDE DEF old
      <4> QED BY <1>1, <4>1, DisconnectedFields, DisconnectedRest
    <3> QED BY <3>1, <3>2
  <2> HIDE DEF old
  <2>7. SocketFields' /\ FdsDistinct'
    BY <1>1, <2>5, <2>6 DEF PollInv, SocketFields, FdsDistinct
  <2>8. MarkedClientsFlagged'
    BY <1>1, <2>5, <2>6 DEF PollInv, MarkedClientsFlagged
  <2>9. KeptOpen'
    <3>1. ASSUME NEW k \in 1..((result + 1) - 1)
          PROVE  /\ clients_'[k] # nullptr
                 /\ info'[clients_'[k]].socket_ = info'[clients_'[k]].fd
      <4>1. k \in 1..Len(clients_) /\ k # first
        BY <1>1, <2>1
      <4>2. /\ clients_'[k] # nullptr
            /\ info[clients_'[k]].socket_ = info[clients_'[k]].fd
        <5>1. CASE k = result
          BY <1>1, <1>2, <2>1, <2>2, <4>1, <5>1 DEF PollInv, SocketFields
        <5>2. CASE k # result
          <6>1. k \in 1..(result - 1) /\ clients_'[k] = clients_[k]
            BY <1>1, <2>2, <4>1, <5>2
          <6> QED BY <1>4, <6>1
        <5> QED BY <5>1, <5>2
      <4> QED BY <2>4, <2>6, <4>1, <4>2
    <3> QED BY <1>3, <2>1, <3>1 DEF KeptOpen
  <2>10. NullsAhead'
    <3>1. ASSUME NEW k \in 1..Len(clients_), clients_'[k] = nullptr
          PROVE  result + 1 <= k /\ k < first + 1
      <4>1. CASE k = first
        BY <1>1, <2>1, <4>1
      <4>2. CASE k # first
        <5>1. k # result /\ clients_[k] = nullptr
          BY <1>2, <2>2, <3>1, <4>2
        <5> QED BY <1>1, <1>4, <5>1
      <4> QED BY <4>1, <4>2
    <3> QED BY <1>1, <2>1, <2>2, <3>1 DEF NullsAhead
  <2>11. TailMarked'
    <3>1. ASSUME NEW k \in 1..Len(clients_), result + 1 <= k, k < first + 1,
                 clients_'[k] # nullptr
          PROVE  ~info'[clients_'[k]].is_connected
      <4>1. k # first /\ k # result
        BY <1>1, <2>2, <3>1
      <4>2. clients_'[k] = clients_[k] /\ result <= k /\ k < first
        BY <1>1, <2>2, <3>1, <4>1
      <4> QED BY <1>4, <2>4, <2>6, <3>1, <4>2
    <3> QED BY <1>1, <1>3, <2>1, <2>2, <3>1 DEF TailMarked
  <2>12. Watched'
    <3>1. ~NoNull'
      BY <1>1, <2>2 DEF NoNull
    <3> QED BY <3>1 DEF Watched
  <2> QED BY <2>7, <2>8, <2>9, <2>10, <2>11, <2>12 DEF PollInv
<1> QED BY <1>5, <1>6

\* remove_if returns, and the loop over the clients behind its result starts.
LEMMA PollRemoveIfDone ==
    ASSUME PollInv, IInv', RemoveIfDone
    PROVE  PollInv'
<1>1. /\ TypeOK /\ Live' = Live /\ Alive /\ Alive' /\ pc = "removing"
      /\ DOMAIN clients_ = 1..Len(clients_) /\ Len(clients_) \in Nat
      /\ first \in Nat /\ result \in Nat /\ first > Len(clients_)
      /\ first' = result /\ result' = result /\ pc' = "disconnecting"
      /\ UNCHANGED <<clients_, info, pfds_, has_disconnected_clients_>>
  BY Positions DEF PollInv, IInv, TypeInv, RemoveIfDone, Alive, clientVars, Live, Dead
<1>2. /\ Kept' = Kept /\ Passed = {} /\ Passed' = {}
      /\ pc \notin Disconnecting /\ pc' \in Disconnecting
  <2>1. result..(result - 1) = {}
    BY <1>1
  <2> QED BY <1>1, <2>1 DEF Kept, Passed, Compacting, Disconnecting
<1>3. SocketFields' /\ FdsDistinct' /\ MarkedClientsFlagged'
  BY <1>1 DEF PollInv, SocketFields, FdsDistinct, MarkedClientsFlagged
<1>4. KeptOpen'
  BY <1>1, <1>2 DEF PollInv, KeptOpen
<1>5. NullsAhead'
  BY <1>1, <1>2 DEF PollInv, NullsAhead
<1>6. TailMarked'
  <2>1. ASSUME NEW k \in DOMAIN clients_, result <= k, clients_[k] # nullptr
        PROVE  ~info[clients_[k]].is_connected
    <3>1. k < first
      BY <1>1
    <3> QED BY <1>1, <2>1, <3>1 DEF PollInv, TailMarked
  <2> QED BY <1>1, <2>1 DEF TailMarked
<1>7. Watched'
  BY <1>1, <1>2 DEF PollInv, Watched, NoNull
<1> QED BY <1>3, <1>4, <1>5, <1>6, <1>7 DEF PollInv

\* One client behind the result leaves poll_group_ and is closed.
LEMMA PollDisconnectClient ==
    ASSUME PollInv, IInv', DisconnectClient
    PROVE  PollInv'
<1> DEFINE p == clients_[first]
<1>1. /\ TypeOK /\ Live' = Live /\ Live \subseteq Peers
      /\ DOMAIN clients_ = 1..Len(clients_) /\ Len(clients_) \in Nat
      /\ first \in 1..Len(clients_) /\ result \in Nat /\ result >= 1 /\ result <= first
  <2>1. TypeOK /\ result <= first /\ first <= Len(clients_)
    BY DEF PollInv, IInv, TypeInv, Cursors, Compacting, DisconnectClient
  <2>2. Live' = Live
    BY DEF DisconnectClient, Live
  <2> QED BY <2>1, <2>2, Positions
<1>2. /\ Alive /\ Alive' /\ pc = "disconnecting" /\ pc' = "on_disconnect"
      /\ p # nullptr /\ pfds_' = pfds_ \ {info[p].fd} /\ info' = Disconnected(p)
      /\ first' = first + 1 /\ result' = result
      /\ UNCHANGED <<clients_, has_disconnected_clients_>>
  BY DEF DisconnectClient, remove_socket, Alive, Dead
<1>3. p \in Live /\ p \in Peers
  BY <1>1, <1>2, Positions
<1>4. /\ info'[p].socket_ = 0
      /\ \A q \in Peers : /\ info'[q].fd = info[q].fd
                          /\ info'[q].is_connected = info[q].is_connected
                          /\ q # p => info'[q].socket_ = info[q].socket_
  <2> HIDE DEF p
  <2> QED BY <1>1, <1>2, <1>3, DisconnectedFields, DisconnectedRest
<1>5. ~info[p].is_connected
  BY <1>1, <1>2 DEF PollInv, TailMarked, Disconnecting
<1>6. \A k \in 1..Len(clients_) : k # first => clients_[k] # p
  BY <1>1, <1>2 DEF PollInv, IInv, ClientsDistinct
<1>7. \A k \in 1..Len(clients_) : clients_[k] # nullptr => clients_[k] \in Live /\ clients_[k] \in Peers
  BY <1>1, Positions
<1>8. /\ Kept = 1..(result - 1) /\ Kept' = Kept
      /\ Passed = result..(first - 1) /\ Passed' = result..first
      /\ pc \in Disconnecting /\ pc' \in Disconnecting /\ pc' # "removing"
      /\ pc # "removing"
  <2>1. (first + 1) - 1 = first
    BY <1>1
  <2> QED BY <1>2, <2>1 DEF Kept, Passed, Compacting, Disconnecting
<1>9. SocketFields' /\ FdsDistinct' /\ MarkedClientsFlagged'
  <2> HIDE DEF p
  <2>1. SocketFields'
    BY <1>1, <1>3, <1>4, <1>5 DEF PollInv, SocketFields
  <2>2. FdsDistinct'
    BY <1>1, <1>4 DEF PollInv, FdsDistinct
  <2>3. MarkedClientsFlagged'
    BY <1>1, <1>2, <1>4 DEF PollInv, MarkedClientsFlagged
  <2> QED BY <2>1, <2>2, <2>3
<1>10. KeptOpen'
  <2>1. ASSUME NEW k \in 1..(result - 1)
        PROVE  /\ clients_[k] # nullptr
               /\ info'[clients_[k]].socket_ = info'[clients_[k]].fd
    <3>1. k \in 1..Len(clients_) /\ k # first
      BY <1>1
    <3>2. clients_[k] # nullptr /\ info[clients_[k]].socket_ = info[clients_[k]].fd
      BY <1>2, <1>8 DEF PollInv, KeptOpen
    <3> QED BY <1>4, <1>6, <1>7, <3>1, <3>2
  <2> QED BY <1>2, <1>8, <2>1 DEF KeptOpen
<1>11. NullsAhead'
  <2>1. ASSUME NEW k \in 1..Len(clients_), clients_[k] = nullptr
        PROVE  first + 1 <= k
    <3>1. first <= k /\ k # first
      BY <1>1, <1>2, <1>8, <2>1 DEF PollInv, NullsAhead
    <3> QED BY <1>1, <3>1
  <2> QED BY <1>1, <1>2, <1>8, <2>1 DEF NullsAhead
<1>12. TailMarked'
  <2>1. ASSUME NEW k \in 1..Len(clients_), result <= k, clients_[k] # nullptr
        PROVE  ~info'[clients_[k]].is_connected
    <3>1. ~info[clients_[k]].is_connected
      BY <1>1, <1>2, <1>8, <2>1 DEF PollInv, TailMarked
    <3> QED BY <1>4, <1>7, <2>1, <3>1
  <2> QED BY <1>1, <1>2, <2>1 DEF TailMarked
<1>13. Watched'
  <2>1. ASSUME NoNull
        PROVE  pfds_' = {info'[clients_[k]].fd : k \in (1..Len(clients_)) \ (result..first)}
    <3>1. pfds_ = {info[clients_[k]].fd : k \in (1..Len(clients_)) \ (result..(first - 1))}
      BY <1>1, <1>2, <1>8, <2>1 DEF PollInv, Watched
    <3>2. \A k \in 1..Len(clients_) : clients_[k] \in Live /\ clients_[k] \in Peers
      BY <1>1, <1>7, <2>1 DEF NoNull
    <3>3. \A k \in 1..Len(clients_) :
            /\ info'[clients_[k]].fd = info[clients_[k]].fd
            /\ k # first => info[clients_[k]].fd # info[p].fd
      BY <1>3, <1>4, <1>6, <3>2 DEF PollInv, FdsDistinct
    <3>4. \A k \in 1..Len(clients_) :
            k \notin result..first <=> (k \notin result..(first - 1) /\ k # first)
      BY <1>1
    <3> QED BY <1>2, <3>1, <3>3, <3>4
  <2> QED BY <1>1, <1>2, <1>8, <2>1 DEF Watched, NoNull
<1> QED BY <1>9, <1>10, <1>11, <1>12, <1>13 DEF PollInv

\* The erase is reached only when no null pointer is left, and removes exactly
\* the clients whose descriptors have left poll_group_.
LEMMA PollErase ==
    ASSUME PollInv, IInv', EraseClients
    PROVE  PollInv'
<1>1. /\ TypeOK /\ clients_ \in Seq(Peers \cup {nullptr})
      /\ DOMAIN clients_ = 1..Len(clients_) /\ Len(clients_) \in Nat
      /\ first = Len(clients_) + 1 /\ result \in 1..(Len(clients_) + 1)
  <2>1. /\ TypeOK /\ clients_ \in Seq(Peers \cup {nullptr})
        /\ result <= first /\ first <= Len(clients_) + 1 /\ first > Len(clients_)
    BY DEF PollInv, IInv, TypeInv, TypeOK, Cursors, Compacting, EraseClients
  <2> QED BY <2>1, Positions
<1>2. /\ Alive /\ pc = "disconnecting" /\ pc' = "loop"
      /\ clients_' = SubSeq(clients_, 1, result - 1)
      /\ UNCHANGED <<info, pfds_, has_disconnected_clients_>>
  BY DEF EraseClients, Erased, FlagAfterErase
<1>3. /\ DOMAIN clients_' = 1..(result - 1)
      /\ \A k \in 1..(result - 1) : clients_'[k] = clients_[k]
  BY <1>1, <1>2
<1>4. Live' \subseteq Live
  BY <1>1, <1>3 DEF Live
<1>5. SocketFields' /\ FdsDistinct' /\ MarkedClientsFlagged'
  BY <1>2, <1>4 DEF PollInv, SocketFields, FdsDistinct, MarkedClientsFlagged
<1>6. /\ Kept = 1..(result - 1) /\ Kept' = DOMAIN clients_'
      /\ Passed = result..Len(clients_) /\ Passed' = {}
      /\ pc' \notin Disconnecting /\ pc' # "removing"
  <2>1. (Len(clients_) + 1) - 1 = Len(clients_)
    BY <1>1
  <2> QED BY <1>1, <1>2, <2>1 DEF Kept, Passed, Compacting, Disconnecting, Handlings
<1>7. \A k \in 1..(result - 1) :
        clients_[k] # nullptr /\ info[clients_[k]].socket_ = info[clients_[k]].fd
  BY <1>2, <1>6 DEF PollInv, KeptOpen
<1>8. KeptOpen' /\ NullsAhead' /\ TailMarked'
  BY <1>2, <1>3, <1>6, <1>7 DEF KeptOpen, NullsAhead, TailMarked
<1>9. Watched'
  <2>1. NoNull
    BY <1>1, <1>2 DEF PollInv, NullsAhead, NoNull, Disconnecting
  <2>2. (1..Len(clients_)) \ (result..Len(clients_)) = 1..(result - 1)
    BY <1>1
  <2>3. pfds_ = {info[clients_[k]].fd : k \in 1..(result - 1)}
    BY <1>1, <1>2, <1>6, <2>1, <2>2 DEF PollInv, Watched
  <2> QED BY <1>2, <1>3, <1>6, <2>3 DEF Watched
<1> QED BY <1>5, <1>8, <1>9 DEF PollInv

\* The invariant is inductive.
LEMMA PollStep == PollInv /\ [Next]_vars => PollInv'
<1> SUFFICES ASSUME PollInv, [Next]_vars PROVE PollInv'
  OBVIOUS
<1>1. IInv'
  BY OwnershipStep DEF PollInv
<1>2. CASE NetworkThread
  BY <1>1, <1>2, PollThread, PollAccept, PollEvent, PollEventsDone, PollRemoveIf,
     PollRemoveIfDone, PollDisconnectClient, PollErase DEF NetworkThread
<1>3. CASE Handlers
  BY <1>1, <1>3, PollHandlers
<1>4. CASE Owner
  BY <1>1, <1>4, PollOwner
<1>5. CASE Environment
  BY <1>1, <1>5, PollEnvironment
<1>6. CASE UNCHANGED vars
  <2>1. UNCHANGED <<clients_, pfds_, pc, user, first, result, info,
                    has_disconnected_clients_>>
    BY <1>6 DEF vars, clientVars, cursorVars
  <2> QED BY <1>1, <2>1, FrameStep DEF Alive
<1> QED BY <1>2, <1>3, <1>4, <1>5, <1>6 DEF Next, Halted

-----------------------------------------------------------------------------
(* What follows from the invariant *)

\* Between two removals poll_group_ watches exactly the descriptors of the clients,
\* no two of which have the same one, however many clients have come and gone.
THEOREM PollGroupFollowsClients == Spec => []PollGroupTracksClients
<1>1. ASSUME PollInv PROVE PollGroupTracksClients
  <2> SUFFICES ASSUME Stable
               PROVE  /\ pfds_ = {info[p].fd : p \in Live}
                      /\ \A p, q \in Live : p # q => info[p].fd # info[q].fd
    BY DEF PollGroupTracksClients
  <2>1. Alive /\ pc \notin Disconnecting /\ pc # "removing"
    BY DEF Stable, Alive, Dead, Disconnecting
  <2>2. NoNull
    BY <1>1, <2>1 DEF PollInv, NullsAhead, NoNull
  <2>3. pfds_ = {info[clients_[k]].fd : k \in DOMAIN clients_}
    BY <1>1, <2>1, <2>2 DEF PollInv, Watched, Passed
  <2>4. \A p : p \in Live <=> \E k \in DOMAIN clients_ : clients_[k] = p
    BY <2>2, LiveElements DEF NoNull
  <2> QED BY <1>1, <2>3, <2>4 DEF PollInv, FdsDistinct
<1> QED BY <1>1, PollInit, PollStep, PTL DEF Spec

\* Just before ::poll every watched descriptor is the open socket of a client.
LEMMA PolledOpen == PollInv => PolledDescriptorsAreOpen
<1> SUFFICES ASSUME PollInv, pc = "poll", user # "gone", NEW f \in pfds_
             PROVE  fdTable[f] \in Live
  BY DEF PolledDescriptorsAreOpen
<1>1. Alive /\ Passed = {} /\ Kept = DOMAIN clients_
  BY DEF Alive, Dead, Passed, Kept, Compacting, Handlings, Disconnecting
<1>2. \A k \in DOMAIN clients_ :
        clients_[k] # nullptr /\ info[clients_[k]].socket_ = info[clients_[k]].fd
  BY <1>1 DEF PollInv, KeptOpen
<1>3. PICK k \in DOMAIN clients_ : f = info[clients_[k]].fd
  BY <1>1, <1>2 DEF PollInv, Watched, NoNull
<1>4. clients_[k] \in Live /\ clients_[k] \in Peers
  BY <1>2, <1>3, Positions DEF PollInv, IInv, TypeInv
<1>5. f \in Fds /\ info[clients_[k]].socket_ = f
  BY <1>2, <1>3, <1>4 DEF PollInv, SocketFields
<1>6. fdTable[f] = clients_[k]
  BY <1>4, <1>5 DEF PollInv, IInv, DescriptorsOwned
<1> QED BY <1>4, <1>6

\* ::poll is given open descriptors only, each the socket of a client: one that
\* connection::receive closed has left poll_group_ by then.
THEOREM PollsOpenDescriptors == Spec => []PolledDescriptorsAreOpen
BY PolledOpen, PollInit, PollStep, PTL DEF Spec

\* No client is ever marked with the flag down, so the next call of
\* handle_disconnected_clients_ looks for it.
THEOREM MarksAreFlagged == Spec => []MarkedClientsFlagged
<1>1. PollInv => MarkedClientsFlagged
  BY DEF PollInv
<1> QED BY <1>1, PollInit, PollStep, PTL DEF Spec

=============================================================================

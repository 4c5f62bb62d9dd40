---------------------------- MODULE ServerProofs ----------------------------
(***************************************************************************)
(* Proofs about Server, for every set of connections and descriptors and   *)
(* every value of the bounds.                                              *)
(***************************************************************************)
EXTENDS Server, SequenceTheorems, TLAPS

-----------------------------------------------------------------------------
(* Type correctness.  TypeOK is not inductive: clients_ stays a sequence when *)
(* handle_disconnected_clients_ erases its tail only because remove_if leaves *)
(* its result within the vector.                                              *)

Compacting == {"removing", "disconnecting", "on_disconnect"}

\* The cursors of handle_disconnected_clients_ stay in order and in the vector.
Cursors ==
    pc \in Compacting => (result <= first /\ first <= Len(clients_) + 1)

TypeInv == TypeOK /\ Cursors

\* What the descriptor-table and client_info helpers return is of their type.
LEMMA HelperTypes ==
    ASSUME TypeOK
    PROVE  /\ \A S : Closed(S) \in [Fds -> Peers \cup {Nobody, Foreign}]
           /\ \A p : Disconnected(p) \in [Peers -> ClientInfo]
           /\ \A S : Marked(S) \in [Peers -> ClientInfo]
           /\ \A S : Flagged(S) \in BOOLEAN
<1>1. fdTable \in [Fds -> Peers \cup {Nobody, Foreign}]
  BY DEF TypeOK, SocketsTypeOK
<1>2. /\ info \in [Peers -> ClientInfo]
      /\ has_disconnected_clients_ \in BOOLEAN
  BY DEF TypeOK
<1>3. \A S : Closed(S) \in [Fds -> Peers \cup {Nobody, Foreign}]
  BY <1>1 DEF Closed
<1>4. \A p : Disconnected(p) \in [Peers -> ClientInfo]
  BY <1>2 DEF Disconnected, ClientInfo
<1>5. \A S : Marked(S) \in [Peers -> ClientInfo]
  BY <1>2 DEF Marked, ClientInfo
<1>6. \A S : Flagged(S) \in BOOLEAN
  BY <1>2 DEF Flagged
<1> QED BY <1>3, <1>4, <1>5, <1>6

\* Assigning to two elements of a sequence leaves the others as they were.
LEMMA ExceptTwice ==
    ASSUME NEW S, NEW s \in Seq(S), NEW a \in S, NEW b \in S,
           NEW i \in 1..Len(s), NEW j \in 1..Len(s)
    PROVE  LET t == [s EXCEPT ![i] = a, ![j] = b] IN
           /\ t \in Seq(S) /\ Len(t) = Len(s)
           /\ \A k \in 1..Len(s) :
                t[k] = IF k = j THEN b ELSE IF k = i THEN a ELSE s[k]
<1> DEFINE u == [s EXCEPT ![i] = a]
           t == [u EXCEPT ![j] = b]
<1>1. /\ u \in Seq(S) /\ Len(u) = Len(s)
      /\ \A k \in 1..Len(s) : u[k] = IF k = i THEN a ELSE s[k]
  BY ExceptSeq
<1>2. /\ t \in Seq(S) /\ Len(t) = Len(u)
      /\ \A k \in 1..Len(u) : t[k] = IF k = j THEN b ELSE u[k]
  <2> HIDE DEF u
  <2> QED BY <1>1, ExceptSeq
<1>3. t = [s EXCEPT ![i] = a, ![j] = b]
  OBVIOUS
<1> HIDE DEF t
<1> QED BY <1>1, <1>2, <1>3

\* One ::recv takes no more than the peer has sent.
LEMMA RecvTypes ==
    ASSUME TypeOK, NEW q \in Peers, Unread(q) > 0
    PROVE  /\ RecvSize(q) \in Nat
           /\ [consumed EXCEPT ![q] = @ + RecvSize(q)] \in [Peers -> 0..MaxBytes]
<1>1. /\ sent[q] \in 0..MaxBytes /\ consumed[q] \in 0..MaxBytes
      /\ consumed \in [Peers -> 0..MaxBytes]
  BY DEF TypeOK, SocketsTypeOK
<1>2. RecvSize(q) \in Nat /\ consumed[q] + RecvSize(q) \in 0..MaxBytes
  BY <1>1, SocketsAssumption DEF Unread, RecvSize
<1> QED BY <1>1, <1>2

\* A handled poll_result entry is skipped, or belongs to a client that exists.
LEMMA HandleEventCases ==
    ASSUME TypeOK, NEW e, HandleEvent(e)
    PROVE  \/ SkipEvent(e)
           \/ \E k \in DOMAIN clients_ :
                /\ clients_[k] # nullptr
                /\ \/ HandleHangUp(clients_[k], e) \/ ReceiveData(clients_[k], e)
                   \/ ReceiveEof(clients_[k], e) \/ ReceiveError(clients_[k], e)
<1>1. CASE SkipEvent(e)
  BY <1>1
<1>2. CASE ~SkipEvent(e)
  <2>1. PICK k \in {j \in DOMAIN clients_ : FindsFd(j, e.fd)} :
            \/ HandleHangUp(clients_[k], e) \/ ReceiveData(clients_[k], e)
            \/ ReceiveEof(clients_[k], e) \/ ReceiveError(clients_[k], e)
    BY <1>2, Zenon DEF HandleEvent
  <2>2. k \in DOMAIN clients_ /\ k \in 1..k
    BY DEF TypeOK
  <2>3. clients_[k] # nullptr
    BY <2>2 DEF FindsFd
  <2> QED BY <2>1, <2>2, <2>3, Zenon
<1> QED BY <1>1, <1>2

\* The initial state is well typed.
LEMMA TypeInit == Init => TypeInv
<1> SUFFICES ASSUME Init PROVE TypeInv
  OBVIOUS
<1>1. SocketsTypeOK
  BY SocketsAssumption DEF Init, SocketsInit, SocketsTypeOK, PeerStates
<1>2. info \in [Peers -> ClientInfo]
  BY DEF Init, ClientInfo
<1>a. /\ pc \in Labels /\ user \in {"using", "joining", "gone"}
      /\ listening \in BOOLEAN /\ backlog \subseteq Peers
      /\ running_ \in BOOLEAN /\ has_disconnected_clients_ \in BOOLEAN
      /\ ec_ \in BOOLEAN /\ kicked \subseteq Peers /\ stopRequested \in BOOLEAN
  BY DEF Init, Labels
<1>b. /\ clients_ \in Seq(Peers \cup {nullptr})
      /\ next_available_id \in Nat \ {0}
      /\ first \in Nat \ {0} /\ result \in Nat \ {0}
      /\ connects \in [Peers -> Nat] /\ disconnects \in [Peers -> Nat]
      /\ delivered \in [Peers -> Nat]
  BY DEF Init
<1>c. pfds_ \subseteq Fds /\ events \subseteq [fd : Fds, status : Statuses]
  BY DEF Init
<1>3. TypeOK
  BY <1>1, <1>2, <1>a, <1>b, <1>c DEF TypeOK
<1>4. Cursors
  BY DEF Init, Cursors, Compacting
<1> QED BY <1>3, <1>4 DEF TypeInv

\* A step of the owner, or of the environment, keeps every variable in its type.
LEMMA TypeOutside ==
    ASSUME TypeInv, Owner \/ Environment
    PROVE  TypeInv'
<1> USE DEF TypeInv, TypeOK, Cursors
<1>1. CASE Run
  BY <1>1 DEF Run, kernelVars, clientVars, cursorVars, historyVars, SocketsTypeOK,
     Labels, Dead, Compacting
<1>2. CASE Stop
  BY <1>2 DEF Stop, kernelVars, clientVars, cursorVars, handlerVars, SocketsTypeOK
<1>3. CASE Destroy
  BY <1>3 DEF Destroy, kernelVars, clientVars, cursorVars, historyVars, SocketsTypeOK
<1>4. CASE Join
  <2>1. /\ fdTable' \in [Fds -> Peers \cup {Nobody, Foreign}]
        /\ clients_' \in Seq(Peers \cup {nullptr})
    BY <1>4, HelperTypes DEF Join
  <2>2. info' \in [Peers -> ClientInfo]
    BY <1>4 DEF Join, ClientInfo
  <2> QED BY <1>4, <2>1, <2>2 DEF Join, cursorVars, historyVars, SocketsTypeOK,
     Compacting
<1>5. ASSUME NEW p \in Peers, PeerConnects(p)
      PROVE  TypeInv'
  BY <1>5 DEF PeerConnects, clientVars, cursorVars, historyVars, SocketsTypeOK,
     PeerStates
<1>6. ASSUME NEW p \in Peers, PeerActs(p)
      PROVE  TypeInv'
  <2>1. sent' \in [Peers -> 0..MaxBytes]
    <3>1. CASE PeerSends(p)
      <4>1. sent[p] + 1 \in 0..MaxBytes
        BY <3>1, SocketsAssumption DEF PeerSends, SocketsTypeOK
      <4> QED BY <3>1, <4>1 DEF PeerSends, SocketsTypeOK
    <3> QED BY <1>6, <3>1 DEF PeerActs, PeerCloses, PeerResets, SocketsTypeOK
  <2>2. peerState' \in [Peers -> PeerStates]
    BY <1>6 DEF PeerActs, PeerSends, PeerCloses, PeerResets, SocketsTypeOK, PeerStates
  <2>3. UNCHANGED <<fdTable, foreign, consumed>>
    BY <1>6 DEF PeerActs, PeerSends, PeerCloses, PeerResets
  <2> QED BY <1>6, <2>1, <2>2, <2>3 DEF PeerActs, clientVars, cursorVars,
     historyVars, SocketsTypeOK
<1>7. ASSUME NEW f \in Fds, ForeignActs(f)
      PROVE  TypeInv'
  <2>1. fdTable' \in [Fds -> Peers \cup {Nobody, Foreign}] /\ foreign' \subseteq Fds
    BY <1>7, HelperTypes DEF ForeignActs, ForeignOpens, ForeignCloses, SocketsTypeOK
  <2> QED BY <1>7, <2>1 DEF ForeignActs, ForeignOpens, ForeignCloses, clientVars,
     cursorVars, historyVars, SocketsTypeOK
<1> QED BY <1>1, <1>2, <1>3, <1>4, <1>5, <1>6, <1>7 DEF Owner, Environment

\* So does an API call made by a handler.
LEMMA TypeHandlers ==
    ASSUME TypeInv, Handlers
    PROVE  TypeInv'
<1> USE DEF TypeInv, TypeOK, Cursors
<1>1. ASSUME NEW i, remove_client(i)
      PROVE  TypeInv'
  <2>1. kicked' \subseteq Peers
    BY <1>1 DEF remove_client, FindsId
  <2>2. /\ info' \in [Peers -> ClientInfo]
        /\ has_disconnected_clients_' \in BOOLEAN
    BY <1>1, HelperTypes DEF remove_client
  <2> QED BY <1>1, <2>1, <2>2 DEF remove_client, kernelVars, cursorVars,
     handlerVars, SocketsTypeOK
<1>2. ASSUME NEW T, NEW F, SendTo(T, F)
      PROVE  /\ info' \in [Peers -> ClientInfo]
             /\ ec_' \in BOOLEAN /\ has_disconnected_clients_' \in BOOLEAN
  BY <1>2, HelperTypes DEF SendTo
<1>3. ASSUME NEW i, NEW empty \in BOOLEAN, message_client(i, empty)
      PROVE  TypeInv'
  <2>1. kicked' \subseteq Peers
    BY <1>3 DEF message_client, FindsId
  <2> QED BY <1>2, <1>3, <2>1 DEF message_client, kernelVars, cursorVars,
     handlerVars, SocketsTypeOK
<1>4. ASSUME NEW i, NEW empty \in BOOLEAN, message_all_clients(i, empty)
      PROVE  TypeInv'
  <2>1. kicked' \subseteq Peers
    BY <1>4 DEF message_all_clients
  <2> QED BY <1>2, <1>4, <2>1 DEF message_all_clients, kernelVars, cursorVars,
     handlerVars, SocketsTypeOK
<1>5. CASE HandlerHitsNull
  BY <1>5 DEF HandlerHitsNull, kernelVars, clientVars, cursorVars, historyVars,
     SocketsTypeOK, Labels, Dead, Compacting
<1> QED BY <1>1, <1>3, <1>4, <1>5 DEF Handlers

\* So does a step of the network thread outside handle_disconnected_clients_.
LEMMA TypeThread ==
    ASSUME TypeInv,
           \/ Start \/ OpenAcceptor \/ LoopTest \/ AcceptDone \/ Poll \/ EventsDone
           \/ HandlerReturns
           \/ \E p \in Peers, f \in Fds : AcceptClient(p, f)
           \/ \E p \in Peers : AcceptDropped(p) \/ AcceptFails(p)
    PROVE  TypeInv'
<1> USE DEF TypeInv, TypeOK, Cursors
<1>1. CASE Start
  BY <1>1 DEF Start, kernelVars, clientVars, cursorVars, historyVars, SocketsTypeOK,
     Labels, Compacting
<1>2. CASE OpenAcceptor
  BY <1>2 DEF OpenAcceptor, kernelVars, clientVars, cursorVars, historyVars,
     SocketsTypeOK, Labels, Dead, Compacting
<1>3. CASE LoopTest
  BY <1>3 DEF LoopTest, kernelVars, clientVars, cursorVars, handlerVars,
     SocketsTypeOK, Labels, Compacting
<1>4. CASE AcceptDone
  BY <1>4 DEF AcceptDone, kernelVars, clientVars, cursorVars, historyVars,
     SocketsTypeOK, Labels, Compacting
<1>5. CASE Poll
  <2>1. events' \subseteq [fd : Fds, status : Statuses]
    BY <1>5 DEF Poll, PollResult, Statuses, SocketStatus, ssm_from_revents
  <2> QED BY <1>5, <2>1 DEF Poll, kernelVars, clientVars, cursorVars, historyVars,
     SocketsTypeOK, Labels, Compacting
<1>6. CASE EventsDone
  BY <1>6 DEF EventsDone, kernelVars, clientVars, historyVars, SocketsTypeOK, Labels
<1>7. CASE HandlerReturns
  BY <1>7 DEF HandlerReturns, kernelVars, clientVars, cursorVars, historyVars,
     SocketsTypeOK, Labels, Callbacks, Compacting
<1>8. ASSUME NEW p \in Peers, NEW f \in Fds, AcceptClient(p, f)
      PROVE  TypeInv'
  <2>1. info' \in [Peers -> ClientInfo] /\ next_available_id' \in Nat \ {0}
    BY <1>8 DEF AcceptClient, ClientInfo, IdAfterAccept
  <2>2. /\ fdTable' \in [Fds -> Peers \cup {Nobody, Foreign}]
        /\ connects' \in [Peers -> Nat]
    BY <1>8 DEF AcceptClient, SocketsTypeOK
  <2>3. clients_' \in Seq(Peers \cup {nullptr})
    BY <1>8 DEF AcceptClient
  <2> QED BY <1>8, <2>1, <2>2, <2>3 DEF AcceptClient, cursorVars, SocketsTypeOK,
     Labels, Callbacks, Compacting
<1>9. ASSUME NEW p \in Peers, AcceptDropped(p) \/ AcceptFails(p)
      PROVE  TypeInv'
  BY <1>9 DEF AcceptDropped, AcceptFails, kernelVars, clientVars, cursorVars,
     historyVars, SocketsTypeOK
<1> QED BY <1>1, <1>2, <1>3, <1>4, <1>5, <1>6, <1>7, <1>8, <1>9

\* So does the handling of one poll_result entry.
LEMMA TypeEvent ==
    ASSUME TypeInv, NEW e \in events, HandleEvent(e)
    PROVE  TypeInv'
<1> USE DEF TypeInv, TypeOK, Cursors
<1>1. ASSUME Handling(e),
             fdTable' \in [Fds -> Peers \cup {Nobody, Foreign}],
             consumed' \in [Peers -> 0..MaxBytes],
             pc' \in {pc, "on_data"}, ec_' \in BOOLEAN,
             has_disconnected_clients_' \in BOOLEAN,
             info' \in [Peers -> ClientInfo], delivered' \in [Peers -> Nat]
      PROVE  TypeInv'
  BY <1>1 DEF Handling, cursorVars, SocketsTypeOK, Labels, Callbacks, Compacting
<1>2. CASE SkipEvent(e)
  BY <1>1, <1>2 DEF SkipEvent, SocketsTypeOK
<1>3. ASSUME NEW p \in Peers, HandleHangUp(p, e)
      PROVE  TypeInv'
  BY <1>1, <1>3, HelperTypes DEF HandleHangUp, SocketsTypeOK
<1>4. ASSUME NEW p \in Peers, ReceiveData(p, e)
      PROVE  TypeInv'
  <2> DEFINE q == fdTable[info[p].socket_]
  <2>1. /\ Handling(e) /\ q \in Peers /\ Unread(q) > 0
        /\ consumed' = [consumed EXCEPT ![q] = @ + RecvSize(q)]
        /\ UNCHANGED <<fdTable, ec_>>
    BY <1>4 DEF ReceiveData
  <2>2. consumed' \in [Peers -> 0..MaxBytes] /\ RecvSize(q) \in Nat
    BY <2>1, RecvTypes
  <2>3. /\ pc' \in {pc, "on_data"} /\ delivered' \in [Peers -> Nat]
        /\ info' \in [Peers -> ClientInfo] /\ has_disconnected_clients_' \in BOOLEAN
    <3>1. CASE ec_
      BY <1>4, <3>1, HelperTypes DEF ReceiveData
    <3>2. CASE ~ec_
      <4>1. delivered' = [delivered EXCEPT ![p] = @ + RecvSize(q)]
        BY <1>4, <3>2 DEF ReceiveData
      <4>2. delivered' \in [Peers -> Nat]
        BY <2>2, <4>1
      <4> QED BY <1>4, <3>2, <4>2 DEF ReceiveData
    <3> QED BY <3>1, <3>2
  <2> QED BY <1>1, <2>1, <2>2, <2>3 DEF SocketsTypeOK
<1>5. ASSUME NEW p \in Peers, ReceiveEof(p, e)
      PROVE  TypeInv'
  <2>1. info' \in [Peers -> ClientInfo]
    <3> DEFINE D == Disconnected(p)
    <3>1. D \in [Peers -> ClientInfo] /\ info' = [D EXCEPT ![p].is_connected = FALSE]
      BY <1>5, HelperTypes DEF ReceiveEof
    <3> HIDE DEF D
    <3> QED BY <3>1 DEF ClientInfo
  <2> QED BY <1>1, <1>5, <2>1, HelperTypes DEF ReceiveEof, SocketsTypeOK
<1>6. ASSUME NEW p \in Peers, ReceiveError(p, e)
      PROVE  TypeInv'
  BY <1>1, <1>6, HelperTypes DEF ReceiveError, SocketsTypeOK
<1>7. CASE \E k \in DOMAIN clients_ :
             /\ clients_[k] # nullptr
             /\ \/ HandleHangUp(clients_[k], e) \/ ReceiveData(clients_[k], e)
                \/ ReceiveEof(clients_[k], e) \/ ReceiveError(clients_[k], e)
  <2>1. PICK k \in DOMAIN clients_ :
            /\ clients_[k] # nullptr
            /\ \/ HandleHangUp(clients_[k], e) \/ ReceiveData(clients_[k], e)
               \/ ReceiveEof(clients_[k], e) \/ ReceiveError(clients_[k], e)
    BY <1>7
  <2>2. clients_[k] \in Peers
    BY <2>1
  <2> QED BY <2>1, <2>2, <1>3, <1>4, <1>5, <1>6
<1>8. TypeOK
  OBVIOUS
<1> QED BY <1>2, <1>7, <1>8, HandleEventCases

\* So does a step of handle_disconnected_clients_.
LEMMA TypeCompaction ==
    ASSUME TypeInv,
           RemoveIf \/ RemoveIfDone \/ DisconnectClient \/ DisconnectNull \/ EraseClients
    PROVE  TypeInv'
<1> USE DEF TypeInv, TypeOK, Cursors
<1>1. CASE RemoveIf
  <2>1. /\ clients_' \in Seq(Peers \cup {nullptr}) /\ Len(clients_') = Len(clients_)
        /\ result' \in {result, result + 1}
    <3>1. ASSUME clients_' # clients_
          PROVE  /\ first \in 1..Len(clients_) /\ result \in 1..Len(clients_)
                 /\ clients_' = [clients_ EXCEPT ![result] = clients_[first],
                                                ![first] = nullptr]
      BY <1>1, <3>1 DEF RemoveIf, Compacting
    <3>2. result' \in {result, result + 1}
      BY <1>1 DEF RemoveIf
    <3>3. ASSUME clients_' # clients_
          PROVE  clients_' \in Seq(Peers \cup {nullptr}) /\ Len(clients_') = Len(clients_)
      <4>1. clients_[first] \in Peers \cup {nullptr}
        BY <3>1, <3>3
      <4> HIDE DEF TypeInv, TypeOK, Cursors
      <4>2. clients_ \in Seq(Peers \cup {nullptr})
        BY DEF TypeInv, TypeOK
      <4> QED BY <3>1, <3>3, <4>1, <4>2, ExceptTwice
    <3> QED BY <3>2, <3>3
  <2>2. /\ info' \in [Peers -> ClientInfo]
        /\ fdTable' \in [Fds -> Peers \cup {Nobody, Foreign}]
    BY <1>1, HelperTypes DEF RemoveIf, SocketsTypeOK
  <2>3. Cursors' /\ result' \in Nat \ {0} /\ first' \in Nat \ {0}
    BY <1>1, <2>1 DEF RemoveIf, Compacting
  <2>4. TypeOK'
    BY <1>1, <2>1, <2>2, <2>3 DEF RemoveIf, historyVars, SocketsTypeOK
  <2> QED BY <2>3, <2>4
<1>2. CASE RemoveIfDone
  BY <1>2 DEF RemoveIfDone, kernelVars, clientVars, historyVars, SocketsTypeOK,
     Labels, Compacting
<1>3. CASE DisconnectClient
  <2>1. pfds_' \subseteq Fds /\ disconnects' \in [Peers -> Nat]
    BY <1>3 DEF DisconnectClient, remove_socket
  <2>2. /\ info' \in [Peers -> ClientInfo]
        /\ fdTable' \in [Fds -> Peers \cup {Nobody, Foreign}]
    BY <1>3, HelperTypes DEF DisconnectClient
  <2>3. Cursors' /\ first' \in Nat \ {0} /\ pc' \in Labels
    BY <1>3 DEF DisconnectClient, Labels, Callbacks, Compacting
  <2>4. TypeOK'
    BY <1>3, <2>1, <2>2, <2>3 DEF DisconnectClient, SocketsTypeOK
  <2> QED BY <2>3, <2>4
<1>4. CASE DisconnectNull
  BY <1>4 DEF DisconnectNull, kernelVars, clientVars, cursorVars, historyVars,
     SocketsTypeOK, Labels, Dead, Compacting
<1>5. CASE EraseClients
  <2>1. result - 1 \in 0..Len(clients_)
    BY <1>5 DEF EraseClients, Compacting
  <2>2. clients_' \in Seq(Peers \cup {nullptr})
    BY <1>5, <2>1 DEF EraseClients, Erased
  <2>3. kicked' \subseteq Peers
    BY <1>5 DEF EraseClients
  <2> QED BY <1>5, <2>2, <2>3 DEF EraseClients, FlagAfterErase, kernelVars, handlerVars,
     SocketsTypeOK, Labels, Compacting
<1> QED BY <1>1, <1>2, <1>3, <1>4, <1>5

\* Every variable of the server keeps its type, and the cursors of the removal of
\* clients stay within clients_, whatever the peers, the owner and the handlers do.
LEMMA TypeStep == TypeInv /\ [Next]_vars => TypeInv'
<1> SUFFICES ASSUME TypeInv, [Next]_vars PROVE TypeInv'
  OBVIOUS
<1>1. CASE NetworkThread
  BY <1>1, TypeThread, TypeEvent, TypeCompaction DEF NetworkThread
<1>2. CASE Handlers
  BY <1>2, TypeHandlers
<1>3. CASE Owner \/ Environment
  BY <1>3, TypeOutside
<1>4. CASE UNCHANGED vars
  BY <1>4 DEF vars, kernelVars, clientVars, cursorVars, historyVars, TypeInv, TypeOK,
     SocketsTypeOK, Cursors
<1> QED BY <1>1, <1>2, <1>3, <1>4 DEF Next, Halted

\* The server's variables keep their types in every behaviour of the code.
THEOREM TypeCorrect == Spec => []TypeOK
<1>1. TypeInv => TypeOK
  BY DEF TypeInv
<1> QED BY <1>1, TypeInit, TypeStep, PTL DEF Spec

-----------------------------------------------------------------------------
(* Ownership of ids and descriptors.  The inductive invariant says how clients_, *)
(* the backlog and the cursors of the removal relate to the descriptor table.    *)

\* clients_ holds no client_info twice.
ClientsDistinct ==
    \A j, k \in DOMAIN clients_ :
        (j # k /\ clients_[j] # nullptr) => clients_[j] # clients_[k]

\* The clients' ids are distinct, and the next one handed out is new.
IdsInv ==
    /\ \A p \in Live : info[p].id < next_available_id
    /\ \A p, q \in Live : p # q => info[p].id # info[q].id

\* A connection in the backlog is not a client yet, and neither is still unopened.
ArrivalsInv ==
    \A p \in Peers :
        /\ p \in backlog => (p \notin Live /\ peerState[p] # "none")
        /\ p \in Live => peerState[p] # "none"

\* The clients that the removal loop has passed have closed their sockets, so
\* erasing them frees no client_info with an open one.
TailClosed ==
    pc \in {"disconnecting", "on_disconnect"} =>
        \A k \in result..(first - 1) :
            clients_[k] # nullptr => info[clients_[k]].socket_ = 0

IInv ==
    /\ TypeInv
    /\ ClientsDistinct /\ IdsInv /\ ArrivalsInv /\ TailClosed
    /\ DescriptorsOwned /\ ForeignIntact

\* Live, without the set comprehension.
LEMMA LiveElements ==
    /\ \A p : p \in Live <=> (p # nullptr /\ \E k \in DOMAIN clients_ : clients_[k] = p)
    /\ clients_ \in Seq(Peers \cup {nullptr}) => Live \subseteq Peers
BY DEF Live

\* Marking clients touches neither their ids nor their sockets.
LEMMA MarkedFields ==
    ASSUME TypeOK, NEW S, NEW p \in Peers
    PROVE  Marked(S)[p].id = info[p].id /\ Marked(S)[p].socket_ = info[p].socket_
<1>1. info[p] \in ClientInfo
  BY DEF TypeOK
<1> QED BY <1>1 DEF Marked, ClientInfo

\* Disconnecting a client clears its socket and leaves every other field alone.
LEMMA DisconnectedFields ==
    ASSUME TypeOK, NEW p \in Peers
    PROVE  /\ Disconnected(p)[p].socket_ = 0
           /\ \A q \in Peers :
                /\ Disconnected(p)[q].id = info[q].id
                /\ q # p => Disconnected(p)[q].socket_ = info[q].socket_
<1>1. info \in [Peers -> [id : Nat, fd : Fds \cup {0}, socket_ : Fds \cup {0},
                          is_connected : BOOLEAN]]
  BY DEF TypeOK, ClientInfo
<1> QED BY <1>1 DEF Disconnected

\* Steps that add no client keep ids distinct and the backlog apart from clients_.
LEMMA NoNewClient ==
    ASSUME IInv, Live' \subseteq Live,
           \A p \in Peers : info'[p].id = info[p].id,
           next_available_id' = next_available_id, backlog' \subseteq backlog,
           \A p \in Peers : peerState[p] # "none" => peerState'[p] # "none"
    PROVE  IdsInv' /\ ArrivalsInv'
<1>1. Live \subseteq Peers
  BY LiveElements DEF IInv, TypeInv, TypeOK
<1>2. IdsInv'
  BY <1>1 DEF IInv, IdsInv
<1>3. ArrivalsInv'
  BY <1>1 DEF IInv, ArrivalsInv
<1> QED BY <1>2, <1>3

\* Closing the socket of one client, which may leave clients_ at the same time,
\* leaves every other connection and every foreign descriptor open.
LEMMA OneSocketClosed ==
    ASSUME IInv, NEW p \in Live,
           fdTable' = Closed({info[p].socket_}), foreign' = foreign,
           Live' \subseteq Live, Live \ {p} \subseteq Live',
           info'[p].socket_ = 0,
           \A q \in Peers \ {p} : info'[q].socket_ = info[q].socket_
    PROVE  DescriptorsOwned' /\ ForeignIntact'
<1> DEFINE s == info[p].socket_
<1>1. p \in Peers /\ Live \subseteq Peers /\ Live' \subseteq Peers
  BY LiveElements DEF IInv, TypeInv, TypeOK
<1>2. /\ \A f \in Fds : fdTable'[f] = IF f = s THEN Nobody ELSE fdTable[f]
      /\ s \in Fds => fdTable[s] = p
  BY <1>1 DEF Closed, IInv, DescriptorsOwned
<1>3. ASSUME NEW f \in Fds, NEW q \in Peers
      PROVE  fdTable'[f] = q <=> (q \in Live' /\ info'[q].socket_ = f)
  <2>1. fdTable[f] = q <=> (q \in Live /\ info[q].socket_ = f)
    BY DEF IInv, DescriptorsOwned
  <2>2. CASE q = p
    BY <1>2, <2>1, <2>2, SocketsAssumption
  <2>3. CASE q # p
    <3>1. (q \in Live' /\ info'[q].socket_ = f) <=> fdTable[f] = q
      BY <2>1, <2>3
    <3> QED BY <1>2, <2>3, <3>1, SocketsAssumption
  <2> QED BY <2>2, <2>3
<1>4. ASSUME NEW f \in foreign
      PROVE  fdTable'[f] = Foreign
  <2>1. f \in Fds /\ fdTable[f] = Foreign
    BY DEF IInv, ForeignIntact, TypeInv, TypeOK, SocketsTypeOK
  <2> QED BY <1>1, <1>2, <2>1, SocketsAssumption
<1> QED BY <1>3, <1>4 DEF DescriptorsOwned, ForeignIntact

\* A loop that has not started has passed nothing.
LEMMA EmptyRange ==
    ASSUME NEW a \in Nat, NEW b, b = a
    PROVE  a..(b - 1) = {}
OBVIOUS

\* A step that changes neither clients_ nor a descriptor nor a client's id or
\* socket keeps the invariant.
LEMMA QuietStep ==
    ASSUME IInv, TypeInv', UNCHANGED <<fdTable, foreign, clients_, next_available_id>>,
           \A p \in Peers : info'[p].id = info[p].id /\ info'[p].socket_ = info[p].socket_,
           backlog' \subseteq backlog,
           \A p \in Peers : peerState[p] # "none" => peerState'[p] # "none",
           pc' \in {"disconnecting", "on_disconnect"} =>
                \/ pc \in {"disconnecting", "on_disconnect"} /\ UNCHANGED <<first, result>>
                \/ first' = result'
    PROVE  IInv'
<1>1. Live' = Live /\ Live \subseteq Peers
  BY LiveElements DEF Live, IInv, TypeInv, TypeOK
<1>2. ClientsDistinct'
  BY DEF IInv, ClientsDistinct
<1>3. IdsInv' /\ ArrivalsInv'
  BY <1>1, NoNewClient
<1>4. DescriptorsOwned'
  BY <1>1 DEF IInv, DescriptorsOwned
<1>5. ForeignIntact'
  BY DEF IInv, ForeignIntact
<1>6. TailClosed'
  <2>1. CASE first' = result'
    <3>1. result' \in Nat
      BY DEF TypeInv, TypeOK
    <3>2. result'..(first' - 1) = {}
      BY <2>1, <3>1, EmptyRange
    <3> QED BY <3>2 DEF TailClosed
  <2>2. CASE pc \in {"disconnecting", "on_disconnect"} /\ UNCHANGED <<first, result>>
    <3>1. \A k \in result..(first - 1) : k \in DOMAIN clients_
      BY <2>2 DEF IInv, TypeInv, TypeOK, Cursors, Compacting
    <3>2. \A k \in result..(first - 1) : clients_[k] # nullptr => clients_[k] \in Peers
      BY <3>1 DEF IInv, TypeInv, TypeOK
    <3> QED BY <2>2, <3>2 DEF IInv, TailClosed
  <2>3. CASE pc' \notin {"disconnecting", "on_disconnect"}
    BY <2>3 DEF TailClosed
  <2> QED BY <2>1, <2>2, <2>3
<1> QED BY <1>2, <1>3, <1>4, <1>5, <1>6 DEF IInv

\* The initial state satisfies the invariant: no client, no open descriptor.
LEMMA OwnershipInit == Init => IInv
<1> SUFFICES ASSUME Init PROVE IInv
  OBVIOUS
<1>1. TypeInv
  BY TypeInit
<1>2. Live = {} /\ DOMAIN clients_ = {}
  BY DEF Init, Live
<1>3. ClientsDistinct /\ IdsInv /\ ArrivalsInv /\ TailClosed
  BY <1>2 DEF Init, ClientsDistinct, IdsInv, ArrivalsInv, TailClosed
<1>4. DescriptorsOwned /\ ForeignIntact
  BY <1>2, SocketsAssumption DEF Init, SocketsInit, DescriptorsOwned, ForeignIntact
<1> QED BY <1>1, <1>3, <1>4 DEF IInv

\* server::run, stop, ~server and join keep the invariant.
LEMMA OwnershipOwner ==
    ASSUME IInv, TypeInv', Owner
    PROVE  IInv'
<1>1. CASE Run
  <2>1. pc' \notin {"disconnecting", "on_disconnect"}
    BY <1>1 DEF Run
  <2> QED BY <1>1, <2>1, QuietStep DEF Run, kernelVars, clientVars
<1>2. CASE Stop \/ Destroy
  BY <1>2, QuietStep DEF Stop, Destroy, kernelVars, clientVars, cursorVars
<1>3. CASE Join
  <2>1. clients_' = <<>> /\ DOMAIN clients_' = {} /\ Live' = {}
    BY <1>3 DEF Join, Live
  <2>2. ClientsDistinct' /\ IdsInv'
    BY <2>1 DEF ClientsDistinct, IdsInv
  <2>3. ArrivalsInv'
    BY <1>3, <2>1 DEF IInv, ArrivalsInv, Join
  <2>4. TailClosed'
    BY <1>3 DEF Join, TailClosed
  <2>5. ASSUME NEW f \in Fds
        PROVE  fdTable'[f] = IF f \in {info[p].socket_ : p \in Live} THEN Nobody
                             ELSE fdTable[f]
    BY <1>3 DEF Join, Closed
  <2>6. DescriptorsOwned'
    <3>1. ASSUME NEW f \in Fds, NEW p \in Peers
          PROVE  fdTable'[f] # p
      BY <2>5, SocketsAssumption DEF IInv, DescriptorsOwned
    <3> QED BY <2>1, <3>1 DEF DescriptorsOwned
  <2>7. ForeignIntact'
    <3>1. ASSUME NEW f \in foreign
          PROVE  fdTable'[f] = Foreign
      <4>1. f \in Fds /\ fdTable[f] = Foreign
        BY DEF IInv, ForeignIntact, TypeInv, TypeOK, SocketsTypeOK
      <4>2. Live \subseteq Peers
        BY LiveElements DEF IInv, TypeInv, TypeOK
      <4>3. ASSUME NEW p \in Live, info[p].socket_ = f
            PROVE  FALSE
        BY <4>1, <4>2, <4>3, SocketsAssumption DEF IInv, DescriptorsOwned
      <4> QED BY <2>5, <4>1, <4>3
    <3> QED BY <1>3, <3>1 DEF Join, ForeignIntact
  <2> QED BY <2>2, <2>3, <2>4, <2>6, <2>7 DEF IInv
<1> QED BY <1>1, <1>2, <1>3 DEF Owner

\* So do the API calls made from handlers: they only mark clients.
LEMMA OwnershipHandlers ==
    ASSUME IInv, TypeInv', Handlers
    PROVE  IInv'
<1>1. TypeOK
  BY DEF IInv, TypeInv
<1>2. ASSUME NEW S, info' = Marked(S),
             UNCHANGED <<kernelVars, pc, backlog, clients_, next_available_id,
                         cursorVars>>
      PROVE  IInv'
  <2>1. \A p \in Peers : info'[p].id = info[p].id /\ info'[p].socket_ = info[p].socket_
    BY <1>1, <1>2, MarkedFields
  <2> QED BY <1>2, <2>1, QuietStep DEF kernelVars, cursorVars
<1>3. ASSUME NEW i, remove_client(i)
      PROVE  IInv'
  BY <1>2, <1>3 DEF remove_client
<1>4. ASSUME NEW i, NEW empty, message_client(i, empty)
      PROVE  IInv'
  BY <1>2, <1>4 DEF message_client, SendTo
<1>5. ASSUME NEW i, NEW empty, message_all_clients(i, empty)
      PROVE  IInv'
  BY <1>2, <1>5 DEF message_all_clients, SendTo
<1>6. CASE HandlerHitsNull
  BY <1>6, QuietStep DEF HandlerHitsNull, kernelVars, clientVars
<1> QED BY <1>3, <1>4, <1>5, <1>6 DEF Handlers

\* So do the remote hosts and the rest of the process.
LEMMA OwnershipEnvironment ==
    ASSUME IInv, TypeInv', Environment
    PROVE  IInv'
<1>1. ASSUME NEW p \in Peers, PeerConnects(p)
      PROVE  IInv'
  <2>1. Live' = Live /\ Live \subseteq Peers
    BY <1>1, LiveElements DEF PeerConnects, clientVars, Live, IInv, TypeInv, TypeOK
  <2>2. ClientsDistinct' /\ IdsInv' /\ TailClosed'
    BY <1>1, <2>1 DEF PeerConnects, clientVars, cursorVars, IInv, ClientsDistinct,
       IdsInv, TailClosed
  <2>3. ArrivalsInv'
    <3>1. \A q \in Peers : peerState'[q] = IF q = p THEN "open" ELSE peerState[q]
      BY <1>1 DEF PeerConnects, IInv, TypeInv, TypeOK, SocketsTypeOK
    <3>2. p \notin Live /\ backlog' = backlog \cup {p}
      BY <1>1 DEF PeerConnects, IInv, ArrivalsInv
    <3> QED BY <2>1, <3>1, <3>2 DEF IInv, ArrivalsInv
  <2>4. DescriptorsOwned' /\ ForeignIntact'
    BY <1>1, <2>1 DEF PeerConnects, clientVars, IInv, DescriptorsOwned, ForeignIntact
  <2> QED BY <2>2, <2>3, <2>4 DEF IInv
<1>2. ASSUME NEW p \in Peers, PeerActs(p)
      PROVE  IInv'
  <2>1. \A q \in Peers : peerState[q] # "none" => peerState'[q] # "none"
    BY <1>2 DEF PeerActs, PeerSends, PeerCloses, PeerResets, IInv, TypeInv, TypeOK,
       SocketsTypeOK
  <2>2. UNCHANGED <<fdTable, foreign>>
    BY <1>2 DEF PeerActs, PeerSends, PeerCloses, PeerResets
  <2> QED BY <1>2, <2>1, <2>2, QuietStep DEF PeerActs, clientVars, cursorVars
<1>3. ASSUME NEW f \in Fds, ForeignActs(f)
      PROVE  IInv'
  <2>1. Live' = Live /\ Live \subseteq Peers
    BY <1>3, LiveElements DEF ForeignActs, clientVars, Live, IInv, TypeInv, TypeOK
  <2>2. ClientsDistinct' /\ IdsInv' /\ TailClosed'
    BY <1>3, <2>1 DEF ForeignActs, clientVars, cursorVars, IInv, ClientsDistinct,
       IdsInv, TailClosed
  <2>3. ArrivalsInv'
    BY <1>3, <2>1 DEF ForeignActs, ForeignOpens, ForeignCloses, IInv, ArrivalsInv
  <2>4. /\ fdTable[f] \in {Nobody, Foreign} /\ fdTable'[f] \in {Nobody, Foreign}
        /\ \A g \in Fds : g # f => fdTable'[g] = fdTable[g]
        /\ f \in foreign' <=> fdTable'[f] = Foreign
        /\ \A g \in Fds : g # f => (g \in foreign' <=> g \in foreign)
        /\ foreign' \subseteq Fds
    <3>1. fdTable \in [Fds -> Peers \cup {Nobody, Foreign}] /\ foreign \subseteq Fds
      BY DEF IInv, TypeInv, TypeOK, SocketsTypeOK
    <3>2. \A g \in foreign : fdTable[g] = Foreign
      BY DEF IInv, ForeignIntact
    <3> QED BY <1>3, <3>1, <3>2, SocketsAssumption DEF ForeignActs, ForeignOpens,
       ForeignCloses, Closed
  <2>5. DescriptorsOwned'
    <3>1. UNCHANGED info
      BY <1>3 DEF ForeignActs, clientVars
    <3> QED BY <2>1, <2>4, <3>1, SocketsAssumption DEF IInv, DescriptorsOwned
  <2>6. ForeignIntact'
    BY <2>4 DEF IInv, ForeignIntact
  <2> QED BY <2>2, <2>3, <2>5, <2>6 DEF IInv
<1> QED BY <1>1, <1>2, <1>3 DEF Environment

\* The network thread's steps that neither add nor close a connection.
LEMMA OwnershipThread ==
    ASSUME IInv, TypeInv',
           \/ Start \/ OpenAcceptor \/ LoopTest \/ AcceptDone \/ Poll \/ EventsDone
           \/ HandlerReturns \/ RemoveIfDone \/ DisconnectNull
           \/ \E p \in Peers : AcceptDropped(p) \/ AcceptFails(p)
    PROVE  IInv'
<1>1. CASE Start \/ OpenAcceptor \/ AcceptDone
  BY <1>1, QuietStep DEF Start, OpenAcceptor, AcceptDone, kernelVars, clientVars,
     cursorVars
<1>2. CASE LoopTest
  BY <1>2, QuietStep DEF LoopTest, kernelVars, clientVars, cursorVars
<1>3. CASE Poll \/ EventsDone
  BY <1>3, QuietStep DEF Poll, EventsDone, kernelVars, clientVars, cursorVars
<1>4. CASE HandlerReturns
  <2>1. pc' = "disconnecting" => pc = "on_disconnect"
    BY <1>4 DEF HandlerReturns, Callbacks
  <2>2. pc' \in {"accept", "events", "disconnecting"}
    BY <1>4 DEF HandlerReturns, Callbacks
  <2> QED BY <1>4, <2>1, <2>2, QuietStep DEF HandlerReturns, kernelVars, clientVars,
     cursorVars
<1>5. CASE RemoveIfDone \/ DisconnectNull
  BY <1>5, QuietStep DEF RemoveIfDone, DisconnectNull, kernelVars, clientVars
<1>6. ASSUME NEW p \in Peers, AcceptDropped(p) \/ AcceptFails(p)
      PROVE  IInv'
  BY <1>6, QuietStep DEF AcceptDropped, AcceptFails, kernelVars, clientVars,
     cursorVars
<1> QED BY <1>1, <1>2, <1>3, <1>4, <1>5, <1>6

\* handle_incoming_connections_ adds a client under a new id and a free descriptor.
LEMMA OwnershipAccept ==
    ASSUME IInv, TypeInv', NEW p \in Peers, NEW f \in Fds, AcceptClient(p, f)
    PROVE  IInv'
<1>1. /\ clients_ \in Seq(Peers \cup {nullptr}) /\ Live \subseteq Peers
      /\ info \in [Peers -> ClientInfo] /\ next_available_id \in Nat
      /\ fdTable \in [Fds -> Peers \cup {Nobody, Foreign}] /\ foreign \subseteq Fds
  BY LiveElements DEF IInv, TypeInv, TypeOK, SocketsTypeOK
<1>2. /\ Len(clients_') = Len(clients_) + 1 /\ DOMAIN clients_' = 1..Len(clients_')
      /\ DOMAIN clients_ = 1..Len(clients_) /\ Len(clients_) \in Nat
      /\ \A k \in 1..Len(clients_) : clients_'[k] = clients_[k]
      /\ clients_'[Len(clients_) + 1] = p
  BY <1>1 DEF AcceptClient
<1>3. p \notin Live /\ p # nullptr
  BY ServerAssumption DEF IInv, ArrivalsInv, AcceptClient
<1>4. Live' = Live \cup {p}
  BY <1>2, <1>3 DEF Live
<1>5. /\ info'[p].id = next_available_id /\ info'[p].socket_ = f
      /\ \A q \in Peers : q # p => info'[q] = info[q]
      /\ next_available_id' = next_available_id + 1
      /\ fdTable[f] = Nobody
      /\ \A g \in Fds : fdTable'[g] = IF g = f THEN p ELSE fdTable[g]
  BY <1>1 DEF AcceptClient, IdAfterAccept
<1>6. ClientsDistinct'
  <2>1. \A k \in 1..Len(clients_) : clients_[k] # p
    BY <1>2, <1>3, LiveElements
  <2> QED BY <1>2, <2>1 DEF IInv, ClientsDistinct
<1>7. IdsInv'
  <2>1. \A q \in Live : info[q].id \in Nat /\ info[q].id < next_available_id
    BY <1>1 DEF IInv, IdsInv, ClientInfo
  <2>2. \A q \in Live : q # p /\ info'[q].id = info[q].id
    BY <1>1, <1>3, <1>5
  <2> QED BY <1>1, <1>4, <1>5, <2>1, <2>2 DEF IInv, IdsInv
<1>8. ArrivalsInv'
  BY <1>4 DEF AcceptClient, IInv, ArrivalsInv
<1>9. TailClosed'
  BY DEF AcceptClient, TailClosed
<1>10. DescriptorsOwned'
  <2>1. ASSUME NEW g \in Fds, NEW q \in Peers
        PROVE  fdTable'[g] = q <=> (q \in Live' /\ info'[q].socket_ = g)
    <3>1. fdTable[g] = q <=> (q \in Live /\ info[q].socket_ = g)
      BY DEF IInv, DescriptorsOwned
    <3>2. CASE q = p
      BY <1>3, <1>4, <1>5, <3>1, <3>2
    <3>3. CASE q # p
      BY <1>4, <1>5, <3>1, <3>3, SocketsAssumption
    <3> QED BY <3>2, <3>3
  <2> QED BY <2>1 DEF DescriptorsOwned
<1>11. ForeignIntact'
  BY <1>1, <1>5, SocketsAssumption DEF AcceptClient, IInv, ForeignIntact
<1> QED BY <1>6, <1>7, <1>8, <1>9, <1>10, <1>11 DEF IInv

\* handle_incoming_messages_: only the end of a stream closes a socket, its own.
LEMMA OwnershipEvent ==
    ASSUME IInv, TypeInv', NEW e \in events, HandleEvent(e)
    PROVE  IInv'
<1>1. TypeOK
  BY DEF IInv, TypeInv
<1>2. ASSUME Handling(e), UNCHANGED fdTable, pc' \in {pc, "on_data"},
             \A p \in Peers : info'[p].id = info[p].id /\ info'[p].socket_ = info[p].socket_
      PROVE  IInv'
  BY <1>2, QuietStep DEF Handling, cursorVars
<1>3. CASE SkipEvent(e)
  BY <1>2, <1>3 DEF SkipEvent
<1>4. ASSUME NEW p \in Peers,
             HandleHangUp(p, e) \/ ReceiveData(p, e) \/ ReceiveError(p, e)
      PROVE  IInv'
  <2>1. /\ Handling(e) /\ UNCHANGED fdTable /\ pc' \in {pc, "on_data"}
        /\ info' = info \/ info' = Marked({p})
    BY <1>4 DEF HandleHangUp, ReceiveData, ReceiveError
  <2> QED BY <1>1, <1>2, <2>1, MarkedFields
<1>5. ASSUME NEW p \in Live, ReceiveEof(p, e)
      PROVE  IInv'
  <2>1. p \in Peers /\ Live \subseteq Peers /\ Live' = Live
    BY <1>1, <1>5, LiveElements DEF TypeOK, ReceiveEof, Handling, Live
  <2>2. /\ fdTable' = Closed({info[p].socket_})
        /\ UNCHANGED <<foreign, peerState, backlog, clients_, next_available_id, pc>>
        /\ pc = "events"
    BY <1>5 DEF ReceiveEof, Handling
  <2>3. /\ info'[p].socket_ = 0
        /\ \A q \in Peers : /\ info'[q].id = info[q].id
                            /\ q # p => info'[q].socket_ = info[q].socket_
    <3> DEFINE D == Disconnected(p)
    <3>1. D \in [Peers -> ClientInfo] /\ info' = [D EXCEPT ![p].is_connected = FALSE]
      BY <1>1, <1>5, HelperTypes DEF ReceiveEof
    <3>2. /\ D[p].socket_ = 0
          /\ \A q \in Peers : /\ D[q].id = info[q].id
                              /\ q # p => D[q].socket_ = info[q].socket_
      BY <1>1, <2>1, DisconnectedFields
    <3> HIDE DEF D
    <3> QED BY <2>1, <3>1, <3>2 DEF ClientInfo
  <2>4. DescriptorsOwned' /\ ForeignIntact'
    BY <2>1, <2>2, <2>3, OneSocketClosed
  <2>5. IdsInv' /\ ArrivalsInv'
    BY <2>1, <2>2, <2>3, NoNewClient
  <2>6. ClientsDistinct' /\ TailClosed'
    BY <2>2 DEF IInv, ClientsDistinct, TailClosed
  <2> QED BY <2>4, <2>5, <2>6 DEF IInv
<1>6. CASE \E k \in DOMAIN clients_ :
             /\ clients_[k] # nullptr
             /\ \/ HandleHangUp(clients_[k], e) \/ ReceiveData(clients_[k], e)
                \/ ReceiveEof(clients_[k], e) \/ ReceiveError(clients_[k], e)
  <2>1. PICK k \in DOMAIN clients_ :
            /\ clients_[k] # nullptr
            /\ \/ HandleHangUp(clients_[k], e) \/ ReceiveData(clients_[k], e)
               \/ ReceiveEof(clients_[k], e) \/ ReceiveError(clients_[k], e)
    BY <1>6
  <2>2. clients_[k] \in Live /\ clients_[k] \in Peers
    BY <1>1, <2>1, LiveElements DEF TypeOK
  <2> QED BY <2>1, <2>2, <1>4, <1>5
<1> QED BY <1>1, <1>3, <1>6, HandleEventCases

\* handle_disconnected_clients_ closes exactly the sockets of the clients it drops.
LEMMA OwnershipCompaction ==
    ASSUME IInv, TypeInv', RemoveIf \/ DisconnectClient \/ EraseClients
    PROVE  IInv'
<1>1. /\ TypeOK /\ clients_ \in Seq(Peers \cup {nullptr}) /\ Live \subseteq Peers
      /\ DOMAIN clients_ = 1..Len(clients_) /\ Len(clients_) \in Nat
      /\ first \in Nat \ {0} /\ result \in Nat \ {0}
  BY LiveElements DEF IInv, TypeInv, TypeOK
<1>2. ASSUME RemoveIf, UNCHANGED <<clients_, info, fdTable>>
      PROVE  IInv'
  BY <1>2, QuietStep DEF RemoveIf
<1>3. ASSUME RemoveIf, ~UNCHANGED <<clients_, info, fdTable>>
      PROVE  IInv'
  <2> DEFINE old == clients_[result]
  <2>1. /\ first \in 1..Len(clients_) /\ result \in 1..Len(clients_) /\ result # first
        /\ clients_' = [clients_ EXCEPT ![result] = clients_[first], ![first] = nullptr]
        /\ info' = IF old = nullptr THEN info ELSE Disconnected(old)
        /\ fdTable' = IF old = nullptr THEN fdTable ELSE Closed({info[old].socket_})
        /\ UNCHANGED <<foreign, peerState, backlog, next_available_id, pc>>
        /\ pc = "removing"
    BY <1>1, <1>3 DEF RemoveIf, IInv, TypeInv, Cursors, Compacting
  <2>2. /\ DOMAIN clients_' = 1..Len(clients_)
        /\ \A k \in 1..Len(clients_) :
             clients_'[k] = IF k = first THEN nullptr
                            ELSE IF k = result THEN clients_[first] ELSE clients_[k]
    <3>1. clients_[first] \in Peers \cup {nullptr}
      BY <1>1, <2>1
    <3> QED BY <1>1, <2>1, <3>1, ExceptTwice
  <2>3. ClientsDistinct'
    BY <1>1, <2>1, <2>2 DEF IInv, ClientsDistinct
  <2>4. \A q : q \in Live' <=> (q \in Live /\ q # old)
    <3>1. \A j, k \in 1..Len(clients_) :
            (j # k /\ clients_[j] # nullptr) => clients_[j] # clients_[k]
      BY <1>1 DEF IInv, ClientsDistinct
    <3>2. \A q : q \in Live <=> (q # nullptr /\ \E k \in 1..Len(clients_) : clients_[k] = q)
      BY <1>1, LiveElements
    <3>3. \A q : q \in Live' <=> (q # nullptr /\ \E k \in 1..Len(clients_) : clients_'[k] = q)
      BY <2>2 DEF Live
    <3>4. ASSUME NEW q \in Live'
          PROVE  q \in Live /\ q # old
      <4>1. PICK k \in 1..Len(clients_) : clients_'[k] = q
        BY <3>3
      <4> QED BY <2>1, <2>2, <3>1, <3>2, <3>3, <4>1
    <3>5. ASSUME NEW q \in Live, q # old
          PROVE  q \in Live'
      <4>1. PICK k \in 1..Len(clients_) : clients_[k] = q /\ q # nullptr
        BY <3>2
      <4>2. CASE k = first
        BY <2>1, <2>2, <3>3, <4>1, <4>2
      <4>3. CASE k # first
        BY <2>1, <2>2, <3>3, <3>5, <4>1, <4>3
      <4> QED BY <4>2, <4>3
    <3> QED BY <3>4, <3>5
  <2>5. CASE old = nullptr
    <3>1. Live' = Live
      BY <2>4, <2>5, LiveElements
    <3>2. IdsInv' /\ ArrivalsInv'
      BY <2>1, <2>5, <3>1, NoNewClient
    <3>3. DescriptorsOwned' /\ ForeignIntact'
      BY <2>1, <2>5, <3>1 DEF IInv, DescriptorsOwned, ForeignIntact
    <3>4. TailClosed'
      BY <2>1 DEF TailClosed
    <3> QED BY <2>3, <3>2, <3>3, <3>4 DEF IInv
  <2>6. CASE old # nullptr
    <3>1. old \in Live /\ old \in Peers
      BY <1>1, <2>1, <2>6, LiveElements
    <3>2. /\ info'[old].socket_ = 0
          /\ \A q \in Peers : /\ info'[q].id = info[q].id
                              /\ q # old => info'[q].socket_ = info[q].socket_
      BY <1>1, <2>1, <2>6, <3>1, DisconnectedFields
    <3>3. Live' \subseteq Live /\ Live \ {old} \subseteq Live'
      BY <2>4
    <3>4. fdTable' = Closed({info[old].socket_})
      BY <2>1, <2>6
    <3> HIDE DEF old
    <3>5. DescriptorsOwned' /\ ForeignIntact'
      BY <2>1, <3>1, <3>2, <3>3, <3>4, OneSocketClosed
    <3>6. IdsInv' /\ ArrivalsInv'
      BY <2>1, <3>2, <3>3, NoNewClient
    <3>7. TailClosed'
      BY <2>1 DEF TailClosed
    <3> QED BY <2>3, <3>5, <3>6, <3>7 DEF IInv
  <2> QED BY <2>5, <2>6
<1>4. CASE DisconnectClient
  <2> DEFINE p == clients_[first]
  <2>1. /\ first \in 1..Len(clients_) /\ p # nullptr
        /\ fdTable' = Closed({info[p].socket_}) /\ info' = Disconnected(p)
        /\ first' = first + 1 /\ result' = result /\ pc = "disconnecting"
        /\ UNCHANGED <<foreign, peerState, backlog, clients_, next_available_id>>
    BY <1>1, <1>4 DEF DisconnectClient
  <2>2. p \in Live /\ p \in Peers /\ Live' = Live
    BY <1>1, <2>1, LiveElements DEF Live
  <2>3. /\ info'[p].socket_ = 0
        /\ \A q \in Peers : /\ info'[q].id = info[q].id
                            /\ q # p => info'[q].socket_ = info[q].socket_
    BY <1>1, <2>1, <2>2, DisconnectedFields
  <2>4. ClientsDistinct'
    BY <2>1 DEF IInv, ClientsDistinct
  <2>5. TailClosed'
    <3>1. ASSUME NEW k \in result..first, clients_[k] # nullptr
          PROVE  info'[clients_[k]].socket_ = 0
      <4>1. k \in DOMAIN clients_ /\ clients_[k] \in Peers
        BY <1>1, <2>1, <3>1
      <4>2. CASE clients_[k] = p
        BY <2>3, <4>2
      <4>3. CASE clients_[k] # p
        <5>1. k \in result..(first - 1)
          BY <1>1, <4>3
        <5>2. info[clients_[k]].socket_ = 0
          BY <2>1, <3>1, <5>1 DEF IInv, TailClosed
        <5> QED BY <2>3, <4>1, <4>3, <5>2
      <4> QED BY <4>2, <4>3
    <3>2. first' - 1 = first
      BY <1>1, <2>1
    <3> QED BY <2>1, <3>1, <3>2 DEF TailClosed
  <2> HIDE DEF p
  <2>6. DescriptorsOwned' /\ ForeignIntact'
    BY <2>1, <2>2, <2>3, OneSocketClosed
  <2>7. IdsInv' /\ ArrivalsInv'
    BY <2>1, <2>2, <2>3, NoNewClient
  <2> QED BY <2>4, <2>5, <2>6, <2>7 DEF IInv
<1>5. CASE EraseClients
  <2>1. /\ first > Len(clients_) /\ pc = "disconnecting" /\ pc' = "loop"
        /\ clients_' = SubSeq(clients_, 1, result - 1)
        /\ UNCHANGED <<fdTable, foreign, peerState, backlog, info, next_available_id>>
    BY <1>5 DEF EraseClients, Erased, kernelVars
  <2>2. result - 1 \in 0..Len(clients_) /\ first = Len(clients_) + 1
    BY <1>1, <2>1 DEF IInv, TypeInv, Cursors, Compacting
  <2>3. /\ DOMAIN clients_' = 1..(result - 1)
        /\ \A k \in 1..(result - 1) : clients_'[k] = clients_[k]
    BY <1>1, <2>1, <2>2
  <2>4. ClientsDistinct'
    BY <1>1, <2>2, <2>3 DEF IInv, ClientsDistinct
  <2>5. Live' \subseteq Live
    BY <1>1, <2>2, <2>3 DEF Live
  <2>6. ASSUME NEW q \in Live, q \notin Live'
        PROVE  info[q].socket_ = 0
    <3>1. PICK k \in 1..Len(clients_) : clients_[k] = q /\ q # nullptr
      BY <1>1, LiveElements
    <3>2. k \in result..(first - 1)
      BY <1>1, <2>2, <2>3, <2>6, <3>1 DEF Live
    <3> QED BY <2>1, <3>1, <3>2 DEF IInv, TailClosed
  <2>7. DescriptorsOwned'
    BY <2>1, <2>5, <2>6, SocketsAssumption DEF IInv, DescriptorsOwned
  <2>8. IdsInv' /\ ArrivalsInv'
    BY <2>1, <2>5, NoNewClient
  <2>9. TailClosed' /\ ForeignIntact'
    BY <2>1 DEF TailClosed, IInv, ForeignIntact
  <2> QED BY <2>4, <2>7, <2>8, <2>9 DEF IInv
<1> QED BY <1>2, <1>3, <1>4, <1>5

\* The invariant is inductive.
LEMMA OwnershipStep == IInv /\ [Next]_vars => IInv'
<1> SUFFICES ASSUME IInv, [Next]_vars PROVE IInv'
  OBVIOUS
<1>1. TypeInv'
  BY TypeStep DEF IInv
<1>2. CASE NetworkThread
  BY <1>1, <1>2, OwnershipThread, OwnershipAccept, OwnershipEvent,
     OwnershipCompaction DEF NetworkThread
<1>3. CASE Handlers
  BY <1>1, <1>3, OwnershipHandlers
<1>4. CASE Owner
  BY <1>1, <1>4, OwnershipOwner
<1>5. CASE Environment
  BY <1>1, <1>5, OwnershipEnvironment
<1>6. CASE UNCHANGED vars
  BY <1>1, <1>6, QuietStep DEF vars, kernelVars, clientVars, cursorVars
<1> QED BY <1>2, <1>3, <1>4, <1>5, <1>6 DEF Next, Halted

\* No two clients of the server ever have the same id, although a failed accept
\* takes its id back.
THEOREM IdsAreUnique == Spec => []UniqueIds
<1>1. ASSUME IInv PROVE UniqueIds
  <2>1. ASSUME NEW j \in DOMAIN clients_, NEW k \in DOMAIN clients_, j # k,
               clients_[j] # nullptr, clients_[k] # nullptr
        PROVE  info[clients_[j]].id # info[clients_[k]].id
    <3>1. clients_[j] \in Live /\ clients_[k] \in Live /\ clients_[j] # clients_[k]
      BY <1>1, <2>1, LiveElements DEF IInv, ClientsDistinct
    <3> QED BY <1>1, <3>1 DEF IInv, IdsInv
  <2> QED BY <2>1 DEF UniqueIds
<1> QED BY <1>1, OwnershipInit, OwnershipStep, PTL DEF Spec

\* A descriptor refers to a connection exactly when a client in clients_ holds it
\* as its socket: the server leaks no connection and uses none after closing it.
THEOREM DescriptorsAreOwned == Spec => []DescriptorsOwned
<1>1. IInv => DescriptorsOwned
  BY DEF IInv
<1> QED BY <1>1, OwnershipInit, OwnershipStep, PTL DEF Spec

\* The server never closes a descriptor that other code of the process owns.
THEOREM ForeignDescriptorsIntact == Spec => []ForeignIntact
<1>1. IInv => ForeignIntact
  BY DEF IInv
<1> QED BY <1>1, OwnershipInit, OwnershipStep, PTL DEF Spec

=============================================================================

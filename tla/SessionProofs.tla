---------------------------- MODULE SessionProofs ----------------------------
(***************************************************************************)
(* Proofs about Server: ::recv never blocks the network thread, no byte is *)
(* lost, the handlers see the sessions that module Sessions specifies, and *)
(* a client is not forgotten before it has been reported.                  *)
(***************************************************************************)
EXTENDS PollingProofs

-----------------------------------------------------------------------------
(* The inductive invariant, on top of the one about poll_group_ *)

\* A poll reports each descriptor once.
EventsOnce ==
    pc \in Handlings => \A d, e \in events : d.fd = e.fd => d = e

\* on_data_receive_ is never given a byte that ::recv has not returned.
DeliveredWithin == \A p \in Peers : delivered[p] <= consumed[p]

\* Nothing is read from a connection, and no handler hears of it, before
\* on_client_connect_; a connection that is still to be accepted is unannounced.
Unannounced ==
    \A p \in Peers :
        /\ connects[p] = 0 => (consumed[p] = 0 /\ delivered[p] = 0 /\ disconnects[p] = 0)
        /\ (p \in backlog \/ peerState[p] = "none") => connects[p] = 0

\* Every client has been announced once.
Announced == \A p \in Live : connects[p] = 1

\* No client has been reported as disconnected but those the removal loop passed.
Unreported ==
    Alive => \A k \in DOMAIN clients_ \ Passed :
                clients_[k] # nullptr => disconnects[clients_[k]] = 0

EventsInv == RecvNeverBlocks /\ EventsOnce

CallsInv ==
    /\ NoByteLost /\ DeliveredWithin
    /\ Unannounced /\ Announced /\ Unreported

SessionInv == PollInv /\ EventsInv /\ CallsInv

-----------------------------------------------------------------------------
(* The events of one poll *)

\* The client that handle_incoming_messages_ finds for an entry is the one whose
\* open socket ::poll reported.
LEMMA HandledClient ==
    ASSUME PollInv, RecvNeverBlocks, NEW e \in events, HandleEvent(e)
    PROVE  \/ SkipEvent(e)
           \/ \E p \in Live :
                /\ p \in Peers /\ e.fd \in Fds
                /\ fdTable[e.fd] = p /\ info[p].socket_ = e.fd
                /\ \/ HandleHangUp(p, e) \/ ReceiveData(p, e)
                   \/ ReceiveEof(p, e) \/ ReceiveError(p, e)
<1>1. CASE SkipEvent(e)
  BY <1>1
<1>2. CASE ~SkipEvent(e)
  <2>1. PICK k \in {j \in DOMAIN clients_ : FindsFd(j, e.fd)} :
            \/ HandleHangUp(clients_[k], e) \/ ReceiveData(clients_[k], e)
            \/ ReceiveEof(clients_[k], e) \/ ReceiveError(clients_[k], e)
    BY <1>2, Zenon DEF HandleEvent
  <2>2. /\ TypeOK /\ k \in DOMAIN clients_ /\ k \in 1..k /\ e.fd \in Fds
        /\ fdTable[e.fd] \in Live
    <3>1. TypeOK
      BY DEF PollInv, IInv, TypeInv
    <3>2. k \in DOMAIN clients_ /\ k \in 1..k
      BY <3>1, Positions
    <3>3. pc = "events"
      BY <2>1 DEF HandleHangUp, ReceiveData, ReceiveEof, ReceiveError, Handling
    <3>4. fdTable[e.fd] \in Live
      BY <3>3 DEF RecvNeverBlocks
    <3>5. e.fd \in Fds
      BY <3>1 DEF TypeOK
    <3> QED BY <3>1, <3>2, <3>4, <3>5
  <2>3. clients_[k] # nullptr /\ info[clients_[k]].fd = e.fd
    BY <2>2 DEF FindsFd
  <2>4. clients_[k] \in Live /\ clients_[k] \in Peers /\ Live \subseteq Peers
    BY <2>2, <2>3, Positions
  <2>5. info[fdTable[e.fd]].socket_ = e.fd
    BY <2>2, <2>4 DEF PollInv, IInv, DescriptorsOwned
  <2>6. info[fdTable[e.fd]].fd = e.fd
    BY <2>2, <2>5, SocketsAssumption DEF PollInv, SocketFields
  <2>7. fdTable[e.fd] = clients_[k]
    BY <2>2, <2>3, <2>4, <2>6 DEF PollInv, FdsDistinct
  <2> QED BY <2>1, <2>2, <2>4, <2>5, <2>7
<1> QED BY <1>1, <1>2

\* A step of anyone but the peers that handles no entry leaves them as they are.
LEMMA EventsFrame ==
    ASSUME EventsInv, pc' \in Handlings => pc \in Handlings,
           events' \subseteq events,
           UNCHANGED <<fdTable, peerState, sent, consumed, clients_>>
    PROVE  EventsInv'
<1>1. Live' = Live
  BY DEF Live
<1>2. EventsOnce'
  BY DEF EventsInv, EventsOnce
<1>3. RecvNeverBlocks'
  BY <1>1 DEF EventsInv, RecvNeverBlocks, Handlings, RecvReady, Unread
<1> QED BY <1>2, <1>3 DEF EventsInv

\* What the peers do leaves ::recv ready where it was, and other code of the
\* process gets no descriptor that a client holds.
LEMMA EventsEnvironment ==
    ASSUME SessionInv, Environment
    PROVE  EventsInv'
<1>1. /\ UNCHANGED <<pc, events, clients_, consumed>> /\ Live' = Live
      /\ TypeOK /\ Live \subseteq Peers
  BY Positions DEF Environment, PeerConnects, PeerActs, PeerSends, PeerCloses, PeerResets,
     ForeignActs, ForeignOpens, ForeignCloses, clientVars, Live, SessionInv, PollInv,
     IInv, TypeInv
<1>2. \A p \in Live : RecvReady(p) => RecvReady(p)'
  <2> SUFFICES ASSUME NEW p \in Live, RecvReady(p)
               PROVE  RecvReady(p)'
    OBVIOUS
  <2>1. /\ p \in Peers /\ peerState[p] # "none" /\ sent \in [Peers -> 0..MaxBytes]
        /\ peerState \in [Peers -> PeerStates] /\ consumed[p] \in Int /\ sent[p] \in Int
        /\ consumed'[p] = consumed[p]
    BY <1>1, SocketsAssumption DEF SessionInv, PollInv, IInv, ArrivalsInv, TypeOK,
       SocketsTypeOK
  <2>2. ASSUME NEW q \in Peers, PeerConnects(q)
        PROVE  UNCHANGED sent /\ peerState'[p] = peerState[p]
    BY <2>1, <2>2 DEF PeerConnects
  <2>3. ASSUME NEW q \in Peers, PeerActs(q)
        PROVE  /\ sent'[p] \in Int /\ sent'[p] >= sent[p]
               /\ peerState[p] # "open" => peerState'[p] # "open"
    BY <2>1, <2>3 DEF PeerActs, PeerSends, PeerCloses, PeerResets
  <2>4. ASSUME NEW f \in Fds, ForeignActs(f)
        PROVE  UNCHANGED <<sent, peerState>>
    BY <2>4 DEF ForeignActs, ForeignOpens, ForeignCloses
  <2>5. /\ sent'[p] \in Int /\ sent'[p] >= sent[p]
        /\ peerState[p] # "open" => peerState'[p] # "open"
    BY <2>1, <2>2, <2>3, <2>4 DEF Environment
  <2> QED BY <2>1, <2>5 DEF RecvReady, Unread
<1>3. \A f \in Fds : fdTable[f] \in Live => fdTable'[f] = fdTable[f]
  <2>1. ASSUME NEW g \in Fds, ForeignActs(g), NEW f \in Fds, fdTable[f] \in Live
        PROVE  fdTable'[f] = fdTable[f]
    <3>1. fdTable[g] \in {Nobody, Foreign}
      BY <2>1 DEF ForeignActs, ForeignOpens, ForeignCloses, SessionInv, PollInv, IInv,
         ForeignIntact
    <3>2. f # g
      BY <1>1, <2>1, <3>1, SocketsAssumption
    <3> QED BY <1>1, <2>1, <3>2 DEF ForeignActs, ForeignOpens, ForeignCloses, Closed,
         TypeOK, SocketsTypeOK
  <2>2. ASSUME NEW q \in Peers, PeerConnects(q) \/ PeerActs(q)
        PROVE  UNCHANGED fdTable
    BY <2>2 DEF PeerConnects, PeerActs, PeerSends, PeerCloses, PeerResets
  <2> QED BY <2>1, <2>2 DEF Environment
<1>4. RecvNeverBlocks'
  <2>1. ASSUME pc \in {"events", "on_data"}, NEW e \in events
        PROVE  \E p \in Live : fdTable'[e.fd] = p /\ RecvReady(p)'
    <3>1. e.fd \in Fds /\ fdTable[e.fd] \in Live /\ RecvReady(fdTable[e.fd])
      BY <1>1, <2>1 DEF SessionInv, EventsInv, RecvNeverBlocks, TypeOK
    <3>2. PICK p \in Live : fdTable[e.fd] = p
      BY <3>1
    <3> QED BY <1>2, <1>3, <3>1, <3>2
  <2> QED BY <1>1, <2>1 DEF RecvNeverBlocks, RecvReady, Unread
<1>5. EventsOnce'
  BY <1>1 DEF SessionInv, EventsInv, EventsOnce
<1> QED BY <1>4, <1>5 DEF EventsInv

\* ::poll reports a client's socket only when ::recv on it returns at once.
LEMMA EventsPoll ==
    ASSUME SessionInv, Poll
    PROVE  EventsInv'
<1>1. /\ events' = PollResult
      /\ UNCHANGED <<fdTable, peerState, sent, consumed, clients_>> /\ Live' = Live
      /\ \A f \in pfds_ : fdTable[f] \in Live
      /\ Live \subseteq Peers
  <2>1. TypeOK /\ PollInv
    BY DEF SessionInv, PollInv, IInv, TypeInv
  <2>2. pc = "poll" /\ user # "gone"
    BY DEF Poll, Alive
  <2> QED BY <2>1, <2>2, PolledOpen, Positions DEF Poll, kernelVars, clientVars, Live,
       PolledDescriptorsAreOpen
<1>2. ASSUME NEW f \in pfds_, Revents(f) # {}
      PROVE  RecvReady(fdTable[f])
  <2>1. fdTable[f] \in Peers /\ fdTable[f] # Nobody /\ fdTable[f] # Foreign
    BY <1>1, SocketsAssumption
  <2>2. RecvReady(fdTable[f]) \/ peerState[fdTable[f]] = "rst"
    BY <1>2, <2>1 DEF Revents
  <2> QED BY <2>2 DEF RecvReady
<1>3. RecvNeverBlocks'
  <2>1. \A e \in PollResult : fdTable[e.fd] \in Live /\ RecvReady(fdTable[e.fd])
    BY <1>1, <1>2 DEF PollResult
  <2> QED BY <1>1, <2>1 DEF RecvNeverBlocks, RecvReady, Unread
<1>4. EventsOnce'
  <2>1. \A d, e \in PollResult : d.fd = e.fd => d = e
    BY DEF PollResult
  <2> QED BY <1>1, <2>1 DEF EventsOnce
<1> QED BY <1>3, <1>4 DEF EventsInv

\* Reading from one client, or closing it, does not touch what the other entries
\* of the same poll are about.
LEMMA EventsHandled ==
    ASSUME SessionInv, NEW e \in events, HandleEvent(e)
    PROVE  EventsInv'
<1>1. /\ TypeOK /\ PollInv /\ RecvNeverBlocks /\ EventsInv
      /\ fdTable \in [Fds -> Peers \cup {Nobody, Foreign}]
      /\ consumed \in [Peers -> 0..MaxBytes]
  BY DEF SessionInv, EventsInv, PollInv, IInv, TypeInv, TypeOK, SocketsTypeOK
<1>2. CASE SkipEvent(e)
  BY <1>1, <1>2, EventsFrame DEF SkipEvent, Handling, Handlings
<1>3. ASSUME NEW p \in Live, p \in Peers, e.fd \in Fds, fdTable[e.fd] = p,
             info[p].socket_ = e.fd,
             \/ HandleHangUp(p, e) \/ ReceiveData(p, e)
             \/ ReceiveEof(p, e) \/ ReceiveError(p, e)
      PROVE  EventsInv'
  <2>1. /\ Handling(e) /\ pc \in Handlings /\ events' \subseteq events /\ e \notin events'
        /\ UNCHANGED <<peerState, sent, clients_>> /\ Live' = Live
    BY <1>3 DEF HandleHangUp, ReceiveData, ReceiveEof, ReceiveError, Handling, Handlings,
       Live
  <2>2. /\ \A f \in Fds : f # e.fd => fdTable'[f] = fdTable[f]
        /\ \A q \in Peers : q # p => consumed'[q] = consumed[q]
    <3>1. CASE HandleHangUp(p, e) \/ ReceiveError(p, e)
      BY <3>1 DEF HandleHangUp, ReceiveError
    <3>2. CASE ReceiveData(p, e)
      BY <1>1, <1>3, <3>2 DEF ReceiveData
    <3>3. CASE ReceiveEof(p, e)
      BY <1>1, <1>3, <3>3 DEF ReceiveEof, Closed
    <3> QED BY <1>3, <3>1, <3>2, <3>3
  <2>3. ASSUME NEW d \in events'
        PROVE  /\ d.fd \in Fds /\ d.fd # e.fd
               /\ fdTable'[d.fd] = fdTable[d.fd] /\ fdTable[d.fd] \in Live
               /\ RecvReady(fdTable[d.fd]) /\ fdTable[d.fd] # p
               /\ fdTable[d.fd] \in Peers
    <3>1. d \in events /\ d # e /\ d.fd \in Fds
      BY <1>1, <2>1 DEF TypeOK
    <3>2. d.fd # e.fd
      BY <1>1, <2>1, <3>1 DEF EventsInv, EventsOnce
    <3>3. fdTable[d.fd] \in Live /\ RecvReady(fdTable[d.fd])
      BY <1>1, <2>1, <3>1 DEF RecvNeverBlocks, Handlings
    <3>4. fdTable[d.fd] \in Peers
      BY <1>1, <3>3, Positions
    <3>5. fdTable[d.fd] # p
      BY <1>1, <1>3, <3>1, <3>2, <3>4 DEF PollInv, IInv, DescriptorsOwned
    <3> QED BY <2>2, <3>1, <3>2, <3>3, <3>4, <3>5
  <2>4. RecvNeverBlocks'
    <3>1. ASSUME NEW d \in events'
          PROVE  \E q \in Live : fdTable'[d.fd] = q /\ RecvReady(q)'
      <4>1. PICK q \in Live : fdTable[d.fd] = q
        BY <2>3
      <4>2. q \in Peers /\ q # p /\ RecvReady(q)
        BY <2>3, <4>1
      <4>3. RecvReady(q)'
        BY <2>1, <2>2, <4>2 DEF RecvReady, Unread
      <4> QED BY <2>3, <4>1, <4>3
    <3> QED BY <2>1, <3>1 DEF RecvNeverBlocks, RecvReady, Unread
  <2>5. EventsOnce'
    BY <1>1, <2>1 DEF EventsInv, EventsOnce
  <2> QED BY <2>4, <2>5 DEF EventsInv
<1> QED BY <1>1, <1>2, <1>3, HandledClient

\* The entries of a poll stay readable until they are handled.
LEMMA EventsStep == SessionInv /\ [Next]_vars => EventsInv'
<1> SUFFICES ASSUME SessionInv, [Next]_vars PROVE EventsInv'
  OBVIOUS
<1>1. EventsInv
  BY DEF SessionInv
<1>2. ASSUME pc' \notin Handlings
      PROVE  EventsInv'
  BY <1>2 DEF EventsInv, EventsOnce, RecvNeverBlocks, Handlings
<1>3. CASE NetworkThread
  <2>1. ASSUME NEW e \in events, HandleEvent(e)
        PROVE  EventsInv'
    BY <2>1, EventsHandled
  <2>2. CASE Poll
    BY <2>2, EventsPoll
  <2>3. CASE HandlerReturns
    <3>1. pc' \in Handlings => pc \in Handlings
      BY <2>3 DEF HandlerReturns, Callbacks, Handlings
    <3> QED BY <1>1, <2>3, <3>1, EventsFrame DEF HandlerReturns, kernelVars, clientVars
  <2>4. CASE Start \/ OpenAcceptor \/ LoopTest \/ AcceptDone \/ EventsDone
    BY <1>2, <2>4 DEF Start, OpenAcceptor, LoopTest, AcceptDone, EventsDone, Handlings
  <2>5. ASSUME NEW p \in Peers, NEW f \in Fds, AcceptClient(p, f)
        PROVE  EventsInv'
    BY <1>2, <2>5 DEF AcceptClient, Handlings
  <2>6. ASSUME NEW p \in Peers, AcceptDropped(p) \/ AcceptFails(p)
        PROVE  EventsInv'
    BY <1>2, <2>6 DEF AcceptDropped, AcceptFails, Handlings
  <2>7. CASE \/ RemoveIf \/ RemoveIfDone \/ DisconnectClient \/ DisconnectNull
             \/ EraseClients
    BY <1>2, <2>7 DEF RemoveIf, RemoveIfDone, DisconnectClient, DisconnectNull,
       EraseClients, Handlings
  <2> QED BY <1>3, <2>1, <2>2, <2>3, <2>4, <2>5, <2>6, <2>7 DEF NetworkThread
<1>4. CASE Handlers
  <2>1. /\ UNCHANGED <<kernelVars, events, clients_>>
        /\ pc' \in {pc, "segv"}
    BY <1>4 DEF Handlers, remove_client, message_client, message_all_clients,
       HandlerHitsNull, clientVars
  <2>2. pc' \in Handlings => pc \in Handlings
    BY <2>1 DEF Handlings
  <2> QED BY <1>1, <2>1, <2>2, EventsFrame DEF kernelVars
<1>5. CASE Owner
  <2>1. CASE Run
    BY <1>2, <2>1 DEF Run, Handlings
  <2>2. CASE Stop \/ Destroy
    BY <1>1, <2>2, EventsFrame DEF Stop, Destroy, kernelVars, clientVars
  <2>3. CASE Join
    BY <1>2, <2>3 DEF Join, Handlings
  <2> QED BY <1>5, <2>1, <2>2, <2>3 DEF Owner
<1>6. CASE Environment
  BY <1>6, EventsEnvironment
<1>7. CASE UNCHANGED vars
  BY <1>1, <1>7, EventsFrame DEF vars, kernelVars, clientVars
<1> QED BY <1>3, <1>4, <1>5, <1>6, <1>7 DEF Next, Halted

-----------------------------------------------------------------------------
(* Handler calls and bytes *)

\* Types of the history variables.
LEMMA CallTypes ==
    ASSUME SessionInv
    PROVE  /\ TypeOK /\ Live \subseteq Peers
           /\ connects \in [Peers -> Nat] /\ disconnects \in [Peers -> Nat]
           /\ delivered \in [Peers -> Nat] /\ consumed \in [Peers -> 0..MaxBytes]
           /\ info \in [Peers -> ClientInfo]
<1>1. TypeOK
  BY DEF SessionInv, PollInv, IInv, TypeInv
<1> QED BY <1>1, Positions DEF TypeOK, SocketsTypeOK

\* A step that calls no handler and reads nothing, adds no client, clears no mark
\* and lets no announced connection arrive again.
LEMMA CallsFrame ==
    ASSUME SessionInv, UNCHANGED <<connects, disconnects, delivered, consumed, clients_>>,
           \A p \in Live : info'[p].is_connected => info[p].is_connected,
           \A p \in Peers : (p \in backlog' \/ peerState'[p] = "none")
                                => (p \in backlog \/ peerState[p] = "none"),
           Alive' => (Alive /\ Passed \subseteq Passed')
    PROVE  CallsInv'
<1>1. Live' = Live
  BY DEF Live
<1>2. NoByteLost'
  BY <1>1 DEF SessionInv, CallsInv, NoByteLost
<1>3. DeliveredWithin' /\ Announced'
  BY <1>1 DEF SessionInv, CallsInv, DeliveredWithin, Announced
<1>4. Unannounced'
  BY DEF SessionInv, CallsInv, Unannounced
<1>5. Unreported'
  BY DEF SessionInv, CallsInv, Unreported
<1> QED BY <1>2, <1>3, <1>4, <1>5 DEF CallsInv

\* Calls made by the owner.
LEMMA CallsOwner ==
    ASSUME SessionInv, Owner
    PROVE  CallsInv'
<1>1. CASE Run
  <2>1. Alive' => (Alive /\ Passed = {})
    BY <1>1 DEF Run, Alive, Dead, Passed, Disconnecting
  <2> QED BY <1>1, <2>1, CallsFrame DEF Run, kernelVars, clientVars, historyVars
<1>2. CASE Stop \/ Destroy
  <2>1. Alive' => (Alive /\ Passed' = Passed)
    BY <1>2 DEF Stop, Destroy, Alive, Passed, cursorVars
  <2> QED BY <1>2, <2>1, CallsFrame DEF Stop, Destroy, kernelVars, clientVars,
       historyVars, handlerVars
<1>3. CASE Join
  <2>1. /\ DOMAIN clients_' = {} /\ Live' = {} /\ ~Alive'
        /\ UNCHANGED <<connects, disconnects, delivered, consumed, backlog, peerState>>
    BY <1>3 DEF Join, Live, Alive, historyVars
  <2> QED BY <2>1 DEF SessionInv, CallsInv, NoByteLost, DeliveredWithin, Unannounced,
       Announced, Unreported
<1> QED BY <1>1, <1>2, <1>3 DEF Owner

\* API calls made by a handler.
LEMMA CallsHandlers ==
    ASSUME SessionInv, Handlers
    PROVE  CallsInv'
<1>1. /\ UNCHANGED <<kernelVars, handlerVars, backlog, clients_, cursorVars>>
      /\ info' = info \/ \E S : info' = Marked(S)
      /\ Alive /\ (pc' = pc \/ pc' \in Dead)
  <2>1. ASSUME NEW i, remove_client(i)
        PROVE  /\ UNCHANGED <<kernelVars, handlerVars, backlog, clients_, cursorVars, pc>>
               /\ \E S : info' = Marked(S)
               /\ Alive
    BY <2>1 DEF remove_client
  <2>2. ASSUME NEW i, NEW empty, message_client(i, empty) \/ message_all_clients(i, empty)
        PROVE  /\ UNCHANGED <<kernelVars, handlerVars, backlog, clients_, cursorVars, pc>>
               /\ \E S : info' = Marked(S)
               /\ Alive
    BY <2>2 DEF message_client, message_all_clients, SendTo
  <2>3. CASE HandlerHitsNull
    BY <2>3 DEF HandlerHitsNull, clientVars, historyVars, handlerVars, Dead
  <2> QED BY <2>1, <2>2, <2>3 DEF Handlers
<1>2. \A p \in Live : info'[p].is_connected => info[p].is_connected
  <2>1. ASSUME NEW S, info' = Marked(S), NEW p \in Live
        PROVE  info'[p].is_connected => info[p].is_connected
    BY <2>1, CallTypes, MarkedRest
  <2> QED BY <1>1, <2>1
<1>3. Alive' => (Alive /\ Passed' = Passed)
  BY <1>1 DEF Alive, Passed, cursorVars
<1> QED BY <1>1, <1>2, <1>3, CallsFrame DEF kernelVars, handlerVars

\* The remote hosts and the rest of the process.
LEMMA CallsEnvironment ==
    ASSUME SessionInv, Environment
    PROVE  CallsInv'
<1>1. /\ UNCHANGED <<connects, disconnects, delivered, consumed, clients_, info, pc,
                     first, result>>
      /\ Alive
  BY DEF Environment, PeerConnects, PeerActs, PeerSends, PeerCloses, PeerResets,
     ForeignActs, ForeignOpens, ForeignCloses, clientVars, cursorVars, historyVars
<1>2. Passed' = Passed
  BY <1>1 DEF Passed
<1>3. peerState \in [Peers -> PeerStates]
  BY CallTypes DEF TypeOK, SocketsTypeOK
<1>4. ASSUME NEW q \in Peers, PeerConnects(q), NEW p \in Peers,
             p \in backlog' \/ peerState'[p] = "none"
      PROVE  p \in backlog \/ peerState[p] = "none"
  BY <1>3, <1>4 DEF PeerConnects
<1>5. ASSUME NEW q \in Peers, PeerActs(q), NEW p \in Peers,
             p \in backlog' \/ peerState'[p] = "none"
      PROVE  p \in backlog \/ peerState[p] = "none"
  BY <1>3, <1>5 DEF PeerActs, PeerSends, PeerCloses, PeerResets
<1>6. ASSUME NEW f \in Fds, ForeignActs(f)
      PROVE  UNCHANGED <<backlog, peerState>>
  BY <1>6 DEF ForeignActs, ForeignOpens, ForeignCloses
<1>7. \A p \in Peers : (p \in backlog' \/ peerState'[p] = "none")
                            => (p \in backlog \/ peerState[p] = "none")
  BY <1>4, <1>5, <1>6 DEF Environment
<1> QED BY <1>1, <1>2, <1>7, CallsFrame

\* The network thread's steps that call no handler and remove no client.
LEMMA CallsThread ==
    ASSUME SessionInv,
           \/ Start \/ OpenAcceptor \/ LoopTest \/ AcceptDone \/ Poll \/ EventsDone
           \/ HandlerReturns \/ RemoveIfDone \/ DisconnectNull
           \/ \E p \in Peers : AcceptDropped(p) \/ AcceptFails(p)
    PROVE  CallsInv'
<1>1. CASE Start \/ OpenAcceptor \/ LoopTest \/ AcceptDone \/ Poll \/ EventsDone
           \/ RemoveIfDone
  <2>1. Passed = {} /\ Alive
    BY <1>1 DEF Start, OpenAcceptor, LoopTest, AcceptDone, Poll, EventsDone,
       RemoveIfDone, Passed, Disconnecting
  <2>2. /\ UNCHANGED <<connects, disconnects, delivered, consumed, clients_, info,
                       peerState>>
        /\ backlog' = backlog \/ backlog' = {}
    BY <1>1 DEF Start, OpenAcceptor, LoopTest, AcceptDone, Poll, EventsDone,
       RemoveIfDone, kernelVars, clientVars, historyVars, handlerVars
  <2> QED BY <2>1, <2>2, CallsFrame
<1>2. CASE HandlerReturns
  <2>1. Passed' = Passed
    BY <1>2 DEF HandlerReturns, Callbacks, Passed, Disconnecting, cursorVars
  <2> QED BY <1>2, <2>1, CallsFrame DEF HandlerReturns, kernelVars, clientVars,
       historyVars
<1>3. CASE DisconnectNull
  <2>1. ~Alive'
    BY <1>3 DEF DisconnectNull, Alive, Dead
  <2> QED BY <1>3, <2>1, CallsFrame DEF DisconnectNull, kernelVars, clientVars,
       historyVars
<1>4. ASSUME NEW p \in Peers, AcceptDropped(p) \/ AcceptFails(p)
      PROVE  CallsInv'
  <2>1. Passed' = Passed /\ Alive /\ backlog' \subseteq backlog
    BY <1>4 DEF AcceptDropped, AcceptFails, Passed, cursorVars
  <2> QED BY <1>4, <2>1, CallsFrame DEF AcceptDropped, AcceptFails, kernelVars,
       clientVars, historyVars
<1> QED BY <1>1, <1>2, <1>3, <1>4

\* on_client_connect_: the connection is new, and nothing was read from it.
LEMMA CallsAccept ==
    ASSUME SessionInv, NEW p \in Peers, NEW f \in Fds, AcceptClient(p, f)
    PROVE  CallsInv'
<1>1. /\ clients_ \in Seq(Peers \cup {nullptr}) /\ Live \subseteq Peers
      /\ connects \in [Peers -> Nat] /\ p \in backlog /\ p \notin Live /\ p # nullptr
      /\ peerState[p] # "none" /\ info \in [Peers -> ClientInfo]
  BY CallTypes, ServerAssumption DEF TypeOK, AcceptClient, SessionInv, PollInv, IInv,
     ArrivalsInv
<1>2. /\ connects[p] = 0 /\ consumed[p] = 0 /\ delivered[p] = 0 /\ disconnects[p] = 0
  BY <1>1 DEF SessionInv, CallsInv, Unannounced
<1>3. /\ connects'[p] = 1 /\ \A q \in Peers : q # p => connects'[q] = connects[q]
      /\ \A q \in Peers : q # p => info'[q] = info[q]
      /\ UNCHANGED <<disconnects, delivered, consumed, peerState>>
      /\ backlog' = backlog \ {p}
  BY <1>1, <1>2 DEF AcceptClient
<1>4. /\ DOMAIN clients_' = 1..(Len(clients_) + 1) /\ Len(clients_) \in Nat
      /\ DOMAIN clients_ = 1..Len(clients_)
      /\ \A k \in 1..Len(clients_) : clients_'[k] = clients_[k]
      /\ clients_'[Len(clients_) + 1] = p
  BY <1>1 DEF AcceptClient
<1>5. Live' = Live \cup {p}
  <2>1. p # nullptr
    BY <1>1
  <2> QED BY <1>4, <2>1 DEF Live
<1>6. NoByteLost' /\ DeliveredWithin'
  BY <1>1, <1>2, <1>3, <1>5 DEF SessionInv, CallsInv, NoByteLost, DeliveredWithin
<1>7. Unannounced' /\ Announced'
  BY <1>1, <1>2, <1>3, <1>5 DEF SessionInv, CallsInv, Unannounced, Announced
<1>8. Unreported'
  <2>1. Alive /\ Passed = {} /\ Passed' = {}
    BY DEF AcceptClient, Passed, Disconnecting
  <2> QED BY <1>1, <1>2, <1>3, <1>4, <2>1 DEF SessionInv, CallsInv, Unreported
<1> QED BY <1>6, <1>7, <1>8 DEF CallsInv

\* on_data_receive_ gets what ::recv took from the same client, or the client is
\* marked and the bytes are dropped.
LEMMA CallsReceive ==
    ASSUME SessionInv, NEW e, NEW p \in Live, p \in Peers, fdTable[e.fd] = p,
           info[p].socket_ = e.fd, ReceiveData(p, e)
    PROVE  CallsInv'
<1>1. /\ Handling(e) /\ Unread(p) > 0 /\ TypeOK
      /\ consumed' = [consumed EXCEPT ![p] = @ + RecvSize(p)]
  BY CallTypes DEF ReceiveData
<1>2. /\ RecvSize(p) \in Nat /\ consumed[p] \in Nat /\ delivered[p] \in Nat
      /\ consumed'[p] = consumed[p] + RecvSize(p)
      /\ \A q \in Peers : q # p => consumed'[q] = consumed[q]
      /\ connects[p] = 1
  <2>1. consumed \in [Peers -> 0..MaxBytes] /\ delivered \in [Peers -> Nat]
    BY CallTypes
  <2>2. RecvSize(p) \in Nat
    BY <1>1, RecvTypes
  <2> QED BY <1>1, <2>1, <2>2, SocketsAssumption DEF SessionInv, CallsInv, Announced
<1>3. /\ Alive /\ pc = "events" /\ pc' \in {"events", "on_data"}
      /\ UNCHANGED <<clients_, connects, disconnects, peerState, backlog>>
      /\ Live' = Live /\ Live \subseteq Peers
  BY <1>1, CallTypes DEF Handling, ReceiveData, Live
<1>4. \/ /\ delivered' = delivered
         /\ info' = Marked({p})
      \/ /\ delivered' = [delivered EXCEPT ![p] = @ + RecvSize(p)]
         /\ info' = info
  BY DEF ReceiveData
<1>5. /\ \A q \in Peers : q # p => delivered'[q] = delivered[q]
      /\ \A q \in Peers : info'[q].is_connected => info[q].is_connected
      /\ delivered'[p] = delivered[p] \/ delivered'[p] = delivered[p] + RecvSize(p)
      /\ info'[p].is_connected => delivered'[p] = delivered[p] + RecvSize(p)
  <2>1. delivered \in [Peers -> Nat]
    BY CallTypes
  <2>2. CASE delivered' = delivered /\ info' = Marked({p})
    BY <1>1, <2>2, MarkedRest
  <2>3. CASE delivered' = [delivered EXCEPT ![p] = @ + RecvSize(p)] /\ info' = info
    BY <2>1, <2>3
  <2> QED BY <1>4, <2>2, <2>3
<1>6. NoByteLost'
  BY <1>2, <1>3, <1>5 DEF SessionInv, CallsInv, NoByteLost
<1>7. DeliveredWithin'
  BY <1>2, <1>5 DEF SessionInv, CallsInv, DeliveredWithin
<1>8. Unannounced' /\ Announced'
  BY <1>2, <1>3, <1>5 DEF SessionInv, CallsInv, Unannounced, Announced
<1>9. Unreported'
  <2>1. Passed = {} /\ Passed' = {}
    BY <1>3 DEF Passed, Disconnecting
  <2> QED BY <1>3, <2>1 DEF SessionInv, CallsInv, Unreported
<1> QED BY <1>6, <1>7, <1>8, <1>9 DEF CallsInv

\* One entry of poll_result is handled.
LEMMA CallsEvent ==
    ASSUME SessionInv, NEW e \in events, HandleEvent(e)
    PROVE  CallsInv'
<1>1. ASSUME Handling(e), pc' = pc, UNCHANGED <<consumed, delivered>>,
             \A p \in Live : info'[p].is_connected => info[p].is_connected
      PROVE  CallsInv'
  <2>1. /\ Alive /\ Passed = {}
        /\ UNCHANGED <<connects, disconnects, clients_, peerState, backlog>>
    BY <1>1 DEF Handling, Passed, Disconnecting
  <2> QED BY <1>1, <2>1, CallsFrame
<1>2. CASE SkipEvent(e)
  BY <1>1, <1>2 DEF SkipEvent
<1>3. ASSUME NEW p \in Live, p \in Peers, HandleHangUp(p, e) \/ ReceiveError(p, e)
      PROVE  CallsInv'
  <2>1. /\ Handling(e) /\ pc' = pc /\ info' = Marked({p})
        /\ UNCHANGED <<consumed, delivered>>
    BY <1>3 DEF HandleHangUp, ReceiveError
  <2>2. \A q \in Live : info'[q].is_connected => info[q].is_connected
    BY <2>1, CallTypes, MarkedRest
  <2> QED BY <1>1, <2>1, <2>2
<1>4. ASSUME NEW p \in Live, p \in Peers, ReceiveEof(p, e)
      PROVE  CallsInv'
  <2> DEFINE D == Disconnected(p)
  <2>1. /\ Handling(e) /\ pc' = pc /\ UNCHANGED <<consumed, delivered>>
        /\ info' = [D EXCEPT ![p].is_connected = FALSE]
    BY <1>4 DEF ReceiveEof
  <2>2. D \in [Peers -> ClientInfo]
    BY CallTypes, HelperTypes
  <2>3. \A q \in Peers : D[q].is_connected = info[q].is_connected
    BY <1>4, CallTypes, DisconnectedRest
  <2> HIDE DEF D
  <2>4. \A q \in Live : info'[q].is_connected => info[q].is_connected
    BY <1>4, <2>1, <2>2, <2>3, CallTypes DEF ClientInfo
  <2> QED BY <1>1, <2>1, <2>4
<1> QED BY <1>2, <1>3, <1>4, CallsReceive, HandledClient DEF SessionInv, EventsInv

\* handle_disconnected_clients_: each client behind the result of remove_if is
\* reported once, and no other.
LEMMA CallsRemoval ==
    ASSUME SessionInv, RemoveIf \/ DisconnectClient \/ EraseClients
    PROVE  CallsInv'
<1>1. /\ TypeOK /\ Live \subseteq Peers /\ clients_ \in Seq(Peers \cup {nullptr})
      /\ DOMAIN clients_ = 1..Len(clients_) /\ Len(clients_) \in Nat
      /\ first \in Nat \ {0} /\ result \in Nat \ {0}
      /\ pc \in Compacting /\ result <= first /\ first <= Len(clients_) + 1
  <2>1. TypeOK /\ clients_ \in Seq(Peers \cup {nullptr})
    BY CallTypes DEF TypeOK
  <2>2. pc \in Compacting
    BY DEF RemoveIf, DisconnectClient, EraseClients, Compacting
  <2>3. result <= first /\ first <= Len(clients_) + 1
    BY <2>2 DEF SessionInv, PollInv, IInv, TypeInv, Cursors
  <2> QED BY <2>1, <2>2, <2>3, Positions
<1>2. ASSUME Live' \subseteq Live, UNCHANGED <<connects, delivered, consumed, backlog,
                                               peerState>>,
             \A p \in Peers : info'[p].is_connected => info[p].is_connected,
             \A p \in Peers : disconnects'[p] # disconnects[p] => p \in Live
      PROVE  NoByteLost' /\ DeliveredWithin' /\ Unannounced' /\ Announced'
  <2>1. NoByteLost' /\ DeliveredWithin' /\ Announced'
    BY <1>1, <1>2 DEF SessionInv, CallsInv, NoByteLost, DeliveredWithin, Announced
  <2>2. Unannounced'
    BY <1>2 DEF SessionInv, CallsInv, Unannounced, Announced
  <2> QED BY <2>1, <2>2
<1>3. CASE RemoveIf
  <2>1. /\ pc = "removing" /\ pc' = pc /\ Alive /\ first \in 1..Len(clients_)
        /\ UNCHANGED <<connects, disconnects, delivered, consumed, backlog, peerState>>
    BY <1>1, <1>3 DEF RemoveIf, historyVars
  <2>2. /\ DOMAIN clients_' = 1..Len(clients_)
        /\ \A k \in 1..Len(clients_) : clients_'[k] # nullptr => clients_'[k] \in Live
    <3>1. CASE UNCHANGED clients_
      BY <1>1, <3>1, Positions
    <3>2. CASE ~UNCHANGED clients_
      <4>1. clients_' = [clients_ EXCEPT ![result] = clients_[first], ![first] = nullptr]
        BY <1>3, <3>2 DEF RemoveIf
      <4>2. clients_[first] \in Peers \cup {nullptr} /\ result \in 1..Len(clients_)
        BY <1>1, <2>1
      <4>3. /\ clients_' \in Seq(Peers \cup {nullptr}) /\ Len(clients_') = Len(clients_)
            /\ \A k \in 1..Len(clients_) :
                 clients_'[k] = IF k = first THEN nullptr
                                ELSE IF k = result THEN clients_[first] ELSE clients_[k]
        BY <1>1, <2>1, <4>1, <4>2, ExceptTwice
      <4>4. \A k \in 1..Len(clients_) : clients_[k] # nullptr => clients_[k] \in Live
        BY <1>1, Positions
      <4> QED BY <2>1, <4>2, <4>3, <4>4
    <3> QED BY <3>1, <3>2
  <2>3. Live' \subseteq Live
    BY <2>2 DEF Live
  <2>4. \A p \in Peers : info'[p].is_connected => info[p].is_connected
    <3>1. CASE info' = info
      BY <3>1
    <3>2. CASE info' # info
      <4>1. PICK q : q = clients_[result]
        OBVIOUS
      <4>2. q # nullptr /\ info' = Disconnected(q) /\ result \in 1..Len(clients_)
        BY <1>1, <1>3, <2>1, <3>2, <4>1 DEF RemoveIf
      <4>3. q \in Peers
        BY <1>1, <4>1, <4>2, Positions
      <4> QED BY <1>1, <4>2, <4>3, DisconnectedRest
    <3> QED BY <3>1, <3>2
  <2>5. Passed = {} /\ Passed' = {}
    BY <2>1 DEF Passed, Disconnecting
  <2>6. \A p \in Live : disconnects[p] = 0
    BY <2>1, <2>5, LiveElements DEF SessionInv, CallsInv, Unreported
  <2>7. Unreported'
    BY <2>1, <2>2, <2>6 DEF Unreported
  <2> QED BY <1>2, <2>1, <2>3, <2>4, <2>7 DEF CallsInv
<1>4. CASE DisconnectClient
  <2>1. PICK p : p = clients_[first]
    OBVIOUS
  <2>2. /\ p # nullptr /\ first \in 1..Len(clients_) /\ Alive /\ pc = "disconnecting"
        /\ pc' = "on_disconnect" /\ info' = Disconnected(p) /\ first' = first + 1
        /\ disconnects' = [disconnects EXCEPT ![p] = @ + 1] /\ Live' = Live
        /\ UNCHANGED <<connects, delivered, consumed, backlog, peerState, clients_, result>>
    BY <1>1, <1>4, <2>1 DEF DisconnectClient, Live
  <2>3. p \in Live /\ p \in Peers
    BY <1>1, <2>1, <2>2, Positions
  <2>4. \A q \in Peers : q # p => disconnects'[q] = disconnects[q]
    BY <2>2, <2>3, CallTypes
  <2>5. \A q \in Peers : info'[q].is_connected => info[q].is_connected
    BY <1>1, <2>2, <2>3, DisconnectedRest
  <2>6. Unreported'
    <3>1. Passed = result..(first - 1) /\ Passed' = result..((first + 1) - 1)
      BY <2>2 DEF Passed, Disconnecting
    <3>2. ASSUME NEW k \in 1..Len(clients_), k \notin result..((first + 1) - 1),
                 clients_[k] # nullptr
          PROVE  disconnects'[clients_[k]] = 0
      <4>1. k # first /\ k \notin result..(first - 1)
        BY <1>1, <3>2
      <4>2. disconnects[clients_[k]] = 0
        BY <1>1, <2>2, <3>1, <3>2, <4>1 DEF SessionInv, CallsInv, Unreported
      <4>3. clients_[k] # p /\ clients_[k] \in Peers
        BY <1>1, <2>1, <2>2, <3>2, <4>1, Positions DEF SessionInv, PollInv, IInv,
           ClientsDistinct
      <4> QED BY <2>4, <4>2, <4>3
    <3> QED BY <1>1, <2>2, <3>1, <3>2 DEF Unreported
  <2> QED BY <1>2, <2>2, <2>3, <2>4, <2>5, <2>6 DEF CallsInv
<1>5. CASE EraseClients
  <2>1. /\ Alive /\ pc = "disconnecting" /\ pc' = "loop" /\ first > Len(clients_)
        /\ clients_' = SubSeq(clients_, 1, result - 1)
        /\ UNCHANGED <<info, connects, disconnects, delivered, consumed, backlog,
                       peerState>>
    BY <1>5 DEF EraseClients, Erased, kernelVars, handlerVars
  <2>2. /\ DOMAIN clients_' = 1..(result - 1)
        /\ \A k \in 1..(result - 1) : clients_'[k] = clients_[k] /\ k \in 1..Len(clients_)
    BY <1>1, <2>1
  <2>3. Live' \subseteq Live
    BY <1>1, <2>2 DEF Live
  <2>4. Unreported'
    <3>1. Passed = result..(first - 1)
      BY <2>1 DEF Passed, Disconnecting
    <3>2. \A k \in 1..(result - 1) : k \in DOMAIN clients_ \ Passed
      BY <1>1, <2>2, <3>1
    <3>3. \A k \in 1..(result - 1) :
            clients_[k] # nullptr => disconnects[clients_[k]] = 0
      BY <2>1, <3>2 DEF SessionInv, CallsInv, Unreported
    <3> QED BY <2>1, <2>2, <3>3 DEF Unreported
  <2> QED BY <1>2, <2>1, <2>3, <2>4 DEF CallsInv
<1> QED BY <1>3, <1>4, <1>5

-----------------------------------------------------------------------------
(* The invariant is inductive, and what follows from it *)

\* The initial state satisfies the invariant.
LEMMA SessionInit == Init => SessionInv
<1> SUFFICES ASSUME Init PROVE SessionInv
  OBVIOUS
<1>1. PollInv
  BY PollInit
<1>2. /\ Live = {} /\ DOMAIN clients_ = {} /\ events = {}
      /\ \A p \in Peers : /\ connects[p] = 0 /\ disconnects[p] = 0
                          /\ delivered[p] = 0 /\ consumed[p] = 0
  BY DEF Init, SocketsInit, Live
<1>3. EventsInv
  BY <1>2 DEF EventsInv, RecvNeverBlocks, EventsOnce
<1>4. CallsInv
  BY <1>2 DEF CallsInv, NoByteLost, DeliveredWithin, Unannounced, Announced, Unreported
<1> QED BY <1>1, <1>3, <1>4 DEF SessionInv

\* Every step keeps the invariant.
LEMMA SessionStep == SessionInv /\ [Next]_vars => SessionInv'
<1> SUFFICES ASSUME SessionInv, [Next]_vars PROVE SessionInv'
  OBVIOUS
<1>1. PollInv'
  BY PollStep DEF SessionInv
<1>2. EventsInv'
  BY EventsStep
<1>3. CallsInv'
  <2>1. CASE NetworkThread
    BY <2>1, CallsThread, CallsAccept, CallsEvent, CallsRemoval DEF NetworkThread
  <2>2. CASE Handlers
    BY <2>2, CallsHandlers
  <2>3. CASE Owner
    BY <2>3, CallsOwner
  <2>4. CASE Environment
    BY <2>4, CallsEnvironment
  <2>5. CASE UNCHANGED vars
    <3>1. UNCHANGED <<connects, disconnects, delivered, consumed, clients_, info,
                      backlog, peerState, pc, user, first, result>>
      BY <2>5 DEF vars, kernelVars, clientVars, cursorVars, historyVars
    <3>2. (Alive' <=> Alive) /\ Passed' = Passed
      BY <3>1 DEF Alive, Passed
    <3> QED BY <3>1, <3>2, CallsFrame
  <2> QED BY <2>1, <2>2, <2>3, <2>4, <2>5 DEF Next, Halted
<1> QED BY <1>1, <1>2, <1>3 DEF SessionInv

\* The single network thread never blocks in ::recv: whatever a poll reported is
\* still the open socket of a client, with something to return, when its turn
\* comes, although clients before it were closed and handlers have run.
THEOREM ReceivesNeverBlock == Spec => []RecvNeverBlocks
<1>1. SessionInv => RecvNeverBlocks
  BY DEF SessionInv, EventsInv
<1> QED BY <1>1, SessionInit, SessionStep, PTL DEF Spec

\* Every byte taken from the socket of a client that is not marked for removal has
\* reached on_data_receive_ in that client's name.
THEOREM NoByteIsLost == Spec => []NoByteLost
<1>1. SessionInv => NoByteLost
  BY DEF SessionInv, CallsInv
<1> QED BY <1>1, SessionInit, SessionStep, PTL DEF Spec

\* Most steps call no handler.
LEMMA NoHandlerCalled ==
    ASSUME [Next]_vars
    PROVE  \/ UNCHANGED <<connects, disconnects, delivered>>
           \/ \E p \in Peers, f \in Fds : AcceptClient(p, f)
           \/ \E e \in events : HandleEvent(e)
           \/ DisconnectClient
<1>1. CASE Owner
  BY <1>1 DEF Owner, Run, Stop, Destroy, Join, historyVars, handlerVars
<1>2. CASE Environment
  BY <1>2 DEF Environment, PeerConnects, PeerActs, ForeignActs, historyVars
<1>3. CASE Handlers
  BY <1>3 DEF Handlers, remove_client, message_client, message_all_clients,
     HandlerHitsNull, historyVars, handlerVars
<1>4. CASE Start \/ OpenAcceptor \/ LoopTest \/ AcceptDone \/ Poll \/ EventsDone
  BY <1>4 DEF Start, OpenAcceptor, LoopTest, AcceptDone, Poll, EventsDone, historyVars,
     handlerVars
<1>5. CASE \E p \in Peers : AcceptDropped(p) \/ AcceptFails(p)
  BY <1>5 DEF AcceptDropped, AcceptFails, historyVars
<1>6. CASE \/ RemoveIf \/ RemoveIfDone \/ DisconnectNull \/ EraseClients
           \/ HandlerReturns
  BY <1>6 DEF RemoveIf, RemoveIfDone, DisconnectNull, EraseClients, HandlerReturns,
     historyVars, handlerVars
<1>7. CASE UNCHANGED vars
  BY <1>7 DEF vars, historyVars
<1> QED BY <1>1, <1>2, <1>3, <1>4, <1>5, <1>6, <1>7 DEF Next, NetworkThread, Halted

\* Each call of a handler is the call of Sessions, for the same client.
LEMMA SessionsStep ==
    SessionInv /\ [Next]_vars => [Abstract!Next]_(Abstract!sessionVars)
<1> SUFFICES ASSUME SessionInv, [Next]_vars
             PROVE  [Abstract!Next]_(Abstract!sessionVars)
  OBVIOUS
<1>1. /\ TypeOK /\ connects \in [Peers -> Nat] /\ disconnects \in [Peers -> Nat]
      /\ delivered \in [Peers -> Nat] /\ consumed \in [Peers -> 0..MaxBytes]
      /\ Live \subseteq Peers
  BY CallTypes
<1>2. CASE UNCHANGED <<connects, disconnects, delivered>>
  BY <1>2 DEF Abstract!sessionVars
<1>3. ASSUME NEW p \in Peers, NEW f \in Fds, AcceptClient(p, f)
      PROVE  Abstract!Next
  <2>1. connects[p] = 0
    BY <1>3 DEF AcceptClient, SessionInv, CallsInv, Unannounced
  <2>2. Abstract!OnClientConnect(p)
    BY <1>1, <1>3, <2>1 DEF AcceptClient, Abstract!OnClientConnect
  <2> QED BY <2>2 DEF Abstract!Next
<1>4. ASSUME DisconnectClient
      PROVE  Abstract!Next
  <2>1. PICK p : p = clients_[first]
    OBVIOUS
  <2>2. /\ p # nullptr /\ first \in DOMAIN clients_ /\ Alive /\ pc = "disconnecting"
        /\ disconnects' = [disconnects EXCEPT ![p] = @ + 1]
        /\ UNCHANGED <<connects, delivered>>
    BY <1>1, <1>4, <2>1, Positions DEF DisconnectClient
  <2>3. p \in Live /\ p \in Peers /\ connects[p] = 1
    BY <1>1, <2>1, <2>2, Positions DEF SessionInv, CallsInv, Announced
  <2>4. first \notin Passed
    BY <1>1, <2>2, Positions DEF Passed
  <2>5. disconnects[p] = 0
    BY <2>1, <2>2, <2>4 DEF SessionInv, CallsInv, Unreported
  <2>6. Abstract!OnClientDisconnect(p)
    BY <1>1, <2>2, <2>3, <2>5 DEF Abstract!OnClientDisconnect, Abstract!InSession
  <2> QED BY <2>3, <2>6 DEF Abstract!Next
<1>5. ASSUME NEW e \in events, HandleEvent(e)
      PROVE  [Abstract!Next]_(Abstract!sessionVars)
  <2>1. ASSUME NEW p \in Live, p \in Peers, fdTable[e.fd] = p, info[p].socket_ = e.fd,
               ReceiveData(p, e)
        PROVE  [Abstract!Next]_(Abstract!sessionVars)
    <3>1. PICK n : n = RecvSize(p)
      OBVIOUS
    <3>2. /\ UNCHANGED <<connects, disconnects>> /\ Unread(p) > 0
          /\ \/ delivered' = delivered
             \/ delivered' = [delivered EXCEPT ![p] = @ + n]
          /\ pc = "events" /\ Alive
      BY <2>1, <3>1 DEF ReceiveData, Handling
    <3>3. n \in 1..MaxBufferSize /\ consumed[p] + n <= MaxBytes
      <4>1. sent[p] \in 0..MaxBytes /\ consumed[p] \in 0..MaxBytes
        BY <1>1, <2>1 DEF TypeOK, SocketsTypeOK
      <4> QED BY <3>1, <3>2, <4>1, SocketsAssumption DEF RecvSize, Unread
    <3>4. delivered[p] + n <= MaxBytes
      <4>1. /\ delivered[p] \in Nat /\ consumed[p] \in 0..MaxBytes
            /\ delivered[p] <= consumed[p]
        BY <1>1, <2>1 DEF SessionInv, CallsInv, DeliveredWithin
      <4> QED BY <3>3, <4>1, SocketsAssumption
    <3>5. connects[p] = 1 /\ disconnects[p] = 0
      <4>1. PICK k \in DOMAIN clients_ : clients_[k] = p /\ p # nullptr
        BY LiveElements
      <4>2. Passed = {}
        BY <3>2 DEF Passed, Disconnecting
      <4> QED BY <3>2, <4>1, <4>2 DEF SessionInv, CallsInv, Announced, Unreported
    <3>6. CASE delivered' = delivered
      BY <3>2, <3>6 DEF Abstract!sessionVars
    <3>7. CASE delivered' = [delivered EXCEPT ![p] = @ + n]
      <4>1. Abstract!OnDataReceive(p, n)
        BY <3>2, <3>4, <3>5, <3>7 DEF Abstract!OnDataReceive, Abstract!InSession
      <4> QED BY <2>1, <3>3, <4>1 DEF Abstract!Next
    <3> QED BY <3>2, <3>6, <3>7
  <2>2. ASSUME NEW p, \/ SkipEvent(e) \/ HandleHangUp(p, e)
                      \/ ReceiveEof(p, e) \/ ReceiveError(p, e)
        PROVE  UNCHANGED <<connects, disconnects, delivered>>
    BY <2>2 DEF SkipEvent, HandleHangUp, ReceiveEof, ReceiveError, Handling
  <2>3. PollInv /\ RecvNeverBlocks
    BY DEF SessionInv, EventsInv
  <2> QED BY <1>2, <1>5, <2>1, <2>2, <2>3, HandledClient
<1> QED BY <1>2, <1>3, <1>4, <1>5, NoHandlerCalled

\* The server implements Sessions: the user hears of a client once, gets its data
\* between that call and the notice of its disconnection, never more than it sent,
\* and is given that notice at most once.
THEOREM ServerImplementsSessions == Spec => SessionsRefined
<1>1. Init => Abstract!Init
  BY DEF Init, Abstract!Init
<1> QED BY <1>1, SessionInit, SessionStep, SessionsStep, PTL
       DEF Spec, SessionsRefined, Abstract!Spec

-----------------------------------------------------------------------------
(* Clients that leave without a notice.  remove_if destroys some, but then it   *)
(* has left a null pointer, and with one of those in clients_ the erase is not  *)
(* reached (NullsAhead).                                                        *)

\* The clients that the removal loop has passed have been reported.
Reported ==
    Alive => \A k \in Passed : clients_[k] # nullptr => disconnects[clients_[k]] = 1

\* As long as remove_if has moved nothing, clients_ has all that were not reported.
Remembered ==
    (Alive /\ NoNull) => \A p \in Peers : connects[p] > disconnects[p] => p \in Live

StayInv == SessionInv /\ Reported /\ Remembered

\* Most steps neither announce, report nor move a client.
LEMMA NobodyMoves ==
    ASSUME TypeOK, [Next]_vars
    PROVE  \/ /\ UNCHANGED <<connects, disconnects, clients_>>
              /\ Alive' => (Alive /\ Passed' \subseteq Passed)
           \/ \E p \in Peers, f \in Fds : AcceptClient(p, f)
           \/ RemoveIf \/ DisconnectClient \/ EraseClients \/ Join
<1>1. CASE Run
  <2>1. Alive' => Passed' = {}
    BY <1>1 DEF Run, Alive, Dead, Passed, Disconnecting
  <2> QED BY <1>1, <2>1 DEF Run, clientVars, historyVars
<1>2. CASE Stop \/ Destroy
  BY <1>2 DEF Stop, Destroy, Passed, clientVars, cursorVars, historyVars, handlerVars
<1>3. CASE Environment
  <2>1. UNCHANGED <<connects, disconnects, clients_, pc, first, result>> /\ Alive
    BY <1>3 DEF Environment, PeerConnects, PeerActs, ForeignActs, clientVars, cursorVars,
       historyVars
  <2> QED BY <2>1 DEF Passed
<1>4. CASE Handlers
  <2>1. /\ UNCHANGED <<connects, disconnects, clients_, first, result>> /\ Alive
        /\ pc' = pc \/ pc' = "segv"
    BY <1>4 DEF Handlers, remove_client, message_client, message_all_clients,
       HandlerHitsNull, clientVars, cursorVars, historyVars, handlerVars
  <2> QED BY <2>1 DEF Passed, Disconnecting
<1>5. CASE Start \/ OpenAcceptor \/ LoopTest \/ AcceptDone \/ Poll \/ EventsDone
           \/ DisconnectNull
  <2>1. /\ UNCHANGED <<connects, disconnects, clients_>> /\ Alive
        /\ pc' \notin Disconnecting
    BY <1>5 DEF Start, OpenAcceptor, LoopTest, AcceptDone, Poll, EventsDone,
       DisconnectNull, clientVars, historyVars, handlerVars, Disconnecting
  <2> QED BY <2>1 DEF Passed
<1>6. CASE \E p \in Peers : AcceptDropped(p) \/ AcceptFails(p)
  BY <1>6 DEF AcceptDropped, AcceptFails, Passed, clientVars, cursorVars, historyVars
<1>7. CASE \E e \in events : HandleEvent(e)
  <2>1. PICK e \in events : HandleEvent(e)
    BY <1>7
  <2>2. /\ UNCHANGED <<connects, disconnects, clients_>> /\ Alive
        /\ pc' \notin Disconnecting
    BY <2>1 DEF HandleEvent, SkipEvent, HandleHangUp, ReceiveData, ReceiveEof,
       ReceiveError, Handling, Disconnecting
  <2> QED BY <2>2 DEF Passed
<1>8. CASE HandlerReturns
  <2>1. Passed' = Passed
    BY <1>8 DEF HandlerReturns, Callbacks, Passed, Disconnecting, cursorVars
  <2> QED BY <1>8, <2>1 DEF HandlerReturns, clientVars, historyVars
<1>9. CASE UNCHANGED vars
  <2>1. UNCHANGED <<connects, disconnects, clients_, pc, user, first, result>>
    BY <1>9 DEF vars, clientVars, cursorVars, historyVars
  <2> QED BY <2>1 DEF Passed, Alive
<1>10. CASE RemoveIfDone
  <2>1. result \in Nat /\ first' = result /\ result' = result
    BY <1>10 DEF TypeOK, RemoveIfDone
  <2>2. result'..(first' - 1) = {}
    BY <2>1, EmptyRange
  <2> QED BY <1>10, <2>2 DEF RemoveIfDone, Passed, clientVars, historyVars
<1> QED BY <1>1, <1>2, <1>3, <1>4, <1>5, <1>6, <1>7, <1>8, <1>9, <1>10
     DEF Next, NetworkThread, Owner, Halted

\* The invariant is inductive.
LEMMA StayStep == StayInv /\ [Next]_vars => StayInv'
<1> SUFFICES ASSUME StayInv, [Next]_vars PROVE StayInv'
  OBVIOUS
<1>1. /\ SessionInv /\ SessionInv' /\ TypeOK /\ Live \subseteq Peers
      /\ DOMAIN clients_ = 1..Len(clients_) /\ Len(clients_) \in Nat
      /\ connects \in [Peers -> Nat] /\ disconnects \in [Peers -> Nat]
  BY SessionStep, CallTypes, Positions DEF StayInv
<1>2. CASE /\ UNCHANGED <<connects, disconnects, clients_>>
           /\ Alive' => (Alive /\ Passed' \subseteq Passed)
  <2>1. Live' = Live /\ (NoNull' <=> NoNull)
    BY <1>2 DEF Live, NoNull
  <2>2. Reported' /\ Remembered'
    BY <1>2, <2>1 DEF StayInv, Reported, Remembered
  <2> QED BY <1>1, <2>2 DEF StayInv
<1>3. ASSUME NEW p \in Peers, NEW f \in Fds, AcceptClient(p, f)
      PROVE  StayInv'
  <2>1. /\ clients_ \in Seq(Peers \cup {nullptr}) /\ p # nullptr /\ Alive
        /\ clients_' = Append(clients_, p) /\ disconnects' = disconnects
        /\ connects' = [connects EXCEPT ![p] = @ + 1] /\ Passed' = {}
    BY <1>1, <1>3, ServerAssumption DEF TypeOK, AcceptClient, Passed, Disconnecting
  <2>2. /\ DOMAIN clients_' = 1..(Len(clients_) + 1)
        /\ \A k \in 1..Len(clients_) : clients_'[k] = clients_[k]
        /\ clients_'[Len(clients_) + 1] = p
    BY <1>1, <2>1
  <2>3. Live' = Live \cup {p} /\ (NoNull' => NoNull)
    BY <1>1, <2>1, <2>2 DEF Live, NoNull
  <2>4. \A q \in Peers : q # p => connects'[q] = connects[q]
    BY <1>1, <2>1
  <2>5. Remembered'
    BY <2>1, <2>3, <2>4 DEF StayInv, Remembered
  <2>6. Reported'
    BY <2>1 DEF Reported
  <2> QED BY <1>1, <2>5, <2>6 DEF StayInv
<1>4. CASE RemoveIf
  <2>1. /\ UNCHANGED <<connects, disconnects>> /\ Passed' = {} /\ Alive
    BY <1>4 DEF RemoveIf, historyVars, Passed, Disconnecting
  <2>2. UNCHANGED clients_ \/ ~NoNull'
    <3>1. ASSUME ~UNCHANGED clients_
          PROVE  ~NoNull'
      <4>1. /\ clients_' = [clients_ EXCEPT ![result] = clients_[first],
                                            ![first] = nullptr]
            /\ first <= Len(clients_) /\ pc = "removing"
        BY <1>4, <3>1 DEF RemoveIf
      <4>2. first \in 1..Len(clients_) /\ result \in 1..Len(clients_)
        <5>1. result <= first
          BY <4>1 DEF StayInv, SessionInv, PollInv, IInv, TypeInv, Cursors, Compacting
        <5> QED BY <1>1, <4>1, <5>1, Positions
      <4>3. /\ clients_ \in Seq(Peers \cup {nullptr})
            /\ clients_[first] \in Peers \cup {nullptr}
        BY <1>1, <4>2 DEF TypeOK
      <4>4. /\ clients_' \in Seq(Peers \cup {nullptr}) /\ Len(clients_') = Len(clients_)
            /\ \A k \in 1..Len(clients_) :
                 clients_'[k] = IF k = first THEN nullptr
                                ELSE IF k = result THEN clients_[first] ELSE clients_[k]
        BY <4>1, <4>2, <4>3, ExceptTwice
      <4>5. first \in DOMAIN clients_' /\ clients_'[first] = nullptr
        BY <4>2, <4>4
      <4> QED BY <4>5 DEF NoNull
    <3> QED BY <3>1
  <2>3. Remembered'
    <3>1. CASE UNCHANGED clients_
      <4>1. Live' = Live /\ (NoNull' <=> NoNull)
        BY <3>1 DEF Live, NoNull
      <4> QED BY <2>1, <4>1 DEF StayInv, Remembered
    <3>2. CASE ~NoNull'
      BY <3>2 DEF Remembered
    <3> QED BY <2>2, <3>1, <3>2
  <2>4. Reported'
    BY <2>1 DEF Reported
  <2> QED BY <1>1, <2>3, <2>4 DEF StayInv
<1>5. CASE DisconnectClient
  <2>1. PICK p : p = clients_[first]
    OBVIOUS
  <2>2. /\ p # nullptr /\ first \in 1..Len(clients_) /\ Alive /\ pc = "disconnecting"
        /\ pc' = "on_disconnect" /\ first' = first + 1 /\ result' = result
        /\ disconnects' = [disconnects EXCEPT ![p] = @ + 1]
        /\ UNCHANGED <<connects, clients_>> /\ Live' = Live
    <3>1. first \in Nat \ {0}
      BY <1>1, Positions
    <3> QED BY <1>1, <1>5, <2>1, <3>1 DEF DisconnectClient, Live
  <2>3. result \in Nat /\ result >= 1 /\ first \in Nat
    BY <1>1, Positions
  <2>4. Passed = result..(first - 1) /\ Passed' = result..((first + 1) - 1)
    BY <2>2 DEF Passed, Disconnecting
  <2>5. /\ p \in Peers /\ disconnects[p] = 0
    <3>1. first \in DOMAIN clients_ \ Passed
      BY <1>1, <2>2, <2>3, <2>4
    <3>2. disconnects[p] = 0
      BY <1>1, <2>1, <2>2, <3>1 DEF SessionInv, CallsInv, Unreported
    <3> QED BY <1>1, <2>1, <2>2, <3>2, Positions
  <2>6. disconnects'[p] = 1 /\ \A q \in Peers : q # p => disconnects'[q] = disconnects[q]
    BY <1>1, <2>2, <2>5
  <2>7. Reported'
    <3>1. ASSUME NEW k \in result..((first + 1) - 1), clients_[k] # nullptr
          PROVE  disconnects'[clients_[k]] = 1
      <4>1. k \in 1..Len(clients_) /\ (k # first => k \in result..(first - 1))
        BY <1>1, <2>2, <2>3
      <4>2. clients_[k] \in Peers
        BY <1>1, <3>1, <4>1, Positions
      <4>3. CASE clients_[k] = p
        BY <2>6, <4>3
      <4>4. CASE clients_[k] # p
        <5>1. k \in Passed
          BY <2>1, <2>4, <4>1, <4>4
        <5>2. disconnects[clients_[k]] = 1
          BY <2>2, <3>1, <5>1 DEF StayInv, Reported
        <5> QED BY <2>6, <4>2, <4>4, <5>2
      <4> QED BY <4>3, <4>4
    <3> QED BY <2>2, <2>4, <3>1 DEF Reported
  <2>8. Remembered'
    <3>1. NoNull' <=> NoNull
      BY <2>2 DEF NoNull
    <3>2. \A q \in Peers : connects'[q] > disconnects'[q] => connects[q] > disconnects[q]
      <4>1. \A q \in Peers : /\ connects[q] \in Nat /\ disconnects[q] \in Nat
                             /\ connects'[q] = connects[q]
                             /\ disconnects'[q] >= disconnects[q] /\ disconnects'[q] \in Nat
        BY <1>1, <2>2, <2>5, <2>6
      <4> QED BY <4>1
    <3> QED BY <2>2, <3>1, <3>2 DEF StayInv, Remembered
  <2> QED BY <1>1, <2>7, <2>8 DEF StayInv
<1>6. CASE EraseClients
  <2>1. /\ Alive /\ pc = "disconnecting" /\ pc' = "loop" /\ first > Len(clients_)
        /\ clients_' = SubSeq(clients_, 1, result - 1)
        /\ UNCHANGED <<connects, disconnects>>
    BY <1>6 DEF EraseClients, Erased, handlerVars
  <2>2. /\ clients_ \in Seq(Peers \cup {nullptr}) /\ result \in 1..(Len(clients_) + 1)
        /\ first = Len(clients_) + 1
    <3>1. result <= first /\ first <= Len(clients_) + 1
      BY <2>1 DEF StayInv, SessionInv, PollInv, IInv, TypeInv, Cursors, Compacting
    <3>2. clients_ \in Seq(Peers \cup {nullptr})
      BY <1>1 DEF TypeOK
    <3> QED BY <1>1, <2>1, <3>1, <3>2, Positions
  <2>3. NoNull
    BY <1>1, <2>1, <2>2 DEF SessionInv, PollInv, NullsAhead, NoNull, Disconnecting
  <2>4. /\ DOMAIN clients_' = 1..(result - 1)
        /\ \A k \in 1..(result - 1) : clients_'[k] = clients_[k]
    BY <1>1, <2>1, <2>2
  <2>5. ASSUME NEW p \in Peers, connects[p] > disconnects[p]
        PROVE  p \in Live'
    <3>1. p \in Live
      BY <2>1, <2>3, <2>5 DEF StayInv, Remembered
    <3>2. PICK k \in 1..Len(clients_) : clients_[k] = p /\ p # nullptr
      BY <1>1, <3>1, LiveElements
    <3>3. connects[p] = 1
      BY <1>1, <3>1 DEF SessionInv, CallsInv, Announced
    <3>4. k \notin Passed
      BY <2>1, <2>5, <3>2, <3>3 DEF StayInv, Reported
    <3>5. k \in 1..(result - 1)
      BY <1>1, <2>1, <2>2, <3>4 DEF Passed, Disconnecting
    <3> QED BY <2>4, <3>2, <3>5 DEF Live
  <2>6. Passed' = {}
    BY <2>1 DEF Passed, Disconnecting
  <2> QED BY <1>1, <2>1, <2>5, <2>6 DEF StayInv, Reported, Remembered
<1>7. CASE Join
  <2>1. ~Alive'
    BY <1>7 DEF Join, Alive
  <2> QED BY <1>1, <2>1 DEF StayInv, Reported, Remembered
<1> QED BY <1>1, <1>2, <1>3, <1>4, <1>5, <1>6, <1>7, NobodyMoves

\* Outside handle_disconnected_clients_ every client that was announced and not
\* reported as disconnected is in clients_, for any number of clients: a client
\* that remove_if destroyed silently always takes the process with it.
THEOREM SilentLossIsFatal == Spec => []UnreportedClientsStay
<1>1. Init => StayInv
  <2> SUFFICES ASSUME Init PROVE StayInv
    OBVIOUS
  <2>1. \A p \in Peers : connects[p] = 0 /\ disconnects[p] = 0
    BY DEF Init
  <2>2. Passed = {}
    BY DEF Init, Passed, Disconnecting
  <2> QED BY <2>1, <2>2, SessionInit DEF StayInv, Reported, Remembered
<1>2. StayInv => UnreportedClientsStay
  <2> SUFFICES ASSUME StayInv, Stable, NEW p \in Peers, connects[p] > disconnects[p]
               PROVE  p \in Live
    BY DEF UnreportedClientsStay
  <2>1. Alive /\ pc \notin Disconnecting /\ pc # "removing"
    BY DEF Stable, Alive, Dead, Disconnecting
  <2>2. NoNull
    BY <2>1 DEF StayInv, SessionInv, PollInv, NullsAhead, NoNull
  <2> QED BY <2>1, <2>2 DEF StayInv, Remembered
<1> QED BY <1>1, <1>2, StayStep, PTL DEF Spec

=============================================================================

---------------------------- MODULE ClientProofs ----------------------------
(***************************************************************************)
(* Proofs about Client, for every set of descriptors and every bound on    *)
(* the bytes.                                                              *)
(***************************************************************************)
EXTENDS Client, TLAPS

\* Remote is the only connection, and neither free nor other code's.
LEMMA RemoteIsPeer ==
    /\ Peers = {Remote} /\ Remote # Nobody /\ Remote # Foreign /\ Nobody # Foreign
    /\ 0 \notin Fds
BY SocketsAssumption, ClientAssumption

\* A call of on_disconnect_ leaves its mark.
LEMMA NoticedMarks ==
    ASSUME notices \subseteq {"open", "closed"}
    PROVE  /\ Noticed \subseteq {"open", "closed"} /\ Noticed # {} /\ notices \subseteq Noticed
           /\ socket_ = 0 => "closed" \in Noticed
BY DEF Noticed

\* One ::recv takes something, and no more than the server has sent.
LEMMA RecvTypes ==
    ASSUME TypeOK, Unread(Remote) > 0
    PROVE  /\ RecvSize(Remote) \in 0..MaxBufferSize /\ RecvSize(Remote) > 0
           /\ [consumed EXCEPT ![Remote] = @ + RecvSize(Remote)] \in [Peers -> 0..MaxBytes]
<1>1. /\ sent[Remote] \in 0..MaxBytes /\ consumed[Remote] \in 0..MaxBytes
      /\ consumed \in [Peers -> 0..MaxBytes]
  BY RemoteIsPeer DEF TypeOK, SocketsTypeOK
<1>2. /\ RecvSize(Remote) \in 0..MaxBufferSize /\ RecvSize(Remote) > 0
      /\ consumed[Remote] + RecvSize(Remote) \in 0..MaxBytes
  BY <1>1, SocketsAssumption DEF Unread, RecvSize
<1> QED BY <1>1, <1>2

-----------------------------------------------------------------------------
(* The inductive invariant.  The network thread connects once, before anything *)
(* is sent or received, and is the only one that closes the socket until       *)
(* join() has returned.  The owner's thread sees it in any state in between,   *)
(* so the invariant says what holds at each of the thread's control points.    *)

Early == {"none", "spawned", "resolve_returned", "resolved"}
Looping == Labels \ (Early \cup {"socket_made", "connect_returned"} \cup Dead)
Ended == peerState[Remote] \in {"fin", "rst"}

\* Before socket_ is assigned nobody has used the connection, and before it is
\* made it has no state.
NothingBeforeConnect ==
    /\ pc \in Early \cup {"socket_made"} =>
         /\ socket_ = 0 /\ \A t \in Threads : step[t] # "sending"
         /\ ~connected /\ strayed = {}
         /\ delivered = 0 /\ consumed[Remote] = 0
    /\ pc \in Early => peerState[Remote] = "none"

\* The socket between connection::connect and on_connect_.
ConnectedFirst ==
    /\ pc = "connect_returned" => ec_ \/ socket_ # 0
    /\ pc \in Looping => connected

\* The connection before it is assigned to socket_, and once ::close was called.
SocketGaps ==
    /\ pc = "socket_made" => socket_fd # 0 /\ fdTable[socket_fd] = Remote
    /\ pc \in Closing => \A f \in Fds : fdTable[f] # Remote

\* send_message works on the one connection there ever is, closed by now or not;
\* on the network thread, which runs a handler meanwhile, it is not.
SendsOnOneSocket ==
    /\ \A t \in Threads : step[t] = "sending" => target[t] # 0 /\ socket_ \in {target[t], 0}
    /\ (pc \notin Dead /\ step["network"] = "sending") =>
         pc \in Callbacks /\ target["network"] = socket_

\* What receive has found, or returned, at the points where it matters.
ReceiveFacts ==
    /\ pc = "receive" => socket_ # 0
    /\ pc = "eof_reset" => socket_ = 0
    /\ pc \in {"eof", "eof_closed", "eof_reset"} => Ended
    /\ (pc = "received" /\ size = 0) => ec_ \/ Ended
    /\ (pc = "received" /\ socket_ = 0) => size = 0

\* As long as no error has been seen, all that was received has been delivered, or
\* is about to be.
AllDelivered ==
    (pc \notin Dead /\ socket_ # 0 /\ ~ec_) =>
        delivered + (IF pc = "received" THEN size ELSE 0) = consumed[Remote]

\* The loop ends because the client is not to run, and then the socket is closed.
EndFacts ==
    /\ pc \in {"end", "end_closed", "end_reset"} => ~running_
    /\ pc \in {"end_reset", "on_close", "ended"} => socket_ = 0

SocketInv == SocketOwned /\ SocketGaps /\ SendsOnOneSocket /\ StraysOnlyAfterClose
StartInv == NothingBeforeConnect /\ ConnectedFirst
DataInv == ReceiveFacts /\ AllDelivered
NoticeInv == EndFacts /\ ClosedIsReported /\ NoticeHasCause

IInv == TypeOK /\ SocketInv /\ StartInv /\ DataInv /\ NoticeInv

\* The initial state satisfies the invariant, whatever running_ is.
LEMMA InvInit == Init => IInv
<1> SUFFICES ASSUME Init PROVE IInv
  OBVIOUS
<1>1. SocketsTypeOK
  BY SocketsAssumption DEF Init, SocketsInit, SocketsTypeOK, PeerStates
<1>2. TypeOK
  <2>1. /\ pc \in Labels /\ owner \in {"using", "joining", "gone"}
        /\ step \in [Threads -> {"idle", "sending", "sent"}]
        /\ target \in [Threads -> Fds \cup {0}]
    BY DEF Init, Labels
  <2>2. /\ socket_fd \in Fds \cup {0} /\ size \in 0..MaxBufferSize
        /\ socket_ \in Fds \cup {0} /\ delivered \in Nat
    BY SocketsAssumption DEF Init
  <2>3. /\ running_ \in BOOLEAN /\ ec_ \in BOOLEAN /\ connected \in BOOLEAN
        /\ notices \subseteq {"open", "closed"}
        /\ netFailed \in BOOLEAN /\ strayed \subseteq Threads
    BY DEF Init
  <2> QED BY <1>1, <2>1, <2>2, <2>3 DEF TypeOK
<1>3. SocketInv
  BY RemoteIsPeer DEF Init, SocketsInit, SocketInv, SocketOwned, SocketGaps, Closing,
     SendsOnOneSocket, StraysOnlyAfterClose, Threads
<1>4. consumed[Remote] = 0 /\ peerState[Remote] = "none"
  BY RemoteIsPeer DEF Init, SocketsInit
<1>5. StartInv /\ DataInv /\ NoticeInv
  BY <1>4 DEF Init, StartInv, NothingBeforeConnect, ConnectedFirst, Looping, Early,
     DataInv, ReceiveFacts, AllDelivered, NoticeInv, EndFacts, ClosedIsReported,
     NoticeHasCause, Callbacks
<1> QED BY <1>2, <1>3, <1>5 DEF IInv

-----------------------------------------------------------------------------
(* Types *)

\* send_message and the owner's other calls keep the types.
LEMMA TypeCalls ==
    TypeOK /\ (Owner \/ (\E t \in Threads : Calls(t) \/ Sending(t))) => TypeOK'
<1> SUFFICES ASSUME TypeOK, Owner \/ (\E t \in Threads : Calls(t) \/ Sending(t))
             PROVE  TypeOK'
  OBVIOUS
<1> USE DEF TypeOK, SocketsTypeOK, kernelVars, historyVars, sendVars, localVars
<1>1. CASE Connect
  BY <1>1 DEF Connect, Labels, Dead
<1>2. CASE Destroy
  BY <1>2 DEF Destroy
<1>3. CASE Join
  BY <1>3 DEF Join, SocketClosed, SocketAfterClose, Closed
<1>4. ASSUME NEW t \in Threads, Calls(t)
      PROVE  TypeOK'
  <2>1. CASE Disconnect(t)
    BY <2>1 DEF Disconnect
  <2>2. CASE SendChecked(t)
    BY <2>2 DEF SendChecked
  <2>3. ASSUME NEW empty \in BOOLEAN, SendRefused(t, empty)
        PROVE  TypeOK'
    BY <2>3 DEF SendRefused
  <2> QED BY <1>4, <2>1, <2>2, <2>3 DEF Calls
<1>5. ASSUME NEW t \in Threads, Sending(t)
      PROVE  TypeOK'
  <2>1. ASSUME NEW f \in Fds \cup {0}, SendPerformed(t, f)
        PROVE  TypeOK'
    <3>1. ec_' \in BOOLEAN /\ strayed' \subseteq Threads
      BY <2>1 DEF SendPerformed
    <3> QED BY <2>1, <3>1 DEF SendPerformed
  <2>2. CASE SendReported(t)
    BY <2>2, NoticedMarks DEF SendReported
  <2> QED BY <1>5, <2>1, <2>2 DEF Sending
<1>6. "owner" \in Threads
  BY DEF Threads
<1> QED BY <1>1, <1>2, <1>3, <1>4, <1>5, <1>6 DEF Owner

\* The steps of network_thread_function_ keep the types.
LEMMA TypeThread == TypeOK /\ NetworkThread => TypeOK'
<1> SUFFICES ASSUME TypeOK, NetworkThread PROVE TypeOK'
  OBVIOUS
<1>0. Noticed \subseteq {"open", "closed"}
  BY NoticedMarks DEF TypeOK
<1>9. CASE Sending("network")
  BY <1>9, TypeCalls DEF Threads
<1> USE DEF TypeOK, SocketsTypeOK, kernelVars, historyVars, sendVars, localVars, Labels, Callbacks
<1>1. CASE Resolve \/ ConnectFails \/ SocketAssigned
  BY <1>1 DEF Resolve, ConnectFails, SocketAssigned
<1>2. ASSUME NEW f \in Fds, ConnectSucceeds(f)
      PROVE  TypeOK'
  BY <1>2, RemoteIsPeer DEF ConnectSucceeds, PeerStates
<1>3. CASE ErrorTest
  BY <1>3 DEF ErrorTest, Dead
<1>4. CASE LoopTest \/ ResetSocket \/ EndNotice \/ NotConnected
  BY <1>0, <1>4 DEF LoopTest, ResetSocket, EndNotice, NotConnected, SocketAfterClose, EcKept
<1>5. CASE CloseSocket
  BY <1>5 DEF CloseSocket, SocketClosed, Closed
<1>6. CASE ReceiveData
  <2>1. size' \in 0..MaxBufferSize /\ consumed' \in [Peers -> 0..MaxBytes]
    BY <1>6, RecvTypes DEF ReceiveData
  <2> QED BY <1>6, <2>1 DEF ReceiveData
<1>7. CASE PollData \/ ReceiveEof \/ HandlerReturns
  BY <1>7 DEF PollData, ReceiveEof, HandlerReturns
<1>8. CASE EofAssigned \/ ReceiveError
  <2>1. size' = 0 /\ 0 \in 0..MaxBufferSize /\ pc' = "received"
    BY <1>8, SocketsAssumption DEF EofAssigned, ReceiveError
  <2>2. ec_' \in BOOLEAN
    BY <1>8, Zenon DEF EofAssigned, ReceiveError
  <2> QED BY <1>8, <2>1, <2>2 DEF EofAssigned, ReceiveError
<1>10. CASE Received
  <2>1. size' \in 0..MaxBufferSize /\ pc' \in Labels /\ delivered' \in Nat
    BY <1>10, SocketsAssumption DEF Received, MeansDisconnected
  <2>2. notices' \subseteq {"open", "closed"}
    BY <1>0, <1>10 DEF Received, MeansDisconnected
  <2> QED BY <1>10, <2>1, <2>2 DEF Received
<1> QED BY <1>1, <1>2, <1>3, <1>4, <1>5, <1>6, <1>7, <1>8, <1>9, <1>10
   DEF NetworkThread

\* So does every other step.
LEMMA TypeStep == TypeOK /\ [Next]_vars => TypeOK'
<1> SUFFICES ASSUME TypeOK, [Next]_vars PROVE TypeOK'
  OBVIOUS
<1>4. CASE NetworkThread \/ Owner \/ \E t \in Threads : Calls(t)
  BY <1>4, TypeCalls, TypeThread
<1> USE DEF TypeOK, SocketsTypeOK, kernelVars, historyVars, sendVars, localVars
<1>1. CASE RemoteActs
  BY <1>1, RemoteIsPeer, SocketsAssumption DEF RemoteActs, PeerSends, PeerCloses,
     PeerResets, PeerStates
<1>2. ASSUME NEW f \in Fds, ForeignActs(f)
      PROVE  TypeOK'
  BY <1>2 DEF ForeignActs, ForeignOpens, ForeignCloses, Closed
<1>3. CASE UNCHANGED vars
  BY <1>3 DEF vars
<1> QED BY <1>1, <1>2, <1>3, <1>4 DEF Next, Halted

\* Types hold, and no more is read from the socket than the server has sent, in
\* every interleaving of the two threads, the server and other code.
THEOREM TypeCorrect == Spec => []TypeOK
<1>1. Init => TypeOK
  BY InvInit DEF IInv
<1> QED BY <1>1, TypeStep, PTL DEF Spec

-----------------------------------------------------------------------------
(* The socket *)

\* A step that leaves the socket and the descriptors alone, and does not take the
\* network thread into or out of a place where they disagree.
LEMMA SocketFrame ==
    ASSUME IInv, UNCHANGED <<fdTable, foreign, socket_, socket_fd, target, strayed>>,
           \A t \in Threads : step'[t] = "sending" => step[t] = "sending",
           \/ pc' \in Dead
           \/ /\ pc \notin Dead
              /\ pc' = "socket_made" <=> pc = "socket_made"
              /\ pc' \in Closing <=> pc \in Closing
              /\ step["network"] = "sending" => pc' \in Callbacks
    PROVE  SocketInv'
<1>1. "network" \in Threads
  BY DEF Threads
<1>2. SocketOwned' /\ SocketGaps'
  BY DEF IInv, SocketInv, SocketOwned, SocketGaps, Dead, Closing
<1>3. SendsOnOneSocket' /\ StraysOnlyAfterClose'
  BY <1>1 DEF IInv, SocketInv, SendsOnOneSocket, StraysOnlyAfterClose, Attached
<1> QED BY <1>2, <1>3 DEF SocketInv

\* The network thread is in none of its own sends when it takes another step.
LEMMA NotSending ==
    ASSUME IInv, Alive, pc \notin Callbacks
    PROVE  step["network"] # "sending"
BY DEF IInv, SocketInv, SendsOnOneSocket, Alive

\* connection::disconnect closes the connection, and nothing else.
LEMMA ClosedTable ==
    ASSUME IInv, pc \in {"eof", "end", "ended"}, fdTable' = SocketClosed, foreign' = foreign
    PROVE  /\ \A f \in Fds : fdTable'[f] # Remote
           /\ \A f \in foreign' : fdTable'[f] = Foreign
<1>1. /\ fdTable \in [Fds -> Peers \cup {Nobody, Foreign}] /\ foreign \subseteq Fds
      /\ socket_ \in Fds \cup {0} /\ SocketOwned
  BY DEF IInv, TypeOK, SocketsTypeOK, SocketInv
<1>2. \A f \in Fds : fdTable'[f] = IF f = socket_ THEN Nobody ELSE fdTable[f]
  BY <1>1, RemoteIsPeer DEF SocketClosed, Closed
<1>3. /\ \A f \in Fds : fdTable[f] = Remote => f = socket_
      /\ socket_ # 0 => fdTable[socket_] = Remote
  BY <1>1 DEF SocketOwned, Dead, Closing
<1> QED BY <1>1, <1>2, <1>3, RemoteIsPeer DEF SocketOwned

\* Calls of send_message, and the owner's, keep the socket's invariant.
LEMMA SocketCalls ==
    IInv /\ (Owner \/ (\E t \in Threads : Calls(t) \/ Sending(t))) => SocketInv'
<1> SUFFICES ASSUME IInv, Owner \/ (\E t \in Threads : Calls(t) \/ Sending(t))
             PROVE  SocketInv'
  OBVIOUS
<1>0. /\ "network" \in Threads /\ "owner" \in Threads
      /\ step \in [Threads -> {"idle", "sending", "sent"}]
      /\ target \in [Threads -> Fds \cup {0}] /\ socket_ \in Fds \cup {0}
  BY DEF Threads, IInv, TypeOK
<1>a. /\ \A t \in Threads : step[t] = "sending" => target[t] # 0 /\ socket_ \in {target[t], 0}
      /\ (pc \notin Dead /\ step["network"] = "sending") =>
           pc \in Callbacks /\ target["network"] = socket_
  BY DEF IInv, SocketInv, SendsOnOneSocket
<1>1. CASE Connect \/ Destroy
  <2>1. /\ UNCHANGED <<fdTable, foreign, socket_, socket_fd, target, strayed, step>>
        /\ pc \notin Dead
        /\ pc' = pc \/ pc' \in Dead \/ (pc = "none" /\ pc' = "spawned")
    BY <1>1 DEF Connect, Destroy, MayCall, Alive, Dead, kernelVars, historyVars, sendVars,
       localVars
  <2> QED BY <1>a, <2>1, SocketFrame DEF Closing, Callbacks
<1>2. CASE Join
  <2>1. /\ pc' = pc /\ pc = "ended" /\ socket_' = 0 /\ foreign' = foreign
        /\ UNCHANGED <<step, target, strayed>> /\ fdTable' = SocketClosed
    BY <1>2 DEF Join, SocketAfterClose, sendVars, historyVars
  <2>2. SocketOwned' /\ SocketGaps'
    BY <2>1, ClosedTable DEF SocketOwned, SocketGaps, Closing
  <2>3. StraysOnlyAfterClose'
    BY <2>1, ClosedTable DEF IInv, SocketInv, StraysOnlyAfterClose, Attached
  <2>4. SendsOnOneSocket'
    BY <1>a, <2>1 DEF SendsOnOneSocket, Dead, Callbacks
  <2> QED BY <2>2, <2>3, <2>4 DEF SocketInv
<1>3. ASSUME NEW t \in Threads, Disconnect(t) \/ (\E empty \in BOOLEAN : SendRefused(t, empty))
      PROVE  SocketInv'
  <2>1. /\ UNCHANGED <<fdTable, foreign, socket_, socket_fd, target, strayed, pc>>
        /\ pc \notin Dead /\ \A u \in Threads : step'[u] = "sending" => step[u] = "sending"
    BY <1>0, <1>3 DEF Disconnect, SendRefused, MayCall, Alive, kernelVars, historyVars,
       sendVars, localVars
  <2> QED BY <1>a, <2>1, SocketFrame
<1>4. ASSUME NEW t \in Threads, SendReported(t)
      PROVE  SocketInv'
  <2>1. /\ UNCHANGED <<fdTable, foreign, socket_, socket_fd, target, strayed, pc>>
        /\ pc \notin Dead /\ \A u \in Threads : step'[u] = "sending" => step[u] = "sending"
    BY <1>0, <1>4 DEF SendReported, Alive, kernelVars, localVars
  <2> QED BY <1>a, <2>1, SocketFrame
<1>5. ASSUME NEW t \in Threads, SendChecked(t)
      PROVE  SocketInv'
  <2>1. /\ UNCHANGED <<fdTable, foreign, socket_, socket_fd, strayed, pc>>
        /\ pc \notin Dead /\ socket_ # 0 /\ (t = "network" => pc \in Callbacks)
        /\ step' = [step EXCEPT ![t] = "sending"] /\ target' = [target EXCEPT ![t] = socket_]
    BY <1>5 DEF SendChecked, MayCall, Alive, kernelVars, historyVars, localVars
  <2>2. SocketOwned' /\ SocketGaps' /\ StraysOnlyAfterClose'
    BY <2>1 DEF IInv, SocketInv, SocketOwned, SocketGaps, StraysOnlyAfterClose, Attached
  <2>3. SendsOnOneSocket'
    BY <1>0, <1>a, <2>1 DEF SendsOnOneSocket
  <2> QED BY <2>2, <2>3 DEF SocketInv
<1>6. ASSUME NEW t \in Threads, NEW f \in Fds \cup {0}, SendPerformed(t, f)
      PROVE  SocketInv'
  <2>1. /\ UNCHANGED <<fdTable, foreign, socket_, socket_fd, pc>> /\ pc \notin Dead
        /\ step[t] = "sending" /\ f \in {target[t], socket_}
        /\ step' = [step EXCEPT ![t] = "sent"] /\ target' = [target EXCEPT ![t] = 0]
        /\ strayed' = strayed \/ (f # 0 /\ fdTable[f] = Foreign /\ strayed' = strayed \cup {t})
    BY <1>6 DEF SendPerformed, Alive, kernelVars, localVars
  <2>2. SocketOwned' /\ SocketGaps'
    BY <2>1 DEF IInv, SocketInv, SocketOwned, SocketGaps
  <2>3. SendsOnOneSocket'
    BY <1>0, <1>a, <2>1 DEF SendsOnOneSocket
  <2>4. StraysOnlyAfterClose'
    <3>1. CASE strayed' = strayed
      BY <2>1, <3>1 DEF IInv, SocketInv, StraysOnlyAfterClose, Attached
    <3>2. CASE f # 0 /\ fdTable[f] = Foreign /\ strayed' = strayed \cup {t}
      <4>1. socket_ \in {f, 0}
        BY <1>a, <2>1, <3>2
      <4>2. pc # "socket_made"
        BY <2>1 DEF IInv, StartInv, NothingBeforeConnect
      <4>3. \A g \in Fds : fdTable[g] # Remote
        BY <2>1, <3>2, <4>1, <4>2, RemoteIsPeer DEF IInv, SocketInv, SocketOwned
      <4>4. t # "network"
        <5> SUFFICES ASSUME t = "network" PROVE FALSE
          OBVIOUS
        <5>1. pc \in Callbacks /\ f = socket_
          BY <1>a, <2>1
        <5> QED BY <2>1, <3>2, <5>1, RemoteIsPeer DEF IInv, SocketInv, SocketOwned,
             Callbacks, Closing
      <4> QED BY <2>1, <3>2, <4>3, <4>4 DEF IInv, SocketInv, StraysOnlyAfterClose, Attached
    <3> QED BY <2>1, <3>1, <3>2
  <2> QED BY <2>2, <2>3, <2>4 DEF SocketInv
<1> QED BY <1>0, <1>1, <1>2, <1>3, <1>4, <1>5, <1>6 DEF Owner, Calls, Sending

\* The network thread's own steps keep the socket's invariant.
LEMMA SocketThread == IInv /\ NetworkThread => SocketInv'
<1> SUFFICES ASSUME IInv, NetworkThread PROVE SocketInv'
  OBVIOUS
<1>0. /\ fdTable \in [Fds -> Peers \cup {Nobody, Foreign}] /\ foreign \subseteq Fds
      /\ socket_ \in Fds \cup {0} /\ socket_fd \in Fds \cup {0} /\ pc \in Labels
  BY DEF IInv, TypeOK, SocketsTypeOK
<1>1. CASE Resolve \/ ConnectFails \/ ErrorTest \/ LoopTest \/ EndNotice \/ NotConnected
  <2>1. /\ UNCHANGED <<fdTable, foreign, socket_, socket_fd, target, strayed, step>>
        /\ Alive /\ pc \notin Callbacks \cup Closing \cup {"socket_made"}
        /\ pc' \notin Closing \cup {"socket_made"}
    BY <1>1 DEF Resolve, ConnectFails, ErrorTest, LoopTest, EndNotice, NotConnected,
       Callbacks, Closing, kernelVars, historyVars, sendVars, localVars
  <2> QED BY <2>1, SocketFrame, NotSending DEF Alive
<1>2. CASE PollData \/ ReceiveData \/ ReceiveEof \/ EofAssigned \/ ReceiveError \/ Received
  <2>1. /\ UNCHANGED <<fdTable, foreign, socket_, socket_fd, target, strayed, step>>
        /\ Alive /\ pc \notin Callbacks \cup Closing \cup {"socket_made"}
        /\ pc' \notin Closing \cup {"socket_made"}
    BY <1>2 DEF PollData, ReceiveData, ReceiveEof, EofAssigned, ReceiveError, Received,
       Callbacks, Closing, kernelVars, historyVars, sendVars, localVars
  <2> QED BY <2>1, SocketFrame, NotSending DEF Alive
<1>3. CASE HandlerReturns
  <2>1. /\ UNCHANGED <<fdTable, foreign, socket_, socket_fd, target, strayed, step>>
        /\ pc \notin Dead /\ pc \in Callbacks /\ step["network"] = "idle"
        /\ pc' \notin Closing \cup {"socket_made"}
    BY <1>3 DEF HandlerReturns, Closing, MayCall, Alive, kernelVars, historyVars, sendVars, localVars
  <2> QED BY <2>1, SocketFrame DEF Callbacks, Closing
<1>4. ASSUME NEW f \in Fds, ConnectSucceeds(f)
      PROVE  SocketInv'
  <2>1. /\ pc = "resolved" /\ pc' = "socket_made" /\ socket_fd' = f
        /\ fdTable[f] = Nobody /\ fdTable' = [fdTable EXCEPT ![f] = Remote]
        /\ UNCHANGED <<foreign, socket_, step, target, strayed>>
    BY <1>4 DEF ConnectSucceeds, sendVars, historyVars
  <2>2. /\ socket_ = 0 /\ \A t \in Threads : step[t] # "sending"
        /\ strayed = {} /\ "network" \in Threads
    BY <2>1 DEF IInv, StartInv, NothingBeforeConnect, Early, Threads
  <2>3. \A g \in Fds : fdTable'[g] = IF g = f THEN Remote ELSE fdTable[g]
    BY <1>0, <2>1
  <2>4. /\ \A g \in Fds : fdTable[g] # Remote
        /\ \A g \in foreign : fdTable[g] = Foreign /\ g # f
    BY <2>1, <2>2, RemoteIsPeer DEF IInv, SocketInv, SocketOwned, Dead
  <2>5. SocketOwned' /\ SocketGaps'
    BY <1>0, <2>1, <2>2, <2>3, <2>4, RemoteIsPeer DEF SocketOwned, SocketGaps, Closing
  <2>6. SendsOnOneSocket' /\ StraysOnlyAfterClose'
    BY <2>1, <2>2 DEF SendsOnOneSocket, StraysOnlyAfterClose
  <2> QED BY <2>5, <2>6 DEF SocketInv
<1>5. CASE SocketAssigned
  <2>1. /\ pc = "socket_made" /\ pc' = "connect_returned" /\ socket_' = socket_fd
        /\ UNCHANGED <<fdTable, foreign, step, target, strayed>>
    BY <1>5 DEF SocketAssigned, kernelVars, sendVars, historyVars
  <2>2. /\ \A t \in Threads : step[t] # "sending"
        /\ strayed = {} /\ "network" \in Threads
    BY <2>1 DEF IInv, StartInv, NothingBeforeConnect, Threads
  <2>3. fdTable[socket_fd] = Remote
    BY <2>1 DEF IInv, SocketInv, SocketGaps
  <2> QED BY <2>1, <2>2, <2>3 DEF SocketInv, SocketOwned, SocketGaps, SendsOnOneSocket,
       StraysOnlyAfterClose, IInv, Dead, Closing
<1>6. CASE CloseSocket
  <2>1. /\ pc \in {"eof", "end"} /\ pc' \in Closing \cup {"end_reset"} /\ Alive
        /\ pc' = "end_reset" => socket_ = 0
        /\ fdTable' = SocketClosed
        /\ UNCHANGED <<foreign, socket_, step, target, strayed>>
    BY <1>6 DEF CloseSocket, Closing, sendVars, historyVars
  <2>2. SocketOwned' /\ SocketGaps'
    BY <2>1, ClosedTable DEF SocketOwned, SocketGaps, Closing
  <2>3. SendsOnOneSocket'
    BY <2>1, NotSending DEF IInv, SocketInv, SendsOnOneSocket, Callbacks
  <2>4. StraysOnlyAfterClose'
    BY <2>1, ClosedTable DEF IInv, SocketInv, StraysOnlyAfterClose, Attached
  <2> QED BY <2>2, <2>3, <2>4 DEF SocketInv
<1>7. CASE ResetSocket
  <2>1. /\ pc \in Closing /\ pc' \in {"eof_reset", "end_reset"} /\ Alive /\ socket_' = 0
        /\ UNCHANGED <<fdTable, foreign, step, target, strayed>>
    BY <1>7 DEF ResetSocket, SocketAfterClose, kernelVars, sendVars, historyVars
  <2>2. \A f \in Fds : fdTable[f] # Remote
    BY <2>1 DEF IInv, SocketInv, SocketGaps
  <2> QED BY <2>1, <2>2, NotSending DEF IInv, SocketInv, SocketOwned, SocketGaps, SendsOnOneSocket,
       StraysOnlyAfterClose, Attached, Closing, Callbacks
<1>8. CASE Sending("network")
  BY <1>8, SocketCalls DEF Threads
<1> QED BY <1>1, <1>2, <1>3, <1>4, <1>5, <1>6, <1>7, <1>8 DEF NetworkThread

\* Other code takes and frees descriptors that are its own.
LEMMA SocketStep == IInv /\ [Next]_vars => SocketInv'
<1> SUFFICES ASSUME IInv, [Next]_vars PROVE SocketInv'
  OBVIOUS
<1>1. CASE NetworkThread \/ Owner \/ \E t \in Threads : Calls(t)
  BY <1>1, SocketCalls, SocketThread
<1>2. CASE RemoteActs
  <2>1. /\ UNCHANGED <<fdTable, foreign, socket_, socket_fd, target, strayed, step, pc>>
        /\ pc \notin Dead
    BY <1>2 DEF RemoteActs, PeerSends, PeerCloses, PeerResets, Alive, historyVars, sendVars,
       localVars
  <2> QED BY <2>1, SocketFrame DEF IInv, SocketInv, SendsOnOneSocket
<1>3. ASSUME NEW f \in Fds, ForeignActs(f)
      PROVE  SocketInv'
  <2>0. /\ fdTable \in [Fds -> Peers \cup {Nobody, Foreign}] /\ foreign \subseteq Fds
        /\ socket_ \in Fds \cup {0} /\ socket_fd \in Fds \cup {0} /\ SocketOwned
    BY DEF IInv, TypeOK, SocketsTypeOK, SocketInv
  <2>1. UNCHANGED <<socket_, socket_fd, target, strayed, step, pc>>
    BY <1>3 DEF ForeignActs, historyVars, sendVars, localVars
  <2>2. /\ fdTable[f] \in {Nobody, Foreign}
        /\ \A g \in Fds : g # f => fdTable'[g] = fdTable[g]
        /\ fdTable'[f] \in {Nobody, Foreign}
        /\ foreign' \subseteq Fds
        /\ \A g \in foreign' : IF g = f THEN fdTable'[f] = Foreign ELSE g \in foreign
    BY <1>3, <2>0 DEF ForeignActs, ForeignOpens, ForeignCloses, Closed, SocketOwned
  <2>3. \A g \in Fds : fdTable'[g] = Remote <=> fdTable[g] = Remote
    BY <2>2, RemoteIsPeer
  <2>4. SocketOwned' /\ SocketGaps'
    BY <2>0, <2>1, <2>2, <2>3 DEF IInv, SocketInv, SocketOwned, SocketGaps
  <2>5. SendsOnOneSocket' /\ StraysOnlyAfterClose'
    BY <2>1, <2>3 DEF IInv, SocketInv, SendsOnOneSocket, StraysOnlyAfterClose, Attached
  <2> QED BY <2>4, <2>5 DEF SocketInv
<1>4. CASE UNCHANGED vars
  BY <1>4 DEF vars, kernelVars, historyVars, sendVars, localVars, IInv, SocketInv,
     SocketOwned, SocketGaps, SendsOnOneSocket, StraysOnlyAfterClose, Attached
<1> QED BY <1>1, <1>2, <1>3, <1>4 DEF Next, Halted

-----------------------------------------------------------------------------
(* The connection before it is used *)

\* The owner's calls and send_message change nothing that the connection's early
\* states depend on: without a socket nothing is sent.
LEMMA StartCalls ==
    IInv /\ (Owner \/ (\E t \in Threads : Calls(t) \/ Sending(t))) => StartInv'
<1> SUFFICES ASSUME IInv, Owner \/ (\E t \in Threads : Calls(t) \/ Sending(t))
             PROVE  StartInv'
  OBVIOUS
<1>0. /\ step \in [Threads -> {"idle", "sending", "sent"}] /\ "owner" \in Threads
      /\ NothingBeforeConnect /\ ConnectedFirst
  BY DEF IInv, TypeOK, StartInv, Threads
<1>1. CASE Connect
  BY <1>0, <1>1 DEF Connect, MayCall, Alive, StartInv, NothingBeforeConnect, ConnectedFirst,
     Early, Looping, Dead, kernelVars, sendVars, historyVars
<1>2. CASE Destroy
  BY <1>0, <1>2 DEF Destroy, StartInv, NothingBeforeConnect, ConnectedFirst, kernelVars,
     sendVars, historyVars
<1>3. CASE Join
  BY <1>0, <1>3 DEF Join, SocketAfterClose, StartInv, NothingBeforeConnect, ConnectedFirst,
     Early, kernelVars, sendVars, historyVars
<1>4. ASSUME NEW t \in Threads, Disconnect(t)
      PROVE  StartInv'
  BY <1>0, <1>4 DEF Disconnect, StartInv, NothingBeforeConnect, ConnectedFirst, kernelVars,
     sendVars, historyVars
<1>5. ASSUME NEW t \in Threads, SendChecked(t)
      PROVE  StartInv'
  BY <1>0, <1>5 DEF SendChecked, StartInv, NothingBeforeConnect, ConnectedFirst, kernelVars,
     historyVars
<1>6. ASSUME NEW t \in Threads, NEW empty \in BOOLEAN, SendRefused(t, empty)
      PROVE  StartInv'
  BY <1>0, <1>6 DEF SendRefused, StartInv, NothingBeforeConnect, ConnectedFirst, kernelVars,
     historyVars
<1>7. ASSUME NEW t \in Threads, NEW f \in Fds \cup {0}, SendPerformed(t, f)
      PROVE  StartInv'
  <2>1. pc \notin Early \cup {"socket_made"} /\ pc' = pc
    BY <1>0, <1>7 DEF SendPerformed, NothingBeforeConnect
  <2>2. ec_ => ec_'
    BY <1>7 DEF SendPerformed
  <2> QED BY <1>0, <1>7, <2>1, <2>2 DEF SendPerformed, StartInv, NothingBeforeConnect,
       ConnectedFirst
<1>8. ASSUME NEW t \in Threads, SendReported(t)
      PROVE  StartInv'
  BY <1>0, <1>8 DEF SendReported, StartInv, NothingBeforeConnect, ConnectedFirst, kernelVars
<1> QED BY <1>0, <1>1, <1>2, <1>3, <1>4, <1>5, <1>6, <1>7, <1>8 DEF Owner, Calls, Sending

\* The network thread calls on_connect_ with an open socket, and only then goes on
\* to the loop.
LEMMA StartThread == IInv /\ NetworkThread => StartInv'
<1> SUFFICES ASSUME IInv, NetworkThread PROVE StartInv'
  OBVIOUS
<1>0. NothingBeforeConnect /\ ConnectedFirst /\ SocketGaps /\ pc \in Labels
  BY DEF IInv, TypeOK, StartInv, SocketInv
<1>1. CASE Resolve \/ ConnectFails
  <2>1. \/ pc = "spawned" /\ pc' = "resolve_returned"
        \/ pc = "resolved" /\ pc' = "connect_returned" /\ ec_' = TRUE
    BY <1>1 DEF Resolve, ConnectFails
  <2> QED BY <1>0, <1>1, <2>1 DEF Resolve, ConnectFails, StartInv, NothingBeforeConnect,
       ConnectedFirst, Early, Looping, kernelVars, sendVars
<1>2. ASSUME NEW f \in Fds, ConnectSucceeds(f)
      PROVE  StartInv'
  BY <1>0, <1>2 DEF ConnectSucceeds, StartInv, NothingBeforeConnect, ConnectedFirst, Early,
     Looping, sendVars, historyVars
<1>3. CASE SocketAssigned
  BY <1>0, <1>3 DEF SocketAssigned, StartInv, NothingBeforeConnect, ConnectedFirst,
     SocketGaps, Early, Looping
<1>4. CASE ErrorTest
  BY <1>0, <1>4 DEF ErrorTest, StartInv, NothingBeforeConnect, ConnectedFirst, Early,
     Looping, Dead, kernelVars, sendVars
<1>5. CASE Sending("network")
  BY <1>5, StartCalls DEF Threads
<1>6. CASE pc \in Looping /\ pc' \in Looping /\ UNCHANGED connected
  BY <1>0, <1>6 DEF StartInv, NothingBeforeConnect, ConnectedFirst, Looping, Early
<1>7. CASE \/ LoopTest \/ CloseSocket \/ ResetSocket \/ EndNotice \/ NotConnected \/ PollData
           \/ ReceiveData \/ ReceiveEof \/ EofAssigned \/ ReceiveError \/ Received
           \/ HandlerReturns
  <2>1. pc \in Looping /\ pc' \in Looping /\ UNCHANGED connected
    BY <1>7 DEF LoopTest, CloseSocket, ResetSocket, EndNotice, NotConnected, PollData,
       ReceiveData, ReceiveEof, EofAssigned, ReceiveError, Received, HandlerReturns, MayCall,
       Callbacks, Closing, Looping, Labels, Early, Dead, historyVars
  <2> QED BY <1>6, <2>1
<1> QED BY <1>1, <1>2, <1>3, <1>4, <1>5, <1>7 DEF NetworkThread

LEMMA StartStep == IInv /\ [Next]_vars => StartInv'
<1> SUFFICES ASSUME IInv, [Next]_vars PROVE StartInv'
  OBVIOUS
<1>1. CASE NetworkThread \/ Owner \/ \E t \in Threads : Calls(t)
  BY <1>1, StartCalls, StartThread
<1> USE DEF IInv, StartInv, NothingBeforeConnect, ConnectedFirst, historyVars, sendVars,
     localVars
<1>2. CASE RemoteActs
  <2>1. peerState[Remote] # "none" /\ UNCHANGED consumed
    BY <1>2 DEF RemoteActs, PeerSends, PeerCloses, PeerResets
  <2> QED BY <1>2, <2>1 DEF RemoteActs
<1>3. ASSUME NEW f \in Fds, ForeignActs(f)
      PROVE  StartInv'
  BY <1>3 DEF ForeignActs, ForeignOpens, ForeignCloses
<1>4. CASE UNCHANGED vars
  BY <1>4 DEF vars, kernelVars
<1> QED BY <1>1, <1>2, <1>3, <1>4 DEF Next, Halted

-----------------------------------------------------------------------------
(* What was received *)

\* A step that moves no data, keeps the error and stays at its control point.
LEMMA DataFrame ==
    ASSUME IInv, UNCHANGED <<pc, socket_, size, delivered, consumed>>,
           ec_ => ec_', Ended => Ended'
    PROVE  DataInv'
BY DEF IInv, DataInv, ReceiveFacts, AllDelivered

\* The owner's calls and send_message take no data, and at most add an error.
LEMMA DataCalls ==
    IInv /\ (Owner \/ (\E t \in Threads : Calls(t) \/ Sending(t))) => DataInv'
<1> SUFFICES ASSUME IInv, Owner \/ (\E t \in Threads : Calls(t) \/ Sending(t))
             PROVE  DataInv'
  OBVIOUS
<1> USE DEF kernelVars, sendVars, localVars, historyVars
<1>0. "owner" \in Threads
  BY DEF Threads
<1>1. CASE Connect
  <2>1. pc' \in Dead \/ (pc' = "spawned" /\ socket_' = 0)
    BY <1>1 DEF Connect, IInv, StartInv, NothingBeforeConnect, Early, Dead
  <2> QED BY <2>1 DEF DataInv, ReceiveFacts, AllDelivered, Dead
<1>2. CASE Destroy
  BY <1>2, DataFrame DEF Destroy, Ended
<1>3. CASE Join
  BY <1>3 DEF Join, SocketAfterClose, DataInv, ReceiveFacts, AllDelivered
<1>4. ASSUME NEW t \in Threads, Disconnect(t) \/ SendChecked(t)
      PROVE  DataInv'
  BY <1>4, DataFrame DEF Disconnect, SendChecked, Ended
<1>5. ASSUME NEW t \in Threads, NEW empty \in BOOLEAN, SendRefused(t, empty)
      PROVE  DataInv'
  BY <1>5, DataFrame DEF SendRefused, Ended
<1>6. ASSUME NEW t \in Threads, NEW f \in Fds \cup {0}, SendPerformed(t, f)
      PROVE  DataInv'
  <2>1. ec_ => ec_'
    BY <1>6 DEF SendPerformed
  <2> QED BY <1>6, <2>1, DataFrame DEF SendPerformed, Ended
<1>7. ASSUME NEW t \in Threads, SendReported(t)
      PROVE  DataInv'
  BY <1>7, DataFrame DEF SendReported, Ended
<1> QED BY <1>0, <1>1, <1>2, <1>3, <1>4, <1>5, <1>6, <1>7 DEF Owner, Calls, Sending

\* What receive takes out of the socket the network thread delivers, unless it finds
\* an error, its own or one that send_message has left.
LEMMA DataThread == IInv /\ NetworkThread => DataInv'
<1> SUFFICES ASSUME IInv, NetworkThread PROVE DataInv'
  OBVIOUS
<1>0. /\ NothingBeforeConnect /\ ReceiveFacts /\ AllDelivered
      /\ consumed \in [Peers -> 0..MaxBytes] /\ consumed[Remote] \in Nat
      /\ size \in Nat /\ delivered \in Nat
  BY RemoteIsPeer, SocketsAssumption DEF IInv, StartInv, DataInv, TypeOK, SocketsTypeOK
<1> USE DEF kernelVars, sendVars, localVars, historyVars
<1>1. CASE Resolve \/ ConnectFails \/ \E f \in Fds : ConnectSucceeds(f)
  <2>1. pc' \in {"resolve_returned", "connect_returned", "socket_made"} /\ socket_' = 0
    BY <1>0, <1>1 DEF Resolve, ConnectFails, ConnectSucceeds, NothingBeforeConnect, Early
  <2> QED BY <2>1 DEF DataInv, ReceiveFacts, AllDelivered
<1>2. CASE SocketAssigned
  <2>1. /\ pc' = "connect_returned" /\ delivered' = 0 /\ consumed'[Remote] = 0
    BY <1>0, <1>2 DEF SocketAssigned, NothingBeforeConnect
  <2> QED BY <2>1 DEF DataInv, ReceiveFacts, AllDelivered
<1>3. CASE ErrorTest \/ LoopTest \/ EndNotice \/ NotConnected \/ PollData \/ HandlerReturns
  <2>1. /\ UNCHANGED <<socket_, delivered, consumed, ec_>>
        /\ pc \notin {"received"} \cup Dead
        /\ pc' \notin {"received", "eof", "eof_closed", "eof_reset"}
        /\ pc' = "receive" => socket_ # 0
    BY <1>3 DEF ErrorTest, LoopTest, EcKept, EndNotice, NotConnected, PollData,
       HandlerReturns, MayCall, Alive, Callbacks, Dead
  <2> QED BY <1>0, <2>1 DEF DataInv, ReceiveFacts, AllDelivered
<1>4. CASE CloseSocket \/ ResetSocket \/ ReceiveEof
  <2>1. /\ UNCHANGED <<delivered, consumed, ec_, peerState>>
        /\ pc \notin {"received"} \cup Dead
        /\ pc' \notin {"received", "receive"}
        /\ socket_' = socket_ \/ socket_' = 0
        /\ pc' = "eof_reset" => socket_' = 0
        /\ pc' \in {"eof", "eof_closed", "eof_reset"} => Ended
    BY <1>0, <1>4 DEF CloseSocket, ResetSocket, SocketAfterClose, ReceiveEof, Alive,
       Closing, Dead, ReceiveFacts, Ended
  <2> QED BY <1>0, <2>1 DEF DataInv, ReceiveFacts, AllDelivered, Ended
<1>5. CASE ReceiveData
  <2>1. /\ RecvSize(Remote) \in Nat /\ RecvSize(Remote) > 0
        /\ pc = "receive" /\ pc' = "received" /\ size' = RecvSize(Remote)
        /\ consumed'[Remote] = consumed[Remote] + RecvSize(Remote)
        /\ UNCHANGED <<socket_, delivered, ec_>> /\ socket_ # 0
    BY <1>0, <1>5, RecvTypes, RemoteIsPeer, SocketsAssumption DEF ReceiveData, ReceiveFacts,
       IInv
  <2>2. ~ec_ => delivered = consumed[Remote]
    BY <1>0, <2>1 DEF AllDelivered, Dead
  <2> QED BY <1>0, <2>1, <2>2 DEF DataInv, ReceiveFacts, AllDelivered
<1>6. CASE EofAssigned
  <2>1. /\ pc' = "received" /\ size' = 0 /\ socket_' = 0 /\ Ended'
    BY <1>0, <1>6 DEF EofAssigned, ReceiveFacts, Ended
  <2> QED BY <2>1 DEF DataInv, ReceiveFacts, AllDelivered
<1>7. CASE ReceiveError
  <2>1. /\ pc' = "received" /\ size' = 0 /\ ec_'
    BY <1>7 DEF ReceiveError
  <2> QED BY <2>1 DEF DataInv, ReceiveFacts, AllDelivered
<1>8. CASE Received
  <2>1. /\ pc = "received" /\ pc' \in {"on_disconnect", "on_data"}
        /\ UNCHANGED <<socket_, consumed, ec_>>
        /\ ~ec_ => delivered' = delivered + size
    BY <1>0, <1>8 DEF Received, MeansDisconnected
  <2> QED BY <1>0, <2>1 DEF DataInv, ReceiveFacts, AllDelivered, Dead
<1>9. CASE Sending("network")
  BY <1>9, DataCalls DEF Threads
<1> QED BY <1>1, <1>2, <1>3, <1>4, <1>5, <1>6, <1>7, <1>8, <1>9 DEF NetworkThread

LEMMA DataStep == IInv /\ [Next]_vars => DataInv'
<1> SUFFICES ASSUME IInv, [Next]_vars PROVE DataInv'
  OBVIOUS
<1>1. CASE NetworkThread \/ Owner \/ \E t \in Threads : Calls(t)
  BY <1>1, DataCalls, DataThread
<1>2. CASE RemoteActs
  <2>1. UNCHANGED consumed /\ (Ended => Ended')
    BY <1>2, RemoteIsPeer DEF RemoteActs, PeerSends, PeerCloses, PeerResets, Ended, IInv,
       TypeOK, SocketsTypeOK
  <2> QED BY <1>2, <2>1, DataFrame DEF RemoteActs, historyVars, localVars
<1>3. ASSUME NEW f \in Fds, ForeignActs(f)
      PROVE  DataInv'
  BY <1>3, DataFrame DEF ForeignActs, ForeignOpens, ForeignCloses, Ended, historyVars,
     localVars
<1>4. CASE UNCHANGED vars
  BY <1>4, DataFrame DEF vars, kernelVars, historyVars, localVars, Ended
<1> QED BY <1>1, <1>2, <1>3, <1>4 DEF Next, Halted

-----------------------------------------------------------------------------
(* The calls of on_disconnect_ *)

\* A step that forgets no notice and takes back no cause of one.
LEMMA NoticeFrame ==
    ASSUME IInv, UNCHANGED <<pc, socket_, connected>>, notices \subseteq notices',
           ~running_ => ~running_', ec_ => ec_', Ended => Ended',
           notices' = notices \/ ec_'
    PROVE  NoticeInv'
BY DEF IInv, NoticeInv, EndFacts, ClosedIsReported, NoticeHasCause, Ended

\* send_message calls on_disconnect_ only when it finds an error.
LEMMA NoticeCalls ==
    IInv /\ (Owner \/ (\E t \in Threads : Calls(t) \/ Sending(t))) => NoticeInv'
<1> SUFFICES ASSUME IInv, Owner \/ (\E t \in Threads : Calls(t) \/ Sending(t))
             PROVE  NoticeInv'
  OBVIOUS
<1>0. "owner" \in Threads /\ EndFacts /\ ClosedIsReported /\ NoticeHasCause
  BY DEF Threads, IInv, NoticeInv
<1> USE DEF kernelVars, sendVars, localVars, historyVars
<1>1. CASE Connect
  <2>1. /\ UNCHANGED <<notices, running_, ec_, peerState>>
        /\ pc' \in {"spawned", "terminated"}
    BY <1>1 DEF Connect
  <2> QED BY <1>0, <2>1 DEF NoticeInv, EndFacts, ClosedIsReported, NoticeHasCause, Callbacks
<1>2. CASE Destroy
  BY <1>2, NoticeFrame DEF Destroy, Ended
<1>3. CASE Join
  <2>1. socket_' = socket_ /\ UNCHANGED <<pc, notices, running_, ec_, peerState, connected>>
    BY <1>0, <1>3 DEF Join, SocketAfterClose, EndFacts
  <2> QED BY <2>1, NoticeFrame DEF Ended
<1>4. ASSUME NEW t \in Threads, Disconnect(t) \/ SendChecked(t)
      PROVE  NoticeInv'
  BY <1>4, NoticeFrame DEF Disconnect, SendChecked, Ended
<1>5. ASSUME NEW t \in Threads, NEW empty \in BOOLEAN, SendRefused(t, empty)
      PROVE  NoticeInv'
  BY <1>5, NoticeFrame DEF SendRefused, Ended
<1>6. ASSUME NEW t \in Threads, NEW f \in Fds \cup {0}, SendPerformed(t, f)
      PROVE  NoticeInv'
  <2>1. ec_ => ec_'
    BY <1>6 DEF SendPerformed
  <2> QED BY <1>6, <2>1, NoticeFrame DEF SendPerformed, Ended
<1>7. ASSUME NEW t \in Threads, SendReported(t)
      PROVE  NoticeInv'
  <2>1. notices \subseteq notices' /\ (notices' = notices \/ ec_')
    BY <1>7 DEF SendReported, Noticed
  <2> QED BY <1>7, <2>1, NoticeFrame DEF SendReported, Ended
<1> QED BY <1>0, <1>1, <1>2, <1>3, <1>4, <1>5, <1>6, <1>7 DEF Owner, Calls, Sending

\* The network thread calls it for an error or an end it has seen, or because the
\* loop is over, and for every close of its own before it goes on.
LEMMA NoticeThread == IInv /\ NetworkThread => NoticeInv'
<1> SUFFICES ASSUME IInv, NetworkThread PROVE NoticeInv'
  OBVIOUS
<1>0. /\ EndFacts /\ ClosedIsReported /\ NoticeHasCause /\ ReceiveFacts /\ ConnectedFirst
      /\ NothingBeforeConnect /\ size \in Nat
  BY SocketsAssumption DEF IInv, NoticeInv, DataInv, StartInv, TypeOK
<1>a. /\ notices \subseteq Noticed
      /\ socket_ = 0 => "closed" \in Noticed
  BY DEF Noticed
<1> USE DEF kernelVars, sendVars, localVars, historyVars
<1>1. CASE Resolve \/ ConnectFails
  <2>1. /\ pc' \in {"resolve_returned", "connect_returned"}
        /\ UNCHANGED <<notices, running_, peerState>> /\ (ec_ => ec_')
    BY <1>1 DEF Resolve, ConnectFails
  <2> QED BY <1>0, <2>1 DEF NoticeInv, EndFacts, ClosedIsReported, NoticeHasCause, Callbacks
<1>2. ASSUME NEW f \in Fds, ConnectSucceeds(f)
      PROVE  NoticeInv'
  <2>1. /\ pc' = "socket_made" /\ peerState[Remote] = "none"
        /\ UNCHANGED <<notices, running_, ec_>>
    BY <1>0, <1>2 DEF ConnectSucceeds, NothingBeforeConnect, Early
  <2> QED BY <1>0, <2>1 DEF NoticeInv, EndFacts, ClosedIsReported, NoticeHasCause, Callbacks
<1>3. CASE SocketAssigned
  BY <1>0, <1>3 DEF SocketAssigned, NoticeInv, EndFacts, ClosedIsReported, NoticeHasCause,
     Callbacks
<1>4. CASE ErrorTest
  <2>1. /\ pc' \in {"exited", "resolved", "on_connect"}
        /\ pc' = "on_connect" => socket_' # 0
        /\ UNCHANGED <<notices, running_, ec_, peerState>>
    BY <1>0, <1>4 DEF ErrorTest, ConnectedFirst
  <2> QED BY <1>0, <2>1 DEF NoticeInv, EndFacts, ClosedIsReported, NoticeHasCause, Callbacks
<1>5. CASE LoopTest
  BY <1>0, <1>5 DEF LoopTest, KeepsRunning, EcKept, NoticeInv, EndFacts, ClosedIsReported,
     NoticeHasCause, Callbacks
<1>6. CASE CloseSocket \/ ResetSocket
  <2>1. /\ pc' \in {"eof_closed", "eof_reset"} \/ (~running_' /\ pc' \in {"end_closed", "end_reset"})
        /\ pc' = "end_reset" => socket_' = 0
        /\ UNCHANGED <<notices, running_, ec_, peerState>>
    BY <1>0, <1>6 DEF CloseSocket, ResetSocket, SocketAfterClose, Closing, EndFacts
  <2> QED BY <1>0, <2>1 DEF NoticeInv, EndFacts, ClosedIsReported, NoticeHasCause, Callbacks
<1>7. CASE EndNotice
  <2>1. /\ pc' = "on_close" /\ socket_' = 0 /\ "closed" \in notices' /\ ~running_'
    BY <1>0, <1>7, <1>a DEF EndNotice, EndFacts
  <2> QED BY <2>1 DEF NoticeInv, EndFacts, ClosedIsReported, NoticeHasCause
<1>8. CASE NotConnected
  <2>1. connected
    BY <1>0, <1>8 DEF NotConnected, ConnectedFirst, Looping, Labels, Early, Dead
  <2>2. "closed" \in notices
    BY <1>0, <1>8, <2>1 DEF NotConnected, ClosedIsReported
  <2>3. /\ pc' = "on_disconnect" /\ "closed" \in notices'
        /\ UNCHANGED <<running_, ec_, peerState>>
    BY <1>8, <1>a, <2>2 DEF NotConnected
  <2> QED BY <1>0, <2>2, <2>3 DEF NoticeInv, EndFacts, ClosedIsReported, NoticeHasCause
<1>9. CASE PollData \/ ReceiveData \/ ReceiveEof
  <2>1. /\ pc' \in {"loop", "receive", "received", "eof"}
        /\ pc' = "loop" => socket_' # 0
        /\ UNCHANGED <<notices, running_, ec_, peerState>>
    BY <1>9 DEF PollData, ReceiveData, ReceiveEof
  <2> QED BY <1>0, <2>1 DEF NoticeInv, EndFacts, ClosedIsReported, NoticeHasCause, Callbacks
<1>10. CASE EofAssigned
  <2>1. pc' = "received" /\ Ended'
    BY <1>0, <1>10 DEF EofAssigned, ReceiveFacts, Ended
  <2> QED BY <2>1 DEF NoticeInv, EndFacts, ClosedIsReported, NoticeHasCause, Callbacks, Ended
<1>11. CASE ReceiveError
  <2>1. pc' = "received" /\ ec_'
    BY <1>11 DEF ReceiveError
  <2> QED BY <2>1 DEF NoticeInv, EndFacts, ClosedIsReported, NoticeHasCause, Callbacks
<1>12. CASE Received
  <2>1. UNCHANGED <<running_, ec_, peerState, socket_, connected>> /\ pc = "received"
    BY <1>12 DEF Received
  <2>2. CASE ec_ \/ size = 0
    <3>1. pc' = "on_disconnect" /\ notices' = Noticed
      BY <1>12, <2>2 DEF Received, MeansDisconnected
    <3>2. ec_ \/ Ended
      BY <1>0, <2>1, <2>2 DEF ReceiveFacts
    <3> QED BY <1>a, <2>1, <3>1, <3>2 DEF NoticeInv, EndFacts, ClosedIsReported,
         NoticeHasCause, Ended
  <2>3. CASE ~(ec_ \/ size = 0)
    <3>1. pc' = "on_data" /\ notices' = notices
      BY <1>12, <2>3 DEF Received, MeansDisconnected
    <3>2. socket_ # 0
      BY <1>0, <2>1, <2>3 DEF ReceiveFacts
    <3> QED BY <1>0, <2>1, <3>1, <3>2 DEF NoticeInv, EndFacts, ClosedIsReported,
         NoticeHasCause
  <2> QED BY <2>2, <2>3
<1>13. CASE HandlerReturns
  <2>1. /\ pc \in Callbacks /\ pc' = IF pc = "on_close" THEN "ended" ELSE "loop"
        /\ UNCHANGED <<notices, running_, ec_, peerState, socket_, connected>>
    BY <1>13 DEF HandlerReturns, MayCall
  <2> QED BY <1>0, <2>1 DEF NoticeInv, EndFacts, ClosedIsReported, NoticeHasCause, Callbacks
<1>14. CASE Sending("network")
  BY <1>14, NoticeCalls DEF Threads
<1> QED BY <1>1, <1>2, <1>3, <1>4, <1>5, <1>6, <1>7, <1>8, <1>9, <1>10, <1>11, <1>12, <1>13,
   <1>14 DEF NetworkThread

LEMMA NoticeStep == IInv /\ [Next]_vars => NoticeInv'
<1> SUFFICES ASSUME IInv, [Next]_vars PROVE NoticeInv'
  OBVIOUS
<1>1. CASE NetworkThread \/ Owner \/ \E t \in Threads : Calls(t)
  BY <1>1, NoticeCalls, NoticeThread
<1>2. CASE RemoteActs
  <2>1. Ended => Ended'
    BY <1>2, RemoteIsPeer DEF RemoteActs, PeerSends, PeerCloses, PeerResets, Ended, IInv,
       TypeOK, SocketsTypeOK
  <2> QED BY <1>2, <2>1, NoticeFrame DEF RemoteActs, historyVars
<1>3. ASSUME NEW f \in Fds, ForeignActs(f)
      PROVE  NoticeInv'
  BY <1>3, NoticeFrame DEF ForeignActs, ForeignOpens, ForeignCloses, Ended, historyVars
<1>4. CASE UNCHANGED vars
  BY <1>4, NoticeFrame DEF vars, kernelVars, historyVars, Ended
<1> QED BY <1>1, <1>2, <1>3, <1>4 DEF Next, Halted

-----------------------------------------------------------------------------
(* The theorems *)

LEMMA Invariance == Spec => []IInv
<1>1. IInv /\ [Next]_vars => IInv'
  BY TypeStep, SocketStep, StartStep, DataStep, NoticeStep DEF IInv
<1> QED BY <1>1, InvInit, PTL DEF Spec

\* However the threads interleave, in the window between ::close and the reset of
\* socket_ too: the connection's descriptor is the one the client knows, socket_
\* names it outside of that window, and the client never closes a descriptor that
\* other code has opened.
THEOREM SocketIsOwned == Spec => []SocketOwned
<1>1. IInv => SocketOwned
  BY DEF IInv, SocketInv
<1> QED BY <1>1, Invariance, PTL

\* send_message writes to a descriptor of other code only once the connection is
\* closed, and never from a handler, whatever the other thread does between its
\* check of socket_ and ::send.
THEOREM NoStrayWhileOpen == Spec => []StraysOnlyAfterClose
<1>1. IInv => StraysOnlyAfterClose
  BY DEF IInv, SocketInv
<1> QED BY <1>1, Invariance, PTL

\* The network thread neither goes on nor ends after a close of its own before it has
\* called on_disconnect_, although the close, the reset of socket_, the test of ec_
\* and the call are steps between which the owner's thread runs.
THEOREM ClosingIsReported == Spec => []ClosedIsReported
<1>1. IInv => ClosedIsReported
  BY DEF IInv, NoticeInv
<1> QED BY <1>1, Invariance, PTL

\* Every call of on_disconnect_, on either thread, has a cause: an error, the end of
\* the remote host's stream, or running_ being false.
THEOREM NoticesHaveCause == Spec => []NoticeHasCause
<1>1. IInv => NoticeHasCause
  BY DEF IInv, NoticeInv
<1> QED BY <1>1, Invariance, PTL

\* on_data_receive_ sees the bytes in order and without a hole, although ec_, which
\* decides whether they are dropped, is written by both threads.
THEOREM DataWithoutGap == Spec => NoGapInData
<1>1. IInv /\ [Next]_vars => [delivered' # delivered => delivered' = consumed[Remote]]_vars
  <2> SUFFICES ASSUME IInv, Next, delivered' # delivered
               PROVE  delivered' = consumed[Remote]
    OBVIOUS
  <2>1. Received
    BY DEF Next, NetworkThread, Owner, Calls, Sending, Halted, Connect, Destroy, Join,
       Disconnect, SendChecked, SendRefused, SendPerformed, SendReported, Resolve,
       ConnectFails, ConnectSucceeds, SocketAssigned, ErrorTest, LoopTest, CloseSocket,
       ResetSocket, EndNotice, NotConnected, PollData, ReceiveData, ReceiveEof, EofAssigned,
       ReceiveError, HandlerReturns, RemoteActs, ForeignActs, vars, historyVars
  <2>2. /\ pc = "received" /\ ~ec_ /\ size # 0 /\ delivered' = delivered + size
    BY <2>1 DEF Received, MeansDisconnected
  <2> QED BY <2>2 DEF IInv, DataInv, ReceiveFacts, AllDelivered, Dead
<1> QED BY <1>1, Invariance, PTL DEF Spec, NoGapInData

=============================================================================

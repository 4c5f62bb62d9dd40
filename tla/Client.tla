------------------------------- MODULE Client -------------------------------
(***************************************************************************)
(* yonaa::client (src/client.cpp): the network thread that connects and    *)
(* then alternates between handle_incoming_messages_ and a sleep, the      *)
(* owner's thread that calls connect, disconnect, send_message and         *)
(* ~client meanwhile, and the handlers called from both.                   *)
(*                                                                         *)
(* The threads share conn_ and ec_ without a lock, so every access to them *)
(* that the other thread can tell apart is a step: ::close and the reset   *)
(* of socket_ in connection::disconnect, an assignment of ec_ and the test *)
(* of ec_ after it, a close and the call of on_disconnect_ for it.         *)
(*                                                                         *)
(* A client object connects once in its life: a second connect() assigns   *)
(* to a joinable std::thread.  Remote names that one connection.           *)
(***************************************************************************)
EXTENDS Sockets

CONSTANT Remote     \* the connection to the server

ASSUME ClientAssumption == Peers = {Remote}

VARIABLES
    pc,         \* control point of the network thread, or how the process died
    owner,      \* the thread that owns the client: using, joining, gone
    step,       \* how far each thread is in send_message
    target,     \* the socket that send_message found open, while it is sending
    socket_fd,  \* the local of connection::connect, until it is assigned to socket_
    size,       \* data.size() of what receive returned
    running_, ec_,
    socket_,    \* conn_.socket_
    connected,  \* history: on_connect_ was called
    notices,    \* history: what conn_ was when on_disconnect_ was called
    delivered,  \* history: bytes passed to on_data_receive_
    netFailed,  \* history: resolving or connecting failed
    strayed     \* history: threads whose message went to a descriptor of other code

sendVars == <<step, target>>
localVars == <<socket_fd, size>>
historyVars == <<connected, notices, delivered, netFailed, strayed>>
vars == <<kernelVars, pc, owner, sendVars, localVars, running_, ec_, socket_, historyVars>>

Threads == {"owner", "network"}
Callbacks == {"on_connect", "on_data", "on_disconnect", "on_close"}
Dead == {"terminated", "exited"}
Labels ==
    {"none", "spawned", "resolve_returned", "resolved", "socket_made", "connect_returned",
     "loop", "messages", "receive", "eof", "eof_closed", "eof_reset", "received",
     "end", "end_closed", "end_reset", "ended"} \cup Callbacks \cup Dead

\* Between ::close and the reset of socket_ in connection::disconnect.
Closing == {"eof_closed", "end_closed"}

Alive == pc \notin Dead /\ owner # "gone"

\* The client's variables keep the types their C++ declarations give them, and
\* no more bytes are taken from the socket than the server may send.
TypeOK ==
    /\ SocketsTypeOK
    /\ pc \in Labels /\ owner \in {"using", "joining", "gone"}
    /\ step \in [Threads -> {"idle", "sending", "sent"}]
    /\ target \in [Threads -> Fds \cup {0}]
    /\ socket_fd \in Fds \cup {0} /\ size \in 0..MaxBufferSize
    /\ running_ \in BOOLEAN /\ ec_ \in BOOLEAN /\ socket_ \in Fds \cup {0}
    /\ connected \in BOOLEAN /\ notices \subseteq {"open", "closed"}
    /\ delivered \in Nat
    /\ netFailed \in BOOLEAN /\ strayed \subseteq Threads

\* running_ has no initializer and nothing ever sets it: it is what memory held.
Init ==
    /\ SocketsInit
    /\ pc = "none" /\ owner = "using"
    /\ step = [t \in Threads |-> "idle"] /\ target = [t \in Threads |-> 0]
    /\ socket_fd = 0 /\ size = 0
    /\ running_ \in BOOLEAN /\ ec_ = FALSE /\ socket_ = 0
    /\ connected = FALSE /\ notices = {} /\ delivered = 0
    /\ netFailed = FALSE /\ strayed = {}

-----------------------------------------------------------------------------
(* Helpers *)

\* on_disconnect_ is called.
Noticed == notices \cup {IF socket_ = 0 THEN "closed" ELSE "open"}

\* connection::disconnect: close the socket, if any, ...
SocketForgotten == fdTable
SocketClosed == Closed({socket_} \ {0})

\* ... and then forget its number.
SocketNotReset == socket_
SocketAfterClose == 0

\* The loop condition of network_thread_function_.
KeepsRunningForever == TRUE
KeepsRunning == running_

\* Nothing clears ec_ between two uses of it.
EcCleared == FALSE
EcKept == ec_

\* A thread is where it may call the client: the owner outside of its other
\* calls, the network thread inside a handler.
MayCall(t) ==
    /\ Alive /\ step[t] = "idle"
    /\ IF t = "owner" THEN owner = "using" ELSE pc \in Callbacks

-----------------------------------------------------------------------------
(* The owner's thread *)

Connect ==
    /\ MayCall("owner")
    /\ pc' = IF pc = "none" THEN "spawned" ELSE "terminated"
    /\ UNCHANGED <<kernelVars, owner, sendVars, localVars, running_, ec_, socket_,
                   historyVars>>

\* From the owner's thread or from inside a handler.
Disconnect(t) ==
    /\ MayCall(t)
    /\ running_' = FALSE
    /\ UNCHANGED <<kernelVars, pc, owner, sendVars, localVars, ec_, socket_, historyVars>>

\* ~client joins a joinable thread, and does not call disconnect().
Destroy ==
    /\ MayCall("owner")
    /\ owner' = IF pc = "none" THEN "gone" ELSE "joining"
    /\ UNCHANGED <<kernelVars, pc, sendVars, localVars, running_, ec_, socket_, historyVars>>

\* join() returns, and ~connection disconnects if conn_ is still open: no other
\* thread uses it any more.
Join ==
    /\ Alive /\ owner = "joining" /\ pc = "ended"
    /\ owner' = "gone"
    /\ fdTable' = SocketClosed /\ socket_' = SocketAfterClose
    /\ UNCHANGED <<foreign, peerState, sent, consumed, pc, sendVars, localVars, running_,
                   ec_, historyVars>>

-----------------------------------------------------------------------------
(* send_message, on the owner's thread or from a handler on the network thread *)

\* connection::send finds the buffer empty, or no open socket, ...
SendRefused(t, empty) ==
    /\ MayCall(t) /\ (empty \/ socket_ = 0)
    /\ ec_' = TRUE
    /\ step' = [step EXCEPT ![t] = "sent"]
    /\ UNCHANGED <<kernelVars, pc, owner, target, localVars, running_, socket_, historyVars>>

\* ... or goes on to ::send, while the other thread may close the socket.
SendChecked(t) ==
    /\ MayCall(t) /\ socket_ # 0
    /\ step' = [step EXCEPT ![t] = "sending"] /\ target' = [target EXCEPT ![t] = socket_]
    /\ UNCHANGED <<kernelVars, pc, owner, localVars, running_, ec_, socket_, historyVars>>

\* The unsynchronised read of socket_ for ::send: what the check saw, or now.
SendPerformed(t, f) ==
    /\ Alive /\ step[t] = "sending" /\ f \in {target[t], socket_}
    /\ \/ SendMayFail(f) /\ ec_' = TRUE /\ UNCHANGED strayed
       \/ SendMaySucceed(f) /\ UNCHANGED <<ec_, strayed>>
       \/ f # 0 /\ fdTable[f] = Foreign /\ strayed' = strayed \cup {t} /\ UNCHANGED ec_
    /\ step' = [step EXCEPT ![t] = "sent"] /\ target' = [target EXCEPT ![t] = 0]
    /\ UNCHANGED <<kernelVars, pc, owner, localVars, running_, socket_, connected, notices,
                   delivered, netFailed>>

\* The test of ec_ after connection::send, whoever has set it.
SendReported(t) ==
    /\ Alive /\ step[t] = "sent"
    /\ notices' = IF ec_ THEN Noticed ELSE notices
    /\ step' = [step EXCEPT ![t] = "idle"]
    /\ UNCHANGED <<kernelVars, pc, owner, target, localVars, running_, ec_, socket_,
                   connected, delivered, netFailed, strayed>>

-----------------------------------------------------------------------------
(* network_thread_function_ *)

\* resolve sets ec_ when it fails, and leaves it alone otherwise.
Resolve ==
    /\ Alive /\ pc = "spawned" /\ pc' = "resolve_returned"
    /\ \/ ec_' = TRUE /\ netFailed' = TRUE
       \/ UNCHANGED <<ec_, netFailed>>
    /\ UNCHANGED <<kernelVars, owner, sendVars, localVars, running_, socket_, connected,
                   notices, delivered, strayed>>

\* connection::connect with no endpoint that accepts.
ConnectFails ==
    /\ Alive /\ pc = "resolved" /\ pc' = "connect_returned"
    /\ ec_' = TRUE /\ netFailed' = TRUE
    /\ UNCHANGED <<kernelVars, owner, sendVars, localVars, running_, socket_, connected,
                   notices, delivered, strayed>>

\* create_connected_socket returned a socket ...
ConnectSucceeds(f) ==
    /\ Alive /\ pc = "resolved" /\ fdTable[f] = Nobody
    /\ fdTable' = [fdTable EXCEPT ![f] = Remote]
    /\ peerState' = [peerState EXCEPT ![Remote] = "open"]
    /\ socket_fd' = f /\ pc' = "socket_made"
    /\ UNCHANGED <<foreign, sent, consumed, owner, sendVars, size, running_, ec_, socket_,
                   historyVars>>

\* ... which connect assigns to socket_.
SocketAssigned ==
    /\ Alive /\ pc = "socket_made"
    /\ socket_' = socket_fd /\ socket_fd' = 0 /\ pc' = "connect_returned"
    /\ UNCHANGED <<kernelVars, owner, sendVars, size, running_, ec_, historyVars>>

\* The tests of ec_ after resolve and after connect, and the call of on_connect_:
\* an error that a send_message has left is taken for one of these.
ErrorTest ==
    /\ Alive /\ pc \in {"resolve_returned", "connect_returned"}
    /\ pc' = IF ec_ THEN "exited"
             ELSE IF pc = "resolve_returned" THEN "resolved" ELSE "on_connect"
    /\ connected' = (pc' = "on_connect")
    /\ UNCHANGED <<kernelVars, owner, sendVars, localVars, running_, ec_, socket_, notices,
                   delivered, netFailed, strayed>>

LoopTest ==
    /\ Alive /\ pc = "loop"
    /\ pc' = IF KeepsRunning THEN "messages" ELSE "end"
    /\ ec_' = EcKept
    /\ UNCHANGED <<kernelVars, owner, sendVars, localVars, running_, socket_, historyVars>>

\* connection::disconnect, called at the end of the stream and after the loop.
CloseSocket ==
    /\ Alive /\ pc \in {"eof", "end"}
    /\ fdTable' = SocketClosed
    /\ pc' = IF pc = "eof" THEN "eof_closed"
             ELSE IF socket_ # 0 THEN "end_closed" ELSE "end_reset"
    /\ UNCHANGED <<foreign, peerState, sent, consumed, owner, sendVars, localVars, running_,
                   ec_, socket_, historyVars>>

ResetSocket ==
    /\ Alive /\ pc \in Closing
    /\ socket_' = SocketAfterClose
    /\ pc' = IF pc = "eof_closed" THEN "eof_reset" ELSE "end_reset"
    /\ UNCHANGED <<kernelVars, owner, sendVars, localVars, running_, ec_, historyVars>>

\* The call of on_disconnect_ after the loop.
EndNotice ==
    /\ Alive /\ pc = "end_reset" /\ pc' = "on_close"
    /\ notices' = Noticed
    /\ UNCHANGED <<kernelVars, owner, sendVars, localVars, running_, ec_, socket_, connected,
                   delivered, netFailed, strayed>>

-----------------------------------------------------------------------------
(* handle_incoming_messages_ *)

\* connection::has_data_available
has_data_available == "readable" \in ssm_from_revents(Revents(socket_))

\* Not connected (any more): on_disconnect_ at every round of the loop.
NotConnected ==
    /\ Alive /\ pc = "messages" /\ socket_ = 0
    /\ notices' = Noticed /\ pc' = "on_disconnect"
    /\ UNCHANGED <<kernelVars, owner, sendVars, localVars, running_, ec_, socket_, connected,
                   delivered, netFailed, strayed>>

\* With data to read the function returns; without, it goes on to receive.
PollData ==
    /\ Alive /\ pc = "messages" /\ socket_ # 0
    /\ pc' = IF has_data_available THEN "loop" ELSE "receive"
    /\ UNCHANGED <<kernelVars, owner, sendVars, localVars, running_, ec_, socket_,
                   historyVars>>

\* ::recv returned data.
ReceiveData ==
    /\ Alive /\ pc = "receive" /\ Unread(Remote) > 0
    /\ consumed' = [consumed EXCEPT ![Remote] = @ + RecvSize(Remote)]
    /\ size' = RecvSize(Remote) /\ pc' = "received"
    /\ UNCHANGED <<fdTable, foreign, peerState, sent, owner, sendVars, socket_fd, running_,
                   ec_, socket_, historyVars>>

\* ::recv returned 0: the connection is going to close itself.
ReceiveEof ==
    /\ Alive /\ pc = "receive" /\ Unread(Remote) = 0 /\ peerState[Remote] = "fin"
    /\ pc' = "eof"
    /\ UNCHANGED <<kernelVars, owner, sendVars, localVars, running_, ec_, socket_,
                   historyVars>>

\* It has; ec_ is assigned an errno that nobody has set, and the buffer is empty.
EofAssigned ==
    /\ Alive /\ pc = "eof_reset" /\ pc' = "received"
    /\ ec_' \in BOOLEAN /\ size' = 0
    /\ UNCHANGED <<kernelVars, owner, sendVars, socket_fd, running_, socket_, historyVars>>

\* ::recv returned -1: the socket stays open.
ReceiveError ==
    /\ Alive /\ pc = "receive" /\ Unread(Remote) = 0 /\ peerState[Remote] = "rst"
    /\ ec_' = TRUE /\ size' = 0 /\ pc' = "received"
    /\ UNCHANGED <<kernelVars, owner, sendVars, socket_fd, running_, socket_, historyVars>>

\* Does handle_incoming_messages_ take what receive returned for a disconnection?
MeansErrorOnly(ec, n) == ec
MeansShort(ec, n) == ec \/ n < MaxBufferSize
MeansDisconnected(ec, n) == ec \/ n = 0

\* The test after receive, then on_disconnect_ or on_data_receive_.  With ec_ set
\* by an earlier failure, or by the other thread just now, the data is dropped.
Received ==
    /\ Alive /\ pc = "received"
    /\ IF MeansDisconnected(ec_, size)
       THEN notices' = Noticed /\ pc' = "on_disconnect" /\ delivered' = delivered
       ELSE notices' = notices /\ pc' = "on_data" /\ delivered' = delivered + size
    /\ size' = 0
    /\ UNCHANGED <<kernelVars, owner, sendVars, socket_fd, running_, ec_, socket_, connected,
                   netFailed, strayed>>

HandlerReturns ==
    /\ MayCall("network")
    /\ pc' = IF pc = "on_close" THEN "ended" ELSE "loop"
    /\ UNCHANGED <<kernelVars, owner, sendVars, localVars, running_, ec_, socket_,
                   historyVars>>

-----------------------------------------------------------------------------
(* The environment *)

RemoteActs ==
    /\ Alive /\ Attached(Remote)
    /\ PeerSends(Remote) \/ PeerCloses(Remote) \/ PeerResets(Remote)
    /\ UNCHANGED <<pc, owner, sendVars, localVars, running_, ec_, socket_, historyVars>>

ForeignActs(f) ==
    /\ Alive
    /\ ForeignOpens(f) \/ ForeignCloses(f)
    /\ UNCHANGED <<pc, owner, sendVars, localVars, running_, ec_, socket_, historyVars>>

\* The process is gone, or the client object is.
Halted == ~Alive /\ UNCHANGED vars

-----------------------------------------------------------------------------

\* A send_message that has been begun goes on.
Sending(t) == (\E f \in Fds \cup {0} : SendPerformed(t, f)) \/ SendReported(t)

NetworkThread ==
    \/ Resolve \/ ConnectFails \/ SocketAssigned \/ ErrorTest
    \/ \E f \in Fds : ConnectSucceeds(f)
    \/ LoopTest \/ CloseSocket \/ ResetSocket \/ EndNotice
    \/ NotConnected \/ PollData \/ ReceiveData \/ ReceiveEof \/ EofAssigned \/ ReceiveError
    \/ Received \/ HandlerReturns \/ Sending("network")

Owner == Connect \/ Destroy \/ Join \/ Sending("owner")

\* Calls that either thread may make.
Calls(t) ==
    \/ Disconnect(t) \/ SendChecked(t)
    \/ \E empty \in BOOLEAN : SendRefused(t, empty)

Next ==
    \/ NetworkThread \/ Owner \/ (\E t \in Threads : Calls(t))
    \/ RemoteActs \/ (\E f \in Fds : ForeignActs(f)) \/ Halted

Spec == Init /\ [][Next]_vars

\* The network thread is scheduled, ::send returns, a handler returns however many
\* messages it sends, and join() returns once the thread has ended.  The remote
\* host owes nothing.
FairSpec ==
    /\ Spec
    /\ WF_vars(NetworkThread) /\ SF_vars(HandlerReturns)
    /\ WF_vars(Sending("owner")) /\ WF_vars(Join)

-----------------------------------------------------------------------------
(* Safety *)

\* conn_ and the kernel agree, whichever of receive, the end of the loop and
\* ~connection closes the socket: the connection's descriptor is the one in
\* socket_, or is about to be assigned to it; socket_ names an open connection,
\* save between ::close and its reset; and nothing of other code's is closed.
SocketOwned ==
    /\ pc \notin Dead =>
         /\ \A f \in Fds : fdTable[f] = Remote =>
              f = IF pc = "socket_made" THEN socket_fd ELSE socket_
         /\ (socket_ # 0 /\ pc \notin Closing) => fdTable[socket_] = Remote
    /\ \A f \in foreign : fdTable[f] = Foreign

\* on_data_receive_ never sees bytes out of order or with a hole: once received
\* data was dropped because of an error, either thread's, nothing is delivered.
NoGapInData == [][delivered' # delivered => delivered' = consumed[Remote]]_vars

\* Once receive or the end of the loop has closed the connection, the network
\* thread neither goes on nor ends before it has called on_disconnect_.  (A close
\* of the remote host that receive never gets to see is not closed here.)
ClosedIsReported ==
    (connected /\ socket_ = 0 /\ pc \in {"loop", "messages", "ended"} \cup Callbacks)
        => "closed" \in notices

\* send_message may race with the network thread's close and write to a descriptor
\* that other code has got since.  It never does so while the connection is open,
\* and never from a handler on the network thread.
StraysOnlyAfterClose ==
    /\ strayed # {} => ~Attached(Remote)
    /\ "network" \notin strayed

\* on_disconnect_ is not called on a healthy connection: there is an error in ec_,
\* or the remote host has closed or reset, or the client is not to run.
NoticeHasCause ==
    notices # {} => ec_ \/ ~running_ \/ peerState[Remote] \in {"fin", "rst"}

-----------------------------------------------------------------------------
(* Liveness *)

\* disconnect() ends the network thread once the remote host has closed or reset
\* the connection too: a thread that waits in ::recv then wakes up.
DisconnectEndsThread ==
    (~running_ /\ pc # "none" /\ peerState[Remote] \in {"fin", "rst"})
        ~> (pc = "ended" \/ ~Alive)

-----------------------------------------------------------------------------
(* Statements of the repository that the code does not keep *)

\* client.hpp: handlers are called when the client receives data from the server
\* and when it disconnects: what arrives, data or an end, does not lie unread for
\* ever without a notice.
RemoteIsHeard ==
    (connected /\ RecvReady(Remote))
        ~> (~RecvReady(Remote) \/ notices # {} \/ ~running_ \/ ~Alive)

\* client.cpp: the process exits because the address could not be resolved or no
\* connection could be opened.
ExitMeansNoConnection == pc = "exited" => netFailed

=============================================================================

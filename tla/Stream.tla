------------------------------- MODULE Stream -------------------------------
(***************************************************************************)
(* What travels over open connections: connection::send, receive and       *)
(* has_data_available (connection.cpp), and a poll_group (poll.cpp) that   *)
(* watches them, used by one thread.  Sends are partial or block, receives *)
(* may only peek, system calls are interrupted, and ::poll may fail.       *)
(*                                                                         *)
(* The remote host's n-th byte is the number n.  The throwing overloads    *)
(* do the same with an error code of their own.  A connection is named by  *)
(* its descriptor; how it came to be open is the subject of Connection.    *)
(***************************************************************************)
EXTENDS Buffer, PollStatus

CONSTANTS
    Conns,          \* the connections
    Literals,       \* char arrays the user makes messages of
    Sizes,          \* values of receive's size parameter
    Config,         \* what poll_group was constructed with
    Window,         \* bound: bytes the kernel queues for a host that does not read
    MaxSent,        \* bound: bytes handed to ::send on one connection
    MaxArrived      \* bound: bytes the remote host sends on one connection

ASSUME StreamAssumption ==
    /\ Config \subseteq SocketStatus
    /\ \A n \in {Window, MaxSent, MaxArrived} : n \in Nat \ {0}
    /\ Sizes \subseteq Nat

\* A char array ends in its terminator and has no other.
ASSUME LiteralsAssumption ==
    \A literal \in Literals :
        /\ literal \in Seq(Nat) /\ Len(literal) > 0
        /\ \A i \in 1..Len(literal) : literal[i] = 0 <=> i = Len(literal)

VARIABLES
    is_connected,   \* connection::is_connected
    remote,         \* the other end: open, fin (closed) or rst (reset)
    reading,        \* the other end takes data out of its queue
    arrived,        \* bytes that came from the other end
    inbound,        \* those of them that are in the receive queue
    got,            \* history: bytes the user has received
    queued,         \* bytes in the send queue
    wire,           \* history: bytes that were put into the send queue
    call,           \* the operation under way
    ec,             \* the error code passed to the last operation: set or not
    pfds_,          \* poll_group's entries: revents by connection
    promised,       \* history: connections last reported readable
    touched         \* history: used since the last successful ::poll

remoteVars == <<remote, reading, arrived>>
pollVars == <<pfds_, promised, touched>>
vars == <<is_connected, remoteVars, inbound, got, queued, wire, call, ec, pollVars>>

NoCall == [op |-> "none"]
SendCalls ==
    [op : {"send"}, conn : Conns, data : Seq(Nat), bytes_sent : 0..MaxSent,
     before : Seq(Nat)]
ReceiveCalls == [op : {"receive"}, conn : Conns, size : Nat, peek : BOOLEAN]

\* The variables keep their types; no byte on the wire is the terminator of a
\* literal, and no send counts more bytes than its buffer has.
TypeOK ==
    /\ is_connected \in [Conns -> BOOLEAN]
    /\ remote \in [Conns -> {"open", "fin", "rst"}]
    /\ reading \in [Conns -> BOOLEAN]
    /\ arrived \in [Conns -> 0..MaxArrived]
    /\ inbound \in [Conns -> Seq(1..MaxArrived)]
    /\ got \in [Conns -> Seq(Nat)]
    /\ queued \in [Conns -> 0..Window]
    /\ wire \in [Conns -> Seq(Nat \ {0})]
    /\ call \in {NoCall} \cup SendCalls \cup ReceiveCalls
    /\ ec \in BOOLEAN
    /\ DOMAIN pfds_ \subseteq Conns /\ \A c \in DOMAIN pfds_ : pfds_[c] \subseteq Revent
    /\ promised \subseteq Conns /\ touched \subseteq Conns

Init ==
    /\ is_connected = [c \in Conns |-> TRUE]
    /\ remote = [c \in Conns |-> "open"]
    /\ reading = [c \in Conns |-> TRUE]
    /\ arrived = [c \in Conns |-> 0]
    /\ inbound = [c \in Conns |-> <<>>]
    /\ got = [c \in Conns |-> <<>>]
    /\ queued = [c \in Conns |-> 0]
    /\ wire = [c \in Conns |-> <<>>]
    /\ call = NoCall /\ ec = FALSE
    /\ pfds_ = [c \in {} |-> {}]
    /\ promised = {} /\ touched = {}

-----------------------------------------------------------------------------
(* Helpers *)

\* ::recv would return at once: data, end of stream, or an error.
RecvReady(c) == inbound[c] # <<>> \/ remote[c] # "open"

\* What ::poll writes into an entry that asks for `events`.
Revents(c, events) ==
    IF ~is_connected[c] THEN {"POLLNVAL"}
    ELSE {e \in Revent :
            \/ e = "POLLIN" /\ e \in events /\ RecvReady(c)
            \/ e = "POLLOUT" /\ e \in events /\ (queued[c] < Window \/ remote[c] = "rst")
            \/ e \in {"POLLERR", "POLLHUP"} /\ remote[c] = "rst"}

\* The operation under way returns: a failure is assigned to ec, and success leaves
\* ec as it was.
Fails == call' = NoCall /\ ec' = TRUE
Succeeds == call' = NoCall /\ UNCHANGED ec

\* The user passes a fresh error code, or the last one again.
PassesEc == ec' \in {ec, FALSE}

\* connection::disconnect on this end: unread data is lost.
Disconnects(c) ==
    /\ is_connected' = [is_connected EXCEPT ![c] = FALSE]
    /\ inbound' = [inbound EXCEPT ![c] = <<>>]
    /\ queued' = [queued EXCEPT ![c] = 0]

-----------------------------------------------------------------------------
(* connection::send *)

\* The condition of the loop over ::send.
MoreToSendOnce(bytes_sent, size) == FALSE
MoreToSendOrEqual(bytes_sent, size) == bytes_sent <= size
MoreToSend(bytes_sent, size) == bytes_sent < size

send(c, literal) ==
    LET data == buffer_from_array(literal) IN
    /\ call = NoCall
    /\ IF ~is_connected[c] \/ is_empty(data)
       THEN Fails
       ELSE /\ Len(wire[c]) + Len(data) <= MaxSent
            /\ call' = [op |-> "send", conn |-> c, data |-> data, bytes_sent |-> 0,
                        before |-> wire[c]]
            /\ PassesEc
    /\ UNCHANGED <<is_connected, remoteVars, inbound, got, queued, wire, pollVars>>

Sending(c) == call.op = "send" /\ call.conn = c

\* ::send queued the next n bytes, maybe fewer than it was given.
SendQueues(c, n) ==
    LET left == Len(call.data) - call.bytes_sent IN
    /\ Sending(c) /\ remote[c] # "rst"
    /\ n <= left /\ n <= Window - queued[c] /\ (n = 0 => left = 0)
    /\ queued' = [queued EXCEPT ![c] = @ + n]
    /\ wire' = [wire EXCEPT ![c] = @ \o SubSeq(call.data, call.bytes_sent + 1,
                                                call.bytes_sent + n)]
    /\ IF MoreToSend(call.bytes_sent + n, Len(call.data))
       THEN call' = [call EXCEPT !.bytes_sent = @ + n] /\ UNCHANGED ec
       ELSE Succeeds
    /\ UNCHANGED <<is_connected, remoteVars, inbound, got, pollVars>>

\* ::send returned -1: the connection was reset.  The connection stays open.
SendFails(c) ==
    /\ Sending(c) /\ remote[c] = "rst"
    /\ Fails
    /\ UNCHANGED <<is_connected, remoteVars, inbound, got, queued, wire, pollVars>>

\* ::send, waiting for room, was interrupted by a signal.
SendInterrupted(c) ==
    /\ Sending(c) /\ remote[c] # "rst" /\ queued[c] = Window
    /\ Fails
    /\ UNCHANGED <<is_connected, remoteVars, inbound, got, queued, wire, pollVars>>

-----------------------------------------------------------------------------
(* connection::receive *)

receive(c, size, peek) ==
    /\ call = NoCall
    /\ IF ~is_connected[c] \/ size = 0
       THEN Fails
       ELSE /\ call' = [op |-> "receive", conn |-> c, size |-> size, peek |-> peek]
            /\ PassesEc
    /\ UNCHANGED <<is_connected, remoteVars, inbound, got, queued, wire, pollVars>>

Receiving(c) == call.op = "receive" /\ call.conn = c

\* buffer(size) after ::recv has written the bytes b into it.
Filled(size, b) == [i \in 1..size |-> IF i <= Len(b) THEN b[i] ELSE 0]

\* The buffer that is returned.
receive_buffer_full(size, b) == Filled(size, b)
receive_buffer(size, b) == resize(Filled(size, b), Len(b))

\* Which results of ::recv make receive disconnect.
ClosesOn(recv_result) == recv_result = 0

Touch(c) ==
    /\ promised' = promised \ {c}
    /\ touched' = touched \cup {c}
    /\ UNCHANGED pfds_

ReceiveData(c) ==
    LET n == IF call.size < Len(inbound[c]) THEN call.size ELSE Len(inbound[c]) IN
    /\ Receiving(c) /\ n > 0
    /\ IF call.peek
       THEN UNCHANGED <<inbound, got>>
       ELSE /\ inbound' = [inbound EXCEPT ![c] = SubSeq(@, n + 1, Len(@))]
            /\ got' = [got EXCEPT ![c] =
                         @ \o receive_buffer(call.size, SubSeq(inbound[c], 1, n))]
    /\ Touch(c)
    /\ Succeeds
    /\ UNCHANGED <<is_connected, remoteVars, queued, wire>>

\* ::recv returned 0 at the end of the stream, or -1 after a reset or because a
\* signal interrupted its wait.  After 0, ec is assigned an errno nobody has set.
ReceiveEnds(c, recv_result) ==
    /\ Receiving(c) /\ inbound[c] = <<>>
    /\ (recv_result = 0) = (remote[c] = "fin")
    /\ IF ClosesOn(recv_result)
       THEN Disconnects(c)
       ELSE UNCHANGED <<is_connected, inbound, queued>>
    /\ call' = NoCall /\ ec' \in IF recv_result = 0 THEN BOOLEAN ELSE {TRUE}
    /\ Touch(c)
    /\ UNCHANGED <<remoteVars, got, wire>>

-----------------------------------------------------------------------------
(* connection::disconnect, connection::has_data_available *)

disconnect(c) ==
    /\ call = NoCall /\ is_connected[c]
    /\ Disconnects(c)
    /\ Touch(c)
    /\ UNCHANGED <<remoteVars, got, wire, call, ec>>

\* poll_socket: no status at all when ::poll reports nothing or fails.  Without a
\* connection it is asked about descriptor 0, and standard input answers.
poll_socket(c) ==
    {{}} \cup IF is_connected[c]
              THEN {ssm_from_revents(Revents(c, {"POLLIN", "POLLOUT"}))}
              ELSE {{"readable"}, {"writable"}}

has_data_available(c) ==
    /\ call = NoCall
    /\ \E status \in poll_socket(c) :
          IF "readable" \in status
          THEN promised' = promised \cup {c} /\ touched' = touched \ {c}
          ELSE promised' = promised \ {c} /\ UNCHANGED touched
    /\ UNCHANGED <<is_connected, remoteVars, inbound, got, queued, wire, call, ec, pfds_>>

-----------------------------------------------------------------------------
(* poll_group *)

\* revents of a new entry.
ReventsGarbage == {"POLLIN"}
ReventsZero == {}

add_socket(c) ==
    /\ call = NoCall /\ c \notin DOMAIN pfds_
    /\ pfds_' = [d \in DOMAIN pfds_ \cup {c} |->
                    IF d = c THEN ReventsZero ELSE pfds_[d]]
    /\ UNCHANGED <<is_connected, remoteVars, inbound, got, queued, wire, call, ec,
                   promised, touched>>

remove_socket(c) ==
    /\ call = NoCall /\ c \in DOMAIN pfds_
    /\ pfds_' = [d \in DOMAIN pfds_ \ {c} |-> pfds_[d]]
    /\ UNCHANGED <<is_connected, remoteVars, inbound, got, queued, wire, call, ec,
                   promised, touched>>

\* The entries with any revents are returned, readable ones among them.
Reported(entries) == {c \in DOMAIN entries : "readable" \in ssm_from_revents(entries[c])}

poll ==
    LET entries == [c \in DOMAIN pfds_ |-> Revents(c, pfd_config(Config))] IN
    /\ call = NoCall
    /\ pfds_' = entries
    /\ promised' = Reported(entries)
    /\ touched' = {}
    /\ UNCHANGED <<is_connected, remoteVars, inbound, got, queued, wire, call, ec>>

\* The result of ::poll is not looked at: when it fails, the old revents are
\* reported again, unless the kernel cleared them first.
poll_fails ==
    /\ call = NoCall
    /\ pfds_' \in {pfds_, [c \in DOMAIN pfds_ |-> {}]}
    /\ promised' = Reported(pfds_')
    /\ UNCHANGED <<is_connected, remoteVars, inbound, got, queued, wire, call, ec,
                   touched>>

-----------------------------------------------------------------------------
(* The remote hosts *)

RemoteSends(c) ==
    /\ is_connected[c] /\ remote[c] = "open" /\ arrived[c] < MaxArrived
    /\ arrived' = [arrived EXCEPT ![c] = @ + 1]
    /\ inbound' = [inbound EXCEPT ![c] = Append(@, arrived[c] + 1)]
    /\ UNCHANGED <<is_connected, remote, reading, got, queued, wire, call, ec, pollVars>>

RemoteReads(c) ==
    /\ reading[c] /\ queued[c] > 0
    /\ queued' = [queued EXCEPT ![c] = @ - 1]
    /\ UNCHANGED <<is_connected, remoteVars, inbound, got, wire, call, ec, pollVars>>

RemoteStopsReading(c) ==
    /\ reading[c]
    /\ reading' = [reading EXCEPT ![c] = FALSE]
    /\ UNCHANGED <<is_connected, remote, arrived, inbound, got, queued, wire, call, ec,
                   pollVars>>

\* The other end closes, or resets the connection, also because data reached it
\* after it had closed.
RemoteEnds(c, s) ==
    /\ is_connected[c] /\ <<remote[c], s>> \in {<<"open", "fin">>, <<"open", "rst">>,
                                                <<"fin", "rst">>}
    /\ remote' = [remote EXCEPT ![c] = s]
    /\ UNCHANGED <<is_connected, reading, arrived, inbound, got, queued, wire, call, ec,
                   pollVars>>

-----------------------------------------------------------------------------

SendSteps ==
    \E c \in Conns : (\E n \in 0..Window : SendQueues(c, n)) \/ SendFails(c)

Next ==
    \/ SendSteps
    \/ \E c \in Conns :
          \/ \E literal \in Literals : send(c, literal)
          \/ SendInterrupted(c)
          \/ \E size \in Sizes, peek \in BOOLEAN : receive(c, size, peek)
          \/ ReceiveData(c) \/ ReceiveEnds(c, 0) \/ ReceiveEnds(c, -1)
          \/ disconnect(c) \/ has_data_available(c)
          \/ add_socket(c) \/ remove_socket(c)
          \/ RemoteSends(c) \/ RemoteReads(c) \/ RemoteStopsReading(c)
          \/ RemoteEnds(c, "fin") \/ RemoteEnds(c, "rst")
    \/ poll \/ poll_fails

Spec == Init /\ [][Next]_vars

\* A thread in ::send is scheduled when ::send can return, and a host that reads
\* takes what is queued for it.  No signal is owed to anyone, nor any data.
FairSpec ==
    /\ Spec
    /\ WF_vars(SendSteps)
    /\ \A c \in Conns : WF_vars(RemoteReads(c))

-----------------------------------------------------------------------------
(* Properties *)

\* A send that reports no error has put its whole buffer on the wire, in order
\* and once, behind what was there, however ::send cut it up.
SentWhole ==
    [][(call.op = "send" /\ call' = NoCall /\ ~ec')
          => wire'[call.conn] = call.before \o call.data]_vars

Sent(c) == [n \in 1..arrived[c] |-> n]

\* The user gets the remote host's bytes in order, each once and no others, and
\* what it has not got is still in the queue, peeking and failing calls included.
ReceivedInOrder ==
    \A c \in Conns :
        /\ is_connected[c] => got[c] \o inbound[c] = Sent(c)
        /\ Len(got[c]) <= arrived[c] /\ got[c] = SubSeq(Sent(c), 1, Len(got[c]))

\* When receive closes the connection and reports no error, the user has got every
\* byte that the remote host has sent, however the receives and peeks cut them up.
CleanEndIsComplete ==
    [][\A c \in Conns :
         (Receiving(c) /\ is_connected[c] /\ ~is_connected'[c] /\ ~ec')
            => got'[c] = Sent(c)]_vars

\* A connection reported readable, by has_data_available, by poll or again by a
\* poll that failed, can be received from without blocking, unless it was used
\* since the last successful ::poll.
PromisesKept ==
    \A c \in promised \ touched : is_connected[c] => RecvReady(c)

\* send returns as long as the remote host reads: a host that does not can hold
\* up the calling thread for ever.
SendReturns == \A c \in Conns : Sending(c) ~> (~Sending(c) \/ ~reading[c])

=============================================================================

------------------------------ MODULE Sockets ------------------------------
(***************************************************************************)
(* The operating system's side of yonaa: the process's descriptor table    *)
(* and the TCP connections behind it, as the calls ::poll, ::recv, ::send  *)
(* and ::close in detail/poll.cpp, connection.cpp and socket_ops.cpp see   *)
(* them.  Everything here is external to the repository except the         *)
(* definitions that stand for a call of the library's own wrappers.        *)
(*                                                                         *)
(* A member of Peers is one TCP connection a remote host opens; a host     *)
(* that reconnects is another member.  Bytes are counted, not stored: byte *)
(* n of a peer is the n-th it sent, so an interval of counts stands for a  *)
(* run of bytes.                                                           *)
(***************************************************************************)
EXTENDS Integers, FiniteSets, PollStatus

CONSTANTS
    Peers,          \* TCP connections the remote hosts may open
    Fds,            \* descriptors the process can still allocate
    MaxBytes,       \* bound: the bytes one peer sends
    MaxBufferSize,  \* max_buffer_size: the most one receive() takes
    Nobody,         \* content of a descriptor that is not open
    Foreign         \* content of a descriptor opened by code outside yonaa

\* Descriptor 0 is standard input, and the library uses 0 for "no socket".
ASSUME SocketsAssumption ==
    /\ 0 \notin Fds
    /\ MaxBytes \in Nat
    /\ MaxBufferSize \in Nat \ {0}
    /\ Nobody \notin Peers /\ Foreign \notin Peers /\ Nobody # Foreign

VARIABLES
    fdTable,    \* what each descriptor refers to
    foreign,    \* descriptors that code outside yonaa believes it owns
    peerState,  \* none, open, fin (the peer closed) or rst (reset)
    sent,       \* bytes each peer has sent
    consumed    \* bytes of each peer taken out of the kernel by ::recv

kernelVars == <<fdTable, foreign, peerState, sent, consumed>>

PeerStates == {"none", "open", "fin", "rst"}

SocketsTypeOK ==
    /\ fdTable \in [Fds -> Peers \cup {Nobody, Foreign}]
    /\ foreign \subseteq Fds
    /\ peerState \in [Peers -> PeerStates]
    /\ sent \in [Peers -> 0..MaxBytes]
    /\ consumed \in [Peers -> 0..MaxBytes]

SocketsInit ==
    /\ fdTable = [f \in Fds |-> Nobody]
    /\ foreign = {}
    /\ peerState = [p \in Peers |-> "none"]
    /\ sent = [p \in Peers |-> 0]
    /\ consumed = [p \in Peers |-> 0]

-----------------------------------------------------------------------------
(* Queries *)

Unread(p) == sent[p] - consumed[p]

\* ::recv would return at once: data, end of stream, or an error.
RecvReady(p) == Unread(p) > 0 \/ peerState[p] # "open"

\* Bytes in the buffer that connection::receive returns: it is resized to what
\* ::recv put into the max_buffer_size bytes it was given.
RecvSizeFull(p) == MaxBufferSize
RecvSize(p) == IF Unread(p) < MaxBufferSize THEN Unread(p) ELSE MaxBufferSize

\* revents ::poll reports for descriptor f when POLLIN is asked for.
Revents(f) ==
    LET o == fdTable[f] IN
    {e \in {"POLLIN", "POLLERR", "POLLHUP", "POLLNVAL"} :
        \/ e = "POLLNVAL" /\ o = Nobody
        \/ e = "POLLIN" /\ (o = Foreign \/ (o \in Peers /\ RecvReady(o)))
        \/ e \in {"POLLERR", "POLLHUP"} /\ o \in Peers /\ peerState[o] = "rst"}

\* May ::send of a non-empty buffer on descriptor f fail (succeed)?  A peer that
\* only closed its side takes the first segment and answers it with a reset.
SendMayFail(f) ==
    f # 0 => (fdTable[f] \in Peers => peerState[fdTable[f]] # "open")

SendMaySucceed(f) ==
    f # 0 /\ fdTable[f] \in Peers /\ peerState[fdTable[f]] # "rst"

\* The descriptor table after ::shutdown and ::close of each descriptor in S:
\* whatever the descriptor refers to by then is what gets closed.
Closed(S) == [f \in Fds |-> IF f \in S THEN Nobody ELSE fdTable[f]]

-----------------------------------------------------------------------------
(* What remote hosts and the rest of the process do on their own *)

\* The kernel still has a local end for p's connection.
Attached(p) == \E f \in Fds : fdTable[f] = p

PeerSends(p) ==
    /\ peerState[p] = "open" /\ sent[p] < MaxBytes
    /\ sent' = [sent EXCEPT ![p] = @ + 1]
    /\ UNCHANGED <<fdTable, foreign, peerState, consumed>>

PeerCloses(p) ==
    /\ peerState[p] = "open"
    /\ peerState' = [peerState EXCEPT ![p] = "fin"]
    /\ UNCHANGED <<fdTable, foreign, sent, consumed>>

PeerResets(p) ==
    /\ peerState[p] \in {"open", "fin"}
    /\ peerState' = [peerState EXCEPT ![p] = "rst"]
    /\ UNCHANGED <<fdTable, foreign, sent, consumed>>

ForeignOpens(f) ==
    /\ fdTable[f] = Nobody
    /\ fdTable' = [fdTable EXCEPT ![f] = Foreign]
    /\ foreign' = foreign \cup {f}
    /\ UNCHANGED <<peerState, sent, consumed>>

ForeignCloses(f) ==
    /\ f \in foreign
    /\ fdTable' = Closed({f})
    /\ foreign' = foreign \ {f}
    /\ UNCHANGED <<peerState, sent, consumed>>

=============================================================================

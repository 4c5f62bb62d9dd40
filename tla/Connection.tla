---------------------------- MODULE Connection ----------------------------
(***************************************************************************)
(* connection (connection.cpp) and acceptor (acceptor.cpp) as owners of    *)
(* descriptors, with the loops of create_connected_socket and              *)
(* create_listening_socket (socket_ops.cpp) that try one endpoint after    *)
(* another.  Objects are constructed, moved, and destroyed by the user's   *)
(* code, which also opens descriptors of its own.  Descriptor 0 takes part:*)
(* a process may be started with standard input closed.                    *)
(*                                                                         *)
(* What travels over a connection is the subject of Stream.                *)
(***************************************************************************)
EXTENDS Endpoint

CONSTANTS
    Conns,          \* storage for connection objects
    Acceptor,       \* the acceptor object
    MaxFd,          \* bound: the largest descriptor
    AddrInfos,      \* what getaddrinfo may answer: lists of addrinfo records
    LocalAddr,      \* native address ::getsockname reports, by family
    RemoteAddr      \* native addresses of hosts that connect to the acceptor

Fds == 0..MaxFd
Objects == Conns \cup {Acceptor}

\* Names of Handles for a descriptor that no object holds.
NotHeld == {"free", "other", "lost"}

ASSUME ConnectionAssumption ==
    /\ Acceptor \notin Conns
    /\ MaxFd \in Nat \ {0}
    /\ Objects \cap NotHeld = {}

\* What the kernel and getaddrinfo fill in is an address of a family yonaa knows.
NativeAddr == {a \in Seq(Int) : Len(a) > 0 /\ a[1] \in {AF_INET, AF_INET6}}

ASSUME AddressAssumption ==
    /\ AddrInfos \subseteq Seq([ai_protocol : {0, IPPROTO_TCP}, ai_addr : NativeAddr])
    /\ LocalAddr \in [{AF_INET, AF_INET6} -> NativeAddr]
    /\ RemoteAddr \subseteq NativeAddr

VARIABLES
    fdTable,            \* closed, other (not yonaa's), unconnected, stream, listener
    alive,              \* objects whose lifetime has begun and not ended
    socket_, local_endpoint_, remote_endpoint_,     \* the members of each object
    call,               \* endpoints a connect or open under way has still to try
    unopened,           \* history: an operation left its object closed without an error
    lapses              \* history: ways in which a descriptor was lost

objectVars == <<alive, socket_, local_endpoint_, remote_endpoint_>>
vars == <<fdTable, objectVars, call, unopened, lapses>>

Kinds == {"closed", "other", "unconnected", "stream", "listener"}
Endpoints == {endpoint} \cup [protocol_ : {0, IPPROTO_TCP}, storage_ : Seq(Int)]

\* The members keep the types their C++ declarations give them; socket_ is a
\* descriptor number and never the -1 of a failed system call.
TypeOK ==
    /\ fdTable \in [Fds -> Kinds]
    /\ alive \subseteq Objects
    /\ socket_ \in [Objects -> Fds]
    /\ local_endpoint_ \in [Objects -> Endpoints]
    /\ remote_endpoint_ \in [Objects -> Endpoints]
    /\ call \in [Objects -> Seq(Endpoints)]
    /\ unopened \in BOOLEAN
    /\ lapses \subseteq {"attempt", "overwrite", "zero"}

Init ==
    /\ \E stdin \in {"closed", "other"} :
          fdTable = [f \in Fds |-> IF f = 0 THEN stdin ELSE "closed"]
    /\ alive = {}
    /\ socket_ = [o \in Objects |-> 0]
    /\ local_endpoint_ = [o \in Objects |-> endpoint]
    /\ remote_endpoint_ = [o \in Objects |-> endpoint]
    /\ call = [o \in Objects |-> <<>>]
    /\ unopened = FALSE
    /\ lapses = {}

-----------------------------------------------------------------------------
(* Helpers *)

\* The kernel hands out the lowest descriptor that is free.
FreeFds == {f \in Fds : fdTable[f] = "closed"}
NewFd == CHOOSE f \in FreeFds : \A g \in FreeFds : f <= g

\* connection::is_connected and acceptor::is_open
is_open(o) == socket_[o] # 0

Idle(o) == o \in alive /\ call[o] = <<>>

\* get_endpoint: the result of ::getsockname or ::getpeername is not checked, and
\* when the call fails the storage it should have filled is used as it is.
get_endpoint(addr) == from_native_address(IPPROTO_TCP, addr, Len(addr))
get_endpoint_failed == get_endpoint(UninitializedStorage)

\* close_socket
close_socket_shutdown_only(f) == fdTable
close_socket(f) == [fdTable EXCEPT ![f] = "closed"]

\* A lapse of kind k if condition b holds.
Lapse(k, b) == IF b THEN lapses \cup {k} ELSE lapses

\* The members that disconnect(), close() and a move leave behind.
EndpointKept(e) == e
EndpointAfterClose(e) == endpoint

SocketKept(s) == s
SocketAfterMove(s) == 0

\* The members of o become s, le and re.
Assigned(o, s, le, re) ==
    /\ socket_' = [socket_ EXCEPT ![o] = s]
    /\ local_endpoint_' = [local_endpoint_ EXCEPT ![o] = le]
    /\ remote_endpoint_' = [remote_endpoint_ EXCEPT ![o] = re]

\* An operation returns, with ec set or not and with s in its object's socket_.
Returned(ec, s) == unopened' = (unopened \/ (~ec /\ s = 0))

-----------------------------------------------------------------------------
(* connection::connect and acceptor::open, on what resolve returned *)

\* ec after connect or open with nothing to try.
EmptyListIgnored == FALSE
EmptyListError == TRUE

Begin(o, target_info) ==
    /\ Idle(o)
    /\ call' = [call EXCEPT ![o] = resolve(target_info)]
    /\ IF target_info = <<>> THEN Returned(EmptyListError, socket_[o]) ELSE UNCHANGED unopened
    /\ UNCHANGED <<fdTable, objectVars, lapses>>

Trying(o) == o \in alive /\ call[o] # <<>>

\* `continue`: on to the next endpoint, or return 0, which is an error.
TryNext(o) ==
    /\ call' = [call EXCEPT ![o] = Tail(@)]
    /\ IF Tail(call[o]) = <<>> THEN Returned(TRUE, socket_[o]) ELSE UNCHANGED unopened

\* ::socket returned -1, for want of a descriptor or for the family.
TrySkips(o) ==
    /\ Trying(o)
    /\ TryNext(o)
    /\ UNCHANGED <<fdTable, objectVars, lapses>>

\* ::connect, setsockopt, ::bind or ::listen returned -1: nobody closes the socket.
TryFails(o) ==
    /\ Trying(o) /\ FreeFds # {}
    /\ fdTable' = [fdTable EXCEPT ![NewFd] = "unconnected"]
    /\ lapses' = Lapse("attempt", TRUE)
    /\ TryNext(o)
    /\ UNCHANGED objectVars

\* What the kernel names the two ends of the new socket.  The remote host may
\* have reset the connection by the time ::getpeername asks.
LocalEnd(e) == get_endpoint(LocalAddr[family(e)])
RemoteEnds(o, e) ==
    IF o = Acceptor THEN {remote_endpoint_[o]}
    ELSE {get_endpoint(e.storage_), get_endpoint_failed}

\* A socket with number 0 is taken for failure; connect then reports an errno
\* that no call has set, open always an error.
TrySucceeds(o) ==
    /\ Trying(o) /\ FreeFds # {}
    /\ fdTable' = [fdTable EXCEPT ![NewFd] = IF o = Acceptor THEN "listener" ELSE "stream"]
    /\ call' = [call EXCEPT ![o] = <<>>]
    /\ IF NewFd = 0
       THEN /\ \E ec \in IF o = Acceptor THEN {TRUE} ELSE BOOLEAN : Returned(ec, socket_[o])
            /\ lapses' = Lapse("zero", TRUE)
            /\ UNCHANGED objectVars
       ELSE /\ \E re \in RemoteEnds(o, Head(call[o])) :
                  Assigned(o, NewFd, LocalEnd(Head(call[o])), re)
            /\ Returned(FALSE, NewFd)
            /\ lapses' = Lapse("overwrite", is_open(o))
            /\ UNCHANGED alive

-----------------------------------------------------------------------------
(* connection::disconnect and acceptor::close; construction and destruction *)

\* Both return at once when nothing is open.
disconnect(o) ==
    /\ Idle(o) /\ is_open(o)
    /\ fdTable' = close_socket(socket_[o])
    /\ Assigned(o, 0, EndpointAfterClose(local_endpoint_[o]),
                EndpointAfterClose(remote_endpoint_[o]))
    /\ UNCHANGED <<alive, call, unopened, lapses>>

Construct(o) ==
    /\ o \notin alive
    /\ alive' = alive \cup {o}
    /\ Assigned(o, 0, endpoint, endpoint)
    /\ UNCHANGED <<fdTable, call, unopened, lapses>>

Destroy(o) ==
    /\ Idle(o)
    /\ alive' = alive \ {o}
    /\ fdTable' = IF is_open(o) THEN close_socket(socket_[o]) ELSE fdTable
    /\ Assigned(o, 0, endpoint, endpoint)
    /\ UNCHANGED <<call, unopened, lapses>>

\* Move construction and move assignment, onto itself too.  Neither closes what
\* the target held.
Move(to, from) ==
    /\ Idle(from) /\ (Idle(to) \/ to \notin alive)
    /\ alive' = alive \cup {to}
    /\ socket_' = [[socket_ EXCEPT ![to] = socket_[from]]
                        EXCEPT ![from] = SocketAfterMove(socket_[from])]
    /\ local_endpoint_' = [[local_endpoint_ EXCEPT ![to] = local_endpoint_[from]]
                        EXCEPT ![from] = endpoint]
    /\ remote_endpoint_' = [[remote_endpoint_ EXCEPT ![to] = remote_endpoint_[from]]
                        EXCEPT ![from] = endpoint]
    /\ lapses' = Lapse("overwrite", to \in alive /\ is_open(to))
    /\ UNCHANGED <<fdTable, call, unopened>>

-----------------------------------------------------------------------------
(* acceptor::accept, its result moved into a new or an existing connection *)

\* What ::accept may return, and the test for its failure.
AcceptReturns == {-1} \cup (IF FreeFds = {} THEN {} ELSE {NewFd})
AcceptReturnedZero(fd) == fd = 0
AcceptReturnedError(fd) == fd = -1

\* The overload with an error code returns a connection() on error, ...
AcceptFails(c) ==
    /\ Assigned(c, 0, endpoint, endpoint)
    /\ alive' = alive \cup {c}
    /\ lapses' = Lapse("overwrite", c \in alive /\ is_open(c))
    /\ Returned(TRUE, 0)
    /\ UNCHANGED fdTable

\* ... the other one throws, and c stays as it is.
AcceptThrows(c) ==
    /\ Returned(TRUE, socket_[c])
    /\ UNCHANGED <<fdTable, objectVars, lapses>>

\* connection::from_native_socket does not mind a socket with number 0.
AcceptSucceeds(c, fd, addr) ==
    LET remote == from_native_address(local_endpoint_[Acceptor].protocol_, addr,
                                      Len(addr)) IN
    /\ fdTable' = [fdTable EXCEPT ![fd] = "stream"]
    /\ Assigned(c, fd, LocalEnd(remote), remote)
    /\ alive' = alive \cup {c}
    /\ lapses' = Lapse("overwrite", c \in alive /\ is_open(c))
                    \cup Lapse("zero", fd = 0)
    /\ Returned(FALSE, fd)

accept(c) ==
    /\ Idle(Acceptor) /\ (Idle(c) \/ c \notin alive)
    /\ IF ~is_open(Acceptor)
       THEN AcceptFails(c) \/ AcceptThrows(c)
       ELSE \E fd \in AcceptReturns :
               IF AcceptReturnedError(fd)
               THEN AcceptFails(c) \/ AcceptThrows(c)
               ELSE \E addr \in RemoteAddr : AcceptSucceeds(c, fd, addr)
    /\ UNCHANGED call

-----------------------------------------------------------------------------
(* The rest of the process *)

OtherOpens ==
    /\ FreeFds # {}
    /\ fdTable' = [fdTable EXCEPT ![NewFd] = "other"]
    /\ UNCHANGED <<objectVars, call, unopened, lapses>>

OtherCloses(f) ==
    /\ fdTable[f] = "other"
    /\ fdTable' = [fdTable EXCEPT ![f] = "closed"]
    /\ UNCHANGED <<objectVars, call, unopened, lapses>>

-----------------------------------------------------------------------------

Next ==
    \/ \E o \in Objects :
          \/ \E target_info \in AddrInfos : Begin(o, target_info)
          \/ TrySkips(o) \/ TryFails(o) \/ TrySucceeds(o)
          \/ disconnect(o) \/ Construct(o) \/ Destroy(o)
    \/ \E c, d \in Conns : Move(c, d)
    \/ \E c \in Conns : accept(c)
    \/ OtherOpens
    \/ \E f \in Fds : OtherCloses(f)

Spec == Init /\ [][Next]_vars

-----------------------------------------------------------------------------
(* Properties *)

\* No two objects ever hold the same socket, and what an object holds is open and
\* of its own kind, whatever was moved, overwritten or lost before: so close() and
\* the destructors close neither another object's socket nor a descriptor of other
\* code.
SocketsHeldOnce ==
    \A o \in alive : is_open(o) =>
        /\ fdTable[socket_[o]] = IF o = Acceptor THEN "listener" ELSE "stream"
        /\ \A p \in alive \ {o} : socket_[p] # socket_[o]

\* The endpoints tell whether there is a connection, as the tests of connection
\* and acceptor assume when they compare them with endpoint(): the local one
\* always, the remote one unless ::getpeername failed, and unless a socket got
\* the number 0.
EndpointsTellConnection ==
    "zero" \notin lapses =>
        \A o \in alive :
            /\ EqualOutcomes(local_endpoint_[o], endpoint) = {~is_open(o)}
            /\ ~is_open(o) => EqualOutcomes(remote_endpoint_[o], endpoint) = {TRUE}
            /\ (is_open(o) /\ o # Acceptor)
                 => \/ EqualOutcomes(remote_endpoint_[o], endpoint) = {FALSE}
                    \/ remote_endpoint_[o] = get_endpoint_failed

\* connect, open and accept report an error whenever they leave the object
\* without a socket, the case of descriptor 0 excepted.
NoErrorMeansConnected == unopened => "zero" \in lapses

\* Whoever holds descriptor f, in the terms of Handles; "lost" is an open socket
\* that no object knows of.
HolderOf(f) ==
    CASE fdTable[f] = "closed" -> "free"
      [] fdTable[f] = "other" -> "other"
      [] \E o \in alive : is_open(o) /\ socket_[o] = f ->
            CHOOSE o \in alive : is_open(o) /\ socket_[o] = f
      [] OTHER -> "lost"

holder == [f \in Fds |-> HolderOf(f)]

Ownership == INSTANCE Handles WITH holder <- holder

\* Until the first lapse - a failed attempt on an endpoint, an open socket
\* overwritten, descriptor 0 - connection and acceptor keep the promise of
\* Handles: every step is one of its steps, and no descriptor is lost.
OwnershipUntilLapse ==
    Ownership!Init /\ [][lapses' # {} \/ Ownership!Next]_holder

=============================================================================

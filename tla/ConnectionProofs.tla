-------------------------- MODULE ConnectionProofs --------------------------
(***************************************************************************)
(* Proofs about Connection, for every set of connections, every number of  *)
(* descriptors and all addresses.                                          *)
(***************************************************************************)
EXTENDS Connection, SequenceTheorems, WellFoundedInduction, TLAPS

-----------------------------------------------------------------------------
(* The operators of the model *)

\* The lowest free descriptor exists as soon as one is free.
LEMMA NewFdIsFree ==
    ASSUME FreeFds # {}
    PROVE  NewFd \in Fds /\ fdTable[NewFd] = "closed"
<1>1. FreeFds \subseteq Nat
  BY ConnectionAssumption DEF FreeFds, Fds
<1>2. PICK f \in FreeFds : \A g \in FreeFds : <<g, f>> \notin OpToRel(<, Nat)
  BY <1>1, WFMin, NatLessThanWellFounded, Zenon
<1>3. ASSUME NEW g \in FreeFds PROVE f <= g
  <2>1. f \in Nat /\ g \in Nat
    BY <1>1
  <2>2. g < f => <<g, f>> \in OpToRel(<, Nat)
    BY <2>1, Zenon DEF OpToRel
  <2>3. ~(g < f)
    BY <1>2, <2>2, Zenon
  <2> QED BY <2>1, <2>3
<1>4. NewFd \in FreeFds
  BY <1>3 DEF NewFd
<1> QED BY <1>4 DEF FreeFds

\* from_native_address keeps all of an address, and with it the family.
LEMMA NativeEndpoint ==
    ASSUME NEW p \in {0, IPPROTO_TCP}, NEW a \in NativeAddr
    PROVE  /\ from_native_address(p, a, Len(a)) = [protocol_ |-> p, storage_ |-> a]
           /\ from_native_address(p, a, Len(a)) \in Endpoints
           /\ family(from_native_address(p, a, Len(a))) \in {AF_INET, AF_INET6}
<1>1. a \in Seq(Int) /\ a[1] \in {AF_INET, AF_INET6}
  BY DEF NativeAddr
<1>2. SubSeq(a, 1, Len(a)) = a
  BY <1>1, SubSeqFull
<1> QED BY <1>1, <1>2 DEF from_native_address, buffer_from, Endpoints, family

\* endpoint() and what a failed get_endpoint leaves are endpoints.
LEMMA DefaultEndpoints ==
    /\ endpoint \in Endpoints /\ get_endpoint_failed \in Endpoints
    /\ endpoint.protocol_ \in {0, IPPROTO_TCP}
<1>1. buffer_of_size(StorageSize) \in Seq(Int)
  BY DEF buffer_of_size, StorageSize
<1>2. UninitializedStorage \in Seq(Int) /\ Len(UninitializedStorage) = 5
  BY DEF UninitializedStorage, Garbage, StorageSize
<1>3. SubSeq(UninitializedStorage, 1, 5) \in Seq(Int)
  BY <1>2, SubSeqFull
<1> QED BY <1>2, <1>3 DEF get_endpoint_failed, get_endpoint, from_native_address,
                         buffer_from, Endpoints, endpoint

\* Endpoints with an address that getaddrinfo or the kernel gave.
NativeEndpoints == [protocol_ : {0, IPPROTO_TCP}, storage_ : NativeAddr]

\* operator== is certain of its answer when a default endpoint is compared with
\* another, and when an address with a family is compared with it.
LEMMA EqualWithDefault ==
    /\ EqualOutcomes(endpoint, endpoint) = {TRUE}
    /\ \A e \in NativeEndpoints : EqualOutcomes(e, endpoint) = {FALSE}
<1>1. /\ Len(endpoint.storage_) = 5
      /\ \A i \in 1..5 : endpoint.storage_[i] = 0
  BY DEF endpoint, buffer_of_size, StorageSize
<1> DEFINE Cell(e, i) == IF i <= Len(e.storage_) THEN e.storage_[i] ELSE Garbage
           Unknown(e, i) == Garbage \in {Cell(e, i), Cell(endpoint, i)}
           Differ(e) == \E i \in 1..Len(e.storage_) :
                            ~Unknown(e, i) /\ Cell(e, i) # Cell(endpoint, i)
<1>2. EqualOutcomes(endpoint, endpoint) = {TRUE}
  <2>1. \A i \in 1..Len(endpoint.storage_) : Cell(endpoint, i) = 0 /\ 0 # Garbage
    BY <1>1 DEF Garbage
  <2>2. /\ ~Differ(endpoint)
        /\ ~ \E i \in 1..Len(endpoint.storage_) : Unknown(endpoint, i)
    BY <2>1, Zenon
  <2> HIDE DEF Cell
  <2> QED BY <2>2, Zenon DEF EqualOutcomes, Cell
<1>3. ASSUME NEW e \in NativeEndpoints PROVE EqualOutcomes(e, endpoint) = {FALSE}
  <2>1. /\ Len(e.storage_) \in Nat /\ Len(e.storage_) > 0
        /\ e.storage_[1] \in {2, 10}
    BY DEF NativeEndpoints, NativeAddr, AF_INET, AF_INET6
  <2>2. /\ 1 \in 1..Len(e.storage_) /\ Cell(endpoint, 1) = 0
        /\ Cell(e, 1) \in {2, 10}
    BY <1>1, <2>1
  <2>3. ~Unknown(e, 1) /\ Cell(e, 1) # Cell(endpoint, 1)
    BY <2>2 DEF Garbage
  <2>4. Differ(e)
    BY <2>2, <2>3, Zenon
  <2> QED BY <2>4, Zenon DEF EqualOutcomes
<1> QED BY <1>2, <1>3

\* resolve keeps one endpoint for each addrinfo, and all of it.
LEMMA ResolveEndpoints ==
    ASSUME NEW t \in AddrInfos
    PROVE  resolve(t) \in Seq(NativeEndpoints)
<1>1. t \in Seq([ai_protocol : {0, IPPROTO_TCP}, ai_addr : NativeAddr])
  BY AddressAssumption
<1>2. ASSUME NEW i \in 1..Len(t)
      PROVE from_native_address(t[i].ai_protocol, t[i].ai_addr, Len(t[i].ai_addr))
                \in NativeEndpoints
  <2>1. t[i] \in [ai_protocol : {0, IPPROTO_TCP}, ai_addr : NativeAddr]
    BY <1>1, ElementOfSeq, Zenon
  <2>2. t[i].ai_protocol \in {0, IPPROTO_TCP} /\ t[i].ai_addr \in NativeAddr
    BY <2>1
  <2> QED BY <2>2, NativeEndpoint DEF NativeEndpoints
<1> QED BY <1>1, <1>2 DEF resolve

-----------------------------------------------------------------------------
(* The inductive invariant *)

\* What connect and open have still to try has an address.
CallsHaveAddresses == call \in [Objects -> Seq(NativeEndpoints)]

\* Unless a socket got the number 0: the endpoints of an open object carry
\* addresses, save the remote one that ::getpeername failed to name and that of an
\* acceptor; those of a closed object are endpoint().
EndpointsMatch ==
    "zero" \notin lapses =>
        \A o \in alive :
            IF is_open(o)
            THEN /\ local_endpoint_[o] \in NativeEndpoints
                 /\ o # Acceptor => remote_endpoint_[o] \in NativeEndpoints \cup {get_endpoint_failed}
            ELSE local_endpoint_[o] = endpoint /\ remote_endpoint_[o] = endpoint

\* Somebody has descriptor f, or it is free.
AccountedFor(f) ==
    \/ fdTable[f] \in {"closed", "other"}
    \/ \E o \in alive : is_open(o) /\ socket_[o] = f

\* Nothing is lost until the first lapse.
NoneLost == lapses = {} => \A f \in Fds : AccountedFor(f)

IInv ==
    /\ TypeOK /\ CallsHaveAddresses
    /\ SocketsHeldOnce /\ EndpointsMatch /\ NoErrorMeansConnected /\ NoneLost

\* The initial state satisfies the invariant, with standard input open or closed.
LEMMA InvInit == Init => IInv
<1> SUFFICES ASSUME Init PROVE IInv
  OBVIOUS
<1>1. TypeOK
  <2>1. fdTable \in [Fds -> Kinds] /\ socket_ \in [Objects -> Fds]
    BY ConnectionAssumption DEF Init, Kinds, Fds
  <2>2. call \in [Objects -> Seq(Endpoints)]
    BY DEF Init
  <2> QED BY <2>1, <2>2, DefaultEndpoints DEF Init, TypeOK
<1>2. CallsHaveAddresses
  BY DEF Init, CallsHaveAddresses
<1>3. SocketsHeldOnce /\ EndpointsMatch /\ NoErrorMeansConnected
  BY DEF Init, SocketsHeldOnce, EndpointsMatch, NoErrorMeansConnected
<1>4. NoneLost
  BY DEF Init, NoneLost, AccountedFor
<1> QED BY <1>1, <1>2, <1>3, <1>4 DEF IInv

-----------------------------------------------------------------------------
(* What the actions have in common *)

KindOf(o) == IF o = Acceptor THEN "listener" ELSE "stream"

\* An object takes a free descriptor.
LEMMA Gains ==
    ASSUME TypeOK, SocketsHeldOnce, NEW o \in Objects, NEW f \in Fds,
           fdTable[f] = "closed", fdTable' = [fdTable EXCEPT ![f] = KindOf(o)],
           socket_' = [socket_ EXCEPT ![o] = f], alive' = alive \cup {o}
    PROVE  /\ fdTable' \in [Fds -> Kinds] /\ alive' \subseteq Objects
           /\ socket_' \in [Objects -> Fds]
           /\ SocketsHeldOnce'
           /\ (f # 0 /\ (o \in alive => ~is_open(o)) /\ \A g \in Fds : AccountedFor(g))
                => \A g \in Fds : AccountedFor(g)'
<1>1. /\ fdTable' \in [Fds -> Kinds] /\ alive' \subseteq Objects
      /\ socket_' \in [Objects -> Fds]
  BY DEF TypeOK, Kinds, KindOf
<1>2. \A p \in alive \ {o} : is_open(p) => socket_[p] # f
  BY DEF SocketsHeldOnce, is_open
<1>3. ASSUME NEW p \in alive', is_open(p)'
      PROVE /\ fdTable'[socket_'[p]] = IF p = Acceptor THEN "listener" ELSE "stream"
            /\ \A q \in alive' \ {p} : socket_'[q] # socket_'[p]
  <2>1. CASE p = o
    BY <1>2, <1>3, <2>1 DEF TypeOK, is_open, KindOf
  <2>2. CASE p # o
    BY <1>2, <1>3, <2>2 DEF TypeOK, is_open, SocketsHeldOnce
  <2> QED BY <2>1, <2>2
<1>4. SocketsHeldOnce'
  BY <1>3 DEF SocketsHeldOnce
<1>5. ASSUME f # 0, o \in alive => ~is_open(o), \A g \in Fds : AccountedFor(g), NEW g \in Fds
      PROVE AccountedFor(g)'
  <2>1. CASE g = f
    BY <1>5, <2>1 DEF AccountedFor, is_open, TypeOK
  <2>2. CASE g # f
    <3>1. CASE fdTable[g] \in {"closed", "other"}
      BY <2>2, <3>1 DEF AccountedFor, TypeOK
    <3>2. CASE fdTable[g] \notin {"closed", "other"}
      <4>1. PICK p \in alive : is_open(p) /\ socket_[p] = g
        BY <1>5, <3>2 DEF AccountedFor
      <4>2. p # o
        BY <1>5, <4>1
      <4> QED BY <4>1, <4>2 DEF AccountedFor, TypeOK, is_open
    <3> QED BY <3>1, <3>2
  <2> QED BY <2>1, <2>2
<1> QED BY <1>1, <1>4, <1>5

\* An object ends up without a descriptor, the one it had being closed or not.
LEMMA Drops ==
    ASSUME TypeOK, SocketsHeldOnce, NEW o \in Objects,
           socket_' = [socket_ EXCEPT ![o] = 0],
           alive' = alive \/ alive' = alive \cup {o} \/ alive' = alive \ {o},
           \/ fdTable' = fdTable
           \/ /\ o \in alive /\ is_open(o)
              /\ fdTable' = [fdTable EXCEPT ![socket_[o]] = "closed"]
    PROVE  /\ fdTable' \in [Fds -> Kinds] /\ alive' \subseteq Objects
           /\ socket_' \in [Objects -> Fds]
           /\ SocketsHeldOnce'
           /\ ((fdTable' = fdTable => ~(o \in alive /\ is_open(o)))
                /\ \A g \in Fds : AccountedFor(g))
                => \A g \in Fds : AccountedFor(g)'
<1>1. /\ fdTable' \in [Fds -> Kinds] /\ alive' \subseteq Objects
      /\ socket_' \in [Objects -> Fds] /\ socket_'[o] = 0
  <2>1. 0 \in Fds
    BY ConnectionAssumption DEF Fds
  <2>2. fdTable' \in [Fds -> Kinds]
    BY DEF TypeOK, Kinds
  <2>3. alive' \subseteq Objects
    BY DEF TypeOK
  <2> QED BY <2>1, <2>2, <2>3 DEF TypeOK
<1>2. ASSUME NEW p \in alive' \ {o}
      PROVE  p \in alive /\ p \in Objects /\ socket_'[p] = socket_[p]
  <2>1. p \in alive
    OBVIOUS
  <2> QED BY <2>1 DEF TypeOK
<1>3. ASSUME NEW p \in alive', is_open(p)'
      PROVE /\ fdTable'[socket_'[p]] = IF p = Acceptor THEN "listener" ELSE "stream"
            /\ \A q \in alive' \ {p} : socket_'[q] # socket_'[p]
  <2>1. p # o /\ p \in alive /\ socket_'[p] = socket_[p] /\ is_open(p) /\ socket_[p] \in Fds
    BY <1>1, <1>2, <1>3 DEF is_open, TypeOK
  <2>2. fdTable'[socket_[p]] = fdTable[socket_[p]]
    <3>1. CASE fdTable' = fdTable
      BY <3>1
    <3>2. CASE o \in alive /\ is_open(o) /\ fdTable' = [fdTable EXCEPT ![socket_[o]] = "closed"]
      BY <2>1, <3>2 DEF SocketsHeldOnce, TypeOK
    <3> QED BY <3>1, <3>2
  <2>3. fdTable'[socket_'[p]] = IF p = Acceptor THEN "listener" ELSE "stream"
    BY <2>1, <2>2 DEF SocketsHeldOnce
  <2>4. ASSUME NEW q \in alive' \ {p} PROVE socket_'[q] # socket_'[p]
    <3>1. CASE q = o
      BY <1>1, <1>3, <3>1 DEF is_open
    <3>2. CASE q # o
      BY <1>2, <2>1, <3>2 DEF SocketsHeldOnce
    <3> QED BY <3>1, <3>2
  <2> QED BY <2>3, <2>4
<1>4. SocketsHeldOnce'
  BY <1>3 DEF SocketsHeldOnce
<1>5. ASSUME fdTable' = fdTable => ~(o \in alive /\ is_open(o)),
             \A g \in Fds : AccountedFor(g), NEW g \in Fds
      PROVE AccountedFor(g)'
  <2>1. CASE fdTable[g] \in {"closed", "other"}
    BY <2>1 DEF AccountedFor, TypeOK
  <2>2. CASE fdTable[g] \notin {"closed", "other"}
    <3>1. PICK p \in alive : is_open(p) /\ socket_[p] = g
      BY <1>5, <2>2 DEF AccountedFor
    <3>2. CASE p = o
      BY <1>5, <3>1, <3>2 DEF AccountedFor, TypeOK
    <3>3. CASE p # o
      BY <3>1, <3>3 DEF AccountedFor, TypeOK, is_open
    <3> QED BY <3>2, <3>3
  <2> QED BY <2>1, <2>2
<1> QED BY <1>1, <1>4, <1>5

\* The objects stay as they are, and a descriptor that is none of theirs changes.
LEMMA Elsewhere ==
    ASSUME TypeOK, SocketsHeldOnce, UNCHANGED objectVars, NEW f \in Fds,
           fdTable[f] \in {"closed", "other"}, NEW k \in Kinds,
           fdTable' = [fdTable EXCEPT ![f] = k]
    PROVE  /\ fdTable' \in [Fds -> Kinds]
           /\ SocketsHeldOnce'
           /\ (k \in {"closed", "other"} /\ \A g \in Fds : AccountedFor(g))
                => \A g \in Fds : AccountedFor(g)'
<1>1. fdTable' \in [Fds -> Kinds]
  BY DEF TypeOK
<1>2. \A p \in alive : is_open(p) => socket_[p] # f
  BY DEF SocketsHeldOnce
<1>3. SocketsHeldOnce'
  BY <1>2 DEF SocketsHeldOnce, is_open, TypeOK, objectVars
<1>4. ASSUME k \in {"closed", "other"}, \A g \in Fds : AccountedFor(g), NEW g \in Fds
      PROVE AccountedFor(g)'
  BY <1>4 DEF AccountedFor, is_open, objectVars, TypeOK
<1> QED BY <1>1, <1>3, <1>4

\* An operation that reports an error, or leaves its object open.
LEMMA NothingUnopened ==
    ASSUME unopened \in BOOLEAN, NEW ec \in BOOLEAN, NEW s, ec \/ s # 0, Returned(ec, s)
    PROVE  unopened' = unopened
BY Zenon DEF Returned

\* Any operation sets or keeps the flag of an operation without effect.
LEMMA ReturnedType ==
    ASSUME NEW ec, NEW s, Returned(ec, s)
    PROVE  unopened' \in BOOLEAN
BY Zenon DEF Returned

\* Lapses add up.
LEMMA LapseGrows ==
    ASSUME TypeOK, NEW k \in {"attempt", "overwrite", "zero"}, NEW b \in BOOLEAN
    PROVE  /\ lapses \subseteq Lapse(k, b)
           /\ Lapse(k, b) \subseteq {"attempt", "overwrite", "zero"}
           /\ b => k \in Lapse(k, b)
           /\ ~b => Lapse(k, b) = lapses
BY DEF Lapse, TypeOK

\* Endpoints that carry addresses are endpoints.
LEMMA NativeIsEndpoint ==
    /\ NativeEndpoints \subseteq Endpoints
    /\ \A c \in [Objects -> Seq(NativeEndpoints)] : c \in [Objects -> Seq(Endpoints)]
<1>1. NativeEndpoints \subseteq Endpoints
  BY DEF NativeEndpoints, Endpoints, NativeAddr
<1>2. ASSUME NEW c \in [Objects -> Seq(NativeEndpoints)], NEW o \in Objects
      PROVE  c[o] \in Seq(Endpoints)
  BY <1>1
<1> QED BY <1>1, <1>2

\* The endpoint of the local side of a socket for e.
LEMMA LocalEndIsNative ==
    ASSUME NEW e \in NativeEndpoints
    PROVE  LocalEnd(e) \in NativeEndpoints
<1>1. LocalAddr[family(e)] \in NativeAddr
  BY AddressAssumption DEF NativeEndpoints, NativeAddr, family
<1> QED BY <1>1, NativeEndpoint DEF LocalEnd, get_endpoint, NativeEndpoints

-----------------------------------------------------------------------------
(* Every action preserves the invariant *)

\* Going on to the next endpoint.
LEMMA NextTry ==
    ASSUME IInv, NEW o \in Objects, Trying(o), TryNext(o)
    PROVE  CallsHaveAddresses' /\ unopened' = unopened
<1>1. call[o] \in Seq(NativeEndpoints) /\ call[o] # <<>>
  BY DEF IInv, CallsHaveAddresses, Trying
<1>2. Tail(call[o]) \in Seq(NativeEndpoints)
  BY <1>1
<1>3. CallsHaveAddresses'
  BY <1>2 DEF IInv, CallsHaveAddresses, TryNext
<1>4. unopened \in BOOLEAN
  BY DEF IInv, TypeOK
<1>5. unopened' = unopened
  <2>1. Returned(TRUE, socket_[o]) \/ UNCHANGED unopened
    BY DEF TryNext
  <2> QED BY <1>4, <2>1, NothingUnopened
<1> QED BY <1>3, <1>5

\* Steps that leave the objects alone, and perhaps lose a descriptor.
LEMMA ObjectsAlone ==
    ASSUME IInv, UNCHANGED objectVars, CallsHaveAddresses',
           fdTable' \in [Fds -> Kinds], SocketsHeldOnce', unopened' \in BOOLEAN,
           lapses \subseteq lapses', lapses' \subseteq {"attempt", "overwrite", "zero"},
           unopened' = unopened \/ "zero" \in lapses', NoneLost'
    PROVE  IInv'
<1>1. TypeOK'
  BY NativeIsEndpoint DEF IInv, TypeOK, objectVars, CallsHaveAddresses
<1>2. EndpointsMatch'
  BY DEF IInv, EndpointsMatch, objectVars, is_open
<1>3. NoErrorMeansConnected'
  BY DEF IInv, NoErrorMeansConnected
<1> QED BY <1>1, <1>2, <1>3 DEF IInv

\* connect and open begin with what resolve returned.
LEMMA BeginStep ==
    ASSUME IInv, NEW o \in Objects, NEW t \in AddrInfos, Begin(o, t)
    PROVE  IInv'
<1>1. CallsHaveAddresses'
  BY ResolveEndpoints DEF Begin, IInv, CallsHaveAddresses
<1>2. unopened \in BOOLEAN
  BY DEF IInv, TypeOK
<1>3. unopened' = unopened
  <2>1. Returned(TRUE, socket_[o]) \/ UNCHANGED unopened
    BY DEF Begin, EmptyListError
  <2> QED BY <1>2, <2>1, NothingUnopened
<1>4. SocketsHeldOnce' /\ NoneLost' /\ fdTable' \in [Fds -> Kinds]
  BY DEF IInv, TypeOK, Begin, SocketsHeldOnce, NoneLost, AccountedFor, is_open, objectVars
<1> QED BY <1>1, <1>2, <1>3, <1>4, ObjectsAlone DEF Begin, IInv, TypeOK

\* An endpoint for which ::socket fails.
LEMMA TrySkipsStep ==
    ASSUME IInv, NEW o \in Objects, TrySkips(o)
    PROVE  IInv'
<1>1. CallsHaveAddresses' /\ unopened' = unopened /\ unopened \in BOOLEAN
  BY NextTry DEF TrySkips, IInv, TypeOK
<1>2. SocketsHeldOnce' /\ NoneLost' /\ fdTable' \in [Fds -> Kinds]
  BY DEF IInv, TypeOK, TrySkips, SocketsHeldOnce, NoneLost, AccountedFor, is_open, objectVars
<1> QED BY <1>1, <1>2, ObjectsAlone DEF TrySkips, IInv, TypeOK

\* An endpoint that fails later: its socket is lost, which is a lapse.
LEMMA TryFailsStep ==
    ASSUME IInv, NEW o \in Objects, TryFails(o)
    PROVE  IInv'
<1>1. CallsHaveAddresses' /\ unopened' = unopened /\ unopened \in BOOLEAN
  BY NextTry DEF TryFails, IInv, TypeOK
<1>2. /\ lapses \subseteq lapses' /\ lapses' \subseteq {"attempt", "overwrite", "zero"}
      /\ lapses' # {}
  BY LapseGrows DEF TryFails, IInv
<1>3. SocketsHeldOnce' /\ fdTable' \in [Fds -> Kinds] /\ UNCHANGED objectVars
  BY NewFdIsFree, Elsewhere DEF TryFails, IInv, Kinds
<1>4. NoneLost'
  BY <1>2 DEF NoneLost
<1> QED BY <1>1, <1>2, <1>3, <1>4, ObjectsAlone

\* Other code opens and closes what no object holds.
LEMMA OtherStep ==
    ASSUME IInv, OtherOpens \/ \E f \in Fds : OtherCloses(f)
    PROVE  IInv'
<1>1. /\ UNCHANGED <<objectVars, call, unopened, lapses>>
      /\ \E f \in Fds, k \in {"closed", "other"} :
            /\ fdTable[f] \in {"closed", "other"}
            /\ fdTable' = [fdTable EXCEPT ![f] = k]
  BY NewFdIsFree DEF OtherOpens, OtherCloses
<1>2. PICK f \in Fds, k \in {"closed", "other"} :
            /\ fdTable[f] \in {"closed", "other"}
            /\ fdTable' = [fdTable EXCEPT ![f] = k]
  BY <1>1
<1>3. /\ SocketsHeldOnce' /\ fdTable' \in [Fds -> Kinds]
      /\ (\A g \in Fds : AccountedFor(g)) => \A g \in Fds : AccountedFor(g)'
  <2>1. k \in Kinds
    BY DEF Kinds
  <2> QED BY <1>1, <1>2, <2>1, Elsewhere DEF IInv
<1>4. NoneLost'
  BY <1>1, <1>3 DEF IInv, NoneLost
<1>5. CallsHaveAddresses' /\ unopened' \in BOOLEAN /\ lapses \subseteq lapses'
      /\ lapses' \subseteq {"attempt", "overwrite", "zero"} /\ unopened' = unopened
  BY <1>1 DEF IInv, TypeOK, CallsHaveAddresses
<1> QED BY <1>1, <1>3, <1>4, <1>5, ObjectsAlone

\* Steps that give one object new members, and a state to match them.
LEMMA MembersAssigned ==
    ASSUME IInv, NEW o \in Objects, NEW s \in Fds, NEW le \in Endpoints, NEW re \in Endpoints,
           Assigned(o, s, le, re), CallsHaveAddresses',
           alive' = alive \/ alive' = alive \cup {o} \/ alive' = alive \ {o},
           fdTable' \in [Fds -> Kinds], SocketsHeldOnce', unopened' \in BOOLEAN,
           lapses \subseteq lapses', lapses' \subseteq {"attempt", "overwrite", "zero"},
           unopened' = unopened \/ "zero" \in lapses', NoneLost',
           "zero" \in lapses' \/ IF s # 0
             THEN /\ le \in NativeEndpoints
                  /\ o # Acceptor => re \in NativeEndpoints \cup {get_endpoint_failed}
             ELSE le = endpoint /\ re = endpoint
    PROVE  IInv'
<1>1. TypeOK'
  <2>1. /\ socket_' \in [Objects -> Fds] /\ local_endpoint_' \in [Objects -> Endpoints]
        /\ remote_endpoint_' \in [Objects -> Endpoints]
    BY DEF IInv, TypeOK, Assigned
  <2>2. alive' \subseteq Objects
    BY DEF IInv, TypeOK
  <2>3. call' \in [Objects -> Seq(Endpoints)]
    BY NativeIsEndpoint DEF CallsHaveAddresses
  <2> QED BY <2>1, <2>2, <2>3 DEF TypeOK
<1>2. EndpointsMatch'
  <2> SUFFICES ASSUME "zero" \notin lapses', NEW p \in alive'
               PROVE  (IF is_open(p)
                       THEN /\ local_endpoint_[p] \in NativeEndpoints
                            /\ p # Acceptor
                                 => remote_endpoint_[p] \in NativeEndpoints \cup {get_endpoint_failed}
                       ELSE local_endpoint_[p] = endpoint /\ remote_endpoint_[p] = endpoint)'
    BY DEF EndpointsMatch
  <2>1. CASE p = o
    BY <2>1 DEF IInv, TypeOK, Assigned, is_open, get_endpoint_failed, get_endpoint
  <2>2. CASE p # o
    <3>1. p \in alive /\ p \in Objects
      BY <2>2 DEF IInv, TypeOK
    <3>2. /\ socket_'[p] = socket_[p] /\ local_endpoint_'[p] = local_endpoint_[p]
          /\ remote_endpoint_'[p] = remote_endpoint_[p]
      BY <2>2, <3>1 DEF IInv, TypeOK, Assigned
    <3> QED BY <3>1, <3>2 DEF IInv, EndpointsMatch, is_open, get_endpoint_failed, get_endpoint
  <2> QED BY <2>1, <2>2
<1>3. NoErrorMeansConnected'
  BY DEF IInv, NoErrorMeansConnected
<1> QED BY <1>1, <1>2, <1>3 DEF IInv

\* connect and open succeed, or get descriptor 0 and lose it.
LEMMA TrySucceedsStep ==
    ASSUME IInv, NEW o \in Objects, TrySucceeds(o)
    PROVE  IInv'
<1>1. /\ NewFd \in Fds /\ fdTable[NewFd] = "closed"
      /\ fdTable' = [fdTable EXCEPT ![NewFd] = KindOf(o)]
      /\ o \in alive /\ KindOf(o) \in Kinds
  BY NewFdIsFree DEF TrySucceeds, Trying, KindOf, Kinds
<1>2. CallsHaveAddresses' /\ Head(call[o]) \in NativeEndpoints
  BY DEF IInv, CallsHaveAddresses, TrySucceeds, Trying
<1>3. unopened \in BOOLEAN
  BY DEF IInv, TypeOK
<1>4. CASE NewFd = 0
  <2>1. /\ lapses \subseteq lapses' /\ lapses' \subseteq {"attempt", "overwrite", "zero"}
        /\ "zero" \in lapses' /\ UNCHANGED objectVars
    BY <1>4, LapseGrows DEF TrySucceeds, IInv
  <2>2. unopened' \in BOOLEAN
    BY <1>4, ReturnedType DEF TrySucceeds
  <2>3. SocketsHeldOnce' /\ fdTable' \in [Fds -> Kinds]
    BY <1>1, <2>1, Elsewhere DEF IInv
  <2>4. NoneLost'
    BY <2>1 DEF NoneLost
  <2> QED BY <1>2, <2>1, <2>2, <2>3, <2>4, ObjectsAlone
<1>5. CASE NewFd # 0
  <2> DEFINE le == LocalEnd(Head(call[o]))
  <2>1. PICK re \in RemoteEnds(o, Head(call[o])) : Assigned(o, NewFd, le, re)
    BY <1>5 DEF TrySucceeds
  <2>2. le \in NativeEndpoints
    BY <1>2, LocalEndIsNative
  <2>3. /\ re \in Endpoints
        /\ o # Acceptor => re \in NativeEndpoints \cup {get_endpoint_failed}
    <3>1. CASE o = Acceptor
      BY <2>1, <3>1 DEF RemoteEnds, IInv, TypeOK
    <3>2. CASE o # Acceptor
      <4>1. get_endpoint(Head(call[o]).storage_) \in NativeEndpoints
        BY <1>2, NativeEndpoint DEF get_endpoint, NativeEndpoints
      <4> QED BY <2>1, <3>2, <4>1, DefaultEndpoints, NativeIsEndpoint, Zenon DEF RemoteEnds
    <3> QED BY <3>1, <3>2
  <2>4. Returned(FALSE, NewFd) /\ lapses' = Lapse("overwrite", is_open(o)) /\ alive' = alive
    BY <1>5 DEF TrySucceeds
  <2>5. unopened' = unopened /\ unopened' \in BOOLEAN
    BY <1>3, <1>5, <2>4, NothingUnopened
  <2>6. is_open(o) \in BOOLEAN
    BY DEF is_open
  <2>7. /\ lapses \subseteq lapses' /\ lapses' \subseteq {"attempt", "overwrite", "zero"}
        /\ lapses' = {} => lapses = {} /\ ~is_open(o)
    BY <2>4, <2>6, LapseGrows DEF IInv
  <2>8. /\ fdTable' \in [Fds -> Kinds] /\ SocketsHeldOnce'
        /\ (~is_open(o) /\ \A g \in Fds : AccountedFor(g)) => \A g \in Fds : AccountedFor(g)'
    <3>1. socket_' = [socket_ EXCEPT ![o] = NewFd] /\ alive' = alive \cup {o}
      BY <1>1, <2>1, <2>4 DEF Assigned
    <3>2. TypeOK /\ SocketsHeldOnce
      BY DEF IInv
    <3> HIDE DEF le
    <3> QED BY <1>1, <1>5, <3>1, <3>2, Gains
  <2>9. NoneLost'
    BY <2>7, <2>8 DEF IInv, NoneLost
  <2> HIDE DEF le
  <2> QED BY <1>1, <1>2, <1>5, <2>1, <2>2, <2>3, <2>4, <2>5, <2>7, <2>8, <2>9,
             MembersAssigned, NativeIsEndpoint
<1> QED BY <1>4, <1>5

\* Steps that leave one object closed with default endpoints; if its socket is not
\* closed, that is a lapse.
LEMMA Emptied ==
    ASSUME IInv, NEW o \in Objects, Assigned(o, 0, endpoint, endpoint),
           CallsHaveAddresses', unopened' = unopened,
           alive' = alive \/ alive' = alive \cup {o} \/ alive' = alive \ {o},
           \/ fdTable' = fdTable
           \/ /\ o \in alive /\ is_open(o)
              /\ fdTable' = [fdTable EXCEPT ![socket_[o]] = "closed"],
           lapses \subseteq lapses', lapses' \subseteq {"attempt", "overwrite", "zero"},
           (o \in alive /\ is_open(o) /\ fdTable' = fdTable) => lapses' # {}
    PROVE  IInv'
<1>1. 0 \in Fds /\ endpoint \in Endpoints /\ TypeOK /\ SocketsHeldOnce
  BY ConnectionAssumption, DefaultEndpoints DEF Fds, IInv
<1>2. socket_' = [socket_ EXCEPT ![o] = 0]
  BY DEF Assigned
<1>3. /\ fdTable' \in [Fds -> Kinds] /\ SocketsHeldOnce'
      /\ ((fdTable' = fdTable => ~(o \in alive /\ is_open(o)))
           /\ \A g \in Fds : AccountedFor(g))
           => \A g \in Fds : AccountedFor(g)'
  BY <1>1, <1>2, Drops
<1>4. NoneLost'
  <2> SUFFICES ASSUME lapses' = {} PROVE \A g \in Fds : AccountedFor(g)'
    BY DEF NoneLost
  <2>1. \A g \in Fds : AccountedFor(g)
    BY DEF IInv, NoneLost
  <2> QED BY <1>3, <2>1
<1>5. unopened' \in BOOLEAN
  BY <1>1 DEF TypeOK
<1> QED BY <1>1, <1>3, <1>4, <1>5, MembersAssigned

\* disconnect() and close(), which close the socket and forget it.
LEMMA DisconnectStep ==
    ASSUME IInv, NEW o \in Objects, disconnect(o)
    PROVE  IInv'
<1>1. /\ Assigned(o, 0, endpoint, endpoint)
      /\ o \in alive /\ is_open(o) /\ fdTable' = [fdTable EXCEPT ![socket_[o]] = "closed"]
      /\ UNCHANGED <<alive, call, unopened, lapses>>
  BY DEF disconnect, Idle, close_socket, EndpointAfterClose
<1>2. "closed" # "stream" /\ "closed" # "listener" /\ fdTable' # fdTable
  BY <1>1 DEF IInv, TypeOK, SocketsHeldOnce
<1>3. CallsHaveAddresses' /\ lapses' \subseteq {"attempt", "overwrite", "zero"}
  BY <1>1 DEF IInv, TypeOK, CallsHaveAddresses
<1> QED BY <1>1, <1>2, <1>3, Emptied

\* A default constructor.
LEMMA ConstructStep ==
    ASSUME IInv, NEW o \in Objects, Construct(o)
    PROVE  IInv'
<1>1. CallsHaveAddresses' /\ lapses' \subseteq {"attempt", "overwrite", "zero"}
  BY DEF Construct, IInv, TypeOK, CallsHaveAddresses
<1> QED BY <1>1, Emptied DEF Construct

\* A destructor, which disconnects.
LEMMA DestroyStep ==
    ASSUME IInv, NEW o \in Objects, Destroy(o)
    PROVE  IInv'
<1>1. /\ Assigned(o, 0, endpoint, endpoint) /\ o \in alive /\ alive' = alive \ {o}
      /\ UNCHANGED <<call, unopened, lapses>>
      /\ IF is_open(o) THEN fdTable' = [fdTable EXCEPT ![socket_[o]] = "closed"]
         ELSE fdTable' = fdTable
  BY DEF Destroy, Idle, close_socket
<1>2. is_open(o) => fdTable' # fdTable
  BY <1>1 DEF IInv, TypeOK, SocketsHeldOnce
<1>3. CallsHaveAddresses' /\ lapses' \subseteq {"attempt", "overwrite", "zero"}
  BY <1>1 DEF IInv, TypeOK, CallsHaveAddresses
<1> QED BY <1>1, <1>2, <1>3, Emptied

\* An accept that fails, and drops what its result is assigned to.
LEMMA AcceptFailsStep ==
    ASSUME IInv, NEW c \in Conns, AcceptFails(c), UNCHANGED call
    PROVE  IInv'
<1>1. c \in Objects /\ (c \in alive /\ is_open(c)) \in BOOLEAN
  BY DEF Objects, is_open
<1>2. /\ lapses \subseteq lapses' /\ lapses' \subseteq {"attempt", "overwrite", "zero"}
      /\ (c \in alive /\ is_open(c)) => lapses' # {}
  BY <1>1, LapseGrows DEF AcceptFails, IInv
<1>3. unopened' = unopened
  BY NothingUnopened DEF AcceptFails, IInv, TypeOK
<1>4. CallsHaveAddresses'
  BY DEF IInv, CallsHaveAddresses
<1> QED BY <1>1, <1>2, <1>3, <1>4, Emptied DEF AcceptFails

\* An accept that throws.
LEMMA AcceptThrowsStep ==
    ASSUME IInv, NEW c \in Conns, AcceptThrows(c), UNCHANGED call
    PROVE  IInv'
<1>1. unopened' = unopened
  BY NothingUnopened DEF AcceptThrows, IInv, TypeOK
<1>2. CallsHaveAddresses' /\ unopened' \in BOOLEAN
  BY <1>1 DEF IInv, TypeOK, CallsHaveAddresses
<1>3. SocketsHeldOnce' /\ NoneLost' /\ fdTable' \in [Fds -> Kinds]
  BY DEF IInv, TypeOK, AcceptThrows, SocketsHeldOnce, NoneLost, AccountedFor, is_open, objectVars
<1> QED BY <1>1, <1>2, <1>3, ObjectsAlone DEF AcceptThrows, IInv, TypeOK

\* An accept that succeeds; descriptor 0 counts as a lapse.
LEMMA AcceptSucceedsStep ==
    ASSUME IInv, NEW c \in Conns, NEW fd \in Fds, fdTable[fd] = "closed",
           NEW addr \in RemoteAddr, AcceptSucceeds(c, fd, addr), UNCHANGED call
    PROVE  IInv'
<1> DEFINE re == from_native_address(local_endpoint_[Acceptor].protocol_, addr, Len(addr))
           le == LocalEnd(re)
<1>1. /\ fdTable' = [fdTable EXCEPT ![fd] = "stream"] /\ Assigned(c, fd, le, re)
      /\ alive' = alive \cup {c} /\ Returned(FALSE, fd)
      /\ lapses' = Lapse("overwrite", c \in alive /\ is_open(c)) \cup Lapse("zero", fd = 0)
  BY DEF AcceptSucceeds
<1>2. c \in Objects /\ c # Acceptor /\ KindOf(c) = "stream"
  BY ConnectionAssumption DEF Objects, KindOf
<1>3. re \in NativeEndpoints /\ le \in NativeEndpoints
  <2>1. local_endpoint_[Acceptor].protocol_ \in {0, IPPROTO_TCP}
    <3>1. local_endpoint_[Acceptor] \in Endpoints
      BY DEF IInv, TypeOK, Objects
    <3> QED BY <3>1, DefaultEndpoints DEF Endpoints
  <2>2. addr \in NativeAddr
    BY AddressAssumption
  <2>3. re \in NativeEndpoints
    BY <2>1, <2>2, NativeEndpoint DEF NativeEndpoints
  <2> QED BY <2>3, LocalEndIsNative
<1>4. /\ lapses \subseteq lapses' /\ lapses' \subseteq {"attempt", "overwrite", "zero"}
      /\ fd = 0 => "zero" \in lapses'
      /\ lapses' = {} => lapses = {} /\ fd # 0 /\ ~(c \in alive /\ is_open(c))
  <2>1. (c \in alive /\ is_open(c)) \in BOOLEAN /\ (fd = 0) \in BOOLEAN
    BY DEF is_open
  <2> HIDE DEF le, re
  <2> QED BY <1>1, <2>1, LapseGrows DEF IInv
<1>5. unopened' \in BOOLEAN /\ (unopened' = unopened \/ "zero" \in lapses')
  <2>1. unopened' \in BOOLEAN
    BY <1>1, ReturnedType
  <2>2. unopened \in BOOLEAN
    BY DEF IInv, TypeOK
  <2>3. fd # 0 => unopened' = unopened
    BY <1>1, <2>2, NothingUnopened
  <2> QED BY <1>4, <2>1, <2>3
<1>6. /\ fdTable' \in [Fds -> Kinds] /\ SocketsHeldOnce'
      /\ (fd # 0 /\ (c \in alive => ~is_open(c)) /\ \A g \in Fds : AccountedFor(g))
           => \A g \in Fds : AccountedFor(g)'
  <2>1. socket_' = [socket_ EXCEPT ![c] = fd] /\ TypeOK /\ SocketsHeldOnce
    BY <1>1 DEF Assigned, IInv
  <2> HIDE DEF le, re
  <2> QED BY <1>1, <1>2, <2>1, Gains
<1>7. NoneLost'
  BY <1>4, <1>6 DEF IInv, NoneLost
<1>8. CallsHaveAddresses'
  BY DEF IInv, CallsHaveAddresses
<1> HIDE DEF le, re
<1> QED BY <1>1, <1>2, <1>3, <1>4, <1>5, <1>6, <1>7, <1>8, MembersAssigned, NativeIsEndpoint

\* acceptor::accept.
LEMMA AcceptStep ==
    ASSUME IInv, NEW c \in Conns, accept(c)
    PROVE  IInv'
<1>1. UNCHANGED call
  BY DEF accept
<1>2. \/ AcceptFails(c) \/ AcceptThrows(c)
      \/ \E fd \in AcceptReturns : ~AcceptReturnedError(fd)
              /\ \E addr \in RemoteAddr : AcceptSucceeds(c, fd, addr)
  BY DEF accept
<1>3. \A fd \in AcceptReturns : ~AcceptReturnedError(fd) => fd \in Fds /\ fdTable[fd] = "closed"
  BY NewFdIsFree DEF AcceptReturns, AcceptReturnedError
<1> QED BY <1>1, <1>2, <1>3, AcceptFailsStep, AcceptThrowsStep, AcceptSucceedsStep

\* The members after a move, onto another object or onto itself.
LEMMA MovedMembers ==
    ASSUME TypeOK, NEW to \in Conns, NEW from \in Conns, Move(to, from)
    PROVE  /\ to \in Objects /\ from \in alive /\ alive' = alive \cup {to}
           /\ socket_'[from] = 0 /\ local_endpoint_'[from] = endpoint
           /\ remote_endpoint_'[from] = endpoint
           /\ to # from => /\ socket_'[to] = socket_[from]
                           /\ local_endpoint_'[to] = local_endpoint_[from]
                           /\ remote_endpoint_'[to] = remote_endpoint_[from]
           /\ \A p \in Objects \ {to, from} : /\ socket_'[p] = socket_[p]
                                              /\ local_endpoint_'[p] = local_endpoint_[p]
                                              /\ remote_endpoint_'[p] = remote_endpoint_[p]
           /\ UNCHANGED <<fdTable, call, unopened>>
           /\ lapses \subseteq lapses' /\ lapses' \subseteq {"attempt", "overwrite", "zero"}
           /\ lapses' = {} => ~(to \in alive /\ is_open(to))
<1>1. to \in Objects /\ from \in Objects /\ (to \in alive /\ is_open(to)) \in BOOLEAN
  BY DEF Objects, is_open
<1>2. /\ lapses \subseteq lapses' /\ lapses' \subseteq {"attempt", "overwrite", "zero"}
      /\ lapses' = {} => ~(to \in alive /\ is_open(to))
  BY <1>1, LapseGrows DEF Move
<1>3. from \in alive /\ alive' = alive \cup {to} /\ UNCHANGED <<fdTable, call, unopened>>
  BY DEF Move, Idle
<1>4. /\ socket_'[from] = 0
      /\ to # from => socket_'[to] = socket_[from]
      /\ \A p \in Objects \ {to, from} : socket_'[p] = socket_[p]
  BY <1>1 DEF Move, TypeOK, SocketAfterMove
<1>5. /\ local_endpoint_'[from] = endpoint
      /\ to # from => local_endpoint_'[to] = local_endpoint_[from]
      /\ \A p \in Objects \ {to, from} : local_endpoint_'[p] = local_endpoint_[p]
  BY <1>1 DEF Move, TypeOK
<1>6. /\ remote_endpoint_'[from] = endpoint
      /\ to # from => remote_endpoint_'[to] = remote_endpoint_[from]
      /\ \A p \in Objects \ {to, from} : remote_endpoint_'[p] = remote_endpoint_[p]
  BY <1>1 DEF Move, TypeOK
<1> QED BY <1>1, <1>2, <1>3, <1>4, <1>5, <1>6

\* Move construction and move assignment.
LEMMA MoveStep ==
    ASSUME IInv, NEW to \in Conns, NEW from \in Conns, Move(to, from)
    PROVE  IInv'
<1>1. TypeOK /\ SocketsHeldOnce /\ alive \subseteq Objects /\ from \in Objects
  BY DEF IInv, TypeOK, Objects
<1>2. to # Acceptor /\ from # Acceptor
  BY ConnectionAssumption
<1>3. TypeOK' /\ CallsHaveAddresses'
  <2>1. /\ socket_' \in [Objects -> Fds] /\ local_endpoint_' \in [Objects -> Endpoints]
        /\ remote_endpoint_' \in [Objects -> Endpoints]
    <3>1. 0 \in Fds
      BY ConnectionAssumption DEF Fds
    <3> QED BY <1>1, <3>1, DefaultEndpoints DEF TypeOK, Move, SocketAfterMove
  <2> QED BY <1>1, <2>1, MovedMembers DEF TypeOK, IInv, CallsHaveAddresses
<1>4. ASSUME NEW p \in alive', is_open(p)'
      PROVE /\ fdTable'[socket_'[p]] = IF p = Acceptor THEN "listener" ELSE "stream"
            /\ \A q \in alive' \ {p} : socket_'[q] # socket_'[p]
  <2>0. p # from /\ p \in Objects
    BY <1>1, <1>4, MovedMembers DEF is_open
  <2>1. CASE p = to
    <3>1. is_open(from) /\ socket_'[p] = socket_[from]
      BY <1>1, <1>4, <2>0, <2>1, MovedMembers DEF is_open
    <3>2. fdTable'[socket_'[p]] = "stream"
      BY <1>1, <1>2, <3>1, MovedMembers DEF SocketsHeldOnce
    <3>3. ASSUME NEW q \in alive' \ {p} PROVE socket_'[q] # socket_'[p]
      <4>1. CASE q = from
        BY <1>1, <3>1, <4>1, MovedMembers DEF is_open
      <4>2. CASE q # from
        BY <1>1, <2>1, <3>1, <4>2, MovedMembers DEF SocketsHeldOnce
      <4> QED BY <4>1, <4>2
    <3> QED BY <1>2, <2>1, <3>2, <3>3
  <2>2. CASE p # to
    <3>1. p \in alive /\ is_open(p) /\ socket_'[p] = socket_[p] /\ fdTable' = fdTable
      BY <1>1, <1>4, <2>0, <2>2, MovedMembers DEF is_open
    <3>2. ASSUME NEW q \in alive' \ {p} PROVE socket_'[q] # socket_'[p]
      <4>1. CASE q = from
        BY <1>1, <3>1, <4>1, MovedMembers DEF is_open
      <4>2. CASE q # from /\ q = to
        BY <1>1, <2>0, <3>1, <4>2, MovedMembers DEF SocketsHeldOnce
      <4>3. CASE q # from /\ q # to
        BY <1>1, <3>1, <4>3, MovedMembers DEF SocketsHeldOnce
      <4> QED BY <4>1, <4>2, <4>3
    <3> QED BY <1>1, <3>1, <3>2 DEF SocketsHeldOnce
  <2> QED BY <2>1, <2>2
<1>5. SocketsHeldOnce'
  BY <1>4 DEF SocketsHeldOnce
<1>6. EndpointsMatch'
  <2> SUFFICES ASSUME "zero" \notin lapses', NEW p \in alive'
               PROVE  (IF is_open(p)
                       THEN /\ local_endpoint_[p] \in NativeEndpoints
                            /\ p # Acceptor
                                 => remote_endpoint_[p] \in NativeEndpoints \cup {get_endpoint_failed}
                       ELSE local_endpoint_[p] = endpoint /\ remote_endpoint_[p] = endpoint)'
    BY DEF EndpointsMatch
  <2>0. "zero" \notin lapses /\ p \in Objects
    BY <1>1, MovedMembers
  <2>1. CASE p = from
    BY <1>1, <2>1, MovedMembers DEF is_open
  <2>2. CASE p # from /\ p = to
    BY <1>1, <1>2, <2>0, <2>2, MovedMembers
       DEF IInv, EndpointsMatch, is_open, get_endpoint_failed, get_endpoint
  <2>3. CASE p # from /\ p # to
    BY <1>1, <2>0, <2>3, MovedMembers
       DEF IInv, EndpointsMatch, is_open, get_endpoint_failed, get_endpoint
  <2> QED BY <2>1, <2>2, <2>3
<1>7. NoErrorMeansConnected'
  BY <1>1, MovedMembers DEF IInv, NoErrorMeansConnected
<1>8. NoneLost'
  <2> SUFFICES ASSUME lapses' = {}, NEW g \in Fds, fdTable[g] \notin {"closed", "other"}
               PROVE  \E p \in alive' : is_open(p)' /\ socket_'[p] = g
    BY <1>1, MovedMembers DEF NoneLost, AccountedFor
  <2>1. PICK p \in alive : is_open(p) /\ socket_[p] = g
    BY <1>1, MovedMembers DEF IInv, NoneLost, AccountedFor
  <2>2. p # to
    BY <1>1, <2>1, MovedMembers
  <2>3. CASE p = from
    BY <1>1, <2>1, <2>2, <2>3, MovedMembers DEF is_open
  <2>4. CASE p # from
    BY <1>1, <2>1, <2>2, <2>4, MovedMembers DEF is_open
  <2> QED BY <2>3, <2>4
<1> QED BY <1>3, <1>5, <1>6, <1>7, <1>8 DEF IInv

\* Every step preserves the invariant.
LEMMA InvStep == IInv /\ [Next]_vars => IInv'
<1> SUFFICES ASSUME IInv, [Next]_vars PROVE IInv'
  OBVIOUS
<1>1. CASE UNCHANGED vars
  BY <1>1 DEF vars, objectVars, IInv, TypeOK, CallsHaveAddresses, SocketsHeldOnce, EndpointsMatch,
              NoErrorMeansConnected, NoneLost, AccountedFor, is_open,
              get_endpoint_failed, get_endpoint
<1>2. CASE Next
  BY <1>2, BeginStep, TrySkipsStep, TryFailsStep, TrySucceedsStep, DisconnectStep,
     ConstructStep, DestroyStep, MoveStep, AcceptStep, OtherStep DEF Next
<1> QED BY <1>1, <1>2

-----------------------------------------------------------------------------
(* The theorems *)

\* Members of connection and acceptor keep their types; in particular no socket_
\* is ever the -1 of a failed ::socket or ::accept.
THEOREM TypeCorrect == Spec => []TypeOK
<1>1. IInv => TypeOK
  BY DEF IInv
<1> QED BY <1>1, InvInit, InvStep, PTL DEF Spec

\* Two objects never hold one socket, nor an object a descriptor that was closed or
\* is other code's, whatever moves, overwrites and failures came before.
THEOREM SocketsAreHeldOnce == Spec => []SocketsHeldOnce
<1>1. IInv => SocketsHeldOnce
  BY DEF IInv
<1> QED BY <1>1, InvInit, InvStep, PTL DEF Spec

\* Comparing its endpoints with endpoint() tells whether an object is open, except
\* after descriptor 0 and for a remote host that ::getpeername could not name.
THEOREM EndpointsTell == Spec => []EndpointsTellConnection
<1>1. ASSUME IInv PROVE EndpointsTellConnection
  <2> SUFFICES ASSUME "zero" \notin lapses, NEW o \in alive
               PROVE  /\ EqualOutcomes(local_endpoint_[o], endpoint) = {~is_open(o)}
                      /\ ~is_open(o) => EqualOutcomes(remote_endpoint_[o], endpoint) = {TRUE}
                      /\ (is_open(o) /\ o # Acceptor)
                           => \/ EqualOutcomes(remote_endpoint_[o], endpoint) = {FALSE}
                              \/ remote_endpoint_[o] = get_endpoint_failed
    BY DEF EndpointsTellConnection
  <2>1. CASE is_open(o)
    <3>1. /\ local_endpoint_[o] \in NativeEndpoints
          /\ o # Acceptor => remote_endpoint_[o] \in NativeEndpoints \cup {get_endpoint_failed}
      BY <1>1, <2>1, Zenon DEF IInv, EndpointsMatch
    <3>2. ~is_open(o) = FALSE
      BY <2>1
    <3> QED BY <2>1, <3>1, <3>2, EqualWithDefault, Zenon
  <2>2. CASE ~is_open(o)
    <3>1. local_endpoint_[o] = endpoint /\ remote_endpoint_[o] = endpoint
      BY <1>1, <2>2, Zenon DEF IInv, EndpointsMatch
    <3>2. ~is_open(o) = TRUE
      BY <2>2
    <3> QED BY <2>2, <3>1, <3>2, EqualWithDefault, Zenon
  <2> QED BY <2>1, <2>2
<1> QED BY <1>1, InvInit, InvStep, PTL DEF Spec

\* connect, open and accept that report no error leave an open object, unless its
\* socket got the number 0.
THEOREM NoErrorIsConnected == Spec => []NoErrorMeansConnected
<1>1. IInv => NoErrorMeansConnected
  BY DEF IInv
<1> QED BY <1>1, InvInit, InvStep, PTL DEF Spec

-----------------------------------------------------------------------------
(* Connection implements Handles until the first lapse.  A step that loses     *)
(* nothing is an Acquire (connect, open, accept), a Release (disconnect, close,*)
(* a destructor), a Transfer (a move), a step of other code, or leaves the     *)
(* holders as they are.                                                        *)

\* HolderOf tells who holds what.
HoldersRight ==
    \A f \in Fds :
        /\ fdTable[f] = "closed" => HolderOf(f) = "free"
        /\ fdTable[f] = "other" => HolderOf(f) = "other"
        /\ \A o \in alive : (is_open(o) /\ socket_[o] = f) => HolderOf(f) = o
        /\ \A o \in Objects : HolderOf(f) = o => (o \in alive /\ is_open(o) /\ socket_[o] = f)

\* It does so because no socket is held twice.
LEMMA HolderIsRight == IInv => HoldersRight
<1> SUFFICES ASSUME IInv, NEW f \in Fds
             PROVE  /\ fdTable[f] = "closed" => HolderOf(f) = "free"
                    /\ fdTable[f] = "other" => HolderOf(f) = "other"
                    /\ \A o \in alive : (is_open(o) /\ socket_[o] = f) => HolderOf(f) = o
                    /\ \A o \in Objects :
                          HolderOf(f) = o => (o \in alive /\ is_open(o) /\ socket_[o] = f)
  BY DEF HoldersRight
<1>0. fdTable[f] \in {"closed", "other"} => ~ \E o \in alive : is_open(o) /\ socket_[o] = f
  BY DEF IInv, SocketsHeldOnce
<1>1. fdTable[f] = "closed" => HolderOf(f) = "free"
  BY <1>0 DEF HolderOf
<1>2. fdTable[f] = "other" => HolderOf(f) = "other"
  BY <1>0 DEF HolderOf
<1>3. ASSUME NEW o \in alive, is_open(o), socket_[o] = f
      PROVE  HolderOf(f) = o
  <2>1. fdTable[f] # "closed" /\ fdTable[f] # "other"
    BY <1>3 DEF IInv, SocketsHeldOnce
  <2>2. \A p \in alive : socket_[p] = f => p = o
    BY <1>3 DEF IInv, SocketsHeldOnce
  <2>3. (CHOOSE p \in alive : is_open(p) /\ socket_[p] = f) = o
    BY <1>3, <2>2
  <2> QED BY <1>3, <2>1, <2>3 DEF HolderOf
<1>4. ASSUME NEW o \in Objects, HolderOf(f) = o
      PROVE  o \in alive /\ is_open(o) /\ socket_[o] = f
  <2>1. o \notin {"free", "other", "lost"}
    BY ConnectionAssumption DEF NotHeld
  <2>2. \E p \in alive : is_open(p) /\ socket_[p] = f
    BY <1>4, <2>1 DEF HolderOf
  <2> QED BY <1>3, <1>4, <2>2
<1> QED BY <1>1, <1>2, <1>3, <1>4

\* The same of the next state.
LEMMA HolderStaysRight == IInv' => HoldersRight'
BY HolderIsRight, PTL

\* A descriptor on which nothing changes keeps its holder.
LEMMA SameHolder ==
    ASSUME IInv, IInv', lapses = {}, NEW g \in Fds, fdTable'[g] = fdTable[g],
           \A o \in alive : (is_open(o) /\ socket_[o] = g)
                                => (o \in alive' /\ is_open(o)' /\ socket_'[o] = g)
    PROVE  HolderOf(g)' = HolderOf(g)
<1>1. HoldersRight /\ HoldersRight'
  BY HolderIsRight, HolderStaysRight
<1>2. AccountedFor(g)
  BY DEF IInv, NoneLost
<1>3. CASE fdTable[g] = "closed"
  BY <1>1, <1>3 DEF HoldersRight
<1>4. CASE fdTable[g] = "other"
  BY <1>1, <1>4 DEF HoldersRight
<1>5. ASSUME NEW o \in alive, is_open(o), socket_[o] = g PROVE HolderOf(g)' = HolderOf(g)
  BY <1>1, <1>5 DEF HoldersRight
<1> QED BY <1>2, <1>3, <1>4, <1>5 DEF AccountedFor

\* An object that is not open holds nothing.
LEMMA ClosedHoldsNone ==
    ASSUME IInv, NEW o \in Objects, ~(o \in alive /\ is_open(o))
    PROVE  Ownership!HoldsNone(o)
BY HolderIsRight DEF HoldersRight, Ownership!HoldsNone, holder

\* The holders after one of them has changed.
LEMMA HolderAfter ==
    ASSUME NEW f \in Fds, NEW v, HolderOf(f)' = v,
           \A g \in Fds \ {f} : HolderOf(g)' = HolderOf(g)
    PROVE  holder' = [holder EXCEPT ![f] = v]
BY DEF holder

\* connect, open or accept that opens a closed object is an Acquire.
LEMMA GainIsAcquire ==
    ASSUME IInv, IInv', lapses = {}, NEW o \in Objects, NEW f \in Fds, f # 0,
           ~(o \in alive /\ is_open(o)), fdTable[f] = "closed", alive' = alive \cup {o},
           \E k : fdTable' = [fdTable EXCEPT ![f] = k],
           socket_' = [socket_ EXCEPT ![o] = f]
    PROVE  Ownership!Next
<1>1. HoldersRight /\ HoldersRight' /\ TypeOK
  BY HolderIsRight, HolderStaysRight DEF IInv
<1>2. HolderOf(f) = "free"
  BY <1>1 DEF HoldersRight
<1>3. o \in alive' /\ is_open(o)' /\ socket_'[o] = f
  BY <1>1 DEF TypeOK, is_open
<1>4. HolderOf(f)' = o
  BY <1>1, <1>3 DEF HoldersRight
<1>5. ASSUME NEW g \in Fds \ {f} PROVE HolderOf(g)' = HolderOf(g)
  <2>1. fdTable'[g] = fdTable[g]
    BY <1>1 DEF TypeOK
  <2>2. ASSUME NEW p \in alive, is_open(p), socket_[p] = g
        PROVE  p \in alive' /\ is_open(p)' /\ socket_'[p] = g
    BY <1>1, <2>2 DEF TypeOK, is_open
  <2> QED BY <2>1, <2>2, SameHolder
<1>6. holder' = [holder EXCEPT ![f] = o]
  BY <1>4, <1>5, HolderAfter
<1>7. Ownership!Acquire(o, f)
  BY <1>2, <1>6, ClosedHoldsNone DEF Ownership!Acquire, holder
<1> QED BY <1>7 DEF Ownership!Next

\* A socket closed by its object is a Release.
LEMMA CloseIsRelease ==
    ASSUME IInv, IInv', lapses = {}, NEW o \in Objects, o \in alive, is_open(o),
           fdTable' = [fdTable EXCEPT ![socket_[o]] = "closed"],
           socket_' = [socket_ EXCEPT ![o] = 0],
           alive' = alive \/ alive' = alive \ {o}
    PROVE  Ownership!Next
<1>0. PICK f \in Fds : f = socket_[o]
  BY DEF IInv, TypeOK
<1>1. HoldersRight /\ HoldersRight' /\ TypeOK /\ SocketsHeldOnce
  BY HolderIsRight, HolderStaysRight DEF IInv
<1>2. HolderOf(f) = o
  BY <1>0, <1>1 DEF HoldersRight
<1>3. HolderOf(f)' = "free"
  BY <1>0, <1>1 DEF HoldersRight, TypeOK
<1>4. ASSUME NEW g \in Fds \ {f} PROVE HolderOf(g)' = HolderOf(g)
  <2>1. fdTable'[g] = fdTable[g]
    BY <1>0, <1>1 DEF TypeOK
  <2>2. ASSUME NEW p \in alive, is_open(p), socket_[p] = g
        PROVE  p \in alive' /\ is_open(p)' /\ socket_'[p] = g
    BY <1>0, <1>1, <2>2 DEF TypeOK, is_open
  <2> QED BY <2>1, <2>2, SameHolder
<1>5. holder' = [holder EXCEPT ![f] = "free"]
  BY <1>1, <1>3, <1>4, HolderAfter
<1>6. Ownership!Release(o, f)
  BY <1>1, <1>2, <1>5 DEF Ownership!Release, holder
<1> QED BY <1>6 DEF Ownership!Next

\* A step of other code.
LEMMA OtherIsOther ==
    ASSUME IInv, IInv', lapses = {}, OtherOpens \/ \E f \in Fds : OtherCloses(f)
    PROVE  Ownership!Next
<1>1. HoldersRight /\ HoldersRight' /\ TypeOK
  BY HolderIsRight, HolderStaysRight DEF IInv
<1>2. ASSUME NEW f \in Fds, NEW k, UNCHANGED objectVars, fdTable' = [fdTable EXCEPT ![f] = k],
             fdTable[f] \in {"closed", "other"}, NEW g \in Fds \ {f}
      PROVE  HolderOf(g)' = HolderOf(g)
  <2>1. fdTable'[g] = fdTable[g]
    BY <1>1, <1>2 DEF TypeOK
  <2> QED BY <1>2, <2>1, SameHolder DEF objectVars, is_open
<1>3. CASE OtherOpens
  <2>1. /\ NewFd \in Fds /\ fdTable[NewFd] = "closed" /\ UNCHANGED objectVars
        /\ fdTable' = [fdTable EXCEPT ![NewFd] = "other"]
    BY <1>3, NewFdIsFree DEF OtherOpens
  <2>2. HolderOf(NewFd) = "free" /\ \A f \in Fds : f = NewFd => HolderOf(f)' = "other"
    BY <1>1, <2>1 DEF HoldersRight, TypeOK
  <2>3. PICK f \in Fds : f = NewFd
    BY <2>1
  <2>4. holder' = [holder EXCEPT ![f] = "other"]
    BY <1>2, <2>1, <2>2, <2>3, HolderAfter
  <2>5. Ownership!OtherTakes(f)
    BY <2>2, <2>3, <2>4 DEF Ownership!OtherTakes, holder
  <2> QED BY <2>5 DEF Ownership!Next
<1>4. ASSUME NEW f \in Fds, OtherCloses(f) PROVE Ownership!Next
  <2>1. /\ fdTable[f] = "other" /\ UNCHANGED objectVars
        /\ fdTable' = [fdTable EXCEPT ![f] = "closed"]
    BY <1>4 DEF OtherCloses
  <2>2. HolderOf(f) = "other" /\ HolderOf(f)' = "free"
    BY <1>1, <2>1 DEF HoldersRight, TypeOK
  <2>3. holder' = [holder EXCEPT ![f] = "free"]
    BY <1>2, <2>1, <2>2, HolderAfter
  <2>4. Ownership!OtherReturns(f)
    BY <2>2, <2>3 DEF Ownership!OtherReturns, holder
  <2> QED BY <2>4 DEF Ownership!Next
<1> QED BY <1>3, <1>4

\* A step in which no object loses its socket and no descriptor changes.
LEMMA HoldersStay ==
    ASSUME IInv, IInv', lapses = {}, fdTable' = fdTable,
           \A o \in alive : is_open(o) => (o \in alive' /\ socket_'[o] = socket_[o])
    PROVE  UNCHANGED holder
<1>1. ASSUME NEW g \in Fds PROVE HolderOf(g)' = HolderOf(g)
  BY SameHolder DEF is_open
<1> QED BY <1>1 DEF holder

\* A move that overwrites nothing is a Transfer, or moves nothing.
LEMMA MoveIsTransfer ==
    ASSUME IInv, IInv', lapses' = {}, NEW to \in Conns, NEW from \in Conns, Move(to, from)
    PROVE  Ownership!Next \/ UNCHANGED holder
<1>1. /\ HoldersRight /\ HoldersRight' /\ TypeOK /\ SocketsHeldOnce
      /\ alive \subseteq Objects /\ from \in Objects /\ to \in Objects
  BY HolderIsRight, HolderStaysRight DEF IInv, TypeOK, Objects
<1>2. /\ lapses = {} /\ ~(to \in alive /\ is_open(to)) /\ from \in alive
      /\ fdTable' = fdTable /\ alive' = alive \cup {to}
  BY <1>1, MovedMembers
<1>3. CASE ~is_open(from)
  <2>1. \A o \in alive : is_open(o) => (o \in alive' /\ socket_'[o] = socket_[o])
    BY <1>1, <1>2, <1>3, MovedMembers
  <2> QED BY <1>2, <2>1, HoldersStay
<1>4. CASE is_open(from)
  <2>0. PICK f \in Fds : f = socket_[from]
    BY <1>1 DEF TypeOK
  <2>1. to # from
    BY <1>2, <1>4
  <2>2. HolderOf(f) = from
    BY <1>1, <1>2, <1>4, <2>0 DEF HoldersRight
  <2>3. to \in alive' /\ is_open(to)' /\ socket_'[to] = f
    BY <1>1, <1>2, <1>4, <2>0, <2>1, MovedMembers DEF is_open
  <2>4. HolderOf(f)' = to
    BY <1>1, <2>3 DEF HoldersRight
  <2>5. ASSUME NEW g \in Fds \ {f} PROVE HolderOf(g)' = HolderOf(g)
    <3>1. ASSUME NEW p \in alive, is_open(p), socket_[p] = g
          PROVE  p \in alive' /\ is_open(p)' /\ socket_'[p] = g
      <4>1. p # to /\ p # from
        BY <1>2, <2>0, <3>1
      <4> QED BY <1>1, <1>2, <3>1, <4>1, MovedMembers DEF is_open
    <3> QED BY <1>2, <3>1, SameHolder
  <2>6. holder' = [holder EXCEPT ![f] = to]
    BY <2>4, <2>5, HolderAfter
  <2>7. Ownership!Transfer(from, to, f)
    BY <1>1, <1>2, <2>2, <2>6, ClosedHoldsNone DEF Ownership!Transfer, holder
  <2> QED BY <1>1, <2>7 DEF Ownership!Next
<1> QED BY <1>3, <1>4

\* An accept that loses nothing is an Acquire or changes no holder.
LEMMA AcceptIsAcquire ==
    ASSUME IInv, IInv', lapses = {}, lapses' = {}, NEW c \in Conns, accept(c)
    PROVE  Ownership!Next \/ UNCHANGED holder
<1>1. TypeOK /\ c \in Objects /\ alive \subseteq Objects
  BY DEF IInv, TypeOK, Objects
<1>2. CASE AcceptFails(c)
  <2>1. ~(c \in alive /\ is_open(c))
    <3>1. (c \in alive /\ is_open(c)) \in BOOLEAN
      BY DEF is_open
    <3> QED BY <1>1, <1>2, <3>1, LapseGrows DEF AcceptFails
  <2>2. \A o \in alive : is_open(o) => (o \in alive' /\ socket_'[o] = socket_[o])
    BY <1>1, <1>2, <2>1 DEF AcceptFails, Assigned, TypeOK
  <2> QED BY <1>2, <2>2, HoldersStay DEF AcceptFails
<1>3. CASE AcceptThrows(c)
  BY <1>3, HoldersStay DEF AcceptThrows, objectVars
<1>4. ASSUME NEW fd \in Fds, fdTable[fd] = "closed", NEW addr \in RemoteAddr,
             AcceptSucceeds(c, fd, addr)
      PROVE  Ownership!Next
  <2>1. fd # 0 /\ ~(c \in alive /\ is_open(c))
    <3>1. (c \in alive /\ is_open(c)) \in BOOLEAN /\ (fd = 0) \in BOOLEAN
      BY DEF is_open
    <3>2. lapses' = Lapse("overwrite", c \in alive /\ is_open(c)) \cup Lapse("zero", fd = 0)
      BY <1>4 DEF AcceptSucceeds
    <3> QED BY <1>1, <3>1, <3>2, LapseGrows
  <2>2. /\ alive' = alive \cup {c} /\ \E k : fdTable' = [fdTable EXCEPT ![fd] = k]
        /\ socket_' = [socket_ EXCEPT ![c] = fd]
    BY <1>4 DEF AcceptSucceeds, Assigned
  <2> QED BY <1>1, <1>4, <2>1, <2>2, GainIsAcquire
<1>5. \/ AcceptFails(c) \/ AcceptThrows(c)
      \/ \E fd \in AcceptReturns : ~AcceptReturnedError(fd)
              /\ \E addr \in RemoteAddr : AcceptSucceeds(c, fd, addr)
  BY DEF accept
<1>6. \A fd \in AcceptReturns : ~AcceptReturnedError(fd) => fd \in Fds /\ fdTable[fd] = "closed"
  BY NewFdIsFree DEF AcceptReturns, AcceptReturnedError
<1> QED BY <1>2, <1>3, <1>4, <1>5, <1>6

\* Lapses are never forgotten.
LEMMA LapsesGrow ==
    ASSUME IInv, Next
    PROVE  lapses \subseteq lapses'
BY DEF Next, Begin, TrySkips, TryFails, TrySucceeds, disconnect, Construct, Destroy, Move,
       accept, AcceptFails, AcceptThrows, AcceptSucceeds, OtherOpens, OtherCloses, Lapse

\* Every step of the code that loses nothing is a step of Handles or a stutter.
LEMMA OwnershipStep ==
    ASSUME IInv, [Next]_vars, IInv'
    PROVE  [lapses' # {} \/ Ownership!Next]_holder
<1> SUFFICES ASSUME lapses' = {}
             PROVE  Ownership!Next \/ UNCHANGED holder
  OBVIOUS
<1>1. CASE UNCHANGED vars
  <2>1. lapses = {} /\ fdTable' = fdTable /\ UNCHANGED objectVars
    BY <1>1 DEF vars
  <2> QED BY <2>1, HoldersStay DEF objectVars
<1>2. CASE Next
  <2>0. lapses = {}
    BY <1>2, LapsesGrow
  <2>1. ASSUME fdTable' = fdTable, UNCHANGED objectVars PROVE UNCHANGED holder
    BY <2>0, <2>1, HoldersStay DEF objectVars
  <2>2. ASSUME NEW o \in Objects, NEW t \in AddrInfos, Begin(o, t) PROVE UNCHANGED holder
    BY <2>1, <2>2 DEF Begin
  <2>3. ASSUME NEW o \in Objects, TrySkips(o) PROVE UNCHANGED holder
    BY <2>1, <2>3 DEF TrySkips
  <2>4. ASSUME NEW o \in Objects, TryFails(o) PROVE FALSE
    BY <2>4 DEF TryFails, Lapse
  <2>5. ASSUME NEW o \in Objects, TrySucceeds(o) PROVE Ownership!Next
    <3>1. NewFd # 0 /\ ~is_open(o)
      BY <2>5 DEF TrySucceeds, Lapse
    <3>2. /\ NewFd \in Fds /\ fdTable[NewFd] = "closed" /\ alive' = alive \cup {o}
          /\ \E k : fdTable' = [fdTable EXCEPT ![NewFd] = k]
      BY <2>5, <3>1, NewFdIsFree DEF TrySucceeds, Trying
    <3>3. socket_' = [socket_ EXCEPT ![o] = NewFd]
      BY <2>5, <3>1 DEF TrySucceeds, Assigned
    <3>4. PICK f \in Fds : f = NewFd
      BY <3>2
    <3> QED BY <2>0, <3>1, <3>2, <3>3, <3>4, GainIsAcquire
  <2>6. ASSUME NEW o \in Objects, disconnect(o) PROVE Ownership!Next
    BY <2>0, <2>6, CloseIsRelease DEF disconnect, Idle, close_socket, Assigned
  <2>7. ASSUME NEW o \in Objects, Construct(o) PROVE UNCHANGED holder
    <3>1. \A p \in alive : p \in alive' /\ socket_'[p] = socket_[p]
      BY <2>7 DEF Construct, Assigned, IInv, TypeOK
    <3> QED BY <2>0, <2>7, <3>1, HoldersStay DEF Construct
  <2>8. ASSUME NEW o \in Objects, Destroy(o) PROVE Ownership!Next \/ UNCHANGED holder
    <3>1. CASE is_open(o)
      BY <2>0, <2>8, <3>1, CloseIsRelease DEF Destroy, Idle, close_socket, Assigned
    <3>2. CASE ~is_open(o)
      <4>1. \A p \in alive : is_open(p) => (p \in alive' /\ socket_'[p] = socket_[p])
        BY <2>8, <3>2 DEF Destroy, Assigned, IInv, TypeOK
      <4> QED BY <2>0, <2>8, <3>2, <4>1, HoldersStay DEF Destroy
    <3> QED BY <3>1, <3>2
  <2> QED BY <1>2, <2>0, <2>2, <2>3, <2>4, <2>5, <2>6, <2>7, <2>8,
             MoveIsTransfer, AcceptIsAcquire, OtherIsOther DEF Next
<1> QED BY <1>1, <1>2

\* Until a failed attempt, an open socket overwritten or descriptor 0, connection
\* and acceptor keep the promise of Handles: a descriptor is taken by an object
\* that has none, handed over whole, and given back by its holder.
THEOREM OwnershipKept == Spec => OwnershipUntilLapse
<1>1. Init => Ownership!Init
  <2> SUFFICES ASSUME Init, NEW f \in Fds PROVE HolderOf(f) \in {"free", "other"}
    BY DEF Ownership!Init, holder
  <2>1. fdTable[f] \in {"closed", "other"} /\ alive = {}
    BY DEF Init
  <2> QED BY <2>1 DEF HolderOf
<1>2. IInv /\ IInv' /\ [Next]_vars => [lapses' # {} \/ Ownership!Next]_holder
  BY OwnershipStep
<1> QED BY <1>1, <1>2, InvInit, InvStep, PTL DEF Spec, OwnershipUntilLapse

=============================================================================

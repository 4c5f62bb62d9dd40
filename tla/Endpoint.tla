------------------------------ MODULE Endpoint ------------------------------
(***************************************************************************)
(* yonaa::endpoint (endpoint.cpp) and resolve (resolve.cpp).               *)
(*                                                                         *)
(* A native address is a sequence of cells, each standing for a field of   *)
(* struct sockaddr_in, sockaddr_in6 or sockaddr_storage: family, port, ... *)
(* Only what the three have in common matters here: the first cell is the  *)
(* family, and their sizes differ.  Garbage is a cell nobody has written,  *)
(* or one past the end of a buffer: it holds any value.                    *)
(***************************************************************************)
EXTENDS Buffer

AF_UNSPEC == 0
AF_INET == 2
AF_INET6 == 10
IPPROTO_TCP == 6

\* Cells of struct sockaddr_storage; sockaddr_in has 3 of them, sockaddr_in6 4.
StorageSize == 5
Garbage == -1

sockaddr_in(port, addr) == <<AF_INET, port, addr>>
sockaddr_in6(port, addr) == <<AF_INET6, port, 0, addr>>

\* endpoint(): zero-filled storage of the largest size.
endpoint == [protocol_ |-> 0, storage_ |-> buffer_of_size(StorageSize)]

\* endpoint::from_native_address
from_native_address(protocol, addr, addr_size) ==
    [protocol_ |-> protocol, storage_ |-> buffer_from(addr, addr_size)]

\* endpoint::family: the sa_family field of the stored address.
family(e) == e.storage_[1]

\* An address_storage_type on the stack that no call has filled in.
UninitializedStorage == [i \in 1..StorageSize |-> Garbage]

\* operator== compares the first size() cells of this endpoint with as many of
\* the other's, which may be shorter.  The results the comparison can have:
EqualOutcomes(this, other) ==
    LET n == Len(this.storage_)
        Cell(e, i) == IF i <= Len(e.storage_) THEN e.storage_[i] ELSE Garbage
        Unknown(i) == Garbage \in {Cell(this, i), Cell(other, i)}
    IN  IF \E i \in 1..n : ~Unknown(i) /\ Cell(this, i) # Cell(other, i) THEN {FALSE}
        ELSE IF \E i \in 1..n : Unknown(i) THEN BOOLEAN
        ELSE {TRUE}

\* resolve: the addrinfo list of a successful getaddrinfo, packed in its order;
\* nothing for a failed one, which answers <<>>.
resolve(target_info) ==
    [i \in DOMAIN target_info |->
        from_native_address(target_info[i].ai_protocol, target_info[i].ai_addr,
                            Len(target_info[i].ai_addr))]

=============================================================================

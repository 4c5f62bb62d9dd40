---------------------------- MODULE MCConnection ----------------------------
(***************************************************************************)
(* Model-checking instance of Connection.                                  *)
(***************************************************************************)
EXTENDS Connection, TLC

ai(addr) == [ai_protocol |-> IPPROTO_TCP, ai_addr |-> addr]

\* No answer; a host with one address; one with an address of each family.
MCAddrInfos ==
    {<<>>, <<ai(sockaddr_in(80, 1))>>, <<ai(sockaddr_in6(80, 1)), ai(sockaddr_in(80, 1))>>}

MCLocalAddr == (AF_INET :> sockaddr_in(5000, 9)) @@ (AF_INET6 :> sockaddr_in6(5000, 9))
MCRemoteAddr == {sockaddr_in(4000, 2)}

Symmetry == Permutations(Conns)

=============================================================================

----------------------------- MODULE IdsProofs ------------------------------
(***************************************************************************)
(* Proofs about Ids, for any number of servers and any bound on the ids.   *)
(***************************************************************************)
EXTENDS Ids, TLAPS

\* ++ and -- of an unsigned integer yield one again; below the modulus they are
\* addition and subtraction.
LEMMA Arithmetic ==
    ASSUME NEW i \in ClientId
    PROVE  /\ Incremented(i) \in ClientId
           /\ Decremented(i) \in ClientId
           /\ i + 1 < IdModulus => Incremented(i) = i + 1
           /\ i > 0 => Decremented(i) = i - 1
BY IdsAssumption DEF Incremented, Decremented, ClientId

-----------------------------------------------------------------------------
(* Type correctness *)

\* The initial state is well typed.
LEMMA TypeInit == Init => TypeOK
<1>1. 0 \in ClientId /\ 1 \in ClientId
  BY IdsAssumption DEF ClientId
<1> QED BY <1>1 DEF Init, TypeOK

\* Whatever the threads overwrite of each other's work, ids stay unsigned.
LEMMA TypeStep == TypeOK /\ [Next]_vars => TypeOK'
<1> SUFFICES ASSUME TypeOK, [Next]_vars PROVE TypeOK'
  OBVIOUS
<1> USE DEF TypeOK
<1>1. ASSUME NEW s \in Servers, BeginTake(s) PROVE TypeOK'
  BY <1>1 DEF BeginTake
<1>2. ASSUME NEW s \in Servers, Take(s) PROVE TypeOK'
  <2>1. loaded[s] \in ClientId /\ next_available_id' \in ClientId
    BY <1>2, Arithmetic DEF Take
  <2> QED BY <1>2, <2>1 DEF Take
<1>3. ASSUME NEW s \in Servers, AcceptClient(s) PROVE TypeOK'
  BY <1>3 DEF AcceptClient
<1>4. ASSUME NEW s \in Servers, AcceptFails(s) PROVE TypeOK'
  BY <1>4 DEF AcceptFails
<1>5. ASSUME NEW s \in Servers, TakeBack(s) PROVE TypeOK'
  <2>1. next_available_id' \in ClientId
    BY <1>5, Arithmetic DEF TakeBack
  <2> QED BY <1>5, <2>1 DEF TakeBack
<1>6. ASSUME NEW s \in Servers, NEW i \in ids[s], RemoveClient(s, i) PROVE TypeOK'
  BY <1>6 DEF RemoveClient
<1>7. CASE UNCHANGED vars
  BY <1>7 DEF vars
<1> QED BY <1>1, <1>2, <1>3, <1>4, <1>5, <1>6, <1>7 DEF Next

\* client_id stays an unsigned integer in every interleaving of the loads and
\* stores of ++ and --, the decrement below 0 included.
THEOREM TypeCorrect == Spec => []TypeOK
BY TypeInit, TypeStep, PTL DEF Spec

-----------------------------------------------------------------------------
(* Uniqueness.  IdsUniqueUnlessRaced says nothing of ids that a thread has     *)
(* taken and not yet given to a client.  The invariant treats those like the   *)
(* ids of clients: all of them lie below next_available_id and are different.  *)

\* s has taken new_client_id and neither used it nor taken it back.
Holds(s) == pc[s] \in {"accepting", "returning"}

\* Ids in use are among those given out.
Given == 1..(next_available_id - 1)

\* What is true of ids until the first race.
IdsInUse ==
    /\ next_available_id > 0
    /\ AllIds \subseteq Given
    /\ \A s \in Servers : Holds(s) => new_client_id[s] \in Given \ AllIds
    /\ \A s, t \in Servers :
         (s # t /\ Holds(s) /\ Holds(t)) => new_client_id[s] # new_client_id[t]
    /\ ~doubled

IInv ==
    /\ TypeOK
    /\ \A s \in Servers : pc[s] = "taking" => loaded[s] < MaxId
    /\ ~raced => IdsInUse

\* No id is in use at the start.
LEMMA UniqueInit == Init => IInv
<1> SUFFICES ASSUME Init PROVE IInv
  OBVIOUS
<1>1. TypeOK
  BY TypeInit
<1>2. AllIds = {}
  BY DEF Init, AllIds
<1> QED BY <1>1, <1>2 DEF Init, IInv, IdsInUse, Holds

\* The ids of all clients after one server's set has changed.
LEMMA AllIdsAfter ==
    ASSUME TypeOK, NEW s \in Servers, NEW S, ids' = [ids EXCEPT ![s] = S]
    PROVE  /\ AllIds' \subseteq AllIds \cup S
           /\ \A i : i \in S => i \in AllIds'
BY DEF AllIds, TypeOK

\* A load, or a store that does not race, keeps ids in use below
\* next_available_id and different from each other.
LEMMA UniqueStep == IInv /\ [Next]_vars => IInv'
<1> SUFFICES ASSUME IInv, [Next]_vars PROVE IInv'
  OBVIOUS
<1>0. TypeOK /\ TypeOK'
  BY TypeStep DEF IInv
<1>a. /\ \A s \in Servers : /\ loaded[s] \in ClientId /\ new_client_id[s] \in ClientId
                            /\ ids[s] \subseteq AllIds
      /\ next_available_id \in ClientId
  BY <1>0 DEF TypeOK, AllIds
<1>b. /\ MaxId \in Nat /\ IdModulus \in Nat /\ MaxId + 1 < IdModulus
      /\ next_available_id \in Nat /\ next_available_id < IdModulus
      /\ \A s \in Servers : loaded[s] \in Nat /\ new_client_id[s] \in Nat
  <2>1. \A i \in ClientId : i \in Nat /\ i < IdModulus
    BY IdsAssumption DEF ClientId
  <2> QED BY <1>a, <2>1, IdsAssumption
<1>1. ASSUME NEW s \in Servers, BeginTake(s) PROVE IInv'
  <2>1. \A t \in Servers : pc'[t] = "taking" => loaded'[t] < MaxId
    BY <1>0, <1>1 DEF BeginTake, IInv, TypeOK
  <2>2. UNCHANGED <<AllIds, Given, new_client_id, doubled, raced, next_available_id>>
    BY <1>1 DEF BeginTake, AllIds, Given
  <2>3. \A t \in Servers : Holds(t)' => Holds(t)
    BY <1>0, <1>1 DEF BeginTake, Holds, TypeOK
  <2> QED BY <1>0, <2>1, <2>2, <2>3 DEF IInv, IdsInUse
<1>2. ASSUME NEW s \in Servers, Take(s) PROVE IInv'
  <2>1. \A t \in Servers : pc'[t] = "taking" => loaded'[t] < MaxId
    BY <1>0, <1>2 DEF Take, IInv, TypeOK
  <2>2. ASSUME ~raced' PROVE IdsInUse'
    <3>1. ~raced /\ IdsInUse /\ loaded[s] = next_available_id
      BY <1>2, <2>2 DEF Take, IInv
    <3>2. next_available_id' = next_available_id + 1
      <4>1. loaded[s] + 1 < IdModulus
        BY <1>2, <1>b DEF Take, IInv
      <4> QED BY <1>2, <1>a, <3>1, <4>1, Arithmetic DEF Take
    <3>3. /\ AllIds' = AllIds /\ UNCHANGED doubled
          /\ new_client_id'[s] = next_available_id
          /\ \A t \in Servers \ {s} : /\ new_client_id'[t] = new_client_id[t]
                                      /\ Holds(t)' <=> Holds(t)
      BY <1>0, <1>2, <3>1 DEF Take, AllIds, Holds, TypeOK
    <3>4. Given' = Given \cup {next_available_id} /\ next_available_id \notin Given
      BY <1>b, <3>1, <3>2 DEF Given, IdsInUse
    <3> QED BY <1>b, <3>1, <3>2, <3>3, <3>4 DEF IdsInUse
  <2> QED BY <1>0, <2>1, <2>2 DEF IInv
<1>3. ASSUME NEW s \in Servers, AcceptClient(s) PROVE IInv'
  <2>1. \A t \in Servers : pc'[t] = "taking" => loaded'[t] < MaxId
    BY <1>0, <1>3 DEF AcceptClient, IInv, TypeOK
  <2>2. ASSUME ~raced' PROVE IdsInUse'
    <3>1. IdsInUse /\ Holds(s) /\ new_client_id[s] \in Given \ AllIds
      BY <1>3, <2>2 DEF AcceptClient, IInv, IdsInUse, Holds
    <3>2. AllIds' \subseteq AllIds \cup {new_client_id[s]}
      BY <1>0, <1>3, <1>a, AllIdsAfter DEF AcceptClient
    <3>3. ~doubled' /\ UNCHANGED <<Given, new_client_id, next_available_id>>
      BY <1>3, <3>1 DEF AcceptClient, IdsInUse, Given
    <3>4. ~Holds(s)' /\ \A t \in Servers \ {s} : Holds(t)' <=> Holds(t)
      BY <1>0, <1>3 DEF AcceptClient, Holds, TypeOK
    <3> QED BY <3>1, <3>2, <3>3, <3>4 DEF IdsInUse
  <2> QED BY <1>0, <2>1, <2>2 DEF IInv
<1>4. ASSUME NEW s \in Servers, AcceptFails(s) PROVE IInv'
  <2>1. \A t \in Servers : pc'[t] = "taking" => loaded'[t] < MaxId
    BY <1>0, <1>4 DEF AcceptFails, IInv, TypeOK
  <2>2. UNCHANGED <<AllIds, Given, new_client_id, doubled, raced, next_available_id>>
    BY <1>4 DEF AcceptFails, AllIds, Given
  <2>3. \A t \in Servers : Holds(t)' <=> Holds(t)
    BY <1>0, <1>4 DEF AcceptFails, Holds, TypeOK
  <2> QED BY <1>0, <2>1, <2>2, <2>3 DEF IInv, IdsInUse
<1>5. ASSUME NEW s \in Servers, TakeBack(s) PROVE IInv'
  <2>1. \A t \in Servers : pc'[t] = "taking" => loaded'[t] < MaxId
    BY <1>0, <1>5 DEF TakeBack, IInv, TypeOK
  <2>2. ASSUME ~raced' PROVE IdsInUse'
    <3>1. /\ IdsInUse /\ Holds(s) /\ new_client_id[s] \in Given \ AllIds
          /\ loaded[s] = next_available_id
          /\ next_available_id = Incremented(new_client_id[s])
      BY <1>5, <2>2 DEF TakeBack, IInv, IdsInUse, Holds
    <3>2. /\ next_available_id = new_client_id[s] + 1
          /\ next_available_id' = new_client_id[s] /\ new_client_id[s] > 0
      <4>1. new_client_id[s] < next_available_id /\ new_client_id[s] > 0
        BY <1>a, <1>b, <3>1 DEF Given
      <4>2. new_client_id[s] + 1 < IdModulus
        BY <1>b, <4>1
      <4> QED BY <1>5, <1>a, <1>b, <3>1, <4>1, <4>2, Arithmetic DEF TakeBack
    <3>3. Given' = Given \ {new_client_id[s]}
      BY <1>a, <1>b, <3>2 DEF Given
    <3>4. ~Holds(s)' /\ \A t \in Servers \ {s} : Holds(t)' <=> Holds(t)
      BY <1>0, <1>5 DEF TakeBack, Holds, TypeOK
    <3>5. UNCHANGED <<AllIds, new_client_id, doubled>>
      BY <1>5 DEF TakeBack, AllIds
    <3> QED BY <1>a, <1>b, <3>1, <3>2, <3>3, <3>4, <3>5 DEF IdsInUse
  <2> QED BY <1>0, <2>1, <2>2 DEF IInv
<1>6. ASSUME NEW s \in Servers, NEW i \in ids[s], RemoveClient(s, i) PROVE IInv'
  <2>1. AllIds' \subseteq AllIds
    BY <1>0, <1>6, <1>a, AllIdsAfter DEF RemoveClient
  <2>2. UNCHANGED <<pc, loaded, Given, new_client_id, doubled, raced, next_available_id>>
    BY <1>6 DEF RemoveClient, Given
  <2> QED BY <1>0, <2>1, <2>2 DEF IInv, IdsInUse, Holds
<1>7. CASE UNCHANGED vars
  BY <1>0, <1>7 DEF vars, IInv, IdsInUse, Holds, AllIds, Given
<1> QED BY <1>1, <1>2, <1>3, <1>4, <1>5, <1>6, <1>7 DEF Next

\* Ids of the clients of all servers are different, and none is 0, until a ++ or
\* -- of next_available_id races or an id is taken back out of turn.
THEOREM UniqueUnlessRaced == Spec => []IdsUniqueUnlessRaced
<1>1. IInv => IdsUniqueUnlessRaced
  BY DEF IInv, IdsInUse, IdsUniqueUnlessRaced, Given
<1> QED BY <1>1, UniqueInit, UniqueStep, PTL DEF Spec

=============================================================================

---------------------------- MODULE StreamProofs ----------------------------
(***************************************************************************)
(* Proofs about Stream, for every set of connections and messages, every   *)
(* configuration of the poll_group and every value of the bounds.          *)
(***************************************************************************)
EXTENDS Stream, SequenceTheorems, TLAPS

-----------------------------------------------------------------------------
(* The operators of the model *)

\* What comes next extends what came before.
LEMMA PrefixGrows ==
    ASSUME NEW S, NEW s \in Seq(S), NEW m \in 0..Len(s), NEW n \in 0..(Len(s) - m)
    PROVE  /\ SubSeq(s, 1, m) \o SubSeq(s, m + 1, m + n) = SubSeq(s, 1, m + n)
           /\ SubSeq(s, 1, m) \in Seq(S) /\ Len(SubSeq(s, 1, m)) = m
           /\ SubSeq(s, m + 1, m + n) \in Seq(S) /\ Len(SubSeq(s, m + 1, m + n)) = n
<1>1. Len(s) \in Nat /\ m \in Nat /\ n \in Nat /\ m + n <= Len(s)
  OBVIOUS
<1>2. \A i \in 1..Len(s) : s[i] \in S
  BY ElementOfSeq
<1>3. SubSeq(s, 1, m) \in Seq(S) /\ Len(SubSeq(s, 1, m)) = m
  BY <1>1, <1>2, SubSeqProperties
<1>4. SubSeq(s, m + 1, m + n) \in Seq(S) /\ Len(SubSeq(s, m + 1, m + n)) = n
  <2>1. \A i \in (m + 1)..(m + n) : s[i] \in S
    BY <1>1, <1>2
  <2> QED BY <1>1, <2>1, SubSeqProperties
<1>5. 1 \in 1..(Len(s) + 1) /\ m \in (1 - 1)..Len(s) /\ m + n \in m..Len(s)
  BY <1>1
<1>6. SubSeq(s, 1, m) \o SubSeq(s, m + 1, m + n) = SubSeq(s, 1, m + n)
  BY <1>5, ConcatAdjacentSubSeq
<1> QED BY <1>3, <1>4, <1>6

\* The next n elements behind what was there and the m elements before them.
LEMMA WireGrows ==
    ASSUME NEW S, NEW s \in Seq(S), NEW t \in Seq(S),
           NEW m \in 0..Len(s), NEW n \in 0..(Len(s) - m)
    PROVE  /\ (t \o SubSeq(s, 1, m)) \o SubSeq(s, m + 1, m + n) = t \o SubSeq(s, 1, m + n)
           /\ t \o SubSeq(s, 1, m + n) \in Seq(S)
<1> DEFINE a == SubSeq(s, 1, m)
           b == SubSeq(s, m + 1, m + n)
<1>0. a \o b = SubSeq(s, 1, m + n)
  BY PrefixGrows
<1>1. a \in Seq(S) /\ b \in Seq(S)
  BY PrefixGrows
<1> HIDE DEF a, b
<1>2. (t \o a) \o b = t \o (a \o b) /\ a \o b \in Seq(S)
  <2>1. (t \o a) \o b = t \o (a \o b)
    BY <1>1
  <2>2. a \o b \in Seq(S)
    BY <1>1, ConcatProperties, Zenon
  <2> QED BY <2>1, <2>2
<1>3. t \o (a \o b) \in Seq(S)
  BY <1>2, ConcatProperties
<1> QED BY <1>0, <1>2, <1>3 DEF a, b

\* A sequence is its first n elements and the rest.
LEMMA Cut ==
    ASSUME NEW S, NEW s \in Seq(S), NEW n \in 0..Len(s)
    PROVE  /\ SubSeq(s, 1, n) \o SubSeq(s, n + 1, Len(s)) = s
           /\ SubSeq(s, 1, n) \in Seq(S) /\ Len(SubSeq(s, 1, n)) = n
           /\ SubSeq(s, n + 1, Len(s)) \in Seq(S)
<1>1. PICK k \in 0..(Len(s) - n) : n + k = Len(s)
  <2>1. Len(s) - n \in 0..(Len(s) - n) /\ n + (Len(s) - n) = Len(s)
    OBVIOUS
  <2> QED BY <2>1
<1>2. SubSeq(s, 1, Len(s)) = s
  BY SubSeqFull
<1>3. /\ SubSeq(s, 1, n) \o SubSeq(s, n + 1, n + k) = SubSeq(s, 1, n + k)
      /\ SubSeq(s, 1, n) \in Seq(S) /\ Len(SubSeq(s, 1, n)) = n
      /\ SubSeq(s, n + 1, n + k) \in Seq(S)
  BY PrefixGrows
<1> QED BY <1>1, <1>2, <1>3, Zenon

\* A prefix of what was sent is its first elements.
LEMMA PrefixOfConcat ==
    ASSUME NEW S, NEW s \in Seq(S), NEW t \in Seq(S)
    PROVE  SubSeq(s \o t, 1, Len(s)) = s /\ Len(s) <= Len(s \o t)
<1>1. /\ s \o t \in Seq(S) /\ Len(s \o t) = Len(s) + Len(t)
      /\ \A i \in 1..Len(s) : (s \o t)[i] = s[i]
      /\ Len(s) \in Nat /\ Len(t) \in Nat
  BY ConcatProperties
<1> DEFINE u == s \o t
<1>2. SubSeq(u, 1, Len(s)) = s
  <2>1. u \in Seq(S) /\ Len(s) <= Len(u) /\ \A i \in 1..Len(s) : u[i] = s[i]
    BY <1>1
  <2> HIDE DEF u
  <2>2. \A i \in 1..Len(s) : u[i] \in S
    BY <1>1, <2>1, ElementOfSeq
  <2>3. /\ SubSeq(u, 1, Len(s)) \in Seq(S) /\ Len(SubSeq(u, 1, Len(s))) = Len(s)
        /\ \A i \in 1..Len(s) : SubSeq(u, 1, Len(s))[i] = u[i]
    BY <1>1, <2>2, SubSeqProperties
  <2> QED BY <2>1, <2>3, SeqEqual
<1> QED BY <1>1, <1>2

\* The first n elements of s move from s to g.
LEMMA Handover ==
    ASSUME NEW g \in Seq(Nat), NEW s \in Seq(Nat), NEW n \in 0..Len(s)
    PROVE  LET h == g \o SubSeq(s, 1, n) IN
           /\ h \in Seq(Nat)
           /\ h \o SubSeq(s, n + 1, Len(s)) = g \o s
           /\ Len(h) <= Len(g \o s) /\ h = SubSeq(g \o s, 1, Len(h))
<1> DEFINE a == SubSeq(s, 1, n)
           b == SubSeq(s, n + 1, Len(s))
           h == g \o a
<1>0. a \o b = s
  BY Cut
<1>1. a \in Seq(Nat) /\ b \in Seq(Nat)
  BY Cut
<1> HIDE DEF a, b
<1>2. h \o b = g \o (a \o b) /\ h \in Seq(Nat)
  BY <1>1
<1> HIDE DEF h
<1>3. h \o b = g \o s
  BY <1>0, <1>2
<1>4. SubSeq(h \o b, 1, Len(h)) = h /\ Len(h) <= Len(h \o b)
  BY <1>1, <1>2, PrefixOfConcat
<1> QED BY <1>2, <1>3, <1>4 DEF a, b, h

\* Byte k + 1 arrives behind the first k.
LEMMA Counting ==
    ASSUME NEW k \in Nat
    PROVE  Append([n \in 1..k |-> n], k + 1) = [n \in 1..(k + 1) |-> n]
<1> DEFINE w == [n \in 1..k |-> n]
           v == [n \in 1..(k + 1) |-> n]
           u == Append(w, k + 1)
<1>1. w \in Seq(Nat) /\ Len(w) = k /\ \A i \in 1..k : w[i] = i
  OBVIOUS
<1>2. v \in Seq(Nat) /\ Len(v) = k + 1 /\ \A i \in 1..(k + 1) : v[i] = i
  OBVIOUS
<1> HIDE DEF w, v
<1>3. /\ u \in Seq(Nat) /\ Len(u) = k + 1 /\ u[k + 1] = k + 1
      /\ \A i \in 1..k : u[i] = i
  BY <1>1
<1> HIDE DEF u
<1>4. \A i \in 1..(k + 1) : u[i] = v[i]
  BY <1>2, <1>3
<1>5. u = v
  BY <1>2, <1>3, <1>4, SeqEqual
<1> QED BY <1>5 DEF u, w, v

\* Appending to what has not been received appends to what was sent.
LEMMA Arrival ==
    ASSUME NEW g \in Seq(Nat), NEW s \in Seq(Nat), NEW e \in Nat
    PROVE  /\ g \o Append(s, e) = Append(g \o s, e)
           /\ Len(g) <= Len(Append(g \o s, e))
           /\ g = SubSeq(Append(g \o s, e), 1, Len(g))
<1>1. g \o Append(s, e) = Append(g \o s, e)
  OBVIOUS
<1>2. Append(s, e) \in Seq(Nat)
  OBVIOUS
<1>3. SubSeq(g \o Append(s, e), 1, Len(g)) = g /\ Len(g) <= Len(g \o Append(s, e))
  BY <1>2, PrefixOfConcat
<1> QED BY <1>1, <1>3

\* A message made of a char array has all its bytes but the terminator.
LEMMA MessageBytes ==
    ASSUME NEW literal \in Literals
    PROVE  buffer_from_array(literal) \in Seq(Nat \ {0})
<1>1. /\ literal \in Seq(Nat) /\ Len(literal) > 0
      /\ \A i \in 1..Len(literal) : literal[i] = 0 <=> i = Len(literal)
  BY LiteralsAssumption
<1>2. \A i \in 1..(Len(literal) - 1) : literal[i] \in Nat \ {0}
  BY <1>1, ElementOfSeq
<1>3. Len(literal) - 1 \in Int
  BY <1>1
<1> QED BY <1>2, <1>3, SubSeqProperties DEF buffer_from_array, buffer_from

\* The buffer that receive returns is what ::recv put into it.
LEMMA ReceiveBufferExact ==
    ASSUME NEW S, NEW b \in Seq(S), NEW size \in Nat, Len(b) <= size
    PROVE  receive_buffer(size, b) = b
<1> DEFINE r == [i \in 1..Len(b) |-> b[i]]
<1>1. Len(b) \in Nat /\ b = r
  OBVIOUS
<1>2. Len(Filled(size, b)) = size /\ \A i \in 1..Len(b) : Filled(size, b)[i] = b[i]
  BY <1>1 DEF Filled
<1>3. receive_buffer(size, b) = [i \in 1..Len(b) |->
          IF i <= Len(Filled(size, b)) THEN Filled(size, b)[i] ELSE 0]
  BY DEF receive_buffer, resize
<1>4. \A i \in 1..Len(b) : (IF i <= Len(Filled(size, b)) THEN Filled(size, b)[i] ELSE 0) = b[i]
  BY <1>1, <1>2
<1>5. receive_buffer(size, b) = r
  BY <1>3, <1>4
<1> QED BY <1>1, <1>5

-----------------------------------------------------------------------------
(* The inductive invariant *)

\* How far a send has got: the wire holds what was there before the call and the
\* bytes_sent bytes of the buffer that ::send has taken, and there is more to come.
SendUnderWay ==
    call.op = "send" =>
        /\ call.data \in Seq(Nat \ {0}) /\ call.before \in Seq(Nat \ {0})
        /\ Len(call.data) <= MaxSent /\ call.bytes_sent < Len(call.data)
        /\ wire[call.conn] = call.before \o SubSeq(call.data, 1, call.bytes_sent)

\* Nothing waits for a connection that is closed.
ClosedIsEmpty == \A c \in Conns : ~is_connected[c] => inbound[c] = <<>>

\* Entries of the poll_group tell the truth about connections not used since
\* ::poll filled them in, for a poll that fails reports them again.
EntriesKept ==
    \A c \in DOMAIN pfds_ \ touched :
        ("POLLIN" \in pfds_[c] /\ is_connected[c]) => RecvReady(c)

IInv ==
    /\ TypeOK
    /\ SendUnderWay /\ ClosedIsEmpty /\ ReceivedInOrder
    /\ EntriesKept /\ PromisesKept

\* The initial state satisfies the invariant.
LEMMA InvInit == Init => IInv
<1> SUFFICES ASSUME Init PROVE IInv
  OBVIOUS
<1>1. TypeOK
  <2>1. /\ arrived \in [Conns -> 0..MaxArrived] /\ queued \in [Conns -> 0..Window]
    BY StreamAssumption DEF Init
  <2>2. /\ inbound \in [Conns -> Seq(1..MaxArrived)] /\ got \in [Conns -> Seq(Nat)]
        /\ wire \in [Conns -> Seq(Nat \ {0})]
    BY DEF Init
  <2> QED BY <2>1, <2>2 DEF Init, TypeOK
<1>2. SendUnderWay
  BY DEF Init, SendUnderWay, NoCall
<1>3. ClosedIsEmpty /\ EntriesKept /\ PromisesKept
  BY DEF Init, ClosedIsEmpty, EntriesKept, PromisesKept
<1>4. ReceivedInOrder
  <2> SUFFICES ASSUME NEW c \in Conns
               PROVE  /\ got[c] \o inbound[c] = Sent(c)
                      /\ Len(got[c]) <= arrived[c] /\ got[c] = SubSeq(Sent(c), 1, Len(got[c]))
    BY DEF ReceivedInOrder
  <2>1. got[c] = <<>> /\ inbound[c] = <<>> /\ arrived[c] = 0
    BY DEF Init
  <2>2. Sent(c) = <<>>
    BY <2>1 DEF Sent
  <2>3. SubSeq(Sent(c), 1, 0) = <<>> /\ Len(<<>>) = 0 /\ <<>> \o <<>> = <<>>
    BY <2>2, SubSeqEmpty
  <2> QED BY <2>1, <2>2, <2>3
<1> QED BY <1>1, <1>2, <1>3, <1>4 DEF IInv

-----------------------------------------------------------------------------
(* What the actions have in common *)

\* An operation under way is known by its name.
LEMMA CallKinds ==
    ASSUME TypeOK
    PROVE  /\ call.op = "send" => call \in SendCalls
           /\ call.op = "receive" => call \in ReceiveCalls
           /\ NoCall.op = "none"
BY DEF TypeOK, NoCall, SendCalls, ReceiveCalls

\* No send makes progress.
LEMMA SendWaits ==
    ASSUME IInv, UNCHANGED wire, call' = call \/ call' = NoCall \/ call' \in ReceiveCalls
    PROVE  SendUnderWay'
<1>1. CASE call' = call
  BY <1>1 DEF IInv, SendUnderWay
<1>2. CASE call' = NoCall \/ call' \in ReceiveCalls
  BY <1>2 DEF SendUnderWay, NoCall, ReceiveCalls
<1> QED BY <1>1, <1>2

\* Nothing arrives and nothing is received.
LEMMA ReceiveWaits ==
    ASSUME IInv, UNCHANGED <<is_connected, arrived, inbound, got>>
    PROVE  ClosedIsEmpty' /\ ReceivedInOrder'
BY DEF IInv, ClosedIsEmpty, ReceivedInOrder, Sent

\* A connection that ::recv could be called on can still be, unless it was used.
LEMMA PromisesLast ==
    ASSUME IInv, UNCHANGED pfds_, promised' \subseteq promised, touched \subseteq touched',
           \A c \in Conns \ touched' : /\ is_connected'[c] => is_connected[c]
                                       /\ RecvReady(c) => RecvReady(c)'
    PROVE  EntriesKept' /\ PromisesKept'
<1>1. DOMAIN pfds_ \subseteq Conns /\ promised \subseteq Conns
  BY DEF IInv, TypeOK
<1> QED BY <1>1 DEF IInv, EntriesKept, PromisesKept

\* disconnect() closes the connection and loses what had not been received.
LEMMA DisconnectEffect ==
    ASSUME IInv, NEW c \in Conns, Disconnects(c), Touch(c), UNCHANGED <<remote, arrived, got>>
    PROVE  /\ is_connected' \in [Conns -> BOOLEAN] /\ inbound' \in [Conns -> Seq(1..MaxArrived)]
           /\ queued' \in [Conns -> 0..Window]
           /\ promised' \subseteq Conns /\ touched' \subseteq Conns
           /\ ClosedIsEmpty' /\ ReceivedInOrder' /\ EntriesKept' /\ PromisesKept'
<1>1. 0 \in 0..Window /\ <<>> \in Seq(1..MaxArrived)
  BY StreamAssumption
<1>2. /\ is_connected' \in [Conns -> BOOLEAN] /\ inbound' \in [Conns -> Seq(1..MaxArrived)]
      /\ queued' \in [Conns -> 0..Window]
  BY <1>1 DEF IInv, TypeOK, Disconnects
<1>3. promised' \subseteq Conns /\ touched' \subseteq Conns
  BY DEF IInv, TypeOK, Touch
<1>4. /\ ~is_connected'[c] /\ inbound'[c] = <<>>
      /\ \A d \in Conns \ {c} : is_connected'[d] = is_connected[d] /\ inbound'[d] = inbound[d]
  BY DEF IInv, TypeOK, Disconnects
<1>5. ClosedIsEmpty' /\ ReceivedInOrder'
  BY <1>4 DEF IInv, ClosedIsEmpty, ReceivedInOrder, Sent
<1>6. EntriesKept' /\ PromisesKept'
  <2>1. \A d \in Conns \ touched' : d # c
    BY DEF Touch
  <2>2. \A d \in Conns \ touched' : /\ is_connected'[d] => is_connected[d]
                                    /\ RecvReady(d) => RecvReady(d)'
    BY <1>4, <2>1 DEF RecvReady
  <2> QED BY <2>2, PromisesLast DEF Touch
<1> QED BY <1>2, <1>3, <1>5, <1>6

-----------------------------------------------------------------------------
(* Every action preserves the invariant *)

\* send begins, or returns at once with an error.
LEMMA SendStep ==
    ASSUME IInv, NEW c \in Conns, NEW literal \in Literals, send(c, literal)
    PROVE  IInv'
<1> DEFINE data == buffer_from_array(literal)
<1>1. UNCHANGED <<is_connected, remoteVars, inbound, got, queued, wire, pollVars>>
  BY DEF send
<1>2. data \in Seq(Nat \ {0}) /\ wire[c] \in Seq(Nat \ {0})
  BY MessageBytes DEF IInv, TypeOK
<1>3. /\ call' \in {NoCall} \cup SendCalls \cup ReceiveCalls /\ ec' \in BOOLEAN
      /\ SendUnderWay'
  <2>1. CASE Fails
    BY <1>1, <2>1, SendWaits DEF Fails
  <2>2. CASE ~Fails
    <3>1. /\ ~is_empty(data) /\ Len(wire[c]) + Len(data) <= MaxSent /\ PassesEc
          /\ call' = [op |-> "send", conn |-> c, data |-> data, bytes_sent |-> 0,
                       before |-> wire[c]]
      BY <2>2 DEF send
    <3> HIDE DEF data
    <3>2. Len(data) \in Nat /\ Len(wire[c]) \in Nat /\ Len(data) > 0 /\ MaxSent \in Nat
      BY <1>2, <3>1, StreamAssumption DEF is_empty
    <3>3. data \in Seq(Nat) /\ wire[c] \in Seq(Nat)
      BY <1>2
    <3>4. call' \in SendCalls
      BY <3>1, <3>2, <3>3 DEF SendCalls
    <3>5. ec' \in BOOLEAN
      BY <3>1 DEF PassesEc, IInv, TypeOK
    <3>6. wire[c] = wire[c] \o SubSeq(data, 1, 0)
      BY <1>2, SubSeqEmpty, ConcatEmptySeq
    <3>7. SendUnderWay'
      BY <1>1, <1>2, <3>1, <3>2, <3>6 DEF SendUnderWay
    <3> QED BY <3>4, <3>5, <3>7
  <2> QED BY <2>1, <2>2
<1> HIDE DEF data
<1>4. TypeOK'
  BY <1>1, <1>3 DEF IInv, TypeOK, remoteVars, pollVars
<1>5. ClosedIsEmpty' /\ ReceivedInOrder'
  BY <1>1, ReceiveWaits DEF remoteVars
<1>6. EntriesKept' /\ PromisesKept'
  BY <1>1, PromisesLast DEF remoteVars, pollVars, RecvReady
<1> QED BY <1>3, <1>4, <1>5, <1>6 DEF IInv

\* A step that ends a call without effect, or begins a receive.
LEMMA CallOnly ==
    ASSUME IInv, UNCHANGED <<is_connected, remoteVars, inbound, got, queued, wire, pollVars>>,
           call' = NoCall \/ call' \in ReceiveCalls, ec' \in BOOLEAN
    PROVE  IInv'
<1>1. TypeOK'
  BY DEF IInv, TypeOK, remoteVars, pollVars
<1>2. SendUnderWay'
  BY SendWaits
<1>3. ClosedIsEmpty' /\ ReceivedInOrder'
  BY ReceiveWaits DEF remoteVars
<1>4. EntriesKept' /\ PromisesKept'
  BY PromisesLast DEF remoteVars, pollVars, RecvReady
<1> QED BY <1>1, <1>2, <1>3, <1>4 DEF IInv

\* ::send takes the next bytes of the buffer, all or some.
LEMMA Queues ==
    ASSUME IInv, NEW c \in Conns, NEW n \in 0..Window, SendQueues(c, n)
    PROVE  /\ call \in SendCalls /\ call.conn = c
           /\ call.bytes_sent + n \in 0..Len(call.data)
           /\ call.bytes_sent + n < Len(call.data) <=> call'.op = "send"
           /\ wire' \in [Conns -> Seq(Nat \ {0})]
           /\ wire'[c] = call.before \o SubSeq(call.data, 1, call.bytes_sent + n)
           /\ call' \in {NoCall} \cup SendCalls
           /\ call'.op = "send" => call' = [call EXCEPT !.bytes_sent = @ + n]
<1>1. /\ call \in SendCalls /\ call.conn = c /\ call.op = "send"
      /\ call.data \in Seq(Nat \ {0}) /\ call.before \in Seq(Nat \ {0})
      /\ Len(call.data) <= MaxSent /\ call.bytes_sent < Len(call.data)
      /\ wire[c] = call.before \o SubSeq(call.data, 1, call.bytes_sent)
      /\ wire \in [Conns -> Seq(Nat \ {0})]
  BY CallKinds DEF IInv, TypeOK, SendUnderWay, SendQueues, Sending
<1> DEFINE data == call.data
           b == call.bytes_sent
           before == call.before
<1>2. /\ Len(data) \in Nat /\ b \in Nat /\ n \in Nat /\ n <= Len(data) - b
      /\ MaxSent \in Nat
  <2>1. b \in 0..MaxSent /\ n <= Len(data) - b
    BY <1>1 DEF SendCalls, SendQueues
  <2> QED BY <1>1, <2>1, StreamAssumption
<1>a. /\ data \in Seq(Nat \ {0}) /\ before \in Seq(Nat \ {0}) /\ Len(data) <= MaxSent
      /\ b < Len(data) /\ wire[c] = before \o SubSeq(data, 1, b)
  BY <1>1
<1> HIDE DEF data, b, before
<1>3. b \in 0..Len(data) /\ n \in 0..(Len(data) - b) /\ b + n \in 0..Len(data)
  BY <1>2, <1>a
<1> DEFINE Byte == Nat \ {0}
<1>4. data \in Seq(Byte) /\ before \in Seq(Byte) /\ wire \in [Conns -> Seq(Byte)]
  BY <1>1, <1>a
<1> HIDE DEF Byte
<1>5. /\ (before \o SubSeq(data, 1, b)) \o SubSeq(data, b + 1, b + n)
            = before \o SubSeq(data, 1, b + n)
      /\ before \o SubSeq(data, 1, b + n) \in Seq(Byte)
  BY <1>3, <1>4, WireGrows
<1>6. wire' = [wire EXCEPT ![c] = before \o SubSeq(data, 1, b + n)]
  <2>1. wire' = [wire EXCEPT ![c] = wire[c] \o SubSeq(data, b + 1, b + n)]
    BY DEF SendQueues, data, b
  <2> QED BY <1>5, <1>a, <2>1
<1>7. /\ wire'[c] = before \o SubSeq(data, 1, b + n)
      /\ wire' \in [Conns -> Seq(Nat \ {0})]
  <2>1. wire' \in [Conns -> Seq(Byte)] /\ wire'[c] = before \o SubSeq(data, 1, b + n)
    BY <1>4, <1>5, <1>6
  <2> QED BY <2>1 DEF Byte
<1>8. IF b + n < Len(data) THEN call' = [call EXCEPT !.bytes_sent = b + n] ELSE call' = NoCall
  BY DEF SendQueues, MoreToSend, Succeeds, data, b
<1>9. b + n \in 0..MaxSent
  BY <1>2, <1>3, <1>a
<1>10. /\ call' \in {NoCall} \cup SendCalls
       /\ b + n < Len(data) <=> call'.op = "send"
       /\ call'.op = "send" => call' = [call EXCEPT !.bytes_sent = @ + n]
  <2>1. CASE b + n < Len(data)
    BY <1>1, <1>8, <1>9, <2>1 DEF SendCalls, b
  <2>2. CASE ~(b + n < Len(data))
    BY <1>8, <2>2 DEF NoCall
  <2> QED BY <2>1, <2>2
<1> QED BY <1>1, <1>3, <1>7, <1>10 DEF data, b, before

\* The loop of send goes on, or returns when everything has been taken.
LEMMA SendQueuesStep ==
    ASSUME IInv, NEW c \in Conns, NEW n \in 0..Window, SendQueues(c, n)
    PROVE  IInv'
<1>1. UNCHANGED <<is_connected, remoteVars, inbound, got, pollVars>>
  BY DEF SendQueues
<1>2. queued' \in [Conns -> 0..Window]
  <2>1. queued[c] \in 0..Window /\ n \in 0..Window /\ n <= Window - queued[c] /\ Window \in Nat
    BY StreamAssumption DEF IInv, TypeOK, SendQueues
  <2>2. queued[c] + n \in 0..Window
    BY <2>1
  <2> QED BY <2>2 DEF IInv, TypeOK, SendQueues
<1>3. ec' \in BOOLEAN
  BY DEF IInv, TypeOK, SendQueues, Succeeds
<1>4. TypeOK'
  BY <1>1, <1>2, <1>3, Queues DEF IInv, TypeOK, remoteVars, pollVars
<1>5. SendUnderWay'
  <2> SUFFICES ASSUME call'.op = "send"
               PROVE  (/\ call.data \in Seq(Nat \ {0}) /\ call.before \in Seq(Nat \ {0})
                       /\ Len(call.data) <= MaxSent /\ call.bytes_sent < Len(call.data)
                       /\ wire[call.conn] = call.before \o SubSeq(call.data, 1, call.bytes_sent))'
    BY DEF SendUnderWay
  <2>1. /\ call \in SendCalls /\ call' = [call EXCEPT !.bytes_sent = @ + n]
        /\ call.bytes_sent + n < Len(call.data) /\ call.conn = c
        /\ wire'[c] = call.before \o SubSeq(call.data, 1, call.bytes_sent + n)
    BY Queues
  <2>2. /\ call'.data = call.data /\ call'.before = call.before /\ call'.conn = c
        /\ call'.bytes_sent = call.bytes_sent + n
    BY <2>1 DEF SendCalls
  <2>3. /\ call.data \in Seq(Nat \ {0}) /\ call.before \in Seq(Nat \ {0})
        /\ Len(call.data) <= MaxSent
    BY DEF IInv, SendUnderWay, SendQueues, Sending
  <2> QED BY <2>1, <2>2, <2>3
<1>6. ClosedIsEmpty' /\ ReceivedInOrder'
  BY <1>1, ReceiveWaits DEF remoteVars
<1>7. EntriesKept' /\ PromisesKept'
  BY <1>1, PromisesLast DEF remoteVars, pollVars, RecvReady
<1> QED BY <1>4, <1>5, <1>6, <1>7 DEF IInv

\* ::recv returned data: it goes to the user unless the call only peeks.
LEMMA ReceiveDataStep ==
    ASSUME IInv, NEW c \in Conns, ReceiveData(c)
    PROVE  IInv'
<1> DEFINE s == inbound[c]
           n == IF call.size < Len(s) THEN call.size ELSE Len(s)
           h == got[c] \o SubSeq(s, 1, n)
<1>1. /\ Touch(c) /\ call' = NoCall /\ ec' = ec
      /\ UNCHANGED <<is_connected, remoteVars, queued, wire>>
  BY DEF ReceiveData, Succeeds
<1>2. call \in ReceiveCalls
  BY CallKinds DEF IInv, ReceiveData, Receiving
<1>3. /\ s \in Seq(1..MaxArrived) /\ s \in Seq(Nat) /\ got[c] \in Seq(Nat)
      /\ call.size \in Nat /\ Len(s) \in Nat
  <2>1. s \in Seq(1..MaxArrived) /\ got[c] \in Seq(Nat)
    BY DEF IInv, TypeOK
  <2>2. call.size \in Nat
    BY <1>2 DEF ReceiveCalls
  <2> HIDE DEF s
  <2>3. 1..MaxArrived \subseteq Nat
    BY StreamAssumption
  <2> QED BY <2>1, <2>2, <2>3, SeqMonotonic, LenProperties
<1>4. n \in 0..Len(s) /\ n <= call.size /\ n > 0
  BY <1>3 DEF ReceiveData
<1>5. is_connected[c]
  BY <1>3, <1>4 DEF IInv, ClosedIsEmpty
<1> HIDE DEF s, n
<1>6. receive_buffer(call.size, SubSeq(s, 1, n)) = SubSeq(s, 1, n)
  <2>1. SubSeq(s, 1, n) \in Seq(Nat) /\ Len(SubSeq(s, 1, n)) = n
    BY <1>3, <1>4, Cut
  <2> QED BY <1>3, <1>4, <2>1, ReceiveBufferExact
<1>7. /\ h \in Seq(Nat) /\ h \o SubSeq(s, n + 1, Len(s)) = got[c] \o s
      /\ Len(h) <= Len(got[c] \o s) /\ h = SubSeq(got[c] \o s, 1, Len(h))
  BY <1>3, <1>4, Handover
<1>8. SubSeq(s, n + 1, Len(s)) \in Seq(1..MaxArrived)
  BY <1>3, <1>4, Cut
<1>9. \/ UNCHANGED <<inbound, got>>
      \/ /\ inbound' = [inbound EXCEPT ![c] = SubSeq(s, n + 1, Len(s))]
         /\ got' = [got EXCEPT ![c] = h]
  <2>1. \/ UNCHANGED <<inbound, got>>
        \/ /\ inbound' = [inbound EXCEPT ![c] = SubSeq(@, n + 1, Len(@))]
           /\ got' = [got EXCEPT ![c] = @ \o receive_buffer(call.size, SubSeq(s, 1, n))]
    BY DEF ReceiveData, s, n
  <2> QED BY <1>6, <2>1 DEF s, h
<1> HIDE DEF h
<1>10. inbound' \in [Conns -> Seq(1..MaxArrived)] /\ got' \in [Conns -> Seq(Nat)]
  BY <1>7, <1>8, <1>9 DEF IInv, TypeOK
<1>11. TypeOK'
  BY <1>1, <1>10 DEF IInv, TypeOK, remoteVars, Touch
<1>12. SendUnderWay'
  BY <1>1, SendWaits
<1>13. ClosedIsEmpty' /\ ReceivedInOrder'
  <2>1. CASE UNCHANGED <<inbound, got>>
    BY <1>1, <2>1, ReceiveWaits DEF remoteVars
  <2>2. CASE /\ inbound' = [inbound EXCEPT ![c] = SubSeq(s, n + 1, Len(s))]
             /\ got' = [got EXCEPT ![c] = h]
    <3>1. /\ inbound'[c] = SubSeq(s, n + 1, Len(s)) /\ got'[c] = h
          /\ \A d \in Conns \ {c} : inbound'[d] = inbound[d] /\ got'[d] = got[d]
          /\ \A d \in Conns : Sent(d)' = Sent(d)
          /\ UNCHANGED <<is_connected, arrived>>
      BY <1>1, <2>2 DEF IInv, TypeOK, remoteVars, Sent
    <3>2. got[c] \o s = Sent(c)
      BY <1>5 DEF IInv, ReceivedInOrder, s
    <3>3. Len(Sent(c)) = arrived[c]
      BY DEF IInv, TypeOK, Sent
    <3>4. got'[c] \o inbound'[c] = Sent(c) /\ Len(got'[c]) <= arrived[c]
          /\ got'[c] = SubSeq(Sent(c), 1, Len(got'[c]))
      BY <1>7, <3>1, <3>2, <3>3
    <3>5. ClosedIsEmpty'
      BY <1>5, <3>1 DEF IInv, ClosedIsEmpty
    <3>6. ReceivedInOrder'
      BY <3>1, <3>4 DEF IInv, ReceivedInOrder
    <3> QED BY <3>5, <3>6
  <2> QED BY <1>9, <2>1, <2>2
<1>14. EntriesKept' /\ PromisesKept'
  <2>1. \A d \in Conns \ touched' : d # c /\ inbound'[d] = inbound[d]
    BY <1>1, <1>9 DEF Touch, IInv, TypeOK
  <2>2. \A d \in Conns \ touched' : /\ is_connected'[d] => is_connected[d]
                                    /\ RecvReady(d) => RecvReady(d)'
    BY <1>1, <2>1 DEF RecvReady, remoteVars
  <2> QED BY <1>1, <2>2, PromisesLast DEF Touch
<1> QED BY <1>11, <1>12, <1>13, <1>14 DEF IInv

\* ::recv returned 0 or -1.
LEMMA ReceiveEndsStep ==
    ASSUME IInv, NEW c \in Conns, NEW r \in {0, -1}, ReceiveEnds(c, r)
    PROVE  IInv'
<1>1. Touch(c) /\ call' = NoCall /\ ec' \in BOOLEAN /\ UNCHANGED <<remoteVars, got, wire>>
  BY DEF ReceiveEnds
<1>2. SendUnderWay'
  BY <1>1, SendWaits
<1>3. CASE Disconnects(c)
  <2>1. TypeOK'
    BY <1>1, <1>3, DisconnectEffect DEF IInv, TypeOK, remoteVars, Touch
  <2> QED BY <1>1, <1>2, <1>3, <2>1, DisconnectEffect DEF IInv, remoteVars
<1>4. CASE UNCHANGED <<is_connected, inbound, queued>>
  <2>1. TypeOK'
    BY <1>1, <1>4 DEF IInv, TypeOK, remoteVars, Touch
  <2>2. ClosedIsEmpty' /\ ReceivedInOrder'
    BY <1>1, <1>4, ReceiveWaits DEF remoteVars
  <2>3. EntriesKept' /\ PromisesKept'
    BY <1>1, <1>4, PromisesLast DEF remoteVars, Touch, RecvReady
  <2> QED BY <1>2, <2>1, <2>2, <2>3 DEF IInv
<1> QED BY <1>3, <1>4 DEF ReceiveEnds

\* disconnect by the user.
LEMMA DisconnectStep ==
    ASSUME IInv, NEW c \in Conns, disconnect(c)
    PROVE  IInv'
<1>1. Disconnects(c) /\ Touch(c) /\ UNCHANGED <<remoteVars, got, wire, call, ec>>
  BY DEF disconnect
<1>2. SendUnderWay'
  BY <1>1, SendWaits
<1>3. TypeOK'
  BY <1>1, DisconnectEffect DEF IInv, TypeOK, remoteVars, Touch
<1> QED BY <1>1, <1>2, <1>3, DisconnectEffect DEF IInv, remoteVars

\* Steps that neither send nor receive and concern no poll_group.
LEMMA OutsideStep ==
    ASSUME IInv, NEW c \in Conns, RemoteReads(c) \/ RemoteStopsReading(c) \/
                                  RemoteEnds(c, "fin") \/ RemoteEnds(c, "rst")
    PROVE  IInv'
<1>1. UNCHANGED <<is_connected, arrived, inbound, got, wire, call, ec, pollVars>>
  BY DEF RemoteReads, RemoteStopsReading, RemoteEnds, remoteVars
<1>2. queued' \in [Conns -> 0..Window]
  <2>1. ASSUME RemoteReads(c) PROVE queued[c] - 1 \in 0..Window
    BY <2>1, StreamAssumption DEF RemoteReads, IInv, TypeOK
  <2> QED BY <2>1 DEF IInv, TypeOK, RemoteReads, RemoteStopsReading, RemoteEnds
<1>3. reading' \in [Conns -> BOOLEAN] /\ remote' \in [Conns -> {"open", "fin", "rst"}]
  BY DEF IInv, TypeOK, RemoteReads, RemoteStopsReading, RemoteEnds, remoteVars
<1>4. TypeOK'
  BY <1>1, <1>2, <1>3 DEF IInv, TypeOK, pollVars
<1>5. SendUnderWay' /\ ClosedIsEmpty' /\ ReceivedInOrder'
  BY <1>1, SendWaits, ReceiveWaits
<1>6. \A d \in Conns : remote[d] # "open" => remote'[d] # "open"
  BY DEF IInv, TypeOK, RemoteReads, RemoteStopsReading, RemoteEnds, remoteVars
<1>7. EntriesKept' /\ PromisesKept'
  BY <1>1, <1>6, PromisesLast DEF pollVars, RecvReady
<1> QED BY <1>4, <1>5, <1>7 DEF IInv

\* A byte arrives.
LEMMA RemoteSendsStep ==
    ASSUME IInv, NEW c \in Conns, RemoteSends(c)
    PROVE  IInv'
<1> DEFINE k == arrived[c]
           t == Append(inbound[c], k + 1)
<1>1. /\ UNCHANGED <<is_connected, remote, reading, got, queued, wire, call, ec, pollVars>>
      /\ arrived' = [arrived EXCEPT ![c] = k + 1]
      /\ inbound' = [inbound EXCEPT ![c] = t] /\ is_connected[c]
  BY DEF RemoteSends
<1>2. /\ k \in Nat /\ k + 1 \in 0..MaxArrived /\ k + 1 \in 1..MaxArrived
      /\ inbound[c] \in Seq(1..MaxArrived) /\ inbound[c] \in Seq(Nat) /\ got[c] \in Seq(Nat)
  <2>1. k \in 0..MaxArrived /\ k < MaxArrived /\ MaxArrived \in Nat
    BY StreamAssumption DEF IInv, TypeOK, RemoteSends
  <2>2. inbound[c] \in Seq(1..MaxArrived) /\ got[c] \in Seq(Nat)
    BY DEF IInv, TypeOK
  <2> QED BY <2>1, <2>2
<1>3. t \in Seq(1..MaxArrived) /\ t # <<>>
  BY <1>2
<1>4. TypeOK'
  <2>1. arrived' \in [Conns -> 0..MaxArrived] /\ inbound' \in [Conns -> Seq(1..MaxArrived)]
    BY <1>1, <1>2, <1>3 DEF IInv, TypeOK
  <2> HIDE DEF t, k
  <2> QED BY <1>1, <2>1 DEF IInv, TypeOK, pollVars
<1>5. SendUnderWay'
  BY <1>1, SendWaits
<1>6. /\ got[c] \o t = Sent(c)' /\ Len(got[c]) <= k + 1
      /\ got[c] = SubSeq(Sent(c)', 1, Len(got[c]))
  <2>1. got[c] \o inbound[c] = [n \in 1..k |-> n]
    BY <1>1 DEF IInv, ReceivedInOrder, Sent
  <2>2. Sent(c)' = [n \in 1..(k + 1) |-> n]
    BY <1>1 DEF IInv, TypeOK, Sent
  <2> HIDE DEF k
  <2>3. Append(got[c] \o inbound[c], k + 1) = Sent(c)'
    BY <1>2, <2>1, <2>2, Counting
  <2>4. Len(Sent(c)') = k + 1
    BY <1>2, <2>2
  <2>5. /\ got[c] \o Append(inbound[c], k + 1) = Append(got[c] \o inbound[c], k + 1)
        /\ Len(got[c]) <= Len(Append(got[c] \o inbound[c], k + 1))
        /\ got[c] = SubSeq(Append(got[c] \o inbound[c], k + 1), 1, Len(got[c]))
    <3>1. got[c] \in Seq(Nat) /\ inbound[c] \in Seq(Nat) /\ k + 1 \in Nat
      BY <1>2
    <3> QED BY <3>1, Arrival
  <2> QED BY <2>3, <2>4, <2>5
<1> HIDE DEF t, k
<1>7. /\ inbound'[c] = t /\ arrived'[c] = k + 1 /\ UNCHANGED <<is_connected, got>>
      /\ \A d \in Conns \ {c} : inbound'[d] = inbound[d] /\ arrived'[d] = arrived[d]
  BY <1>1 DEF IInv, TypeOK
<1>8. ClosedIsEmpty'
  BY <1>1, <1>7 DEF IInv, ClosedIsEmpty
<1>9. ReceivedInOrder'
  <2> SUFFICES ASSUME NEW d \in Conns
               PROVE  (/\ is_connected[d] => got[d] \o inbound[d] = Sent(d)
                       /\ Len(got[d]) <= arrived[d] /\ got[d] = SubSeq(Sent(d), 1, Len(got[d])))'
    BY DEF ReceivedInOrder
  <2>1. CASE d = c
    BY <1>6, <1>7, <2>1
  <2>2. CASE d # c
    <3>1. Sent(d)' = Sent(d)
      BY <1>7, <2>2 DEF Sent
    <3> QED BY <1>7, <2>2, <3>1 DEF IInv, ReceivedInOrder
  <2> QED BY <2>1, <2>2
<1>10. EntriesKept' /\ PromisesKept'
  <2>1. \A d \in Conns : RecvReady(d) => RecvReady(d)'
    BY <1>1, <1>3, <1>7 DEF RecvReady
  <2> QED BY <1>1, <2>1, PromisesLast DEF pollVars
<1> QED BY <1>4, <1>5, <1>8, <1>9, <1>10 DEF IInv

\* What ::poll calls readable can be received from.
LEMMA ReadableIsReady ==
    ASSUME NEW c, NEW events, is_connected[c],
           "POLLIN" \in Revents(c, events) \/ "readable" \in ssm_from_revents(Revents(c, events))
    PROVE  RecvReady(c)
BY DEF Revents, ssm_from_revents

\* poll_group operations and has_data_available change only what they report.
LEMMA PollOnly ==
    ASSUME IInv, UNCHANGED <<is_connected, remoteVars, inbound, got, queued, wire, call, ec>>,
           DOMAIN pfds_' \subseteq Conns, \A c \in DOMAIN pfds_' : pfds_'[c] \subseteq Revent,
           promised' \subseteq Conns, touched' \subseteq Conns,
           EntriesKept', PromisesKept'
    PROVE  IInv'
<1>1. TypeOK'
  BY DEF IInv, TypeOK, remoteVars
<1>2. SendUnderWay' /\ ClosedIsEmpty' /\ ReceivedInOrder'
  BY SendWaits, ReceiveWaits DEF remoteVars
<1> QED BY <1>1, <1>2 DEF IInv

\* has_data_available, which takes a connection off the list of those used.
LEMMA HasDataStep ==
    ASSUME IInv, NEW c \in Conns, has_data_available(c)
    PROVE  IInv'
<1>1. UNCHANGED <<is_connected, remoteVars, inbound, got, queued, wire, call, ec, pfds_>>
  BY DEF has_data_available
<1>2. /\ DOMAIN pfds_ \subseteq Conns /\ \A d \in DOMAIN pfds_ : pfds_[d] \subseteq Revent
      /\ promised \subseteq Conns /\ touched \subseteq Conns
  BY DEF IInv, TypeOK
<1>3. \A d : RecvReady(d)' <=> RecvReady(d)
  BY <1>1 DEF RecvReady, remoteVars
<1>4. PICK status \in poll_socket(c) :
          IF "readable" \in status
          THEN promised' = promised \cup {c} /\ touched' = touched \ {c}
          ELSE promised' = promised \ {c} /\ UNCHANGED touched
  BY DEF has_data_available
<1>5. CASE "readable" \in status
  <2>1. is_connected[c] => RecvReady(c)
    BY <1>5, ReadableIsReady DEF poll_socket
  <2>2. promised' = promised \cup {c} /\ touched' = touched \ {c}
    BY <1>4, <1>5
  <2>3. EntriesKept'
    BY <1>1, <1>2, <1>3, <2>1, <2>2 DEF IInv, EntriesKept
  <2>4. PromisesKept'
    BY <1>1, <1>3, <2>1, <2>2 DEF IInv, PromisesKept
  <2> QED BY <1>1, <1>2, <2>2, <2>3, <2>4, PollOnly
<1>6. CASE "readable" \notin status
  <2>1. promised' = promised \ {c} /\ touched' = touched
    BY <1>4, <1>6
  <2>2. EntriesKept' /\ PromisesKept'
    BY <1>1, <1>3, <2>1 DEF IInv, EntriesKept, PromisesKept
  <2> QED BY <1>1, <1>2, <2>1, <2>2, PollOnly
<1> QED BY <1>5, <1>6

\* add_socket and remove_socket.
LEMMA EntryStep ==
    ASSUME IInv, NEW c \in Conns, add_socket(c) \/ remove_socket(c)
    PROVE  IInv'
<1>1. /\ UNCHANGED <<is_connected, remoteVars, inbound, got, queued, wire, call, ec>>
      /\ UNCHANGED <<promised, touched>>
  BY DEF add_socket, remove_socket
<1>2. /\ DOMAIN pfds_ \subseteq Conns /\ \A d \in DOMAIN pfds_ : pfds_[d] \subseteq Revent
      /\ promised \subseteq Conns /\ touched \subseteq Conns
  BY DEF IInv, TypeOK
<1>3. \A d : RecvReady(d)' <=> RecvReady(d)
  BY <1>1 DEF RecvReady, remoteVars
<1>4. /\ DOMAIN pfds_' \subseteq DOMAIN pfds_ \cup {c}
      /\ \A d \in DOMAIN pfds_' : pfds_'[d] = {} \/ (d \in DOMAIN pfds_ /\ pfds_'[d] = pfds_[d])
  BY DEF add_socket, remove_socket, ReventsZero
<1>5. EntriesKept'
  BY <1>1, <1>3, <1>4 DEF IInv, EntriesKept
<1>6. PromisesKept'
  BY <1>1, <1>3 DEF IInv, PromisesKept
<1>7. DOMAIN pfds_' \subseteq Conns /\ \A d \in DOMAIN pfds_' : pfds_'[d] \subseteq Revent
  BY <1>2, <1>4
<1> QED BY <1>1, <1>2, <1>5, <1>6, <1>7, PollOnly

\* poll_group::poll with a ::poll that works.
LEMMA PollStep ==
    ASSUME IInv, poll
    PROVE  IInv'
<1>1. /\ UNCHANGED <<is_connected, remoteVars, inbound, got, queued, wire, call, ec>>
      /\ pfds_' = [c \in DOMAIN pfds_ |-> Revents(c, pfd_config(Config))]
      /\ promised' = Reported(pfds_') /\ touched' = {}
  BY DEF poll
<1>2. DOMAIN pfds_' \subseteq Conns
  BY <1>1 DEF IInv, TypeOK
<1>3. \A c \in DOMAIN pfds_' : pfds_'[c] = Revents(c, pfd_config(Config)) /\ pfds_'[c] \subseteq Revent
  BY <1>1 DEF Revents, Revent
<1>4. \A d : RecvReady(d)' <=> RecvReady(d)
  BY <1>1 DEF RecvReady, remoteVars
<1>5. EntriesKept'
  BY <1>1, <1>3, <1>4, ReadableIsReady DEF EntriesKept
<1>6. promised' \subseteq Conns
  BY <1>1, <1>2 DEF Reported
<1>7. PromisesKept'
  <2>1. \A c \in promised' : c \in DOMAIN pfds_' /\ "readable" \in ssm_from_revents(pfds_'[c])
    BY <1>1 DEF Reported
  <2> QED BY <1>1, <1>3, <1>4, <2>1, ReadableIsReady DEF PromisesKept
<1> QED BY <1>1, <1>2, <1>3, <1>5, <1>6, <1>7, PollOnly

\* poll_group::poll with a ::poll that fails: old entries are reported again.
LEMMA PollFailsStep ==
    ASSUME IInv, poll_fails
    PROVE  IInv'
<1>1. /\ UNCHANGED <<is_connected, remoteVars, inbound, got, queued, wire, call, ec>>
      /\ pfds_' = pfds_ \/ pfds_' = [c \in DOMAIN pfds_ |-> {}]
      /\ promised' = Reported(pfds_') /\ touched' = touched
  BY DEF poll_fails
<1>2. /\ DOMAIN pfds_' = DOMAIN pfds_ /\ DOMAIN pfds_' \subseteq Conns
      /\ \A c \in DOMAIN pfds_' : pfds_'[c] \subseteq pfds_[c] /\ pfds_'[c] \subseteq Revent
  BY <1>1 DEF IInv, TypeOK
<1>3. \A d : RecvReady(d)' <=> RecvReady(d)
  BY <1>1 DEF RecvReady, remoteVars
<1>4. EntriesKept'
  BY <1>1, <1>2, <1>3 DEF IInv, EntriesKept
<1>5. promised' \subseteq Conns
  BY <1>1, <1>2 DEF Reported
<1>6. PromisesKept'
  <2>1. \A c \in promised' : c \in DOMAIN pfds_' /\ "POLLIN" \in pfds_'[c]
    BY <1>1 DEF Reported, ssm_from_revents
  <2> QED BY <1>4, <2>1 DEF EntriesKept, PromisesKept
<1>7. touched' \subseteq Conns
  BY <1>1 DEF IInv, TypeOK
<1> QED BY <1>1, <1>2, <1>4, <1>5, <1>6, <1>7, PollOnly

\* Every step preserves the invariant.
LEMMA InvStep == IInv /\ [Next]_vars => IInv'
<1> SUFFICES ASSUME IInv, [Next]_vars PROVE IInv'
  OBVIOUS
<1>1. ASSUME NEW c \in Conns, SendFails(c) \/ SendInterrupted(c) PROVE IInv'
  BY <1>1, CallOnly DEF SendFails, SendInterrupted, Fails
<1>2. ASSUME NEW c \in Conns, NEW size \in Sizes, NEW peek \in BOOLEAN, receive(c, size, peek)
      PROVE  IInv'
  <2>1. size \in Nat
    BY StreamAssumption
  <2>2. call' = NoCall \/ call' \in ReceiveCalls
    BY <1>2, <2>1 DEF receive, Fails, ReceiveCalls
  <2>3. ec' \in BOOLEAN
    BY <1>2 DEF receive, Fails, PassesEc, IInv, TypeOK
  <2> QED BY <1>2, <2>2, <2>3, CallOnly DEF receive
<1>3. CASE UNCHANGED vars
  <2>1. TypeOK'
    BY <1>3 DEF IInv, TypeOK, vars, remoteVars, pollVars
  <2>2. SendUnderWay' /\ ClosedIsEmpty' /\ ReceivedInOrder'
    BY <1>3, SendWaits, ReceiveWaits DEF vars, remoteVars
  <2>3. EntriesKept' /\ PromisesKept'
    BY <1>3, PromisesLast DEF vars, remoteVars, pollVars, RecvReady
  <2> QED BY <2>1, <2>2, <2>3 DEF IInv
<1>4. CASE Next
  BY <1>1, <1>2, <1>4, SendStep, SendQueuesStep, ReceiveDataStep, ReceiveEndsStep,
     DisconnectStep, HasDataStep, EntryStep, RemoteSendsStep, OutsideStep, PollStep, PollFailsStep
     DEF Next, SendSteps
<1> QED BY <1>3, <1>4

-----------------------------------------------------------------------------
(* The theorems *)

\* The variables keep their types: no terminator goes over the wire, and no send
\* counts more bytes than its buffer has.
THEOREM TypeCorrect == Spec => []TypeOK
<1>1. IInv => TypeOK
  BY DEF IInv
<1> QED BY <1>1, InvInit, InvStep, PTL DEF Spec

\* receive hands over the remote host's bytes in order, each once, whatever the
\* sizes asked for, and peeking, failing and interrupted calls between.
THEOREM ReceivesInOrder == Spec => []ReceivedInOrder
<1>1. IInv => ReceivedInOrder
  BY DEF IInv
<1> QED BY <1>1, InvInit, InvStep, PTL DEF Spec

\* What poll and has_data_available call readable can be received from without
\* blocking until it is used, also when a failed ::poll repeats old answers.
THEOREM PromisesAreKept == Spec => []PromisesKept
<1>1. IInv => PromisesKept
  BY DEF IInv
<1> QED BY <1>1, InvInit, InvStep, PTL DEF Spec

\* A send without an error has put its whole buffer on the wire, once and in order.
THEOREM SendsWhole == Spec => SentWhole
<1>1. ASSUME IInv, [Next]_vars, call.op = "send", call' = NoCall, ~ec'
      PROVE  wire'[call.conn] = call.before \o call.data
  <2>1. NoCall.op = "none" /\ call # NoCall /\ call' # call
    BY <1>1 DEF NoCall
  <2>2. ASSUME NEW c \in Conns, NEW n \in 0..Window, SendQueues(c, n)
        PROVE  wire'[call.conn] = call.before \o call.data
    <3>1. /\ call.conn = c /\ call.bytes_sent + n \in 0..Len(call.data)
          /\ ~(call.bytes_sent + n < Len(call.data))
          /\ wire'[c] = call.before \o SubSeq(call.data, 1, call.bytes_sent + n)
      BY <1>1, <2>1, <2>2, Queues
    <3>2. call.data \in Seq(Nat \ {0})
      BY <1>1 DEF IInv, SendUnderWay
    <3>3. call.bytes_sent + n = Len(call.data)
      BY <3>1, <3>2
    <3>4. SubSeq(call.data, 1, Len(call.data)) = call.data
      BY <3>2, SubSeqFull
    <3> QED BY <3>1, <3>3, <3>4
  <2>3. \E c \in Conns, n \in 0..Window : SendQueues(c, n)
    BY <1>1, <2>1 DEF Next, SendSteps, SendFails, SendInterrupted, Fails, send, receive,
       ReceiveData, ReceiveEnds, Receiving, disconnect, has_data_available, add_socket,
       remove_socket, poll, poll_fails, RemoteSends, RemoteReads, RemoteStopsReading,
       RemoteEnds, vars
  <2> QED BY <2>2, <2>3
<1>2. IInv /\ [Next]_vars
        => [(call.op = "send" /\ call' = NoCall /\ ~ec')
              => wire'[call.conn] = call.before \o call.data]_vars
  BY <1>1
<1> QED BY <1>2, InvInit, InvStep, PTL DEF Spec, SentWhole

\* When receive closes the connection without an error, the user has got everything
\* the remote host has sent, whatever receives, peeks and failures came before.
THEOREM CleanEndsAreComplete == Spec => CleanEndIsComplete
<1>1. ASSUME IInv, [Next]_vars, NEW c \in Conns, Receiving(c), is_connected[c], ~is_connected'[c]
      PROVE  got'[c] = Sent(c)
  <2>1. call # NoCall /\ ~Sending(c) /\ is_connected' # is_connected
    BY <1>1 DEF NoCall, Receiving, Sending
  <2>2. PICK d \in Conns, r \in {0, -1} : ReceiveEnds(d, r)
    BY <1>1, <2>1 DEF Next, SendSteps, SendQueues, SendFails, SendInterrupted, send, receive,
       ReceiveData, disconnect, has_data_available, add_socket, remove_socket, poll,
       poll_fails, RemoteSends, RemoteReads, RemoteStopsReading, RemoteEnds, vars
  <2>3. d = c /\ inbound[c] = <<>> /\ got' = got
    BY <1>1, <2>1, <2>2 DEF ReceiveEnds, Receiving
  <2>4. got[c] \o <<>> = Sent(c) /\ got[c] \in Seq(Nat)
    BY <1>1, <2>3 DEF IInv, ReceivedInOrder, TypeOK
  <2> QED BY <2>3, <2>4, ConcatEmptySeq
<1>2. IInv /\ [Next]_vars
        => [\A c \in Conns : (Receiving(c) /\ is_connected[c] /\ ~is_connected'[c] /\ ~ec')
              => got'[c] = Sent(c)]_vars
  BY <1>1
<1> QED BY <1>2, InvInit, InvStep, PTL DEF Spec, CleanEndIsComplete

=============================================================================

------------------------------ MODULE Handles -------------------------------
(***************************************************************************)
(* What connection and acceptor promise about descriptors: a descriptor is *)
(* free, in the hands of other code, or held by exactly one object; an     *)
(* object holds at most one; and what an object holds it hands over whole  *)
(* or gives back.                                                          *)
(***************************************************************************)
CONSTANTS Fds, Objects

VARIABLE holder     \* of each descriptor: "free", "other", or an object

Init == holder \in [Fds -> {"free", "other"}]

HoldsNone(o) == \A f \in Fds : holder[f] # o

Acquire(o, f) ==
    /\ HoldsNone(o) /\ holder[f] = "free"
    /\ holder' = [holder EXCEPT ![f] = o]

Transfer(from, to, f) ==
    /\ HoldsNone(to) /\ holder[f] = from
    /\ holder' = [holder EXCEPT ![f] = to]

Release(o, f) ==
    /\ holder[f] = o
    /\ holder' = [holder EXCEPT ![f] = "free"]

OtherTakes(f) ==
    /\ holder[f] = "free"
    /\ holder' = [holder EXCEPT ![f] = "other"]

OtherReturns(f) ==
    /\ holder[f] = "other"
    /\ holder' = [holder EXCEPT ![f] = "free"]

Next ==
    \E f \in Fds :
        \/ \E o \in Objects : Acquire(o, f) \/ Release(o, f)
        \/ \E from, to \in Objects : Transfer(from, to, f)
        \/ OtherTakes(f) \/ OtherReturns(f)

Spec == Init /\ [][Next]_holder

=============================================================================

--------------------------- MODULE SocketService ---------------------------
(***************************************************************************)
(* What the socket commands promise a host, with no netconns, netbufs or   *)
(* offsets: each slot goes free -> reserved -> connected -> free, and a     *)
(* connected slot hands out its own peer's bytes, in order and once each.   *)
(* "dead" is a slot whose connect failed, "stuck" one that was asked for a  *)
(* connection type the firmware lacks and that only a reboot gives back.    *)
(***************************************************************************)
EXTENDS Integers, Sequences

CONSTANT Slots

VARIABLES
    phase,    \* what each slot is used for
    arrived,  \* how many bytes the slot's peer has sent
    read      \* the bytes the slot's host has read

vars == <<phase, arrived, read>>

Upto(k) == [i \in 1 .. k |-> i]

Init ==
    /\ phase = [s \in Slots |-> "free"]
    /\ arrived = [s \in Slots |-> 0]
    /\ read = [s \in Slots |-> <<>>]

Allocate(s) ==
    /\ phase[s] = "free"
    /\ phase' = [phase EXCEPT ![s] = "reserved"]
    /\ UNCHANGED <<arrived, read>>

\* The outcome of a connect, which a reserved slot gets once.
Settle(s) ==
    /\ phase[s] = "reserved"
    /\ \E p \in {"connected", "dead", "stuck"} : phase' = [phase EXCEPT ![s] = p]
    /\ UNCHANGED <<arrived, read>>

Arrive(s) ==
    /\ phase[s] = "connected"
    /\ arrived' = [arrived EXCEPT ![s] = @ + 1]
    /\ UNCHANGED <<phase, read>>

\* A read returns the next bytes, at least one and no more than have arrived.
Read(s) ==
    /\ phase[s] = "connected"
    /\ \E k \in Len(read[s]) + 1 .. arrived[s] : read' = [read EXCEPT ![s] = Upto(k)]
    /\ UNCHANGED <<phase, arrived>>

\* A close of one slot or, on joining an access point, of all.
Release(closed) ==
    /\ \A s \in closed : phase[s] # "stuck"
    /\ phase' = [s \in Slots |-> IF s \in closed THEN "free" ELSE phase[s]]
    /\ arrived' = [s \in Slots |-> IF s \in closed THEN 0 ELSE arrived[s]]
    /\ read' = [s \in Slots |-> IF s \in closed THEN <<>> ELSE read[s]]

Reboot ==
    /\ phase' = [s \in Slots |-> "free"]
    /\ arrived' = [s \in Slots |-> 0]
    /\ read' = [s \in Slots |-> <<>>]

Next ==
    \/ \E s \in Slots : Allocate(s) \/ Settle(s) \/ Arrive(s) \/ Read(s)
    \/ \E s \in Slots : Release({s})
    \/ Release({s \in Slots : phase[s] # "stuck"})
    \/ Reboot

Spec == Init /\ [][Next]_vars

=============================================================================

---------------------------- MODULE Ft2LinkDelivery ----------------------------
(***************************************************************************)
(* What a session promises its operators: a message is Pending from the    *)
(* moment it is submitted, ends Delivered or Failed, and is shown as       *)
(* Delivered only once the far end has handed it to its operator.  A       *)
(* failed message may still have arrived: the last ACK can be lost.        *)
(***************************************************************************)
CONSTANT Messages
VARIABLES status, arrived

vars == <<status, arrived>>

Init == /\ status = [m \in Messages |-> "Idle"]
        /\ arrived = {}

Submit(m) == /\ status[m] = "Idle"
             /\ \A n \in Messages : status[n] # "Pending"
             /\ status' = [status EXCEPT ![m] = "Pending"]
             /\ UNCHANGED arrived

Arrive(m) == /\ status[m] # "Idle"
             /\ arrived' = arrived \cup {m}
             /\ UNCHANGED status

Confirm(m) == /\ status[m] = "Pending"
              /\ m \in arrived
              /\ status' = [status EXCEPT ![m] = "Delivered"]
              /\ UNCHANGED arrived

GiveUp(m) == /\ status[m] = "Pending"
             /\ status' = [status EXCEPT ![m] = "Failed"]
             /\ UNCHANGED arrived

Next == \E m \in Messages : Submit(m) \/ Arrive(m) \/ Confirm(m) \/ GiveUp(m)

Spec == Init /\ [][Next]_vars
=============================================================================

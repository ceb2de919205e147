------------------------------ MODULE Delivery ------------------------------
(***************************************************************************)
(* What quality of service promises of the messages in one direction       *)
(* (MQTTAsync.h, "Quality of service"): a message is delivered after the   *)
(* sender has accepted it and never before, and with QoS 2 only once.      *)
(* That it is delivered at all is a matter of liveness.                    *)
(***************************************************************************)
EXTENDS Naturals

CONSTANTS
    Messages,   \* the messages of QoS 1 and 2
    Once        \* those of QoS 2
VARIABLES
    accepted,   \* the messages the sender has accepted
    count       \* how often each has been delivered, to two

Init == accepted = {} /\ count = [m \in Messages |-> 0]

Accept ==
    /\ \E m \in Messages \ accepted : accepted' = accepted \cup {m}
    /\ UNCHANGED count

Deliver ==
    /\ \E m \in accepted :
         /\ m \in Once => count[m] = 0
         /\ count' = [count EXCEPT ![m] = IF @ = 2 THEN 2 ELSE @ + 1]
    /\ UNCHANGED accepted

Spec == Init /\ [][Accept \/ Deliver]_<<accepted, count>>
=============================================================================

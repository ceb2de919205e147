----------------------------- MODULE AsyncCalls -----------------------------
(***************************************************************************)
(* What the asynchronous client promises of the calls an application makes *)
(* (MQTTAsync.h): a call may be made, and once made it ends at most once,  *)
(* after which its callbacks are never called again.  Any number of calls  *)
(* may be made or end in one step: cleaning a session ends them all.       *)
(***************************************************************************)
EXTENDS Naturals

CONSTANT Calls      \* the API calls
VARIABLE stage      \* how far each of them is

Stages == {"unmade", "pending", "ended"}

TypeOK == stage \in [Calls -> Stages]

Init == stage = [r \in Calls |-> "unmade"]

May(from, to) ==
    \/ to = from
    \/ from = "unmade" /\ to = "pending"
    \/ from = "pending" /\ to = "ended"

Progress ==
    \E next \in [Calls -> Stages] :
        /\ \A r \in Calls : May(stage[r], next[r])
        /\ stage' = next

Spec == Init /\ [][Progress]_stage
=============================================================================

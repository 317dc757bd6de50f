----------------------------- MODULE PacketWait -----------------------------
(***************************************************************************)
(* What wait_for_verifications promises for each packet: the wait ends     *)
(* once, and a packet is reported as verified only when its message can be *)
(* executed on the destination chain.                                      *)
(***************************************************************************)
CONSTANT Packets

VARIABLES
  available,  \* packets whose messages can be executed
  outcome     \* [p]: "none" while the wait lasts

vars == <<available, outcome>>

Outcomes == {"verified", "timeout", "error"}

Init == available = {} /\ outcome = [p \in Packets |-> "none"]

BecomesAvailable(p) == available' = available \cup {p} /\ UNCHANGED outcome

Ends(p, o) ==
  /\ outcome[p] = "none"
  /\ o = "verified" => p \in available
  /\ outcome' = [outcome EXCEPT ![p] = o]
  /\ UNCHANGED available

Next == \E p \in Packets : BecomesAvailable(p) \/ \E o \in Outcomes : Ends(p, o)

Spec == Init /\ [][Next]_vars
=============================================================================

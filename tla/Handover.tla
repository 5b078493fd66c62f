------------------------------ MODULE Handover ------------------------------
(***************************************************************************)
(* What the map and the hub promise together about one memory, however     *)
(* many loops forward it and whatever fails: it is accepted on the map,    *)
(* arrives at the hub whole, and only then leaves the map.  What the       *)
(* outbox says of it may change its mind, but has a ground each time.      *)
(***************************************************************************)
CONSTANTS Memories,
          Kept,      \* memories that stay on the map
          Refused    \* memories the hub does not take

VARIABLES place,   \* where the memory is complete: "none" yet, "map", "both" or "hub"
          word     \* what the outbox says of it: "none" yet, "pending", "sent" or "failed"

Init == /\ place = [m \in Memories |-> IF m \in Kept THEN "map" ELSE "none"]
        /\ word = [m \in Memories |-> "none"]

Accept(m) == /\ place[m] = "none"
             /\ place' = [place EXCEPT ![m] = "map"]
             /\ word' = [word EXCEPT ![m] = "pending"]

\* A memory that was on the map before is to be forwarded too.
List(m) == /\ m \in Kept /\ word[m] = "none"
           /\ word' = [word EXCEPT ![m] = "pending"]
           /\ UNCHANGED place

Arrive(m) == /\ place[m] = "map" /\ m \notin Refused
             /\ place' = [place EXCEPT ![m] = "both"]
             /\ UNCHANGED word

Leave(m) == /\ place[m] = "both" /\ m \notin Kept
            /\ place' = [place EXCEPT ![m] = "hub"]
            /\ UNCHANGED word

Arrived(m) == place[m] \in {"both", "hub"}

\* Only what arrived is called sent; only what arrived, or is refused, is given up.
Say(m) ==
  /\ word[m] # "none"
  /\ \E w \in {"pending", "sent", "failed"} :
       /\ w = "sent" => Arrived(m)
       /\ w = "failed" => Arrived(m) \/ m \in Refused
       /\ word' = [word EXCEPT ![m] = w]
  /\ UNCHANGED place

Next == \E m \in Memories : Accept(m) \/ List(m) \/ Arrive(m) \/ Leave(m) \/ Say(m)

Spec == Init /\ [][Next]_<<place, word>>
=============================================================================

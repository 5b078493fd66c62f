---------------------------- MODULE CaptureLedger ----------------------------
(***************************************************************************)
(* What the capture queue promises about one capture of a link, whoever    *)
(* runs it and however often it is tried: it is asked for, it stays open   *)
(* for a while, and it is closed once, with a verdict and the evidence of  *)
(* at most one attempt.  After that nothing about it changes.              *)
(***************************************************************************)
EXTENDS Naturals

CONSTANTS Captures, GoodVerdicts

VARIABLES outcome,   \* "absent", "open" or the verdict
          evidence   \* the attempts whose files belong to the capture

Init == /\ outcome = [c \in Captures |-> "absent"]
        /\ evidence = [c \in Captures |-> {}]

Ask(c) == /\ outcome[c] = "absent"
          /\ outcome' = [outcome EXCEPT ![c] = "open"]
          /\ UNCHANGED evidence

\* A good verdict comes with the evidence of one attempt; "failed" may have none.
Close(c) ==
  /\ outcome[c] = "open"
  /\ \E v \in GoodVerdicts \cup {"failed"} :
       /\ outcome' = [outcome EXCEPT ![c] = v]
       /\ v \in GoodVerdicts => evidence'[c] # {}
  /\ evidence' \in [Captures -> SUBSET Nat]
  /\ \A m, n \in evidence'[c] : m = n
  /\ \A d \in Captures \ {c} : evidence'[d] = evidence[d]

Next == \E c \in Captures : Ask(c) \/ Close(c)

Spec == Init /\ [][Next]_<<outcome, evidence>>
=============================================================================

------------------------------ MODULE MCNodeOps ------------------------------
(***************************************************************************)
(* Small instances of NodeOps.                                           *)
(***************************************************************************)
EXTENDS NodeOps, TLC

CONSTANTS stop1, pause1, pause2, resume1, resume2, state1, pull1

MCOp == [c \in Call |-> CASE c = stop1 -> "stop"
                          [] c \in {pause1, pause2} -> "pause"
                          [] c \in {resume1, resume2} -> "resume"
                          [] c = state1 -> "state"
                          [] c = pull1 -> "pull"]

(* Calls of one kind are alike. *)
MCSymmetry ==
  Permutations({pause1, pause2} \cap Call) \cup Permutations({resume1, resume2} \cap Call)
=============================================================================

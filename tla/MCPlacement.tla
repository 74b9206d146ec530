----------------------------- MODULE MCPlacement -----------------------------
(***************************************************************************)
(* Small instances of Placement.  The nodes belong to the reserved region: *)
(* n1 is the oldest, n2 is newer and alone has the best GPU, n3 is as old *)
(* as n2 and has no GPU at all.                                          *)
(***************************************************************************)
EXTENDS Placement, TLC

CONSTANTS n1, n2, n3, noGpu

MCRegion == {"us-west-1", "us-east-1"}
MCRegionOf == [n \in Node |-> "us-west-1"]
MCCpus == [n \in Node |-> IF n = n1 THEN 2 ELSE 1]
MCOneCore == [n \in Node |-> 1]
MCTwoCores == [n \in Node |-> 2]
MCGpus == [n \in Node |-> CASE n = n1 -> {1} [] n = n2 -> {1, 4} [] OTHER -> {}]
MCCreated == [n \in Node |-> IF n = n1 THEN 0 ELSE 1]

Wish(i, a, g) == [id |-> i, region |-> "us-west-1", gpu |-> g, admin |-> a]

(* Two admins, who may take either core of n1, and a user, who may take only *)
(* the second; who finds n1 full and needs no GPU is left with n3.       *)
MCRequest == {Wish(1, TRUE, 1), Wish(2, TRUE, 1), Wish(3, FALSE, noGpu)}

(* Two users, one of whom needs a GPU. *)
MCPair == {Wish(1, FALSE, 1), Wish(2, FALSE, noGpu)}
=============================================================================

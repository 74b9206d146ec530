------------------------------- MODULE MCScaler -------------------------------
(***************************************************************************)
(* Small instances of Scaler: one region and servers of one core, so that *)
(* one session overloads the region.  The dedicated server d2 belongs to *)
(* another environment.                                                  *)
(***************************************************************************)
EXTENDS Scaler, TLC

CONSTANTS d1, d2, s1, s2, j1, j2

MCRegion == {"us-west-1"}
MCRegionOf == [s \in Server |-> "us-west-1"]
MCCpus == [s \in Server |-> 1]
MCFirstIx == [d \in Dedicated |-> IF d = d1 THEN 0 ELSE 1]

(* The cloud servers are alike. *)
MCSymmetry == Permutations(Server \ Dedicated)
=============================================================================

------------------------------- MODULE MCWorker -------------------------------
(***************************************************************************)
(* A small instance of Worker: more requests than threads or connections. *)
(***************************************************************************)
EXTENDS Worker, TLC

CONSTANTS call1, job1, ovh1, state1, pull1

MCKind == [r \in Request |-> CASE r = call1 -> "call"
                               [] r = job1 -> "job"
                               [] r = ovh1 -> "ovh"
                               [] r = state1 -> "state"
                               [] r = pull1 -> "pull"]
=============================================================================

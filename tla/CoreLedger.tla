------------------------------ MODULE CoreLedger ------------------------------
(***************************************************************************)
(* What placement promises, without nodes, steps or failures: a ledger of *)
(* leases on cores.  A lease is taken on a slot, a core of a node, that no  *)
(* recorded lease holds; it is recorded later, if ever, and a recorded   *)
(* lease is held until it is released.  A lease never moves to another   *)
(* slot and is never taken twice.  The ledger does not promise that a slot *)
(* has one lease: a taken lease protects its slot only once recorded.    *)
(***************************************************************************)
CONSTANTS Request, Slot, NoSlot

VARIABLES
  lease,  \* lease[r]: "absent", "taken", "recorded" or "released"
  slot    \* slot[r]: what it is on

vars == <<lease, slot>>

Protected == {slot[q] : q \in {p \in Request : lease[p] = "recorded"}}

Init ==
  /\ lease = [r \in Request |-> "absent"]
  /\ slot = [r \in Request |-> NoSlot]

Take(r) ==
  /\ lease[r] = "absent"
  /\ lease' = [lease EXCEPT ![r] = "taken"]
  /\ \E s \in Slot \ Protected : slot' = [slot EXCEPT ![r] = s]

Record(r) ==
  /\ lease[r] = "taken"
  /\ lease' = [lease EXCEPT ![r] = "recorded"]
  /\ UNCHANGED slot

Release(r) ==
  /\ lease[r] = "recorded"
  /\ lease' = [lease EXCEPT ![r] = "released"]
  /\ UNCHANGED slot

Next == \E r \in Request : Take(r) \/ Record(r) \/ Release(r)

Spec == Init /\ [][Next]_vars
=============================================================================

------------------------------ MODULE Placement ------------------------------
(***************************************************************************)
(* Running a container: biz/jukebox.py run_container and pick_best_node, *)
(* biz/cluster.py get_jukebox_nodes, biz/node.py run_container.          *)
(*                                                                       *)
(* A call reads the node rows of its region from SQL, then the sessions of *)
(* sessionsvc, picks the oldest node with a free core and a matching GPU, *)
(* draws one free core, clones the app, starts the container and answers. *)
(* Only when the caller has the answer does it record the container in its *)
(* session; until then no other call can see that the core is taken, and *)
(* nothing in the program locks.  Calls run in a thread pool of each of  *)
(* several worker processes, so every step below may interleave with every *)
(* other.                                                                *)
(*                                                                       *)
(* External parties are modelled by what they may do at any time: the    *)
(* session owner (RecordSession, CloseSession), the container itself or a *)
(* stop call (ContainerEnds), the autoscaler's sync (RowsChange) and the *)
(* servers (ServerLost, ServerBack).                                     *)
(***************************************************************************)
EXTENDS Integers, FiniteSets

CONSTANTS
  Request,        \* the calls, each a record with fields region, gpu, admin
  Node,           \* the jukebox nodes that may have a row
  Region,
  RegionOf,       \* the region of each node
  Cpus,           \* its number of cores
  Gpus,           \* the performance ranks of its GPUs
  Created,        \* its created_ts
  Unstable,       \* the nodes whose row or server may change
  ReserveAdminCore, \* RESERVE_ADMIN_CPU_CORE = "1"
  ReservedRegion, \* US_WEST_1
  NoGpu,          \* reqs.gpu is None
  NoNode,
  NoCore

ASSUME RequestAssumption ==
  \A r \in Request : /\ r.region \in Region
                     /\ r.gpu \in Nat \cup {NoGpu}
                     /\ r.admin \in BOOLEAN
ASSUME NodeAssumption ==
  /\ RegionOf \in [Node -> Region]
  /\ Cpus \in [Node -> Nat \ {0}]
  /\ Gpus \in [Node -> SUBSET Nat]
  /\ Created \in [Node -> Nat]
  /\ Unstable \subseteq Node
  /\ ReserveAdminCore \in BOOLEAN
ASSUME NoneAssumption == NoGpu \notin Nat /\ NoNode \notin Node /\ NoCore \notin Nat

VARIABLES
  rows,     \* the nodes with a row in cluster.nodes
  up,       \* the nodes whose Docker daemon answers
  sess,     \* sess[r]: the container of r in sessionsvc
  live,     \* the calls whose container is running
  pc,       \* where each call is
  listed,   \* listed[r]: the rows the call read
  seen,     \* seen[r]: the containers of the sessions the call read
  node,     \* node[r]: the node the call picked
  core,     \* core[r]: the core the call drew
  rivals    \* history: the cores' holders no session showed to r's pick

callVars == <<pc, listed, seen, node, core, rivals>>
vars == <<rows, up, sess, live, callVars>>

-----------------------------------------------------------------------------
(* What a call computes from what it has read. *)

BusyCores(n, S) == {core[q] : q \in {p \in S : node[p] = n}}

(* Mutants of FreeCores: the busy cores are not taken out; the range is off  *)
(* by one.                                                               *)
AllCores(n, S) == 0 .. Cpus[n] - 1
CoresFromMinusOne(n, S) == (-1 .. Cpus[n] - 2) \ BusyCores(n, S)

FreeCores(n, S) == (0 .. Cpus[n] - 1) \ BusyCores(n, S)

GpuFits(r, n) == r.gpu = NoGpu \/ \E rank \in Gpus[n] : rank >= r.gpu

(* The nodes pick_best_node would return were they the oldest. *)
Candidates(r, S) == {n \in listed[r] : FreeCores(n, S) # {} /\ GpuFits(r, n)}

(* Mutant of Oldest: the order is reversed. *)
Newest(N) == {n \in N : \A m \in N : Created[m] <= Created[n]}

(* sorted() is stable and the query has no ORDER BY: any of the oldest.  *)
Oldest(N) == {n \in N : \A m \in N : Created[n] <= Created[m]}

Reserved(r, n) == ReserveAdminCore /\ RegionOf[n] = ReservedRegion /\ ~r.admin

(* Mutant of UsableCores: core 0 is kept back only while another is free. *)
SpareCores(r, n, S) ==
  FreeCores(n, S) \ (IF Reserved(r, n) /\ FreeCores(n, S) # {0} THEN {0} ELSE {})

(* The cores random.sample draws from. *)
UsableCores(r, n, S) == FreeCores(n, S) \ (IF Reserved(r, n) THEN {0} ELSE {})

OpenSessions == {q \in Request : sess[q] = "open"}

(* The calls between the pick and the start of the container, a start that *)
(* timed out but may still happen included.                              *)
InFlight == {q \in Request : pc[q] \in {"picked", "cloned", "late"}}

(* The calls whose container runs on its core or is on its way there. *)
Holders == InFlight \cup live

-----------------------------------------------------------------------------
Init ==
  /\ rows \in {R \in SUBSET Node : Node \ Unstable \subseteq R}
  /\ up = Node
  /\ sess = [r \in Request |-> "none"]
  /\ live = {}
  /\ pc = [r \in Request |-> "idle"]
  /\ listed = [r \in Request |-> {}]
  /\ seen = [r \in Request |-> {}]
  /\ node = [r \in Request |-> NoNode]
  /\ core = [r \in Request |-> NoCore]
  /\ rivals = [r \in Request |-> {}]

Goto(r, label) == pc' = [pc EXCEPT ![r] = label]

(* A call arrives and reads the rows of its region. *)
ListNodes(r) ==
  /\ pc[r] = "idle"
  /\ Goto(r, "listed")
  /\ listed' = [listed EXCEPT ![r] = {n \in rows : RegionOf[n] = r.region}]
  /\ UNCHANGED <<rows, up, sess, live, seen, node, core, rivals>>

(* get_sessions raises: a timeout, or a status other than 200. *)
GetSessionsFails(r) ==
  /\ pc[r] = "listed"
  /\ Goto(r, "failed")
  /\ UNCHANGED <<rows, up, sess, live, listed, seen, node, core, rivals>>

(* The call gets the sessions and picks from them without another read.  *)
ReadSessions(r) ==
  /\ pc[r] = "listed"
  /\ seen' = [seen EXCEPT ![r] = OpenSessions]
  /\ UNCHANGED <<rows, up, sess, live, listed>>

(* pick_best_node returns None. *)
Refuse(r) ==
  /\ ReadSessions(r)
  /\ Candidates(r, OpenSessions) = {}
  /\ Goto(r, "refused")
  /\ UNCHANGED <<node, core, rivals>>

(* A node is picked, but its only free core is the reserved one          *)
(* (random.sample of an empty list), or it has no GPU (gpus[0] of an empty  *)
(* list): neither error is handled.                                      *)
Crash(r) ==
  /\ ReadSessions(r)
  /\ \E n \in Oldest(Candidates(r, OpenSessions)) :
       UsableCores(r, n, OpenSessions) = {} \/ Gpus[n] = {}
  /\ Goto(r, "crashed")
  /\ UNCHANGED <<node, core, rivals>>

PickNode(r) ==
  /\ ReadSessions(r)
  /\ \E n \in Oldest(Candidates(r, OpenSessions)) :
       \E c \in UsableCores(r, n, OpenSessions) :
         /\ Gpus[n] # {}
         /\ node' = [node EXCEPT ![r] = n]
         /\ core' = [core EXCEPT ![r] = c]
  /\ rivals' = [rivals EXCEPT ![r] = Holders \ OpenSessions]
  /\ Goto(r, "picked")

CloneApp(r) ==
  /\ pc[r] = "picked"
  /\ Goto(r, "cloned")
  /\ UNCHANGED <<rows, up, sess, live, listed, seen, node, core, rivals>>

CloneAppFails(r) ==
  /\ pc[r] = "picked"
  /\ Goto(r, "failed")
  /\ UNCHANGED <<rows, up, sess, live, listed, seen, node, core, rivals>>

(* The Docker daemon starts the container; if the client has given up    *)
(* already, nobody will learn of it.                                     *)
StartContainer(r) ==
  /\ pc[r] \in {"cloned", "late"}
  /\ node[r] \in up
  /\ live' = live \cup {r}
  /\ Goto(r, IF pc[r] = "cloned" THEN "started" ELSE "lost")
  /\ UNCHANGED <<rows, up, sess, listed, seen, node, core, rivals>>

(* Mutant of StartFails: no timeout when the daemon cannot be reached.   *)
StartRefused(r) ==
  /\ pc[r] = "cloned"
  /\ node[r] \in up
  /\ Goto(r, "failed")
  /\ UNCHANGED <<rows, up, sess, live, listed, seen, node, core, rivals>>

(* The daemon refuses or cannot be reached. *)
StartFails(r) ==
  /\ pc[r] = "cloned"
  /\ Goto(r, "failed")
  /\ UNCHANGED <<rows, up, sess, live, listed, seen, node, core, rivals>>

(* The client's 55 s pass, or the worker is killed, before the daemon acts. *)
StartTimesOut(r) ==
  /\ pc[r] = "cloned"
  /\ node[r] \in up
  /\ Goto(r, "late")
  /\ UNCHANGED <<rows, up, sess, live, listed, seen, node, core, rivals>>

(* A start that timed out never happens after all. *)
LateStartDropped(r) ==
  /\ pc[r] = "late"
  /\ Goto(r, "failed")
  /\ UNCHANGED <<rows, up, sess, live, listed, seen, node, core, rivals>>

Respond(r) ==
  /\ pc[r] = "started"
  /\ Goto(r, "done")
  /\ UNCHANGED <<rows, up, sess, live, listed, seen, node, core, rivals>>

(* The container has started, but the daemon's answer, the worker or the *)
(* answer to the caller is lost.                                         *)
LoseResponse(r) ==
  /\ pc[r] = "started"
  /\ Goto(r, "lost")
  /\ UNCHANGED <<rows, up, sess, live, listed, seen, node, core, rivals>>

-----------------------------------------------------------------------------
(* The environment. *)

RecordSession(r) ==
  /\ pc[r] = "done" /\ sess[r] = "none"
  /\ sess' = [sess EXCEPT ![r] = "open"]
  /\ UNCHANGED <<rows, up, live, callVars>>

CloseSession(r) ==
  /\ sess[r] = "open"
  /\ sess' = [sess EXCEPT ![r] = "closed"]
  /\ UNCHANGED <<rows, up, live, callVars>>

(* stop_container, or the streamer's inactivity limit; auto_remove. *)
ContainerEnds(r) ==
  /\ r \in live
  /\ live' = live \ {r}
  /\ UNCHANGED <<rows, up, sess, callVars>>

(* sync_cluster_state adds or removes a row. *)
RowsChange(n) ==
  /\ rows' = (rows \ {n}) \cup ({n} \ rows)
  /\ UNCHANGED <<up, sess, live, callVars>>

ServerLost(n) ==
  /\ n \in up
  /\ up' = up \ {n}
  /\ live' = {q \in live : node[q] # n}
  /\ UNCHANGED <<rows, sess, callVars>>

ServerBack(n) ==
  /\ n \notin up
  /\ up' = up \cup {n}
  /\ UNCHANGED <<rows, sess, live, callVars>>

-----------------------------------------------------------------------------
(* The steps of a call the program itself takes or bounds by a timeout; the *)
(* ssh command of clone_app has none.                                    *)
Pick(r) == Refuse(r) \/ Crash(r) \/ PickNode(r) \/ GetSessionsFails(r)
Start(r) == StartContainer(r) \/ StartFails(r) \/ StartTimesOut(r)
Answer(r) == Respond(r) \/ LoseResponse(r)

Call(r) ==
  \/ ListNodes(r)
  \/ Pick(r)
  \/ CloneApp(r)
  \/ CloneAppFails(r)
  \/ Start(r)
  \/ LateStartDropped(r)
  \/ Answer(r)

Environment ==
  \/ \E r \in Request : RecordSession(r) \/ CloseSession(r) \/ ContainerEnds(r)
  \/ \E n \in Unstable : RowsChange(n) \/ ServerLost(n) \/ ServerBack(n)

Next == (\E r \in Request : Call(r)) \/ Environment

Spec == Init /\ [][Next]_vars

FairSpec ==
  /\ Spec
  /\ \A r \in Request : WF_vars(Pick(r)) /\ WF_vars(Start(r)) /\ WF_vars(Answer(r))

-----------------------------------------------------------------------------
(* GET /cluster/status: what it reports as used in a region, and the cores  *)
(* that sessions of the region's nodes really use.                       *)
SessionsIn(g) == {q \in OpenSessions : node[q] \in rows /\ RegionOf[node[q]] = g}

ReportedUsed(g) == Cardinality(SessionsIn(g))

UsedCores(g) == Cardinality({<<node[q], core[q]>> : q \in SessionsIn(g)})

-----------------------------------------------------------------------------
(* Every variable has its type: calls are at known places, and only nodes,  *)
(* cores and calls that exist are named (run_container, get_jukebox_nodes). *)
TypeOK ==
  /\ rows \subseteq Node
  /\ up \subseteq Node
  /\ sess \in [Request -> {"none", "open", "closed"}]
  /\ live \subseteq Request
  /\ pc \in [Request -> {"idle", "listed", "picked", "cloned", "late", "started",
                         "done", "lost", "refused", "crashed", "failed"}]
  /\ listed \in [Request -> SUBSET Node]
  /\ seen \in [Request -> SUBSET Request]
  /\ node \in [Request -> Node \cup {NoNode}]
  /\ core \in [Request -> Nat \cup {NoCore}]
  /\ rivals \in [Request -> SUBSET Request]

SameCore(q, r) == node[q] = node[r] /\ core[q] = core[r]

(* Two running containers share a core only when one of the two calls drew  *)
(* its core while the other held it with no open session to show for it: it *)
(* was still between its pick and the record, its answer had been lost, or  *)
(* its session was closed before its container stopped.  Calls that do not  *)
(* overlap and lose nothing never share (pick_best_node, free_cores,     *)
(* random.sample).                                                       *)
SharedCoreExplained ==
  \A q, r \in live : q # r /\ SameCore(q, r) => q \in rivals[r] \/ r \in rivals[q]

(* Each core of n was leased to a session the call read. *)
SeenFull(r, n) == \A c \in 0 .. Cpus[n] - 1 : \E q \in seen[r] : node[q] = n /\ core[q] = c

(* A call reads the sessions only when they show every container that runs or *)
(* is on its way: calls do not overlap, each container is recorded before  *)
(* the next call comes and no session is closed before its container ends. *)
Serial == \A r \in Request : pc[r] = "listed" => Holders \subseteq OpenSessions

NothingShared == \A q, r \in live : q # r => ~SameCore(q, r)

(* Calls made one after another never share a core, although nothing locks: *)
(* what one has leased the next finds in the sessions (free_cores).      *)
SerialCallsNeverShare == []Serial => []NothingShared

(* The core kept for the administrator is there for him: an admin's call is *)
(* refused only when, on every node of the reserved region that suits it, *)
(* core 0 belongs to the session of another admin's call, however the calls *)
(* of other users interleaved (run_container, lines 266 to 271).         *)
AdminCoreKept ==
  \A r \in Request : pc[r] = "refused" /\ r.admin /\ ReserveAdminCore =>
    \A n \in listed[r] : RegionOf[n] = ReservedRegion /\ GpuFits(r, n) =>
      \E q \in seen[r] : q.admin /\ node[q] = n /\ core[q] = 0

(* Newer nodes stay unused (pick_best_node's docstring): a container goes to *)
(* a node only when each core of every older node the call listed and could  *)
(* use was leased to a recorded session, so a newer node is touched by as *)
(* many calls as the older ones have no room for.                        *)
PackOldestFirst ==
  \A r \in Request : node[r] # NoNode =>
    \A m \in listed[r] :
      Created[m] < Created[node[r]] /\ GpuFits(r, m) => SeenFull(r, m)

(* Docstring of pick_best_node: the best matching node, or None when the *)
(* region is out of resources.  So a call may fail for want of a core or a  *)
(* GPU only when no node it listed had both for it.                      *)
CrashOnlyWhenNothingFits ==
  \A r \in Request : pc[r] = "crashed" =>
    \A n \in listed[r] :
      GpuFits(r, n) => UsableCores(r, n, seen[r]) = {} \/ Gpus[n] = {}

(* Docstring of cluster_status: usage is the ratio of used cores to total *)
(* cores.                                                                *)
UsageCountsCores == \A g \in Region : ReportedUsed(g) = UsedCores(g)

(* A call that has read the rows ends with an answer or an error, or hangs  *)
(* for ever in the ssh command of clone_app, the one step without a timeout *)
(* (get_sessions has 3 and 10 s, the Docker client 55 s).                *)
CallHangsOnlyInClone ==
  \A r \in Request :
    pc[r] = "listed" ~> \/ pc[r] \in {"done", "lost", "late", "refused", "crashed", "failed"}
                       \/ [](pc[r] = "picked")

-----------------------------------------------------------------------------
(* The ledger a call's steps implement: the pick takes a lease, the session *)
(* records and releases it.                                              *)
LeaseOf(r) ==
  IF node[r] = NoNode THEN "absent"
  ELSE CASE sess[r] = "none" -> "taken"
         [] sess[r] = "open" -> "recorded"
         [] OTHER -> "released"

Ledger == INSTANCE CoreLedger WITH
  Slot <- UNION {{n} \X (0 .. Cpus[n] - 1) : n \in Node},
  NoSlot <- <<NoNode, NoCore>>,
  lease <- [r \in Request |-> LeaseOf(r)],
  slot <- [r \in Request |-> <<node[r], core[r]>>]

(* Whatever fails, times out or is lost on the way, run_container leases *)
(* cores as the ledger does: each call at most once, on a core that exists   *)
(* and that no recorded session of the moment holds, and for good.       *)
LeasesCores == Ledger!Spec

=============================================================================

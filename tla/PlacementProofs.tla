--------------------------- MODULE PlacementProofs ---------------------------
(***************************************************************************)
(* Proofs about Placement, for every set of calls, nodes, cores and GPUs. *)
(***************************************************************************)
EXTENDS Placement, FiniteSetTheorems, TLAPS

(* A pick sets the call's node and core, and no other, to a node it listed  *)
(* and a core of that node which no open session holds.                  *)
LEMMA PickEffect ==
  ASSUME TypeOK, NEW r \in Request, PickNode(r)
  PROVE  \E n \in Node, c \in Nat :
           /\ n \in Oldest(Candidates(r, OpenSessions))
           /\ c \in UsableCores(r, n, OpenSessions)
           /\ c < Cpus[n]
           /\ node' = [node EXCEPT ![r] = n]
           /\ core' = [core EXCEPT ![r] = c]
<1>1. PICK n \in Oldest(Candidates(r, OpenSessions)) :
        \E c \in UsableCores(r, n, OpenSessions) :
          node' = [node EXCEPT ![r] = n] /\ core' = [core EXCEPT ![r] = c]
  BY DEF PickNode
<1>2. PICK c \in UsableCores(r, n, OpenSessions) :
        node' = [node EXCEPT ![r] = n] /\ core' = [core EXCEPT ![r] = c]
  BY <1>1
<1>3. n \in Node
  BY DEF Oldest, Candidates, TypeOK
<1>4. c \in Nat /\ c < Cpus[n]
  BY <1>3, NodeAssumption DEF UsableCores, FreeCores
<1> QED
  BY <1>1, <1>2, <1>3, <1>4

LEMMA TypeStep == TypeOK /\ [Next]_vars => TypeOK'
<1> SUFFICES ASSUME TypeOK, [Next]_vars
             PROVE  TypeOK'
  OBVIOUS
<1> USE DEF TypeOK
<1>1. ASSUME NEW r \in Request, ListNodes(r)
      PROVE  TypeOK'
  BY <1>1 DEF ListNodes, Goto
<1>2. ASSUME NEW r \in Request, Pick(r)
      PROVE  TypeOK'
  <2>1. CASE Refuse(r)
    BY <2>1 DEF Refuse, ReadSessions, OpenSessions, Goto
  <2>2. CASE Crash(r)
    BY <2>2 DEF Crash, ReadSessions, OpenSessions, Goto
  <2>3. CASE PickNode(r)
    <3>1. PICK n \in Node, c \in Nat :
            /\ node' = [node EXCEPT ![r] = n]
            /\ core' = [core EXCEPT ![r] = c]
      BY <2>3, PickEffect
    <3>2. Holders \ OpenSessions \subseteq Request /\ OpenSessions \subseteq Request
      BY DEF Holders, InFlight, OpenSessions
    <3>3. node' \in [Request -> Node \cup {NoNode}] /\ core' \in [Request -> Nat \cup {NoCore}]
      BY <3>1
    <3>4. seen' \in [Request -> SUBSET Request] /\ rivals' \in [Request -> SUBSET Request]
      BY <2>3, <3>2 DEF PickNode, ReadSessions
    <3> QED
      BY <2>3, <3>3, <3>4 DEF PickNode, ReadSessions, Goto
  <2>4. CASE GetSessionsFails(r)
    BY <2>4 DEF GetSessionsFails, Goto
  <2> QED
    BY <1>2, <2>1, <2>2, <2>3, <2>4 DEF Pick
<1>3. ASSUME NEW r \in Request, CloneApp(r) \/ CloneAppFails(r)
      PROVE  TypeOK'
  BY <1>3 DEF CloneApp, CloneAppFails, Goto
<1>4. ASSUME NEW r \in Request, Start(r) \/ LateStartDropped(r)
      PROVE  TypeOK'
  BY <1>4 DEF Start, StartContainer, StartFails, StartTimesOut, LateStartDropped, Goto
<1>5. ASSUME NEW r \in Request, Answer(r)
      PROVE  TypeOK'
  BY <1>5 DEF Answer, Respond, LoseResponse, Goto
<1>6. ASSUME NEW r \in Request, RecordSession(r) \/ CloseSession(r) \/ ContainerEnds(r)
      PROVE  TypeOK'
  BY <1>6 DEF RecordSession, CloseSession, ContainerEnds, callVars
<1>7. ASSUME NEW n \in Unstable, RowsChange(n) \/ ServerLost(n) \/ ServerBack(n)
      PROVE  TypeOK'
  BY <1>7, NodeAssumption DEF RowsChange, ServerLost, ServerBack, callVars
<1>8. CASE UNCHANGED vars
  BY <1>8 DEF vars, callVars
<1> QED
  BY <1>1, <1>2, <1>3, <1>4, <1>5, <1>6, <1>7, <1>8 DEF Next, Call, Environment

(* Every reachable state is well typed. *)
THEOREM TypeCorrect == Spec => []TypeOK
<1>1. Init => TypeOK
  BY DEF Init, TypeOK
<1> QED
  BY <1>1, TypeStep, PTL DEF Spec
-----------------------------------------------------------------------------
(* The inductive invariant of SharedCoreExplained: it holds of a core from   *)
(* the pick on, not only once the container runs.                        *)
HoldersExplained ==
  \A q, r \in Holders : q # r /\ SameCore(q, r) => q \in rivals[r] \/ r \in rivals[q]

(* What the proofs need of a step that is not a pick. *)
LEMMA Frame ==
  ASSUME TypeOK, [Next]_vars, \A r \in Request : ~PickNode(r)
  PROVE  UNCHANGED <<node, core, rivals>> /\ Holders' \subseteq Holders
<1> USE DEF Holders, InFlight, TypeOK
<1>1. ASSUME NEW r \in Request, ListNodes(r) \/ CloneApp(r) \/ CloneAppFails(r)
      PROVE  UNCHANGED <<node, core, rivals>> /\ Holders' \subseteq Holders
  BY <1>1 DEF ListNodes, CloneApp, CloneAppFails, Goto
<1>2. ASSUME NEW r \in Request, Pick(r)
      PROVE  UNCHANGED <<node, core, rivals>> /\ Holders' \subseteq Holders
  BY <1>2 DEF Pick, Refuse, Crash, GetSessionsFails, ReadSessions, Goto
<1>3. ASSUME NEW r \in Request, Start(r) \/ LateStartDropped(r) \/ Answer(r)
      PROVE  UNCHANGED <<node, core, rivals>> /\ Holders' \subseteq Holders
  BY <1>3 DEF Start, StartContainer, StartFails, StartTimesOut, LateStartDropped,
              Answer, Respond, LoseResponse, Goto
<1>4. ASSUME NEW r \in Request, RecordSession(r) \/ CloseSession(r) \/ ContainerEnds(r)
      PROVE  UNCHANGED <<node, core, rivals>> /\ Holders' \subseteq Holders
  BY <1>4 DEF RecordSession, CloseSession, ContainerEnds, callVars
<1>5. ASSUME NEW n \in Unstable, RowsChange(n) \/ ServerLost(n) \/ ServerBack(n)
      PROVE  UNCHANGED <<node, core, rivals>> /\ Holders' \subseteq Holders
  BY <1>5 DEF RowsChange, ServerLost, ServerBack, callVars
<1>6. CASE UNCHANGED vars
  BY <1>6 DEF vars, callVars
<1> QED
  BY <1>1, <1>2, <1>3, <1>4, <1>5, <1>6 DEF Next, Call, Environment

(* Two running containers share a core only when, at the pick of one, the *)
(* other held the core without an open session: SharedCoreExplained, for any *)
(* number of calls, nodes and cores.                                     *)
THEOREM SharingExplained == Spec => []SharedCoreExplained
<1>1. Init => HoldersExplained
  BY DEF Init, HoldersExplained, Holders, InFlight
<1>2. TypeOK /\ HoldersExplained /\ [Next]_vars => HoldersExplained'
  <2> SUFFICES ASSUME TypeOK, HoldersExplained, [Next]_vars
               PROVE  HoldersExplained'
    OBVIOUS
  <2>1. CASE \A r \in Request : ~PickNode(r)
    BY <2>1, Frame DEF HoldersExplained, SameCore
  <2>2. ASSUME NEW p \in Request, PickNode(p)
        PROVE  HoldersExplained'
    <3>1. PICK n \in Node, c \in Nat :
            /\ c \in UsableCores(p, n, OpenSessions)
            /\ node' = [node EXCEPT ![p] = n]
            /\ core' = [core EXCEPT ![p] = c]
      BY <2>2, PickEffect
    <3>2. rivals' = [rivals EXCEPT ![p] = Holders \ OpenSessions] /\ live' = live
      BY <2>2 DEF PickNode, ReadSessions
    <3>3. Holders' \subseteq Holders \cup {p} /\ Holders \subseteq Request
      BY <2>2 DEF PickNode, ReadSessions, Goto, Holders, InFlight, TypeOK
    <3>4. ASSUME NEW q \in Holders, q # p, SameCore(q, p)'
          PROVE  q \in rivals'[p]
      <4>1. node[q] = n /\ core[q] = c
        BY <3>1, <3>3, <3>4 DEF SameCore, TypeOK
      <4>2. c \notin BusyCores(n, OpenSessions)
        BY <3>1 DEF UsableCores, FreeCores
      <4>3. q \notin OpenSessions
        BY <4>1, <4>2 DEF BusyCores
      <4> QED
        BY <3>2, <3>4, <4>3 DEF TypeOK
    <3>5. ASSUME NEW q \in Holders, NEW r \in Holders, q # r, q # p, r # p, SameCore(q, r)'
          PROVE  q \in rivals'[r] \/ r \in rivals'[q]
      BY <3>1, <3>2, <3>3, <3>5 DEF HoldersExplained, SameCore, TypeOK
    <3> QED
      BY <3>3, <3>4, <3>5 DEF HoldersExplained, SameCore
  <2> QED
    BY <2>1, <2>2
<1>3. HoldersExplained => SharedCoreExplained
  BY DEF HoldersExplained, SharedCoreExplained, Holders
<1> QED
  BY <1>1, <1>2, <1>3, TypeCorrect, PTL DEF Spec
-----------------------------------------------------------------------------
(* The inductive invariant of AdminCoreKept and PackOldestFirst: only calls  *)
(* that are done have sessions, so what a call saw in them stays true.   *)
Bookkeeping ==
  /\ \A r \in Request : sess[r] # "none" => pc[r] = "done"
  /\ \A r \in Request : \A q \in seen[r] : pc[q] = "done"
  /\ \A r \in Request : node[r] # NoNode => pc[r] \notin {"idle", "listed"}
  /\ \A r \in Request :
       pc[r] \in {"picked", "cloned", "started", "done"} => node[r] # NoNode
  /\ \A r \in Request : node[r] # NoNode /\ Reserved(r, node[r]) => core[r] # 0
  /\ \A r \in Request : pc[r] = "refused" =>
       \A n \in listed[r] : GpuFits(r, n) => SeenFull(r, n)

PlacementInv == TypeOK /\ Bookkeeping /\ PackOldestFirst

(* A node that suits a call and is no candidate has all its cores leased. *)
LEMMA NoCandidate ==
  ASSUME TypeOK, NEW r \in Request, NEW n \in listed[r], GpuFits(r, n),
         n \notin Candidates(r, OpenSessions)
  PROVE  \A c \in 0 .. Cpus[n] - 1 :
           \E q \in OpenSessions : node[q] = n /\ core[q] = c
<1>1. FreeCores(n, OpenSessions) = {}
  BY DEF Candidates
<1>2. 0 .. Cpus[n] - 1 \subseteq BusyCores(n, OpenSessions)
  BY <1>1 DEF FreeCores
<1> QED
  BY <1>2 DEF BusyCores

(* A step that reads no sessions keeps what the calls have seen and picked. *)
LEMMA Quiet ==
  ASSUME TypeOK, [Next]_vars,
         \A r \in Request : ~PickNode(r) /\ ~Refuse(r) /\ ~Crash(r)
  PROVE  /\ UNCHANGED <<node, core, seen>>
         /\ \A r \in Request :
              /\ pc[r] = "done" => pc'[r] = "done"
              /\ pc'[r] = "refused" => pc[r] = "refused"
              /\ pc[r] # "idle" => listed'[r] = listed[r]
              /\ pc'[r] \in {"idle", "listed"} => pc[r] \in {"idle", "listed"}
              /\ pc'[r] \in {"picked", "cloned", "started", "done"} =>
                   pc[r] \in {"picked", "cloned", "started", "done"}
              /\ sess'[r] # "none" => sess[r] # "none" \/ pc[r] = "done"
<1> DEFINE Kept ==
      /\ UNCHANGED <<node, core, seen>>
      /\ \A r \in Request :
           /\ pc[r] = "done" => pc'[r] = "done"
           /\ pc'[r] = "refused" => pc[r] = "refused"
           /\ pc[r] # "idle" => listed'[r] = listed[r]
           /\ pc'[r] \in {"idle", "listed"} => pc[r] \in {"idle", "listed"}
           /\ pc'[r] \in {"picked", "cloned", "started", "done"} =>
                pc[r] \in {"picked", "cloned", "started", "done"}
           /\ sess'[r] # "none" => sess[r] # "none" \/ pc[r] = "done"
<1> USE DEF TypeOK
<1>1. ASSUME NEW p \in Request, ListNodes(p) \/ CloneApp(p) \/ CloneAppFails(p)
      PROVE  Kept
  BY <1>1 DEF ListNodes, CloneApp, CloneAppFails, Goto
<1>2. ASSUME NEW p \in Request, Pick(p)
      PROVE  Kept
  BY <1>2 DEF Pick, GetSessionsFails, Goto
<1>3. ASSUME NEW p \in Request, Start(p) \/ LateStartDropped(p) \/ Answer(p)
      PROVE  Kept
  BY <1>3 DEF Start, StartContainer, StartFails, StartTimesOut, LateStartDropped,
              Answer, Respond, LoseResponse, Goto
<1>4. ASSUME NEW p \in Request, RecordSession(p) \/ CloseSession(p) \/ ContainerEnds(p)
      PROVE  Kept
  BY <1>4 DEF RecordSession, CloseSession, ContainerEnds, callVars
<1>5. ASSUME NEW n \in Unstable, RowsChange(n) \/ ServerLost(n) \/ ServerBack(n)
      PROVE  Kept
  BY <1>5 DEF RowsChange, ServerLost, ServerBack, callVars
<1>6. CASE UNCHANGED vars
  BY <1>6 DEF vars, callVars
<1> QED
  BY <1>1, <1>2, <1>3, <1>4, <1>5, <1>6 DEF Next, Call, Environment

(* When call p reads the sessions and goes on to s, what other calls saw *)
(* stays, and every session belongs to a call that is done.              *)
SessionsRead(p, s) ==
  /\ \A r \in Request \ {p} : seen'[r] = seen[r] /\ pc'[r] = pc[r]
  /\ \A q \in Request : pc[q] = "done" => node'[q] = node[q] /\ core'[q] = core[q]
  /\ \A r \in Request \ {p}, n \in Node : SeenFull(r, n) => SeenFull(r, n)'
  /\ \A q \in OpenSessions : q \in Request /\ pc[q] = "done" /\ q # p
  /\ seen'[p] = OpenSessions /\ pc[p] = "listed" /\ pc'[p] = s
  /\ listed' = listed /\ sess' = sess

LEMMA OthersKeep ==
  ASSUME PlacementInv, NEW p \in Request, ReadSessions(p), NEW s, Goto(p, s),
         \/ UNCHANGED <<node, core>>
         \/ \E n, c : node' = [node EXCEPT ![p] = n] /\ core' = [core EXCEPT ![p] = c]
  PROVE  SessionsRead(p, s)
<1> USE DEF PlacementInv, Bookkeeping, TypeOK
<1>1. \A r \in Request \ {p} : seen'[r] = seen[r] /\ pc'[r] = pc[r]
  BY DEF ReadSessions, Goto
<1>2. \A q \in Request : pc[q] = "done" => node'[q] = node[q] /\ core'[q] = core[q]
  BY DEF ReadSessions
<1>3. \A r \in Request \ {p}, n \in Node : SeenFull(r, n) => SeenFull(r, n)'
  BY <1>1, <1>2 DEF SeenFull
<1>4. \A q \in OpenSessions : q \in Request /\ pc[q] = "done" /\ q # p
  BY DEF OpenSessions, ReadSessions
<1> QED
  BY <1>1, <1>2, <1>3, <1>4 DEF SessionsRead, ReadSessions, Goto

LEMMA PlacementInvInductive == PlacementInv /\ [Next]_vars => PlacementInv'
<1> SUFFICES ASSUME PlacementInv, [Next]_vars
             PROVE  PlacementInv'
  OBVIOUS
<1> USE DEF PlacementInv
<1>1. TypeOK'
  BY TypeStep
<1>2. CASE \A r \in Request : ~PickNode(r) /\ ~Refuse(r) /\ ~Crash(r)
  <2>1. \A r \in Request, n \in Node : SeenFull(r, n) => SeenFull(r, n)'
    BY <1>2, Quiet DEF SeenFull
  <2>2. Bookkeeping'
    BY <1>2, <2>1, Quiet DEF Bookkeeping, TypeOK, Reserved
  <2>3. PackOldestFirst'
    BY <1>2, <2>1, Quiet DEF PackOldestFirst, Bookkeeping, TypeOK
  <2> QED
    BY <1>1, <2>2, <2>3
<1>3. ASSUME NEW p \in Request, Refuse(p) \/ Crash(p)
      PROVE  PlacementInv'
  <2>1. ReadSessions(p) /\ UNCHANGED <<node, core>>
    BY <1>3 DEF Refuse, Crash
  <2>2. PICK s \in {"refused", "crashed"} : Goto(p, s)
    BY <1>3 DEF Refuse, Crash
  <2>3. SessionsRead(p, s)
    BY <2>1, <2>2, OthersKeep
  <2>4. ASSUME s = "refused", NEW n \in listed[p], GpuFits(p, n)
        PROVE  SeenFull(p, n)'
    <3>1. Candidates(p, OpenSessions) = {}
      BY <1>3, <2>2, <2>4 DEF Refuse, Crash, Goto, TypeOK
    <3>2. \A c \in 0 .. Cpus[n] - 1 : \E q \in OpenSessions : node[q] = n /\ core[q] = c
      BY <2>4, <3>1, NoCandidate
    <3> QED
      BY <2>1, <2>3, <3>2 DEF SeenFull, SessionsRead
  <2>5. Bookkeeping'
    <3>1. ASSUME NEW r \in Request, pc'[r] = "refused", NEW n \in listed'[r], GpuFits(r, n)
          PROVE  SeenFull(r, n)'
      <4>1. CASE r = p
        BY <2>3, <2>4, <3>1, <4>1 DEF SessionsRead
      <4>2. CASE r # p
        BY <2>3, <3>1, <4>2 DEF SessionsRead, Bookkeeping, TypeOK
      <4> QED
        BY <4>1, <4>2
    <3>2. \A r \in Request : \A q \in seen'[r] : pc'[q] = "done"
      BY <2>3 DEF SessionsRead, Bookkeeping, TypeOK
    <3>3. \A r \in Request :
            /\ sess'[r] # "none" => pc'[r] = "done"
            /\ node'[r] # NoNode => pc'[r] \notin {"idle", "listed"}
            /\ pc'[r] \in {"picked", "cloned", "started", "done"} => node'[r] # NoNode
            /\ node'[r] # NoNode /\ Reserved(r, node'[r]) => core'[r] # 0
      BY <2>1, <2>2, <2>3 DEF SessionsRead, Bookkeeping, TypeOK
    <3> QED
      BY <3>1, <3>2, <3>3 DEF Bookkeeping, Reserved
  <2>6. PackOldestFirst'
    <3>1. node[p] = NoNode
      BY <2>3 DEF SessionsRead, Bookkeeping
    <3>2. \A r \in Request \ {p} : listed'[r] \subseteq Node
      BY <2>3 DEF SessionsRead, TypeOK
    <3> QED
      BY <2>1, <2>3, <3>1, <3>2 DEF PackOldestFirst, SessionsRead, GpuFits
  <2> QED
    BY <1>1, <2>5, <2>6
<1>4. ASSUME NEW p \in Request, PickNode(p)
      PROVE  PlacementInv'
  <2>1. ReadSessions(p) /\ Goto(p, "picked")
    BY <1>4 DEF PickNode
  <2>2. PICK n \in Node, c \in Nat :
          /\ n \in Oldest(Candidates(p, OpenSessions))
          /\ c \in UsableCores(p, n, OpenSessions)
          /\ node' = [node EXCEPT ![p] = n]
          /\ core' = [core EXCEPT ![p] = c]
    BY <1>4, PickEffect
  <2>3. SessionsRead(p, "picked")
    BY <2>1, <2>2, OthersKeep
  <2>4. /\ node'[p] = n /\ core'[p] = c /\ (Reserved(p, n) => c # 0)
        /\ \A r \in Request \ {p} : node'[r] = node[r] /\ core'[r] = core[r]
    BY <2>2 DEF UsableCores, TypeOK
  <2>5. Bookkeeping'
    <3>1. ASSUME NEW r \in Request, pc'[r] = "refused", NEW m \in listed'[r], GpuFits(r, m)
          PROVE  SeenFull(r, m)'
      BY <2>3, <3>1 DEF SessionsRead, Bookkeeping, TypeOK
    <3>2. \A r \in Request : \A q \in seen'[r] : pc'[q] = "done"
      BY <2>3 DEF SessionsRead, Bookkeeping, TypeOK
    <3>3. \A r \in Request :
            /\ sess'[r] # "none" => pc'[r] = "done"
            /\ node'[r] # NoNode => pc'[r] \notin {"idle", "listed"}
            /\ pc'[r] \in {"picked", "cloned", "started", "done"} => node'[r] # NoNode
            /\ node'[r] # NoNode /\ Reserved(r, node'[r]) => core'[r] # 0
      BY <2>2, <2>3, <2>4, NoneAssumption DEF SessionsRead, Bookkeeping, TypeOK
    <3> QED
      BY <3>1, <3>2, <3>3 DEF Bookkeeping, Reserved
  <2>6. ASSUME NEW m \in listed[p], Created[m] < Created[n], GpuFits(p, m)
        PROVE  SeenFull(p, m)'
    <3>1. m \notin Candidates(p, OpenSessions)
      <4>1. m \in Node
        BY DEF TypeOK
      <4>2. Created[m] \in Nat /\ Created[n] \in Nat /\ ~(Created[n] <= Created[m])
        BY <2>6, <4>1, NodeAssumption
      <4> QED
        BY <2>2, <4>2 DEF Oldest
    <3>2. \A d \in 0 .. Cpus[m] - 1 : \E q \in OpenSessions : node[q] = m /\ core[q] = d
      BY <2>6, <3>1, NoCandidate
    <3> QED
      BY <2>3, <3>2 DEF SeenFull, SessionsRead
  <2>7. PackOldestFirst'
    <3>1. \A r \in Request \ {p} : listed'[r] \subseteq Node
      BY <2>3 DEF SessionsRead, TypeOK
    <3> QED
      BY <2>3, <2>4, <2>6, <3>1 DEF PackOldestFirst, SessionsRead, GpuFits
  <2> QED
    BY <1>1, <2>5, <2>7
<1> QED
  BY <1>2, <1>3, <1>4

LEMMA PlacementInvHolds == Spec => []PlacementInv
<1>1. Init => PlacementInv
  BY DEF Init, PlacementInv, TypeOK, Bookkeeping, PackOldestFirst
<1> QED
  BY <1>1, PlacementInvInductive, PTL DEF Spec

(* A container goes to a node only when every older node that suits it is *)
(* full of recorded sessions: PackOldestFirst, for every cluster.        *)
THEOREM OldestFirst == Spec => []PackOldestFirst
<1>1. PlacementInv => PackOldestFirst
  BY DEF PlacementInv
<1> QED
  BY <1>1, PlacementInvHolds, PTL

(* An admin is refused only when admins hold core 0 of every node of the *)
(* reserved region that suits him: AdminCoreKept, for every cluster.     *)
THEOREM AdminCoreIsKept == Spec => []AdminCoreKept
<1>1. PlacementInv => AdminCoreKept
  <2> SUFFICES ASSUME PlacementInv, NEW r \in Request, pc[r] = "refused", ReserveAdminCore,
                      NEW n \in listed[r], RegionOf[n] = ReservedRegion, GpuFits(r, n)
               PROVE  \E q \in seen[r] : q.admin /\ node[q] = n /\ core[q] = 0
    BY DEF AdminCoreKept
  <2>1. n \in Node /\ n # NoNode /\ 0 \in 0 .. Cpus[n] - 1
    BY NodeAssumption, NoneAssumption DEF PlacementInv, TypeOK
  <2>2. PICK q \in seen[r] : node[q] = n /\ core[q] = 0
    BY <2>1 DEF PlacementInv, Bookkeeping, SeenFull
  <2>3. ~Reserved(q, n)
    BY <2>1, <2>2 DEF PlacementInv, Bookkeeping, TypeOK
  <2> QED
    BY <2>2, <2>3 DEF Reserved
<1> QED
  BY <1>1, PlacementInvHolds, PTL
-----------------------------------------------------------------------------
(* A lease changes only when a call picks or its session changes.        *)
LEMMA LeaseFrame ==
  ASSUME TypeOK, [Next]_vars,
         \A r \in Request : ~PickNode(r) /\ ~RecordSession(r) /\ ~CloseSession(r)
  PROVE  UNCHANGED <<node, core, sess>>
<1> USE DEF TypeOK
<1>1. ASSUME NEW p \in Request, Call(p)
      PROVE  UNCHANGED <<node, core, sess>>
  BY <1>1 DEF Call, ListNodes, Pick, Refuse, Crash, GetSessionsFails, ReadSessions,
              CloneApp, CloneAppFails, Start, StartContainer, StartFails, StartTimesOut,
              LateStartDropped, Answer, Respond, LoseResponse
<1>2. ASSUME Environment
      PROVE  UNCHANGED <<node, core, sess>>
  BY <1>2 DEF Environment, ContainerEnds, RowsChange, ServerLost, ServerBack, callVars
<1>3. CASE UNCHANGED vars
  BY <1>3 DEF vars, callVars
<1> QED
  BY <1>1, <1>2, <1>3 DEF Next

(* Placement implements CoreLedger: whatever fails or is lost, run_container *)
(* takes each lease once, on a core no recorded lease holds, and for good.  *)
THEOREM ImplementsLedger == Spec => LeasesCores
<1> DEFINE Leases == [r \in Request |-> LeaseOf(r)]
           Slots == [r \in Request |-> <<node[r], core[r]>>]
<1>1. Init => Ledger!Init
  BY DEF Init, Ledger!Init, LeaseOf
<1>2. PlacementInv /\ [Next]_vars => [Ledger!Next]_Ledger!vars
  <2> SUFFICES ASSUME PlacementInv, [Next]_vars
               PROVE  [Ledger!Next]_Ledger!vars
    OBVIOUS
  <2>1. CASE \A r \in Request : ~PickNode(r) /\ ~RecordSession(r) /\ ~CloseSession(r)
    BY <2>1, LeaseFrame DEF PlacementInv, Ledger!vars, LeaseOf
  <2>2. ASSUME NEW p \in Request, PickNode(p)
        PROVE  Ledger!Take(p)
    <3>1. PICK n \in Node, c \in Nat :
            /\ c \in UsableCores(p, n, OpenSessions)
            /\ c < Cpus[n]
            /\ node' = [node EXCEPT ![p] = n]
            /\ core' = [core EXCEPT ![p] = c]
      BY <2>2, PickEffect DEF PlacementInv
    <3>2. node[p] = NoNode /\ sess[p] = "none" /\ sess' = sess
      BY <2>2 DEF PickNode, ReadSessions, PlacementInv, Bookkeeping, TypeOK
    <3>3. LeaseOf(p) = "absent" /\ LeaseOf(p)' = "taken"
      BY <3>1, <3>2, NoneAssumption DEF LeaseOf, PlacementInv, TypeOK
    <3>4. \A r \in Request \ {p} : LeaseOf(r)' = LeaseOf(r)
      BY <3>1, <3>2 DEF LeaseOf, PlacementInv, TypeOK
    <3>5. Leases' = [Leases EXCEPT ![p] = "taken"]
      BY <3>3, <3>4
    <3>6. Slots' = [Slots EXCEPT ![p] = <<n, c>>]
      BY <3>1 DEF PlacementInv, TypeOK
    <3>7. <<n, c>> \in UNION {{m} \X (0 .. Cpus[m] - 1) : m \in Node}
      BY <3>1, NodeAssumption
    <3>8. <<n, c>> \notin {Slots[q] : q \in {r \in Request : Leases[r] = "recorded"}}
      <4> SUFFICES ASSUME NEW q \in Request, LeaseOf(q) = "recorded",
                          node[q] = n, core[q] = c
                   PROVE  FALSE
        OBVIOUS
      <4>1. q \in OpenSessions
        BY DEF LeaseOf, OpenSessions, PlacementInv, TypeOK
      <4> QED
        BY <3>1, <4>1 DEF UsableCores, FreeCores, BusyCores
    <3> QED
      BY <3>3, <3>5, <3>6, <3>7, <3>8 DEF Ledger!Take, Ledger!Protected
  <2>3. ASSUME NEW p \in Request, RecordSession(p)
        PROVE  Ledger!Record(p)
    <3>1. UNCHANGED <<node, core>> /\ sess' = [sess EXCEPT ![p] = "open"]
      BY <2>3 DEF RecordSession, callVars
    <3>2. LeaseOf(p) = "taken" /\ LeaseOf(p)' = "recorded"
      BY <2>3, <3>1 DEF RecordSession, LeaseOf, PlacementInv, Bookkeeping, TypeOK
    <3>3. \A r \in Request \ {p} : LeaseOf(r)' = LeaseOf(r)
      BY <3>1 DEF LeaseOf, PlacementInv, TypeOK
    <3>4. Leases' = [Leases EXCEPT ![p] = "recorded"] /\ Slots' = Slots
      BY <3>1, <3>2, <3>3
    <3> QED
      BY <3>2, <3>4 DEF Ledger!Record
  <2>4. ASSUME NEW p \in Request, CloseSession(p)
        PROVE  Ledger!Release(p)
    <3>1. UNCHANGED <<node, core>> /\ sess' = [sess EXCEPT ![p] = "closed"]
      BY <2>4 DEF CloseSession, callVars
    <3>2. LeaseOf(p) = "recorded" /\ LeaseOf(p)' = "released"
      BY <2>4, <3>1 DEF CloseSession, LeaseOf, PlacementInv, Bookkeeping, TypeOK
    <3>3. \A r \in Request \ {p} : LeaseOf(r)' = LeaseOf(r)
      BY <3>1 DEF LeaseOf, PlacementInv, TypeOK
    <3>4. Leases' = [Leases EXCEPT ![p] = "released"] /\ Slots' = Slots
      BY <3>1, <3>2, <3>3
    <3> QED
      BY <3>2, <3>4 DEF Ledger!Release
  <2> QED
    BY <2>1, <2>2, <2>3, <2>4 DEF Ledger!Next
<1> QED
  BY <1>1, <1>2, PlacementInvHolds, PTL DEF Spec, LeasesCores, Ledger!Spec
-----------------------------------------------------------------------------
(* The inductive invariant of SerialCallsNeverShare. *)
NoRivals == \A r \in Request : rivals[r] = {}

(* As long as no call reads the sessions while a container is missing from  *)
(* them, no two running containers share a core: SerialCallsNeverShare, for *)
(* every cluster.                                                        *)
THEOREM SerialCallsDoNotShare == Spec => SerialCallsNeverShare
<1>1. Init => NoRivals
  BY DEF Init, NoRivals
<1>2. TypeOK /\ Serial /\ NoRivals /\ [Next]_vars => NoRivals'
  <2> SUFFICES ASSUME TypeOK, Serial, NoRivals, [Next]_vars
               PROVE  NoRivals'
    OBVIOUS
  <2>1. CASE \A r \in Request : ~PickNode(r)
    BY <2>1, Frame DEF NoRivals
  <2>2. ASSUME NEW p \in Request, PickNode(p)
        PROVE  NoRivals'
    <3>1. pc[p] = "listed" /\ rivals' = [rivals EXCEPT ![p] = Holders \ OpenSessions]
      BY <2>2 DEF PickNode, ReadSessions
    <3>2. Holders \ OpenSessions = {}
      BY <3>1 DEF Serial
    <3> QED
      BY <3>1, <3>2 DEF NoRivals, TypeOK
  <2> QED
    BY <2>1, <2>2
<1>3. TypeOK /\ SharedCoreExplained /\ NoRivals => NothingShared
  BY DEF TypeOK, SharedCoreExplained, NoRivals, NothingShared
<1> QED
  BY <1>1, <1>2, <1>3, TypeCorrect, SharingExplained, PTL DEF Spec, SerialCallsNeverShare
=============================================================================

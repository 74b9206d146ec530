----------------------------- MODULE ScalerProofs -----------------------------
(***************************************************************************)
(* Theorems about Scaler, for any servers, regions, jobs and containers. *)
(***************************************************************************)
EXTENDS Scaler, TLAPS

USE ServerAssumption, NoneAssumption

-----------------------------------------------------------------------------
(* Types. *)

JobType ==
  [pc : {"idle", "sessions", "adding", "creating", "deleting", "listed", "known", "over"},
   nodes : SUBSET Server, inUse : SUBSET Server, todo : SUBSET Region,
   adding : Region \cup {NoRegion}, base : SUBSET Server, nextIx : Nat,
   doomed : SUBSET Server, active : SUBSET Server, known : SUBSET Server]

(* A step that changes one job keeps the jobs typed. *)
LEMMA TypeJob ==
  ASSUME TypeOK, NEW j \in Job, NEW new \in JobType, job' = [job EXCEPT ![j] = new]
  PROVE  job' \in [Job -> JobType]
  BY DEF TypeOK, JobType

LEMMA TypeChoose ==
  ASSUME TypeOK, NEW j \in Job, NEW g \in Region, ChooseIndex(j, g)
  PROVE  TypeOK'
<1>1. PICK k \in {0} \cup {ix[s] + 1 : s \in Listed} :
        job' = [job EXCEPT ![j] = [@ EXCEPT !.pc = "creating", !.todo = job[j].todo \ {g},
                                           !.adding = g, !.base = Listed, !.nextIx = k]]
  BY DEF ChooseIndex
<1>2. k \in Nat /\ Listed \subseteq Server
  BY DEF TypeOK, Listed, Alive
<1> DEFINE new == [job[j] EXCEPT !.pc = "creating", !.todo = @ \ {g}, !.adding = g,
                                 !.base = Listed, !.nextIx = k]
<1>3. job[j] \in JobType
  BY DEF TypeOK, JobType
<1>4. new \in JobType
  BY <1>2, <1>3 DEF JobType
<1>5. job' = [job EXCEPT ![j] = new]
  BY <1>1 DEF TypeOK
<1>6. job' \in [Job -> JobType]
  BY <1>4, <1>5, TypeJob
<1> QED
  BY <1>6 DEF TypeOK, JobType, ChooseIndex, ovhVars

LEMMA TypeCreate ==
  ASSUME TypeOK, NEW j \in Job, NEW s \in Server, CreateServer(j, s)
  PROVE  TypeOK'
<1> DEFINE new == [job[j] EXCEPT !.pc = "adding", !.adding = NoRegion, !.base = {},
                                 !.nextIx = 0]
<1>1. job[j] \in JobType
  BY DEF TypeOK, JobType
<1>2. new \in JobType
  BY <1>1 DEF JobType
<1>3. job' = [job EXCEPT ![j] = new]
  BY DEF TypeOK, CreateServer
<1>4. job' \in [Job -> JobType]
  BY <1>2, <1>3, TypeJob
<1>5. /\ stat' \in [Server -> Status]
      /\ ix' \in [Server -> Nat]
      /\ overlooked' \in [Server -> SUBSET Server]
  BY DEF TypeOK, CreateServer, Status, Alive
<1> QED
  BY <1>4, <1>5 DEF TypeOK, JobType, CreateServer

LEMMA TypeListIdle ==
  ASSUME TypeOK, NEW j \in Job, ListIdle(j)
  PROVE  TypeOK'
<1> DEFINE idle == ((ListedActive \ Dedicated) \cap old) \ job[j].inUse
           new == [job[j] EXCEPT !.pc = "deleting", !.doomed = idle, !.inUse = {}]
<1>1. job[j] \in JobType
  BY DEF TypeOK, JobType
<1>2. idle \subseteq Server
  BY DEF ListedActive
<1>3. new \in JobType
  BY <1>1, <1>2 DEF JobType
<1>4. job' = [job EXCEPT ![j] = new]
  BY DEF TypeOK, ListIdle
<1>5. job' \in [Job -> JobType]
  BY <1>3, <1>4, TypeJob
<1> QED
  BY <1>5 DEF TypeOK, JobType, ListIdle, ovhVars

LEMMA TypeReadSessions ==
  ASSUME TypeOK, NEW j \in Job, ScaleReadsSessions(j)
  PROVE  TypeOK'
<1> DEFINE used == {box[u].node : u \in InSession} \cap job[j].nodes
           over == Overloaded(job[j].nodes)
           new == [job[j] EXCEPT !.pc = "adding", !.inUse = used, !.todo = over]
<1>1. job[j] \in JobType
  BY DEF TypeOK, JobType
<1>2. used \subseteq Server /\ over \subseteq Region
  BY <1>1 DEF JobType, Overloaded
<1>3. new \in JobType
  BY <1>1, <1>2 DEF JobType
<1>4. job' = [job EXCEPT ![j] = new]
  BY DEF TypeOK, ScaleReadsSessions
<1>5. job' \in [Job -> JobType]
  BY <1>3, <1>4, TypeJob
<1> QED
  BY <1>5 DEF TypeOK, JobType, ScaleReadsSessions, ovhVars

(* The other steps of a job that go on with it. *)
LEMMA TypeGoOn ==
  ASSUME TypeOK, NEW j \in Job,
         \/ ScaleReadsRows(j)
         \/ \E g \in Region : SkipAdd(j, g)
         \/ SyncLists(j)
         \/ SyncReadsRows(j)
  PROVE  TypeOK'
<1> DEFINE Set(new) == /\ job' = [job EXCEPT ![j] = new]
                      /\ UNCHANGED <<ovhVars, rows, fresh, box>>
<1>1. ASSUME NEW new \in JobType, Set(new)
      PROVE  TypeOK'
  BY <1>1, TypeJob DEF TypeOK, JobType, ovhVars
<1>2. job[j] \in JobType
  BY DEF TypeOK, JobType
<1> HIDE DEF Set
<1>3. CASE ScaleReadsRows(j)
  <2> DEFINE new == [job[j] EXCEPT !.pc = "sessions", !.nodes = rows]
  <2>1. new \in JobType
    BY <1>2 DEF JobType, TypeOK
  <2>2. Set(new)
    BY <1>3 DEF Set, ScaleReadsRows, TypeOK
  <2> QED
    BY <1>1, <2>1, <2>2
<1>4. ASSUME NEW g \in Region, SkipAdd(j, g)
      PROVE  TypeOK'
  <2> DEFINE new == [job[j] EXCEPT !.todo = @ \ {g}]
  <2>1. new \in JobType
    BY <1>2 DEF JobType
  <2>2. Set(new)
    BY <1>4 DEF Set, SkipAdd, TypeOK
  <2> QED
    BY <1>1, <2>1, <2>2
<1>5. CASE SyncLists(j)
  <2> DEFINE new == [job[j] EXCEPT !.pc = "listed", !.active = ListedActive \ Foreign]
  <2>1. new \in JobType
    BY <1>2 DEF JobType, ListedActive
  <2>2. Set(new)
    BY <1>5 DEF Set, SyncLists, TypeOK
  <2> QED
    BY <1>1, <2>1, <2>2
<1>6. CASE SyncReadsRows(j)
  <2> DEFINE new == [job[j] EXCEPT !.pc = "known", !.known = rows]
  <2>1. new \in JobType
    BY <1>2 DEF JobType, TypeOK
  <2>2. Set(new)
    BY <1>6 DEF Set, SyncReadsRows, TypeOK
  <2> QED
    BY <1>1, <2>1, <2>2
<1> QED
  BY <1>3, <1>4, <1>5, <1>6

(* The steps that end a job. *)
LEMMA TypeEnd ==
  ASSUME TypeOK, NEW j \in Job,
         \/ ReadSessionsFails(j)
         \/ CreateFails(j)
         \/ DeleteFails(j)
         \/ SyncCommits(j)
         \/ ListFails(j)
  PROVE  TypeOK'
<1>1. End(j) /\ UNCHANGED <<ovhVars, box>>
  BY DEF ReadSessionsFails, CreateFails, DeleteFails, SyncCommits, ListFails
<1>2. job' \in [Job -> JobType] /\ fresh' \in [Job -> SUBSET User]
  BY <1>1 DEF TypeOK, JobType, End, NoJob
<1>3. rows' \subseteq Server
  BY DEF TypeOK, ReadSessionsFails, CreateFails, DeleteFails, SyncCommits, ListFails
<1> QED
  BY <1>1, <1>2, <1>3 DEF TypeOK, JobType, ovhVars

BoxType == [phase : {"none", "picked", "running", "recorded", "closed", "dead"},
            node : Server \cup {NoServer}, core : Nat \cup {NoCore}]

LEMMA TypeGone ==
  ASSUME TypeOK, NEW s \in Server, Gone(s)
  PROVE  stat' \in [Server -> Status] /\ box' \in [User -> BoxType]
<1>1. \A u \in User : box[u] \in BoxType
  BY DEF TypeOK, BoxType
<1>2. NoBox \in BoxType
  BY DEF NoBox, BoxType
<1>3. \A b \in BoxType : [b EXCEPT !.phase = "dead"] \in BoxType
  BY DEF BoxType
<1>4. box' \in [User -> BoxType]
  BY <1>1, <1>2, <1>3 DEF Gone
<1> QED
  BY <1>4 DEF TypeOK, Gone, Status

LEMMA TypeDelete ==
  ASSUME TypeOK, NEW j \in Job, NEW s \in Server, DeleteServer(j, s)
  PROVE  TypeOK'
<1> DEFINE new == [job[j] EXCEPT !.doomed = @ \ {s}]
<1>0. new \in JobType /\ job' = [job EXCEPT ![j] = new]
  <2>1. job[j] \in JobType
    BY DEF TypeOK, JobType
  <2> QED
    BY <2>1 DEF TypeOK, JobType, DeleteServer
<1>1. job' \in [Job -> JobType]
  BY <1>0, TypeJob
<1>2. CASE Gone(s)
  BY <1>1, <1>2, TypeGone DEF TypeOK, JobType, BoxType, DeleteServer
<1>3. CASE stat' = [stat EXCEPT ![s] = "LEAVING"] /\ UNCHANGED box
  BY <1>1, <1>3 DEF TypeOK, JobType, DeleteServer, Status
<1> QED
  BY <1>2, <1>3 DEF DeleteServer

LEMMA TypeOvh ==
  ASSUME TypeOK, NEW s \in Server, Ovh(s)
  PROVE  TypeOK'
<1>1. CASE Built(s)
  BY <1>1 DEF TypeOK, Built, Status
<1>2. CASE Flap(s)
  <2>1. stat' \in [Server -> Status]
    BY <1>2 DEF TypeOK, Flap, Status
  <2> QED
    BY <1>2, <2>1 DEF TypeOK, Flap
<1>3. CASE GetsOld(s)
  BY <1>3 DEF TypeOK, GetsOld
<1>4. CASE Vanish(s)
  BY <1>4, TypeGone DEF TypeOK, BoxType, Vanish
<1> QED
  BY <1>1, <1>2, <1>3, <1>4 DEF Ovh

LEMMA TypeContainer ==
  ASSUME TypeOK, NEW u \in User, Container(u)
  PROVE  TypeOK'
<1> DEFINE Set(b) == box' = [box EXCEPT ![u] = b]
<1>1. ASSUME NEW b \in BoxType, Set(b)
      PROVE  box' \in [User -> BoxType]
  BY <1>1 DEF TypeOK, BoxType
<1>2. box[u] \in BoxType /\ NoBox \in BoxType
  BY DEF TypeOK, BoxType, NoBox
<1>3. \A p \in {"running", "recorded", "closed", "dead"} :
        [box[u] EXCEPT !.phase = p] \in BoxType
  BY <1>2 DEF BoxType
<1>4. \E b \in BoxType : Set(b)
  <2>1. ASSUME NEW s \in Server, PickCore(u, s)
        PROVE  \E b \in BoxType : Set(b)
    <3>1. PICK c \in 0 .. Cpus[s] - 1 : Set([phase |-> "picked", node |-> s, core |-> c])
      BY <2>1 DEF PickCore
    <3>2. [phase |-> "picked", node |-> s, core |-> c] \in BoxType
      BY DEF BoxType
    <3> QED
      BY <3>1, <3>2
  <2>2. CASE StartContainer(u)
    BY <1>3, <2>2 DEF StartContainer
  <2>3. CASE StartFails(u)
    BY <1>2, <2>3 DEF StartFails
  <2>4. CASE RecordSession(u)
    BY <1>3, <2>4 DEF RecordSession
  <2>5. CASE ContainerEnds(u)
    BY <1>2, <1>3, <2>5 DEF ContainerEnds
  <2>6. CASE CloseSession(u)
    BY <1>2, <1>3, <2>6 DEF CloseSession
  <2> QED
    BY <2>1, <2>2, <2>3, <2>4, <2>5, <2>6 DEF Container
<1>5. box' \in [User -> BoxType]
  BY <1>1, <1>4
<1>6. fresh' \in [Job -> SUBSET User] /\ UNCHANGED <<ovhVars, rows, job>>
  BY DEF TypeOK, Container, PickCore, StartContainer, StartFails, RecordSession, ContainerEnds,
         CloseSession
<1> QED
  BY <1>5, <1>6 DEF TypeOK, BoxType, ovhVars

LEMMA TypeStep == TypeOK /\ [Next]_vars => TypeOK'
<1> SUFFICES ASSUME TypeOK, [Next]_vars
             PROVE  TypeOK'
  OBVIOUS
<1>1. ASSUME NEW j \in Job, Scale(j)
      PROVE  TypeOK'
  BY <1>1, TypeGoOn, TypeReadSessions, TypeEnd, TypeChoose, TypeCreate, TypeDelete,
     TypeListIdle DEF Scale
<1>2. ASSUME NEW j \in Job, Sync(j)
      PROVE  TypeOK'
  BY <1>2, TypeGoOn, TypeEnd DEF Sync
<1>3. CASE UNCHANGED vars
  BY <1>3 DEF TypeOK, vars, ovhVars
<1> QED
  BY <1>1, <1>2, <1>3, TypeOvh, TypeContainer DEF Next

(* TypeOK holds of every behaviour of the jobs, OVH and the containers.  *)
THEOREM TypeCorrect == Spec => []TypeOK
<1>1. Init => TypeOK
  BY DEF Init, TypeOK, NoJob, NoBox, Status
<1> QED
  BY <1>1, TypeStep, PTL DEF Spec

-----------------------------------------------------------------------------
(* Names. *)

(* What a job that is creating a server relies on: the servers its index was *)
(* chosen from still have the smaller indices they had, and none of them is *)
(* building.                                                             *)
BaseKept ==
  \A j \in Job : job[j].pc = "creating" =>
    \A t \in job[j].base : stat[t] \notin {"absent", "BUILD"} /\ ix[t] < job[j].nextIx

NameInv == TypeOK /\ BaseKept /\ NameClashExplained /\ OneBuildUnlessOverlooked

(* A status a server in service, or gone, may have; a row names no other. *)
CameUp(s) ==
  /\ stat[s] \notin {"absent", "BUILD"}
  /\ s \notin Flapping => stat[s] \in {"ACTIVE", "LEAVING", "gone"}

(* How statuses move: no server comes back to absent, BUILD or life, and the *)
(* index of one is set when it is created, and never again.              *)
StatusMoves ==
  /\ UNCHANGED <<ix, overlooked>>
  /\ \A t \in Server :
       \/ stat'[t] = stat[t]
       \/ stat[t] \notin {"absent", "gone"} /\ stat'[t] \notin {"absent", "BUILD"}

LEMMA StatusStep ==
  ASSUME TypeOK, [Next]_vars
  PROVE  \/ \E j \in Job, s \in Server : CreateServer(j, s)
         \/ StatusMoves
<1>1. ASSUME NEW j \in Job, Scale(j), \A s \in Server : ~CreateServer(j, s)
      PROVE  StatusMoves
  <2>1. ASSUME NEW s \in Server, DeleteServer(j, s)
        PROVE  StatusMoves
    BY <2>1 DEF TypeOK, StatusMoves, DeleteServer, Gone, Alive
  <2>2. CASE UNCHANGED ovhVars
    BY <2>2 DEF StatusMoves, ovhVars
  <2> QED
    BY <1>1, <2>1, <2>2 DEF Scale, ScaleReadsRows, ScaleReadsSessions, ReadSessionsFails,
       SkipAdd, ChooseIndex, CreateFails, ListIdle, DeleteFails
<1>2. ASSUME NEW j \in Job, Sync(j)
      PROVE  StatusMoves
  BY <1>2 DEF StatusMoves, ovhVars, Sync, SyncLists, SyncReadsRows, SyncCommits, ListFails
<1>3. ASSUME NEW s \in Server, Ovh(s)
      PROVE  StatusMoves
  <2>1. CASE Built(s)
    BY <2>1 DEF TypeOK, StatusMoves, Built
  <2>2. CASE Flap(s)
    <3>1. \E after \in {"ACTIVE", "HIDDEN", "ERROR", "ALIEN"} : stat' = [stat EXCEPT ![s] = after]
      BY <2>2 DEF Flap
    <3>2. stat[s] \in {"ACTIVE", "HIDDEN", "ERROR", "ALIEN"} /\ UNCHANGED <<ix, overlooked>>
      BY <2>2 DEF Flap
    <3> QED
      BY <3>1, <3>2 DEF TypeOK, StatusMoves
  <2>3. CASE GetsOld(s)
    BY <2>3 DEF StatusMoves, GetsOld
  <2>4. CASE Vanish(s)
    BY <2>4 DEF TypeOK, StatusMoves, Vanish, Gone
  <2> QED
    BY <1>3, <2>1, <2>2, <2>3, <2>4 DEF Ovh
<1>4. ASSUME NEW u \in User, Container(u)
      PROVE  StatusMoves
  BY <1>4 DEF StatusMoves, ovhVars, Container, PickCore, StartContainer, StartFails,
     RecordSession, ContainerEnds, CloseSession
<1>5. CASE UNCHANGED vars
  BY <1>5 DEF StatusMoves, vars, ovhVars
<1> QED
  BY <1>1, <1>2, <1>3, <1>4, <1>5 DEF Next

(* A job that is creating a server has just chosen its index, or was     *)
(* creating it already.                                                  *)
LEMMA CreatingStep ==
  ASSUME TypeOK, [Next]_vars, NEW j \in Job, job'[j].pc = "creating"
  PROVE  \/ \E g \in Region : ChooseIndex(j, g)
         \/ job[j].pc = "creating" /\ job'[j] = job[j]
<1>1. ASSUME NEW i \in Job, End(i)
      PROVE  job'[j].pc = "creating" => job'[j] = job[j]
  BY <1>1 DEF TypeOK, End, NoJob
<1>2. ASSUME NEW i \in Job, Scale(i), ~ \E g \in Region : ChooseIndex(j, g)
      PROVE  job'[j] = job[j]
  <2>1. ASSUME NEW g \in Region, SkipAdd(i, g)
        PROVE  job'[j] = job[j]
    BY <2>1 DEF TypeOK, SkipAdd
  <2>2. ASSUME NEW g \in Region, ChooseIndex(i, g)
        PROVE  job'[j] = job[j]
    <3>1. j # i
      BY <1>2, <2>2
    <3>2. PICK new : job' = [job EXCEPT ![i] = new]
      BY <2>2 DEF ChooseIndex
    <3> QED
      BY <3>1, <3>2 DEF TypeOK
  <2>3. ASSUME NEW s \in Server, CreateServer(i, s) \/ DeleteServer(i, s)
        PROVE  job'[j] = job[j]
    <3>1. CASE CreateServer(i, s)
      <4> DEFINE new == [job[i] EXCEPT !.pc = "adding", !.adding = NoRegion, !.base = {},
                                       !.nextIx = 0]
      <4>1. job' = [job EXCEPT ![i] = new]
        BY <3>1 DEF CreateServer
      <4>2. new.pc = "adding"
        BY DEF TypeOK
      <4> QED
        BY <4>1, <4>2 DEF TypeOK
    <3>2. CASE DeleteServer(i, s)
      BY <3>2 DEF TypeOK, DeleteServer
    <3> QED
      BY <2>3, <3>1, <3>2
  <2>4. CASE ScaleReadsRows(i)
    BY <2>4 DEF TypeOK, ScaleReadsRows
  <2>5. CASE ScaleReadsSessions(i)
    <3> DEFINE new == [job[i] EXCEPT !.pc = "adding",
                         !.inUse = {box[u].node : u \in InSession} \cap job[i].nodes,
                         !.todo = Overloaded(job[i].nodes)]
    <3>1. job' = [job EXCEPT ![i] = new]
      BY <2>5 DEF TypeOK, ScaleReadsSessions
    <3>2. new.pc = "adding"
      BY DEF TypeOK
    <3> QED
      BY <3>1, <3>2 DEF TypeOK
  <2>6. CASE ListIdle(i)
    <3> DEFINE new == [job[i] EXCEPT !.pc = "deleting",
                         !.doomed = ((ListedActive \ Dedicated) \cap old) \ job[i].inUse,
                         !.inUse = {}]
    <3>1. job' = [job EXCEPT ![i] = new]
      BY <2>6 DEF TypeOK, ListIdle
    <3>2. new.pc = "deleting"
      BY DEF TypeOK
    <3> QED
      BY <3>1, <3>2 DEF TypeOK
  <2>7. CASE ReadSessionsFails(i) \/ CreateFails(i) \/ DeleteFails(i)
    BY <1>1, <2>7 DEF ReadSessionsFails, CreateFails, DeleteFails
  <2> QED
    BY <1>2, <2>1, <2>2, <2>3, <2>4, <2>5, <2>6, <2>7 DEF Scale
<1>3. ASSUME NEW i \in Job, Sync(i)
      PROVE  job'[j] = job[j]
  <2>1. CASE SyncLists(i)
    BY <2>1 DEF TypeOK, SyncLists
  <2>2. CASE SyncReadsRows(i)
    BY <2>2 DEF TypeOK, SyncReadsRows
  <2>3. CASE SyncCommits(i) \/ ListFails(i)
    BY <1>1, <2>3 DEF SyncCommits, ListFails
  <2> QED
    BY <1>3, <2>1, <2>2, <2>3 DEF Sync
<1>4. CASE (\E s \in Server : Ovh(s)) \/ (\E u \in User : Container(u)) \/ UNCHANGED vars
  <2>1. CASE \E s \in Server : Ovh(s)
    BY <2>1 DEF TypeOK, Ovh, Built, Flap, GetsOld, Vanish
  <2>2. CASE \E u \in User : Container(u)
    BY <2>2 DEF TypeOK, Container, PickCore, StartContainer, StartFails, RecordSession,
       ContainerEnds, CloseSession
  <2> QED
    BY <1>4, <2>1, <2>2 DEF vars
<1> QED
  BY <1>2, <1>3, <1>4 DEF Next

LEMMA BaseKeptStep ==
  ASSUME NameInv, [Next]_vars
  PROVE  BaseKept'
<1> SUFFICES ASSUME NEW j \in Job, job'[j].pc = "creating", NEW t \in job'[j].base
             PROVE  stat'[t] \notin {"absent", "BUILD"} /\ ix'[t] < job'[j].nextIx
  BY DEF BaseKept
<1> USE DEF NameInv
<1>1. ASSUME NEW g \in Region, ChooseIndex(j, g)
      PROVE  stat'[t] \notin {"absent", "BUILD"} /\ ix'[t] < job'[j].nextIx
  <2>1. PICK k \in {0} \cup {ix[s] + 1 : s \in Listed} :
          /\ \A s \in Listed : ix[s] < k
          /\ job' = [job EXCEPT ![j] = [@ EXCEPT !.pc = "creating", !.todo = job[j].todo \ {g},
                                                !.adding = g, !.base = Listed, !.nextIx = k]]
    BY <1>1 DEF ChooseIndex
  <2>2. job'[j].base = Listed /\ job'[j].nextIx = k
    BY <2>1 DEF TypeOK
  <2>3. Building = {} /\ UNCHANGED <<stat, ix>>
    BY <1>1 DEF ChooseIndex, ovhVars
  <2>4. t \in Server /\ stat[t] \notin {"absent", "BUILD"}
    BY <2>2, <2>3 DEF Listed, Alive, Building
  <2> QED
    BY <2>1, <2>2, <2>3, <2>4
<1>2. CASE job[j].pc = "creating" /\ job'[j] = job[j]
  <2>1. t \in Server /\ stat[t] \notin {"absent", "BUILD"} /\ ix[t] < job[j].nextIx
    BY <1>2 DEF BaseKept, TypeOK
  <2>2. ASSUME NEW i \in Job, NEW s \in Server, CreateServer(i, s)
        PROVE  stat'[t] = stat[t] /\ ix'[t] = ix[t]
    BY <2>1, <2>2 DEF TypeOK, CreateServer
  <2>3. CASE StatusMoves
    BY <1>2, <2>1, <2>3 DEF StatusMoves
  <2> QED
    BY <1>2, <2>1, <2>2, <2>3, StatusStep
<1> QED
  BY <1>1, <1>2, CreatingStep

(* A server that is created has the index of none of the others, and none *)
(* of them is building, but those its creator's list lacked.             *)
LEMMA CreateApart ==
  ASSUME NameInv, NEW j \in Job, NEW s \in Server, CreateServer(j, s)
  PROVE  /\ \A t \in Alive : \/ t \in overlooked'[s]
                             \/ ix'[t] # ix'[s] /\ stat'[t] # "BUILD"
         /\ Alive' = Alive \cup {s}
         /\ \A t \in Server \ {s} : /\ stat'[t] = stat[t]
                                    /\ ix'[t] = ix[t]
                                    /\ overlooked'[t] = overlooked[t]
<1> USE DEF NameInv
<1>1. \A t \in Server \ {s} : /\ stat'[t] = stat[t]
                              /\ ix'[t] = ix[t]
                              /\ overlooked'[t] = overlooked[t]
  BY DEF TypeOK, CreateServer
<1>2. /\ overlooked'[s] = Alive \ job[j].base
      /\ ix'[s] = job[j].nextIx
      /\ stat[s] = "absent" /\ stat'[s] = "BUILD"
      /\ job[j].pc = "creating"
  BY DEF TypeOK, CreateServer
<1>3. Alive' = Alive \cup {s}
  BY <1>1, <1>2 DEF Alive
<1>4. ASSUME NEW t \in Alive, t \notin overlooked'[s]
      PROVE  ix'[t] # ix'[s] /\ stat'[t] # "BUILD"
  <2>1. t \in job[j].base /\ t \in Server \ {s}
    BY <1>2, <1>4 DEF Alive
  <2>2. stat[t] # "BUILD" /\ ix[t] < job[j].nextIx /\ ix[t] \in Nat /\ job[j].nextIx \in Nat
    BY <1>2, <2>1 DEF BaseKept, TypeOK
  <2> QED
    BY <1>1, <1>2, <2>1, <2>2
<1> QED
  BY <1>1, <1>3, <1>4

LEMMA NameInvStep == NameInv /\ [Next]_vars => NameInv'
<1> SUFFICES ASSUME NameInv, [Next]_vars
             PROVE  NameInv'
  OBVIOUS
<1>1. TypeOK' /\ BaseKept'
  BY TypeStep, BaseKeptStep DEF NameInv
<1>2. NameClashExplained' /\ OneBuildUnlessOverlooked'
  <2>1. CASE StatusMoves
    BY <2>1 DEF StatusMoves, NameInv, NameClashExplained, OneBuildUnlessOverlooked, Alive, Building
  <2>2. ASSUME NEW j \in Job, NEW s \in Server, CreateServer(j, s)
        PROVE  NameClashExplained' /\ OneBuildUnlessOverlooked'
    <3>1. NameClashExplained'
      BY <2>2, CreateApart DEF NameInv, NameClashExplained, Alive
    <3>2. OneBuildUnlessOverlooked'
      BY <2>2, CreateApart DEF NameInv, OneBuildUnlessOverlooked, Alive, Building
    <3> QED
      BY <3>1, <3>2
  <2> QED
    BY <2>1, <2>2, StatusStep DEF NameInv
<1> QED
  BY <1>1, <1>2 DEF NameInv

LEMMA NameInvHolds == Spec => []NameInv
<1>1. Init => NameInv
  <2> SUFFICES ASSUME Init
               PROVE  NameInv
    OBVIOUS
  <2>1. TypeOK
    BY DEF Init, TypeOK, NoJob, NoBox, Status
  <2>2. BaseKept
    BY DEF Init, BaseKept, NoJob
  <2>3. NameClashExplained /\ OneBuildUnlessOverlooked
    BY DEF Init, NameClashExplained, OneBuildUnlessOverlooked, Alive, Building
  <2> QED
    BY <2>1, <2>2, <2>3 DEF NameInv
<1> QED
  BY <1>1, NameInvStep, PTL DEF Spec

(* Two servers share a name, and thus a host name and an address, only when *)
(* the list from which one got its index lacked the other.               *)
THEOREM ClashesExplained == Spec => []NameClashExplained
<1>1. NameInv => NameClashExplained
  BY DEF NameInv
<1> QED
  BY <1>1, NameInvHolds, PTL

(* Two servers are built at a time only when the list by which one's creator *)
(* saw no build lacked the other.                                        *)
THEOREM BuildsExplained == Spec => []OneBuildUnlessOverlooked
<1>1. NameInv => OneBuildUnlessOverlooked
  BY DEF NameInv
<1> QED
  BY <1>1, NameInvHolds, PTL

(* Jobs in turn, and every server in the lists: no list lacks a server, and  *)
(* none is created while a job that has chosen an index creates one.     *)
NoneOverlooked ==
  /\ \A s \in Server : overlooked[s] = {}
  /\ \A j \in Job : job[j].pc = "creating" => Alive \subseteq job[j].base

LEMMA NoneOverlookedStep ==
  ASSUME TypeOK, Alone, NoneOverlooked, [Next]_vars
  PROVE  NoneOverlooked'
<1>1. ASSUME NEW i \in Job, NEW s \in Server, CreateServer(i, s)
      PROVE  NoneOverlooked'
  <2>1. job[i].pc = "creating" /\ overlooked' = [overlooked EXCEPT ![s] = Alive \ job[i].base]
    BY <1>1 DEF CreateServer
  <2>2. \A t \in Server : overlooked'[t] = {}
    BY <2>1 DEF NoneOverlooked, TypeOK
  <2>3. ASSUME NEW j \in Job
        PROVE  job'[j].pc # "creating"
    <3>1. CASE j = i
      BY <1>1, <3>1 DEF CreateServer, TypeOK
    <3>2. CASE j # i
      BY <1>1, <2>1, <3>2 DEF CreateServer, TypeOK, Alone, InTurn
    <3> QED
      BY <3>1, <3>2
  <2> QED
    BY <2>2, <2>3 DEF NoneOverlooked
<1>2. CASE StatusMoves
  <2>1. UNCHANGED overlooked /\ Alive' \subseteq Alive
    BY <1>2 DEF StatusMoves, Alive, TypeOK
  <2>2. ASSUME NEW j \in Job, job'[j].pc = "creating"
        PROVE  Alive \subseteq job'[j].base
    <3>1. ASSUME NEW g \in Region, ChooseIndex(j, g)
          PROVE  job'[j].base = Alive
      <4>1. PICK k : job' = [job EXCEPT ![j] = [@ EXCEPT !.pc = "creating", !.todo = job[j].todo \ {g},
                                                        !.adding = g, !.base = Listed, !.nextIx = k]]
        BY <3>1 DEF ChooseIndex
      <4> QED
        BY <4>1 DEF TypeOK, Alone
    <3> QED
      BY <2>2, <3>1, CreatingStep DEF NoneOverlooked
  <2> QED
    BY <2>1, <2>2 DEF NoneOverlooked
<1> QED
  BY <1>1, <1>2, StatusStep

(* While one job works at a time and lists have every server, no two servers *)
(* share a name or build at once: JobsInTurnNeverClash, for any jobs and *)
(* servers.                                                              *)
THEOREM JobsInTurnDoNotClash == Spec => JobsInTurnNeverClash
<1>1. Init => NoneOverlooked
  BY DEF Init, NoneOverlooked, NoJob
<1>2. TypeOK /\ Alone /\ NoneOverlooked /\ [Next]_vars => NoneOverlooked'
  BY NoneOverlookedStep
<1>3. NameInv /\ NoneOverlooked => NoneClash
  BY DEF NameInv, NoneOverlooked, NoneClash, NameClashExplained, OneBuildUnlessOverlooked,
         Alive, Building
<1>4. NameInv => TypeOK
  BY DEF NameInv
<1> QED
  BY <1>1, <1>2, <1>3, <1>4, NameInvHolds, PTL DEF Spec, JobsInTurnNeverClash

-----------------------------------------------------------------------------
(* Rows. *)

(* Rows, and the list a sync is about to make rows of, name servers that *)
(* came up.                                                              *)
RowsInv ==
  /\ TypeOK
  /\ \A s \in rows : CameUp(s)
  /\ \A j \in Job : \A s \in job[j].active : CameUp(s)

LEMMA CameUpStep ==
  ASSUME TypeOK, [Next]_vars, NEW s \in Server, CameUp(s)
  PROVE  CameUp(s)'
<1>1. ASSUME NEW j \in Job, Scale(j)
      PROVE  CameUp(s)'
  <2>1. ASSUME NEW t \in Server, CreateServer(j, t)
        PROVE  CameUp(s)'
    BY <2>1 DEF TypeOK, CameUp, CreateServer
  <2>2. ASSUME NEW t \in Server, DeleteServer(j, t)
        PROVE  CameUp(s)'
    BY <2>2 DEF TypeOK, CameUp, DeleteServer, Gone
  <2>3. CASE UNCHANGED ovhVars
    BY <2>3 DEF CameUp, ovhVars
  <2> QED
    BY <1>1, <2>1, <2>2, <2>3 DEF Scale, ScaleReadsRows, ScaleReadsSessions, ReadSessionsFails,
       SkipAdd, ChooseIndex, CreateFails, ListIdle, DeleteFails
<1>2. ASSUME NEW t \in Server, Ovh(t)
      PROVE  CameUp(s)'
  <2>1. CASE Built(t)
    BY <2>1 DEF TypeOK, CameUp, Built
  <2>2. CASE Flap(t)
    <3>1. \E after \in {"ACTIVE", "HIDDEN", "ERROR", "ALIEN"} : stat' = [stat EXCEPT ![t] = after]
      BY <2>2 DEF Flap
    <3>2. t \in Flapping
      BY <2>2 DEF Flap
    <3> QED
      BY <3>1, <3>2 DEF TypeOK, CameUp
  <2>3. CASE GetsOld(t)
    BY <2>3 DEF CameUp, GetsOld
  <2>4. CASE Vanish(t)
    BY <2>4 DEF TypeOK, CameUp, Vanish, Gone
  <2> QED
    BY <1>2, <2>1, <2>2, <2>3, <2>4 DEF Ovh
<1>3. CASE (\E j \in Job : Sync(j)) \/ (\E u \in User : Container(u)) \/ UNCHANGED vars
  <2>1. UNCHANGED stat
    BY <1>3 DEF vars, ovhVars, Sync, SyncLists, SyncReadsRows, SyncCommits, ListFails, Container,
       PickCore, StartContainer, StartFails, RecordSession, ContainerEnds, CloseSession
  <2> QED
    BY <2>1 DEF CameUp
<1> QED
  BY <1>1, <1>2, <1>3 DEF Next

(* A sync's list changes when it is taken and when the job ends.         *)
LEMMA ActiveStep ==
  ASSUME TypeOK, [Next]_vars, NEW j \in Job
  PROVE  job'[j].active \subseteq job[j].active \cup ListedActive
<1> DEFINE Kept == job'[j].active \subseteq job[j].active \cup ListedActive
<1>1. ASSUME NEW i \in Job, End(i)
      PROVE  Kept
  BY <1>1 DEF TypeOK, End, NoJob
<1>2. ASSUME NEW i \in Job, Scale(i)
      PROVE  Kept
  <2>1. ASSUME NEW g \in Region, SkipAdd(i, g)
        PROVE  Kept
    BY <2>1 DEF TypeOK, SkipAdd
  <2>2. ASSUME NEW g \in Region, ChooseIndex(i, g)
        PROVE  Kept
    <3>1. PICK k : job' = [job EXCEPT ![i] = [@ EXCEPT !.pc = "creating", !.todo = job[i].todo \ {g},
                                                      !.adding = g, !.base = Listed, !.nextIx = k]]
      BY <2>2 DEF ChooseIndex
    <3> DEFINE new == [job[i] EXCEPT !.pc = "creating", !.todo = @ \ {g}, !.adding = g,
                                     !.base = Listed, !.nextIx = k]
    <3>2. job' = [job EXCEPT ![i] = new]
      BY <3>1 DEF TypeOK
    <3>3. new.active = job[i].active
      BY DEF TypeOK
    <3> QED
      BY <3>2, <3>3 DEF TypeOK
  <2>3. ASSUME NEW s \in Server, CreateServer(i, s)
        PROVE  Kept
    BY <2>3 DEF TypeOK, CreateServer
  <2>4. ASSUME NEW s \in Server, DeleteServer(i, s)
        PROVE  Kept
    BY <2>4 DEF TypeOK, DeleteServer
  <2>5. CASE ScaleReadsRows(i)
    BY <2>5 DEF TypeOK, ScaleReadsRows
  <2>6. CASE ScaleReadsSessions(i)
    <3> DEFINE new == [job[i] EXCEPT !.pc = "adding",
                         !.inUse = {box[u].node : u \in InSession} \cap job[i].nodes,
                         !.todo = Overloaded(job[i].nodes)]
    <3>1. job' = [job EXCEPT ![i] = new]
      BY <2>6 DEF TypeOK, ScaleReadsSessions
    <3>2. new.active = job[i].active
      BY DEF TypeOK
    <3> QED
      BY <3>1, <3>2 DEF TypeOK
  <2>7. CASE ListIdle(i)
    <3> DEFINE new == [job[i] EXCEPT !.pc = "deleting",
                         !.doomed = ((ListedActive \ Dedicated) \cap old) \ job[i].inUse,
                         !.inUse = {}]
    <3>1. job' = [job EXCEPT ![i] = new]
      BY <2>7 DEF TypeOK, ListIdle
    <3>2. new.active = job[i].active
      BY DEF TypeOK
    <3> QED
      BY <3>1, <3>2 DEF TypeOK
  <2>8. CASE ReadSessionsFails(i) \/ CreateFails(i) \/ DeleteFails(i)
    BY <1>1, <2>8 DEF ReadSessionsFails, CreateFails, DeleteFails
  <2> QED
    BY <1>2, <2>1, <2>2, <2>3, <2>4, <2>5, <2>6, <2>7, <2>8 DEF Scale
<1>3. ASSUME NEW i \in Job, Sync(i)
      PROVE  Kept
  <2>1. CASE SyncLists(i)
    BY <2>1 DEF TypeOK, SyncLists
  <2>2. CASE SyncReadsRows(i)
    BY <2>2 DEF TypeOK, SyncReadsRows
  <2>3. CASE SyncCommits(i) \/ ListFails(i)
    BY <1>1, <2>3 DEF SyncCommits, ListFails
  <2> QED
    BY <1>3, <2>1, <2>2, <2>3 DEF Sync
<1>4. CASE (\E s \in Server : Ovh(s)) \/ (\E u \in User : Container(u)) \/ UNCHANGED vars
  <2>1. CASE \E s \in Server : Ovh(s)
    BY <2>1 DEF TypeOK, Ovh, Built, Flap, GetsOld, Vanish
  <2>2. CASE \E u \in User : Container(u)
    BY <2>2 DEF TypeOK, Container, PickCore, StartContainer, StartFails, RecordSession,
       ContainerEnds, CloseSession
  <2> QED
    BY <1>4, <2>1, <2>2 DEF vars
<1> QED
  BY <1>2, <1>3, <1>4 DEF Next

(* Only a commit changes the rows, and it adds what its sync has listed. *)
LEMMA RowsStep ==
  ASSUME TypeOK, [Next]_vars
  PROVE  \A s \in rows' : s \in rows \/ \E j \in Job : s \in job[j].active
<1>1. ASSUME NEW j \in Job, SyncCommits(j)
      PROVE  \A s \in rows' : s \in rows \/ s \in job[j].active
  BY <1>1 DEF SyncCommits
<1>2. CASE UNCHANGED rows
  BY <1>2
<1>3. UNCHANGED rows \/ \E j \in Job : SyncCommits(j)
  <2>1. ASSUME NEW j \in Job, Scale(j)
        PROVE  UNCHANGED rows
    BY <2>1 DEF Scale, ScaleReadsRows, ScaleReadsSessions, ReadSessionsFails, SkipAdd,
       ChooseIndex, CreateServer, CreateFails, ListIdle, DeleteServer, DeleteFails
  <2>2. ASSUME NEW j \in Job, Sync(j)
        PROVE  UNCHANGED rows \/ SyncCommits(j)
    BY <2>2 DEF Sync, SyncLists, SyncReadsRows, ListFails
  <2>3. ASSUME NEW s \in Server, Ovh(s)
        PROVE  UNCHANGED rows
    BY <2>3 DEF Ovh, Built, Flap, GetsOld, Vanish
  <2>4. ASSUME NEW u \in User, Container(u)
        PROVE  UNCHANGED rows
    BY <2>4 DEF Container, PickCore, StartContainer, StartFails, RecordSession, ContainerEnds,
       CloseSession
  <2> QED
    BY <2>1, <2>2, <2>3, <2>4 DEF Next, vars
<1> QED
  BY <1>1, <1>2, <1>3

LEMMA RowsInvStep == RowsInv /\ [Next]_vars => RowsInv'
<1> SUFFICES ASSUME RowsInv, [Next]_vars
             PROVE  RowsInv'
  OBVIOUS
<1>1. TypeOK /\ TypeOK'
  BY TypeStep DEF RowsInv
<1>2. \A s \in Server : CameUp(s) => CameUp(s)'
  BY <1>1, CameUpStep
<1>3. ASSUME NEW s \in rows'
      PROVE  CameUp(s)'
  <2>1. CameUp(s)
    BY <1>1, <1>3, RowsStep DEF RowsInv
  <2>2. s \in Server
    BY <1>1, <1>3 DEF TypeOK
  <2> QED
    BY <1>2, <2>1, <2>2
<1>4. ASSUME NEW j \in Job, NEW s \in job'[j].active
      PROVE  CameUp(s)'
  <2>1. s \in Server
    BY <1>1, <1>4 DEF TypeOK
  <2>2. s \in job[j].active \cup ListedActive
    BY <1>1, <1>4, ActiveStep
  <2>3. CameUp(s)
    BY <2>2 DEF RowsInv, ListedActive, CameUp
  <2> QED
    BY <1>2, <2>1, <2>3
<1> QED
  BY <1>1, <1>3, <1>4 DEF RowsInv

LEMMA RowsInvHolds == Spec => []RowsInv
<1>1. Init => RowsInv
  <2> SUFFICES ASSUME Init
               PROVE  RowsInv
    OBVIOUS
  <2>1. TypeOK
    BY DEF Init, TypeOK, NoJob, NoBox, Status
  <2> QED
    BY <2>1 DEF Init, RowsInv, CameUp, NoJob
<1> QED
  BY <1>1, RowsInvStep, PTL DEF Spec

(* No row, however syncs overlap, names a server that is building or failed  *)
(* to build.                                                             *)
THEOREM RowsNameServersThatCameUp == Spec => []RowsCameUp
<1>1. RowsInv => RowsCameUp
  BY DEF RowsInv, RowsCameUp, CameUp
<1> QED
  BY <1>1, RowsInvHolds, PTL

-----------------------------------------------------------------------------
(* Scale-down. *)

(* Where a job acts on the sessions it has read. *)
Working == {"adding", "creating", "deleting"}

(* A container on a server whose row the job has read is in use for the job, *)
(* or fresh, and its server is not on the list of those to be deleted.   *)
ReadInUse(j) ==
  /\ job[j].pc \in {"adding", "creating"} =>
       \A u \in User : box[u].phase = "recorded" =>
         u \in fresh[j] \/ box[u].node \in job[j].inUse \/ box[u].node \notin job[j].nodes
  /\ job[j].pc = "deleting" =>
       /\ job[j].doomed \subseteq Server \ Dedicated
       /\ \A u \in User : box[u].phase = "recorded" /\ box[u].node \in job[j].doomed =>
            u \in fresh[j] \/ box[u].node \notin job[j].nodes

Placed(u) == box[u].phase \in {"picked", "running", "recorded"}

(* The next facts are about jobs that run in turn and cloud servers whose *)
(* status does not leave ACTIVE for a while.                             *)

(* A container's server came up, is there while it runs, and has a row if it *)
(* is a cloud server: only the deletion of the server takes the row away. *)
ContainersHaveRows ==
  \A u \in User :
    /\ Placed(u) => CameUp(box[u].node) /\ box[u].node \in Server
    /\ Placed(u) /\ box[u].node \notin Dedicated /\ stat[box[u].node] # "gone"
         => box[u].node \in rows
    /\ box[u].phase \in {"running", "recorded"} => stat[box[u].node] # "gone"

(* The job has read the row of every container's cloud server, but for those *)
(* it will take as fresh.                                                *)
HasReadRows(j) ==
  /\ job[j].pc = "sessions" => job[j].nodes = rows
  /\ job[j].pc \in Working =>
       \A u \in User : box[u].phase = "recorded" /\ box[u].node \notin Dedicated =>
         u \in fresh[j] \/ box[u].node \in job[j].nodes

(* A sync drops the rows of cloud servers that are gone, and no others.  *)
DropsGone(j) ==
  /\ job[j].pc = "listed" =>
       \A s \in rows \ job[j].active : s \in Dedicated \/ stat[s] = "gone"
  /\ job[j].pc = "known" =>
       \A s \in job[j].known \ job[j].active : s \in Dedicated \/ stat[s] = "gone"

ScaleDownInv ==
  RowsInv /\ ContainersHaveRows /\ \A j \in Job : HasReadRows(j) /\ DropsGone(j)

(* What a job's steps do to the locals these facts are about. *)
LEMMA LocalsStep ==
  ASSUME TypeOK, NEW j \in Job
  PROVE  /\ ScaleReadsRows(j) => job'[j].pc = "sessions" /\ job'[j].nodes = rows
         /\ ScaleReadsSessions(j) =>
              /\ job'[j].pc = "adding" /\ job'[j].nodes = job[j].nodes
              /\ job'[j].inUse = {box[u].node : u \in InSession} \cap job[j].nodes
         /\ \A g \in Region : SkipAdd(j, g) \/ ChooseIndex(j, g) =>
              /\ job[j].pc = "adding" /\ job'[j].pc \in {"adding", "creating"}
              /\ job'[j].nodes = job[j].nodes /\ job'[j].inUse = job[j].inUse
         /\ \A s \in Server : CreateServer(j, s) =>
              /\ job[j].pc = "creating" /\ job'[j].pc = "adding"
              /\ job'[j].nodes = job[j].nodes /\ job'[j].inUse = job[j].inUse
         /\ ListIdle(j) =>
              /\ job[j].pc = "adding" /\ job'[j].pc = "deleting"
              /\ job'[j].nodes = job[j].nodes
              /\ job'[j].doomed \subseteq Server \ (Dedicated \cup job[j].inUse)
         /\ \A s \in Server : DeleteServer(j, s) =>
              /\ job[j].pc = "deleting" /\ job'[j].pc = "deleting"
              /\ job'[j].nodes = job[j].nodes /\ job'[j].doomed \subseteq job[j].doomed
         /\ SyncLists(j) =>
              /\ job'[j].pc = "listed"
              /\ job'[j].active = ListedActive \ Foreign
         /\ SyncReadsRows(j) =>
              /\ job'[j].pc = "known" /\ job'[j].known = rows
              /\ job'[j].active = job[j].active
         /\ End(j) => job'[j].pc \in {"idle", "over"}
<1>1. job \in [Job -> JobType] /\ job[j] \in JobType
  BY DEF TypeOK, JobType
<1>2. ASSUME ScaleReadsRows(j)
      PROVE  job'[j].pc = "sessions" /\ job'[j].nodes = rows
  BY <1>2 DEF TypeOK, ScaleReadsRows
<1>3. ASSUME ScaleReadsSessions(j)
      PROVE  /\ job'[j].pc = "adding" /\ job'[j].nodes = job[j].nodes
             /\ job'[j].inUse = {box[u].node : u \in InSession} \cap job[j].nodes
  <2> DEFINE used == {box[u].node : u \in InSession} \cap job[j].nodes
             over == Overloaded(job[j].nodes)
             new == [job[j] EXCEPT !.pc = "adding", !.inUse = used, !.todo = over]
  <2>1. job' = [job EXCEPT ![j] = new]
    BY <1>1, <1>3 DEF ScaleReadsSessions
  <2>2. new.pc = "adding" /\ new.inUse = used /\ new.nodes = job[j].nodes
    BY <1>1 DEF JobType
  <2> QED
    BY <1>1, <2>1, <2>2
<1>4. ASSUME NEW g \in Region, SkipAdd(j, g)
      PROVE  /\ job[j].pc = "adding" /\ job'[j].pc \in {"adding", "creating"}
             /\ job'[j].nodes = job[j].nodes /\ job'[j].inUse = job[j].inUse
  BY <1>4 DEF TypeOK, SkipAdd
<1>5. ASSUME NEW g \in Region, ChooseIndex(j, g)
      PROVE  /\ job[j].pc = "adding" /\ job'[j].pc \in {"adding", "creating"}
             /\ job'[j].nodes = job[j].nodes /\ job'[j].inUse = job[j].inUse
  <2>1. PICK k : job' = [job EXCEPT ![j] = [@ EXCEPT !.pc = "creating", !.todo = job[j].todo \ {g},
                                                    !.adding = g, !.base = Listed, !.nextIx = k]]
    BY <1>5 DEF ChooseIndex
  <2> DEFINE new == [job[j] EXCEPT !.pc = "creating", !.todo = @ \ {g}, !.adding = g,
                                   !.base = Listed, !.nextIx = k]
  <2>2. job' = [job EXCEPT ![j] = new]
    BY <1>1, <2>1
  <2>3. new.pc = "creating" /\ new.inUse = job[j].inUse /\ new.nodes = job[j].nodes
    BY <1>1 DEF JobType
  <2> QED
    BY <1>1, <1>5, <2>2, <2>3 DEF ChooseIndex
<1>6. ASSUME NEW s \in Server, CreateServer(j, s)
      PROVE  /\ job[j].pc = "creating" /\ job'[j].pc = "adding"
             /\ job'[j].nodes = job[j].nodes /\ job'[j].inUse = job[j].inUse
  BY <1>6 DEF TypeOK, CreateServer
<1>7. ASSUME ListIdle(j)
      PROVE  /\ job[j].pc = "adding" /\ job'[j].pc = "deleting"
             /\ job'[j].nodes = job[j].nodes
             /\ job'[j].doomed \subseteq Server \ (Dedicated \cup job[j].inUse)
  <2> DEFINE idle == ((ListedActive \ Dedicated) \cap old) \ job[j].inUse
             new == [job[j] EXCEPT !.pc = "deleting", !.doomed = idle, !.inUse = {}]
  <2>1. job' = [job EXCEPT ![j] = new] /\ job[j].pc = "adding"
    BY <1>1, <1>7 DEF ListIdle
  <2>2. new.pc = "deleting" /\ new.doomed = idle /\ new.nodes = job[j].nodes
    BY <1>1 DEF JobType
  <2>3. idle \subseteq Server \ (Dedicated \cup job[j].inUse)
    BY DEF ListedActive
  <2> QED
    BY <1>1, <2>1, <2>2, <2>3
<1>8. ASSUME NEW s \in Server, DeleteServer(j, s)
      PROVE  /\ job[j].pc = "deleting" /\ job'[j].pc = "deleting"
             /\ job'[j].nodes = job[j].nodes /\ job'[j].doomed \subseteq job[j].doomed
  BY <1>8 DEF TypeOK, DeleteServer
<1>9. ASSUME SyncLists(j)
      PROVE  job'[j].pc = "listed" /\ job'[j].active = ListedActive \ Foreign
  BY <1>9 DEF TypeOK, SyncLists
<1>10. ASSUME SyncReadsRows(j)
       PROVE  /\ job'[j].pc = "known" /\ job'[j].known = rows
              /\ job'[j].active = job[j].active
  BY <1>10 DEF TypeOK, SyncReadsRows
<1>11. ASSUME End(j)
       PROVE  job'[j].pc \in {"idle", "over"}
  BY <1>11 DEF TypeOK, End, NoJob
<1> QED
  BY <1>2, <1>3, <1>4, <1>5, <1>6, <1>7, <1>8, <1>9, <1>10, <1>11

(* A server that is gone stays so. *)
LEMMA GoneStays ==
  ASSUME TypeOK, [Next]_vars, NEW s \in Server, stat[s] = "gone"
  PROVE  stat'[s] = "gone"
<1>1. ASSUME NEW j \in Job, NEW t \in Server, CreateServer(j, t)
      PROVE  stat'[s] = "gone"
  BY <1>1 DEF TypeOK, CreateServer
<1> QED
  BY <1>1, StatusStep DEF StatusMoves

(* What a step may do to the place of a container: pick it, or move it on.  *)
BoxMoves(u) ==
  \/ box'[u] = box[u]
  \/ box'[u].phase \notin {"picked", "running", "recorded"}
  \/ /\ box[u].phase = "picked" /\ box'[u].phase = "running"
     /\ box'[u].node = box[u].node /\ stat[box[u].node] # "gone"
  \/ /\ box[u].phase = "running" /\ box'[u].phase = "recorded"
     /\ box'[u].node = box[u].node
  \/ box'[u].phase = "picked" /\ box'[u].node \in rows

LEMMA GoneBox ==
  ASSUME TypeOK, NEW s \in Server, Gone(s), NEW u \in User
  PROVE  /\ BoxMoves(u)
         /\ box'[u].phase \in {"running", "recorded"} => box'[u].node # s
<1>1. CASE box[u].node # s \/ box[u].phase \notin {"recorded", "running", "closed"}
  <2>1. box'[u] = box[u]
    BY <1>1 DEF Gone
  <2> QED
    BY <1>1, <2>1 DEF BoxMoves
<1>2. CASE box[u].node = s /\ box[u].phase = "recorded"
  <2>1. box'[u] = [box[u] EXCEPT !.phase = "dead"]
    BY <1>2 DEF Gone
  <2> QED
    BY <2>1 DEF TypeOK, BoxMoves
<1>3. CASE box[u].node = s /\ box[u].phase \in {"running", "closed"}
  <2>1. box'[u] = NoBox
    BY <1>3 DEF Gone
  <2> QED
    BY <2>1 DEF BoxMoves, NoBox
<1> QED
  BY <1>1, <1>2, <1>3

LEMMA BoxStep ==
  ASSUME TypeOK, [Next]_vars, NEW u \in User
  PROVE  BoxMoves(u)
<1>1. CASE UNCHANGED box
  BY <1>1 DEF BoxMoves
<1>2. ASSUME NEW v \in User, Container(v)
      PROVE  BoxMoves(u)
  <2>1. ASSUME NEW s \in Server, PickCore(v, s)
        PROVE  BoxMoves(u)
    BY <2>1 DEF TypeOK, PickCore, BoxMoves
  <2>2. CASE StartContainer(v)
    BY <2>2 DEF TypeOK, StartContainer, BoxMoves, Alive
  <2>3. CASE StartFails(v)
    BY <2>3 DEF TypeOK, StartFails, BoxMoves, NoBox
  <2>4. CASE RecordSession(v)
    BY <2>4 DEF TypeOK, RecordSession, BoxMoves
  <2>5. CASE ContainerEnds(v)
    BY <2>5 DEF TypeOK, ContainerEnds, BoxMoves, NoBox
  <2>6. CASE CloseSession(v)
    BY <2>6 DEF TypeOK, CloseSession, BoxMoves, NoBox
  <2> QED
    BY <1>2, <2>1, <2>2, <2>3, <2>4, <2>5, <2>6 DEF Container
<1>3. ASSUME NEW s \in Server, Gone(s)
      PROVE  BoxMoves(u)
  BY <1>3, GoneBox
<1>4. ASSUME NEW j \in Job, Scale(j) \/ Sync(j)
      PROVE  UNCHANGED box \/ \E s \in Server : Gone(s)
  BY <1>4 DEF Scale, ScaleReadsRows, ScaleReadsSessions, ReadSessionsFails, SkipAdd,
     ChooseIndex, CreateServer, CreateFails, ListIdle, DeleteServer, DeleteFails,
     Sync, SyncLists, SyncReadsRows, SyncCommits, ListFails
<1>5. ASSUME NEW s \in Server, Ovh(s)
      PROVE  UNCHANGED box \/ Gone(s)
  BY <1>5 DEF Ovh, Built, Flap, GetsOld, Vanish
<1> QED
  BY <1>1, <1>2, <1>3, <1>4, <1>5 DEF Next, vars

(* Servers go only by Gone, which ends their containers.                 *)
LEMMA GoneStep ==
  ASSUME TypeOK, [Next]_vars, NEW s \in Server, stat'[s] = "gone", stat[s] # "gone"
  PROVE  Gone(s)
<1>1. ASSUME NEW j \in Job, Scale(j)
      PROVE  Gone(s)
  <2>1. ASSUME NEW t \in Server, CreateServer(j, t)
        PROVE  FALSE
    BY <2>1 DEF TypeOK, CreateServer
  <2>2. ASSUME NEW t \in Server, DeleteServer(j, t)
        PROVE  Gone(s)
    <3>1. CASE stat' = [stat EXCEPT ![t] = "LEAVING"]
      BY <3>1 DEF TypeOK
    <3>2. CASE Gone(t)
      <4>1. s = t
        BY <3>2 DEF TypeOK, Gone
      <4> QED
        BY <3>2, <4>1
    <3> QED
      BY <2>2, <3>1, <3>2 DEF DeleteServer
  <2>3. CASE UNCHANGED stat
    BY <2>3
  <2> QED
    BY <1>1, <2>1, <2>2, <2>3 DEF Scale, ScaleReadsRows, ScaleReadsSessions, ReadSessionsFails,
       SkipAdd, ChooseIndex, CreateFails, ListIdle, DeleteFails, ovhVars
<1>2. ASSUME NEW t \in Server, Ovh(t)
      PROVE  Gone(s)
  <2>1. CASE Vanish(t)
    <3>1. s = t
      BY <2>1 DEF TypeOK, Vanish, Gone
    <3> QED
      BY <2>1, <3>1 DEF Vanish
  <2>2. CASE Built(t)
    BY <2>2 DEF TypeOK, Built
  <2>3. CASE Flap(t)
    <3>1. \E after \in {"ACTIVE", "HIDDEN", "ERROR", "ALIEN"} : stat' = [stat EXCEPT ![t] = after]
      BY <2>3 DEF Flap
    <3> QED
      BY <3>1 DEF TypeOK
  <2>4. CASE GetsOld(t)
    BY <2>4 DEF GetsOld
  <2> QED
    BY <1>2, <2>1, <2>2, <2>3, <2>4 DEF Ovh
<1>3. (\A j \in Job : ~Scale(j)) /\ (\A t \in Server : ~Ovh(t)) => UNCHANGED stat
  BY DEF Next, vars, ovhVars, Sync, SyncLists, SyncReadsRows, SyncCommits, ListFails, Container,
     PickCore, StartContainer, StartFails, RecordSession, ContainerEnds, CloseSession
<1> QED
  BY <1>1, <1>2, <1>3

(* Rows change only when a sync commits. *)
LEMMA RowsChange ==
  ASSUME [Next]_vars
  PROVE  UNCHANGED rows \/ \E j \in Job : SyncCommits(j)
<1>1. ASSUME NEW j \in Job, Scale(j)
      PROVE  UNCHANGED rows
  BY <1>1 DEF Scale, ScaleReadsRows, ScaleReadsSessions, ReadSessionsFails, SkipAdd,
     ChooseIndex, CreateServer, CreateFails, ListIdle, DeleteServer, DeleteFails
<1>2. ASSUME NEW j \in Job, Sync(j)
      PROVE  UNCHANGED rows \/ SyncCommits(j)
  BY <1>2 DEF Sync, SyncLists, SyncReadsRows, ListFails
<1>3. ASSUME NEW t \in Server, Ovh(t)
      PROVE  UNCHANGED rows
  BY <1>3 DEF Ovh, Built, Flap, GetsOld, Vanish
<1>4. ASSUME NEW u \in User, Container(u)
      PROVE  UNCHANGED rows
  BY <1>4 DEF Container, PickCore, StartContainer, StartFails, RecordSession, ContainerEnds,
     CloseSession
<1> QED
  BY <1>1, <1>2, <1>3, <1>4 DEF Next, vars

(* A sync takes no row from a cloud server that is there. *)
LEMMA RowsStay ==
  ASSUME ScaleDownInv, [Next]_vars, NEW s \in rows, s \notin Dedicated, stat[s] # "gone"
  PROVE  s \in rows'
<1>1. ASSUME NEW j \in Job, SyncCommits(j)
      PROVE  s \in rows'
  <2>1. s \notin job[j].known \ job[j].active
    BY <1>1 DEF ScaleDownInv, DropsGone, SyncCommits
  <2> QED
    BY <1>1, <2>1 DEF SyncCommits
<1> QED
  BY <1>1, RowsChange

LEMMA ContainersHaveRowsStep ==
  ASSUME ScaleDownInv, [Next]_vars
  PROVE  ContainersHaveRows'
<1> SUFFICES ASSUME NEW u \in User, Placed(u)'
             PROVE  /\ CameUp(box[u].node)' /\ box'[u].node \in Server
                    /\ box'[u].node \notin Dedicated /\ stat'[box'[u].node] # "gone"
                         => box'[u].node \in rows'
                    /\ box'[u].phase \in {"running", "recorded"}
                         => stat'[box'[u].node] # "gone"
  BY DEF ContainersHaveRows, Placed
<1> DEFINE n == box'[u].node
<1>1. TypeOK /\ ContainersHaveRows /\ BoxMoves(u)
  BY BoxStep DEF ScaleDownInv, RowsInv
<1>2. CameUp(n) /\ n \in Server
  <2>1. CASE n \in rows
    BY <1>1, <2>1 DEF ScaleDownInv, RowsInv, TypeOK
  <2>2. CASE Placed(u) /\ n = box[u].node
    BY <1>1, <2>2 DEF ContainersHaveRows
  <2> QED
    BY <1>1, <2>1, <2>2 DEF BoxMoves, Placed
<1>3. /\ stat'[n] \notin {"absent", "BUILD"}
      /\ n \notin Flapping => stat'[n] \in {"ACTIVE", "LEAVING", "gone"}
  <2>1. \A s \in Server : CameUp(s) => CameUp(s)'
    BY <1>1, CameUpStep
  <2> QED
    BY <1>2, <2>1 DEF CameUp
<1>4. n \notin Dedicated /\ stat'[n] # "gone" => n \in rows'
  <2> SUFFICES ASSUME n \notin Dedicated, stat'[n] # "gone"
               PROVE  n \in rows'
    OBVIOUS
  <2>1. stat[n] # "gone"
    BY <1>1, <1>2, GoneStays
  <2>2. n \in rows
    BY <1>1, <2>1 DEF ContainersHaveRows, BoxMoves, Placed
  <2> QED
    BY <2>1, <2>2, RowsStay
<1>5. box'[u].phase \in {"running", "recorded"} => stat'[n] # "gone"
  <2> SUFFICES ASSUME box'[u].phase \in {"running", "recorded"}, stat'[n] = "gone"
               PROVE  FALSE
    OBVIOUS
  <2>1. stat[n] # "gone"
    BY <1>1 DEF ContainersHaveRows, BoxMoves
  <2>2. Gone(n)
    BY <1>1, <1>2, <2>1, GoneStep
  <2> QED
    BY <1>1, <1>2, <2>2, GoneBox
<1> QED
  BY <1>2, <1>3, <1>4, <1>5 DEF CameUp

(* What comes to be recorded was so before, on the same server, or is    *)
(* recorded by this step.                                                *)
WasRecorded(u) == box[u].phase = "recorded" /\ box[u].node = box'[u].node

LEMMA RecordedStep ==
  ASSUME TypeOK, [Next]_vars, NEW u \in User, box'[u].phase = "recorded"
  PROVE  WasRecorded(u) \/ RecordSession(u)
<1>1. CASE UNCHANGED box
  BY <1>1 DEF WasRecorded
<1>2. ASSUME NEW s \in Server, Gone(s)
      PROVE  WasRecorded(u)
  BY <1>2 DEF Gone, TypeOK, NoBox, WasRecorded
<1>3. ASSUME NEW j \in Job, Scale(j) \/ Sync(j)
      PROVE  UNCHANGED box \/ \E s \in Server : Gone(s)
  BY <1>3 DEF Scale, ScaleReadsRows, ScaleReadsSessions, ReadSessionsFails, SkipAdd,
     ChooseIndex, CreateServer, CreateFails, ListIdle, DeleteServer, DeleteFails,
     Sync, SyncLists, SyncReadsRows, SyncCommits, ListFails
<1>4. ASSUME NEW s \in Server, Ovh(s)
      PROVE  UNCHANGED box \/ Gone(s)
  BY <1>4 DEF Ovh, Built, Flap, GetsOld, Vanish
<1>5. ASSUME NEW v \in User, Container(v)
      PROVE  WasRecorded(u) \/ RecordSession(u)
  <2>1. ASSUME NEW s \in Server, PickCore(v, s)
        PROVE  WasRecorded(u)
    BY <2>1 DEF TypeOK, PickCore, WasRecorded
  <2>2. CASE StartContainer(v)
    BY <2>2 DEF TypeOK, StartContainer, WasRecorded
  <2>3. CASE StartFails(v)
    BY <2>3 DEF TypeOK, StartFails, NoBox, WasRecorded
  <2>4. CASE RecordSession(v)
    BY <2>4 DEF TypeOK, RecordSession, WasRecorded
  <2>5. CASE ContainerEnds(v)
    BY <2>5 DEF TypeOK, ContainerEnds, NoBox, WasRecorded
  <2>6. CASE CloseSession(v)
    BY <2>6 DEF TypeOK, CloseSession, NoBox, WasRecorded
  <2> QED
    BY <1>5, <2>1, <2>2, <2>3, <2>4, <2>5, <2>6 DEF Container
<1> QED
  BY <1>1, <1>2, <1>3, <1>4, <1>5 DEF Next, vars

(* A job leaves the others alone. *)
LEMMA OtherJob ==
  ASSUME TypeOK, NEW i \in Job, NEW j \in Job, i # j, Scale(i) \/ Sync(i)
  PROVE  job'[j] = job[j] /\ fresh'[j] = fresh[j]
<1>1. CASE End(i)
  BY <1>1 DEF TypeOK, End
<1>2. ASSUME NEW g \in Region, SkipAdd(i, g) \/ ChooseIndex(i, g)
      PROVE  job'[j] = job[j] /\ fresh'[j] = fresh[j]
  BY <1>2 DEF TypeOK, SkipAdd, ChooseIndex
<1>3. ASSUME NEW s \in Server, CreateServer(i, s) \/ DeleteServer(i, s)
      PROVE  job'[j] = job[j] /\ fresh'[j] = fresh[j]
  BY <1>3 DEF TypeOK, CreateServer, DeleteServer
<1>4. CASE ScaleReadsRows(i) \/ SyncLists(i) \/ SyncReadsRows(i)
  BY <1>4 DEF TypeOK, ScaleReadsRows, SyncLists, SyncReadsRows
<1>5. CASE ScaleReadsSessions(i)
  BY <1>5 DEF TypeOK, ScaleReadsSessions
<1>6. CASE ListIdle(i)
  BY <1>6 DEF TypeOK, ListIdle
<1> QED
  BY <1>1, <1>2, <1>3, <1>4, <1>5, <1>6
     DEF Scale, ReadSessionsFails, CreateFails, DeleteFails, Sync, SyncCommits, ListFails

(* How a job that acts on the sessions it read got where it is: it keeps the *)
(* rows it read, and what is in use until it lists the servers.          *)
GoesOn(j) ==
  /\ job[j].pc \in Working
  /\ job'[j].nodes = job[j].nodes
  /\ \/ /\ job'[j].pc = "deleting" /\ job[j].pc = "deleting"
        /\ job'[j].doomed \subseteq job[j].doomed
     \/ /\ job'[j].pc = "deleting" /\ job[j].pc = "adding"
        /\ job'[j].doomed \subseteq Server \ (Dedicated \cup job[j].inUse)
     \/ /\ job'[j].pc \in {"adding", "creating"} /\ job[j].pc \in {"adding", "creating"}
        /\ job'[j].inUse = job[j].inUse

LEMMA JobStep ==
  ASSUME TypeOK, [Next]_vars, NEW j \in Job, job'[j].pc \in Working,
         ~ScaleReadsSessions(j)
  PROVE  GoesOn(j) /\ fresh[j] \subseteq fresh'[j]
<1> USE DEF Working
<1>1. CASE job'[j] = job[j] /\ fresh[j] \subseteq fresh'[j]
  BY <1>1 DEF GoesOn
<1>2. ASSUME Scale(j)
      PROVE  GoesOn(j) /\ fresh[j] \subseteq fresh'[j]
  <2>1. ~End(j) /\ ~ScaleReadsRows(j)
    BY LocalsStep
  <2>2. ASSUME NEW g \in Region, SkipAdd(j, g) \/ ChooseIndex(j, g)
        PROVE  GoesOn(j) /\ fresh' = fresh
    BY <2>2, LocalsStep DEF GoesOn, SkipAdd, ChooseIndex
  <2>3. ASSUME NEW s \in Server, CreateServer(j, s) \/ DeleteServer(j, s)
        PROVE  GoesOn(j) /\ fresh' = fresh
    BY <2>3, LocalsStep DEF GoesOn, CreateServer, DeleteServer
  <2>4. CASE ListIdle(j)
    BY <2>4, LocalsStep DEF GoesOn, ListIdle
  <2> QED
    BY <1>2, <2>1, <2>2, <2>3, <2>4 DEF Scale, ReadSessionsFails, CreateFails, DeleteFails
<1>3. ~Sync(j)
  BY LocalsStep DEF Sync, SyncCommits, ListFails
<1>4. ASSUME NEW i \in Job, i # j, Scale(i) \/ Sync(i)
      PROVE  job'[j] = job[j] /\ fresh'[j] = fresh[j]
  BY <1>4, OtherJob
<1>5. ASSUME NEW s \in Server, Ovh(s)
      PROVE  job'[j] = job[j] /\ fresh'[j] = fresh[j]
  BY <1>5 DEF Ovh, Built, Flap, GetsOld, Vanish
<1>6. ASSUME NEW u \in User, Container(u)
      PROVE  job'[j] = job[j] /\ fresh[j] \subseteq fresh'[j]
  <2>1. CASE RecordSession(u)
    BY <2>1 DEF RecordSession
  <2>2. CASE ~RecordSession(u)
    BY <1>6, <2>2 DEF Container, PickCore, StartContainer, StartFails, ContainerEnds, CloseSession
  <2> QED
    BY <2>1, <2>2
<1> QED
  BY <1>1, <1>2, <1>3, <1>4, <1>5, <1>6 DEF Next, vars

(* While a job acts on the sessions it read, a container that is recorded *)
(* was so before, or is fresh.                                           *)
LEMMA FreshStep ==
  ASSUME TypeOK, [Next]_vars, NEW j \in Job, job'[j].pc \in Working,
         NEW u \in User, box'[u].phase = "recorded"
  PROVE  WasRecorded(u) \/ u \in fresh'[j]
<1>1. CASE RecordSession(u)
  BY <1>1 DEF RecordSession, Working
<1> QED
  BY <1>1, RecordedStep

LEMMA ReadInUseStep ==
  ASSUME TypeOK, [Next]_vars, NEW j \in Job, ReadInUse(j)
  PROVE  ReadInUse(j)'
<1>1. CASE job'[j].pc \notin Working
  BY <1>1 DEF ReadInUse, Working
<1>2. CASE ScaleReadsSessions(j)
  <2>1. /\ job'[j].pc = "adding" /\ job'[j].nodes = job[j].nodes
        /\ job'[j].inUse = {box[u].node : u \in InSession} \cap job[j].nodes
        /\ UNCHANGED box
    BY <1>2, LocalsStep DEF ScaleReadsSessions
  <2> QED
    BY <2>1 DEF ReadInUse, InSession
<1>3. CASE job'[j].pc \in Working /\ ~ScaleReadsSessions(j)
  <2>1. GoesOn(j) /\ fresh[j] \subseteq fresh'[j]
    BY <1>3, JobStep
  <2>2. \A u \in User : box'[u].phase = "recorded" => WasRecorded(u) \/ u \in fresh'[j]
    BY <1>3, FreshStep
  <2> QED
    BY <2>1, <2>2 DEF ReadInUse, GoesOn, WasRecorded
<1> QED
  BY <1>1, <1>2, <1>3

AllReadInUse == \A j \in Job : ReadInUse(j)

LEMMA ReadInUseHolds == Spec => []AllReadInUse
<1>1. Init => AllReadInUse
  BY DEF Init, AllReadInUse, ReadInUse, NoJob
<1>2. TypeOK /\ AllReadInUse /\ [Next]_vars => AllReadInUse'
  BY ReadInUseStep DEF AllReadInUse
<1> QED
  BY <1>1, <1>2, TypeCorrect, PTL DEF Spec

(* Whatever jobs overlap, a job deletes a server under a container only when *)
(* that is fresh or its server had no row when the job read the rows:    *)
(* DeletesExplained, for any servers, jobs and containers.               *)
THEOREM DeletesAreExplained == Spec => DeletesExplained
<1>1. AllReadInUse => [DeletesUnseen]_vars
  BY DEF AllReadInUse, ReadInUse, DeletesUnseen, DeleteServer
<1> QED
  BY <1>1, ReadInUseHolds, PTL DEF DeletesExplained

(* While jobs run in turn, the rows stay as they are under a job that works, *)
(* but for its own commit, and the steps of others leave it alone.       *)
LEMMA RowsStayUnder ==
  ASSUME TypeOK, InTurn, [Next]_vars, NEW j \in Job, job'[j].pc \notin {"idle", "over"},
         ~Scale(j), ~Sync(j)
  PROVE  job'[j] = job[j] /\ UNCHANGED rows
<1>1. job'[j] = job[j]
  <2>1. ASSUME NEW i \in Job, Scale(i) \/ Sync(i)
        PROVE  job'[j] = job[j]
    BY <2>1, OtherJob
  <2>2. ASSUME NEW s \in Server, Ovh(s)
        PROVE  UNCHANGED job
    BY <2>2 DEF Ovh, Built, Flap, GetsOld, Vanish
  <2>3. ASSUME NEW u \in User, Container(u)
        PROVE  UNCHANGED job
    BY <2>3 DEF Container, PickCore, StartContainer, StartFails, RecordSession, ContainerEnds,
       CloseSession
  <2> QED
    BY <2>1, <2>2, <2>3 DEF Next, vars
<1>2. ASSUME NEW i \in Job, SyncCommits(i)
      PROVE  FALSE
  <2>1. i # j /\ job[i].pc = "known"
    BY <1>2 DEF Sync, SyncCommits
  <2> QED
    BY <1>1, <2>1 DEF InTurn
<1> QED
  BY <1>1, <1>2, RowsChange

LEMMA HasReadRowsStep ==
  ASSUME ScaleDownInv, InTurn, [Next]_vars, NEW j \in Job
  PROVE  HasReadRows(j)'
<1>1. TypeOK /\ ContainersHaveRows /\ HasReadRows(j)
  BY DEF ScaleDownInv, RowsInv
<1>2. CASE job'[j].pc = "sessions"
  <2>1. CASE ScaleReadsRows(j)
    BY <1>1, <2>1, LocalsStep DEF HasReadRows, ScaleReadsRows, Working
  <2>2. CASE ~ScaleReadsRows(j)
    <3>1. ~Scale(j) /\ ~Sync(j)
      BY <1>1, <1>2, <2>2, LocalsStep
      DEF Scale, ReadSessionsFails, CreateFails, DeleteFails, Sync, SyncCommits, ListFails
    <3>2. job'[j] = job[j] /\ UNCHANGED rows
      BY <1>1, <1>2, <3>1, RowsStayUnder
    <3> QED
      BY <1>1, <1>2, <3>2 DEF HasReadRows, Working
  <2> QED
    BY <2>1, <2>2
<1>3. CASE ScaleReadsSessions(j)
  <2>1. /\ job'[j].pc = "adding" /\ job'[j].nodes = rows /\ UNCHANGED box
    BY <1>1, <1>3, LocalsStep DEF HasReadRows, ScaleReadsSessions
  <2> QED
    BY <1>1, <2>1 DEF HasReadRows, ContainersHaveRows, Placed, Working
<1>4. CASE job'[j].pc \in Working /\ ~ScaleReadsSessions(j)
  <2>1. GoesOn(j) /\ fresh[j] \subseteq fresh'[j]
    BY <1>1, <1>4, JobStep
  <2>2. \A u \in User : box'[u].phase = "recorded" => WasRecorded(u) \/ u \in fresh'[j]
    BY <1>1, <1>4, FreshStep
  <2> QED
    BY <1>1, <1>4, <2>1, <2>2 DEF HasReadRows, GoesOn, WasRecorded, Working
<1> QED
  BY <1>2, <1>3, <1>4 DEF HasReadRows, Working

LEMMA DropsGoneStep ==
  ASSUME Flapping \subseteq Dedicated, ScaleDownInv, InTurn, [Next]_vars, NEW j \in Job
  PROVE  DropsGone(j)'
<1>1. TypeOK /\ RowsInv /\ DropsGone(j) /\ rows \subseteq Server
  BY DEF ScaleDownInv, RowsInv, TypeOK
<1>2. CASE ~Scale(j) /\ ~Sync(j)
  <2>1. CASE job'[j].pc \in {"idle", "over"}
    BY <2>1 DEF DropsGone
  <2>2. CASE job'[j].pc \notin {"idle", "over"}
    <3>1. job'[j] = job[j] /\ UNCHANGED rows
      BY <1>1, <1>2, <2>2, RowsStayUnder
    <3>2. job[j].known \subseteq Server
      BY <1>1 DEF TypeOK
    <3> QED
      BY <1>1, <3>1, <3>2, GoneStays DEF DropsGone
  <2> QED
    BY <2>1, <2>2
<1>3. CASE End(j)
  BY <1>1, <1>3, LocalsStep DEF DropsGone
<1>4. ASSUME job'[j].pc \in {"sessions", "adding", "creating", "deleting"}
      PROVE  DropsGone(j)'
  BY <1>4 DEF DropsGone
<1>5. CASE SyncLists(j)
  <2>1. /\ job'[j].pc = "listed" /\ job'[j].active = ListedActive \ Foreign
        /\ UNCHANGED <<rows, stat>>
    BY <1>1, <1>5, LocalsStep DEF SyncLists, ovhVars
  <2>2. ASSUME NEW s \in rows \ job'[j].active, s \notin Dedicated
        PROVE  stat[s] = "gone"
    <3>1. s \in Server /\ s \notin Foreign /\ s \notin Flapping
      BY <1>1, <2>2, ServerAssumption
    <3>2. stat[s] \in {"ACTIVE", "LEAVING", "gone"}
      BY <1>1, <2>2, <3>1 DEF RowsInv, CameUp
    <3> QED
      BY <2>1, <2>2, <3>1, <3>2 DEF ListedActive
  <2> QED
    BY <2>1, <2>2 DEF DropsGone
<1>6. CASE SyncReadsRows(j)
  <2>1. /\ job[j].pc = "listed" /\ job'[j].pc = "known"
        /\ job'[j].known = rows /\ job'[j].active = job[j].active
        /\ UNCHANGED <<rows, stat>>
    BY <1>1, <1>6, LocalsStep DEF SyncReadsRows, ovhVars
  <2> QED
    BY <1>1, <2>1 DEF DropsGone
<1>7. CASE Scale(j)
  BY <1>1, <1>3, <1>4, <1>7, LocalsStep DEF Scale, ReadSessionsFails, CreateFails, DeleteFails
<1>8. CASE Sync(j)
  BY <1>3, <1>5, <1>6, <1>8 DEF Sync, SyncCommits, ListFails
<1> QED
  BY <1>2, <1>7, <1>8

LEMMA ScaleDownInvHolds ==
  ASSUME Flapping \subseteq Dedicated
  PROVE  Spec /\ []InTurn => []ScaleDownInv
<1>1. Init => ScaleDownInv
  <2> SUFFICES ASSUME Init
               PROVE  ScaleDownInv
    OBVIOUS
  <2>1. TypeOK
    BY DEF Init, TypeOK, NoJob, NoBox, Status
  <2>2. RowsInv
    BY <2>1 DEF Init, RowsInv, CameUp, NoJob
  <2>3. ContainersHaveRows
    BY DEF Init, ContainersHaveRows, Placed, NoBox
  <2>4. \A j \in Job : HasReadRows(j) /\ DropsGone(j)
    BY DEF Init, HasReadRows, DropsGone, NoJob, Working
  <2> QED
    BY <2>2, <2>3, <2>4 DEF ScaleDownInv
<1>2. ScaleDownInv /\ InTurn /\ [Next]_vars => ScaleDownInv'
  <2> SUFFICES ASSUME ScaleDownInv, InTurn, [Next]_vars
               PROVE  ScaleDownInv'
    OBVIOUS
  <2>1. RowsInv' /\ ContainersHaveRows'
    BY RowsInvStep, ContainersHaveRowsStep DEF ScaleDownInv
  <2>2. \A j \in Job : HasReadRows(j)' /\ DropsGone(j)'
    BY HasReadRowsStep, DropsGoneStep
  <2> QED
    BY <2>1, <2>2 DEF ScaleDownInv
<1> QED
  BY <1>1, <1>2, PTL DEF Spec

(* While jobs run in turn and no cloud server leaves ACTIVE for a while, *)
(* scale-down takes no server from under a container but one recorded after *)
(* the job had read the sessions.                                        *)
THEOREM ScaleDownSparesSessions ==
  ASSUME Flapping \subseteq Dedicated
  PROVE  Spec /\ []InTurn => LongSessionSurvives
<1>1. ScaleDownInv /\ AllReadInUse => [DeletesKnownIdle]_vars
  BY DEF ScaleDownInv, HasReadRows, AllReadInUse, ReadInUse, DeletesKnownIdle, DeleteServer, Working
<1>2. Spec /\ []InTurn => []ScaleDownInv
  BY ScaleDownInvHolds
<1> QED
  BY <1>1, <1>2, ReadInUseHolds, PTL DEF LongSessionSurvives

=============================================================================

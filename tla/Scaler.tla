-------------------------------- MODULE Scaler --------------------------------
(***************************************************************************)
(* Scaling the cluster and keeping its rows: biz/cluster_scaler.py       *)
(* scale_jukebox_cluster, add_jukebox_node and sync_cluster_state, over  *)
(* services/ovh_client.py.                                               *)
(*                                                                       *)
(* A scale job reads the rows, then the sessions, adds a server in each  *)
(* overloaded region, lists the servers, deletes the old ones it believes *)
(* idle and syncs the rows with the servers OVH reports ACTIVE.  A sync job *)
(* does the last part only.  Both are HTTP endpoints run in a thread pool *)
(* of several processes: any number of them may overlap, with each other *)
(* and with the calls that place containers, and nothing locks.          *)
(*                                                                       *)
(* Outside the program are the servers (built, failing, leaving), and the *)
(* containers, whose placement is Placement's, cut down to pick, start,  *)
(* record and end.                                                       *)
(***************************************************************************)
EXTENDS Integers, FiniteSets

CONSTANTS
  Server,     \* the OVH servers that ever exist
  Dedicated,  \* those that are dedicated; the others are cloud instances
  Foreign,    \* those of another environment: listed, but never given a row
  FirstIx,    \* the index in the name of each dedicated server
  Region,
  RegionOf,   \* the region of each server
  Cpus,       \* its number of cores
  Job,        \* the scale and sync jobs that may overlap
  OneShot,    \* the jobs that run only once; the others start again and again
  User,       \* the containers that may run at a time
  Flapping,   \* the servers whose status may leave ACTIVE and come back
  NoRegion,
  NoServer,
  NoCore

ASSUME ServerAssumption ==
  /\ Dedicated \subseteq Server
  /\ Foreign \subseteq Dedicated
  /\ FirstIx \in [Dedicated -> Nat]
  /\ \A d, e \in Dedicated : FirstIx[d] = FirstIx[e] => d = e
  /\ RegionOf \in [Server -> Region]
  /\ Cpus \in [Server -> Nat \ {0}]
  /\ Flapping \subseteq Server
  /\ OneShot \subseteq Job
ASSUME NoneAssumption == NoRegion \notin Region /\ NoServer \notin Server /\ NoCore \notin Nat

VARIABLES
  (* OVH *)
  stat,       \* stat[s]: its status
  ix,         \* ix[s]: the index in its name, host name and private IP
  old,        \* the servers older than NODE_SCALE_DOWN_AGE_SECS
  overlooked, \* history: the servers not in the list s's index is from
  (* the program *)
  rows,       \* the servers with a row in cluster.nodes
  job,        \* job[j]: where the job is and its locals
  fresh,      \* history: the containers recorded since j read the sessions
  (* containers *)
  box         \* box[u]: the state and place of the container, if any

ovhVars == <<stat, ix, old, overlooked>>
vars == <<ovhVars, rows, job, fresh, box>>

-----------------------------------------------------------------------------
(* What the OVH API shows.  A LEAVING server has been deleted and is still  *)
(* listed as ACTIVE; a dedicated server is HIDDEN while its iam state is *)
(* not OK; ALIEN stands for the statuses OvhNodeStatus does not know.    *)

Status == {"absent", "BUILD", "ACTIVE", "ERROR", "ALIEN", "HIDDEN", "LEAVING", "gone"}

Alive == {s \in Server : stat[s] \notin {"absent", "gone"}}

Listed == {s \in Alive : stat[s] # "HIDDEN"}

(* get_all_nodes raises ValueError at a status it does not know.  What else *)
(* it raises at comes and goes, and is ListFails alone.                  *)
ListRaises == \E s \in Server : stat[s] = "ALIEN"

(* Mutant of ListedActive: the status is not looked at. *)
ListedAny == Listed

ListedActive == {s \in Server : stat[s] \in {"ACTIVE", "LEAVING"}}

Building == {s \in Server : stat[s] = "BUILD"}

(* What the sessions show: the containers sessionsvc knows, dead or not. *)
InSession == {u \in User : box[u].phase \in {"recorded", "dead"}}

CoresOf(g, N) == UNION {{s} \X (0 .. Cpus[s] - 1) : s \in {t \in N : RegionOf[t] = g}}

UsedCores(g, N) == CoresOf(g, N) \cap {<<box[u].node, box[u].core>> : u \in InSession}

(* CLUSTER_SCALE_CPU_UTILIZATION_THRESHOLD = 0.95 *)
Overloaded(N) == {g \in Region : 100 * Cardinality(UsedCores(g, N)) > 95 * Cardinality(CoresOf(g, N))}

(* A job's locals: nodes are the rows it read, inUse those of them with a *)
(* session, todo the overloaded regions still to be given a server, adding   *)
(* the one being given one, base the servers listed when its index nextIx *)
(* was chosen, doomed the servers still to be deleted, active the servers *)
(* its sync listed and known the rows its sync read.                     *)
NoJob == [pc |-> "idle", nodes |-> {}, inUse |-> {}, todo |-> {}, adding |-> NoRegion,
          base |-> {}, nextIx |-> 0, doomed |-> {}, active |-> {}, known |-> {}]

NoBox == [phase |-> "none", node |-> NoServer, core |-> NoCore]

-----------------------------------------------------------------------------
Init ==
  /\ stat = [s \in Server |-> IF s \in Dedicated THEN "ACTIVE" ELSE "absent"]
  /\ ix = [s \in Server |-> IF s \in Dedicated THEN FirstIx[s] ELSE 0]
  /\ old = Dedicated
  /\ overlooked = [s \in Server |-> {}]
  /\ rows = Dedicated \ Foreign
  /\ job = [j \in Job |-> NoJob]
  /\ fresh = [j \in Job |-> {}]
  /\ box = [u \in User |-> NoBox]

(* The job ends, with its last commit or an exception. *)
End(j) ==
  /\ job' = [job EXCEPT ![j] = IF j \in OneShot THEN [NoJob EXCEPT !.pc = "over"] ELSE NoJob]
  /\ fresh' = [fresh EXCEPT ![j] = {}]

-----------------------------------------------------------------------------
(* A scale job. *)

ScaleReadsRows(j) ==
  /\ job[j].pc = "idle"
  /\ job' = [job EXCEPT ![j] = [@ EXCEPT !.pc = "sessions", !.nodes = rows]]
  /\ UNCHANGED <<ovhVars, rows, fresh, box>>

(* get_sessions, and the utilization of each region from its answer. *)
ScaleReadsSessions(j) ==
  /\ job[j].pc = "sessions"
  /\ job' = [job EXCEPT
                ![j] = [@ EXCEPT !.pc = "adding",
                                 !.inUse = {box[u].node : u \in InSession} \cap job[j].nodes,
                                 !.todo = Overloaded(job[j].nodes)]]
  /\ fresh' = [fresh EXCEPT ![j] = {}]
  /\ UNCHANGED <<ovhVars, rows, box>>

ReadSessionsFails(j) ==
  /\ job[j].pc = "sessions"
  /\ End(j)
  /\ UNCHANGED <<ovhVars, rows, box>>

(* add_jukebox_node: nothing is added in any region while one is building. *)
SkipAdd(j, g) ==
  /\ job[j].pc = "adding" /\ g \in job[j].todo
  /\ ~ListRaises /\ Building # {}
  /\ job' = [job EXCEPT ![j].todo = @ \ {g}]
  /\ UNCHANGED <<ovhVars, rows, fresh, box>>

(* Mutants of ChooseIndex: the largest index itself, not the one after it;   *)
(* the index after those of the active servers; no wait for a building one. *)
Adds(j, g, k) ==
  /\ job[j].pc = "adding" /\ g \in job[j].todo
  /\ ~ListRaises
  /\ job' = [job EXCEPT ![j] = [@ EXCEPT !.pc = "creating", !.todo = job[j].todo \ {g},
                                         !.adding = g, !.base = Listed, !.nextIx = k]]
  /\ UNCHANGED <<ovhVars, rows, fresh, box>>
LargestIndex(j, g) ==
  /\ Building = {}
  /\ \E k \in {-1} \cup {ix[s] : s \in Listed} :
       (\A s \in Listed : ix[s] <= k) /\ Adds(j, g, k)
IndexAfterActive(j, g) ==
  /\ Building = {}
  /\ \E k \in {0} \cup {ix[s] + 1 : s \in ListedActive} :
       (\A s \in ListedActive : ix[s] < k) /\ Adds(j, g, k)
IndexWithoutWait(j, g) ==
  \E k \in {0} \cup {ix[s] + 1 : s \in Listed} :
    (\A s \in Listed : ix[s] < k) /\ Adds(j, g, k)

(* One server at a time, under the index after the largest listed one.   *)
ChooseIndex(j, g) ==
  /\ job[j].pc = "adding" /\ g \in job[j].todo
  /\ ~ListRaises /\ Building = {}
  /\ \E k \in {0} \cup {ix[s] + 1 : s \in Listed} :
       /\ \A s \in Listed : ix[s] < k
       /\ job' = [job EXCEPT ![j] = [@ EXCEPT !.pc = "creating", !.todo = job[j].todo \ {g},
                                              !.adding = g, !.base = Listed, !.nextIx = k]]
  /\ UNCHANGED <<ovhVars, rows, fresh, box>>

CreateServer(j, s) ==
  /\ job[j].pc = "creating"
  /\ stat[s] = "absent" /\ RegionOf[s] = job[j].adding
  /\ stat' = [stat EXCEPT ![s] = "BUILD"]
  /\ ix' = [ix EXCEPT ![s] = job[j].nextIx]
  /\ overlooked' = [overlooked EXCEPT ![s] = Alive \ job[j].base]
  /\ job' = [job EXCEPT ![j] = [@ EXCEPT !.pc = "adding", !.adding = NoRegion, !.base = {},
                                         !.nextIx = 0]]
  /\ UNCHANGED <<old, rows, fresh, box>>

(* OVH has no quota, image or network for it. *)
CreateFails(j) ==
  /\ job[j].pc = "creating"
  /\ End(j)
  /\ UNCHANGED <<ovhVars, rows, box>>

(* Mutant of ListIdle: the sessions are not looked at. *)
ListOld(j) ==
  /\ job[j].pc = "adding" /\ job[j].todo = {}
  /\ ~ListRaises
  /\ job' = [job EXCEPT ![j] = [@ EXCEPT !.pc = "deleting",
                                         !.doomed = (ListedActive \ Dedicated) \cap old,
                                         !.inUse = {}]]
  /\ UNCHANGED <<ovhVars, rows, fresh, box>>

(* The scale-down list: active cloud servers that are old enough and, as far *)
(* as the rows and sessions read at the start tell, have no container.   *)
ListIdle(j) ==
  /\ job[j].pc = "adding" /\ job[j].todo = {}
  /\ ~ListRaises
  /\ LET idle == ((ListedActive \ Dedicated) \cap old) \ job[j].inUse
     IN  job' = [job EXCEPT ![j] = [@ EXCEPT !.pc = "deleting", !.doomed = idle, !.inUse = {}]]
  /\ UNCHANGED <<ovhVars, rows, fresh, box>>

(* Server s goes, and the containers it runs with it. *)
Gone(s) ==
  /\ stat' = [stat EXCEPT ![s] = "gone"]
  /\ box' = [u \in User |->
               CASE box[u].node = s /\ box[u].phase = "recorded"
                      -> [box[u] EXCEPT !.phase = "dead"]
                 [] box[u].node = s /\ box[u].phase \in {"running", "closed"} -> NoBox
                 [] OTHER -> box[u]]

(* OVH accepts the deletion; the server is gone at once, or later and is *)
(* still listed till then.                                               *)
DeleteServer(j, s) ==
  /\ job[j].pc = "deleting" /\ s \in job[j].doomed
  /\ s \in Alive
  /\ Gone(s) \/ (stat' = [stat EXCEPT ![s] = "LEAVING"] /\ UNCHANGED box)
  /\ job' = [job EXCEPT ![j].doomed = @ \ {s}]
  /\ UNCHANGED <<ix, old, overlooked, rows, fresh>>

(* find_server finds nothing: ValueError, and neither the rest of the list   *)
(* nor the sync is done.                                                 *)
DeleteFails(j) ==
  /\ job[j].pc = "deleting" /\ ~(job[j].doomed \subseteq Alive)
  /\ End(j)
  /\ UNCHANGED <<ovhVars, rows, box>>

-----------------------------------------------------------------------------
(* sync_cluster_state, at the end of a scale job or on its own: the pass for *)
(* the jukebox servers; the one for the storage servers has rows of its own. *)

SyncLists(j) ==
  /\ job[j].pc \in {"idle", "deleting"} /\ job[j].doomed = {}
  /\ ~ListRaises
  /\ job' = [job EXCEPT ![j] = [@ EXCEPT !.pc = "listed", !.active = ListedActive \ Foreign]]
  /\ UNCHANGED <<ovhVars, rows, fresh, box>>

SyncReadsRows(j) ==
  /\ job[j].pc = "listed"
  /\ job' = [job EXCEPT ![j] = [@ EXCEPT !.pc = "known", !.known = rows]]
  /\ UNCHANGED <<ovhVars, rows, fresh, box>>

(* The commit; a row another job has added meanwhile violates the unique *)
(* uuid, and the whole transaction is lost.                              *)
SyncCommits(j) ==
  /\ job[j].pc = "known"
  /\ LET added == job[j].active \ job[j].known
         removed == job[j].known \ job[j].active
     IN  rows' = IF added \cap rows = {} THEN (rows \cup added) \ removed ELSE rows
  /\ End(j)
  /\ UNCHANGED <<ovhVars, box>>

(* Any list of servers may raise, and does while a server has a status the *)
(* enum lacks: the API fails, or a server in it has a flavor or a region *)
(* that is not known.  A sync of its own has then done nothing yet.      *)
ListFails(j) ==
  /\ job[j].pc = "adding" \/ (job[j].pc = "deleting" /\ job[j].doomed = {})
  /\ End(j)
  /\ UNCHANGED <<ovhVars, rows, box>>

-----------------------------------------------------------------------------
(* OVH. *)

Built(s) ==
  /\ stat[s] = "BUILD"
  /\ \E after \in {"ACTIVE", "ERROR", "ALIEN"} : stat' = [stat EXCEPT ![s] = after]
  /\ UNCHANGED <<ix, old, overlooked, rows, job, fresh, box>>

(* A server in service is reported otherwise for a while. *)
Flap(s) ==
  /\ s \in Flapping
  /\ LET others == IF s \in Dedicated THEN {"HIDDEN"} ELSE {"ERROR", "ALIEN"}
     IN  \/ stat[s] = "ACTIVE" /\ \E after \in others : stat' = [stat EXCEPT ![s] = after]
         \/ stat[s] \in others /\ stat' = [stat EXCEPT ![s] = "ACTIVE"]
  /\ UNCHANGED <<ix, old, overlooked, rows, job, fresh, box>>

GetsOld(s) ==
  /\ s \in Alive \ old
  /\ old' = old \cup {s}
  /\ UNCHANGED <<stat, ix, overlooked, rows, job, fresh, box>>

Vanish(s) ==
  /\ stat[s] = "LEAVING"
  /\ Gone(s)
  /\ UNCHANGED <<ix, old, overlooked, rows, job, fresh>>

-----------------------------------------------------------------------------
(* Containers. *)

(* run_container picks a core of a node with a row that no session has.  *)
PickCore(u, s) ==
  /\ box[u].phase = "none" /\ s \in rows
  /\ \E c \in 0 .. Cpus[s] - 1 :
       /\ \A v \in InSession : ~(box[v].node = s /\ box[v].core = c)
       /\ box' = [box EXCEPT ![u] = [phase |-> "picked", node |-> s, core |-> c]]
  /\ UNCHANGED <<ovhVars, rows, job, fresh>>

(* The server, whatever OVH reports of it, starts the container. *)
StartContainer(u) ==
  /\ box[u].phase = "picked" /\ box[u].node \in Alive
  /\ box' = [box EXCEPT ![u].phase = "running"]
  /\ UNCHANGED <<ovhVars, rows, job, fresh>>

StartFails(u) ==
  /\ box[u].phase = "picked"
  /\ box' = [box EXCEPT ![u] = NoBox]
  /\ UNCHANGED <<ovhVars, rows, job, fresh>>

RecordSession(u) ==
  /\ box[u].phase = "running"
  /\ box' = [box EXCEPT ![u].phase = "recorded"]
  /\ fresh' = [j \in Job |-> IF job[j].pc \in {"adding", "creating", "deleting"}
                             THEN fresh[j] \cup {u} ELSE {}]
  /\ UNCHANGED <<ovhVars, rows, job>>

(* The container stops; its session may have closed before, or closes later. *)
ContainerEnds(u) ==
  /\ box[u].phase \in {"running", "recorded", "closed"}
  /\ box' = [box EXCEPT ![u] = IF @.phase = "recorded" THEN [@ EXCEPT !.phase = "dead"]
                               ELSE NoBox]
  /\ UNCHANGED <<ovhVars, rows, job, fresh>>

CloseSession(u) ==
  /\ u \in InSession
  /\ box' = [box EXCEPT ![u] = IF @.phase = "recorded" THEN [@ EXCEPT !.phase = "closed"]
                               ELSE NoBox]
  /\ UNCHANGED <<ovhVars, rows, job, fresh>>

-----------------------------------------------------------------------------
Scale(j) ==
  \/ ScaleReadsRows(j)
  \/ ScaleReadsSessions(j)
  \/ ReadSessionsFails(j)
  \/ \E g \in Region : SkipAdd(j, g) \/ ChooseIndex(j, g)
  \/ \E s \in Server : CreateServer(j, s) \/ DeleteServer(j, s)
  \/ CreateFails(j)
  \/ ListIdle(j)
  \/ DeleteFails(j)

Sync(j) == SyncLists(j) \/ SyncReadsRows(j) \/ SyncCommits(j) \/ ListFails(j)

Ovh(s) == Built(s) \/ Flap(s) \/ GetsOld(s) \/ Vanish(s)

Container(u) ==
  \/ \E s \in Server : PickCore(u, s)
  \/ StartContainer(u)
  \/ StartFails(u)
  \/ RecordSession(u)
  \/ ContainerEnds(u)
  \/ CloseSession(u)

Next ==
  \/ \E j \in Job : Scale(j) \/ Sync(j)
  \/ \E s \in Server : Ovh(s)
  \/ \E u \in User : Container(u)

Spec == Init /\ [][Next]_vars

-----------------------------------------------------------------------------
(* Every variable has its type (cluster_scaler.py, models.py).           *)
TypeOK ==
  /\ stat \in [Server -> Status]
  /\ ix \in [Server -> Nat]
  /\ old \subseteq Server
  /\ overlooked \in [Server -> SUBSET Server]
  /\ rows \subseteq Server
  /\ job \in [Job -> [pc : {"idle", "sessions", "adding", "creating", "deleting", "listed", "known",
                             "over"},
                      nodes : SUBSET Server, inUse : SUBSET Server, todo : SUBSET Region,
                      adding : Region \cup {NoRegion}, base : SUBSET Server, nextIx : Nat,
                      doomed : SUBSET Server, active : SUBSET Server, known : SUBSET Server]]
  /\ fresh \in [Job -> SUBSET User]
  /\ box \in [User -> [phase : {"none", "picked", "running", "recorded", "closed", "dead"},
                       node : Server \cup {NoServer}, core : Nat \cup {NoCore}]]

(* Two servers have one name, host name and private IP only when one was *)
(* created from a list that lacked the other: the other was being created *)
(* by an overlapping job, or is a dedicated server OVH did not list.  Jobs   *)
(* that do not overlap never reuse a name in use (add_jukebox_node).     *)
NameClashExplained ==
  \A s, t \in Alive : s # t /\ ix[s] = ix[t] => s \in overlooked[t] \/ t \in overlooked[s]

(* Docstring of add_jukebox_node: nothing is created while a node is pending *)
(* creation; two servers build at a time only when overlapping jobs created  *)
(* them, neither listed by the other.                                    *)
OneBuildUnlessOverlooked ==
  \A s, t \in Building : s # t => s \in overlooked[t] \/ t \in overlooked[s]

(* However syncs overlap, no row names a server that never came up, so no *)
(* call is placed on a server that is still building or failed to build. *)
RowsCameUp ==
  \A s \in rows : /\ stat[s] \notin {"absent", "BUILD"}
                  /\ stat[s] \in {"ERROR", "ALIEN"} => s \in Flapping

DeletesKnownIdle ==
  \A j \in Job : \A s \in Server :
    DeleteServer(j, s) =>
      \A u \in User : box[u].phase = "recorded" /\ box[u].node = s => u \in fresh[j]

(* Comment of scale_jukebox_cluster: servers with no containers are removed. *)
(* A job deletes a server under a container only when the container was  *)
(* recorded after the job had read the sessions.                         *)
LongSessionSurvives == [][DeletesKnownIdle]_vars

DeletesUnseen ==
  \A j \in Job : \A s \in Server :
    DeleteServer(j, s) =>
      \A u \in User : box[u].phase = "recorded" /\ box[u].node = s =>
        u \in fresh[j] \/ s \notin job[j].nodes

(* Whatever jobs overlap and however statuses come and go, a job deletes a  *)
(* server under a recorded container only when the container was recorded *)
(* after the job had read the sessions or the server had no row when it read *)
(* the rows (the two reads of scale_jukebox_cluster, id_to_node).        *)
DeletesExplained == [][DeletesUnseen]_vars

(* One job works at a time. *)
InTurn ==
  \A j, k \in Job : j # k => job[j].pc \in {"idle", "over"} \/ job[k].pc \in {"idle", "over"}

(* And every server is listed. *)
Alone == InTurn /\ Alive = Listed

NoneClash ==
  \A s, t \in Alive : s # t => ix[s] # ix[t] /\ ~({s, t} \subseteq Building)

(* Jobs that run one after another never give a name away that is in use, *)
(* nor build two servers at a time, although the index and the check for a  *)
(* building one come from a list read before the creation                *)
(* (add_jukebox_node).                                                   *)
JobsInTurnNeverClash == []Alone => []NoneClash

=============================================================================

-------------------------------- MODULE Fleet --------------------------------
(***************************************************************************)
(* Who a server is.  The same server is known by its OVH name, by the index  *)
(* read from that name, by a private address, by what its cloud-init boots *)
(* with, by a row of cluster.nodes and by the host name made of that row:  *)
(* biz/ovh_utils.py, biz/ovh_defs.py, biz/ovh_cluster.py, biz/models.py, and *)
(* Node.from_node_dao.                                                   *)
(*                                                                       *)
(* Servers come from the scaler, one job at a time here (Scaler has those *)
(* that overlap), from POST /ovh/cluster/nodes/create, or are dedicated. *)
(* A call reads a row, and later starts a container on whichever server the *)
(* host name leads to.                                                   *)
(***************************************************************************)
EXTENDS Integers, FiniteSets

CONSTANTS
  Server,       \* the servers that ever exist, by OVH uuid
  Dedicated,    \* those that are dedicated
  FirstName,    \* the name, region and flavor of each dedicated server
  FirstRegion,
  FirstFlavor,
  HandName,     \* what POST /ovh/cluster/nodes/create may be called with
  HandFlavor,
  Call,         \* the calls that may place a container at a time
  NoServer,
  NoIndex

(* A name as the code reads it: the service it starts with, the first number *)
(* of its first token, and the first number after it.                    *)
Service == {"jukebox", "appstor"}
Name == [starts : Service \cup {"other"}, token : Nat \cup {NoIndex}, rest : Nat \cup {NoIndex}]

(* DcRegion, and the names OVH has for regions: of cloud and of dedicated *)
(* servers.  Europe has neither.                                         *)
Region == {"eu-central-1", "us-east-1", "us-west-1"}
CloudRegion == {"US-EAST-VA-1", "US-WEST-OR-1"}
DedicatedRegion == {"us-east-vin", "us-west-hil"}

(* A flavor's spelling: OvhNodeFlavor has dedicated ones in upper case and *)
(* cloud ones in lower case, cluster.node_flavor all in lower case.      *)
Flavor == [range : {"custom-1", "rise-3"}, case : {"upper"}]
          \cup [range : {"b2-7", "b3-8", "d2-2", "d2-8", "l4-90", "l4-180", "t2-le-45", "t2-le-90"},
                case : {"lower"}]
Lower(f) == [f EXCEPT !.case = "lower"]
Upper(f) == [f EXCEPT !.case = "upper"]

ASSUME FleetAssumption ==
  /\ Dedicated \subseteq Server /\ IsFiniteSet(Dedicated)
  /\ FirstName \in [Dedicated -> Name]
  /\ FirstRegion \in [Dedicated -> DedicatedRegion]
  /\ FirstFlavor \in [Dedicated -> {f \in Flavor : f.case = "upper"}]
  /\ \A d \in Dedicated : FirstName[d].starts = "jukebox" /\ FirstName[d].token \in Nat
  /\ \A d, e \in Dedicated : FirstName[d].token = FirstName[e].token => d = e
  /\ HandName \subseteq Name
  /\ HandFlavor \subseteq {f \in Flavor : f.case = "lower"}
  /\ NoServer \notin Server /\ NoIndex \notin Nat

VARIABLES
  stat,    \* stat[s]: absent, BUILD, ACTIVE or gone
  descr,   \* descr[s]: what it was created with
  shy,     \* the dedicated servers that have begun to be missing in lists
  rows,    \* cluster.nodes, the rows of the jukebox servers
  job,     \* the scale job: where it is and its locals
  box      \* box[u]: the row a call has read, and the server its container is on

vars == <<stat, descr, shy, rows, job, box>>

-----------------------------------------------------------------------------
(* Names, indices, addresses. *)

Alive == {s \in Server : stat[s] \in {"BUILD", "ACTIVE"}}
Jukeboxes == {s \in Alive : descr[s].name.starts = "jukebox"}

(* What _get_ovh_nodes_by_service may return: a dedicated server whose iam *)
(* state is not OK is left out.                                          *)
Lists == {l \in SUBSET Jukeboxes : Jukeboxes \ shy \subseteq l}

(* node_ix_from_instance_name, for a server made by hand. *)
TokenIndex(name) == name.token

(* Mutant of NameIndex: the number next to the end of the name. *)
LastIndex(name) == IF name.rest # NoIndex THEN name.rest ELSE name.token

(* OvhClusterNodeDescr.node_ix, for a listed server. *)
NameIndex(name) == IF name.token # NoIndex THEN name.token ELSE name.rest

(* The last octet of index 0 of each service. *)
Offset(service) == IF service = "jukebox" THEN 2 ELSE 200

(* DC_REGION_TO_OVH_CLOUD_REGION, and normalize_region back. *)
OvhRegion(region) == IF region = "us-east-1" THEN "US-EAST-VA-1" ELSE "US-WEST-OR-1"
DcRegion(raw) == IF raw \in {"US-EAST-VA-1", "us-east-vin"} THEN "us-east-1" ELSE "us-west-1"

(* node_ix_to_private_ip: 192.168.<net>.<host>; Europe has no network.   *)
HasNetwork(region) == region # "eu-central-1"
Address(service, region, k) ==
  [net |-> IF region = "us-east-1" THEN 12 ELSE 13, host |-> Offset(service) + k]

(* build_jukebox_image_user_data, build_appstor_image_user_data: the address *)
(* the server takes, and the host name it tells by its boot.env.         *)
UserData(service, region, k) ==
  [addr |-> Address(service, region, k), fqdn |-> <<service, k, region>>]

-----------------------------------------------------------------------------
(* Rows and the nodes made of them. *)

Hostname(row) == <<"jukebox", row.ix, row.region>>

(* Mutant of DaoFlavor: the type of the node is not looked at.           *)
AlwaysUpper(row) == Upper(row.flavor)

(* from_node_dao raises when the result is not in Flavor. *)
DaoFlavor(row) == IF row.type = "dedicated" THEN Upper(row.flavor) ELSE row.flavor

(* What the sync adds for a server: its index is taken from the name.    *)
RowOf(s) ==
  [uuid |-> s, region |-> DcRegion(descr[s].region), ix |-> NameIndex(descr[s].name),
   type |-> IF s \in Dedicated THEN "dedicated" ELSE "public-cloud-instance",
   flavor |-> Lower(descr[s].flavor)]

(* The servers a host name leads to: those alive with its address whose image *)
(* has a Docker daemon.                                                  *)
Reached(host) ==
  {s \in Alive : /\ descr[s].boot.addr = Address(host[1], host[3], host[2])
                  /\ descr[s].image = "jukebox"}

-----------------------------------------------------------------------------
NoDescr == [by |-> "nobody"]
NoJob == [pc |-> "idle", next |-> NoIndex, region |-> "none", active |-> {}]
NoBox == [phase |-> "none"]

DedicatedDescr(d) ==
  [by |-> "ovh", name |-> FirstName[d], region |-> FirstRegion[d], flavor |-> FirstFlavor[d],
   image |-> "jukebox", boot |-> UserData("jukebox", DcRegion(FirstRegion[d]), FirstName[d].token)]

Init ==
  /\ stat = [s \in Server |-> IF s \in Dedicated THEN "ACTIVE" ELSE "absent"]
  /\ descr = [s \in Server |-> IF s \in Dedicated THEN DedicatedDescr(s) ELSE NoDescr]
  /\ shy = {}
  /\ rows = {}
  /\ job = NoJob
  /\ box = [u \in Call |-> NoBox]

(* An octet beyond 255 is no address. *)
Create(s, d) ==
  /\ stat[s] = "absent" /\ s \notin Dedicated
  /\ d.boot.addr.host <= 255
  /\ stat' = [stat EXCEPT ![s] = "BUILD"]
  /\ descr' = [descr EXCEPT ![s] = d]

(* POST /ovh/cluster/nodes/create: the service is the image's, the index the *)
(* name's; a name without one, an image of neither service and a region  *)
(* without a network are refused.                                        *)
CreateByHand(s, name, image, region, flavor) ==
  /\ TokenIndex(name) # NoIndex
  /\ image \in Service
  /\ HasNetwork(region)
  /\ Create(s, [by |-> "hand", name |-> name, region |-> OvhRegion(region), flavor |-> flavor,
                image |-> image, boot |-> UserData(image, region, TokenIndex(name))])
  /\ UNCHANGED <<shy, rows, job, box>>

-----------------------------------------------------------------------------
(* A scale job. *)

(* Mutant of ChooseIndex: the servers that are still building are left out. *)
ChooseAmongActive(region) ==
  /\ job.pc = "idle" /\ HasNetwork(region)
  /\ \E listed \in Lists :
       \E k \in {0} \cup {NameIndex(descr[s].name) + 1 : s \in listed} :
         /\ \A s \in listed : stat[s] = "ACTIVE" => NameIndex(descr[s].name) < k
         /\ job' = [job EXCEPT !.pc = "creating", !.next = k, !.region = region]
  /\ UNCHANGED <<stat, descr, shy, rows, box>>

(* add_jukebox_node, for an overloaded region: one server at a time, under *)
(* the index after the largest listed one.                               *)
ChooseIndex(region) ==
  /\ job.pc = "idle" /\ HasNetwork(region)
  /\ \E listed \in Lists :
       /\ \A s \in listed : stat[s] # "BUILD"
       /\ \E k \in {0} \cup {NameIndex(descr[s].name) + 1 : s \in listed} :
            /\ \A s \in listed : NameIndex(descr[s].name) < k
            /\ job' = [job EXCEPT !.pc = "creating", !.next = k, !.region = region]
  /\ UNCHANGED <<stat, descr, shy, rows, box>>

AddServer(s) ==
  /\ job.pc = "creating"
  /\ Create(s, [by |-> "scaler", name |-> [starts |-> "jukebox", token |-> job.next, rest |-> 1],
                region |-> OvhRegion(job.region), flavor |-> [range |-> "l4-90", case |-> "lower"],
                image |-> "jukebox", boot |-> UserData("jukebox", job.region, job.next)])
  /\ job' = NoJob
  /\ UNCHANGED <<shy, rows, box>>

AddFails ==
  /\ job.pc = "creating"
  /\ job' = NoJob
  /\ UNCHANGED <<stat, descr, shy, rows, box>>

SyncLists ==
  /\ job.pc = "idle"
  /\ \E listed \in Lists :
       job' = [job EXCEPT !.pc = "listed", !.active = {s \in listed : stat[s] = "ACTIVE"}]
  /\ UNCHANGED <<stat, descr, shy, rows, box>>

SyncCommits ==
  /\ job.pc = "listed"
  /\ rows' = {r \in rows : r.uuid \in job.active}
             \cup {RowOf(s) : s \in {t \in job.active : \A r \in rows : r.uuid # t}}
  /\ job' = NoJob
  /\ UNCHANGED <<stat, descr, shy, box>>

-----------------------------------------------------------------------------
(* OVH. *)

Built(s) ==
  /\ stat[s] = "BUILD"
  /\ stat' = [stat EXCEPT ![s] = "ACTIVE"]
  /\ UNCHANGED <<descr, shy, rows, job, box>>

Hide(s) ==
  /\ s \in Dedicated \ shy
  /\ shy' = shy \cup {s}
  /\ UNCHANGED <<stat, descr, rows, job, box>>

(* By the scaler, or by POST /ovh/cluster/nodes/<uuid>/delete. *)
DeleteServer(s) ==
  /\ s \in Alive \ Dedicated
  /\ stat' = [stat EXCEPT ![s] = "gone"]
  /\ box' = [u \in Call |-> IF box[u].phase = "running" /\ box[u].on = s THEN NoBox ELSE box[u]]
  /\ UNCHANGED <<descr, shy, rows, job>>

-----------------------------------------------------------------------------
(* run_container, cut down to the node it picks and the server it gets.   *)

PickNode(u, row) ==
  /\ box[u].phase = "none"
  /\ row \in rows /\ DaoFlavor(row) \in Flavor
  /\ box' = [box EXCEPT ![u] = [phase |-> "picked", node |-> row.uuid, host |-> Hostname(row),
                                on |-> NoServer]]
  /\ UNCHANGED <<stat, descr, shy, rows, job>>

StartContainer(u, s) ==
  /\ box[u].phase = "picked" /\ s \in Reached(box[u].host)
  /\ stat[s] = "ACTIVE"
  /\ box' = [box EXCEPT ![u] = [@ EXCEPT !.phase = "running", !.on = s]]
  /\ UNCHANGED <<stat, descr, shy, rows, job>>

(* The start fails, or the container ends. *)
ContainerEnds(u) ==
  /\ box[u].phase # "none"
  /\ box' = [box EXCEPT ![u] = NoBox]
  /\ UNCHANGED <<stat, descr, shy, rows, job>>

-----------------------------------------------------------------------------
ByHand ==
  \E s \in Server, name \in HandName, region \in Region, flavor \in HandFlavor,
     image \in Service \cup {"neither"} :
    CreateByHand(s, name, image, region, flavor)

Job ==
  \/ \E region \in Region : ChooseIndex(region)
  \/ \E s \in Server : AddServer(s)
  \/ AddFails \/ SyncLists \/ SyncCommits

Ovh == \E s \in Server : Built(s) \/ Hide(s) \/ DeleteServer(s)

Place(u) ==
  \/ \E row \in rows : PickNode(u, row)
  \/ \E s \in Server : StartContainer(u, s)
  \/ ContainerEnds(u)

Next == ByHand \/ Job \/ Ovh \/ \E u \in Call : Place(u)

Spec == Init /\ [][Next]_vars

-----------------------------------------------------------------------------
Descr == [by : {"ovh", "scaler", "hand"},
          name : [starts : Service \cup {"other"}, token : Nat, rest : Nat \cup {NoIndex}],
          region : CloudRegion \cup DedicatedRegion, flavor : Flavor, image : Service,
          boot : [addr : [net : {12, 13}, host : Nat], fqdn : Service \X Nat \X Region]]

Row == [uuid : Server, region : Region, ix : Nat, type : {"dedicated", "public-cloud-instance"},
        flavor : [range : {f.range : f \in Flavor}, case : {"lower"}]]

(* Every variable has its type (models.py, ovh_defs.py).                 *)
TypeOK ==
  /\ stat \in [Server -> {"absent", "BUILD", "ACTIVE", "gone"}]
  /\ descr \in [Server -> Descr \cup {NoDescr}]
  /\ shy \subseteq Dedicated
  /\ rows \subseteq Row
  /\ job \in [pc : {"idle", "creating", "listed"}, next : Nat \cup {NoIndex},
              region : Region \cup {"none"}, active : SUBSET Server]
  /\ box \in [Call -> {NoBox} \cup [phase : {"picked", "running"}, node : Server,
                                    host : {"jukebox"} \X Nat \X Region,
                                    on : Server \cup {NoServer}]]

(* A row gives its server its flavor back, in the spelling OvhNodeFlavor and *)
(* CPUS_BY_FLAVOR have: no row makes from_node_dao raise, and with it every  *)
(* call and every scale job that reads the rows.                         *)
FlavorRoundTrip == \A row \in rows : DaoFlavor(row) = descr[row.uuid].flavor

(* The host name a row gives a server is the one the server tells of itself,  *)
(* and leads to its address, although one index was read from the name's *)
(* first token and the other from the whole name; only a server made by hand *)
(* as a jukebox with the image of a storage server is another.           *)
HostnamesAgree ==
  \A row \in rows :
    LET d == descr[row.uuid]
    IN  \/ d.boot = UserData("jukebox", row.region, row.ix) /\ d.boot.fqdn = Hostname(row)
        \/ d.by = "hand" /\ d.image = "appstor"

(* Two servers have one private address only when one of them was made by    *)
(* hand, under an index in use or with the image of a storage server, or is *)
(* a dedicated server that lists have begun to lack: never do two servers  *)
(* of the scaler, whatever was listed, built and deleted between the choice  *)
(* of an index and its use (add_jukebox_node, node_ix_to_private_ip).    *)
AddressClashExplained ==
  \A s, t \in Alive : s # t /\ descr[s].boot.addr = descr[t].boot.addr =>
    \E v \in {s, t} : descr[v].by = "hand" \/ v \in shy

(* Servers whose name has led the scaler to index k or beyond: one of that   *)
(* index, or one with a larger index that was not its own choice.        *)
LeadsTo(s, k) ==
  /\ stat[s] # "absent" /\ descr[s].name.starts = "jukebox"
  /\ descr[s].name.token = k \/ (descr[s].by # "scaler" /\ descr[s].name.token > k)

LedTo(n) == \A k \in 0 .. n - 1 : \E t \in Server : LeadsTo(t, k)

(* The scaler comes to an index in the storage servers' range (198 and on) or *)
(* without an address (254 and on) only after a server of each index below, *)
(* one after another, however often servers were deleted in between, or   *)
(* after one that was dedicated or made by hand with a larger index      *)
(* (add_jukebox_node, node_ix_to_private_ip).                            *)
NoIndexSkipped ==
  /\ job.pc = "creating" => LedTo(job.next)
  /\ \A s \in Server : stat[s] # "absent" /\ descr[s].by = "scaler" => LedTo(descr[s].name.token)

(* A container runs on another server than its session will tell only when  *)
(* that one is gone, and its host name given to a new server before its row  *)
(* went or after the call read it; or when one of the two was made by hand,  *)
(* under a name or address in use; or when one is a dedicated server that a *)
(* list may have lacked (NodeDAO.hostname, add_jukebox_node).            *)
MisplacedExplained ==
  \A u \in Call :
    box[u].phase = "running" /\ box[u].on # box[u].node =>
      \/ stat[box[u].node] = "gone"
      \/ \E s \in {box[u].on, box[u].node} : descr[s].by = "hand" \/ s \in shy

(* Docstring of ovh_cluster_node_create: only jukebox nodes can be created   *)
(* that way.                                                             *)
OnlyJukeboxesByHand == \A s \in Alive : descr[s].by = "hand" => descr[s].image = "jukebox"

=============================================================================

----------------------------- MODULE FleetProofs -----------------------------
(***************************************************************************)
(* What Fleet guarantees of names, rows and containers, for any servers and *)
(* requests.                                                             *)
(***************************************************************************)
EXTENDS Fleet, TLAPS

Exists(s) == s \in Server /\ stat[s] # "absent"
ByProgram(s) == descr[s].by # "hand"

(* What each server was created with, depending on who created it.       *)
DescrInv ==
  \A s \in Server : Exists(s) =>
    /\ descr[s] \in Descr
    /\ descr[s].boot = UserData(descr[s].image, DcRegion(descr[s].region), descr[s].name.token)
    /\ descr[s].flavor.case = IF s \in Dedicated THEN "upper" ELSE "lower"
    /\ ByProgram(s) => descr[s].name.starts = "jukebox" /\ descr[s].image = "jukebox"

(* Rows, and servers on their way to one, are of servers named so.       *)
RowInv ==
  /\ job.active \subseteq {s \in Server : Exists(s)}
  /\ \A row \in rows : Exists(row.uuid) /\ row = RowOf(row.uuid)

(* The program never gives one name to two servers it lists at a time.   *)
Known(s) == ByProgram(s) /\ s \notin shy
NameInv ==
  /\ \A s, t \in Alive :
       s # t /\ Known(s) /\ Known(t) => descr[s].name.token # descr[t].name.token
  /\ job.pc = "creating" =>
       /\ job.next \in Nat /\ job.region \in Region /\ HasNetwork(job.region)
       /\ \A s \in Alive : Known(s) => descr[s].name.token < job.next

(* Where a container is, and the host name it was sent to.               *)
BoxInv ==
  \A u \in Call :
    /\ box[u].phase # "none" =>
         Exists(box[u].node) /\ box[u].host = Hostname(RowOf(box[u].node))
    /\ box[u].phase = "running" => box[u].on \in Reached(box[u].host)

IInv == TypeOK /\ DescrInv /\ RowInv /\ NameInv /\ BoxInv

-----------------------------------------------------------------------------
(* What an index makes of a server is of its type. *)
LEMMA UserDataType ==
  ASSUME NEW service \in Service, NEW region \in Region, NEW k \in Nat
  PROVE  UserData(service, region, k) \in
           [addr : [net : {12, 13}, host : Nat], fqdn : Service \X Nat \X Region]
<1>1. Address(service, region, k) \in [net : {12, 13}, host : Nat]
  BY DEF Address, Offset
<1> QED  BY <1>1 DEF UserData

(* A region with a network comes back from its name at OVH. *)
LEMMA RegionComesBack ==
  /\ \A raw : DcRegion(raw) \in Region
  /\ \A region \in Region : HasNetwork(region) =>
       OvhRegion(region) \in CloudRegion /\ DcRegion(OvhRegion(region)) = region
BY DEF DcRegion, OvhRegion, HasNetwork, Region, CloudRegion

(* What a new server may be created with. *)
Sound(d) ==
  /\ d \in Descr
  /\ d.boot = UserData(d.image, DcRegion(d.region), d.name.token)
  /\ d.flavor.case = "lower"
  /\ d.by # "hand" => d.name.starts = "jukebox" /\ d.image = "jukebox"

LEMMA RowOfType ==
  ASSUME NEW s \in Server, descr[s] \in Descr
  PROVE  RowOf(s) \in Row
<1>1. NameIndex(descr[s].name) = descr[s].name.token /\ descr[s].name.token \in Nat
  BY FleetAssumption DEF Descr, NameIndex
<1>2. descr[s].flavor \in Flavor /\ DcRegion(descr[s].region) \in Region
  BY RegionComesBack DEF Descr
<1>3. Lower(descr[s].flavor) \in [range : {f.range : f \in Flavor}, case : {"lower"}]
  BY <1>2 DEF Lower, Flavor
<1> QED  BY <1>1, <1>2, <1>3 DEF RowOf, Row

-----------------------------------------------------------------------------
(* A new server disturbs nothing that is known of the others. *)
LEMMA CreateStep ==
  ASSUME TypeOK, DescrInv, RowInv, BoxInv,
         NEW s \in Server, NEW d, Sound(d), Create(s, d),
         job' \in {job, NoJob}, UNCHANGED <<shy, rows, box>>
  PROVE  TypeOK' /\ DescrInv' /\ RowInv' /\ BoxInv'
<1> USE DEF Exists
<1>1. /\ stat[s] = "absent" /\ s \notin Dedicated
      /\ stat' = [stat EXCEPT ![s] = "BUILD"]
      /\ descr' = [descr EXCEPT ![s] = d]
      /\ d \in Descr
  BY DEF Create, Sound
<1>2. TypeOK'
  BY <1>1 DEF TypeOK, NoJob
<1>3. \A t \in Server : t # s => stat'[t] = stat[t] /\ descr'[t] = descr[t]
  BY <1>1 DEF TypeOK
<1>4. stat'[s] = "BUILD" /\ descr'[s] = d
  BY <1>1 DEF TypeOK
<1>5. DescrInv'
  <2> SUFFICES ASSUME NEW t \in Server, Exists(t)'
               PROVE  /\ descr'[t] \in Descr
                      /\ descr'[t].boot = UserData(descr'[t].image, DcRegion(descr'[t].region), descr'[t].name.token)
                      /\ descr'[t].flavor.case = IF t \in Dedicated THEN "upper" ELSE "lower"
                      /\ descr'[t].by # "hand" =>
                           descr'[t].name.starts = "jukebox" /\ descr'[t].image = "jukebox"
    BY DEF DescrInv, ByProgram, UserData, Address
  <2>1. CASE t = s  BY <2>1, <1>1, <1>4 DEF Sound
  <2>2. CASE t # s  BY <2>2, <1>3 DEF DescrInv, ByProgram
  <2> QED  BY <2>1, <2>2
<1>6. RowInv'
  <2>1. job'.active \subseteq {t \in Server : Exists(t)}  BY DEF RowInv, NoJob
  <2>2. job'.active \subseteq {t \in Server : Exists(t)'}
    BY <2>1, <1>3, <1>4 DEF TypeOK
  <2>3. ASSUME NEW row \in rows PROVE Exists(row.uuid)' /\ row = RowOf(row.uuid)'
    <3>1. row.uuid \in Server /\ stat[row.uuid] # "absent" /\ row = RowOf(row.uuid)  BY DEF RowInv
    <3>2. row.uuid # s  BY <3>1, <1>1
    <3>3. descr'[row.uuid] = descr[row.uuid] /\ stat'[row.uuid] = stat[row.uuid]  BY <3>1, <3>2, <1>3
    <3> QED  BY <3>1, <3>3 DEF RowOf
  <2> QED  BY <2>2, <2>3 DEF RowInv
<1>7. BoxInv'
  <2> SUFFICES ASSUME NEW u \in Call
               PROVE  /\ box[u].phase # "none" =>
                           Exists(box[u].node)' /\ box[u].host = Hostname(RowOf(box[u].node))'
                      /\ box[u].phase = "running" => box[u].on \in Reached(box[u].host)'
    BY DEF BoxInv, Hostname, RowOf, Reached
  <2>1. ASSUME box[u].phase # "none"
        PROVE  Exists(box[u].node)' /\ box[u].host = Hostname(RowOf(box[u].node))'
    <3>1. box[u].node \in Server /\ stat[box[u].node] # "absent" /\ box[u].host = Hostname(RowOf(box[u].node))
      BY <2>1 DEF BoxInv
    <3>2. /\ box[u].node # s
          /\ descr'[box[u].node] = descr[box[u].node] /\ stat'[box[u].node] = stat[box[u].node]
      BY <3>1, <1>1, <1>3
    <3> QED  BY <3>1, <3>2 DEF RowOf, Hostname
  <2>2. ASSUME box[u].phase = "running" PROVE box[u].on \in Reached(box[u].host)'
    <3>1. box[u].on \in Reached(box[u].host)  BY <2>2 DEF BoxInv
    <3>2. box[u].on \in Server /\ stat[box[u].on] \in {"BUILD", "ACTIVE"}  BY <3>1 DEF Reached, Alive
    <3>3. descr'[box[u].on] = descr[box[u].on] /\ stat'[box[u].on] = stat[box[u].on]
      BY <3>2, <1>1, <1>3
    <3> QED  BY <3>1, <3>3 DEF Reached, Alive
  <2> QED  BY <2>1, <2>2
<1> QED  BY <1>2, <1>5, <1>6, <1>7

-----------------------------------------------------------------------------
(* The scaler and the endpoint create servers soundly. *)
LEMMA HandSound ==
  ASSUME NEW name \in HandName, NEW image \in Service, NEW region \in Region,
         NEW flavor \in HandFlavor, TokenIndex(name) # NoIndex, HasNetwork(region)
  PROVE  Sound([by |-> "hand", name |-> name, region |-> OvhRegion(region), flavor |-> flavor,
                image |-> image, boot |-> UserData(image, region, TokenIndex(name))])
<1>1. name.token \in Nat /\ name \in [starts : Service \cup {"other"}, token : Nat,
                                      rest : Nat \cup {NoIndex}]
  BY FleetAssumption DEF Name, TokenIndex
<1>2. flavor \in Flavor /\ flavor.case = "lower"
  BY FleetAssumption
<1>3. UserData(image, region, name.token) \in
        [addr : [net : {12, 13}, host : Nat], fqdn : Service \X Nat \X Region]
  BY <1>1, UserDataType
<1> QED  BY <1>1, <1>2, <1>3, RegionComesBack DEF Sound, Descr, TokenIndex

LEMMA ScalerSound ==
  ASSUME NEW k \in Nat, NEW region \in Region, HasNetwork(region)
  PROVE  Sound([by |-> "scaler", name |-> [starts |-> "jukebox", token |-> k, rest |-> 1],
                region |-> OvhRegion(region), flavor |-> [range |-> "l4-90", case |-> "lower"],
                image |-> "jukebox", boot |-> UserData("jukebox", region, k)])
<1>1. "jukebox" \in Service  BY DEF Service
<1>2. UserData("jukebox", region, k) \in
        [addr : [net : {12, 13}, host : Nat], fqdn : Service \X Nat \X Region]
  BY <1>1, UserDataType
<1>3. [range |-> "l4-90", case |-> "lower"] \in Flavor  BY DEF Flavor
<1> QED  BY <1>1, <1>2, <1>3, RegionComesBack DEF Sound, Descr

LEMMA InitState == Init => IInv
<1> SUFFICES ASSUME Init PROVE IInv  OBVIOUS
<1> USE FleetAssumption DEF Init, Exists
<1>1. ASSUME NEW d \in Dedicated
      PROVE  /\ DedicatedDescr(d) \in Descr
             /\ DedicatedDescr(d).boot = UserData("jukebox", DcRegion(FirstRegion[d]), FirstName[d].token)
             /\ FirstFlavor[d].case = "upper"
             /\ FirstName[d].starts = "jukebox"
             /\ FirstName[d].token \in Nat
  <2>1. FirstName[d] \in Name /\ FirstName[d].token \in Nat /\ FirstName[d].starts = "jukebox"
    OBVIOUS
  <2>2. FirstName[d] \in [starts : Service \cup {"other"}, token : Nat, rest : Nat \cup {NoIndex}]
    BY <2>1 DEF Name
  <2>3. FirstRegion[d] \in DedicatedRegion /\ FirstFlavor[d] \in Flavor /\ FirstFlavor[d].case = "upper"
    OBVIOUS
  <2>4. "jukebox" \in Service  BY DEF Service
  <2>5. UserData("jukebox", DcRegion(FirstRegion[d]), FirstName[d].token) \in
          [addr : [net : {12, 13}, host : Nat], fqdn : Service \X Nat \X Region]
    BY <2>1, <2>4, UserDataType, RegionComesBack
  <2> QED  BY <2>1, <2>2, <2>3, <2>4, <2>5 DEF DedicatedDescr, Descr
<1>2. TypeOK  BY <1>1 DEF TypeOK, NoJob, NoBox
<1>3. DescrInv  BY <1>1 DEF DescrInv, DedicatedDescr, ByProgram
<1>4. RowInv  BY DEF RowInv, NoJob
<1>5. NameInv
  <2>1. ASSUME NEW s \in Alive, NEW t \in Alive, s # t
        PROVE  descr[s].name.token # descr[t].name.token
    <3>1. s \in Dedicated /\ t \in Dedicated  BY <2>1 DEF Alive
    <3>2. FirstName[s].token # FirstName[t].token  BY <3>1, <2>1
    <3> QED  BY <3>1, <3>2 DEF DedicatedDescr
  <2> QED  BY <2>1 DEF NameInv, NoJob
<1>6. BoxInv  BY DEF BoxInv, NoBox
<1> QED  BY <1>2, <1>3, <1>4, <1>5, <1>6 DEF IInv

-----------------------------------------------------------------------------
(* Every step keeps what is known of servers, rows and containers. *)
LEMMA StateStep ==
  TypeOK /\ DescrInv /\ RowInv /\ NameInv /\ BoxInv /\ [Next]_vars
    => TypeOK' /\ DescrInv' /\ RowInv' /\ BoxInv'
<1> SUFFICES ASSUME TypeOK, DescrInv, RowInv, NameInv, BoxInv, [Next]_vars
             PROVE  TypeOK' /\ DescrInv' /\ RowInv' /\ BoxInv'
  OBVIOUS
<1> USE DEF Exists
<1>1. CASE ByHand
  <2> PICK s \in Server, name \in HandName, region \in Region, flavor \in HandFlavor,
           image \in Service \cup {"neither"} : CreateByHand(s, name, image, region, flavor)
    BY <1>1 DEF ByHand
  <2>1. TokenIndex(name) # NoIndex /\ image \in Service /\ HasNetwork(region)  BY DEF CreateByHand
  <2> DEFINE d == [by |-> "hand", name |-> name, region |-> OvhRegion(region), flavor |-> flavor,
                   image |-> image, boot |-> UserData(image, region, TokenIndex(name))]
  <2>2. Sound(d)  BY <2>1, HandSound
  <2>3. Create(s, d) /\ UNCHANGED <<shy, rows, job, box>>  BY DEF CreateByHand
  <2> HIDE DEF d
  <2> QED  BY <2>2, <2>3, CreateStep
<1>2. ASSUME NEW s \in Server, AddServer(s)
      PROVE  TypeOK' /\ DescrInv' /\ RowInv' /\ BoxInv'
  <2> DEFINE d == [by |-> "scaler", name |-> [starts |-> "jukebox", token |-> job.next, rest |-> 1],
                   region |-> OvhRegion(job.region), flavor |-> [range |-> "l4-90", case |-> "lower"],
                   image |-> "jukebox", boot |-> UserData("jukebox", job.region, job.next)]
  <2>1. job.next \in Nat /\ job.region \in Region /\ HasNetwork(job.region)  BY <1>2 DEF AddServer, NameInv
  <2>2. Sound(d)  BY <2>1, ScalerSound
  <2>3. Create(s, d) /\ job' = NoJob /\ UNCHANGED <<shy, rows, box>>  BY <1>2 DEF AddServer
  <2> HIDE DEF d
  <2> QED  BY <2>2, <2>3, CreateStep
<1>3. ASSUME UNCHANGED <<stat, descr, rows, box>>, TypeOK', job'.active \subseteq {s \in Server : Exists(s)}
      PROVE  DescrInv' /\ RowInv' /\ BoxInv'
  BY <1>3 DEF DescrInv, RowInv, BoxInv, ByProgram, Hostname, RowOf, Reached, Alive
<1>4. ASSUME NEW region \in Region, ChooseIndex(region)
      PROVE  TypeOK' /\ DescrInv' /\ RowInv' /\ BoxInv'
  <2>1. PICK listed \in Lists : \E k \in {0} \cup {NameIndex(descr[s].name) + 1 : s \in listed} :
          job' = [job EXCEPT !.pc = "creating", !.next = k, !.region = region]
    BY <1>4 DEF ChooseIndex
  <2>2. PICK k \in {0} \cup {NameIndex(descr[s].name) + 1 : s \in listed} :
          job' = [job EXCEPT !.pc = "creating", !.next = k, !.region = region]
    BY <2>1
  <2>3. k \in Nat
    <3>1. \A s \in listed : NameIndex(descr[s].name) \in Nat
      BY FleetAssumption DEF Lists, Jukeboxes, Alive, DescrInv, Descr, NameIndex
    <3> QED  BY <3>1
  <2>4. TypeOK'  BY <1>4, <2>2, <2>3 DEF TypeOK, ChooseIndex
  <2>5. job'.active = job.active  BY <2>2 DEF TypeOK
  <2> QED  BY <1>3, <1>4, <2>4, <2>5 DEF ChooseIndex, RowInv
<1>5. CASE AddFails
  <2>1. TypeOK'  BY <1>5 DEF TypeOK, AddFails, NoJob
  <2> QED  BY <1>3, <1>5, <2>1 DEF AddFails, NoJob
<1>6. CASE SyncLists
  <2>1. PICK listed \in Lists :
          job' = [job EXCEPT !.pc = "listed", !.active = {s \in listed : stat[s] = "ACTIVE"}]
    BY <1>6 DEF SyncLists
  <2>2. {s \in listed : stat[s] = "ACTIVE"} \subseteq {s \in Server : Exists(s)}
    BY DEF Lists, Jukeboxes, Alive
  <2>3. TypeOK'  BY <1>6, <2>1, <2>2 DEF TypeOK, SyncLists
  <2>4. job'.active = {s \in listed : stat[s] = "ACTIVE"}  BY <2>1 DEF TypeOK
  <2> QED  BY <1>3, <1>6, <2>2, <2>3, <2>4 DEF SyncLists
<1>7. CASE SyncCommits
  <2>1. job' = NoJob /\ UNCHANGED <<stat, descr, shy, box>>  BY <1>7 DEF SyncCommits
  <2>2. \A s \in job.active : s \in Server /\ Exists(s) /\ descr[s] \in Descr
    BY DEF RowInv, DescrInv
  <2>3. ASSUME NEW row \in rows'
        PROVE  row \in Row /\ Exists(row.uuid) /\ row = RowOf(row.uuid)
    <3>1. CASE row \in rows  BY <3>1 DEF RowInv, TypeOK
    <3>2. CASE row \in {RowOf(s) : s \in job.active}
      <4> PICK s \in job.active : row = RowOf(s)  BY <3>2
      <4>1. row \in Row  BY <2>2, RowOfType
      <4>2. row.uuid = s  BY DEF RowOf
      <4> QED  BY <4>1, <4>2, <2>2
    <3> QED  BY <3>1, <3>2, <1>7 DEF SyncCommits
  <2>4. TypeOK'  BY <2>1, <2>3 DEF TypeOK, NoJob
  <2>5. RowInv'  BY <2>1, <2>3 DEF RowInv, NoJob, RowOf
  <2> QED  BY <2>1, <2>4, <2>5 DEF DescrInv, BoxInv, ByProgram, Hostname, RowOf, Reached, Alive
<1>8. ASSUME NEW s \in Server, Built(s)
      PROVE  TypeOK' /\ DescrInv' /\ RowInv' /\ BoxInv'
  <2>1. stat[s] = "BUILD" /\ stat' = [stat EXCEPT ![s] = "ACTIVE"] /\ UNCHANGED <<descr, shy, rows, job, box>>
    BY <1>8 DEF Built
  <2>2. TypeOK'  BY <2>1 DEF TypeOK
  <2>3. (\A t \in Server : Exists(t)' <=> Exists(t)) /\ Alive' = Alive  BY <2>1 DEF TypeOK, Alive
  <2> QED  BY <2>1, <2>2, <2>3 DEF DescrInv, RowInv, BoxInv, ByProgram, Hostname, RowOf, Reached
<1>9. ASSUME NEW s \in Server, DeleteServer(s)
      PROVE  TypeOK' /\ DescrInv' /\ RowInv' /\ BoxInv'
  <2>1. /\ s \in Alive
        /\ stat' = [stat EXCEPT ![s] = "gone"]
        /\ box' = [u \in Call |-> IF box[u].phase = "running" /\ box[u].on = s THEN NoBox ELSE box[u]]
        /\ UNCHANGED <<descr, shy, rows, job>>
    BY <1>9 DEF DeleteServer
  <2>2. TypeOK'  BY <2>1 DEF TypeOK
  <2>3. (\A t \in Server : Exists(t)' <=> Exists(t)) /\ Alive' = Alive \ {s}
    BY <2>1 DEF TypeOK, Alive
  <2>4. DescrInv' /\ RowInv'
    BY <2>1, <2>3 DEF DescrInv, RowInv, ByProgram, RowOf
  <2>5. BoxInv'
    <3> SUFFICES ASSUME NEW u \in Call
                 PROVE  /\ box'[u].phase # "none" =>
                             Exists(box'[u].node) /\ box'[u].host = Hostname(RowOf(box'[u].node))
                        /\ box'[u].phase = "running" => box'[u].on \in Reached(box'[u].host) \ {s}
      BY <2>1, <2>3 DEF BoxInv, Hostname, RowOf, Reached
    <3>1. CASE box[u].phase = "running" /\ box[u].on = s
      BY <2>1, <3>1 DEF NoBox
    <3>2. CASE ~(box[u].phase = "running" /\ box[u].on = s)
      <4>1. box'[u] = box[u]  BY <2>1, <3>2
      <4> QED  BY <3>2, <4>1 DEF BoxInv
    <3> QED  BY <3>1, <3>2
  <2> QED  BY <2>2, <2>4, <2>5
<1>10. ASSUME NEW u \in Call, Place(u)
       PROVE  TypeOK' /\ DescrInv' /\ RowInv' /\ BoxInv'
  <2>1. UNCHANGED <<stat, descr, shy, rows, job>>
    BY <1>10 DEF Place, PickNode, StartContainer, ContainerEnds
  <2>2. DescrInv' /\ RowInv'  BY <2>1 DEF DescrInv, RowInv, ByProgram, RowOf
  <2>3. ASSUME NEW b, box' = [box EXCEPT ![u] = b],
               b \in {NoBox} \cup [phase : {"picked", "running"}, node : Server,
                                   host : {"jukebox"} \X Nat \X Region, on : Server \cup {NoServer}],
               b.phase # "none" => Exists(b.node) /\ b.host = Hostname(RowOf(b.node)),
               b.phase = "running" => b.on \in Reached(b.host)
        PROVE  TypeOK' /\ BoxInv'
    <3>1. TypeOK'  BY <2>1, <2>3 DEF TypeOK
    <3>2. \A v \in Call : box'[v] = IF v = u THEN b ELSE box[v]  BY <2>3 DEF TypeOK
    <3>3. BoxInv'
      <4> SUFFICES ASSUME NEW v \in Call
                   PROVE  /\ box'[v].phase # "none" =>
                               Exists(box'[v].node) /\ box'[v].host = Hostname(RowOf(box'[v].node))
                          /\ box'[v].phase = "running" => box'[v].on \in Reached(box'[v].host)
        BY <2>1 DEF BoxInv, Hostname, RowOf, Reached, Alive
      <4> QED  BY <2>3, <3>2 DEF BoxInv
    <3> QED  BY <3>1, <3>3
  <2>4. ASSUME NEW row \in rows, PickNode(u, row) PROVE TypeOK' /\ BoxInv'
    <3>1. row \in Row /\ row.uuid \in Server /\ Exists(row.uuid) /\ row = RowOf(row.uuid)
      BY DEF RowInv, TypeOK
    <3> DEFINE b == [phase |-> "picked", node |-> row.uuid, host |-> Hostname(row), on |-> NoServer]
    <3>2. b \in [phase : {"picked", "running"}, node : Server, host : {"jukebox"} \X Nat \X Region,
                 on : Server \cup {NoServer}]
      BY <3>1 DEF Hostname, Row
    <3>3. box' = [box EXCEPT ![u] = b]  BY <2>4 DEF PickNode
    <3>4. b.phase = "picked" /\ b.node = row.uuid /\ b.host = Hostname(RowOf(b.node))  BY <3>1
    <3> HIDE DEF b
    <3> QED  BY <2>3, <3>1, <3>2, <3>3, <3>4
  <2>5. ASSUME NEW s \in Server, StartContainer(u, s) PROVE TypeOK' /\ BoxInv'
    <3> DEFINE b == [box[u] EXCEPT !.phase = "running", !.on = s]
    <3>1. box[u].phase = "picked" /\ s \in Reached(box[u].host)  BY <2>5 DEF StartContainer
    <3>2. box[u] \in [phase : {"picked", "running"}, node : Server, host : {"jukebox"} \X Nat \X Region,
                      on : Server \cup {NoServer}]
      BY <3>1 DEF TypeOK, NoBox
    <3>3. box' = [box EXCEPT ![u] = b]  BY <2>5 DEF StartContainer, TypeOK
    <3>4. /\ b \in [phase : {"picked", "running"}, node : Server, host : {"jukebox"} \X Nat \X Region,
                    on : Server \cup {NoServer}]
          /\ b.phase = "running" /\ b.node = box[u].node /\ b.host = box[u].host /\ b.on = s
      BY <3>2
    <3>5. Exists(b.node) /\ b.host = Hostname(RowOf(b.node))  BY <3>1, <3>4 DEF BoxInv
    <3> HIDE DEF b
    <3> QED  BY <2>3, <3>1, <3>3, <3>4, <3>5
  <2>6. ASSUME ContainerEnds(u) PROVE TypeOK' /\ BoxInv'
    <3>1. box' = [box EXCEPT ![u] = NoBox]  BY <2>6 DEF ContainerEnds
    <3>2. NoBox.phase = "none"  BY DEF NoBox
    <3> QED  BY <2>3, <3>1, <3>2
  <2> QED  BY <1>10, <2>2, <2>4, <2>5, <2>6 DEF Place
<1>11. ASSUME NEW s \in Server, Hide(s)
       PROVE  TypeOK' /\ DescrInv' /\ RowInv' /\ BoxInv'
  <2>1. TypeOK'  BY <1>11 DEF TypeOK, Hide
  <2> QED  BY <1>3, <1>11, <2>1 DEF Hide, RowInv
<1>12. CASE UNCHANGED vars
  BY <1>12 DEF vars, TypeOK, DescrInv, RowInv, BoxInv, ByProgram, Hostname, RowOf, Reached, Alive
<1> QED
  BY <1>1, <1>2, <1>4, <1>5, <1>6, <1>7, <1>8, <1>9, <1>10, <1>11, <1>12 DEF Next, Job, Ovh

-----------------------------------------------------------------------------
(* The scaler takes an index only when no server it lists has it, and    *)
(* nothing but the scaler gives out names in between.                    *)
LEMMA NameStep ==
  TypeOK /\ DescrInv /\ NameInv /\ [Next]_vars => NameInv'
<1> SUFFICES ASSUME TypeOK, DescrInv, NameInv, [Next]_vars PROVE NameInv'
  OBVIOUS
<1>1. ASSUME NEW s \in Server, NEW d \in Descr, Create(s, d)
      PROVE  /\ Alive' = Alive \cup {s} /\ s \notin Alive
             /\ descr'[s] = d /\ \A t \in Alive : descr'[t] = descr[t]
  <2>1. /\ stat[s] = "absent"
        /\ stat' = [stat EXCEPT ![s] = "BUILD"] /\ descr' = [descr EXCEPT ![s] = d]
    BY <1>1 DEF Create
  <2> QED  BY <2>1 DEF TypeOK, Alive
<1>2. CASE ByHand
  <2> PICK s \in Server, name \in HandName, region \in Region, flavor \in HandFlavor,
           image \in Service \cup {"neither"} : CreateByHand(s, name, image, region, flavor)
    BY <1>2 DEF ByHand
  <2>1. TokenIndex(name) # NoIndex /\ image \in Service /\ HasNetwork(region)  BY DEF CreateByHand
  <2> DEFINE d == [by |-> "hand", name |-> name, region |-> OvhRegion(region), flavor |-> flavor,
                   image |-> image, boot |-> UserData(image, region, TokenIndex(name))]
  <2>2. d \in Descr /\ d.by = "hand"  BY <2>1, HandSound DEF Sound
  <2>3. Create(s, d) /\ job' = job /\ shy' = shy  BY DEF CreateByHand
  <2> HIDE DEF d
  <2> QED  BY <1>1, <2>2, <2>3 DEF NameInv, Known, ByProgram
<1>3. ASSUME NEW s \in Server, AddServer(s) PROVE NameInv'
  <2> DEFINE d == [by |-> "scaler", name |-> [starts |-> "jukebox", token |-> job.next, rest |-> 1],
                   region |-> OvhRegion(job.region), flavor |-> [range |-> "l4-90", case |-> "lower"],
                   image |-> "jukebox", boot |-> UserData("jukebox", job.region, job.next)]
  <2>1. /\ job.next \in Nat /\ job.region \in Region /\ HasNetwork(job.region)
        /\ \A t \in Alive : Known(t) => descr[t].name.token < job.next
    BY <1>3 DEF AddServer, NameInv
  <2>2. d \in Descr /\ d.name.token = job.next  BY <2>1, ScalerSound DEF Sound
  <2>3. Create(s, d) /\ job' = NoJob /\ shy' = shy  BY <1>3 DEF AddServer
  <2> HIDE DEF d
  <2>4. \A t \in Alive : Known(t) => descr[t].name.token # job.next
    <3>1. \A t \in Alive : descr[t] \in Descr /\ descr[t].name.token \in Nat
      BY DEF Alive, DescrInv, Exists, Descr
    <3> QED  BY <2>1, <3>1
  <2> QED  BY <1>1, <2>2, <2>3, <2>4 DEF NameInv, Known, ByProgram, NoJob
<1>4. ASSUME NEW region \in Region, ChooseIndex(region) PROVE NameInv'
  <2>1. PICK listed \in Lists : \E k \in {0} \cup {NameIndex(descr[s].name) + 1 : s \in listed} :
          /\ \A s \in listed : NameIndex(descr[s].name) < k
          /\ job' = [job EXCEPT !.pc = "creating", !.next = k, !.region = region]
    BY <1>4 DEF ChooseIndex
  <2>2. \A s \in Alive : descr[s].name.token \in Nat /\ NameIndex(descr[s].name) = descr[s].name.token
    BY FleetAssumption DEF Alive, DescrInv, Exists, Descr, NameIndex
  <2>3. /\ listed \subseteq Alive
        /\ \A s \in Alive : Known(s) => s \in listed
    BY DEF Alive, DescrInv, Exists, Known, Lists, Jukeboxes
  <2>4. PICK k \in {0} \cup {NameIndex(descr[s].name) + 1 : s \in listed} :
          /\ \A s \in listed : NameIndex(descr[s].name) < k
          /\ job' = [job EXCEPT !.pc = "creating", !.next = k, !.region = region]
    BY <2>1
  <2>5. k \in Nat  BY <2>2, <2>3
  <2>6. job'.next = k /\ job'.region = region  BY <2>4 DEF TypeOK
  <2>7. UNCHANGED <<stat, descr, shy>> /\ HasNetwork(region)  BY <1>4 DEF ChooseIndex
  <2> QED  BY <2>2, <2>3, <2>4, <2>5, <2>6, <2>7 DEF NameInv, Known, ByProgram, Alive
<1>5. ASSUME job' \in {NoJob, job} \/ job'.pc = "listed", Alive' \subseteq Alive, descr' = descr,
             shy \subseteq shy'
      PROVE  NameInv'
  BY <1>5 DEF NameInv, Known, ByProgram, NoJob
<1>6. CASE AddFails  BY <1>5, <1>6 DEF AddFails, Alive
<1>7. CASE SyncLists  BY <1>5, <1>7 DEF SyncLists, Alive, TypeOK
<1>8. CASE SyncCommits  BY <1>5, <1>8 DEF SyncCommits, Alive
<1>9. ASSUME NEW s \in Server, Built(s) \/ Hide(s) \/ DeleteServer(s) PROVE NameInv'
  BY <1>5, <1>9 DEF Built, Hide, DeleteServer, Alive, TypeOK
<1>10. ASSUME NEW u \in Call, Place(u) PROVE NameInv'
  BY <1>5, <1>10 DEF Place, PickNode, StartContainer, ContainerEnds, Alive
<1>11. CASE UNCHANGED vars  BY <1>5, <1>11 DEF vars, Alive
<1> QED  BY <1>2, <1>3, <1>4, <1>6, <1>7, <1>8, <1>9, <1>10, <1>11 DEF Next, Job, Ovh

LEMMA Inductive == Spec => []IInv
<1>1. IInv /\ [Next]_vars => IInv'
  BY StateStep, NameStep DEF IInv
<1> QED  BY InitState, <1>1, PTL DEF Spec

(* Every variable always has its type. *)
THEOREM TypeCorrect == Spec => []TypeOK
<1>1. IInv => TypeOK  BY DEF IInv
<1> QED  BY Inductive, <1>1, PTL

-----------------------------------------------------------------------------
(* No row makes from_node_dao raise, for any servers and any way they came: *)
(* lower case in the row loses nothing.                                  *)
THEOREM FlavorsComeBack == Spec => []FlavorRoundTrip
<1>1. ASSUME IInv PROVE FlavorRoundTrip
  <2> SUFFICES ASSUME NEW row \in rows PROVE DaoFlavor(row) = descr[row.uuid].flavor
    BY DEF FlavorRoundTrip
  <2>1. row = RowOf(row.uuid) /\ Exists(row.uuid)  BY <1>1 DEF IInv, RowInv
  <2> DEFINE f == descr[row.uuid].flavor
  <2>2. f \in Flavor /\ f.case = IF row.uuid \in Dedicated THEN "upper" ELSE "lower"
    BY <1>1, <2>1 DEF IInv, DescrInv, Exists, Descr
  <2>3. row.flavor = Lower(f) /\ (row.type = "dedicated" <=> row.uuid \in Dedicated)
    BY <2>1 DEF RowOf
  <2>4. Upper(Lower(f)) = [f EXCEPT !.case = "upper"] /\ Lower(f) = [f EXCEPT !.case = "lower"]
    BY <2>2 DEF Upper, Lower, Flavor
  <2> HIDE DEF f
  <2>5. f = [range |-> f.range, case |-> f.case]  BY <2>2 DEF Flavor
  <2> QED  BY <2>2, <2>3, <2>4, <2>5 DEF DaoFlavor, f
<1> QED  BY Inductive, <1>1, PTL

(* The indices read in two ways agree: a server answers to the host name its *)
(* row has, wherever its name came from.                                 *)
THEOREM HostnamesMatch == Spec => []HostnamesAgree
<1>1. ASSUME IInv PROVE HostnamesAgree
  <2> SUFFICES ASSUME NEW row \in rows
               PROVE  LET d == descr[row.uuid]
                      IN  \/ d.boot = UserData("jukebox", row.region, row.ix) /\ d.boot.fqdn = Hostname(row)
                          \/ d.by = "hand" /\ d.image = "appstor"
    BY DEF HostnamesAgree
  <2> DEFINE d == descr[row.uuid]
  <2>1. row = RowOf(row.uuid) /\ Exists(row.uuid)  BY <1>1 DEF IInv, RowInv
  <2>2. /\ d \in Descr /\ d.boot = UserData(d.image, DcRegion(d.region), d.name.token)
        /\ d.by # "hand" => d.image = "jukebox"
    BY <1>1, <2>1 DEF IInv, DescrInv, Exists, ByProgram
  <2>3. row.region = DcRegion(d.region) /\ row.ix = d.name.token
    BY <2>1, <2>2, FleetAssumption DEF RowOf, NameIndex, Descr
  <2>4. d.image = "jukebox" \/ d.image = "appstor"  BY <2>2 DEF Descr, Service
  <2> HIDE DEF d
  <2>5. d.image = "jukebox" => d.boot.fqdn = Hostname(row)
    BY <2>2, <2>3 DEF UserData, Hostname
  <2> QED  BY <2>2, <2>3, <2>4, <2>5 DEF d
<1> QED  BY Inductive, <1>1, PTL

(* Whatever was created and deleted in between, two servers of the scaler  *)
(* never have one address.                                               *)
THEOREM AddressClashesExplained == Spec => []AddressClashExplained
<1>1. ASSUME IInv PROVE AddressClashExplained
  <2> SUFFICES ASSUME NEW s \in Alive, NEW t \in Alive, s # t, Known(s), Known(t),
                      descr[s].boot.addr = descr[t].boot.addr
               PROVE  FALSE
    BY DEF AddressClashExplained, Known, ByProgram
  <2>1. \A v \in {s, t} : /\ descr[v].name.token \in Nat /\ descr[v].image = "jukebox"
                          /\ descr[v].boot = UserData(descr[v].image, DcRegion(descr[v].region), descr[v].name.token)
    BY <1>1 DEF IInv, DescrInv, Exists, Alive, Descr, Known
  <2>2. \A v \in {s, t} : descr[v].boot.addr.host = 2 + descr[v].name.token
    BY <2>1 DEF UserData, Address, Offset
  <2>3. descr[s].name.token = descr[t].name.token
    BY <2>1, <2>2
  <2> QED  BY <1>1, <2>3 DEF IInv, NameInv
<1> QED  BY Inductive, <1>1, PTL

-----------------------------------------------------------------------------
Led(k) == \E t \in Server : LeadsTo(t, k)

(* What has led to an index stays: a server that is gone was there.      *)
LEMMA LedStays ==
  ASSUME \A t \in Server : stat[t] # "absent" => stat'[t] # "absent" /\ descr'[t] = descr[t]
  PROVE  \A k : Led(k) => Led(k)'
BY DEF Led, LeadsTo

(* The invariant, with what a step has to keep in plain view.            *)
LEMMA SkippedNone ==
  ASSUME \A k : Led(k) => Led(k)',
         job'.pc = "creating" => \A k \in 0 .. job'.next - 1 : Led(k),
         \A s \in Server : stat'[s] # "absent" /\ descr'[s].by = "scaler" =>
           \A k \in 0 .. descr'[s].name.token - 1 : Led(k)
  PROVE  NoIndexSkipped'
BY DEF NoIndexSkipped, LedTo, Led

(* A step that creates nothing and chooses no index skips none.          *)
LEMMA NothingSkipped ==
  ASSUME NoIndexSkipped, descr' = descr, job' = job \/ job'.pc # "creating",
         \A t \in Server : stat[t] # "absent" <=> stat'[t] # "absent"
  PROVE  NoIndexSkipped'
BY LedStays, SkippedNone DEF NoIndexSkipped, LedTo, Led

(* A new server skips no index if the scaler's are where they were led to. *)
LEMMA CreateSkipsNone ==
  ASSUME TypeOK, NoIndexSkipped, NEW s \in Server, NEW d, Create(s, d),
         d.by = "scaler" => LedTo(d.name.token), job' = job \/ job'.pc # "creating"
  PROVE  NoIndexSkipped'
<1>1. /\ stat[s] = "absent" /\ stat'[s] = "BUILD" /\ descr'[s] = d
      /\ \A t \in Server : t # s => stat'[t] = stat[t] /\ descr'[t] = descr[t]
  BY DEF Create, TypeOK
<1>2. \A k : Led(k) => Led(k)'
  BY <1>1, LedStays
<1>3. job'.pc = "creating" => \A k \in 0 .. job'.next - 1 : Led(k)
  BY DEF NoIndexSkipped, LedTo, Led
<1>4. \A t \in Server : stat'[t] # "absent" /\ descr'[t].by = "scaler" =>
        \A k \in 0 .. descr'[t].name.token - 1 : Led(k)
  BY <1>1 DEF NoIndexSkipped, LedTo, Led
<1> QED  BY <1>2, <1>3, <1>4, SkippedNone

(* The index after the largest listed one was led to: by the server that has *)
(* it, and by what led to that one.                                      *)
LEMMA ChoiceSkipsNone ==
  ASSUME IInv, NoIndexSkipped, NEW region \in Region, ChooseIndex(region)
  PROVE  NoIndexSkipped'
<1>1. PICK listed \in Lists : \E k \in {0} \cup {NameIndex(descr[s].name) + 1 : s \in listed} :
        job' = [job EXCEPT !.pc = "creating", !.next = k, !.region = region]
  BY DEF ChooseIndex
<1>2. PICK n \in {0} \cup {NameIndex(descr[s].name) + 1 : s \in listed} :
        job' = [job EXCEPT !.pc = "creating", !.next = n, !.region = region]
  BY <1>1
<1>3. job'.next = n /\ UNCHANGED <<stat, descr>>
  BY <1>2 DEF IInv, TypeOK, ChooseIndex
<1>4. ASSUME NEW s \in listed, n = NameIndex(descr[s].name) + 1, NEW k \in 0 .. n - 1
      PROVE  Led(k)
  <2>1. /\ s \in Server /\ stat[s] # "absent" /\ descr[s].name.starts = "jukebox"
        /\ descr[s].name.token \in Nat /\ n = descr[s].name.token + 1
    BY <1>4, FleetAssumption DEF Lists, Jukeboxes, Alive, IInv, DescrInv, Exists, Descr, NameIndex
  <2>2. k \in 0 .. descr[s].name.token
    BY <2>1
  <2>3. CASE k = descr[s].name.token \/ descr[s].by # "scaler"
    BY <2>1, <2>2, <2>3 DEF Led, LeadsTo
  <2>4. CASE k # descr[s].name.token /\ descr[s].by = "scaler"
    <3>1. k \in 0 .. descr[s].name.token - 1
      BY <2>1, <2>2, <2>4
    <3> QED  BY <2>1, <2>4, <3>1 DEF NoIndexSkipped, LedTo, Led
  <2> QED  BY <2>3, <2>4
<1>5. \A k \in 0 .. n - 1 : Led(k)
  <2>1. CASE n = 0
    BY <2>1
  <2>2. CASE n # 0
    BY <1>2, <1>4, <2>2
  <2> QED  BY <2>1, <2>2
<1>6. \A k : Led(k) => Led(k)'
  BY <1>3, LedStays
<1>7. \A s \in Server : stat'[s] # "absent" /\ descr'[s].by = "scaler" =>
        \A k \in 0 .. descr'[s].name.token - 1 : Led(k)
  BY <1>3 DEF NoIndexSkipped, LedTo, Led
<1> QED  BY <1>3, <1>5, <1>6, <1>7, SkippedNone

LEMMA SkipStep == IInv /\ NoIndexSkipped /\ [Next]_vars => NoIndexSkipped'
<1> SUFFICES ASSUME IInv, NoIndexSkipped, [Next]_vars PROVE NoIndexSkipped'
  OBVIOUS
<1> USE DEF IInv
<1>1. CASE ByHand
  <2> PICK s \in Server, name \in HandName, region \in Region, flavor \in HandFlavor,
           image \in Service \cup {"neither"} : CreateByHand(s, name, image, region, flavor)
    BY <1>1 DEF ByHand
  <2> DEFINE d == [by |-> "hand", name |-> name, region |-> OvhRegion(region), flavor |-> flavor,
                   image |-> image, boot |-> UserData(image, region, TokenIndex(name))]
  <2>1. Create(s, d) /\ job' = job /\ d.by = "hand"  BY DEF CreateByHand
  <2> HIDE DEF d
  <2> QED  BY <2>1, CreateSkipsNone
<1>2. ASSUME NEW s \in Server, AddServer(s) PROVE NoIndexSkipped'
  <2> DEFINE d == [by |-> "scaler", name |-> [starts |-> "jukebox", token |-> job.next, rest |-> 1],
                   region |-> OvhRegion(job.region), flavor |-> [range |-> "l4-90", case |-> "lower"],
                   image |-> "jukebox", boot |-> UserData("jukebox", job.region, job.next)]
  <2>1. /\ Create(s, d) /\ job'.pc # "creating"
        /\ d.name.token = job.next /\ LedTo(job.next)
    BY <1>2 DEF AddServer, NoJob, NoIndexSkipped
  <2> HIDE DEF d
  <2> QED  BY <2>1, CreateSkipsNone
<1>3. ASSUME NEW region \in Region, ChooseIndex(region) PROVE NoIndexSkipped'
  BY <1>3, ChoiceSkipsNone
<1>4. CASE AddFails \/ SyncLists \/ SyncCommits
  <2>1. job'.pc # "creating" /\ UNCHANGED <<stat, descr>>
    <3>1. CASE AddFails  BY <3>1 DEF AddFails, NoJob
    <3>2. CASE SyncLists  BY <3>2 DEF SyncLists, TypeOK
    <3>3. CASE SyncCommits  BY <3>3 DEF SyncCommits, NoJob
    <3> QED  BY <1>4, <3>1, <3>2, <3>3
  <2> QED  BY <2>1, NothingSkipped
<1>5. ASSUME NEW s \in Server, Built(s) \/ Hide(s) \/ DeleteServer(s) PROVE NoIndexSkipped'
  BY <1>5, NothingSkipped DEF Built, Hide, DeleteServer, Alive, TypeOK
<1>6. ASSUME NEW u \in Call, Place(u) PROVE NoIndexSkipped'
  BY <1>6, NothingSkipped DEF Place, PickNode, StartContainer, ContainerEnds
<1>7. CASE UNCHANGED vars
  BY <1>7, NothingSkipped DEF vars
<1> QED  BY <1>1, <1>2, <1>3, <1>4, <1>5, <1>6, <1>7 DEF Next, Job, Ovh

(* The scaler's indices rise one by one, or from a larger one that was given. *)
THEOREM IndicesRiseStepwise == Spec => []NoIndexSkipped
<1>1. Init => NoIndexSkipped
  <2> SUFFICES ASSUME Init, NEW s \in Server, stat[s] # "absent"
               PROVE  descr[s].by # "scaler"
    BY DEF Init, NoIndexSkipped, NoJob
  <2> QED  BY DEF Init, DedicatedDescr
<1> QED  BY <1>1, SkipStep, Inductive, PTL DEF Spec

-----------------------------------------------------------------------------
(* Without servers made by hand, and as long as the dedicated ones are listed, *)
(* a container is on the server its session tells while that one lives.  *)
THEOREM MisplacedIsExplained == Spec => []MisplacedExplained
<1>1. ASSUME IInv PROVE MisplacedExplained
  <2> SUFFICES ASSUME NEW u \in Call, box[u].phase = "running", box[u].on # box[u].node,
                      stat[box[u].node] # "gone", Known(box[u].on), Known(box[u].node)
               PROVE  FALSE
    BY DEF MisplacedExplained, Known, ByProgram
  <2> DEFINE on == box[u].on
             node == box[u].node
  <2>1. /\ Exists(node) /\ box[u].host = Hostname(RowOf(node))
        /\ on \in Alive /\ descr[on].boot.addr = Address(box[u].host[1], box[u].host[3], box[u].host[2])
    BY <1>1 DEF IInv, BoxInv, Reached
  <2>2. node \in Alive
    BY <1>1, <2>1 DEF IInv, TypeOK, Exists, Alive
  <2>3. \A v \in {on, node} : /\ descr[v] \in Descr /\ descr[v].image = "jukebox"
                              /\ descr[v].boot = UserData(descr[v].image, DcRegion(descr[v].region), descr[v].name.token)
    BY <1>1, <2>1, <2>2 DEF IInv, DescrInv, Exists, Alive, Known
  <2>4. NameIndex(descr[node].name) = descr[node].name.token
    BY <2>3, FleetAssumption DEF NameIndex, Descr
  <2>5. box[u].host = <<"jukebox", descr[node].name.token, DcRegion(descr[node].region)>>
    BY <2>1, <2>4 DEF Hostname, RowOf
  <2>6. descr[on].name.token \in Nat /\ descr[node].name.token \in Nat
    BY <2>3 DEF Descr
  <2>7. descr[on].boot.addr.host = 2 + descr[on].name.token
    BY <2>3 DEF UserData, Address, Offset
  <2>8. descr[on].boot.addr.host = 2 + descr[node].name.token
    BY <2>1, <2>5 DEF Address, Offset
  <2>9. descr[on].name.token = descr[node].name.token
    BY <2>6, <2>7, <2>8
  <2> QED  BY <1>1, <2>1, <2>2, <2>9 DEF IInv, NameInv
<1> QED  BY Inductive, <1>1, PTL

=============================================================================

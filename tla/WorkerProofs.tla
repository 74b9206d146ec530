----------------------------- MODULE WorkerProofs -----------------------------
(***************************************************************************)
(* What Worker guarantees, for any requests and sizes of the pools.      *)
(***************************************************************************)
EXTENDS Worker, TLAPS, FiniteSetTheorems

(* Every step keeps the types. *)
LEMMA TypeStep == TypeOK /\ [Next]_vars => TypeOK'
<1> SUFFICES ASSUME TypeOK, [Next]_vars PROVE TypeOK'
  OBVIOUS
<1> USE WorkerAssumption DEF TypeOK, Goto, OnLoop
<1>1. ASSUME NEW r \in Request, Arrive(r) \/ Endpoint(r) PROVE TypeOK'
  <2>1. CASE Arrive(r)  BY <2>1 DEF Arrive
  <2>2. CASE Dispatch(r)  BY <2>2 DEF Dispatch
  <2>3. CASE Checkout(r)  BY <2>3 DEF Checkout
  <2>4. CASE Commit(r)  BY <2>4 DEF Commit
  <2>5. CASE ListServers(r)  BY <2>5 DEF ListServers
  <2>6. CASE Finish(r)  BY <2>6 DEF Finish
  <2>7. CASE LoopQuery(r)  BY <2>7 DEF LoopQuery
  <2>8. CASE LoopCheckout(r)  BY <2>8 DEF LoopCheckout
  <2>9. CASE TimesOut(r)  BY <2>9 DEF TimesOut, Over
  <2>10. CASE Leave(r)  BY <2>10 DEF Leave
  <2>11. CASE RowsRead(r)  BY <2>11 DEF RowsRead, Over
  <2>12. CASE RolledBack(r)  BY <2>12 DEF RolledBack
  <2> QED
    BY <1>1, <2>1, <2>2, <2>3, <2>4, <2>5, <2>6, <2>7, <2>8, <2>9, <2>10, <2>11, <2>12 DEF Endpoint
<1>2. ASSUME NEW r \in Request, FanOut(r) PROVE TypeOK'
  <2> PICK n \in Node : Ask(r, n) \/ Answer(r, n) \/ AskFails(r, n)  BY <1>2 DEF FanOut
  <2>1. CASE Ask(r, n)  BY <2>1 DEF Ask
  <2>2. CASE Answer(r, n)  BY <2>2 DEF Answer, Over, LastOf
  <2>3. CASE AskFails(r, n)  BY <2>3 DEF AskFails
  <2> QED  BY <2>1, <2>2, <2>3
<1>3. CASE UNCHANGED vars  BY <1>3 DEF vars
<1> QED  BY <1>1, <1>2, <1>3 DEF Next

(* Every variable always has its type. *)
THEOREM TypeCorrect == Spec => []TypeOK
<1>1. Init => TypeOK  BY WorkerAssumption DEF Init, TypeOK
<1> QED  BY <1>1, TypeStep, PTL DEF Spec

-----------------------------------------------------------------------------
(* A request leaves the places where its scope is open only with its       *)
(* connection.                                                           *)
LEMMA LeakStep == TypeOK /\ PoolInv /\ NoLeak /\ [Next]_vars => NoLeak'
<1> SUFFICES ASSUME TypeOK, PoolInv, NoLeak, [Next]_vars PROVE NoLeak'
  OBVIOUS
<1> USE WorkerAssumption DEF TypeOK, PoolInv, NoLeak, Goto, OnLoop
<1>1. ASSUME NEW r \in Request, Arrive(r) \/ Endpoint(r) PROVE NoLeak'
  <2>1. CASE Arrive(r)  BY <2>1 DEF Arrive
  <2>2. CASE Dispatch(r)  BY <2>2 DEF Dispatch
  <2>3. CASE Checkout(r)  BY <2>3 DEF Checkout
  <2>4. CASE Commit(r)  BY <2>4 DEF Commit
  <2>5. CASE ListServers(r)  BY <2>5 DEF ListServers
  <2>6. CASE Finish(r)  BY <2>6 DEF Finish
  <2>7. CASE LoopQuery(r)  BY <2>7 DEF LoopQuery
  <2>8. CASE LoopCheckout(r)  BY <2>8 DEF LoopCheckout
  <2>9. CASE TimesOut(r)  BY <2>9 DEF TimesOut, Over
  <2>10. CASE Leave(r)  BY <2>10 DEF Leave
  <2>11. CASE RowsRead(r)  BY <2>11 DEF RowsRead, Over
  <2>12. CASE RolledBack(r)  BY <2>12 DEF RolledBack
  <2> QED
    BY <1>1, <2>1, <2>2, <2>3, <2>4, <2>5, <2>6, <2>7, <2>8, <2>9, <2>10, <2>11, <2>12 DEF Endpoint
<1>2. ASSUME NEW r \in Request, FanOut(r) PROVE NoLeak'
  <2> PICK n \in Node : Ask(r, n) \/ Answer(r, n) \/ AskFails(r, n)  BY <1>2 DEF FanOut
  <2>1. CASE Ask(r, n)  BY <2>1 DEF Ask
  <2>2. CASE Answer(r, n)  BY <2>2 DEF Answer, Over, LastOf
  <2>3. CASE AskFails(r, n)  BY <2>3 DEF AskFails
  <2> QED  BY <2>1, <2>2, <2>3
<1>3. CASE UNCHANGED vars  BY <1>3 DEF vars
<1> QED  BY <1>1, <1>2, <1>3 DEF Next

(* A connection is taken only while one is left. *)
LEMMA PoolStep == TypeOK /\ PoolInv /\ [Next]_vars => PoolInv'
<1> SUFFICES ASSUME TypeOK, PoolInv, [Next]_vars PROVE PoolInv'
  OBVIOUS
<1> USE WorkerAssumption DEF TypeOK, PoolInv, Goto, OnLoop
<1> /\ IsFiniteSet(held)
    /\ Cardinality(held) \in Nat
  BY FS_Subset, FS_CardinalityType
<1>add. ASSUME NEW r \in Request, Cardinality(held) < Pool, held' = held \cup {r}
        PROVE  Cardinality(held') <= Pool
  <2>1. Cardinality(held \cup {r}) \in {Cardinality(held), Cardinality(held) + 1}
    BY FS_AddElement
  <2> QED
    BY <1>add, <2>1
<1>del. ASSUME NEW r \in Request, held' = held \ {r}
        PROVE  Cardinality(held') <= Pool
  <2>1. Cardinality(held \ {r}) \in {Cardinality(held), Cardinality(held) - 1}
    BY FS_RemoveElement
  <2> QED
    BY <1>del, <2>1
<1>1. ASSUME NEW r \in Request, Arrive(r) \/ Endpoint(r) PROVE PoolInv'
  <2>1. CASE Arrive(r)  BY <2>1 DEF Arrive
  <2>2. CASE Dispatch(r)  BY <2>2 DEF Dispatch
  <2>3. CASE Checkout(r) \/ LoopCheckout(r)
    <3>1. /\ Cardinality(held) < Pool /\ held' = held \cup {r}
          /\ \A q \in Request : /\ pc'[q] = "work" => q \in held'
                                /\ pc'[q] = "listing" => Kind[q] \in {"job", "ovh"}
      BY <2>3 DEF Checkout, LoopCheckout
    <3>2. Cardinality(held') <= Pool
      BY <1>add, <3>1
    <3> QED  BY <3>1, <3>2
  <2>4. CASE Commit(r)
    <3>1. /\ held' = held \ {r}
          /\ \A q \in Request : /\ pc'[q] = "work" => q \in held'
                                /\ pc'[q] = "listing" => Kind[q] \in {"job", "ovh"}
      BY <2>4 DEF Commit
    <3>2. Cardinality(held') <= Pool
      BY <1>del, <3>1
    <3> QED  BY <3>1, <3>2
  <2>5. CASE ListServers(r)  BY <2>5 DEF ListServers
  <2>6. CASE Finish(r)  BY <2>6 DEF Finish
  <2>7. CASE LoopQuery(r)  BY <2>7 DEF LoopQuery
  <2>8. CASE RowsRead(r)
    <3>1. /\ held' \in {held, held \ {r}}
          /\ \A q \in Request : /\ pc'[q] = "work" => q \in held'
                                /\ pc'[q] = "listing" => Kind[q] \in {"job", "ovh"}
      BY <2>8 DEF RowsRead, Over
    <3>2. Cardinality(held') <= Pool
      BY <1>del, <3>1
    <3> QED  BY <3>1, <3>2
  <2>9. CASE TimesOut(r)  BY <2>9 DEF TimesOut, Over
  <2>10. CASE Leave(r)  BY <2>10 DEF Leave
  <2>11. CASE RolledBack(r)
    <3>1. /\ held' = held \ {r}
          /\ \A q \in Request : /\ pc'[q] = "work" => q \in held'
                                /\ pc'[q] = "listing" => Kind[q] \in {"job", "ovh"}
      BY <2>11 DEF RolledBack
    <3>2. Cardinality(held') <= Pool
      BY <1>del, <3>1
    <3> QED  BY <3>1, <3>2
  <2> QED
    BY <1>1, <2>1, <2>2, <2>3, <2>4, <2>5, <2>6, <2>7, <2>8, <2>9, <2>10, <2>11 DEF Endpoint
<1>2. ASSUME NEW r \in Request, FanOut(r) PROVE PoolInv'
  <2> PICK n \in Node : Ask(r, n) \/ Answer(r, n) \/ AskFails(r, n)  BY <1>2 DEF FanOut
  <2>1. CASE Ask(r, n)  BY <2>1 DEF Ask
  <2>2. CASE Answer(r, n)  BY <2>2 DEF Answer, Over, LastOf
  <2>3. CASE AskFails(r, n)  BY <2>3 DEF AskFails
  <2> QED  BY <2>1, <2>2, <2>3
<1>3. CASE UNCHANGED vars  BY <1>3 DEF vars
<1> QED  BY <1>1, <1>2, <1>3 DEF Next

(* A pull goes from its fan-out to its end with the last of its threads. *)
LEMMA FanStep == TypeOK /\ PoolInv /\ FanInv /\ [Next]_vars => FanInv'
<1> SUFFICES ASSUME TypeOK, PoolInv, FanInv, [Next]_vars PROVE FanInv'
  OBVIOUS
<1> USE WorkerAssumption DEF TypeOK, PoolInv, FanInv, Goto, OnLoop
<1>1. ASSUME NEW r \in Request, Arrive(r) \/ Endpoint(r) PROVE FanInv'
  <2>1. CASE Arrive(r)  BY <2>1 DEF Arrive
  <2>2. CASE Dispatch(r)  BY <2>2 DEF Dispatch
  <2>3. CASE Checkout(r)  BY <2>3 DEF Checkout
  <2>4. CASE Commit(r)  BY <2>4 DEF Commit
  <2>5. CASE ListServers(r)  BY <2>5 DEF ListServers
  <2>6. CASE Finish(r)  BY <2>6 DEF Finish
  <2>7. CASE LoopQuery(r)  BY <2>7 DEF LoopQuery
  <2>8. CASE LoopCheckout(r)  BY <2>8 DEF LoopCheckout
  <2>9. CASE TimesOut(r)  BY <2>9 DEF TimesOut, Over
  <2>10. CASE Leave(r)  BY <2>10 DEF Leave
  <2>11. CASE RowsRead(r)  BY <2>11 DEF RowsRead, Over
  <2>12. CASE RolledBack(r)  BY <2>12 DEF RolledBack
  <2> QED
    BY <1>1, <2>1, <2>2, <2>3, <2>4, <2>5, <2>6, <2>7, <2>8, <2>9, <2>10, <2>11, <2>12 DEF Endpoint
<1>2. ASSUME NEW r \in Request, FanOut(r) PROVE FanInv'
  <2> PICK n \in Node : Ask(r, n) \/ Answer(r, n) \/ AskFails(r, n)  BY <1>2 DEF FanOut
  <2>1. CASE Ask(r, n)  BY <2>1 DEF Ask
  <2>2. CASE Answer(r, n)  BY <2>2 DEF Answer, Over, LastOf
  <2>3. CASE AskFails(r, n)  BY <2>3 DEF AskFails
  <2> QED  BY <2>1, <2>2, <2>3
<1>3. CASE UNCHANGED vars  BY <1>3 DEF vars
<1> QED  BY <1>1, <1>2, <1>3 DEF Next

(* The event loop waits for SQL till that ends; the last call of a   *)
(* fan-out to come back ends it.                                         *)
LEMMA WaitStep == TypeOK /\ WaitInv /\ [Next]_vars => WaitInv'
<1> SUFFICES ASSUME TypeOK, WaitInv, [Next]_vars PROVE WaitInv'
  OBVIOUS
<1> USE WorkerAssumption DEF TypeOK, WaitInv, Goto, OnLoop
<1>1. ASSUME NEW r \in Request, Arrive(r) \/ Endpoint(r) PROVE WaitInv'
  <2>1. CASE Arrive(r)  BY <2>1 DEF Arrive
  <2>2. CASE Dispatch(r)  BY <2>2 DEF Dispatch
  <2>3. CASE Checkout(r)  BY <2>3 DEF Checkout, OnLoop
  <2>4. CASE Commit(r)  BY <2>4 DEF Commit
  <2>5. CASE ListServers(r)  BY <2>5 DEF ListServers
  <2>6. CASE Finish(r)  BY <2>6 DEF Finish
  <2>7. CASE LoopQuery(r)  BY <2>7 DEF LoopQuery
  <2>8. CASE LoopCheckout(r)  BY <2>8 DEF LoopCheckout
  <2>9. CASE TimesOut(r)  BY <2>9 DEF TimesOut, Over
  <2>10. CASE Leave(r)  BY <2>10 DEF Leave
  <2>11. CASE RowsRead(r)  BY <2>11 DEF RowsRead, Over
  <2>12. CASE RolledBack(r)  BY <2>12 DEF RolledBack
  <2> QED
    BY <1>1, <2>1, <2>2, <2>3, <2>4, <2>5, <2>6, <2>7, <2>8, <2>9, <2>10, <2>11, <2>12 DEF Endpoint
<1>2. ASSUME NEW r \in Request, FanOut(r) PROVE WaitInv'
  <2> PICK n \in Node : Ask(r, n) \/ Answer(r, n) \/ AskFails(r, n)  BY <1>2 DEF FanOut
  <2>1. CASE Ask(r, n)  BY <2>1 DEF Ask
  <2>2. CASE Answer(r, n)
    <3>1. /\ loop' = loop /\ todo' = todo /\ busy' = busy \ {<<r, n>>}
          /\ \A q \in Request : pc'[q] \in {"fanned", "sql"} => pc'[q] = pc[q]
          /\ \A q \in Request : pc[q] \in {"sql", "work", "leaving"} => pc'[q] = pc[q]
      BY <2>2 DEF Answer, Over
    <3>2. ASSUME pc'[r] = "fanned", todo[r] = {}
          PROVE  \E m \in Node : <<r, m>> \in busy'
      <4>1. pc[r] = "fanned" /\ ~LastOf(r, n)
        BY <2>2, <3>2 DEF Answer, Over
      <4>2. PICK p \in busy : p[1] = r /\ p # <<r, n>>
        BY <3>2, <4>1 DEF LastOf
      <4>3. PICK m \in Node : p = <<r, m>>
        BY <4>2
      <4> QED
        BY <3>1, <4>2, <4>3
    <3>3. ASSUME NEW q \in Request, pc'[q] = "fanned"
          PROVE  todo'[q] # {} \/ \E m \in Node : <<q, m>> \in busy'
      <4>1. CASE q = r
        BY <3>1, <3>2, <3>3, <4>1
      <4>2. CASE q # r
        BY <3>1, <3>3, <4>2
      <4> QED
        BY <4>1, <4>2
    <3> QED
      BY <3>1, <3>3
  <2>3. CASE AskFails(r, n)  BY <2>3 DEF AskFails
  <2> QED  BY <2>1, <2>2, <2>3
<1>3. CASE UNCHANGED vars  BY <1>3 DEF vars
<1> QED  BY <1>1, <1>2, <1>3 DEF Next

(* The five together are inductive. *)
IInv == TypeOK /\ NoLeak /\ PoolInv /\ FanInv /\ WaitInv

LEMMA Inductive == Spec => []IInv
<1>1. Init => IInv
  BY WorkerAssumption, FS_EmptySet DEF Init, IInv, TypeOK, NoLeak, PoolInv, FanInv, WaitInv
<1>2. IInv /\ [Next]_vars => IInv'
  BY TypeStep, LeakStep, PoolStep, FanStep, WaitStep DEF IInv
<1> QED  BY <1>1, <1>2, PTL DEF Spec

(* No connection outlives the scope it was taken in. *)
THEOREM NothingLeaks == Spec => []NoLeak
<1>1. IInv => NoLeak  BY DEF IInv
<1> QED  BY <1>1, Inductive, PTL

(* A pull is not over before the last of its threads. *)
THEOREM PullsWait == Spec => []PullWaitsForAll
<1>1. IInv => PullWaitsForAll  BY DEF IInv, FanInv, PullWaitsForAll
<1> QED  BY <1>1, Inductive, PTL

(* A thread that may hang is one at OVH, or one with a connection.       *)
LEMMA HangsAreFew == TypeOK /\ PoolInv => ThreadLeft
<1> SUFFICES ASSUME TypeOK, PoolInv, Cardinality(AtOvh) + Pool < Workers
             PROVE  Cardinality(InThread \cap MayHang) < Workers
  <2> DEFINE hung == Cardinality(InThread \cap MayHang)
  <2>1. hung \in Nat
    BY WorkerAssumption, FS_Subset, FS_CardinalityType DEF InThread
  <2> QED
    BY <2>1, WorkerAssumption DEF ThreadLeft, ThreadsHang
<1> DEFINE Hung == InThread \cap MayHang
<1>1. Hung \subseteq held \cup AtOvh
  BY DEF TypeOK, PoolInv, InThread, MayHang, AtOvh
<1>2. IsFiniteSet(held) /\ IsFiniteSet(AtOvh)
  BY WorkerAssumption, FS_Subset DEF TypeOK, AtOvh
<1>3. /\ IsFiniteSet(held \cup AtOvh)
      /\ Cardinality(held \cup AtOvh) = Cardinality(held) + Cardinality(AtOvh) - Cardinality(held \cap AtOvh)
  BY <1>2, FS_Union
<1>4. Cardinality(Hung) <= Cardinality(held \cup AtOvh) /\ IsFiniteSet(Hung)
  BY <1>1, <1>3, FS_Subset
<1>5. Cardinality(held \cap AtOvh) \in Nat
  BY <1>2, FS_Intersection, FS_CardinalityType
<1>6. {Cardinality(Hung), Cardinality(held), Cardinality(AtOvh)} \subseteq Nat
  BY <1>2, <1>4, FS_CardinalityType
<1>7. Cardinality(held) <= Pool /\ Pool \in Nat /\ Workers \in Nat
  BY WorkerAssumption DEF PoolInv
<1> HIDE DEF Hung
<1>8. Cardinality(Hung) < Workers
  BY <1>3, <1>4, <1>5, <1>6, <1>7
<1> QED
  BY <1>8 DEF Hung

(* Threads are all taken by requests that may hang only when OVH has all but *)
(* as many of them as there are connections.                             *)
THEOREM ThreadsAreLeft == Spec => []ThreadLeft
<1>1. IInv => ThreadLeft  BY HangsAreFew DEF IInv
<1> QED  BY <1>1, Inductive, PTL

-----------------------------------------------------------------------------
(* Full pools are not everybody's end: unless all threads for endpoints may *)
(* hang, one is in a checkout, which ends, and a busy thread of to_thread *)
(* comes back.                                                           *)
LEMMA FullPoolsMove ==
  ASSUME IInv
  PROVE  /\ ~(Cardinality(InThread) < Workers) /\ ~ThreadsHang => \E r \in Request : pc[r] = "sql"
         /\ ~(Cardinality(busy) < Threads) => \E r \in Request, n \in Node : <<r, n>> \in busy
<1>1. ASSUME ~(Cardinality(InThread) < Workers), \A r \in Request : pc[r] # "sql"
      PROVE  ThreadsHang
  <2>1. InThread \cap MayHang = InThread
    BY <1>1 DEF InThread, MayHang
  <2>2. Cardinality(InThread) \in Nat
    BY WorkerAssumption, FS_Subset, FS_CardinalityType DEF InThread
  <2>3. Cardinality(InThread) >= Workers
    BY <1>1, <2>2, WorkerAssumption
  <2> QED
    BY <2>1, <2>3 DEF ThreadsHang
<1>2. ASSUME ~(Cardinality(busy) < Threads)
      PROVE  \E r \in Request, n \in Node : <<r, n>> \in busy
  <2>1. busy # {}
    BY <1>2, WorkerAssumption, FS_EmptySet
  <2> QED
    BY <2>1 DEF IInv, TypeOK
<1> QED
  BY <1>1, <1>2

(* Who waits inside the process waits for somebody there who can go on, for *)
(* the database that the event loop waits for, or for threads that may all *)
(* hang: for any numbers of requests, connections, threads and nodes.    *)
THEOREM NobodyIsStuck == Spec => []NobodyStuck
<1>1. IInv => NobodyStuck
  <2> SUFFICES ASSUME IInv, NEW r \in Waiting, ~LoopHangs,
                      ~(ThreadsHang /\ pc[r] = "queued" /\ ~OnLoop(r))
               PROVE  \E q \in Request : CanMove(q)
    BY DEF NobodyStuck
  <2>1. r \in Request /\ pc[r] \in {"queued", "sql", "fanned", "done"}
    BY DEF Waiting
  <2>2. ASSUME NEW q \in Request, pc[q] = "sql"
        PROVE  CanMove(q)
    BY <2>2 DEF CanMove
  <2>3. CASE loop # NoRequest
    <3>1. loop \in Request /\ pc[loop] = "sql"
      BY <2>3 DEF IInv, TypeOK, WaitInv, LoopHangs, MayHang
    <3> QED
      BY <2>2, <3>1
  <2>4. CASE pc[r] = "queued" /\ ~OnLoop(r) /\ loop = NoRequest
    BY <2>1, <2>2, <2>4, FullPoolsMove DEF CanMove
  <2>5. CASE ((pc[r] = "queued" /\ OnLoop(r)) \/ pc[r] = "done") /\ loop = NoRequest
    BY <2>1, <2>5 DEF CanMove
  <2>6. CASE pc[r] = "fanned"
    BY <2>1, <2>6, FullPoolsMove DEF CanMove, IInv, WaitInv
  <2> QED
    BY <2>1, <2>2, <2>3, <2>4, <2>5, <2>6
<1> QED
  BY <1>1, Inductive, PTL

-----------------------------------------------------------------------------
(* A step changes the place of the one request that takes it, upwards.   *)
LEMMA StepAdvances ==
  ASSUME TypeOK, NEW r \in Request, Arrive(r) \/ Endpoint(r) \/ FanOut(r)
  PROVE  /\ Advances(r)
         /\ \A q \in Request \ {r} : Place(q)' = Place(q) /\ todo'[q] = todo[q]
<1> USE DEF TypeOK, Goto, Place
<1>1. CASE Arrive(r) \/ Dispatch(r) \/ Leave(r)
  BY <1>1 DEF Arrive, Dispatch, Leave, Advances
<1>2. CASE Checkout(r) \/ Commit(r) \/ ListServers(r) \/ Finish(r)
  BY <1>2 DEF Checkout, Commit, ListServers, Finish, Advances
<1>3. CASE LoopQuery(r) \/ LoopCheckout(r) \/ RowsRead(r) \/ TimesOut(r) \/ RolledBack(r)
  BY <1>3 DEF LoopQuery, LoopCheckout, RowsRead, TimesOut, RolledBack, Over, Advances
<1>4. CASE FanOut(r)
  <2> PICK n \in Node : Ask(r, n) \/ Answer(r, n) \/ AskFails(r, n)  BY <1>4 DEF FanOut
  <2>1. CASE Ask(r, n)  BY <2>1 DEF Ask, Advances
  <2>2. CASE Answer(r, n)  BY <2>2 DEF Answer, Over, LastOf, Advances
  <2>3. CASE AskFails(r, n)  BY <2>3 DEF AskFails, Advances
  <2> QED  BY <2>1, <2>2, <2>3
<1> QED
  BY <1>1, <1>2, <1>3, <1>4 DEF Endpoint

(* Every step brings one request further and takes none back.            *)
THEOREM StepsLeadOn == Spec => NoStepBack
<1>1. TypeOK /\ [Next]_vars =>
        [\E r \in Request : /\ Advances(r)
                            /\ \A q \in Request \ {r} : Place(q)' = Place(q) /\ todo'[q] = todo[q]]_vars
  BY StepAdvances DEF Next
<1> QED
  BY <1>1, TypeCorrect, PTL DEF Spec, NoStepBack
=============================================================================

-------------------------------- MODULE Worker --------------------------------
(***************************************************************************)
(* One worker process and what its requests compete for: the event loop, *)
(* the SQL connections (biz/sqldb.py), the threads of sync endpoints and *)
(* those of asyncio.to_thread (biz/cluster.py, biz/jukebox.py).          *)
(*                                                                       *)
(* A session takes a connection at its first query and gives it back when   *)
(* it commits, or when its scope is left, which for a request happens on *)
(* the event loop after the answer.  GET /cluster/state and the task of  *)
(* POST /cluster/pull_image query on the event loop itself, and wait there  *)
(* for a connection and for the database.  The sync endpoints of         *)
(* api/ovh_cluster.py wait for OVH in the same threads, without a session. *)
(***************************************************************************)
EXTENDS Integers, FiniteSets

CONSTANTS
  Request,
  Kind,      \* call: a sync endpoint with one transaction, such as run_container;
             \* job: scale or sync, with two; ovh: a sync endpoint with
             \* none, of api/ovh_cluster.py; state; pull
  Node,      \* the nodes with a row
  Pool,      \* the connections: pool_size + max_overflow
  Workers,   \* the threads for sync endpoints
  Threads,   \* the threads of asyncio.to_thread
  NoRequest

ASSUME WorkerAssumption ==
  /\ IsFiniteSet(Request)
  /\ Kind \in [Request -> {"call", "job", "ovh", "state", "pull"}]
  /\ NoRequest \notin Request
  /\ {Pool, Workers, Threads} \subseteq Nat \ {0}

VARIABLES
  pc,     \* where each request is
  round,  \* the transaction a job is in
  loop,   \* the request whose SQL the event loop waits for, or NoRequest
  held,   \* the requests whose session has a connection
  todo,   \* todo[r]: the nodes whose to_thread call is queued
  busy    \* the <<request, node>> a thread of asyncio.to_thread works on

vars == <<pc, round, loop, held, todo, busy>>

-----------------------------------------------------------------------------
Goto(r, label) == pc' = [pc EXCEPT ![r] = label]

(* State requests and pulls are coroutines; all others are sync endpoints. *)
OnLoop(r) == Kind[r] \in {"state", "pull"}

InThread == {r \in Request : ~OnLoop(r) /\ pc[r] \in {"listing", "sql", "work"}}

(* These wait for OVH and OpenStack, and hold no connection meanwhile.   *)
AtOvh == {r \in Request : pc[r] = "listing"}

(* A request at one of these places waits for a server without a timeout: *)
(* for OVH or OpenStack; for the ssh command of clone_app; for the database, *)
(* which connects, answers a query and rolls back in its own time.       *)
MayHang == {r \in Request : pc[r] \in {"listing", "work", "leaving"}}

Init ==
  /\ pc = [r \in Request |-> "idle"]
  /\ round = [r \in Request |-> 1]
  /\ loop = NoRequest
  /\ held = {}
  /\ todo = [r \in Request |-> {}]
  /\ busy = {}

Arrive(r) ==
  /\ pc[r] = "idle" /\ loop = NoRequest
  /\ Goto(r, "queued")
  /\ UNCHANGED <<round, loop, held, todo, busy>>

-----------------------------------------------------------------------------
(* Sync endpoints, in their threads. *)

(* The event loop gives a request its thread.  A scale job starts with a *)
(* query, a sync job with the servers at OVH.                            *)
Dispatch(r) ==
  /\ pc[r] = "queued" /\ ~OnLoop(r)
  /\ loop = NoRequest /\ Cardinality(InThread) < Workers
  /\ \/ Kind[r] # "ovh" /\ Goto(r, "sql")
     \/ Kind[r] \in {"job", "ovh"} /\ Goto(r, "listing")
  /\ UNCHANGED <<round, loop, held, todo, busy>>

(* Mutant of Checkout: a call's connection goes back before its clone.   *)
CheckoutBriefly(r) ==
  /\ pc[r] = "sql" /\ ~OnLoop(r)
  /\ Cardinality(held) < Pool
  /\ held' = IF Kind[r] = "call" THEN held ELSE held \cup {r}
  /\ Goto(r, "work")
  /\ UNCHANGED <<round, loop, todo, busy>>

Checkout(r) ==
  /\ pc[r] = "sql" /\ ~OnLoop(r)
  /\ Cardinality(held) < Pool
  /\ held' = held \cup {r}
  /\ Goto(r, "work")
  /\ UNCHANGED <<round, loop, todo, busy>>

(* Mutant of Commit: a job starts over instead of ending.                *)
CommitAgain(r) ==
  /\ pc[r] = "work" /\ Kind[r] = "job"
  /\ held' = held \ {r}
  /\ Goto(r, "listing")
  /\ round' = [round EXCEPT ![r] = 2]
  /\ UNCHANGED <<loop, todo, busy>>

(* sync_cluster_state commits once for each type of service. *)
Commit(r) ==
  /\ pc[r] = "work" /\ Kind[r] = "job"
  /\ held' = held \ {r}
  /\ Goto(r, IF round[r] = 1 THEN "listing" ELSE "done")
  /\ round' = [round EXCEPT ![r] = 2]
  /\ UNCHANGED <<loop, todo, busy>>

ListServers(r) ==
  /\ pc[r] = "listing" /\ Kind[r] = "job"
  /\ Goto(r, "sql")
  /\ UNCHANGED <<round, loop, held, todo, busy>>

(* The endpoint returns or raises. *)
Finish(r) ==
  /\ pc[r] \in {"listing", "work"} /\ ~OnLoop(r)
  /\ Goto(r, "done")
  /\ UNCHANGED <<round, loop, held, todo, busy>>

-----------------------------------------------------------------------------
(* Queries on the event loop. *)

(* A pull is a task without a request, so no scope is left to leave.     *)
Over(r) == IF Kind[r] = "pull" THEN "ended" ELSE "done"

LoopQuery(r) ==
  /\ pc[r] = "queued" /\ OnLoop(r)
  /\ loop = NoRequest
  /\ loop' = r
  /\ Goto(r, "sql")
  /\ UNCHANGED <<round, held, todo, busy>>

LoopCheckout(r) ==
  /\ pc[r] = "sql" /\ loop = r
  /\ Cardinality(held) < Pool
  /\ held' = held \cup {r}
  /\ Goto(r, "work")
  /\ UNCHANGED <<round, loop, todo, busy>>

(* Mutant of RowsRead: the task of pull_image has no scope of its own.   *)
RowsReadUnscoped(r) ==
  /\ pc[r] = "work" /\ loop = r
  /\ loop' = NoRequest
  /\ \/ Goto(r, Over(r)) /\ UNCHANGED todo
     \/ Node # {} /\ Goto(r, "fanned") /\ todo' = [todo EXCEPT ![r] = Node]
  /\ UNCHANGED <<round, held, busy>>

(* The database answers, with an error or no node or with the nodes to ask. *)
(* pull_image's session_scope is left, and the connection back, at once. *)
RowsRead(r) ==
  /\ pc[r] = "work" /\ loop = r
  /\ held' = IF Kind[r] = "pull" THEN held \ {r} ELSE held
  /\ loop' = NoRequest
  /\ \/ Goto(r, Over(r)) /\ UNCHANGED todo
     \/ Node # {} /\ Goto(r, "fanned") /\ todo' = [todo EXCEPT ![r] = Node]
  /\ UNCHANGED <<round, busy>>

(* Mutant of TimesOut: a checkout waits for as long as it takes.         *)
NeverTimesOut(r) == FALSE /\ UNCHANGED vars

(* No connection is free within the pool's 30 s: QueuePool's own timeout, *)
(* which bounds nothing after the checkout.                              *)
TimesOut(r) ==
  /\ pc[r] = "sql"
  /\ loop' = IF loop = r THEN NoRequest ELSE loop
  /\ Goto(r, Over(r))
  /\ UNCHANGED <<round, held, todo, busy>>

-----------------------------------------------------------------------------
(* asyncio.gather of one to_thread per node. *)

Ask(r, n) ==
  /\ n \in todo[r] /\ Cardinality(busy) < Threads
  /\ todo' = [todo EXCEPT ![r] = @ \ {n}]
  /\ busy' = busy \cup {<<r, n>>}
  /\ UNCHANGED <<pc, round, loop, held>>

(* Mutant of LastOf: the call that has just come back counts itself.     *)
NoneOf(r, n) == todo[r] = {} /\ \A p \in busy : p[1] # r

(* All threads of r but the one for n have come back. *)
LastOf(r, n) == todo[r] = {} /\ \A p \in busy : p[1] = r => p = <<r, n>>

(* The daemon answers or, in a pull, fails: Node.pull_image swallows it. *)
Answer(r, n) ==
  /\ <<r, n>> \in busy
  /\ busy' = busy \ {<<r, n>>}
  /\ IF pc[r] = "fanned" /\ LastOf(r, n) THEN Goto(r, Over(r)) ELSE UNCHANGED pc
  /\ UNCHANGED <<round, loop, held, todo>>

(* Mutant of AskFails: Node.pull_image raises what the daemon answers.   *)
AnyAskFails(r, n) ==
  /\ <<r, n>> \in busy
  /\ busy' = busy \ {<<r, n>>}
  /\ IF pc[r] = "fanned" THEN Goto(r, Over(r)) ELSE UNCHANGED pc
  /\ UNCHANGED <<round, loop, held, todo>>

(* The first daemon that fails a state request ends it; the other threads go *)
(* on for nobody.                                                        *)
AskFails(r, n) ==
  /\ <<r, n>> \in busy /\ Kind[r] = "state"
  /\ busy' = busy \ {<<r, n>>}
  /\ IF pc[r] = "fanned" THEN Goto(r, "done") ELSE UNCHANGED pc
  /\ UNCHANGED <<round, loop, held, todo>>

-----------------------------------------------------------------------------
(* The middleware leaves the scope, on the event loop: a session with a  *)
(* connection rolls back before that goes back to the pool.              *)
Leave(r) ==
  /\ pc[r] = "done" /\ loop = NoRequest
  /\ \/ r \notin held /\ Goto(r, "ended") /\ UNCHANGED loop
     \/ r \in held /\ Goto(r, "leaving") /\ loop' = r
  /\ UNCHANGED <<round, held, todo, busy>>

RolledBack(r) ==
  /\ pc[r] = "leaving" /\ loop = r
  /\ held' = held \ {r}
  /\ loop' = NoRequest
  /\ Goto(r, "ended")
  /\ UNCHANGED <<round, todo, busy>>

-----------------------------------------------------------------------------
Endpoint(r) ==
  \/ Dispatch(r) \/ Checkout(r) \/ Commit(r) \/ ListServers(r) \/ Finish(r)
  \/ LoopQuery(r) \/ LoopCheckout(r) \/ RowsRead(r) \/ TimesOut(r)
  \/ Leave(r) \/ RolledBack(r)

FanOut(r) == \E n \in Node : Ask(r, n) \/ Answer(r, n) \/ AskFails(r, n)

Next == \E r \in Request : Arrive(r) \/ Endpoint(r) \/ FanOut(r)

Spec == Init /\ [][Next]_vars

(* A checkout ends within 30 s, a call of a Docker daemon within its       *)
(* client's timeout; thread pools and the event loop, unless it waits for the *)
(* database, serve whoever waits.  Of the database, of OVH and of the     *)
(* storage servers nothing is assumed.                                   *)
FairSpec ==
  /\ Spec
  /\ \A r \in Request :
       /\ WF_vars(Dispatch(r))
       /\ WF_vars(LoopQuery(r))
       /\ WF_vars(Checkout(r) \/ LoopCheckout(r) \/ TimesOut(r))
       /\ WF_vars(FanOut(r))
       /\ WF_vars(Leave(r))

-----------------------------------------------------------------------------
(* Every variable has its type (sqldb.py, cluster.py).                   *)
TypeOK ==
  /\ pc \in [Request -> {"idle", "queued", "listing", "sql", "work", "fanned", "done", "leaving", "ended"}]
  /\ round \in [Request -> {1, 2}]
  /\ loop \in Request \cup {NoRequest}
  /\ held \subseteq Request
  /\ todo \in [Request -> SUBSET Node]
  /\ busy \subseteq Request \X Node

(* A connection is held only for a request whose scope is still open and will *)
(* be left: never for a finished one, nor for the task of pull_image once it *)
(* has its nodes (session_scope, and the comment in pull_image).         *)
NoLeak ==
  \A r \in held :
    /\ pc[r] \in {"work", "fanned", "done", "leaving"}
    /\ Kind[r] = "pull" => pc[r] = "work"

(* Every thread for endpoints is taken by a request that may hang. *)
ThreadsHang == Cardinality(InThread \cap MayHang) >= Workers

(* However many storage servers hang, and the database with them, the threads *)
(* are not all taken unless requests wait for OVH in all but as many of them *)
(* as there are connections (25 of 40): whatever else may hang holds a   *)
(* connection, and connections run out before threads do (run_container, *)
(* which never commits; sqldb.py:41).                                    *)
ThreadLeft == Cardinality(AtOvh) + Pool < Workers => ~ThreadsHang

(* A pull is over only when no thread works on it any more, although some of *)
(* its nodes failed: a failure is swallowed where it happens.            *)
PullWaitsForAll ==
  \A r \in Request : Kind[r] = "pull" /\ pc[r] = "ended" =>
    todo[r] = {} /\ \A p \in busy : p[1] # r

(* Why a pull's threads are gone, and where the connections are.         *)
FanInv ==
  \A r \in Request : Kind[r] = "pull" /\ pc[r] # "fanned" =>
    todo[r] = {} /\ \A p \in busy : p[1] # r

PoolInv ==
  /\ Cardinality(held) <= Pool
  /\ \A r \in Request : /\ pc[r] = "work" => r \in held
                        /\ pc[r] = "listing" => Kind[r] \in {"job", "ovh"}

(* The requests that wait for something inside the process. *)
Waiting == {r \in Request : pc[r] \in {"queued", "sql", "fanned", "done"}}

(* The event loop waits for the database, and everything for the event loop. *)
LoopHangs == loop \in MayHang

(* What r waits for is there, or comes by a timeout: a thread, the event   *)
(* loop, a connection, a daemon.                                         *)
CanMove(r) ==
  \/ /\ pc[r] = "queued" /\ ~OnLoop(r)
     /\ loop = NoRequest /\ Cardinality(InThread) < Workers
  \/ pc[r] = "queued" /\ OnLoop(r) /\ loop = NoRequest
  \/ pc[r] = "done" /\ loop = NoRequest
  \/ pc[r] = "sql"
  \/ todo[r] # {} /\ Cardinality(busy) < Threads
  \/ \E n \in Node : <<r, n>> \in busy

(* Nobody waits in a circle inside the process, although the event loop     *)
(* itself may wait for a connection and all connections and threads may be *)
(* taken: a request waits without anybody there being able to go on only    *)
(* when servers outside hang, the database while the event loop waits for *)
(* it, or whatever all threads wait for while the request needs one      *)
(* (session_scope, the queries on the event loop, gather).               *)
NobodyStuck ==
  \A r \in Waiting :
    \/ \E q \in Request : CanMove(q)
    \/ LoopHangs
    \/ ThreadsHang /\ pc[r] = "queued" /\ ~OnLoop(r)

(* Why nobody is: the event loop waits for nothing but the SQL of a request *)
(* of its own or the end of a session, and what is fanned out has a call  *)
(* left.                                                                 *)
WaitInv ==
  /\ loop # NoRequest =>
       pc[loop] = "leaving" \/ (OnLoop(loop) /\ pc[loop] \in {"sql", "work"})
  /\ \A r \in Request : pc[r] = "fanned" => todo[r] # {} \/ \E n \in Node : <<r, n>> \in busy

(* How far a request has come.  A job lists and commits twice.           *)
Place(r) ==
  CASE pc[r] = "idle" -> 0
    [] pc[r] = "queued" -> 1
    [] pc[r] = "listing" -> 3 * round[r]
    [] pc[r] = "sql" -> 3 * round[r] + 1
    [] pc[r] = "work" -> 3 * round[r] + 2
    [] pc[r] = "fanned" -> 9
    [] pc[r] = "done" -> 10
    [] pc[r] = "leaving" -> 11
    [] OTHER -> 12

(* A step of r: it comes further, or its fan-out does.                   *)
Advances(r) ==
  \/ Place(r)' > Place(r)
  \/ /\ Place(r)' = Place(r)
     /\ \/ todo'[r] \subseteq todo[r] /\ todo'[r] # todo[r]
        \/ todo'[r] = todo[r] /\ busy' \subseteq busy /\ busy' # busy

(* Nothing goes in circles: no step takes a request back, each takes one   *)
(* further and leaves the others where they are.  With NobodyStuck, a worker *)
(* always gets to where its requests have ended, or wait for servers that *)
(* hang.                                                                 *)
NoStepBack ==
  [][\E r \in Request : /\ Advances(r)
                        /\ \A q \in Request \ {r} : Place(q)' = Place(q) /\ todo'[q] = todo[q]]_vars

(* Every request ends, unless it hangs at a server itself, or hung requests *)
(* keep every thread from it, or the event loop hangs in the database.  No *)
(* other hang makes it wait for ever: not the hang of those that hold all   *)
(* connections, nor an event loop that waits for a connection only the event *)
(* loop could give back.                                                 *)
RequestsEnd ==
  \A r \in Request :
    pc[r] = "queued" ~> \/ pc[r] = "ended"
                       \/ [](r \in MayHang)
                       \/ [](pc[r] = "queued" /\ ~OnLoop(r) /\ ThreadsHang)
                       \/ []LoopHangs

=============================================================================

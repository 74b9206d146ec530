------------------------------- MODULE NodeOps -------------------------------
(***************************************************************************)
(* What is asked of one node about one container: biz/node.py's stop,    *)
(* pause, resume, _update and pull_image, as biz/jukebox.py calls them.  *)
(*                                                                       *)
(* A call is an HTTP request of its own; calls overlap in any order, and *)
(* are retried by their callers.  The Docker daemon carries out one      *)
(* request at a time; a client that has given up does not stop it.  The  *)
(* daemon is external: its actions say which requests it accepts in which *)
(* state of the container.                                               *)
(***************************************************************************)
CONSTANTS
  Call,
  Op,      \* what each call asks for
  NoCall

ASSUME CallAssumption ==
  /\ Op \in [Call -> {"stop", "pause", "resume", "state", "pull"}]
  /\ NoCall \notin Call

VARIABLES
  (* the node *)
  box,        \* the container: running, paused, exited or removed
  dying,      \* a stop has been accepted and the container is being killed
  streamd,    \* the resume whose ws_conn streamd serves; NoCall: run_container's
  scripts,    \* the resumes whose restart_streamd.sh was started, and has not
              \* restarted streamd yet or never will
  tagged,     \* the container's image still has a tag
  (* the program *)
  pc,         \* where each call is
  (* history *)
  last,       \* the resume that unpaused the container last
  overtaken,  \* the resumes paused in before they restarted streamd
  lifted,     \* the pauses that had been answered before the last unpause
  failed      \* the reports of state the daemon failed: an error, or no answer

boxVars == <<box, dying, streamd, scripts, tagged>>
vars == <<boxVars, pc, last, overtaken, lifted, failed>>

-----------------------------------------------------------------------------
(* 200, or what the error handlers make of an exception: 409 of a        *)
(* BizException, 400 of the daemon's APIError, 500 of anything else.     *)
Answers == {"ok", "error"}

(* A call waits for an answer of the daemon. *)
Asking == {"asking", "stopping", "unpaused", "created", "inspecting", "imaging"}

(* Mutants of FailsAs: any error of the daemon counts as "was already    *)
(* stopped"; any as "already paused".                                    *)
AnyErrorIsStopped(c) == IF Op[c] \in {"pull", "stop"} THEN "ok" ELSE "error"
AnyErrorIsPaused(c) == IF Op[c] \in {"pull", "pause"} THEN "ok" ELSE "error"

(* The answer of a call the daemon has failed: pull_image swallows it.   *)
FailsAs(c) == IF Op[c] = "pull" THEN "ok" ELSE "error"

(* The resumes that have unpaused, and may yet restart streamd. *)
Resuming ==
  scripts \cup {c \in Call : Op[c] = "resume" /\ pc[c] \in {"unpaused", "created", "late exec"}}

Paused == {c \in Call : Op[c] = "pause" /\ pc[c] = "ok"}

Goto(c, label) == pc' = [pc EXCEPT ![c] = label]

(* The program takes a step of c and the daemon none. *)
Step(c, label) ==
  /\ Goto(c, label)
  /\ UNCHANGED <<boxVars, last, overtaken, lifted, failed>>

-----------------------------------------------------------------------------
Init ==
  /\ box = "running" /\ dying = FALSE /\ streamd = NoCall /\ scripts = {} /\ tagged = TRUE
  /\ pc = [c \in Call |-> "idle"]
  /\ last = NoCall
  /\ overtaken = {} /\ lifted = {} /\ failed = {}

(* _get_node finds the node, or it is among get_jukebox_nodes; or it has no   *)
(* row: rows go and come back with each sync.                            *)
FindNode(c) ==
  /\ pc[c] = "idle"
  /\ \/ Step(c, "asking")
     \/ Step(c, IF Op[c] \in {"state", "pull"} THEN "ok" ELSE "error")

(* What the daemon does when it accepts a request. *)
Kill ==
  /\ dying' = TRUE
  /\ UNCHANGED <<box, streamd, scripts, tagged, last, overtaken, lifted>>

Pause ==
  /\ box = "running"
  /\ box' = "paused"
  /\ overtaken' = overtaken \cup Resuming
  /\ UNCHANGED <<dying, streamd, scripts, tagged, last, lifted>>

Unpause(c) ==
  /\ box = "paused"
  /\ box' = "running"
  /\ last' = c
  /\ lifted' = lifted \cup Paused
  /\ UNCHANGED <<dying, streamd, scripts, tagged, overtaken>>

(* A detached exec: the daemon answers when the script has been started. *)
Exec(c) ==
  /\ box = "running"
  /\ scripts' = scripts \cup {c}
  /\ UNCHANGED <<box, dying, streamd, tagged, last, overtaken, lifted>>

(* The daemon fails: an error of its own, no connection, no answer in time. *)
DaemonFails(c) ==
  /\ pc[c] \in Asking
  /\ Goto(c, FailsAs(c))
  /\ failed' = IF Op[c] = "state" THEN failed \cup {c} ELSE failed
  /\ UNCHANGED <<boxVars, last, overtaken, lifted>>

(* The client gives up on a request the daemon may still carry out.      *)
TimesOut(c) ==
  /\ \/ pc[c] = "asking" /\ Op[c] \in {"stop", "pause", "resume"} /\ Goto(c, "late")
     \/ pc[c] = "created" /\ Goto(c, "late exec")
  /\ UNCHANGED <<boxVars, last, overtaken, lifted, failed>>

Late(c) ==
  /\ \/ pc[c] = "late" /\ Op[c] = "stop" /\ box \in {"running", "paused"} /\ Kill
     \/ pc[c] = "late" /\ Op[c] = "pause" /\ Pause
     \/ pc[c] = "late" /\ Op[c] = "resume" /\ Unpause(c)
     \/ pc[c] = "late exec" /\ Exec(c)
  /\ Goto(c, "error")
  /\ UNCHANGED failed

LateDropped(c) == pc[c] \in {"late", "late exec"} /\ Step(c, "error")

(* The container is gone: _get_container raises ContainerNotFound, or a  *)
(* later request an APIError 404.  stop_container takes both for done.   *)
NotFound(c) ==
  /\ box = "removed"
  /\ \/ pc[c] = "asking" /\ Op[c] = "stop" /\ Step(c, "ok")
     \/ pc[c] = "asking" /\ Op[c] \in {"pause", "resume"} /\ Step(c, "error")
     \/ pc[c] \in {"unpaused", "created"} /\ Step(c, "error")

-----------------------------------------------------------------------------
(* stop_container: SIGTERM, SIGKILL after 5 s, and an answer when it is over. *)
Stop(c) ==
  /\ pc[c] = "asking" /\ Op[c] = "stop"
  /\ box \in {"running", "paused"}
  /\ Kill
  /\ Goto(c, "stopping")
  /\ UNCHANGED failed

(* It has exited: by this stop, or before (304, no error).               *)
Stopped(c) ==
  /\ \/ pc[c] = "asking" /\ Op[c] = "stop" /\ box = "exited"
     \/ pc[c] = "stopping" /\ box \in {"exited", "removed"}
  /\ Step(c, "ok")

(* pause_container *)
PauseContainer(c) ==
  /\ pc[c] = "asking" /\ Op[c] = "pause"
  /\ Pause
  /\ Goto(c, "ok")
  /\ UNCHANGED failed

(* 409: it is paused already, or does not run any more. *)
PauseConflict(c) ==
  /\ pc[c] = "asking" /\ Op[c] = "pause"
  /\ box \in {"paused", "exited"}
  /\ Step(c, "ok")

(* resume_container: unpause, then a detached exec of restart_streamd.sh with *)
(* the caller's ws_conn, whose result nobody asks for.                   *)
UnpauseContainer(c) ==
  /\ pc[c] = "asking" /\ Op[c] = "resume"
  /\ Unpause(c)
  /\ Goto(c, "unpaused")
  /\ UNCHANGED failed

(* Mutant of UnpauseRefused: not paused is as good as unpaused.          *)
UnpauseTolerant(c) ==
  /\ pc[c] = "asking" /\ Op[c] = "resume"
  /\ box \in {"running", "exited"}
  /\ Step(c, IF box = "running" THEN "unpaused" ELSE "error")

UnpauseRefused(c) ==
  /\ pc[c] = "asking" /\ Op[c] = "resume"
  /\ box \in {"running", "exited"}
  /\ Step(c, "error")

CreateExec(c) == pc[c] = "unpaused" /\ box = "running" /\ Step(c, "created")

StartExec(c) ==
  /\ pc[c] = "created"
  /\ Exec(c)
  /\ Goto(c, "ok")
  /\ UNCHANGED failed

(* Mutant of ExecRefused: the error of an exec is only logged.           *)
ExecErrorLogged(c) ==
  /\ pc[c] \in {"unpaused", "created"}
  /\ box \in {"paused", "exited"}
  /\ Step(c, "ok")

ExecRefused(c) ==
  /\ pc[c] \in {"unpaused", "created"}
  /\ box \in {"paused", "exited"}
  /\ Step(c, "error")

-----------------------------------------------------------------------------
(* Node._update: docker-py lists the containers that run, inspects each, and *)
(* Container.__init__ asks for the tags of its image.                    *)
ListContainers(c) ==
  /\ pc[c] = "asking" /\ Op[c] = "state"
  /\ Step(c, IF box \in {"running", "paused"} THEN "inspecting" ELSE "ok")

(* Mutant of Inspect: a container that has exited is an error, too.      *)
InspectRunning(c) ==
  /\ pc[c] = "inspecting"
  /\ Step(c, IF box \in {"exited", "removed"} THEN "error" ELSE "imaging")

Inspect(c) ==
  /\ pc[c] = "inspecting"
  /\ Step(c, IF box = "removed" THEN "error" ELSE "imaging")

(* RepoTags[0]: an image without a tag is an IndexError. *)
ReadImage(c) == pc[c] = "imaging" /\ Step(c, IF tagged THEN "ok" ELSE "error")

(* pull_image: the tag goes to the registry's image, which the container's *)
(* may be or not.                                                        *)
PullImage(c) ==
  /\ pc[c] = "asking" /\ Op[c] = "pull"
  /\ tagged' \in BOOLEAN
  /\ Goto(c, "ok")
  /\ UNCHANGED <<box, dying, streamd, scripts, last, overtaken, lifted, failed>>

-----------------------------------------------------------------------------
(* The application ends or is killed, a paused one only by a stop.       *)
Exit ==
  /\ box = "running" \/ (box = "paused" /\ dying)
  /\ box' = "exited"
  /\ UNCHANGED <<dying, streamd, scripts, tagged, pc, last, overtaken, lifted, failed>>

(* auto_remove *)
Remove ==
  /\ box = "exited"
  /\ box' = "removed"
  /\ UNCHANGED <<dying, streamd, scripts, tagged, pc, last, overtaken, lifted, failed>>

(* restart_streamd.sh does its work, in its own time and while the container *)
(* runs; it may never do so (it works in X11 only).                      *)
RunScript(c) ==
  /\ c \in scripts /\ box = "running"
  /\ scripts' = scripts \ {c}
  /\ streamd' = c
  /\ UNCHANGED <<box, dying, tagged, pc, last, overtaken, lifted, failed>>

-----------------------------------------------------------------------------
Handle(c) ==
  \/ FindNode(c)
  \/ DaemonFails(c) \/ TimesOut(c) \/ Late(c) \/ LateDropped(c) \/ NotFound(c)
  \/ Stop(c) \/ Stopped(c)
  \/ PauseContainer(c) \/ PauseConflict(c)
  \/ UnpauseContainer(c) \/ UnpauseRefused(c)
  \/ CreateExec(c) \/ StartExec(c) \/ ExecRefused(c)
  \/ ListContainers(c) \/ Inspect(c) \/ ReadImage(c)
  \/ PullImage(c)

Next == (\E c \in Call : Handle(c) \/ RunScript(c)) \/ Exit \/ Remove

Spec == Init /\ [][Next]_vars

-----------------------------------------------------------------------------
(* Every variable has its type (node.py).                                *)
TypeOK ==
  /\ box \in {"running", "paused", "exited", "removed"}
  /\ dying \in BOOLEAN /\ tagged \in BOOLEAN
  /\ streamd \in Call \cup {NoCall}
  /\ scripts \subseteq Call
  /\ pc \in [Call -> {"idle", "late", "late exec"} \cup Asking \cup Answers]
  /\ \A c \in Call :
       /\ pc[c] = "stopping" => Op[c] = "stop"
       /\ pc[c] = "late" => Op[c] \in {"stop", "pause", "resume"}
       /\ pc[c] \in {"unpaused", "created", "late exec"} => Op[c] = "resume"
       /\ pc[c] \in {"inspecting", "imaging"} => Op[c] = "state"
  /\ last \in Call \cup {NoCall}
  /\ overtaken \subseteq Call /\ lifted \subseteq Call /\ failed \subseteq Call

(* A stop that was answered with success has stopped the container for good, *)
(* whichever of its requests failed, was refused or came late and whatever   *)
(* other calls did meanwhile: the errors stop_container swallows (line 173  *)
(* and 176) are those of a container that has ended.                     *)
StopIsFinal ==
  \A c \in Call : Op[c] = "stop" /\ pc[c] = "ok" => box \in {"exited", "removed"}

(* After a pause was answered with success, the container runs only when a  *)
(* resume has unpaused it since: the conflict pause_container swallows (line *)
(* 185), be it that of an exited container, never leaves it running.     *)
PausedStaysPaused ==
  \A c \in Paused : box = "running" => c \in lifted

(* A resume that may yet restart streamd and that no pause has overtaken is  *)
(* the last to have unpaused; once the script of the last has run, it is   *)
(* served, or one that was overtaken is.                                 *)
StreamInv ==
  /\ \A r \in Resuming \ overtaken : r = last /\ box # "paused"
  /\ last # NoCall =>
       /\ Op[last] = "resume"
       /\ pc[last] \in {"unpaused", "created", "late exec", "ok", "error"}
       /\ pc[last] = "ok" /\ last \notin scripts => streamd = last \/ streamd \in overtaken

(* Whom a resumed container streams to: the resume that unpaused it last, *)
(* unless that one is still on its way or broke off between unpause and exec *)
(* (when a retry is refused, for the container runs); its script, of whose *)
(* end no answer tells, has not restarted streamd; or an older resume did so *)
(* only after a pause and the last unpause.                              *)
StreamExplained ==
  box = "running" /\ last # NoCall /\ streamd # last =>
    \/ pc[last] \in {"unpaused", "created", "late exec", "error"}
    \/ last \in scripts
    \/ streamd \in overtaken

(* A report of the node's state fails only when a daemon does, when the   *)
(* container ended between two of its requests, or when a pull has taken the  *)
(* tag of the container's image (_update, Container.__init__).           *)
StateFailsExplained ==
  \A c \in Call : Op[c] = "state" /\ pc[c] = "error" =>
    \/ c \in failed
    \/ box = "removed"
    \/ \E p \in Call : Op[p] = "pull" /\ pc[p] = "ok"

(* Docstring of cluster_state: the current state of all jukebox nodes. So a *)
(* request for it fails only when a daemon does.                         *)
StateFailsOnlyWithDaemon ==
  \A c \in Call : Op[c] = "state" /\ pc[c] = "error" => c \in failed

-----------------------------------------------------------------------------
(* The object the requests of NodeOps are carried out on: a call is open until *)
(* the daemon accepts what it asks for or somebody answers it, also when its *)
(* client has given up.                                                  *)
LifeOf(state) == IF state \in {"exited", "removed"} THEN "ended" ELSE state

CallOf(place) ==
  CASE place \in {"idle", "asking", "late", "inspecting", "imaging"} -> "open"
    [] place \in {"stopping", "unpaused", "created", "late exec"} -> "acted"
    [] OTHER -> place

Life == INSTANCE ContainerLife WITH
  life <- LifeOf(box),
  doomed <- dying,
  call <- [c \in Call |-> CallOf(pc[c])]

(* Stop, pause and resume are atomic, whatever overlaps, is refused, comes *)
(* late or is swallowed as an error: each acts at most once, before or when  *)
(* it is answered, and one answered with success has found or made the   *)
(* container as it was asked to be (node.py, stop_container to           *)
(* exec_run_container).                                                  *)
ActsAtomically == Life!Spec

=============================================================================

---------------------------- MODULE NodeOpsProofs ----------------------------
(***************************************************************************)
(* What NodeOps guarantees, for any calls.                               *)
(***************************************************************************)
EXTENDS NodeOps, TLAPS

(* Every step of a call and of the daemon keeps the types. *)
LEMMA TypeStep == TypeOK /\ [Next]_vars => TypeOK'
<1> SUFFICES ASSUME TypeOK, [Next]_vars PROVE TypeOK'
  OBVIOUS
<1> USE CallAssumption DEF TypeOK, Resuming, Paused, Goto, boxVars, Asking, Answers
<1>1. ASSUME NEW c \in Call, Handle(c) PROVE TypeOK'
  <2>1. CASE FindNode(c)  BY <2>1 DEF FindNode, Step
  <2>2. CASE DaemonFails(c)  BY <2>2 DEF DaemonFails, FailsAs
  <2>3. CASE TimesOut(c)  BY <2>3 DEF TimesOut
  <2>4. CASE Late(c)
    <3>1. CASE pc[c] = "late" /\ Op[c] = "stop" /\ Kill  BY <2>4, <3>1 DEF Late, Kill
    <3>2. CASE pc[c] = "late" /\ Op[c] = "pause" /\ Pause  BY <2>4, <3>2 DEF Late, Pause
    <3>3. CASE pc[c] = "late" /\ Op[c] = "resume" /\ Unpause(c)  BY <2>4, <3>3 DEF Late, Unpause
    <3>4. CASE pc[c] = "late exec" /\ Exec(c)  BY <2>4, <3>4 DEF Late, Exec
    <3> QED  BY <2>4, <3>1, <3>2, <3>3, <3>4 DEF Late
  <2>5. CASE LateDropped(c)  BY <2>5 DEF LateDropped, Step
  <2>6. CASE NotFound(c)  BY <2>6 DEF NotFound, Step
  <2>7. CASE Stop(c)  BY <2>7 DEF Stop, Kill
  <2>8. CASE Stopped(c)  BY <2>8 DEF Stopped, Step
  <2>9. CASE PauseContainer(c)  BY <2>9 DEF PauseContainer, Pause
  <2>10. CASE PauseConflict(c)  BY <2>10 DEF PauseConflict, Step
  <2>11. CASE UnpauseContainer(c)  BY <2>11 DEF UnpauseContainer, Unpause
  <2>12. CASE UnpauseRefused(c)  BY <2>12 DEF UnpauseRefused, Step
  <2>13. CASE CreateExec(c)  BY <2>13 DEF CreateExec, Step
  <2>14. CASE StartExec(c)  BY <2>14 DEF StartExec, Exec
  <2>15. CASE ExecRefused(c)  BY <2>15 DEF ExecRefused, Step
  <2>16. CASE ListContainers(c)  BY <2>16 DEF ListContainers, Step
  <2>17. CASE Inspect(c)  BY <2>17 DEF Inspect, Step
  <2>18. CASE ReadImage(c)  BY <2>18 DEF ReadImage, Step
  <2>19. CASE PullImage(c)  BY <2>19 DEF PullImage
  <2> QED
    BY <1>1, <2>1, <2>2, <2>3, <2>4, <2>5, <2>6, <2>7, <2>8, <2>9, <2>10, <2>11, <2>12, <2>13,
       <2>14, <2>15, <2>16, <2>17, <2>18, <2>19
    DEF Handle
<1>2. CASE Exit  BY <1>2 DEF Exit
<1>3. CASE Remove  BY <1>3 DEF Remove
<1>4. ASSUME NEW c \in Call, RunScript(c) PROVE TypeOK'
  BY <1>4 DEF RunScript
<1>5. CASE UNCHANGED vars  BY <1>5 DEF vars
<1> QED  BY <1>1, <1>2, <1>3, <1>4, <1>5 DEF Next

(* Every variable always has its type. *)
THEOREM TypeCorrect == Spec => []TypeOK
<1>1. Init => TypeOK  BY CallAssumption DEF Init, TypeOK, Asking, Answers
<1> QED  BY <1>1, TypeStep, PTL DEF Spec

-----------------------------------------------------------------------------
Calls == [c \in Call |-> CallOf(pc[c])]

(* What a step of a call is to the object: a move of that call alone.    *)
LEMMA CallMoves ==
  ASSUME TypeOK, NEW c \in Call, NEW label, Goto(c, label), NEW to, CallOf(label) \in to
  PROVE  Life!Moves(c, CallOf(pc[c]), to)
<1>1. /\ Calls[c] = CallOf(pc[c]) /\ Calls'[c] = CallOf(label)
      /\ Calls' = [Calls EXCEPT ![c] = Calls'[c]]
  BY DEF TypeOK, Goto, Calls
<1> QED
  BY <1>1 DEF Life!Moves, Calls

(* A step that leaves the container alone, and with which c is answered by *)
(* an error, is a failure of c.                                          *)
LEMMA FailsOnly ==
  ASSUME TypeOK, NEW c \in Call, Goto(c, "error"), UNCHANGED <<box, dying>>,
         pc[c] \notin {"ok", "error"}
  PROVE  Life!Fail(c)
<1>1. CallOf(pc[c]) \in {"open", "acted"}
  BY DEF TypeOK, CallOf, Asking, Answers
<1>2. CallOf("error") = "error"
  BY DEF CallOf
<1> QED
  BY <1>1, <1>2, CallMoves DEF Life!Fail

(* A step that leaves the container alone and a call where it was to the *)
(* object is none of the object's.                                       *)
LEMMA Unseen ==
  ASSUME TypeOK, NEW c \in Call, NEW label, Goto(c, label), UNCHANGED <<box, dying>>,
         CallOf(label) = CallOf(pc[c])
  PROVE  UNCHANGED Life!vars
<1>1. Calls' = [Calls EXCEPT ![c] = Calls[c]]
  BY DEF TypeOK, Goto, Calls
<1>2. Calls' = Calls
  BY <1>1 DEF Calls
<1> QED
  BY <1>2 DEF Life!vars, Calls, LifeOf

(* Every act of the object moves its call.                               *)
LEMMA ActsMove ==
  ASSUME NEW c \in Call, Life!Act(c)
  PROVE  Life!Next
BY DEF Life!Act, Life!Condemn, Life!FindStopped, Life!Pause, Life!FindNotRunning, Life!Unpause,
       Life!FindResumed, Life!Ignore, Life!Fail, Life!Moves, Life!Next

(* Every step of a call is one of the object, or none.                   *)
LEMMA CallActs ==
  ASSUME TypeOK, NEW c \in Call, Handle(c)
  PROVE  Life!Act(c) \/ UNCHANGED Life!vars
<1> USE DEF boxVars
<1>1. CASE FindNode(c)
  <2>1. CASE Step(c, "asking")
    BY <1>1, <2>1, Unseen DEF FindNode, Step, CallOf
  <2>2. CASE Step(c, "ok") /\ Op[c] \in {"state", "pull"}
    BY <1>1, <2>2, CallMoves DEF FindNode, Step, CallOf, Life!Ignore, Life!Act
  <2>3. CASE Step(c, "error")
    BY <1>1, <2>3, FailsOnly DEF FindNode, Step, Life!Act
  <2> QED
    BY <1>1, <2>1, <2>2, <2>3 DEF FindNode
<1>2. CASE DaemonFails(c)
  <2>1. CASE Op[c] = "pull"
    BY <1>2, <2>1, CallMoves
    DEF DaemonFails, FailsAs, Asking, TypeOK, CallOf, Life!Ignore, Life!Act
  <2>2. CASE Op[c] # "pull"
    BY <1>2, <2>2, FailsOnly DEF DaemonFails, FailsAs, Asking, Life!Act
  <2> QED
    BY <2>1, <2>2
<1>3. CASE TimesOut(c)
  BY <1>3, Unseen DEF TimesOut, CallOf
<1>4. CASE Late(c)
  <2>1. ASSUME NEW to, "error" \in to
        PROVE  Life!Moves(c, CallOf(pc[c]), to)
    BY <1>4, <2>1, CallMoves DEF Late, CallOf
  <2>2. CASE pc[c] = "late" /\ Op[c] = "stop" /\ box \in {"running", "paused"} /\ Kill
    BY <2>1, <2>2 DEF Kill, CallOf, LifeOf, Life!Condemn, Life!Act
  <2>3. CASE pc[c] = "late" /\ Op[c] = "pause" /\ Pause
    BY <2>1, <2>3 DEF Pause, CallOf, LifeOf, Life!Pause, Life!Act
  <2>4. CASE pc[c] = "late" /\ Op[c] = "resume" /\ Unpause(c)
    BY <2>1, <2>4 DEF Unpause, CallOf, LifeOf, Life!Unpause, Life!Act
  <2>5. CASE pc[c] = "late exec" /\ Exec(c)
    BY <1>4, <2>5, FailsOnly DEF Late, Exec, Life!Act
  <2> QED
    BY <1>4, <2>2, <2>3, <2>4, <2>5 DEF Late
<1>5. CASE LateDropped(c)
  BY <1>5, FailsOnly DEF LateDropped, Step, Life!Act
<1>6. CASE NotFound(c)
  <2>1. CASE pc[c] = "asking" /\ Op[c] = "stop" /\ Step(c, "ok")
    BY <1>6, <2>1, CallMoves
    DEF NotFound, Step, CallOf, LifeOf, Life!FindStopped, Life!Act
  <2>2. CASE pc[c] \in {"asking", "unpaused", "created"} /\ Step(c, "error")
    BY <2>2, FailsOnly DEF Step, Life!Act
  <2> QED
    BY <1>6, <2>1, <2>2 DEF NotFound
<1>7. CASE Stop(c)
  BY <1>7, CallMoves DEF Stop, Kill, CallOf, LifeOf, Life!Condemn, Life!Act
<1>8. CASE Stopped(c)
  BY <1>8, CallMoves
  DEF Stopped, Step, TypeOK, CallOf, LifeOf, Life!FindStopped, Life!Act
<1>9. CASE PauseContainer(c)
  BY <1>9, CallMoves
  DEF PauseContainer, Pause, CallOf, LifeOf, Life!Pause, Life!Act
<1>10. CASE PauseConflict(c)
  BY <1>10, CallMoves
  DEF PauseConflict, Step, CallOf, LifeOf, Life!FindNotRunning, Life!Act
<1>11. CASE UnpauseContainer(c)
  BY <1>11, CallMoves
  DEF UnpauseContainer, Unpause, CallOf, LifeOf, Life!Unpause, Life!Act
<1>12. CASE UnpauseRefused(c)
  BY <1>12, FailsOnly DEF UnpauseRefused, Step, Life!Act
<1>13. CASE CreateExec(c)
  BY <1>13, Unseen DEF CreateExec, Step, CallOf
<1>14. CASE StartExec(c)
  BY <1>14, CallMoves
  DEF StartExec, Exec, TypeOK, CallOf, LifeOf, Life!FindResumed, Life!Act
<1>15. CASE ExecRefused(c)
  BY <1>15, FailsOnly DEF ExecRefused, Step, Life!Act
<1>16. CASE ListContainers(c)
  <2>1. CASE box \in {"running", "paused"}
    BY <1>16, <2>1, Unseen DEF ListContainers, Step, CallOf
  <2>2. CASE box \notin {"running", "paused"}
    BY <1>16, <2>2, CallMoves
    DEF ListContainers, Step, CallOf, Life!Ignore, Life!Act
  <2> QED
    BY <2>1, <2>2
<1>17. CASE Inspect(c)
  <2>1. CASE box = "removed"
    BY <1>17, <2>1, FailsOnly DEF Inspect, Step, Life!Act
  <2>2. CASE box # "removed"
    BY <1>17, <2>2, Unseen DEF Inspect, Step, CallOf
  <2> QED
    BY <2>1, <2>2
<1>18. CASE ReadImage(c)
  BY <1>18, CallMoves
  DEF ReadImage, Step, TypeOK, CallOf, Life!Ignore, Life!Act
<1>19. CASE PullImage(c)
  BY <1>19, CallMoves
  DEF PullImage, CallOf, Life!Ignore, Life!Act
<1> QED
  BY <1>1, <1>2, <1>3, <1>4, <1>5, <1>6, <1>7, <1>8, <1>9, <1>10, <1>11, <1>12, <1>13,
     <1>14, <1>15, <1>16, <1>17, <1>18, <1>19
  DEF Handle

(* NodeOps implements ContainerLife: stop, pause and resume act at most once *)
(* and in one moment, and their successes are true.                      *)
THEOREM ImplementsLife == Spec => ActsAtomically
<1>1. Init => Life!Init
  BY DEF Init, Life!Init, LifeOf, CallOf
<1>2. TypeOK /\ [Next]_vars => [Life!Next]_Life!vars
  <2> SUFFICES ASSUME TypeOK, [Next]_vars
               PROVE  [Life!Next]_Life!vars
    OBVIOUS
  <2>1. ASSUME NEW c \in Call, Handle(c)
        PROVE  [Life!Next]_Life!vars
    BY <2>1, CallActs, ActsMove
  <2>2. CASE Exit
    BY <2>2 DEF Exit, LifeOf, Life!End, Life!Next
  <2>3. CASE Remove
    BY <2>3 DEF Remove, LifeOf, Life!vars
  <2>4. ASSUME NEW c \in Call, RunScript(c)
        PROVE  UNCHANGED Life!vars
    BY <2>4 DEF RunScript, Life!vars
  <2>5. CASE UNCHANGED vars
    BY <2>5 DEF vars, boxVars, Life!vars
  <2> QED
    BY <2>1, <2>2, <2>3, <2>4, <2>5 DEF Next
<1> QED
  BY <1>1, <1>2, TypeCorrect, PTL DEF Spec, ActsAtomically, Life!Spec

(* A stop the object has answered with success has ended it: from its        *)
(* definition alone, and hence true of NodeOps, which implements it.     *)
THEOREM StopsAreFinal == Spec => []StopIsFinal
<1> DEFINE Final == \A c \in Call : Op[c] = "stop" /\ Calls[c] = "ok" => LifeOf(box) = "ended"
           Known == Calls \in [Call -> {"open", "acted", "ok", "error"}]
<1>1. Life!Init => Known /\ Final
  BY DEF Life!Init, Calls
<1>2. Known /\ Final /\ [Life!Next]_Life!vars => (Known /\ Final)'
  <2> SUFFICES ASSUME Known, Final, [Life!Next]_Life!vars
               PROVE  (Known /\ Final)'
    OBVIOUS
  <2>1. ASSUME NEW c \in Call, Life!Act(c)
        PROVE  (Known /\ Final)'
    BY <2>1 DEF Life!Act, Life!Condemn, Life!Pause, Life!Unpause, Life!FindStopped, Life!FindNotRunning,
                Life!FindResumed, Life!Ignore, Life!Fail, Life!Moves, Calls
  <2>2. CASE Life!End
    BY <2>2 DEF Life!End, Calls
  <2>3. CASE UNCHANGED Life!vars
    BY <2>3 DEF Life!vars, Calls
  <2> QED
    BY <2>1, <2>2, <2>3 DEF Life!Next
<1>3. TypeOK /\ Final => StopIsFinal
  BY DEF StopIsFinal, TypeOK, Calls, CallOf, LifeOf
<1> QED
  BY <1>1, <1>2, <1>3, TypeCorrect, ImplementsLife, PTL DEF ActsAtomically, Life!Spec

-----------------------------------------------------------------------------
(* Only an unpause makes the container run, and it notes the pauses before it. *)
LEMMA PauseStep == TypeOK /\ PausedStaysPaused /\ [Next]_vars => PausedStaysPaused'
<1> SUFFICES ASSUME TypeOK, PausedStaysPaused, [Next]_vars PROVE PausedStaysPaused'
  OBVIOUS
<1> USE CallAssumption DEF TypeOK, PausedStaysPaused, Paused, Goto, boxVars, Asking, Answers
<1>1. ASSUME NEW c \in Call, Handle(c) PROVE PausedStaysPaused'
  <2>1. CASE FindNode(c)  BY <2>1 DEF FindNode, Step
  <2>2. CASE DaemonFails(c)  BY <2>2 DEF DaemonFails, FailsAs
  <2>3. CASE TimesOut(c)  BY <2>3 DEF TimesOut
  <2>4. CASE Late(c)
    <3>1. CASE pc[c] = "late" /\ Op[c] = "stop" /\ Kill  BY <2>4, <3>1 DEF Late, Kill
    <3>2. CASE pc[c] = "late" /\ Op[c] = "pause" /\ Pause  BY <2>4, <3>2 DEF Late, Pause
    <3>3. CASE pc[c] = "late" /\ Op[c] = "resume" /\ Unpause(c)  BY <2>4, <3>3 DEF Late, Unpause
    <3>4. CASE pc[c] = "late exec" /\ Exec(c)  BY <2>4, <3>4 DEF Late, Exec
    <3> QED  BY <2>4, <3>1, <3>2, <3>3, <3>4 DEF Late
  <2>5. CASE LateDropped(c)  BY <2>5 DEF LateDropped, Step
  <2>6. CASE NotFound(c)  BY <2>6 DEF NotFound, Step
  <2>7. CASE Stop(c)  BY <2>7 DEF Stop, Kill
  <2>8. CASE Stopped(c)  BY <2>8 DEF Stopped, Step
  <2>9. CASE PauseContainer(c)  BY <2>9 DEF PauseContainer, Pause
  <2>10. CASE PauseConflict(c)  BY <2>10 DEF PauseConflict, Step
  <2>11. CASE UnpauseContainer(c)  BY <2>11 DEF UnpauseContainer, Unpause
  <2>12. CASE UnpauseRefused(c)  BY <2>12 DEF UnpauseRefused, Step
  <2>13. CASE CreateExec(c)  BY <2>13 DEF CreateExec, Step
  <2>14. CASE StartExec(c)  BY <2>14 DEF StartExec, Exec
  <2>15. CASE ExecRefused(c)  BY <2>15 DEF ExecRefused, Step
  <2>16. CASE ListContainers(c)  BY <2>16 DEF ListContainers, Step
  <2>17. CASE Inspect(c)  BY <2>17 DEF Inspect, Step
  <2>18. CASE ReadImage(c)  BY <2>18 DEF ReadImage, Step
  <2>19. CASE PullImage(c)  BY <2>19 DEF PullImage
  <2> QED
    BY <1>1, <2>1, <2>2, <2>3, <2>4, <2>5, <2>6, <2>7, <2>8, <2>9, <2>10, <2>11, <2>12, <2>13,
       <2>14, <2>15, <2>16, <2>17, <2>18, <2>19
    DEF Handle
<1>2. CASE Exit  BY <1>2 DEF Exit
<1>3. CASE Remove  BY <1>3 DEF Remove
<1>4. ASSUME NEW c \in Call, RunScript(c) PROVE PausedStaysPaused'
  BY <1>4 DEF RunScript
<1>5. CASE UNCHANGED vars  BY <1>5 DEF vars
<1> QED  BY <1>1, <1>2, <1>3, <1>4, <1>5 DEF Next

(* A container paused with success runs only after a resume.             *)
THEOREM PausedContainersStayPaused == Spec => []PausedStaysPaused
<1>1. Init => PausedStaysPaused  BY DEF Init, PausedStaysPaused, Paused
<1> QED  BY <1>1, TypeCorrect, PauseStep, PTL DEF Spec

-----------------------------------------------------------------------------
(* A pause overtakes every resume that may yet restart streamd, so at an     *)
(* unpause all the others are overtaken.                                 *)
LEMMA StreamStep == TypeOK /\ StreamInv /\ [Next]_vars => StreamInv'
<1> SUFFICES ASSUME TypeOK, StreamInv, [Next]_vars PROVE StreamInv'
  OBVIOUS
<1> USE CallAssumption DEF TypeOK, StreamInv, Resuming, Goto, boxVars, Asking, Answers
<1>1. ASSUME NEW c \in Call, Handle(c) PROVE StreamInv'
  <2>1. CASE FindNode(c)
    <3>1. PICK label \in {"asking", "ok", "error"} : pc[c] = "idle" /\ Step(c, label)
      BY <2>1 DEF FindNode
    <3> QED  BY <3>1 DEF Step
  <2>2. CASE DaemonFails(c)  BY <2>2 DEF DaemonFails, FailsAs
  <2>3. CASE TimesOut(c)
    <3>1. CASE pc[c] = "asking" /\ Goto(c, "late")  BY <2>3, <3>1 DEF TimesOut
    <3>2. CASE pc[c] = "created" /\ Goto(c, "late exec")  BY <2>3, <3>2 DEF TimesOut
    <3> QED  BY <2>3, <3>1, <3>2 DEF TimesOut
  <2>4. CASE Late(c)
    <3>1. CASE pc[c] = "late" /\ Op[c] = "stop" /\ Kill  BY <2>4, <3>1 DEF Late, Kill
    <3>2. CASE pc[c] = "late" /\ Op[c] = "pause" /\ Pause  BY <2>4, <3>2 DEF Late, Pause
    <3>3. CASE pc[c] = "late" /\ Op[c] = "resume" /\ Unpause(c)  BY <2>4, <3>3 DEF Late, Unpause
    <3>4. CASE pc[c] = "late exec" /\ Exec(c)  BY <2>4, <3>4 DEF Late, Exec
    <3> QED  BY <2>4, <3>1, <3>2, <3>3, <3>4 DEF Late
  <2>5. CASE LateDropped(c)  BY <2>5 DEF LateDropped, Step
  <2>6. CASE NotFound(c)
    <3>1. CASE pc[c] = "asking" /\ Op[c] = "stop" /\ Step(c, "ok")  BY <3>1 DEF Step
    <3>2. CASE pc[c] \in {"asking", "unpaused", "created"} /\ Step(c, "error")  BY <3>2 DEF Step
    <3> QED  BY <2>6, <3>1, <3>2 DEF NotFound
  <2>7. CASE Stop(c)  BY <2>7 DEF Stop, Kill
  <2>8. CASE Stopped(c)  BY <2>8 DEF Stopped, Step
  <2>9. CASE PauseContainer(c)  BY <2>9 DEF PauseContainer, Pause
  <2>10. CASE PauseConflict(c)  BY <2>10 DEF PauseConflict, Step
  <2>11. CASE UnpauseContainer(c)  BY <2>11 DEF UnpauseContainer, Unpause
  <2>12. CASE UnpauseRefused(c)  BY <2>12 DEF UnpauseRefused, Step
  <2>13. CASE CreateExec(c)  BY <2>13 DEF CreateExec, Step
  <2>14. CASE StartExec(c)  BY <2>14 DEF StartExec, Exec
  <2>15. CASE ExecRefused(c)  BY <2>15 DEF ExecRefused, Step
  <2>16. CASE ListContainers(c)  BY <2>16 DEF ListContainers, Step
  <2>17. CASE Inspect(c)  BY <2>17 DEF Inspect, Step
  <2>18. CASE ReadImage(c)  BY <2>18 DEF ReadImage, Step
  <2>19. CASE PullImage(c)  BY <2>19 DEF PullImage
  <2> QED
    BY <1>1, <2>1, <2>2, <2>3, <2>4, <2>5, <2>6, <2>7, <2>8, <2>9, <2>10, <2>11, <2>12, <2>13,
       <2>14, <2>15, <2>16, <2>17, <2>18, <2>19
    DEF Handle
<1>2. CASE Exit  BY <1>2 DEF Exit
<1>3. CASE Remove  BY <1>3 DEF Remove
<1>4. ASSUME NEW c \in Call, RunScript(c) PROVE StreamInv'
  BY <1>4 DEF RunScript
<1>5. CASE UNCHANGED vars  BY <1>5 DEF vars
<1> QED  BY <1>1, <1>2, <1>3, <1>4, <1>5 DEF Next

(* Whom a resumed container streams to is explained, although no answer tells *)
(* whether a script has run.                                             *)
THEOREM StreamIsExplained == Spec => []StreamExplained
<1>1. Init => StreamInv  BY DEF Init, StreamInv, Resuming
<1>2. TypeOK /\ StreamInv => StreamExplained  BY DEF TypeOK, StreamInv, StreamExplained
<1> QED  BY <1>1, <1>2, TypeCorrect, StreamStep, PTL DEF Spec

-----------------------------------------------------------------------------
(* The tag is taken only by a pull that is answered with it; so whatever   *)
(* makes a report fail is there to be seen when it does, and stays.      *)
TagInv == tagged \/ \E p \in Call : Op[p] = "pull" /\ pc[p] = "ok"
StateInv == StateFailsExplained /\ TagInv

LEMMA StateStep == TypeOK /\ StateInv /\ [Next]_vars => StateInv'
<1> SUFFICES ASSUME TypeOK, StateInv, [Next]_vars
             PROVE  StateInv'
  OBVIOUS
<1> USE CallAssumption DEF TypeOK, StateInv, StateFailsExplained, TagInv, Goto, boxVars, Asking, Answers
<1>1. ASSUME NEW c \in Call, Handle(c)
      PROVE  StateInv'
  <2>1. CASE FindNode(c)
    BY <2>1 DEF FindNode, Step
  <2>2. CASE DaemonFails(c)
    BY <2>2 DEF DaemonFails, FailsAs
  <2>3. CASE TimesOut(c) \/ LateDropped(c) \/ NotFound(c)
    BY <2>3 DEF TimesOut, LateDropped, NotFound, Step
  <2>4. CASE Stop(c) \/ Stopped(c) \/ PauseContainer(c) \/ PauseConflict(c)
    BY <2>4 DEF Stop, Kill, Stopped, PauseContainer, Pause, PauseConflict, Step
  <2>5. CASE UnpauseContainer(c) \/ UnpauseRefused(c) \/ CreateExec(c) \/ StartExec(c) \/ ExecRefused(c)
    BY <2>5 DEF UnpauseContainer, Unpause, UnpauseRefused, CreateExec, StartExec, Exec, ExecRefused, Step
  <2>6. CASE ListContainers(c) \/ Inspect(c)
    BY <2>6 DEF ListContainers, Inspect, Step
  <2>7. CASE ReadImage(c)
    BY <2>7 DEF ReadImage, Step
  <2>8. CASE PullImage(c)
    BY <2>8 DEF PullImage
  <2>9. CASE Late(c)
    <3>1. pc[c] \in {"late", "late exec"} /\ Goto(c, "error") /\ UNCHANGED <<tagged, failed>>
      BY <2>9 DEF Late, Kill, Pause, Unpause, Exec
    <3>2. Op[c] # "state" /\ (box' = box \/ box \in {"running", "paused"})
      BY <2>9 DEF Late, Kill, Pause, Unpause, Exec
    <3> QED
      BY <3>1, <3>2
  <2> QED
    BY <1>1, <2>1, <2>2, <2>3, <2>4, <2>5, <2>6, <2>7, <2>8, <2>9 DEF Handle
<1>2. CASE Exit \/ Remove \/ \E c \in Call : RunScript(c)
  BY <1>2 DEF Exit, Remove, RunScript
<1>3. CASE UNCHANGED vars
  BY <1>3 DEF vars
<1> QED
  BY <1>1, <1>2, <1>3 DEF Next

(* A report that fails was failed by the daemon, met a container that was *)
(* gone, or an image whose tag a pull had taken.                         *)
THEOREM StateFailuresExplained == Spec => []StateFailsExplained
<1>1. Init => StateInv
  BY DEF Init, StateInv, StateFailsExplained, TagInv
<1> QED
  BY <1>1, TypeCorrect, StateStep, PTL DEF Spec, StateInv
=============================================================================

---------------------------- MODULE ContainerLife ----------------------------
(***************************************************************************)
(* What a node promises about one container, without the requests a call *)
(* is made of, their time-outs and the errors that are taken for success: *)
(* the container is an object on which each call acts at most once, at one  *)
(* moment, and a success tells what was true of it at some moment.       *)
(*                                                                       *)
(* An answer of failure promises nothing: the call has acted, or has not, *)
(* or has at the moment it was given up.                                 *)
(***************************************************************************)
CONSTANTS Call, Op

VARIABLES
  life,    \* running, paused or ended
  doomed,  \* it is to end, also if paused
  call     \* call[c]: "open", "acted" (and not answered), "ok" or "error"

vars == <<life, doomed, call>>

Init == life = "running" /\ doomed = FALSE /\ call = [c \in Call |-> "open"]

(* c is at from, and goes to one of the places to. *)
Moves(c, from, to) ==
  /\ call[c] = from
  /\ call'[c] \in to
  /\ call' = [call EXCEPT ![c] = call'[c]]

(* The three kinds of calls that act. *)
Condemn(c) ==
  /\ Op[c] = "stop" /\ life # "ended"
  /\ Moves(c, "open", {"acted", "error"})
  /\ doomed' = TRUE
  /\ UNCHANGED life

Pause(c) ==
  /\ Op[c] = "pause" /\ life = "running"
  /\ Moves(c, "open", {"ok", "error"})
  /\ life' = "paused"
  /\ UNCHANGED doomed

Unpause(c) ==
  /\ Op[c] = "resume" /\ life = "paused"
  /\ Moves(c, "open", {"acted", "error"})
  /\ life' = "running"
  /\ UNCHANGED doomed

(* A success without an act of its own, or after it. *)
FindStopped(c) ==
  /\ Op[c] = "stop" /\ life = "ended"
  /\ Moves(c, "open", {"ok"}) \/ Moves(c, "acted", {"ok"})
  /\ UNCHANGED <<life, doomed>>

FindNotRunning(c) ==
  /\ Op[c] = "pause" /\ life # "running"
  /\ Moves(c, "open", {"ok"})
  /\ UNCHANGED <<life, doomed>>

FindResumed(c) ==
  /\ Op[c] = "resume" /\ life = "running"
  /\ Moves(c, "acted", {"ok"})
  /\ UNCHANGED <<life, doomed>>

(* Reports and pulls do nothing to the container. *)
Ignore(c) ==
  /\ Op[c] \in {"state", "pull"}
  /\ Moves(c, "open", {"ok", "error"})
  /\ UNCHANGED <<life, doomed>>

Fail(c) ==
  /\ Moves(c, "open", {"error"}) \/ Moves(c, "acted", {"error"})
  /\ UNCHANGED <<life, doomed>>

End ==
  /\ life = "running" \/ (life = "paused" /\ doomed)
  /\ life' = "ended"
  /\ UNCHANGED <<doomed, call>>

Act(c) ==
  \/ Condemn(c) \/ FindStopped(c)
  \/ Pause(c) \/ FindNotRunning(c)
  \/ Unpause(c) \/ FindResumed(c)
  \/ Ignore(c) \/ Fail(c)

(* The container ends, or one call moves. *)
Next ==
  \/ End
  \/ \E c \in Call : call'[c] # call[c] /\ Act(c)

Spec == Init /\ [][Next]_vars
=============================================================================

--------------------------- MODULE LoggerLifecycle ---------------------------
(***************************************************************************)
(* What the logger promises its callers, without its sinks or its loops: a *)
(* reference-counted service.  A caller that acquired it may emit; the     *)
(* service stops only when every reference was given back and no call is   *)
(* still emitting; emitting without a reference kills the process.         *)
(***************************************************************************)
EXTENDS Naturals

CONSTANTS
  Threads,    \* the threads of the process
  MaxInits    \* bound on the references held at a time

VARIABLES
  refs,       \* references held: successful inits not yet given back
  emitting,   \* the threads inside a log call
  dead        \* the process was aborted

lifecycleVars == <<refs, emitting, dead>>

Init ==
  /\ refs = 0
  /\ emitting = {}
  /\ dead = FALSE

Acquire ==
  /\ ~dead
  /\ refs < MaxInits
  /\ emitting = {}
  /\ refs' = refs + 1
  /\ UNCHANGED <<emitting, dead>>

Release ==
  /\ ~dead
  /\ refs > 0
  /\ emitting = {}
  /\ refs' = refs - 1
  /\ UNCHANGED <<emitting, dead>>

BeginEmit(t) ==
  /\ ~dead
  /\ refs > 0
  /\ t \notin emitting
  /\ emitting' = emitting \cup {t}
  /\ UNCHANGED <<refs, dead>>

EndEmit(t) ==
  /\ ~dead
  /\ t \in emitting
  /\ emitting' = emitting \ {t}
  /\ UNCHANGED <<refs, dead>>

EmitUnreferenced ==
  /\ ~dead
  /\ refs = 0
  /\ dead' = TRUE
  /\ UNCHANGED <<refs, emitting>>

Next ==
  \/ Acquire
  \/ Release
  \/ EmitUnreferenced
  \/ \E t \in Threads : BeginEmit(t) \/ EndEmit(t)

Spec == Init /\ [][Next]_lifecycleVars
=============================================================================

------------------------------- MODULE TaskJob -------------------------------
(***************************************************************************)
(* What ThreadPool promises the thread that owns it: a job is a set of     *)
(* tasks; each of them is executed exactly once, in any order, and only    *)
(* then does the owner get its future back.                                *)
(***************************************************************************)
CONSTANT Task

VARIABLES
  phase, \* "idle", or "running" from processWorkload() to the end of wait()
  todo   \* the tasks of the job that were not executed yet

vars == <<phase, todo>>

Init == phase = "idle" /\ todo = {}

Submit(S) ==
  /\ phase = "idle"
  /\ S # {}
  /\ todo' = S
  /\ phase' = "running"

Execute(t) ==
  /\ phase = "running"
  /\ t \in todo
  /\ todo' = todo \ {t}
  /\ UNCHANGED phase

Collect ==
  /\ phase = "running"
  /\ todo = {}
  /\ phase' = "idle"
  /\ UNCHANGED todo

Next ==
  \/ \E S \in SUBSET Task : Submit(S)
  \/ \E t \in Task : Execute(t)
  \/ Collect

SafeSpec == Init /\ [][Next]_vars

\* A job that was submitted runs to its end.
Spec == SafeSpec /\ WF_vars(\E t \in Task : Execute(t)) /\ WF_vars(Collect)
=============================================================================

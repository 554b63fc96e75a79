---------------------------- MODULE TaskBarrier ----------------------------
(***************************************************************************)
(* What AsyncTaskTracker promises its clients (async_task_tracker.h): tasks *)
(* report from any thread, in any order; when all of them have, the        *)
(* registered callback runs, once, and is told whether any of them came to *)
(* a usable end.                                                           *)
(***************************************************************************)
CONSTANTS
  Task,      \* the tasks that are waited for
  Outcome,   \* what a task may report
  Usable,    \* the outcomes that make the whole worth continuing
  Failed,    \* the outcome that alone does not
  Unreported \* a task that is not over

VARIABLES
  outcome,   \* Task -> Outcome or Unreported
  fired,     \* the callback has run
  verdict    \* the argument it was given

vars == <<outcome, fired, verdict>>

Init ==
  /\ outcome = [t \in Task |-> Unreported]
  /\ fired = FALSE /\ verdict = FALSE

Report(t) ==
  /\ outcome[t] = Unreported /\ ~fired
  /\ \E s \in Outcome : outcome' = [outcome EXCEPT ![t] = s]
  /\ UNCHANGED <<fired, verdict>>

(* Usable when some task is, or when none failed: then all were cancelled. *)
Fire ==
  /\ ~fired /\ \A t \in Task : outcome[t] # Unreported
  /\ fired' = TRUE
  /\ verdict' = \/ \E t \in Task : outcome[t] \in Usable
                \/ \A t \in Task : outcome[t] # Failed
  /\ UNCHANGED outcome

Next == (\E t \in Task : Report(t)) \/ Fire

Spec == Init /\ [][Next]_vars
=============================================================================

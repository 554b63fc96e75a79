--------------------------- MODULE TrackerProtocol ---------------------------
(***************************************************************************)
(* AsyncTaskTracker under its mutex (services/common/util).  The owner     *)
(* creates the tracker with a first guess of the number of tasks, sets the *)
(* real number and starts them; each task calls TaskCompleted once, from a *)
(* thread of its own.  The caller that brings the count to zero leaves the *)
(* critical section and runs on_all_tasks_done_, which may delete the      *)
(* tracker: no other caller may still be on its way in.                    *)
(***************************************************************************)
EXTENDS AsyncTaskTracker, FiniteSets

CONSTANTS
  Task,        \* the tasks the owner starts
  FirstGuess,  \* the count given to the constructor
  Unreported,  \* status of a task that has not reported
  Free         \* value of lock when nobody holds the mutex

ASSUME TrackerAssumption ==
  /\ IsFiniteSet(Task) /\ Task # {}
  /\ FirstGuess \in Nat
  /\ Unreported \notin TaskStatus
  /\ Free \notin Task

VARIABLES
  tracker,   \* the counters
  started,   \* SetNumTasksToTrack was called with the real number
  pc,        \* Task -> running, locked, leaving, over
  lock,      \* mu_: its holder or Free
  effects,   \* tasks whose on_single_task_done closure has run
  last,      \* tasks that saw is_last_response
  reported,  \* Task -> the status it reported, or Unreported
  calls,     \* how often on_all_tasks_done_ was run
  any        \* any_successful_tasks, of the caller that saw is_last_response

vars == <<tracker, started, pc, lock, effects, last, reported, calls, any>>

Init ==
  /\ tracker = SetNumTasksToTrack(FirstGuess) /\ started = FALSE
  /\ pc = [t \in Task |-> "running"] /\ lock = Free
  /\ effects = {} /\ last = {}
  /\ reported = [t \in Task |-> Unreported]
  /\ calls = 0 /\ any = FALSE

(* The owner sets the number of tasks before it starts the first of them. *)
StartTasks ==
  /\ ~started /\ started' = TRUE
  /\ tracker' = SetNumTasksToTrack(Cardinality(Task))
  /\ UNCHANGED <<pc, lock, effects, last, reported, calls, any>>

(* TaskCompleted takes the mutex and runs the closure the task brought. *)
Enter(t) ==
  /\ started /\ pc[t] = "running" /\ lock = Free
  /\ lock' = t /\ pc' = [pc EXCEPT ![t] = "locked"]
  /\ effects' = effects \cup {t}
  /\ UNCHANGED <<tracker, started, last, reported, calls, any>>

(* It counts the task, looks whether it was the last, gives the mutex back. *)
Count(t, s) ==
  /\ pc[t] = "locked" /\ lock' = Free
  /\ tracker' = TaskCompleted(tracker, s)
  /\ IF IsLastResponse(tracker')
     THEN last' = last \cup {t} /\ any' = AnyTaskSuccessfullyCompleted(tracker')
     ELSE UNCHANGED <<last, any>>
  /\ pc' = [pc EXCEPT ![t] = "leaving"]
  /\ reported' = [reported EXCEPT ![t] = s]
  /\ UNCHANGED <<started, effects, calls>>

(* Outside the mutex: return, or run on_all_tasks_done_. *)
Leave(t) ==
  /\ pc[t] = "leaving" /\ pc' = [pc EXCEPT ![t] = "over"]
  /\ calls' = IF t \in last THEN calls + 1 ELSE calls
  /\ UNCHANGED <<tracker, started, lock, effects, last, reported, any>>

Done == (\A t \in Task : pc[t] = "over") /\ UNCHANGED vars

Next ==
  \/ StartTasks
  \/ \E t \in Task : Enter(t) \/ (\E s \in TaskStatus : Count(t, s)) \/ Leave(t)
  \/ Done

(* Every task reports: the threads run, and mu_ is held for a few steps. *)
Fairness ==
  /\ WF_vars(StartTasks)
  /\ \A t \in Task : /\ SF_vars(Enter(t)) /\ WF_vars(Leave(t))
                     /\ WF_vars(\E s \in TaskStatus : Count(t, s))

Spec == Init /\ [][Next]_vars

FairSpec == Spec /\ Fairness

-----------------------------------------------------------------------------
(* Properties. *)

TypeOK ==
  /\ tracker \in Tracker /\ started \in BOOLEAN
  /\ pc \in [Task -> {"running", "locked", "leaving", "over"}]
  /\ lock \in Task \cup {Free}
  /\ effects \subseteq Task /\ last \subseteq Task
  /\ reported \in [Task -> TaskStatus \cup {Unreported}]
  /\ calls \in Nat /\ any \in BOOLEAN

(* on_all_tasks_done_ "can delete AsyncTaskTracker itself": it runs at most  *)
(* once, and when it has run no task is still on its way to the mutex or     *)
(* inside it, and every task's closure has taken effect.                     *)
CallbackIsLast ==
  /\ calls <= 1
  /\ calls > 0 => /\ \A t \in Task : pc[t] \in {"leaving", "over"}
                  /\ effects = Task

(* The DCHECK of TaskCompleted and the one of AnyTaskSuccessfullyCompleted:  *)
(* a caller in the critical section finds a task pending, and no task is     *)
(* counted twice or lost.                                                    *)
CountersAgree ==
  /\ \A t \in Task : pc[t] = "locked" => tracker.pending > 0
  /\ SumMatches(tracker)

Barrier == INSTANCE TaskBarrier WITH
  Outcome <- TaskStatus, Usable <- {"SUCCESS", "EMPTY_RESPONSE", "SKIPPED"},
  Failed <- "ERROR", outcome <- reported, fired <- (calls > 0),
  verdict <- (calls > 0 /\ any)

(* The tracker implements TaskBarrier: the verdict worked out from counters, *)
(* outside the tasks' own threads, is the one the tasks' statuses deserve.   *)
ImplementsBarrier == Barrier!Spec

(* The callback is not forgotten, whatever order the threads report in. *)
CallbackRuns == <>(calls = 1)

-----------------------------------------------------------------------------
(* The inductive invariant behind them. *)

Reporters(s) == {t \in Task : reported[t] = s}

MutexInv == \A t \in Task : pc[t] = "locked" <=> lock = t

PcInv ==
  \A t \in Task : /\ pc[t] \in {"running", "locked"} <=> reported[t] = Unreported
                  /\ pc[t] # "running" => started /\ t \in effects

CountInv ==
  started => /\ tracker.num = Cardinality(Task)
             /\ tracker.pending = Cardinality(Reporters(Unreported))
             /\ \A s \in TaskStatus : tracker.count[s] = Cardinality(Reporters(s))

(* The last task is one task, and is the one whose report left none. *)
LastInv ==
  /\ \A t, u \in last : t = u
  /\ \A t \in last : reported[t] # Unreported
  /\ last # {} <=> (started /\ Reporters(Unreported) = {})

CallInv ==
  calls = IF \E t \in last : pc[t] = "over" THEN 1 ELSE 0

AnyInv == last # {} => (any <=> AnyTaskSuccessfullyCompleted(tracker))

Inv ==
  /\ TypeOK /\ MutexInv /\ PcInv /\ CountInv /\ LastInv /\ CallInv /\ AnyInv
  /\ CountersAgree
=============================================================================

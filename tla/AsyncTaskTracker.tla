-------------------------- MODULE AsyncTaskTracker --------------------------
(***************************************************************************)
(* The counter a reactor uses to learn that its last outstanding task is   *)
(* over (services/common/util/async_task_tracker).  A tracker is a record: *)
(* the number of tasks it was set up for, how many have not reported, and  *)
(* how many reported each status.  Reactors keep trackers in their own     *)
(* variables; TrackerProtocol adds the threads that race for its mutex.    *)
(***************************************************************************)
EXTENDS Integers

(* What a task may report. *)
TaskStatus == {"SUCCESS", "EMPTY_RESPONSE", "SKIPPED", "ERROR", "CANCELLED"}

Tracker == [num : Nat, pending : Nat, count : [TaskStatus -> Nat]]

(* The constructor, and SetNumTasksToTrack: every counter starts over. *)
SetNumTasksToTrack(n) ==
  [num |-> n, pending |-> n, count |-> [s \in TaskStatus |-> 0]]

(* The part of TaskCompleted that runs under the mutex. *)
TaskCompleted(t, status) ==
  [num |-> t.num, pending |-> t.pending - 1,
   count |-> [t.count EXCEPT ![status] = @ + 1]]

(* Mutant: the last but one caller takes itself for the last. *)
IsLastResponseEarly(t) == t.pending <= 1

(* Mutant: nobody recognises the end. *)
IsLastResponseNever(t) == t.pending < 0

(* The caller that brings the count to zero runs on_all_tasks_done_. *)
IsLastResponse(t) == t.pending = 0

(* Mutant: errors count as a usable end. *)
AnyTaskCompleted(t) ==
  \/ t.count["SUCCESS"] > 0
  \/ t.count["EMPTY_RESPONSE"] > 0 \/ t.count["SKIPPED"] > 0
  \/ t.count["ERROR"] >= 0

(* The argument on_all_tasks_done_ gets.  Empty and skipped tasks may stand *)
(* for chaff; when every task was cancelled the answer is TRUE as well.     *)
AnyTaskSuccessfullyCompleted(t) ==
  \/ t.count["SUCCESS"] > 0
  \/ t.count["EMPTY_RESPONSE"] > 0 \/ t.count["SKIPPED"] > 0
  \/ t.count["ERROR"] = 0

(* The DCHECK_EQ of AnyTaskSuccessfullyCompleted: no task was lost. *)
SumMatches(t) ==
  t.num = t.pending + t.count["SUCCESS"] + t.count["EMPTY_RESPONSE"]
          + t.count["SKIPPED"] + t.count["ERROR"] + t.count["CANCELLED"]
=============================================================================

------------------------ MODULE TrackerProtocol_proofs ------------------------
(***************************************************************************)
(* Proofs about TrackerProtocol, for every finite set of tasks.  The       *)
(* counters are tied to the tasks' own states by CountInv (how many tasks  *)
(* reported what); everything else follows from "the count is zero exactly *)
(* when no task is unreported".                                            *)
(***************************************************************************)
EXTENDS TrackerProtocol, Lemmas, FiniteSetTheorems, TLAPS

(* Sets of tasks are finite. *)
LEMMA ReportersFinite ==
  ASSUME NEW s
  PROVE  IsFiniteSet(Reporters(s)) /\ Cardinality(Reporters(s)) \in Nat
<1>1. Reporters(s) \in SUBSET Task
  BY DEF Reporters
<1> QED BY <1>1, TrackerAssumption, FS_Subset, FS_CardinalityType

(* How the sets of reporters change when task t reports status s. *)
LEMMA ReportMovesTask ==
  ASSUME TypeOK, NEW t \in Task, NEW s \in TaskStatus,
         reported[t] = Unreported, reported' = [reported EXCEPT ![t] = s]
  PROVE  /\ Cardinality(Reporters(Unreported)') = Cardinality(Reporters(Unreported)) - 1
         /\ \A u \in TaskStatus : Cardinality(Reporters(u)') =
              IF u = s THEN Cardinality(Reporters(u)) + 1 ELSE Cardinality(Reporters(u))
<1>1. s # Unreported /\ t \in Reporters(Unreported)
  BY TrackerAssumption DEF Reporters
<1>2. Reporters(Unreported)' = Reporters(Unreported) \ {t}
  BY <1>1 DEF Reporters, TypeOK
<1>3. Cardinality(Reporters(Unreported)') = Cardinality(Reporters(Unreported)) - 1
  BY <1>1, <1>2, ReportersFinite, FS_RemoveElement
<1>4. ASSUME NEW u \in TaskStatus
      PROVE  Cardinality(Reporters(u)') =
               IF u = s THEN Cardinality(Reporters(u)) + 1 ELSE Cardinality(Reporters(u))
  <2>1. t \notin Reporters(u)
    BY TrackerAssumption DEF Reporters
  <2>2. CASE u = s
    <3>1. Reporters(u)' = Reporters(u) \cup {t}
      BY <2>2 DEF Reporters, TypeOK
    <3> QED BY <2>1, <2>2, <3>1, ReportersFinite, FS_AddElement
  <2>3. CASE u # s
    <3>1. Reporters(u)' = Reporters(u)
      BY <2>1, <2>3 DEF Reporters, TypeOK
    <3> QED BY <2>3, <3>1
  <2> QED BY <2>2, <2>3
<1> QED BY <1>3, <1>4

-----------------------------------------------------------------------------
(* The initial state: nothing has started, nobody is in the mutex. *)
LEMMA InitInv == Init => Inv
<1> SUFFICES ASSUME Init PROVE Inv
  OBVIOUS
<1>1. TypeOK /\ CountersAgree
  BY TrackerAssumption, FreshTracker DEF Init, TypeOK, CountersAgree
<1>2. MutexInv /\ PcInv /\ CountInv /\ CallInv /\ AnyInv
  BY TrackerAssumption DEF Init, MutexInv, PcInv, CountInv, CallInv, AnyInv
<1>3. LastInv
  BY DEF Init, LastInv
<1> QED BY <1>1, <1>2, <1>3 DEF Inv

(* Setting the real number keeps the invariant: no task has run yet. *)
LEMMA StartTasksInv == Inv /\ StartTasks => Inv'
<1> SUFFICES ASSUME Inv, StartTasks PROVE Inv'
  OBVIOUS
<1> USE DEF Inv
<1>1. Cardinality(Task) \in Nat
  BY TrackerAssumption, FS_CardinalityType
<1>2. TypeOK' /\ CountersAgree'
  <2>1. tracker' \in Tracker /\ SumMatches(tracker')
    BY <1>1, FreshTracker DEF StartTasks
  <2>2. \A t \in Task : pc[t] # "locked"
    BY DEF StartTasks, PcInv, TypeOK
  <2> QED BY <2>1, <2>2 DEF StartTasks, TypeOK, CountersAgree
<1>3. MutexInv' /\ CallInv' /\ PcInv'
  BY DEF StartTasks, MutexInv, CallInv, PcInv
<1>4. /\ \A t \in Task : reported[t] = Unreported
      /\ Reporters(Unreported)' = Task
      /\ \A s \in TaskStatus : Reporters(s)' = {}
  <2>1. \A t \in Task : reported[t] = Unreported
    BY DEF StartTasks, PcInv, TypeOK
  <2> QED BY <2>1, TrackerAssumption DEF Reporters, StartTasks
<1>5. CountInv'
  <2>1. /\ tracker'.num = Cardinality(Task) /\ tracker'.pending = Cardinality(Task)
        /\ \A s \in TaskStatus : tracker'.count[s] = 0
    BY DEF StartTasks, SetNumTasksToTrack
  <2> QED BY <1>4, <2>1, FS_EmptySet DEF CountInv
<1>6. LastInv' /\ AnyInv'
  <2>1. last' = {}
    BY DEF StartTasks, LastInv
  <2> QED BY <1>4, <2>1, TrackerAssumption DEF LastInv, AnyInv
<1> QED BY <1>2, <1>3, <1>5, <1>6

(* Entering the mutex changes no counter; the caller was still unreported. *)
LEMMA EnterInv == ASSUME NEW t \in Task, Inv, Enter(t) PROVE Inv'
<1> USE DEF Inv
<1>1. TypeOK'
  BY DEF Enter, TypeOK
<1>2. MutexInv'
  BY TrackerAssumption DEF Enter, MutexInv, TypeOK
<1>3. PcInv'
  BY DEF Enter, PcInv, TypeOK
<1>4. t \in Reporters(Unreported) /\ Reporters(Unreported)' = Reporters(Unreported)
  BY DEF Enter, PcInv, Reporters
<1>5. tracker.pending > 0
  BY <1>4, ReportersFinite, FS_EmptySet DEF Enter, CountInv
<1>6. CountersAgree'
  BY <1>5 DEF Enter, CountersAgree, TypeOK, SumMatches
<1>7. CountInv'
  BY DEF Enter, CountInv, Reporters
<1>8. LastInv' /\ CallInv' /\ AnyInv'
  <2>1. last = {} /\ last' = {}
    BY <1>4 DEF Enter, LastInv
  <2> QED BY <1>4, <2>1 DEF Enter, LastInv, CallInv, AnyInv
<1> QED BY <1>1, <1>2, <1>3, <1>6, <1>7, <1>8

(* Counting a task: the last one is the one that leaves nobody unreported. *)
LEMMA CountStepInv ==
  ASSUME NEW t \in Task, NEW s \in TaskStatus, Inv, Count(t, s) PROVE Inv'
<1> USE DEF Inv
<1>1. /\ reported[t] = Unreported /\ started /\ lock = t
      /\ reported' = [reported EXCEPT ![t] = s] /\ s # Unreported
  BY TrackerAssumption DEF Count, PcInv, MutexInv
<1>2. /\ tracker' \in Tracker /\ SumMatches(tracker')
      /\ tracker'.num = tracker.num /\ tracker'.pending = tracker.pending - 1
      /\ \A u \in TaskStatus : tracker'.count[u] =
           IF u = s THEN tracker.count[u] + 1 ELSE tracker.count[u]
  BY CountedTracker DEF Count, TypeOK, CountersAgree
<1>3. CountInv'
  BY <1>1, <1>2, ReportMovesTask DEF Count, CountInv
<1>4. t \in Reporters(Unreported) /\ last = {}
  BY <1>1 DEF Reporters, LastInv
<1>5. IsLastResponse(tracker') <=> Reporters(Unreported)' = {}
  <2>1. tracker'.pending = Cardinality(Reporters(Unreported)')
    BY <1>1, <1>3 DEF CountInv, Count
  <2>2. IsFiniteSet(Reporters(Unreported)')
    <3>1. Reporters(Unreported)' \in SUBSET Task
      BY DEF Reporters
    <3> QED BY <3>1, TrackerAssumption, FS_Subset
  <2> QED BY <2>1, <2>2, FS_EmptySet DEF IsLastResponse
<1>6. LastInv'
  <2>1. last' \subseteq {t}
    BY <1>4 DEF Count
  <2>2. reported'[t] # Unreported
    BY <1>1 DEF TypeOK
  <2>3. last' # {} <=> Reporters(Unreported)' = {}
    BY <1>4, <1>5 DEF Count
  <2> QED BY <1>1, <2>1, <2>2, <2>3 DEF LastInv, Count
<1>7. TypeOK'
  <2>1. any' \in BOOLEAN
    BY <1>2 DEF Count, TypeOK, AnyTaskSuccessfullyCompleted
  <2> QED BY <1>2, <2>1 DEF Count, TypeOK
<1>8. MutexInv'
  BY <1>1, TrackerAssumption DEF Count, MutexInv, TypeOK
<1>9. PcInv'
  BY <1>1 DEF Count, PcInv, TypeOK
<1>10. CallInv'
  BY <1>4 DEF Count, CallInv, TypeOK
<1>11. AnyInv'
  <2>1. CASE IsLastResponse(tracker')
    <3>1. any' = AnyTaskSuccessfullyCompleted(tracker')
      BY <2>1 DEF Count
    <3> QED BY <3>1 DEF AnyInv, AnyTaskSuccessfullyCompleted
  <2>2. CASE ~IsLastResponse(tracker')
    <3>1. last' = {}
      BY <1>4, <2>2 DEF Count
    <3> QED BY <3>1 DEF AnyInv
  <2> QED BY <2>1, <2>2
<1>12. CountersAgree'
  <2>1. \A u \in Task : pc'[u] # "locked"
    BY <1>1 DEF Count, MutexInv, TypeOK
  <2> QED BY <1>2, <2>1 DEF CountersAgree
<1> QED BY <1>3, <1>6, <1>7, <1>8, <1>9, <1>10, <1>11, <1>12

(* Leaving: only the one last task runs the callback. *)
LEMMA LeaveInv == ASSUME NEW t \in Task, Inv, Leave(t) PROVE Inv'
<1> USE DEF Inv
<1>1. TypeOK'
  BY DEF Leave, TypeOK
<1>2. MutexInv' /\ PcInv'
  BY DEF Leave, MutexInv, PcInv, TypeOK
<1>3. CountInv' /\ LastInv' /\ AnyInv'
  BY DEF Leave, CountInv, LastInv, AnyInv, Reporters, AnyTaskSuccessfullyCompleted
<1>4. CountersAgree'
  BY DEF Leave, CountersAgree, TypeOK, SumMatches
<1>5. CallInv'
  <2>1. CASE t \in last
    <3>1. last = {t}
      BY <2>1 DEF LastInv
    <3>2. calls = 0 /\ calls' = 1
      BY <2>1, <3>1 DEF Leave, CallInv, TypeOK
    <3> QED BY <3>1, <3>2 DEF Leave, CallInv, TypeOK
  <2>2. CASE t \notin last
    BY <2>2 DEF Leave, CallInv, TypeOK
  <2> QED BY <2>1, <2>2
<1> QED BY <1>1, <1>2, <1>3, <1>4, <1>5

LEMMA StutterInv == Inv /\ UNCHANGED vars => Inv'
BY DEF vars, Inv, TypeOK, MutexInv, PcInv, CountInv, LastInv, CallInv, AnyInv,
       CountersAgree, Reporters, SumMatches, AnyTaskSuccessfullyCompleted

LEMMA NextInv == Inv /\ [Next]_vars => Inv'
<1> SUFFICES ASSUME Inv, [Next]_vars PROVE Inv'
  OBVIOUS
<1>1. CASE StartTasks
  BY <1>1, StartTasksInv
<1>2. ASSUME NEW t \in Task, Enter(t) PROVE Inv'
  BY <1>2, EnterInv
<1>3. ASSUME NEW t \in Task, NEW s \in TaskStatus, Count(t, s) PROVE Inv'
  BY <1>3, CountStepInv
<1>4. ASSUME NEW t \in Task, Leave(t) PROVE Inv'
  BY <1>4, LeaveInv
<1>5. CASE UNCHANGED vars
  BY <1>5, StutterInv
<1> QED BY <1>1, <1>2, <1>3, <1>4, <1>5 DEF Next, Done

(* Type correctness, the counters and the mutex of AsyncTaskTracker, for     *)
(* every number of tasks and every first guess.                              *)
THEOREM Invariance == Spec => []Inv
BY InitInv, NextInv, PTL DEF Spec

(* Every state of the tracker is well typed. *)
THEOREM TypeCorrect == Spec => []TypeOK
<1>1. Inv => TypeOK
  BY DEF Inv
<1> QED BY <1>1, Invariance, PTL

(* Neither DCHECK of AsyncTaskTracker can fail. *)
THEOREM CountersAlwaysAgree == Spec => []CountersAgree
<1>1. Inv => CountersAgree
  BY DEF Inv
<1> QED BY <1>1, Invariance, PTL

(* on_all_tasks_done_ runs at most once, after the last use of the tracker   *)
(* by any other task, so that it may delete the tracker.                     *)
THEOREM CallbackRunsLast == Spec => []CallbackIsLast
<1>1. ASSUME Inv PROVE CallbackIsLast
  <2> USE <1>1 DEF Inv
  <2>1. calls <= 1
    BY DEF CallInv
  <2>2. ASSUME calls > 0
        PROVE  (\A t \in Task : pc[t] \in {"leaving", "over"}) /\ effects = Task
    <3>1. last # {}
      BY <2>2 DEF CallInv
    <3>2. Reporters(Unreported) = {}
      BY <3>1 DEF LastInv
    <3>3. \A t \in Task : pc[t] \notin {"running", "locked"}
      BY <3>2 DEF Reporters, PcInv
    <3> QED BY <3>3 DEF PcInv, TypeOK
  <2> QED BY <2>1, <2>2 DEF CallbackIsLast
<1> QED BY <1>1, Invariance, PTL

-----------------------------------------------------------------------------
(* The counters and the tasks' statuses give the same verdict. *)
LEMMA VerdictAgrees ==
  ASSUME Inv, started
  PROVE  AnyTaskSuccessfullyCompleted(tracker) <=>
           \/ \E t \in Task : reported[t] \in {"SUCCESS", "EMPTY_RESPONSE", "SKIPPED"}
           \/ \A t \in Task : reported[t] # "ERROR"
<1>1. ASSUME NEW s \in TaskStatus
      PROVE  /\ tracker.count[s] \in Nat
             /\ tracker.count[s] = 0 <=> \A t \in Task : reported[t] # s
  <2>1. tracker.count[s] = Cardinality(Reporters(s))
    BY DEF Inv, CountInv
  <2>2. Reporters(s) = {} <=> \A t \in Task : reported[t] # s
    BY DEF Reporters
  <2> QED BY <2>1, <2>2, ReportersFinite, FS_EmptySet
<1>2. {"SUCCESS", "EMPTY_RESPONSE", "SKIPPED", "ERROR"} \subseteq TaskStatus
  BY DEF TaskStatus
<1> QED BY <1>1, <1>2 DEF AnyTaskSuccessfullyCompleted

(* A step of the tracker is a step of the barrier or changes nothing it sees. *)
LEMMA StepRefines ==
  ASSUME Inv, [Next]_vars PROVE [Barrier!Next]_(Barrier!vars)
<1> USE DEF Inv
<1>0. calls \in Nat /\ (calls > 0 => last # {})
  BY DEF TypeOK, CallInv
<1>1. CASE StartTasks \/ UNCHANGED vars
  BY <1>1 DEF StartTasks, vars, Barrier!vars
<1>2. ASSUME NEW t \in Task, Enter(t) PROVE UNCHANGED Barrier!vars
  BY <1>2 DEF Enter, Barrier!vars
<1>3. ASSUME NEW t \in Task, NEW s \in TaskStatus, Count(t, s)
      PROVE  Barrier!Report(t)
  <2>1. reported[t] = Unreported
    BY <1>3 DEF Count, PcInv
  <2>2. last = {}
    BY <2>1 DEF LastInv, Reporters
  <2>3. calls = 0 /\ calls' = 0
    BY <1>0, <1>3, <2>2 DEF Count
  <2>4. ~(calls > 0) /\ ~(calls' > 0)
    BY <2>3
  <2>5. (calls' > 0) = (calls > 0) /\ (calls' > 0 /\ any') = (calls > 0 /\ any)
    BY <2>4
  <2>6. reported' = [reported EXCEPT ![t] = s]
    BY <1>3 DEF Count
  <2> QED BY <2>1, <2>4, <2>5, <2>6 DEF Barrier!Report
<1>4. ASSUME NEW t \in Task, Leave(t) PROVE Barrier!Fire \/ UNCHANGED Barrier!vars
  <2>1. CASE t \in last
    <3>1. last = {t} /\ pc[t] = "leaving" /\ started
      BY <1>4, <2>1 DEF LastInv, Leave
    <3>2. calls = 0 /\ calls' = 1
      BY <1>4, <2>1, <3>1 DEF Leave, CallInv
    <3>3. \A u \in Task : reported[u] # Unreported
      BY <2>1 DEF LastInv, Reporters
    <3>4. any <=> \/ \E u \in Task : reported[u] \in {"SUCCESS", "EMPTY_RESPONSE", "SKIPPED"}
                 \/ \A u \in Task : reported[u] # "ERROR"
      BY <2>1, <3>1, VerdictAgrees DEF AnyInv
    <3>5. any' = any /\ any \in BOOLEAN /\ reported' = reported
      BY <1>4 DEF Leave, TypeOK
    <3>6. ~(calls > 0) /\ (calls' > 0) = TRUE
      BY <3>2
    <3> QED BY <3>3, <3>4, <3>5, <3>6 DEF Barrier!Fire
  <2>2. CASE t \notin last
    BY <1>4, <2>2 DEF Leave, Barrier!vars
  <2> QED BY <2>1, <2>2
<1> QED BY <1>1, <1>2, <1>3, <1>4 DEF Next, Done, Barrier!Next

(* The tracker implements TaskBarrier: its callback runs at most once, after *)
(* every task has reported, with the verdict the reports deserve.            *)
THEOREM TrackerRefinesBarrier == Spec => ImplementsBarrier
<1>1. Init => Barrier!Init
  BY DEF Init, Barrier!Init
<1> QED BY <1>1, Invariance, StepRefines, PTL DEF Spec, ImplementsBarrier, Barrier!Spec
=============================================================================

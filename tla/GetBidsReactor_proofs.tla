----------------------- MODULE GetBidsReactor_proofs ------------------------
(***************************************************************************)
(* Proofs about GetBidsReactor, for every setting and request.  The        *)
(* argument: the tracker waits for at least as many reports as there are   *)
(* branches that still owe one, so the last report comes when no branch is *)
(* out; and a call that a missing client ended keeps one report that never *)
(* comes, so the tracker cannot end it again.                              *)
(***************************************************************************)
EXTENDS GetBidsReactor, Lemmas, FiniteSetTheorems, SequenceTheorems,
        TLAPS

(* The settings and the fields of a request. *)
LEMMA ConfigIsTyped ==
  ASSUME conf \in Configs
  PROVE  /\ conf.cancellation \in BOOLEAN /\ conf.paEnabled \in BOOLEAN
         /\ conf.pasEnabled \in BOOLEAN /\ conf.igs \in BOOLEAN
         /\ conf.pasInput \in {"none", "hollow", "signals"}
BY GetBidsAssumption DEF ConfigType

(* A branch reports to the tracker. *)
LEMMA Reported ==
  ASSUME TypeOK, SumMatches(tracker), tracker.pending > 0, NEW st \in TaskStatus,
         TaskDone(st)
  PROVE  /\ tracker' \in Tracker /\ SumMatches(tracker')
         /\ tracker'.num = tracker.num /\ tracker'.pending = tracker.pending - 1
         /\ \A u \in TaskStatus : tracker'.count[u] =
              IF u = st THEN tracker.count[u] + 1 ELSE tracker.count[u]
         /\ tracker'.pending = 0 =>
              flow' = "tasksDone" /\ anyOk' = AnyTaskSuccessfullyCompleted(tracker')
         /\ tracker'.pending # 0 => flow' = flow /\ anyOk' = anyOk
         /\ anyOk' \in BOOLEAN
<1>1. tracker' = TaskCompleted(tracker, st) /\ tracker \in Tracker
  BY DEF TaskDone, TypeOK
<1>2. /\ tracker' \in Tracker /\ SumMatches(tracker')
      /\ tracker'.num = tracker.num /\ tracker'.pending = tracker.pending - 1
      /\ \A u \in TaskStatus : tracker'.count[u] =
           IF u = st THEN tracker.count[u] + 1 ELSE tracker.count[u]
  BY <1>1, CountedTracker
<1>3. AnyTaskSuccessfullyCompleted(tracker') \in BOOLEAN
  BY DEF AnyTaskSuccessfullyCompleted
<1>4. /\ tracker'.pending = 0 =>
           flow' = "tasksDone" /\ anyOk' = AnyTaskSuccessfullyCompleted(tracker')
      /\ tracker'.pending # 0 => flow' = flow /\ anyOk' = anyOk
  BY DEF TaskDone, IsLastResponse
<1>5. anyOk' \in BOOLEAN
  BY <1>3, <1>4 DEF TypeOK
<1> QED BY <1>2, <1>4, <1>5

(* Finish, called for the first time. *)
LEMMA FirstFinish ==
  ASSUME finish = <<>>, NEW st \in Codes, FinishWithStatus(st)
  PROVE  finish' = <<st>> /\ finish' \in Seq(Codes) /\ finish' # <<>> /\ Len(finish') = 1
BY DEF FinishWithStatus

(* An active branch makes the tracker's next report a legal one. *)
LEMMA ActiveIsAwaited ==
  ASSUME Inv, PaActive \/ PasActive
  PROVE  tracker.pending > 0 /\ SumMatches(tracker) /\ flow = "idle" /\ query = "idle"
<1>1. /\ TypeOK /\ ReportsAreAwaited /\ CallHasOneOwner /\ ResponseIsCounted
  BY DEF Inv
<1>2. tracker.pending \in Nat
  BY <1>1 DEF TypeOK, Tracker
<1>3. tracker.pending > 0
  BY <1>1, <1>2 DEF ReportsAreAwaited, ActiveBranches
<1> QED BY <1>1, <1>2, <1>3 DEF CallHasOneOwner, ResponseIsCounted, TypeOK

-----------------------------------------------------------------------------
(* The steps. *)

LEMMA InitInv == Init => Inv
<1> SUFFICES ASSUME Init PROVE Inv
  OBVIOUS
<1>1. /\ SetNumTasksToTrack(1) \in Tracker /\ SumMatches(SetNumTasksToTrack(1))
      /\ SetNumTasksToTrack(1).num = 1 /\ SetNumTasksToTrack(1).pending = 1
      /\ SetNumTasksToTrack(1).count["SUCCESS"] = 0
  BY FreshTracker DEF SetNumTasksToTrack, TaskStatus
<1>2. TypeOK
  <2>1. cancelled \in BOOLEAN /\ anyOk \in BOOLEAN /\ deleted \in BOOLEAN
    BY Zenon DEF Init
  <2> QED BY <1>1, <2>1 DEF Init, TypeOK, Rpc
<1>3. FinishAtMostOnce /\ BranchesInOrder
  BY DEF Init, FinishAtMostOnce, BranchesInOrder
<1>4. ~PaActive /\ ~PasActive
  BY DEF Init, PaActive, PasActive
<1>5. ReportsAreAwaited /\ CallHasOneOwner
  BY <1>1, <1>4 DEF Init, ReportsAreAwaited, ActiveBranches, CallHasOneOwner
<1>6. ResponseIsCounted
  <2>1. Cardinality(response) = 0
    BY FS_EmptySet, Zenon DEF Init
  <2> QED BY <1>1, <2>1 DEF Init, ResponseIsCounted
<1> QED BY <1>2, <1>3, <1>5, <1>6 DEF Inv

(* A step that starts no branch, ends none, and leaves the tracker alone. *)
LEMMA Bystanders ==
  ASSUME Inv, UNCHANGED <<conf, pa, pas, response, tracker>>,
         main' = main \/ (main = "start" /\ main' = "returned"),
         kv' = kv \/ (kv = "tail" /\ kv' = "done")
  PROVE  /\ ReportsAreAwaited' /\ ResponseIsCounted'
         /\ (PaActive' => PaActive) /\ (PasActive' => PasActive)
<1>1. TypeOK /\ ReportsAreAwaited /\ BranchesInOrder /\ ResponseIsCounted
  BY DEF Inv
<1>2. (PaActive' => PaActive) /\ (PasActive' => PasActive)
  BY DEF PaActive, PasActive
<1>3. tracker.pending \in Nat
  BY <1>1 DEF TypeOK, Tracker
<1> QED BY <1>1, <1>2, <1>3 DEF ReportsAreAwaited, ActiveBranches, ResponseIsCounted

(* A party that finds the call not ended, with no branch out, ends it. *)
LEMMA EndStep ==
  ASSUME Inv, finish = <<>>, NEW st \in Codes, FinishWithStatus(st),
         UNCHANGED <<conf, cancelled, kv, pa, pas, response, tracker, anyOk, deleted>>,
         main' = main \/ (main = "start" /\ main' = "returned"), main' \notin {"start", "pa"},
         flow' = "idle", query' \in {query, "done"}, query' # "sent",
         query' = "done" => query # "idle",
         timer' \in {timer, "done"}, timer' # "set", timer' = "done" => conf.chaff,
         ~PaActive, ~PasActive,
         st = "OK" /\ ~conf.chaff =>
           tracker.pending = 0 /\ AnyTaskSuccessfullyCompleted(tracker)
  PROVE  Inv'
<1>0. TypeOK /\ BranchesInOrder /\ CallHasOneOwner
  BY DEF Inv
<1>1. finish' = <<st>> /\ finish' \in Seq(Codes) /\ finish' # <<>> /\ Len(finish') = 1
  BY FirstFinish
<1>2. finish' = <<"OK">> => st = "OK"
  BY <1>1
<1>3. /\ ReportsAreAwaited' /\ ResponseIsCounted' /\ ~PaActive' /\ ~PasActive'
  BY Bystanders
<1>4. TypeOK' /\ FinishAtMostOnce'
  BY <1>0, <1>1 DEF TypeOK, FinishAtMostOnce, Rpc
<1>5. BranchesInOrder'
  BY <1>0 DEF BranchesInOrder
<1>6. CallHasOneOwner'
  BY <1>0, <1>1, <1>2, <1>3 DEF CallHasOneOwner
<1> QED BY <1>3, <1>4, <1>5, <1>6 DEF Inv

(* Execute refuses the call, sets the timer of a chaff request, or sets up   *)
(* the tracker for the branches that were counted.                           *)
LEMMA ExecuteInv == Inv /\ Execute => Inv'
<1> SUFFICES ASSUME Inv, Execute PROVE Inv'
  OBVIOUS
<1>0. /\ TypeOK /\ ReportsAreAwaited /\ BranchesInOrder /\ CallHasOneOwner
      /\ ResponseIsCounted /\ FinishAtMostOnce
  BY DEF Inv
<1>1. /\ main = "start"
      /\ UNCHANGED <<conf, cancelled, flow, anyOk, kv, pa, pas, query, response, deleted>>
  BY DEF Execute
<1>2. /\ kv = "idle" /\ pa = "idle" /\ pas = "idle" /\ flow = "idle" /\ query = "idle"
      /\ finish = <<>> /\ ~PaActive /\ ~PasActive
      /\ timer = "idle"
  BY <1>0, <1>1 DEF BranchesInOrder, PaActive, PasActive
<1>3. CASE /\ \E st \in {"CANCELLED", "INVALID_ARGUMENT", "INTERNAL"} : FinishWithStatus(st)
           /\ main' = "returned" /\ UNCHANGED <<tracker, timer>>
  <2>1. PICK st \in {"CANCELLED", "INVALID_ARGUMENT", "INTERNAL"} : FinishWithStatus(st)
    BY <1>3
  <2>2. st \in Codes /\ st # "OK"
    BY DEF Codes
  <2> QED BY <1>1, <1>2, <1>3, <2>1, <2>2, EndStep
<1>4. CASE /\ conf.chaff /\ timer' = "set" /\ main' = "returned"
           /\ UNCHANGED <<tracker, finish>>
  <2>1. /\ ReportsAreAwaited' /\ ResponseIsCounted' /\ ~PaActive' /\ ~PasActive'
    BY <1>1, <1>2, <1>4, Bystanders
  <2>2. TypeOK' /\ FinishAtMostOnce' /\ BranchesInOrder'
    BY <1>0, <1>1, <1>2, <1>4 DEF TypeOK, FinishAtMostOnce, BranchesInOrder
  <2>3. CallHasOneOwner'
    BY <1>0, <1>1, <1>2, <1>4, <2>1 DEF CallHasOneOwner
  <2> QED BY <2>1, <2>2, <2>3 DEF Inv
<1>5. CASE /\ ~conf.chaff /\ GetNumberOfMaximumBiddingCalls > 0
           /\ tracker' = SetNumTasksToTrack(GetNumberOfMaximumBiddingCalls)
           /\ main' = "pa" /\ UNCHANGED <<finish, timer>>
  <2>1. GetNumberOfMaximumBiddingCalls \in 1 .. 2
    BY <1>5 DEF GetNumberOfMaximumBiddingCalls
  <2>2. /\ tracker' \in Tracker /\ SumMatches(tracker')
        /\ tracker'.num = GetNumberOfMaximumBiddingCalls
        /\ tracker'.pending = GetNumberOfMaximumBiddingCalls
        /\ tracker'.count["SUCCESS"] = 0
    BY <1>5, <2>1, FreshTracker DEF SetNumTasksToTrack, TaskStatus
  <2>3. /\ TypeOK' /\ FinishAtMostOnce' /\ BranchesInOrder'
    BY <1>0, <1>1, <1>2, <1>5, <2>2 DEF TypeOK, FinishAtMostOnce, BranchesInOrder
  <2>4. ReportsAreAwaited'
    BY <1>1, <1>2, <1>5, <2>1, <2>2
    DEF ReportsAreAwaited, ActiveBranches, PaActive, PasActive,
        GetNumberOfMaximumBiddingCalls
  <2>5. CallHasOneOwner'
    BY <1>0, <1>1, <1>2, <1>5 DEF CallHasOneOwner
  <2>6. ResponseIsCounted'
    <3>1. response = {}
      BY <1>0, <1>2 DEF ResponseIsCounted, TypeOK
    <3>2. response' = {}
      BY <1>1, <3>1
    <3>3. Cardinality(response') = 0
      BY <3>2, FS_EmptySet, Zenon
    <3> QED BY <2>2, <3>2, <3>3 DEF ResponseIsCounted
  <2> QED BY <2>3, <2>4, <2>5, <2>6 DEF Inv
<1> QED BY <1>3, <1>4, <1>5 DEF Execute, ExecuteChaffRequest

(* What a step of the PA branch, which owes its report, may do: report,      *)
(* move on, be given up, or end a call that has no V2 client.                *)
LEMMA PaStep ==
  ASSUME Inv, PaActive, pa = "idle",
         UNCHANGED <<conf, cancelled, pas, query, timer, response, deleted>>,
         main' = IF main = "pa" THEN "pas" ELSE main,
         \/ /\ \E st \in TaskStatus \ {"SUCCESS"} : TaskDone(st)
            /\ kv' \in {"idle", "tail", "done"} /\ (kv' = "tail" => conf.kvLog)
            /\ pa' = pa /\ finish' = finish
         \/ /\ UNCHANGED <<tracker, flow, anyOk, finish>>
            /\ \/ kv' \in {"v1", "v2", "done"} /\ pa' = pa
               \/ kv' \in {"idle", "done"} /\ pa' = "sent"
            /\ kv' = "v2" => conf.kvClient
         \/ /\ UNCHANGED <<tracker, flow, anyOk>> /\ FinishWithStatus("INTERNAL")
            /\ ~conf.kvClient /\ conf.lookup # "V1" /\ kv' = "done" /\ pa' = pa
  PROVE  Inv'
<1>0. /\ TypeOK /\ ReportsAreAwaited /\ BranchesInOrder /\ CallHasOneOwner
      /\ ResponseIsCounted /\ FinishAtMostOnce
  BY DEF Inv
<1>1. /\ finish = <<>> /\ ~conf.chaff /\ main \notin {"start"} /\ timer = "idle"
      /\ main' \in {"pas", "returned"} /\ ~deleted
  BY <1>0 DEF BranchesInOrder, CallHasOneOwner, PaActive, TypeOK
<1>2. tracker.pending > 0 /\ SumMatches(tracker) /\ flow = "idle" /\ query = "idle"
  BY ActiveIsAwaited
<1>3. PasActive' <=> PasActive
  BY <1>0, <1>1 DEF PasActive, BranchesInOrder
<1>4. /\ tracker.pending \in Nat /\ tracker.num \in Nat
      /\ tracker.num > 0 /\ tracker.pending >= 1 + (IF PasActive THEN 1 ELSE 0)
  BY <1>0 DEF TypeOK, Tracker, ReportsAreAwaited, ActiveBranches
<1>5. BranchesInOrder'
  BY <1>0, <1>1, <1>2 DEF BranchesInOrder
<1>6. CASE /\ \E st \in TaskStatus \ {"SUCCESS"} : TaskDone(st)
           /\ kv' \in {"idle", "tail", "done"} /\ pa' = pa /\ finish' = finish
  <2>1. PICK st \in TaskStatus \ {"SUCCESS"} : TaskDone(st)
    BY <1>6
  <2>2. /\ tracker' \in Tracker /\ SumMatches(tracker')
        /\ tracker'.num = tracker.num /\ tracker'.pending = tracker.pending - 1
        /\ \A u \in TaskStatus : tracker'.count[u] =
             IF u = st THEN tracker.count[u] + 1 ELSE tracker.count[u]
        /\ tracker'.pending = 0 =>
             flow' = "tasksDone" /\ anyOk' = AnyTaskSuccessfullyCompleted(tracker')
        /\ tracker'.pending # 0 => flow' = flow /\ anyOk' = anyOk
        /\ anyOk' \in BOOLEAN
    BY <1>0, <1>2, <2>1, Reported
  <2>3. tracker'.count["SUCCESS"] = tracker.count["SUCCESS"]
    BY <2>2 DEF TaskStatus
  <2>4. ~PaActive'
    BY <1>1, <1>6 DEF PaActive
  <2>5. TypeOK' /\ FinishAtMostOnce'
    BY <1>0, <1>1, <1>2, <1>6, <2>2 DEF TypeOK, FinishAtMostOnce
  <2>6. ReportsAreAwaited'
    BY <1>3, <1>4, <2>2, <2>4 DEF ReportsAreAwaited, ActiveBranches
  <2>7. CallHasOneOwner'
    BY <1>0, <1>1, <1>2, <1>6, <2>2 DEF CallHasOneOwner
  <2>8. ResponseIsCounted'
    BY <1>0, <1>6, <2>2, <2>3 DEF ResponseIsCounted
  <2> QED BY <1>5, <2>5, <2>6, <2>7, <2>8 DEF Inv
<1>7. CASE UNCHANGED <<tracker, flow, anyOk>>
  <2>1. /\ TypeOK' /\ FinishAtMostOnce'
    <3>1. finish' \in Seq(Codes) /\ Len(finish') <= 1
      <4>1. CASE finish' = finish
        <5>1. finish' = <<>>
          BY <1>1, <4>1
        <5> QED BY <5>1, EmptySeq
      <4>2. CASE FinishWithStatus("INTERNAL")
        <5>1. "INTERNAL" \in Codes
          BY DEF Codes
        <5>2. finish' \in Seq(Codes) /\ Len(finish') = 1
          BY <1>1, <4>2, <5>1, FirstFinish
        <5> QED BY <5>2
      <4> QED BY <4>1, <4>2
    <3>2. kv' \in {"idle", "v1", "v2", "tail", "done"} /\ pa' \in {"idle", "sent"}
      OBVIOUS
    <3> QED BY <1>0, <1>1, <1>7, <3>1, <3>2 DEF TypeOK, FinishAtMostOnce, Rpc
  <2>2. ReportsAreAwaited'
    BY <1>3, <1>4, <1>7 DEF ReportsAreAwaited, ActiveBranches
  <2>3. CallHasOneOwner'
    <3>1. CASE finish' = finish
      BY <1>0, <1>1, <1>2, <1>7, <3>1 DEF CallHasOneOwner
    <3>2. CASE /\ FinishWithStatus("INTERNAL") /\ ~conf.kvClient /\ conf.lookup # "V1"
               /\ kv' = "done" /\ pa' = pa
      <4>1. finish' # <<>> /\ finish' # <<"OK">>
        BY <1>1, <3>2, FirstFinish DEF Codes
      <4>2. ~PaActive'
        BY <1>1, <3>2 DEF PaActive
      <4> QED BY <1>0, <1>1, <1>2, <1>3, <1>4, <1>7, <3>2, <4>1, <4>2 DEF CallHasOneOwner
    <3> QED BY <1>0, <1>1, <1>2, <1>4, <1>7, <3>1, <3>2
  <2>4. ResponseIsCounted'
    BY <1>0, <1>7 DEF ResponseIsCounted
  <2> QED BY <1>5, <2>1, <2>2, <2>3, <2>4 DEF Inv
<1> QED BY <1>6, <1>7

(* The outcomes of the two operators the PA branch is made of. *)
LEMMA PrepareOutcomes ==
  ASSUME NEW s \in {"ok", "empty", "bad"}, PrepareAndGenerateProtectedAudienceBid(s)
  PROVE  \/ (\E st \in TaskStatus \ {"SUCCESS"} : TaskDone(st)) /\ pa' = pa
         \/ pa' = "sent" /\ UNCHANGED <<tracker, flow, anyOk>>
<1>1. "ERROR" \in TaskStatus \ {"SUCCESS"} /\ "EMPTY_RESPONSE" \in TaskStatus \ {"SUCCESS"}
  BY DEF TaskStatus
<1>2. \/ (TaskDone("EMPTY_RESPONSE") \/ TaskDone("ERROR")) /\ pa' = pa
      \/ pa' = "sent" /\ UNCHANGED <<tracker, flow, anyOk>>
  <2>1. CASE s = "empty"
    BY <2>1 DEF PrepareAndGenerateProtectedAudienceBid, taskVars
  <2>2. CASE s # "empty"
    BY <2>2 DEF PrepareAndGenerateProtectedAudienceBid, taskVars
  <2> QED BY <2>1, <2>2
<1> QED BY <1>1, <1>2

LEMMA V2Outcomes ==
  ASSUME MayGetProtectedAudienceBidsV2
  PROVE  \/ /\ \E st \in TaskStatus \ {"SUCCESS"} : TaskDone(st)
            /\ kv' = "done" /\ finish' = finish
         \/ /\ UNCHANGED <<tracker, flow, anyOk, finish>> /\ kv' \in {"v2", "done"}
            /\ kv' = "v2" => conf.kvClient
         \/ /\ UNCHANGED <<tracker, flow, anyOk>> /\ FinishWithStatus("INTERNAL")
            /\ ~conf.kvClient /\ kv' = "done"
<1>1. "ERROR" \in TaskStatus \ {"SUCCESS"}
  BY DEF TaskStatus
<1> QED BY <1>1 DEF MayGetProtectedAudienceBidsV2, taskVars

(* The handler starts the PA branch, when there is one. *)
LEMMA MayGetProtectedAudienceBidsInv == Inv /\ MayGetProtectedAudienceBids => Inv'
<1> SUFFICES ASSUME Inv, MayGetProtectedAudienceBids PROVE Inv'
  OBVIOUS
<1>0. /\ TypeOK /\ ReportsAreAwaited /\ BranchesInOrder /\ CallHasOneOwner
      /\ ResponseIsCounted /\ FinishAtMostOnce
  BY DEF Inv
<1>1. /\ main = "pa" /\ main' = "pas"
      /\ UNCHANGED <<conf, cancelled, pas, query, timer, response, deleted>>
  BY DEF MayGetProtectedAudienceBids
<1>2. kv = "idle" /\ pa = "idle" /\ pas = "idle" /\ finish = <<>> /\ flow = "idle"
  BY <1>0, <1>1 DEF BranchesInOrder
<1>3. CASE ~conf.paEnabled \/ ~conf.igs
  <2>1. UNCHANGED <<tracker, flow, anyOk, kv, pa, finish>>
    BY <1>3 DEF MayGetProtectedAudienceBids, taskVars
  <2>2. TypeOK' /\ FinishAtMostOnce' /\ BranchesInOrder' /\ ResponseIsCounted'
    BY <1>0, <1>1, <1>2, <2>1 DEF TypeOK, FinishAtMostOnce, BranchesInOrder,
                                  ResponseIsCounted
  <2>3. /\ PaActive' => PaActive
        /\ PasActive' <=> PasActive
        /\ tracker.pending \in Nat
    BY <1>0, <1>1, <1>2, <2>1 DEF PaActive, PasActive, TypeOK, Tracker
  <2>4. ReportsAreAwaited' /\ CallHasOneOwner'
    BY <1>0, <1>1, <1>2, <2>1, <2>3 DEF ReportsAreAwaited, ActiveBranches,
                                        CallHasOneOwner
  <2> QED BY <2>2, <2>4 DEF Inv
<1>4. CASE conf.paEnabled /\ conf.igs
  <2>1. PaActive /\ main' = IF main = "pa" THEN "pas" ELSE main
    BY <1>1, <1>4 DEF PaActive
  <2>2. CASE PrepareAndGenerateProtectedAudienceBid("empty") /\ UNCHANGED <<kv, finish>>
    BY <1>1, <1>2, <2>1, <2>2, PrepareOutcomes, PaStep
  <2>3. CASE conf.lookup = "V2" /\ MayGetProtectedAudienceBidsV2 /\ UNCHANGED pa
    BY <1>1, <1>2, <2>1, <2>3, V2Outcomes, PaStep
  <2>4. CASE kv' = "v1" /\ UNCHANGED <<tracker, flow, anyOk, pa, finish>>
    BY <1>1, <1>2, <2>1, <2>4, PaStep
  <2> QED BY <1>4, <2>2, <2>3, <2>4 DEF MayGetProtectedAudienceBids, taskVars
<1> QED BY <1>0, <1>3, <1>4, ConfigIsTyped DEF TypeOK

(* The lookups call back. *)
LEMMA OnBiddingSignalsInv ==
  ASSUME Inv, OnBiddingSignalsV1 \/ OnBiddingSignalsV2
  PROVE  Inv'
<1>0. TypeOK /\ BranchesInOrder
  BY DEF Inv
<1>1. /\ kv \in {"v1", "v2"} /\ main' = main
      /\ UNCHANGED <<conf, cancelled, pas, query, timer, response, deleted>>
  BY DEF OnBiddingSignalsV1, OnBiddingSignalsV2
<1>2. PaActive /\ pa = "idle" /\ main' = IF main = "pa" THEN "pas" ELSE main
  BY <1>0, <1>1 DEF PaActive, BranchesInOrder
<1>3. {"CANCELLED", "ERROR"} \subseteq TaskStatus \ {"SUCCESS"}
  BY DEF TaskStatus
<1>4. CASE /\ TaskDone("CANCELLED") \/ TaskDone("ERROR")
           /\ kv' \in {"tail", "done"} /\ (kv' = "tail" => conf.kvLog)
           /\ UNCHANGED <<pa, finish>>
  BY <1>1, <1>2, <1>3, <1>4, PaStep
<1>5. CASE conf.lookup = "hybrid" /\ MayGetProtectedAudienceBidsV2 /\ UNCHANGED pa
  BY <1>1, <1>2, <1>5, V2Outcomes, PaStep
<1>6. CASE /\ \E s \in {"ok", "empty", "bad"} : PrepareAndGenerateProtectedAudienceBid(s)
           /\ kv' = "done" /\ UNCHANGED finish
  BY <1>1, <1>2, <1>6, PrepareOutcomes, PaStep
<1>7. CASE OnBiddingSignalsV1
  BY <1>4, <1>5, <1>6, <1>7 DEF OnBiddingSignalsV1
<1>8. CASE OnBiddingSignalsV2
  BY <1>4, <1>6, <1>8 DEF OnBiddingSignalsV2
<1> QED BY <1>7, <1>8

(* The handler starts the PAS branch, when there is one, and returns. *)
LEMMA MayGetProtectedSignalsBidsInv == Inv /\ MayGetProtectedSignalsBids => Inv'
<1> SUFFICES ASSUME Inv, MayGetProtectedSignalsBids PROVE Inv'
  OBVIOUS
<1>0. /\ TypeOK /\ ReportsAreAwaited /\ BranchesInOrder /\ CallHasOneOwner
      /\ ResponseIsCounted /\ FinishAtMostOnce
  BY DEF Inv
<1>1. /\ main = "pas" /\ main' = "returned"
      /\ UNCHANGED <<conf, cancelled, kv, pa, query, timer, response, finish, deleted>>
  BY DEF MayGetProtectedSignalsBids
<1>2. pas = "idle" /\ ~conf.chaff /\ timer = "idle" /\ ~deleted
  BY <1>0, <1>1 DEF BranchesInOrder, CallHasOneOwner
<1>3. /\ PaActive' <=> PaActive
      /\ tracker.pending \in Nat /\ tracker.num \in Nat
  BY <1>0, <1>1 DEF PaActive, TypeOK, Tracker
<1>4. FinishAtMostOnce'
  BY <1>0, <1>1 DEF FinishAtMostOnce
<1>5. CASE UNCHANGED <<tracker, flow, anyOk, pas>>
  <2>1. ~PasActive'
    BY <1>1, <1>2, <1>5 DEF PasActive
  <2>2. TypeOK' /\ BranchesInOrder' /\ ResponseIsCounted'
    BY <1>0, <1>1, <1>5, <1>2 DEF TypeOK, BranchesInOrder, ResponseIsCounted
  <2>3. ReportsAreAwaited' /\ CallHasOneOwner'
    BY <1>0, <1>1, <1>2, <1>3, <1>5, <2>1 DEF ReportsAreAwaited, ActiveBranches,
                                              CallHasOneOwner
  <2> QED BY <1>4, <2>2, <2>3 DEF Inv
<1>6. CASE conf.pasEnabled /\ conf.pasInput = "signals" /\ TaskDone("ERROR") /\ UNCHANGED pas
  <2>0. PasActive /\ ~PasActive'
    BY <1>1, <1>2, <1>6 DEF PasActive
  <2>1. tracker.pending > 0 /\ SumMatches(tracker) /\ flow = "idle" /\ query = "idle"
    BY <2>0, ActiveIsAwaited
  <2>2. /\ tracker' \in Tracker /\ SumMatches(tracker')
        /\ tracker'.num = tracker.num /\ tracker'.pending = tracker.pending - 1
        /\ \A u \in TaskStatus : tracker'.count[u] =
             IF u = "ERROR" THEN tracker.count[u] + 1 ELSE tracker.count[u]
        /\ tracker'.pending = 0 =>
             flow' = "tasksDone" /\ anyOk' = AnyTaskSuccessfullyCompleted(tracker')
        /\ tracker'.pending # 0 => flow' = flow /\ anyOk' = anyOk
        /\ anyOk' \in BOOLEAN
    BY <1>0, <1>6, <2>1, Reported DEF TaskStatus
  <2>3. tracker'.count["SUCCESS"] = tracker.count["SUCCESS"]
    BY <2>2 DEF TaskStatus
  <2>4. TypeOK' /\ BranchesInOrder' /\ ResponseIsCounted'
    BY <1>0, <1>1, <1>2, <1>6, <2>1, <2>2, <2>3
    DEF TypeOK, BranchesInOrder, ResponseIsCounted
  <2>5. ReportsAreAwaited'
    BY <1>0, <1>3, <2>0, <2>2 DEF ReportsAreAwaited, ActiveBranches
  <2>6. CallHasOneOwner'
    BY <1>0, <1>1, <1>2, <1>3, <2>0, <2>1, <2>2 DEF CallHasOneOwner
  <2> QED BY <1>4, <2>4, <2>5, <2>6 DEF Inv
<1>7. CASE /\ conf.pasEnabled /\ conf.pasInput = "signals" /\ pas' = "sent"
           /\ UNCHANGED <<tracker, flow, anyOk>>
  <2>1. PasActive /\ PasActive'
    BY <1>1, <1>7 DEF PasActive
  <2>2. TypeOK' /\ BranchesInOrder' /\ ResponseIsCounted'
    BY <1>0, <1>1, <1>2, <1>7 DEF TypeOK, BranchesInOrder, ResponseIsCounted, Rpc
  <2>3. ReportsAreAwaited' /\ CallHasOneOwner'
    BY <1>0, <1>1, <1>2, <1>3, <1>7, <2>1 DEF ReportsAreAwaited, ActiveBranches,
                                              CallHasOneOwner
  <2> QED BY <1>4, <2>2, <2>3 DEF Inv
<1> QED BY <1>5, <1>6, <1>7 DEF MayGetProtectedSignalsBids, taskVars

(* A branch's bids arrive: its report is counted and its bids are kept. *)
LEMMA BidsArrive ==
  ASSUME Inv, NEW kind \in {"pa", "pas"}, HandleSingleBidCompletion(kind),
         \/ kind = "pa" /\ pa = "sent" /\ pa' = "done" /\ pas' = pas
         \/ kind = "pas" /\ pas = "sent" /\ pas' = "done" /\ pa' = pa,
         UNCHANGED <<conf, cancelled, main, kv, query, timer, finish, deleted>>
  PROVE  Inv'
<1>0. /\ TypeOK /\ ReportsAreAwaited /\ BranchesInOrder /\ CallHasOneOwner
      /\ ResponseIsCounted /\ FinishAtMostOnce
  BY DEF Inv
<1>1. /\ main \notin {"start", "pa"} /\ ~conf.chaff /\ timer = "idle"
      /\ kind = "pas" => main = "returned"
  BY <1>0 DEF BranchesInOrder, TypeOK
<1>2. /\ kind = "pa" => PaActive /\ ~PaActive' /\ (PasActive' <=> PasActive)
      /\ kind = "pas" => PasActive /\ ~PasActive' /\ (PaActive' <=> PaActive)
  BY <1>0, <1>1 DEF PaActive, PasActive, BranchesInOrder
<1>3. tracker.pending > 0 /\ SumMatches(tracker) /\ flow = "idle" /\ query = "idle"
  BY <1>2, ActiveIsAwaited
<1>4. kind \notin response
  BY <1>0 DEF ResponseIsCounted
<1>5. PICK st \in TaskStatus :
        /\ TaskDone(st)
        /\ IF st = "SUCCESS" THEN response' = response \cup {kind}
                             ELSE response' = response
  BY DEF HandleSingleBidCompletion, TaskStatus
<1>6. /\ tracker' \in Tracker /\ SumMatches(tracker')
      /\ tracker'.num = tracker.num /\ tracker'.pending = tracker.pending - 1
      /\ \A u \in TaskStatus : tracker'.count[u] =
           IF u = st THEN tracker.count[u] + 1 ELSE tracker.count[u]
      /\ tracker'.pending = 0 =>
           flow' = "tasksDone" /\ anyOk' = AnyTaskSuccessfullyCompleted(tracker')
      /\ tracker'.pending # 0 => flow' = flow /\ anyOk' = anyOk
      /\ anyOk' \in BOOLEAN
  BY <1>0, <1>3, <1>5, Reported
<1>7. tracker.pending \in Nat /\ tracker.num \in Nat /\ tracker.count["SUCCESS"] \in Nat
  BY <1>0 DEF TypeOK, Tracker, TaskStatus
<1>8. TypeOK' /\ FinishAtMostOnce'
  BY <1>0, <1>3, <1>5, <1>6 DEF TypeOK, FinishAtMostOnce, Rpc
<1>9. BranchesInOrder'
  BY <1>0, <1>1 DEF BranchesInOrder
<1>10. ReportsAreAwaited'
  BY <1>0, <1>2, <1>6, <1>7 DEF ReportsAreAwaited, ActiveBranches
<1>11. CallHasOneOwner'
  BY <1>0, <1>1, <1>2, <1>3, <1>6, <1>7 DEF CallHasOneOwner
<1>12. ResponseIsCounted'
  <2>1. CASE st = "SUCCESS"
    <3>1. IsFiniteSet({"pa", "pas"})
      <4>1. IsFiniteSet({"pa"})
        BY FS_Singleton
      <4>2. {"pa", "pas"} = {"pa"} \cup {"pas"}
        OBVIOUS
      <4> QED BY <4>1, <4>2, FS_AddElement
    <3>2. IsFiniteSet(response)
      BY <1>0, <3>1, FS_Subset DEF TypeOK
    <3>3. Cardinality(response') = Cardinality(response) + 1
      BY <1>4, <1>5, <2>1, <3>2, FS_AddElement
    <3>4. tracker'.count["SUCCESS"] = tracker.count["SUCCESS"] + 1
      BY <1>6, <2>1 DEF TaskStatus
    <3> QED BY <1>0, <1>4, <1>5, <1>6, <2>1, <3>3, <3>4 DEF ResponseIsCounted
  <2>2. CASE st # "SUCCESS"
    <3>1. tracker'.count["SUCCESS"] = tracker.count["SUCCESS"] /\ response' = response
      BY <1>5, <1>6, <2>2 DEF TaskStatus
    <3> QED BY <1>0, <1>4, <1>6, <3>1 DEF ResponseIsCounted
  <2> QED BY <2>1, <2>2
<1> QED BY <1>8, <1>9, <1>10, <1>11, <1>12 DEF Inv

(* No branch is out when the last report was made. *)
LEMMA NobodyIsOut ==
  ASSUME Inv, tracker.pending = 0
  PROVE  ~PaActive /\ ~PasActive
BY DEF Inv, ReportsAreAwaited, ActiveBranches

(* The tracker's callback ends the call or asks the k-anon service. *)
LEMMA OnTasksDoneInv == Inv /\ OnTasksDone => Inv'
<1> SUFFICES ASSUME Inv, OnTasksDone PROVE Inv'
  OBVIOUS
<1>0. /\ TypeOK /\ ReportsAreAwaited /\ BranchesInOrder /\ CallHasOneOwner
      /\ ResponseIsCounted /\ FinishAtMostOnce
  BY DEF Inv
<1>1. /\ flow = "tasksDone" /\ flow' = "idle"
      /\ UNCHANGED <<conf, cancelled, main, tracker, anyOk, kv, pa, pas, timer, response,
                     deleted>>
  BY DEF OnTasksDone
<1>2. /\ tracker.pending = 0 /\ finish = <<>> /\ query = "idle" /\ ~conf.chaff
      /\ timer = "idle" /\ anyOk = AnyTaskSuccessfullyCompleted(tracker)
      /\ main \notin {"start", "pa"} /\ ~deleted
  BY <1>0, <1>1 DEF CallHasOneOwner, BranchesInOrder
<1>3. ~PaActive /\ ~PasActive
  BY <1>2, NobodyIsOut
<1>4. CASE OnAllBidsDone(anyOk) /\ UNCHANGED query
  <2>1. PICK st \in Codes : FinishWithStatus(st) /\ (st = "OK" => anyOk)
    BY <1>4 DEF OnAllBidsDone, Codes
  <2> QED BY <1>1, <1>2, <1>3, <1>4, <2>1, EndStep
<1>5. CASE anyOk /\ query' \in {"sent", "done"} /\ UNCHANGED finish
  <2>1. ReportsAreAwaited' /\ ResponseIsCounted' /\ ~PaActive' /\ ~PasActive'
    BY <1>1, <1>3, Bystanders
  <2>2. TypeOK' /\ FinishAtMostOnce' /\ BranchesInOrder'
    BY <1>0, <1>1, <1>2, <1>5 DEF TypeOK, FinishAtMostOnce, BranchesInOrder, Rpc
  <2>3. CallHasOneOwner'
    BY <1>0, <1>1, <1>2, <1>5 DEF CallHasOneOwner
  <2> QED BY <2>1, <2>2, <2>3 DEF Inv
<1> QED BY <1>4, <1>5 DEF OnTasksDone

(* The k-anon service has answered. *)
LEMMA OnKAnonQueriedInv == Inv /\ OnKAnonQueried => Inv'
<1> SUFFICES ASSUME Inv, OnKAnonQueried PROVE Inv'
  OBVIOUS
<1>0. TypeOK /\ BranchesInOrder /\ CallHasOneOwner
  BY DEF Inv
<1>1. /\ query = "sent" /\ query' = "done"
      /\ UNCHANGED <<conf, cancelled, main, tracker, flow, anyOk, kv, pa, pas, timer,
                     response, deleted>>
  BY DEF OnKAnonQueried, taskVars
<1>2. /\ tracker.pending = 0 /\ finish = <<>> /\ flow = "idle" /\ ~conf.chaff
      /\ timer = "idle" /\ AnyTaskSuccessfullyCompleted(tracker)
      /\ main \notin {"start", "pa"}
  BY <1>0, <1>1 DEF CallHasOneOwner, BranchesInOrder, TypeOK
<1>3. ~PaActive /\ ~PasActive
  BY <1>2, NobodyIsOut
<1>4. PICK st \in Codes : FinishWithStatus(st)
  BY DEF OnKAnonQueried, OnAllBidsDone, Codes
<1> QED BY <1>1, <1>2, <1>3, <1>4, EndStep

(* The delay of a chaff request is over. *)
LEMMA ChaffTimerInv == Inv /\ ChaffTimer => Inv'
<1> SUFFICES ASSUME Inv, ChaffTimer PROVE Inv'
  OBVIOUS
<1>0. TypeOK /\ BranchesInOrder /\ CallHasOneOwner
  BY DEF Inv
<1>1. /\ timer = "set" /\ timer' = "done" /\ FinishWithStatus("OK") /\ "OK" \in Codes
      /\ UNCHANGED <<conf, cancelled, main, tracker, flow, anyOk, kv, pa, pas, query,
                     response, deleted>>
  BY DEF ChaffTimer, taskVars, Codes
<1>2. /\ finish = <<>> /\ conf.chaff /\ flow = "idle" /\ query = "idle"
      /\ main = "returned" /\ ~PaActive /\ ~PasActive
  BY <1>0, <1>1 DEF CallHasOneOwner, BranchesInOrder, PaActive, PasActive
<1> QED BY <1>1, <1>2, EndStep

(* The log line of a failed lookup, cancellation, OnDone, and steps that     *)
(* leave the reactor as it is.                                               *)
LEMMA AftermathInv ==
  ASSUME Inv, HandleV2FailureTail \/ OnCancel \/ OnDone \/ UNCHANGED vars
  PROVE  Inv'
<1>0. /\ TypeOK /\ ReportsAreAwaited /\ BranchesInOrder /\ CallHasOneOwner
      /\ ResponseIsCounted /\ FinishAtMostOnce
  BY DEF Inv
<1>1. /\ UNCHANGED <<conf, main, tracker, flow, anyOk, pa, pas, query, timer, response,
                     finish>>
      /\ kv' = kv \/ (kv = "tail" /\ kv' = "done")
  BY DEF HandleV2FailureTail, OnCancel, OnDone, vars, taskVars
<1>2. /\ cancelled' = cancelled \/ cancelled' = TRUE
      /\ deleted' = deleted \/ (finish # <<>> /\ main = "returned" /\ deleted' = TRUE)
  BY Zenon DEF HandleV2FailureTail, OnCancel, OnDone, vars
<1>3. TypeOK'
  <2>1. cancelled' \in BOOLEAN /\ deleted' \in BOOLEAN
    BY <1>0, <1>2, Zenon DEF TypeOK
  <2> QED BY <1>0, <1>1, <2>1 DEF TypeOK
<1>4. ReportsAreAwaited' /\ ResponseIsCounted'
  BY <1>1, Bystanders
<1>5. (PaActive' <=> PaActive) /\ (PasActive' <=> PasActive)
  BY <1>1 DEF PaActive, PasActive
<1>6. FinishAtMostOnce' /\ BranchesInOrder'
  BY <1>0, <1>1 DEF FinishAtMostOnce, BranchesInOrder
<1>7. CallHasOneOwner'
  BY <1>0, <1>1, <1>2, <1>5 DEF CallHasOneOwner
<1> QED BY <1>3, <1>4, <1>6, <1>7 DEF Inv

-----------------------------------------------------------------------------
(* The results. *)

LEMMA NextInv == Inv /\ [Next]_vars => Inv'
<1> SUFFICES ASSUME Inv, [Next]_vars PROVE Inv'
  OBVIOUS
<1>1. CASE OnGenerateBidsDone
  BY <1>1, BidsArrive DEF OnGenerateBidsDone
<1>2. CASE OnGenerateProtectedAppSignalsBidsDone
  BY <1>2, BidsArrive DEF OnGenerateProtectedAppSignalsBidsDone
<1> QED
  BY <1>1, <1>2, ExecuteInv, MayGetProtectedAudienceBidsInv, MayGetProtectedSignalsBidsInv,
     OnBiddingSignalsInv, OnTasksDoneInv, OnKAnonQueriedInv, ChaffTimerInv, AftermathInv
  DEF Next, Released

(* Inv is an invariant of the reactor. *)
THEOREM Invariance == Spec => []Inv
BY InitInv, NextInv, PTL DEF Spec

(* Whatever mix of lookups, branches, cancellation and missing clients a     *)
(* request meets, the call is finished at most once, and only the two kinds  *)
(* of callbacks that are named outlive the reactor.                          *)
THEOREM LifeCycleIsSafe == Spec => []GetBidsLifeCycle
<1>1. Inv => GetBidsLifeCycle
  <2> SUFFICES ASSUME Inv, deleted, NEW c \in Outstanding
               PROVE  \/ c = "pas" /\ ~conf.kvClient /\ conf.lookup # "V1"
                      \/ c = "kv" /\ kv = "tail" /\ conf.kvLog
    BY DEF GetBidsLifeCycle, StragglersAreKnown, Inv
  <2>1. CallHasOneOwner /\ BranchesInOrder /\ finish # <<>>
    BY DEF Inv, CallHasOneOwner
  <2>2. kv \notin {"v1", "v2"} /\ pa # "sent" /\ query # "sent" /\ timer # "set"
    BY <2>1 DEF CallHasOneOwner, PaActive
  <2>3. pas = "sent" => ~conf.kvClient /\ conf.lookup # "V1"
    BY <2>1 DEF CallHasOneOwner, PasActive
  <2>4. kv = "tail" => conf.kvLog
    BY <2>1 DEF BranchesInOrder
  <2> QED BY <2>2, <2>3, <2>4 DEF Outstanding
<1> QED BY <1>1, Invariance, PTL

(* A call that ends OK carries the bids of every branch that reported        *)
(* success, and at least one branch did not fail.                            *)
THEOREM AnswersMatchTasks == Spec => []AnswerMatchesTasks
<1>1. Inv => AnswerMatchesTasks
  <2> SUFFICES ASSUME Inv, finish = <<"OK">>, ~conf.chaff
               PROVE  /\ Cardinality(response) = tracker.count["SUCCESS"]
                      /\ tracker.count["ERROR"] < tracker.num
    BY DEF AnswerMatchesTasks
  <2>1. /\ TypeOK /\ CallHasOneOwner /\ ResponseIsCounted /\ ReportsAreAwaited
    BY DEF Inv
  <2>2. AnyTaskSuccessfullyCompleted(tracker) /\ SumMatches(tracker) /\ tracker.num > 0
    BY <2>1 DEF CallHasOneOwner, ResponseIsCounted, ReportsAreAwaited
  <2>3. /\ \A u \in {"SUCCESS", "EMPTY_RESPONSE", "SKIPPED", "ERROR", "CANCELLED"} :
             tracker.count[u] \in Nat
        /\ tracker.num \in Nat /\ tracker.pending \in Nat
    BY <2>1 DEF TypeOK, Tracker, TaskStatus
  <2>4. tracker.count["ERROR"] < tracker.num
    BY <2>2, <2>3 DEF SumMatches, AnyTaskSuccessfullyCompleted
  <2> QED BY <2>1, <2>4 DEF ResponseIsCounted
<1> QED BY <1>1, Invariance, PTL

-----------------------------------------------------------------------------
(* The reactor implements UnaryReactor. *)

(* The party that ends the call finds it not ended, and only grpc's OnDone   *)
(* deletes the reactor.                                                      *)
LEMMA FinishIsFinal ==
  ASSUME Inv, Next
  PROVE  /\ finish # <<>> => finish' = finish
         /\ deleted' = deleted \/ (finish # <<>> /\ finish' = finish /\ deleted' = TRUE)
         /\ conf' = conf
<1>1. BranchesInOrder /\ CallHasOneOwner
  BY DEF Inv
<1>2. finish # <<>> =>
        /\ main \notin {"start", "pa"} /\ flow # "tasksDone" /\ kv \notin {"v1", "v2"}
        /\ query # "sent" /\ timer # "set"
  BY <1>1 DEF BranchesInOrder, CallHasOneOwner, PaActive
<1>3. finish # <<>> => finish' = finish
  BY <1>2 DEF Next, Execute, MayGetProtectedAudienceBids, MayGetProtectedSignalsBids,
     OnBiddingSignalsV1, OnBiddingSignalsV2, HandleV2FailureTail, OnGenerateBidsDone,
     OnGenerateProtectedAppSignalsBidsDone, OnTasksDone, OnKAnonQueried, ChaffTimer,
     OnCancel, OnDone, Released, vars
<1>4. deleted' = deleted \/ (finish # <<>> /\ finish' = finish /\ deleted' = TRUE)
  BY Zenon DEF Next, Execute, MayGetProtectedAudienceBids, MayGetProtectedSignalsBids,
     OnBiddingSignalsV1, OnBiddingSignalsV2, HandleV2FailureTail, OnGenerateBidsDone,
     OnGenerateProtectedAppSignalsBidsDone, OnTasksDone, OnKAnonQueried, ChaffTimer,
     OnCancel, OnDone, Released, vars
<1>5. conf' = conf
  BY Zenon DEF Next, Execute, MayGetProtectedAudienceBids, MayGetProtectedSignalsBids,
     OnBiddingSignalsV1, OnBiddingSignalsV2, HandleV2FailureTail, OnGenerateBidsDone,
     OnGenerateProtectedAppSignalsBidsDone, OnTasksDone, OnKAnonQueried, ChaffTimer,
     OnCancel, OnDone, Released, vars
<1> QED BY <1>3, <1>4, <1>5

(* A sound call that was ended has no callback left, and one status. *)
LEMMA SoundCallsEndClean ==
  ASSUME Inv, Sound, finish # <<>>
  PROVE  Outstanding = {} /\ \E c \in Codes : finish = <<c>>
<1>1. CallHasOneOwner /\ BranchesInOrder /\ FinishAtMostOnce /\ TypeOK
  BY DEF Inv
<1>2. /\ kv \notin {"v1", "v2", "tail"} /\ pa # "sent" /\ pas # "sent"
      /\ query # "sent" /\ timer # "set"
  BY <1>1 DEF CallHasOneOwner, BranchesInOrder, Sound, PaActive, PasActive
<1>3. Outstanding = {}
  BY <1>2 DEF Outstanding
<1>4. finish \in Seq(Codes)
  BY <1>1 DEF TypeOK
<1>5. Len(finish) = 1 /\ finish[1] \in Codes
  <2>1. Len(finish) \in Nat \ {0}
    BY <1>4, EmptySeq
  <2>2. PICK n \in Nat \ {0} : n = Len(finish)
    BY <2>1
  <2>3. n <= 1
    BY <1>1, <2>2 DEF FinishAtMostOnce
  <2>4. n = 1
    BY <2>2, <2>3
  <2> QED BY <1>4, <2>2, <2>4, ElementOfSeq
<1>6. <<finish[1]>> \in Seq(Codes) /\ Len(<<finish[1]>>) = 1
  BY <1>5
<1>7. finish = <<finish[1]>>
  BY <1>4, <1>5, <1>6, SeqEqual
<1> QED BY <1>3, <1>5, <1>7

(* The same of the state after a step. *)
LEMMA SoundCallsEndCleanNext ==
  (Inv /\ Sound /\ finish # <<>> => Outstanding = {} /\ \E c \in Codes : finish = <<c>>)'
<1>1. Inv /\ Sound /\ finish # <<>> => Outstanding = {} /\ \E c \in Codes : finish = <<c>>
  BY SoundCallsEndClean
<1> QED BY <1>1, PTL

(* Every step of the reactor is a step of UnaryReactor, or none. *)
LEMMA StepSimulation == Inv /\ [Next]_vars => [Reactor!Next]_(Reactor!vars)
<1> SUFFICES ASSUME Inv, [Next]_vars PROVE [Reactor!Next]_(Reactor!vars)
  OBVIOUS
<1>1. Inv'
  BY NextInv
<1>2. /\ finish # <<>> => finish' = finish
      /\ deleted' = deleted \/ (finish # <<>> /\ finish' = finish /\ deleted' = TRUE)
      /\ conf' = conf
  <2>1. CASE Next
    BY <2>1, FinishIsFinal
  <2>2. CASE UNCHANGED vars
    BY <2>2 DEF vars
  <2> QED BY <2>1, <2>2
<1>3. Sound' <=> Sound
  BY <1>2 DEF Sound
<1>4. CASE ~Sound
  BY <1>3, <1>4 DEF Reactor!vars
<1>5. CASE Sound
  <2>1. deleted => finish # <<>>
    BY DEF Inv, CallHasOneOwner
  <2>2. CASE finish = <<>> /\ finish' = <<>>
    <3>1. Outstanding' \subseteq {"kv", "pa", "pas", "query", "timer"}
      BY DEF Outstanding
    <3>2. deleted' = deleted
      BY <1>2, <2>2
    <3>3. Reactor!Work
      BY <1>3, <1>5, <2>2, <3>1, <3>2 DEF Reactor!Work
    <3> QED BY <3>3 DEF Reactor!Next
  <2>3. CASE finish = <<>> /\ finish' # <<>>
    <3>1. Outstanding' = {} /\ \E c \in Codes : finish' = <<c>>
      BY <1>1, <1>3, <1>5, <2>3, SoundCallsEndCleanNext
    <3>2. deleted' = deleted
      BY <1>2, <2>3
    <3>3. Reactor!Finish
      BY <1>3, <1>5, <2>3, <3>1, <3>2 DEF Reactor!Finish
    <3> QED BY <3>3 DEF Reactor!Next
  <2>4. CASE finish # <<>>
    <3>1. finish' = finish /\ Outstanding = {} /\ Outstanding' = {}
      BY <1>1, <1>2, <1>3, <1>5, <2>4, SoundCallsEndClean, SoundCallsEndCleanNext
    <3>2. CASE deleted' = deleted
      BY <1>3, <3>1, <3>2 DEF Reactor!vars
    <3>3. CASE deleted' # deleted
      <4>1. deleted' = TRUE /\ ~deleted
        BY <1>2, <3>3 DEF Inv, TypeOK
      <4>2. Reactor!Release
        BY <1>3, <1>5, <2>4, <3>1, <4>1 DEF Reactor!Release
      <4> QED BY <4>2 DEF Reactor!Next
    <3> QED BY <3>2, <3>3
  <2> QED BY <2>2, <2>3, <2>4
<1> QED BY <1>4, <1>5

(* On sound calls the GetBids reactor implements UnaryReactor: it ends the   *)
(* call once, starts nothing after that, and is deleted only when no         *)
(* callback holds it.                                                        *)
THEOREM ImplementsUnaryReactor == Spec => ReactorSafety
<1>1. Init => Reactor!Init
  <2> SUFFICES ASSUME Init PROVE Reactor!Init
    OBVIOUS
  <2>1. finish = <<>> /\ Outstanding = {}
    BY DEF Init, Outstanding
  <2>2. (Sound /\ deleted) = FALSE
    BY Zenon DEF Init
  <2> QED BY <2>1, <2>2 DEF Reactor!Init
<1> QED BY <1>1, Invariance, StepSimulation, PTL DEF Spec, ReactorSafety, Reactor!Safety
=============================================================================

----------------------- MODULE SelectAdReactor_proofs -----------------------
(***************************************************************************)
(* Proofs about SelectAdReactor, for any number of buyers and bids, any    *)
(* cap and any flag settings.  The argument: the bid tracker counts the    *)
(* requests that are still in the loop or in flight, so its last report    *)
(* comes when there is none; the second tracker counts the k-anon query    *)
(* and the lookup; hence one party at most may end the call at any time.   *)
(***************************************************************************)
EXTENDS SelectAdReactor, Lemmas, FiniteSetTheorems, SequenceTheorems,
        TLAPS

(* Sets of buyers are finite. *)
LEMMA BuyersAreFinite ==
  ASSUME NEW B \in SUBSET Configured
  PROVE  IsFiniteSet(B) /\ Cardinality(B) \in Nat /\ (Cardinality(B) = 0 <=> B = {})
BY SelectAdAssumption, FS_Subset, FS_CardinalityType, FS_EmptySet

(* The settings are Boolean. *)
LEMMA ConfigIsTyped ==
  ASSUME conf \in Configs
  PROVE  /\ conf.cancellation \in BOOLEAN /\ conf.kanon \in BOOLEAN
         /\ conf.fetch \in BOOLEAN /\ conf.v2 \in BOOLEAN
BY SelectAdAssumption DEF ConfigType

(* A task of the first tracker reports. *)
LEMMA BidReported ==
  ASSUME TypeOK, BidTasksCounted, bidTracker.pending > 0, NEW st \in TaskStatus,
         BidTaskCompleted(st)
  PROVE  /\ bidTracker' \in Tracker /\ SumMatches(bidTracker')
         /\ bidTracker'.num = bidTracker.num
         /\ bidTracker'.pending = bidTracker.pending - 1
         /\ \A u \in TaskStatus : bidTracker'.count[u] =
              IF u = st THEN bidTracker.count[u] + 1 ELSE bidTracker.count[u]
         /\ bidTracker'.pending = 0 =>
              flow' = "allBidsDone" /\ anyOk' = AnyTaskSuccessfullyCompleted(bidTracker')
         /\ bidTracker'.pending # 0 => flow' = flow /\ anyOk' = anyOk
         /\ anyOk' \in BOOLEAN
<1>1. bidTracker' = TaskCompleted(bidTracker, st) /\ bidTracker \in Tracker
  BY DEF BidTaskCompleted, TypeOK
<1>2. /\ bidTracker' \in Tracker /\ SumMatches(bidTracker')
      /\ bidTracker'.num = bidTracker.num
      /\ bidTracker'.pending = bidTracker.pending - 1
      /\ \A u \in TaskStatus : bidTracker'.count[u] =
           IF u = st THEN bidTracker.count[u] + 1 ELSE bidTracker.count[u]
  BY <1>1, CountedTracker DEF BidTasksCounted
<1>3. AnyTaskSuccessfullyCompleted(bidTracker') \in BOOLEAN
  BY DEF AnyTaskSuccessfullyCompleted
<1>4. /\ bidTracker'.pending = 0 =>
           flow' = "allBidsDone" /\ anyOk' = AnyTaskSuccessfullyCompleted(bidTracker')
      /\ bidTracker'.pending # 0 => flow' = flow /\ anyOk' = anyOk
  BY DEF BidTaskCompleted, IsLastResponse, flowVars
<1>5. anyOk' \in BOOLEAN
  BY <1>3, <1>4 DEF TypeOK
<1> QED BY <1>2, <1>4, <1>5

(* A task of the second tracker reports. *)
LEMMA KReported ==
  ASSUME TypeOK, kTracker.pending > 0, NEW st \in TaskStatus, KTaskCompleted(st)
  PROVE  /\ kTracker' \in Tracker /\ kTracker'.pending = kTracker.pending - 1
         /\ flow' = IF kTracker'.pending = 0 THEN "signalsDone" ELSE flow
BY CountedTracker DEF KTaskCompleted, IsLastResponse, TypeOK

(* Finish, called for the first time. *)
LEMMA FirstFinish ==
  ASSUME finish = <<>>, NEW st \in Codes, FinishWithStatus(st)
  PROVE  finish' = <<st>> /\ finish' \in Seq(Codes) /\ finish' # <<>> /\ Len(finish') = 1
BY DEF FinishWithStatus

(* OnScoreAdsDone ends a call that was not ended, whatever it was given. *)
LEMMA EndOfCall ==
  ASSUME TypeOK, finish = <<>>, NEW errors,
         NEW r \in {"winner", "empty", "INTERNAL", "OTHER"}, OnScoreAdsDone(r, errors),
         UNCHANGED conf
  PROVE  /\ finish' \in Seq(Codes) /\ finish' # <<>> /\ FinishAtMostOnce'
         /\ conf.cborFails \/ (Len(finish') <= 1 /\ \E c \in Codes : finish' = <<c>>)
         /\ join' \in {"idle", "sent", "done"}
         /\ join' = "sent" => conf.genuine \/ join = "sent"
         /\ ~conf.genuine => join' = join
         /\ result' \in {"none", "chaff", "winner", "clientError"}
<1>1. \A c \in Codes : <<c>> \in Seq(Codes) /\ <<c>> # <<>> /\ Len(<<c>>) <= 1
  OBVIOUS
<1>2. {"OK", "INTERNAL", "INVALID_ARGUMENT", "OTHER"} \subseteq Codes
  BY DEF Codes
<1>6. conf.cborFails \/ (Len(finish') <= 1 /\ \E c \in Codes : finish' = <<c>>)
      => FinishAtMostOnce'
  BY Zenon DEF FinishAtMostOnce
<1>3. /\ join' \in {"idle", "sent", "done"}
      /\ join' = "sent" => conf.genuine \/ join = "sent"
      /\ ~conf.genuine => join' = join
  BY DEF OnScoreAdsDone, MicrosoftJoinWinnerKAnon, TypeOK
<1>4. CASE \E c \in Codes : FinishWithStatus(c) /\ UNCHANGED result
  BY <1>1, <1>3, <1>4, <1>6 DEF FinishWithStatus, TypeOK
<1>5. CASE \E res \in {"chaff", "winner", "clientError"} : SendResponse(res)
  <2>1. PICK res \in {"chaff", "winner", "clientError"} : SendResponse(res)
    BY <1>5
  <2>2. CASE result' = res /\ FinishWithStatus("OK")
    BY <1>1, <1>2, <1>3, <1>6, <2>2 DEF FinishWithStatus
  <2>3. CASE FinishWithStatus("INTERNAL") /\ UNCHANGED result
    BY <1>2, <1>4, <2>3
  <2>4. CASE conf.cborFails /\ finish' = finish \o <<"INTERNAL", "INTERNAL">>
             /\ UNCHANGED result
    <3>1. finish' = <<"INTERNAL", "INTERNAL">>
      BY <2>4
    <3>2. finish' \in Seq(Codes) /\ finish' # <<>>
      BY <1>2, <3>1
    <3> QED BY <1>3, <1>6, <2>4, <3>2 DEF TypeOK
  <2> QED BY <2>1, <2>2, <2>3, <2>4 DEF SendResponse
<1> QED BY <1>2, <1>4, <1>5 DEF OnScoreAdsDone

-----------------------------------------------------------------------------
(* The parts of the invariant that a step leaves alone. *)

(* Replays concern the handler thread only. *)
LEMMA ReplayFrame ==
  ASSUME ReplaySolicitsAll, CacheMatchesSolicited, UNCHANGED <<conf, inputs>>,
         UNCHANGED fetchVars
  PROVE  ReplaySolicitsAll' /\ CacheMatchesSolicited'
BY DEF ReplaySolicitsAll, CacheMatchesSolicited, fetchVars

(* The k-anonymity of bids concerns the query and scoring only. *)
LEMMA KAnonFrame ==
  ASSUME KAnonStatusIsRight, KAnonBeforeScoring, UNCHANGED <<conf, bids>>,
         UNCHANGED kanonVars, UNCHANGED scoreVars
  PROVE  KAnonStatusIsRight' /\ KAnonBeforeScoring'
BY DEF KAnonStatusIsRight, KAnonBeforeScoring, kanonVars, scoreVars

(* Before the bids are in, a new bid changes nothing about k-anonymity. *)
LEMMA KAnonBeforeBids ==
  ASSUME KAnonStatusIsRight, ~AfterBids, UNCHANGED kanonVars, UNCHANGED scoreVars
  PROVE  KAnonStatusIsRight' /\ KAnonBeforeScoring'
<1>1. queried = {} /\ kanon = "idle" /\ score = "idle"
  BY DEF KAnonStatusIsRight, AfterBids
<1>2. kstatus = {}
  BY <1>1 DEF KAnonStatusIsRight
<1>3. queried' = {} /\ kanon' = "idle" /\ score' = "idle" /\ kstatus' = {}
  BY <1>1, <1>2 DEF kanonVars, scoreVars
<1> QED BY <1>3 DEF KAnonStatusIsRight, KAnonBeforeScoring

-----------------------------------------------------------------------------
(* Soliciting buyers. *)

LEMMA InitInv == Init => Inv
<1> SUFFICES ASSUME Init PROVE Inv
  OBVIOUS
<1>1. /\ SetNumTasksToTrack(0) \in Tracker /\ SetNumTasksToTrack(1) \in Tracker
      /\ SumMatches(SetNumTasksToTrack(0))
  BY FreshTracker
<1>2. TypeOK
  <2>1. Cardinality(invoked) = 0
    BY FS_EmptySet, Zenon DEF Init
  <2>2. Cardinality(invoked) <= 1
    BY <2>1
  <2>3. cancelled \in BOOLEAN /\ anyOk \in BOOLEAN /\ deleted \in BOOLEAN
    BY Zenon DEF Init
  <2>4. bidTracker \in Tracker /\ kTracker \in Tracker /\ finish \in Seq(Codes)
    BY <1>1 DEF Init
  <2> QED BY <2>2, <2>3, <2>4 DEF Init, TypeOK
<1>3. /\ FinishAtMostOnce /\ NothingStarted /\ BidsComeFirst /\ EachBuyerOnce
      /\ CallHasOneOwner
  BY DEF Init, FinishAtMostOnce, NothingStarted, BidsComeFirst, EachBuyerOnce,
         CallHasOneOwner, AfterBids
<1>4. KTasksAllReport /\ BidTasksCounted
  BY <1>1 DEF Init, KTasksAllReport, BidTasksCounted, SetNumTasksToTrack, AfterBids,
              TaskStatus
<1>5. AllBuyersFailedIsAnError /\ CancelledIsReported /\ KAnonBeforeScoring
      /\ ReplaySolicitsAll /\ CacheMatchesSolicited /\ KAnonStatusIsRight
  BY DEF Init, AllBuyersFailedIsAnError, CancelledIsReported, KAnonBeforeScoring,
         ReplaySolicitsAll, CacheMatchesSolicited, KAnonStatusIsRight
<1> QED BY <1>2, <1>3, <1>4, <1>5 DEF Inv

(* Execute that refuses the call at once. *)
LEMMA RefusedInv ==
  ASSUME Inv, main = "start", main' = "returned",
         NEW st \in {"CANCELLED", "INVALID_ARGUMENT"}, FinishWithStatus(st),
         UNCHANGED <<conf, cancelled, inputs, invoked, todo, chaff, solicited, call,
                     bidTracker, bids, flow, anyOk, kanon, queried, kstatus, kv, signals,
                     kTracker, score, scored, join, errs, result, deleted>>
  PROVE  Inv'
<1>0. /\ TypeOK /\ FinishAtMostOnce /\ NothingStarted /\ BidsComeFirst
      /\ EachBuyerOnce /\ KTasksAllReport /\ CallHasOneOwner /\ BidTasksCounted
      /\ AllBuyersFailedIsAnError /\ CancelledIsReported
      /\ KAnonStatusIsRight /\ KAnonBeforeScoring
      /\ ReplaySolicitsAll /\ CacheMatchesSolicited
  BY DEF Inv
<1>1. finish = <<>> /\ st \in Codes
  BY <1>0 DEF NothingStarted, Codes
<1>2. finish' = <<st>> /\ finish' \in Seq(Codes) /\ finish' # <<>> /\ Len(finish') = 1
  BY <1>1, FirstFinish
<1>3. TypeOK'
  BY <1>0, <1>2 DEF TypeOK
<1>4. FinishAtMostOnce' /\ NothingStarted' /\ BidsComeFirst' /\ EachBuyerOnce'
  BY <1>0, <1>2 DEF FinishAtMostOnce, NothingStarted, BidsComeFirst, EachBuyerOnce,
          AfterBids
<1>5. KTasksAllReport' /\ CallHasOneOwner'
  BY <1>0, <1>2 DEF KTasksAllReport, CallHasOneOwner, AfterBids, NothingStarted, KvReported
<1>6. BidTasksCounted' /\ AllBuyersFailedIsAnError' /\ CancelledIsReported'
  BY <1>0, <1>2 DEF BidTasksCounted, AllBuyersFailedIsAnError, CancelledIsReported,
                    NothingStarted, AfterBids, IsCancelled
<1>7. KAnonStatusIsRight' /\ KAnonBeforeScoring'
  BY <1>0, KAnonFrame DEF kanonVars, scoreVars
<1>8. ReplaySolicitsAll' /\ CacheMatchesSolicited'
  BY <1>0 DEF ReplaySolicitsAll, CacheMatchesSolicited, NothingStarted
<1> QED BY <1>3, <1>4, <1>5, <1>6, <1>7, <1>8 DEF Inv

(* Execute, by its outcomes. *)
LEMMA ExecuteInv == Inv /\ Execute => Inv'
<1> SUFFICES ASSUME Inv, Execute PROVE Inv'
  OBVIOUS
<1>0. /\ TypeOK /\ FinishAtMostOnce /\ NothingStarted /\ BidsComeFirst
      /\ EachBuyerOnce /\ KTasksAllReport /\ CallHasOneOwner /\ BidTasksCounted
      /\ AllBuyersFailedIsAnError /\ CancelledIsReported
      /\ KAnonStatusIsRight /\ KAnonBeforeScoring
      /\ ReplaySolicitsAll /\ CacheMatchesSolicited
  BY DEF Inv
<1>1. /\ main = "start"
      /\ UNCHANGED <<conf, cancelled, todo, chaff, solicited, call, bids, flow, anyOk,
                     kanon, queried, kstatus, kv, signals, score, scored, deleted>>
  BY DEF Execute, kanonVars, signalVars, scoreVars
<1>2. CASE /\ FinishWithStatus("CANCELLED") \/ FinishWithStatus("INVALID_ARGUMENT")
           /\ main' = "returned"
           /\ UNCHANGED <<inputs, invoked, bidTracker, kTracker, join, errs, result>>
  BY <1>1, <1>2, RefusedInv
<1>3. CASE
        /\ \E in \in SUBSET BuyerList :
             /\ DecryptRequest(in)
             /\ bidTracker' = SetNumTasksToTrack(Cardinality(BuyerList))
             /\ IF conf.chaffing /\ conf.cache
                THEN \/ invoked' = {}
                     \/ \E c \in InvokedFor(in) : invoked' = {c}
                ELSE invoked' = {}
        /\ \/ /\ main' = "aborted"
              /\ errs' = {"AD_SERVER"} /\ UNCHANGED <<join, finish, result>>
           \/ /\ main' = "fetchBids" /\ UNCHANGED endVars
           \/ /\ main' = "returned" /\ errs' \in InputErrors
              /\ OnScoreAdsDone("empty", errs')
  <2>1. PICK in \in SUBSET BuyerList :
             /\ DecryptRequest(in)
             /\ bidTracker' = SetNumTasksToTrack(Cardinality(BuyerList))
             /\ IF conf.chaffing /\ conf.cache
                THEN \/ invoked' = {}
                     \/ \E c \in InvokedFor(in) : invoked' = {c}
                ELSE invoked' = {}
    BY <1>3
  <2>2. /\ inputs' = in /\ kTracker' \in Tracker
        /\ (conf.kanon \/ conf.fetch) =>
             kTracker'.pending = (IF conf.kanon THEN 1 ELSE 0) + (IF conf.fetch THEN 1 ELSE 0)
    <3>1. /\ \A n \in {1, 2} : SetNumTasksToTrack(n) \in Tracker
                               /\ SetNumTasksToTrack(n).pending = n
      BY FreshTracker DEF SetNumTasksToTrack
    <3>2. /\ conf.kanon => kTracker' = SetNumTasksToTrack((IF conf.fetch THEN 1 ELSE 0) + 1)
          /\ ~conf.kanon => kTracker' = kTracker
      BY <2>1 DEF DecryptRequest
    <3>3. kTracker \in Tracker /\ kTracker.pending = 1
      BY <1>0, <1>1 DEF TypeOK, KTasksAllReport
    <3> QED BY <2>1, <3>1, <3>2, <3>3 DEF DecryptRequest
  <2>3. /\ bidTracker' \in Tracker /\ SumMatches(bidTracker')
        /\ bidTracker'.count["CANCELLED"] = 0
    <3>1. Cardinality(BuyerList) \in Nat
      BY SelectAdAssumption, FS_CardinalityType
    <3> QED BY <2>1, <3>1, FreshTracker DEF SetNumTasksToTrack, TaskStatus
  <2>4. Cardinality(invoked') <= 1
    <3>1. Cardinality({}) = 0 /\ \A c : Cardinality({c}) = 1
      BY FS_EmptySet, FS_Singleton
    <3>2. Cardinality(invoked') \in {0, 1}
      BY <2>1, <3>1, Zenon
    <3> QED BY <3>2
  <2>5. /\ invoked' = {} \/ \E c \in InvokedFor(inputs') : invoked' = {c}
        /\ invoked' # {} => conf.chaffing /\ conf.cache
    BY <2>1, <2>2
  <2>6. CASE main' = "aborted" /\ errs' = {"AD_SERVER"} /\ UNCHANGED <<join, finish, result>>
    <3>1. TypeOK'
      BY <1>0, <1>1, <2>1, <2>2, <2>3, <2>4, <2>6 DEF TypeOK
    <3>2. FinishAtMostOnce' /\ NothingStarted' /\ BidsComeFirst' /\ EachBuyerOnce'
      BY <1>0, <1>1, <2>6 DEF FinishAtMostOnce, NothingStarted, BidsComeFirst, EachBuyerOnce,
          AfterBids
    <3>3. KTasksAllReport' /\ CallHasOneOwner'
      BY <1>0, <1>1, <2>2, <2>6 DEF KTasksAllReport, CallHasOneOwner, AfterBids,
                                    NothingStarted, KvReported
    <3>4. BidTasksCounted' /\ AllBuyersFailedIsAnError' /\ CancelledIsReported'
      BY <1>0, <1>1, <2>3, <2>6
      DEF BidTasksCounted, AllBuyersFailedIsAnError, CancelledIsReported,
          NothingStarted, AfterBids, IsCancelled
    <3>5. KAnonStatusIsRight' /\ KAnonBeforeScoring'
      BY <1>0, <1>1, KAnonFrame DEF kanonVars, scoreVars
    <3>6. ReplaySolicitsAll' /\ CacheMatchesSolicited'
      BY <1>1, <2>5, <2>6 DEF ReplaySolicitsAll, CacheMatchesSolicited
    <3> QED BY <3>1, <3>2, <3>3, <3>4, <3>5, <3>6 DEF Inv
  <2>7. CASE main' = "fetchBids" /\ UNCHANGED endVars
    <3>0. UNCHANGED <<join, errs, finish, result>>
      BY <2>7 DEF endVars
    <3>1. TypeOK'
      BY <1>0, <1>1, <2>1, <2>2, <2>3, <2>4, <2>7, <3>0 DEF TypeOK
    <3>2. FinishAtMostOnce' /\ NothingStarted' /\ BidsComeFirst' /\ EachBuyerOnce'
      BY <1>0, <1>1, <2>7, <3>0
      DEF FinishAtMostOnce, NothingStarted, BidsComeFirst, EachBuyerOnce,
          AfterBids
    <3>3. KTasksAllReport' /\ CallHasOneOwner'
      BY <1>0, <1>1, <2>2, <2>7, <3>0
      DEF KTasksAllReport, CallHasOneOwner, AfterBids, NothingStarted, KvReported
    <3>4. BidTasksCounted' /\ AllBuyersFailedIsAnError' /\ CancelledIsReported'
      BY <1>0, <1>1, <2>3, <2>7, <3>0
      DEF BidTasksCounted, AllBuyersFailedIsAnError, CancelledIsReported,
          NothingStarted, AfterBids, IsCancelled
    <3>5. KAnonStatusIsRight' /\ KAnonBeforeScoring'
      BY <1>0, <1>1, KAnonFrame DEF kanonVars, scoreVars
    <3>6. ReplaySolicitsAll' /\ CacheMatchesSolicited'
      BY <1>1, <2>5, <2>7 DEF ReplaySolicitsAll, CacheMatchesSolicited
    <3> QED BY <3>1, <3>2, <3>3, <3>4, <3>5, <3>6 DEF Inv
  <2>8. CASE main' = "returned" /\ errs' \in InputErrors /\ OnScoreAdsDone("empty", errs')
    <3>0. /\ finish' \in Seq(Codes) /\ finish' # <<>> /\ FinishAtMostOnce'
          /\ join' \in {"idle", "sent", "done"}
          /\ join' = "sent" => conf.genuine \/ join = "sent"
          /\ result' \in {"none", "chaff", "winner", "clientError"}
      BY <1>0, <1>1, <2>8, EndOfCall DEF NothingStarted
    <3>1. TypeOK'
      BY <1>0, <1>1, <2>1, <2>2, <2>3, <2>4, <2>8, <3>0 DEF TypeOK, InputErrors
    <3>2. NothingStarted' /\ BidsComeFirst' /\ EachBuyerOnce'
      BY <1>0, <1>1, <2>8, <3>0 DEF NothingStarted, BidsComeFirst, EachBuyerOnce,
          AfterBids
    <3>3. KTasksAllReport' /\ CallHasOneOwner'
      BY <1>0, <1>1, <2>2, <2>8, <3>0
      DEF KTasksAllReport, CallHasOneOwner, AfterBids, NothingStarted, KvReported
    <3>4. BidTasksCounted' /\ AllBuyersFailedIsAnError' /\ CancelledIsReported'
      BY <1>0, <1>1, <2>3, <2>8, <3>0
      DEF BidTasksCounted, AllBuyersFailedIsAnError, CancelledIsReported,
          NothingStarted, AfterBids, IsCancelled, InputErrors
    <3>5. KAnonStatusIsRight' /\ KAnonBeforeScoring'
      BY <1>0, <1>1, KAnonFrame DEF kanonVars, scoreVars
    <3>6. ReplaySolicitsAll' /\ CacheMatchesSolicited'
      BY <1>0, <1>1, <2>5, <2>8 DEF ReplaySolicitsAll, CacheMatchesSolicited, NothingStarted
    <3> QED BY <3>0, <3>1, <3>2, <3>3, <3>4, <3>5, <3>6 DEF Inv
  <2> QED BY <1>3, <2>6, <2>7, <2>8
<1> QED BY <1>2, <1>3 DEF Execute

(* Whom FetchBids asks: the real buyers and the chaff are disjoint, so the   *)
(* count it gives the tracker is the number of its requests.                 *)
LEMMA RequestsAreCounted ==
  ASSUME TypeOK, ReplaySolicitsAll, main = "fetchBids", NEW C \in GetChaffingConfig
  PROVE  /\ GetNonChaffBuyerNames \subseteq Configured \cap inputs
         /\ C \subseteq Configured \ inputs
         /\ invoked # {} => \E c \in InvokedFor(inputs) :
              invoked = {c} /\ C = c.chaff /\ GetNonChaffBuyerNames = c.nonChaff
<1>1. CASE invoked = {}
  <2>1. GetNonChaffBuyerNames = RealBuyers
    BY <1>1 DEF GetNonChaffBuyerNames
  <2>2. C = {} \/ C \in SUBSET ChaffCandidates
    BY <1>1 DEF GetChaffingConfig
  <2> QED BY <1>1, <2>1, <2>2 DEF RealBuyers, ChaffCandidates, Solicitable
<1>2. CASE invoked # {}
  <2>1. PICK c \in InvokedFor(inputs) : invoked = {c}
    BY <1>2 DEF ReplaySolicitsAll
  <2>2. C = c.chaff
    BY <1>2, <2>1 DEF GetChaffingConfig, ReplaySolicitsAll
  <2>3. GetNonChaffBuyerNames = c.nonChaff
    BY <1>2, <2>1 DEF GetNonChaffBuyerNames
  <2>4. c.chaff \subseteq Configured \ inputs /\ c.nonChaff \subseteq Configured \cap inputs
    BY DEF InvokedFor
  <2> QED BY <2>1, <2>2, <2>3, <2>4
<1> QED BY <1>1, <1>2

LEMMA FetchBidsInv == Inv /\ FetchBids => Inv'
<1> SUFFICES ASSUME Inv, FetchBids PROVE Inv'
  OBVIOUS
<1>0. /\ TypeOK /\ FinishAtMostOnce /\ NothingStarted /\ BidsComeFirst
      /\ EachBuyerOnce /\ KTasksAllReport /\ CallHasOneOwner /\ BidTasksCounted
      /\ AllBuyersFailedIsAnError /\ CancelledIsReported
      /\ KAnonStatusIsRight /\ KAnonBeforeScoring
      /\ ReplaySolicitsAll /\ CacheMatchesSolicited
  BY DEF Inv
<1>1. /\ main = "fetchBids"
      /\ UNCHANGED <<conf, inputs, cancelled, invoked, solicited, call, bids, kanon,
                     queried, kstatus, kv, signals, kTracker, score, scored, join, errs,
                     finish, result, deleted>>
  BY DEF FetchBids, requestVars, kanonVars, signalVars, scoreVars, endVars
<1>2. PICK C \in GetChaffingConfig :
        /\ bidTracker' = SetNumTasksToTrack(Cardinality(GetNonChaffBuyerNames)
                                            + Cardinality(C))
        /\ IF Cardinality(GetNonChaffBuyerNames) + Cardinality(C) = 0
           THEN /\ flow' = "allBidsDone" /\ anyOk' = TRUE /\ main' = "returned"
                /\ UNCHANGED <<todo, chaff>>
           ELSE /\ todo' = (GetNonChaffBuyerNames \cap inputs) \cup C /\ chaff' = C
                /\ main' = "loop" /\ UNCHANGED flowVars
  BY DEF FetchBids
<1>3. PICK real : real = GetNonChaffBuyerNames
  OBVIOUS
<1>4. /\ real \subseteq Configured \cap inputs /\ C \subseteq Configured \ inputs
      /\ invoked # {} => \E c \in InvokedFor(inputs) :
           invoked = {c} /\ C = c.chaff /\ real = c.nonChaff
  BY <1>0, <1>1, <1>3, RequestsAreCounted
<1>5. real \cap inputs = real /\ real \cap C = {} /\ real \cup C \subseteq Configured
  BY <1>4
<1>6. /\ IsFiniteSet(real) /\ IsFiniteSet(C) /\ Cardinality(real) \in Nat
      /\ Cardinality(C) \in Nat
      /\ Cardinality(real \cup C) = Cardinality(real) + Cardinality(C)
  <2>1. IsFiniteSet(real) /\ IsFiniteSet(C) /\ Cardinality(real) \in Nat
        /\ Cardinality(C) \in Nat
    BY <1>5, BuyersAreFinite
  <2>2. Cardinality(real \cap C) = 0
    BY <1>5, FS_EmptySet, Zenon
  <2>3. Cardinality(real \cup C) =
          Cardinality(real) + Cardinality(C) - Cardinality(real \cap C)
    BY <2>1, FS_Union
  <2> QED BY <2>1, <2>2, <2>3
<1> DEFINE N == Cardinality(real) + Cardinality(C)
<1>7. /\ bidTracker' \in Tracker /\ SumMatches(bidTracker') /\ bidTracker'.pending = N
      /\ \A u \in TaskStatus : bidTracker'.count[u] = 0
      /\ AnyTaskSuccessfullyCompleted(bidTracker')
  <2>1. N \in Nat /\ bidTracker' = SetNumTasksToTrack(N)
    BY <1>2, <1>3, <1>6
  <2> QED BY <2>1, FreshTracker
          DEF SetNumTasksToTrack, AnyTaskSuccessfullyCompleted, TaskStatus
<1>8. Cardinality(call) = 0 /\ call' = {} /\ Cardinality(call') = 0 /\ solicited = {}
      /\ bids = {} /\ finish = <<>> /\ ~AfterBids /\ todo = {} /\ flow = "idle"
      /\ join = "idle"
  BY <1>0, <1>1, BuyersAreFinite DEF NothingStarted, TypeOK
<1>9. "CANCELLED" \in TaskStatus /\ bidTracker'.count["CANCELLED"] = 0
  BY <1>7 DEF TaskStatus
<1>10. KAnonStatusIsRight' /\ KAnonBeforeScoring'
  BY <1>0, <1>1, KAnonFrame DEF kanonVars, scoreVars
<1>11. FinishAtMostOnce' /\ AllBuyersFailedIsAnError' /\ CancelledIsReported'
  BY <1>0, <1>1, <1>8 DEF FinishAtMostOnce, AllBuyersFailedIsAnError, CancelledIsReported
<1>12. CASE N = 0
  <2>1. /\ flow' = "allBidsDone" /\ anyOk' = TRUE /\ main' = "returned"
        /\ UNCHANGED <<todo, chaff>>
    BY <1>2, <1>3, <1>12
  <2>2. TypeOK'
    BY <1>0, <1>1, <1>7, <2>1 DEF TypeOK
  <2>3. NothingStarted' /\ BidsComeFirst' /\ EachBuyerOnce' /\ CallHasOneOwner'
    BY <1>0, <1>1, <1>8, <2>1
    DEF NothingStarted, BidsComeFirst, EachBuyerOnce, CallHasOneOwner, AfterBids
  <2>4. KTasksAllReport'
    BY <1>0, <1>1, <2>1 DEF KTasksAllReport, KvReported, AfterBids
  <2>5. BidTasksCounted'
    <3>1. Cardinality(todo') = 0
      BY <1>8, <2>1, FS_EmptySet, Zenon
    <3>2. anyOk' = AnyTaskSuccessfullyCompleted(bidTracker')
      BY <1>7, <2>1 DEF AnyTaskSuccessfullyCompleted
    <3> QED BY <1>1, <1>7, <1>8, <1>9, <1>12, <2>1, <3>1, <3>2
            DEF BidTasksCounted, AfterBids
  <2>6. ReplaySolicitsAll' /\ CacheMatchesSolicited'
    BY <1>0, <1>1, <1>8, <2>1 DEF ReplaySolicitsAll, CacheMatchesSolicited
  <2> QED BY <1>10, <1>11, <2>2, <2>3, <2>4, <2>5, <2>6 DEF Inv
<1>13. CASE N # 0
  <2>1. todo' = real \cup C /\ chaff' = C /\ main' = "loop" /\ UNCHANGED <<flow, anyOk>>
    BY <1>2, <1>3, <1>5, <1>13 DEF flowVars
  <2>2. TypeOK'
    BY <1>0, <1>1, <1>5, <1>7, <2>1 DEF TypeOK
  <2>3. NothingStarted' /\ BidsComeFirst' /\ EachBuyerOnce' /\ CallHasOneOwner'
    BY <1>0, <1>1, <1>8, <2>1 DEF NothingStarted, BidsComeFirst, EachBuyerOnce, CallHasOneOwner,
                                  AfterBids, KvReported
  <2>4. KTasksAllReport'
    BY <1>0, <1>1, <2>1 DEF KTasksAllReport, KvReported, AfterBids
  <2>5. BidTasksCounted'
    <3>1. Cardinality(todo') = N
      BY <1>6, <2>1
    <3> QED BY <1>1, <1>6, <1>7, <1>8, <1>9, <2>1, <3>1 DEF BidTasksCounted, AfterBids
  <2>6. ReplaySolicitsAll' /\ CacheMatchesSolicited'
    BY <1>0, <1>1, <1>4, <1>8, <2>1 DEF ReplaySolicitsAll, CacheMatchesSolicited
  <2> QED BY <1>10, <1>11, <2>2, <2>3, <2>4, <2>5, <2>6 DEF Inv
<1> QED BY <1>12, <1>13

(* While a buyer has still to be asked or to answer, the call is at its      *)
(* first stage and nobody has ended it.                                      *)
LEMMA BidStage ==
  ASSUME TypeOK, NothingStarted, BidsComeFirst, CallHasOneOwner, todo # {} \/ call # {}
  PROVE  /\ ~AfterBids /\ flow = "idle" /\ finish = <<>> /\ ~deleted
         /\ main \in {"loop", "returned"}
BY DEF TypeOK, NothingStarted, BidsComeFirst, CallHasOneOwner, AfterBids

(* One request is over, in the loop or by its callback: the tracker counts   *)
(* it, and the last one owes OnAllBidsDone.                                  *)
LEMMA BidTaskOver ==
  ASSUME Inv, todo # {} \/ call # {}, NEW st \in TaskStatus, BidTaskCompleted(st),
         st = "CANCELLED" => IsCancelled,
         todo' \subseteq todo, call' \subseteq call,
         Cardinality(todo') + Cardinality(call') = Cardinality(todo) + Cardinality(call) - 1,
         bids' = bids \/ st = "SUCCESS",
         UNCHANGED <<conf, cancelled, main, kanon, queried, kstatus, kv, signals, kTracker,
                     score, scored, join, errs, finish, result, deleted>>
  PROVE  /\ bidTracker' \in Tracker /\ flow' \in {"idle", "allBidsDone"} /\ anyOk' \in BOOLEAN
         /\ FinishAtMostOnce' /\ NothingStarted' /\ BidsComeFirst' /\ KTasksAllReport'
         /\ CallHasOneOwner' /\ BidTasksCounted' /\ AllBuyersFailedIsAnError'
         /\ CancelledIsReported' /\ KAnonStatusIsRight' /\ KAnonBeforeScoring'
<1>0. /\ TypeOK /\ FinishAtMostOnce /\ NothingStarted /\ BidsComeFirst
      /\ EachBuyerOnce /\ KTasksAllReport /\ CallHasOneOwner /\ BidTasksCounted
      /\ KAnonStatusIsRight
  BY DEF Inv
<1>1. /\ ~AfterBids /\ flow = "idle" /\ finish = <<>> /\ ~deleted
      /\ main \in {"loop", "returned"}
  BY <1>0, BidStage
<1>2. /\ Cardinality(todo) \in Nat /\ Cardinality(call) \in Nat
      /\ Cardinality(todo') \in Nat /\ Cardinality(call') \in Nat
      /\ (Cardinality(todo') = 0 => todo' = {}) /\ (Cardinality(call') = 0 => call' = {})
  BY <1>0, BuyersAreFinite DEF TypeOK
<1>3. /\ bidTracker.pending = Cardinality(todo) + Cardinality(call)
      /\ bidTracker.pending > 0
  BY <1>0, <1>1, <1>2, BuyersAreFinite DEF BidTasksCounted, TypeOK
<1>4. /\ bidTracker' \in Tracker /\ SumMatches(bidTracker')
      /\ bidTracker'.num = bidTracker.num
      /\ bidTracker'.pending = bidTracker.pending - 1
      /\ \A u \in TaskStatus : bidTracker'.count[u] =
           IF u = st THEN bidTracker.count[u] + 1 ELSE bidTracker.count[u]
      /\ bidTracker'.pending = 0 =>
           flow' = "allBidsDone" /\ anyOk' = AnyTaskSuccessfullyCompleted(bidTracker')
      /\ bidTracker'.pending # 0 => flow' = flow /\ anyOk' = anyOk
      /\ anyOk' \in BOOLEAN
  BY <1>0, <1>3, BidReported
<1>5. bidTracker'.pending = Cardinality(todo') + Cardinality(call')
  BY <1>2, <1>3, <1>4
<1>6. /\ flow' \in {"idle", "allBidsDone"}
      /\ flow' = "allBidsDone" => todo' = {} /\ call' = {}
                                  /\ anyOk' = AnyTaskSuccessfullyCompleted(bidTracker')
  BY <1>1, <1>2, <1>4, <1>5
<1>7. ~AfterBids'
  BY <1>1, <1>6 DEF AfterBids
<1>8. FinishAtMostOnce' /\ NothingStarted' /\ AllBuyersFailedIsAnError'
      /\ CancelledIsReported'
  BY <1>0, <1>1 DEF FinishAtMostOnce, NothingStarted, AllBuyersFailedIsAnError,
                    CancelledIsReported
<1>9. BidsComeFirst'
  BY <1>0, <1>1, <1>6, <1>7 DEF BidsComeFirst
<1>10. KTasksAllReport'
  BY <1>0, <1>1 DEF KTasksAllReport, KvReported, AfterBids
<1>11. CallHasOneOwner'
  BY <1>0, <1>1, <1>6 DEF CallHasOneOwner, KvReported, AfterBids
<1>12. BidTasksCounted'
  <2>1. \A u \in TaskStatus : bidTracker.count[u] \in Nat
    BY <1>0 DEF TypeOK, Tracker
  <2>2. "SUCCESS" \in TaskStatus /\ "CANCELLED" \in TaskStatus
    BY DEF TaskStatus
  <2>3. bids' # {} => bidTracker'.count["SUCCESS"] > 0
    BY <1>0, <1>4, <2>1, <2>2 DEF BidTasksCounted
  <2>4. bidTracker'.count["CANCELLED"] > 0 => IsCancelled'
    BY <1>0, <1>4, <2>1, <2>2 DEF BidTasksCounted, IsCancelled
  <2> QED BY <1>1, <1>4, <1>5, <1>6, <1>7, <2>3, <2>4 DEF BidTasksCounted
<1>13. KAnonStatusIsRight' /\ KAnonBeforeScoring'
  BY <1>0, <1>1, KAnonBeforeBids DEF kanonVars, scoreVars
<1> QED BY <1>4, <1>6, <1>8, <1>9, <1>10, <1>11, <1>12, <1>13

(* A turn of the loop. *)
LEMMA FetchBidsLoopInv == Inv /\ FetchBidsLoop => Inv'
<1> SUFFICES ASSUME Inv, FetchBidsLoop PROVE Inv'
  OBVIOUS
<1>0. /\ TypeOK /\ FinishAtMostOnce /\ NothingStarted /\ BidsComeFirst
      /\ EachBuyerOnce /\ KTasksAllReport /\ CallHasOneOwner /\ BidTasksCounted
      /\ AllBuyersFailedIsAnError /\ CancelledIsReported
      /\ KAnonStatusIsRight /\ KAnonBeforeScoring
      /\ ReplaySolicitsAll /\ CacheMatchesSolicited
  BY DEF Inv
<1>1. /\ main = "loop"
      /\ UNCHANGED <<conf, inputs, cancelled, invoked, main, chaff, bids, kanon, queried,
                     kstatus, kv, signals, kTracker, score, scored, join, errs, finish,
                     result, deleted>>
  BY DEF FetchBidsLoop, requestVars, kanonVars, signalVars, scoreVars, endVars
<1>2. PICK b \in todo :
        /\ todo' = todo \ {b}
        /\ IF Cardinality(solicited) >= Cap
           THEN BidTaskCompleted("SKIPPED") /\ UNCHANGED <<call, solicited>>
           ELSE FetchBid(b) /\ solicited' = solicited \cup {b}
  BY DEF FetchBidsLoop
<1>3. /\ b \in Configured /\ b \notin solicited /\ b \notin call
      /\ Cardinality(todo) \in Nat /\ Cardinality(call) \in Nat
      /\ Cardinality(todo') = Cardinality(todo) - 1 /\ todo' \subseteq todo
  BY <1>0, <1>2, BuyersAreFinite, FS_RemoveElement DEF TypeOK, EachBuyerOnce
<1>4. /\ ~AfterBids /\ flow = "idle" /\ finish = <<>> /\ ~deleted
  BY <1>0, <1>2, BidStage
<1>5. {"SKIPPED", "CANCELLED", "ERROR"} \subseteq TaskStatus
  BY DEF TaskStatus
<1>6. CacheMatchesSolicited'
  BY <1>1 DEF CacheMatchesSolicited
<1>7. solicited' \in {solicited, solicited \cup {b}}
  BY <1>2
<1>8. ReplaySolicitsAll'
  <2> SUFFICES ASSUME invoked # {} PROVE ReplaySolicitsAll'
    BY <1>0, <1>1 DEF ReplaySolicitsAll
  <2>1. PICK c \in InvokedFor(inputs) :
          invoked = {c} /\ chaff = c.chaff /\ todo \cup solicited = c.chaff \cup c.nonChaff
    BY <1>0, <1>1 DEF ReplaySolicitsAll
  <2>2. Cardinality(solicited) < Cap
    <3>1. /\ todo \cup solicited \in SUBSET Configured /\ b \in todo \cup solicited
          /\ solicited \subseteq (todo \cup solicited) \ {b}
      BY <1>0, <1>2, <1>3 DEF TypeOK
    <3>2. /\ IsFiniteSet(todo \cup solicited) /\ Cardinality(todo \cup solicited) \in Nat
          /\ Cardinality((todo \cup solicited) \ {b}) = Cardinality(todo \cup solicited) - 1
          /\ IsFiniteSet((todo \cup solicited) \ {b})
      BY <3>1, BuyersAreFinite, FS_RemoveElement
    <3>3. /\ Cardinality(solicited) \in Nat
          /\ Cardinality(solicited) <= Cardinality((todo \cup solicited) \ {b})
      <4>1. IsFiniteSet(solicited) /\ Cardinality(solicited) \in Nat
        BY <1>0, BuyersAreFinite DEF TypeOK
      <4> QED BY <3>1, <3>2, <4>1, FS_Subset
    <3>4. Cardinality(todo \cup solicited) <= MaxSolicitedWithChaff
      BY <2>1 DEF InvokedFor
    <3>5. Cap = 15 /\ MaxSolicitedWithChaff = 15
      BY <1>0 DEF Cap, MaxSolicitedWithChaff, ReplaySolicitsAll
    <3> QED BY <3>2, <3>3, <3>4, <3>5
  <2>3. solicited' = solicited \cup {b}
    <3>1. Cardinality(solicited) \in Nat /\ Cap \in Nat
      BY <1>0, BuyersAreFinite, SelectAdAssumption DEF TypeOK, Cap, MaxSolicitedWithChaff
    <3> QED BY <1>2, <2>2, <3>1
  <2>4. todo' \cup solicited' = c.chaff \cup c.nonChaff
    BY <1>2, <2>1, <2>3
  <2> QED BY <1>0, <1>1, <2>1, <2>4 DEF ReplaySolicitsAll
<1>9. CASE \E st \in {"SKIPPED", "CANCELLED", "ERROR"} :
             /\ BidTaskCompleted(st) /\ UNCHANGED call
             /\ st = "CANCELLED" => IsCancelled
  <2>1. /\ Cardinality(todo') + Cardinality(call') = Cardinality(todo) + Cardinality(call) - 1
        /\ call' \subseteq call
    BY <1>3, <1>9
  <2>2. /\ bidTracker' \in Tracker /\ flow' \in {"idle", "allBidsDone"} /\ anyOk' \in BOOLEAN
        /\ FinishAtMostOnce' /\ NothingStarted' /\ BidsComeFirst' /\ KTasksAllReport'
        /\ CallHasOneOwner' /\ BidTasksCounted' /\ AllBuyersFailedIsAnError'
        /\ CancelledIsReported' /\ KAnonStatusIsRight' /\ KAnonBeforeScoring'
    BY <1>1, <1>2, <1>3, <1>5, <1>9, <2>1, BidTaskOver
  <2>3. TypeOK' /\ EachBuyerOnce'
    BY <1>0, <1>1, <1>2, <1>3, <1>7, <1>9, <2>2 DEF TypeOK, EachBuyerOnce
  <2> QED BY <1>6, <1>8, <2>2, <2>3 DEF Inv
<1>10. CASE /\ call' = call \cup {b} /\ solicited' = solicited \cup {b}
            /\ UNCHANGED <<bidTracker, flow, anyOk>>
  <2>1. Cardinality(call') = Cardinality(call) + 1
    BY <1>0, <1>3, <1>10, BuyersAreFinite, FS_AddElement DEF TypeOK
  <2>2. TypeOK' /\ EachBuyerOnce'
    BY <1>0, <1>1, <1>2, <1>3, <1>10 DEF TypeOK, EachBuyerOnce
  <2>3. FinishAtMostOnce' /\ NothingStarted' /\ BidsComeFirst' /\ CallHasOneOwner'
        /\ KTasksAllReport'
    BY <1>0, <1>1, <1>4, <1>10 DEF FinishAtMostOnce, NothingStarted, BidsComeFirst,
                        CallHasOneOwner, AfterBids, KTasksAllReport, KvReported
  <2>4. BidTasksCounted' /\ AllBuyersFailedIsAnError' /\ CancelledIsReported'
    BY <1>0, <1>1, <1>3, <1>4, <1>10, <2>1
    DEF BidTasksCounted, AllBuyersFailedIsAnError, CancelledIsReported, AfterBids,
        IsCancelled
  <2>5. KAnonStatusIsRight' /\ KAnonBeforeScoring'
    BY <1>0, <1>1, KAnonFrame DEF kanonVars, scoreVars
  <2> QED BY <1>6, <1>8, <2>2, <2>3, <2>4, <2>5 DEF Inv
<1> QED BY <1>2, <1>9, <1>10 DEF FetchBid, flowVars

(* The loop is over: what is remembered is whom it asked. *)
LEMMA FetchBidsReturnInv == Inv /\ FetchBidsReturn => Inv'
<1> SUFFICES ASSUME Inv, FetchBidsReturn PROVE Inv'
  OBVIOUS
<1>0. /\ TypeOK /\ FinishAtMostOnce /\ NothingStarted /\ BidsComeFirst
      /\ EachBuyerOnce /\ KTasksAllReport /\ CallHasOneOwner /\ BidTasksCounted
      /\ AllBuyersFailedIsAnError /\ CancelledIsReported
      /\ KAnonStatusIsRight /\ KAnonBeforeScoring
      /\ ReplaySolicitsAll /\ CacheMatchesSolicited
  BY DEF Inv
<1>1. /\ main = "loop" /\ todo = {} /\ main' = "returned"
      /\ UNCHANGED <<conf, inputs, cancelled, todo, chaff, solicited, call, bidTracker,
                     bids, flow, anyOk, kanon, queried, kstatus, kv, signals, kTracker,
                     score, scored, join, errs, finish, result, deleted>>
  BY DEF FetchBidsReturn, requestVars, bidVars, flowVars, kanonVars, signalVars,
         scoreVars, endVars
<1> DEFINE asked == [chaff |-> solicited \cap chaff, nonChaff |-> solicited \ chaff]
<1>2. invoked' = IF conf.chaffing /\ conf.cache /\ invoked = {} THEN {asked} ELSE invoked
  BY DEF FetchBidsReturn
<1>3. invoked # {} => invoked = {asked}
  <2> SUFFICES ASSUME invoked # {} PROVE invoked = {asked}
    OBVIOUS
  <2>1. PICK c \in InvokedFor(inputs) :
          invoked = {c} /\ chaff = c.chaff /\ todo \cup solicited = c.chaff \cup c.nonChaff
    BY <1>0, <1>1 DEF ReplaySolicitsAll
  <2>2. /\ c \in [chaff : SUBSET (Configured \ inputs),
                  nonChaff : SUBSET (Configured \cap inputs)]
        /\ c = [chaff |-> c.chaff, nonChaff |-> c.nonChaff]
    BY DEF InvokedFor
  <2>3. solicited \cap chaff = c.chaff /\ solicited \ chaff = c.nonChaff
    BY <1>1, <2>1, <2>2
  <2> QED BY <2>1, <2>2, <2>3
<1>4. Cardinality(invoked') <= 1
  <2>1. Cardinality({asked}) = 1
    BY FS_Singleton
  <2> QED BY <1>0, <1>2, <2>1 DEF TypeOK
<1>5. TypeOK'
  BY <1>0, <1>1, <1>4 DEF TypeOK
<1>6. FinishAtMostOnce' /\ NothingStarted' /\ BidsComeFirst' /\ EachBuyerOnce'
      /\ CallHasOneOwner' /\ KTasksAllReport'
  BY <1>0, <1>1 DEF FinishAtMostOnce, NothingStarted, BidsComeFirst, EachBuyerOnce,
                    CallHasOneOwner, AfterBids, KTasksAllReport, KvReported
<1>7. BidTasksCounted' /\ AllBuyersFailedIsAnError' /\ CancelledIsReported'
  BY <1>0, <1>1 DEF BidTasksCounted, AllBuyersFailedIsAnError, CancelledIsReported,
                    AfterBids, IsCancelled
<1>8. KAnonStatusIsRight' /\ KAnonBeforeScoring'
  BY <1>0, <1>1, KAnonFrame DEF kanonVars, scoreVars
<1>9. ReplaySolicitsAll' /\ CacheMatchesSolicited'
  BY <1>0, <1>1, <1>2, <1>3 DEF ReplaySolicitsAll, CacheMatchesSolicited
<1> QED BY <1>5, <1>6, <1>7, <1>8, <1>9 DEF Inv

(* A buyer answers. *)
LEMMA OnFetchBidsDoneInv == ASSUME Inv, NEW b \in Configured, OnFetchBidsDone(b) PROVE Inv'
<1>0. TypeOK /\ EachBuyerOnce /\ ReplaySolicitsAll /\ CacheMatchesSolicited
  BY DEF Inv
<1>1. /\ b \in call /\ call' = call \ {b}
      /\ UNCHANGED <<conf, inputs, cancelled, invoked, main, todo, chaff, solicited, kanon,
                     queried, kstatus, kv, signals, kTracker, score, scored, join, errs,
                     finish, result, deleted>>
  BY DEF OnFetchBidsDone, requestVars, fetchVars, kanonVars, signalVars, scoreVars, endVars
<1>2. PICK st \in TaskStatus :
        /\ BidTaskCompleted(st) /\ (st = "CANCELLED" => IsCancelled)
        /\ bids' = bids \/ (st = "SUCCESS" /\ bids' \subseteq Bids)
  <2>1. CASE IsCancelled /\ BidTaskCompleted("CANCELLED") /\ UNCHANGED bids
    BY <2>1 DEF TaskStatus
  <2>2. CASE BidTaskCompleted("ERROR") /\ UNCHANGED bids
    BY <2>2 DEF TaskStatus
  <2>3. ASSUME NEW r \in Responses(b), bids' = bids \cup r,
               BidTaskCompleted(IF r = {} THEN "EMPTY_RESPONSE" ELSE "SUCCESS")
        PROVE  \E st \in TaskStatus :
                 /\ BidTaskCompleted(st) /\ (st = "CANCELLED" => IsCancelled)
                 /\ bids' = bids \/ (st = "SUCCESS" /\ bids' \subseteq Bids)
    <3>1. r \subseteq Bids
      BY DEF Responses
    <3>2. CASE r = {}
      <4>1. BidTaskCompleted("EMPTY_RESPONSE") /\ bids' = bids
        BY <2>3, <3>2
      <4> QED BY <4>1 DEF TaskStatus
    <3>3. CASE r # {}
      <4>1. BidTaskCompleted("SUCCESS")
        BY <2>3, <3>3
      <4> QED BY <1>0, <2>3, <3>1, <4>1 DEF TaskStatus, TypeOK
    <3> QED BY <3>2, <3>3
  <2> QED BY <2>1, <2>2, <2>3 DEF OnFetchBidsDone
<1>3. Cardinality(todo') + Cardinality(call') = Cardinality(todo) + Cardinality(call) - 1
      /\ call' \subseteq call /\ todo' \subseteq todo
  <2>1. Cardinality(todo) \in Nat /\ Cardinality(call) \in Nat /\ IsFiniteSet(call)
    BY <1>0, BuyersAreFinite DEF TypeOK
  <2>2. Cardinality(call') = Cardinality(call) - 1
    BY <1>1, <2>1, FS_RemoveElement
  <2> QED BY <1>1, <2>1, <2>2
<1>4. /\ bidTracker' \in Tracker /\ flow' \in {"idle", "allBidsDone"} /\ anyOk' \in BOOLEAN
      /\ FinishAtMostOnce' /\ NothingStarted' /\ BidsComeFirst' /\ KTasksAllReport'
      /\ CallHasOneOwner' /\ BidTasksCounted' /\ AllBuyersFailedIsAnError'
      /\ CancelledIsReported' /\ KAnonStatusIsRight' /\ KAnonBeforeScoring'
  BY <1>1, <1>2, <1>3, BidTaskOver
<1>5. TypeOK' /\ EachBuyerOnce'
  BY <1>0, <1>1, <1>2, <1>4 DEF TypeOK, EachBuyerOnce
<1>6. ReplaySolicitsAll' /\ CacheMatchesSolicited'
  BY <1>0, <1>1, ReplayFrame DEF fetchVars
<1> QED BY <1>4, <1>5, <1>6 DEF Inv

-----------------------------------------------------------------------------
(* Ending the call. *)

(* The call is ended by the party whose turn it is, after the bids. *)
LEMMA EndStep ==
  ASSUME Inv, finish = <<>>, AfterBids,
         finish' \in Seq(Codes), finish' # <<>>, FinishAtMostOnce',
         join' \in {"idle", "sent", "done"}, join' = "sent" => conf.genuine \/ join = "sent",
         result' \in {"none", "chaff", "winner", "clientError"},
         errs' \subseteq {"AD_SERVER", "CLIENT"}, flow' = "idle",
         kv' = kv \/ (kv = "sent" /\ conf.v2 /\ kv' \in {"done", "tail"}),
         kv' # "sent", kv' = "tail" /\ kv # "tail" => conf.kvLog,
         score' = score \/ (score = "sent" /\ score' = "done"), score' # "sent",
         kanon \in {"queued", "asked"} =>
           conf.fetch /\ ~KvReported' /\ (conf.v2 \/ conf.cancellation),
         UNCHANGED <<conf, inputs, cancelled, call, bidTracker, bids, anyOk, scored,
                     signals, kTracker, deleted>>,
         UNCHANGED fetchVars, UNCHANGED kanonVars
  PROVE  Inv'
<1>0. /\ TypeOK /\ FinishAtMostOnce /\ NothingStarted /\ BidsComeFirst
      /\ EachBuyerOnce /\ KTasksAllReport /\ CallHasOneOwner /\ BidTasksCounted
      /\ AllBuyersFailedIsAnError /\ CancelledIsReported
      /\ KAnonStatusIsRight /\ KAnonBeforeScoring
      /\ ReplaySolicitsAll /\ CacheMatchesSolicited
  BY DEF Inv
<1>1. UNCHANGED <<invoked, main, todo, chaff, solicited, kanon, queried, kstatus>>
  BY DEF fetchVars, kanonVars
<1>2. main \in {"loop", "returned"} /\ todo = {} /\ call = {}
  BY <1>0 DEF BidsComeFirst
<1>3. TypeOK'
  BY <1>0, <1>1 DEF TypeOK
<1>4. NothingStarted' /\ BidsComeFirst' /\ EachBuyerOnce'
  BY <1>0, <1>1, <1>2 DEF NothingStarted, BidsComeFirst, EachBuyerOnce
<1>5. KvReported' <=> KvReported
  BY <1>0 DEF KvReported, KTasksAllReport
<1>6. KTasksAllReport'
  BY <1>0, <1>1, <1>2, <1>5 DEF KTasksAllReport
<1>7. CallHasOneOwner'
  BY <1>0, <1>1, <1>5 DEF CallHasOneOwner
<1>8. BidTasksCounted' /\ CancelledIsReported'
  BY <1>0, <1>1, <1>2 DEF BidTasksCounted, CancelledIsReported, IsCancelled
<1>9. AllBuyersFailedIsAnError'
  <2>1. \A u \in TaskStatus : bidTracker.count[u] \in Nat
    BY <1>0 DEF TypeOK, Tracker
  <2>2. bidTracker.num \in Nat /\ bidTracker.pending \in Nat
    BY <1>0 DEF TypeOK, Tracker
  <2>3. bidTracker.count["SUCCESS"] > 0
    BY <1>0 DEF BidTasksCounted
  <2>4. bidTracker.count["ERROR"] < bidTracker.num
    <3>1. \A u \in {"SUCCESS", "EMPTY_RESPONSE", "SKIPPED", "ERROR", "CANCELLED"} :
            bidTracker.count[u] \in Nat
      BY <2>1 DEF TaskStatus
    <3>2. SumMatches(bidTracker)
      BY <1>0 DEF BidTasksCounted
    <3> QED BY <2>2, <2>3, <3>1, <3>2, SMTT(30) DEF SumMatches
  <2> QED BY <2>4 DEF AllBuyersFailedIsAnError
<1>10. KAnonStatusIsRight' /\ KAnonBeforeScoring'
  BY <1>0, <1>1 DEF KAnonStatusIsRight, KAnonBeforeScoring
<1>11. ReplaySolicitsAll' /\ CacheMatchesSolicited'
  BY <1>0, ReplayFrame
<1> QED BY <1>3, <1>4, <1>6, <1>7, <1>8, <1>9, <1>10, <1>11 DEF Inv

-----------------------------------------------------------------------------
(* From the bids to scoring. *)

(* The bids are in: the call ends, or what follows is started. *)
LEMMA OnAllBidsDoneInv == Inv /\ OnAllBidsDone => Inv'
<1> SUFFICES ASSUME Inv, OnAllBidsDone PROVE Inv'
  OBVIOUS
<1>0. /\ TypeOK /\ FinishAtMostOnce /\ NothingStarted /\ BidsComeFirst
      /\ EachBuyerOnce /\ KTasksAllReport /\ CallHasOneOwner /\ BidTasksCounted
      /\ AllBuyersFailedIsAnError /\ CancelledIsReported
      /\ KAnonStatusIsRight /\ KAnonBeforeScoring
      /\ ReplaySolicitsAll /\ CacheMatchesSolicited
  BY DEF Inv
<1>1. /\ flow = "allBidsDone"
      /\ UNCHANGED <<conf, inputs, cancelled, invoked, main, todo, chaff, solicited, call,
                     bidTracker, anyOk, queried, kstatus, kv, signals, kTracker, score,
                     scored, errs, deleted>>
  BY DEF OnAllBidsDone, requestVars, fetchVars, signalVars, scoreVars
<1>2. /\ finish = <<>> /\ score = "idle" /\ kv = "idle" /\ kanon = "idle" /\ todo = {}
      /\ call = {} /\ main \in {"loop", "returned"} /\ join # "sent" /\ ~deleted
  BY <1>0, <1>1 DEF BidsComeFirst, CallHasOneOwner, AfterBids
<1>3. /\ \A u \in {"SUCCESS", "EMPTY_RESPONSE", "SKIPPED", "ERROR", "CANCELLED"} :
           bidTracker.count[u] \in Nat
      /\ bidTracker.num \in Nat /\ bidTracker.pending \in Nat /\ SumMatches(bidTracker)
      /\ anyOk = AnyTaskSuccessfullyCompleted(bidTracker)
      /\ bids # {} => bidTracker.count["SUCCESS"] > 0
      /\ bidTracker.count["CANCELLED"] > 0 => IsCancelled
  BY <1>0, <1>1 DEF TypeOK, Tracker, TaskStatus, BidTasksCounted
<1>4. ReplaySolicitsAll' /\ CacheMatchesSolicited'
  BY <1>0, <1>1, ReplayFrame DEF fetchVars
<1>5. EachBuyerOnce'
  BY <1>0, <1>1 DEF EachBuyerOnce
<1>6. KAnonStatusIsRight' /\ KAnonBeforeScoring'
  <2>1. kstatus' = {} /\ queried' = {} /\ score' = "idle"
    BY <1>0, <1>1, <1>2 DEF KAnonStatusIsRight
  <2> QED BY <2>1 DEF KAnonStatusIsRight, KAnonBeforeScoring
<1>7. ASSUME finish' \in Seq(Codes), finish' # <<>>, FinishAtMostOnce',
             join' \in {"idle", "sent", "done"}, join' = "sent" => conf.genuine,
             result' \in {"none", "chaff", "winner", "clientError"},
             flow' = "idle", kanon' = kanon, bids' \subseteq bids,
             AllBuyersFailedIsAnError', CancelledIsReported'
      PROVE  Inv'
  <2>1. TypeOK'
    BY <1>0, <1>1, <1>7 DEF TypeOK
  <2>2. ~AfterBids'
    BY <1>1, <1>2, <1>7 DEF AfterBids
  <2>3. NothingStarted' /\ BidsComeFirst'
    BY <1>1, <1>2, <1>7, <2>2 DEF NothingStarted, BidsComeFirst
  <2>4. KTasksAllReport' /\ CallHasOneOwner'
    BY <1>0, <1>1, <1>2, <1>7, <2>2 DEF KTasksAllReport, CallHasOneOwner
  <2>5. BidTasksCounted'
    BY <1>0, <1>1, <1>2, <1>3, <1>7, <2>2 DEF BidTasksCounted, IsCancelled
  <2> QED BY <1>4, <1>5, <1>6, <1>7, <2>1, <2>3, <2>4, <2>5 DEF Inv
<1>8. CASE /\ IsCancelled /\ FinishWithStatus("CANCELLED") /\ flow' = "idle"
           /\ UNCHANGED <<bids, kanon, join, result>>
  <2>1. finish' = <<"CANCELLED">> /\ finish' \in Seq(Codes) /\ finish' # <<>>
        /\ Len(finish') = 1
    BY <1>2, <1>8, FirstFinish DEF Codes
  <2>2. FinishAtMostOnce' /\ AllBuyersFailedIsAnError' /\ CancelledIsReported'
    BY <2>1 DEF FinishAtMostOnce, AllBuyersFailedIsAnError, CancelledIsReported
  <2> QED BY <1>0, <1>2, <1>7, <1>8, <2>1, <2>2 DEF TypeOK
<1>9. CASE /\ ~IsCancelled /\ flow' = "idle" /\ UNCHANGED <<kanon, join, result>>
           /\ FinishWithStatus("INTERNAL") \/ FinishWithStatus("INVALID_ARGUMENT")
           /\ bids' \subseteq bids
  <2>1. /\ finish' \in {<<"INTERNAL">>, <<"INVALID_ARGUMENT">>}
        /\ finish' \in Seq(Codes) /\ finish' # <<>> /\ Len(finish') = 1
    BY <1>2, <1>9, FirstFinish DEF Codes
  <2>2. bidTracker'.count["CANCELLED"] = 0
    BY <1>1, <1>3, <1>9
  <2>3. FinishAtMostOnce' /\ AllBuyersFailedIsAnError' /\ CancelledIsReported'
    BY <2>1, <2>2 DEF FinishAtMostOnce, AllBuyersFailedIsAnError, CancelledIsReported
  <2> QED BY <1>0, <1>2, <1>7, <1>9, <2>1, <2>3 DEF TypeOK
<1>10. CASE /\ ~IsCancelled /\ bids = {} /\ anyOk /\ OnScoreAdsDone("empty", errs)
            /\ flow' = "idle" /\ UNCHANGED <<bids, kanon>>
  <2>1. /\ finish' \in Seq(Codes) /\ finish' # <<>> /\ FinishAtMostOnce'
        /\ join' \in {"idle", "sent", "done"}
        /\ join' = "sent" => conf.genuine \/ join = "sent"
        /\ result' \in {"none", "chaff", "winner", "clientError"}
    BY <1>0, <1>1, <1>2, <1>10, EndOfCall
  <2>2. bidTracker'.count["CANCELLED"] = 0
    BY <1>1, <1>3, <1>10
  <2>3. bidTracker.num > 0 => bidTracker.count["ERROR"] < bidTracker.num
    BY <1>3, <1>10 DEF SumMatches, AnyTaskSuccessfullyCompleted
  <2>4. AllBuyersFailedIsAnError' /\ CancelledIsReported'
    BY <1>1, <2>2, <2>3 DEF AllBuyersFailedIsAnError, CancelledIsReported
  <2> QED BY <1>0, <1>2, <1>7, <1>10, <2>1, <2>4
<1>11. CASE /\ ~IsCancelled /\ bids' \subseteq bids /\ bids' # {}
            /\ flow' = IF conf.fetch THEN "fetchSignals"
                       ELSE IF conf.kanon THEN "idle" ELSE "scoreAds"
            /\ kanon' = IF conf.kanon THEN "queued" ELSE kanon
            /\ UNCHANGED <<finish, join, result>>
  <2>1. TypeOK'
    BY <1>0, <1>1, <1>11 DEF TypeOK
  <2>2. FinishAtMostOnce' /\ NothingStarted' /\ BidsComeFirst'
        /\ AllBuyersFailedIsAnError' /\ CancelledIsReported'
    BY <1>0, <1>1, <1>2, <1>11
    DEF FinishAtMostOnce, NothingStarted, BidsComeFirst, AllBuyersFailedIsAnError,
        CancelledIsReported
  <2>3. KTasksAllReport' /\ CallHasOneOwner'
    BY <1>0, <1>1, <1>2, <1>11 DEF KTasksAllReport, CallHasOneOwner, KvReported
  <2>4. BidTasksCounted'
    BY <1>0, <1>1, <1>2, <1>3, <1>11 DEF BidTasksCounted, IsCancelled
  <2> QED BY <1>4, <1>5, <1>6, <2>1, <2>2, <2>3, <2>4 DEF Inv
<1> QED
  BY <1>8, <1>9, <1>10, <1>11 DEF OnAllBidsDone, FilterBidsWithMismatchingCurrency

(* The k-anon query reports its task: the second tracker's last report finds *)
(* the lookup done and the call not ended.                                   *)
LEMMA KAnonReports ==
  ASSUME Inv, kanon \in {"queued", "asked"}, kanon' = "resolved",
         NEW st \in TaskStatus, KTaskCompleted(st), queried' \subseteq Hashes,
         kstatus' = {x \in bids : /\ BidInfo[x].hashes # {}
                                  /\ BidInfo[x].hashes \subseteq queried'},
         UNCHANGED <<conf, inputs, cancelled, call, bidTracker, bids, anyOk, kv, signals,
                     score, scored, join, errs, finish, result, deleted>>,
         UNCHANGED fetchVars
  PROVE  Inv'
<1>0. /\ TypeOK /\ FinishAtMostOnce /\ NothingStarted /\ BidsComeFirst
      /\ EachBuyerOnce /\ KTasksAllReport /\ CallHasOneOwner /\ BidTasksCounted
      /\ AllBuyersFailedIsAnError /\ CancelledIsReported
      /\ KAnonStatusIsRight /\ KAnonBeforeScoring
      /\ ReplaySolicitsAll /\ CacheMatchesSolicited
  BY DEF Inv
<1>1. UNCHANGED <<invoked, main, todo, chaff, solicited>>
  BY DEF fetchVars
<1>2. /\ AfterBids /\ AfterBids' /\ conf.kanon /\ score = "idle"
      /\ flow \in {"idle", "fetchSignals"}
      /\ main \in {"loop", "returned"} /\ todo = {} /\ call = {}
  BY <1>0 DEF AfterBids, KTasksAllReport, CallHasOneOwner, BidsComeFirst, TypeOK
<1>3. /\ kTracker.pending = 1 + (IF conf.fetch /\ ~KvReported THEN 1 ELSE 0)
      /\ kTracker.pending > 0
  BY <1>0, <1>2 DEF KTasksAllReport
<1>4. /\ kTracker' \in Tracker /\ kTracker'.pending = kTracker.pending - 1
      /\ flow' = IF kTracker'.pending = 0 THEN "signalsDone" ELSE flow
  BY <1>0, <1>3, KReported
<1>5. KvReported' <=> KvReported
  BY DEF KvReported
<1>6. TypeOK'
  <2>1. kstatus' \subseteq Bids
    BY <1>0 DEF TypeOK
  <2> QED BY <1>0, <1>1, <1>2, <1>4, <2>1 DEF TypeOK
<1>7. FinishAtMostOnce' /\ NothingStarted' /\ BidsComeFirst' /\ EachBuyerOnce'
  BY <1>0, <1>1, <1>2, <1>4 DEF FinishAtMostOnce, NothingStarted, BidsComeFirst,
                                EachBuyerOnce
<1>8. KTasksAllReport'
  BY <1>0, <1>1, <1>2, <1>3, <1>4, <1>5 DEF KTasksAllReport
<1>9. CallHasOneOwner'
  <2>1. CASE kTracker'.pending = 0
    <3>1. flow' = "signalsDone" /\ (conf.fetch => KvReported)
      BY <1>3, <1>4, <2>1
    <3>2. finish = <<>> /\ kv \notin {"sent", "tail"}
      BY <1>0, <3>1 DEF CallHasOneOwner, KTasksAllReport, KvReported
    <3> QED BY <1>0, <1>2, <1>5, <3>1, <3>2 DEF CallHasOneOwner
  <2>2. CASE kTracker'.pending # 0
    <3>1. flow' = flow
      BY <1>4, <2>2
    <3> QED BY <1>0, <1>2, <1>5, <3>1 DEF CallHasOneOwner
  <2> QED BY <2>1, <2>2
<1>10. BidTasksCounted' /\ AllBuyersFailedIsAnError' /\ CancelledIsReported'
  BY <1>0, <1>1, <1>2, <1>4 DEF BidTasksCounted, AllBuyersFailedIsAnError,
                                CancelledIsReported, IsCancelled
<1>11. KAnonStatusIsRight' /\ KAnonBeforeScoring'
  BY <1>2 DEF KAnonStatusIsRight, KAnonBeforeScoring
<1>12. ReplaySolicitsAll' /\ CacheMatchesSolicited'
  BY <1>0, ReplayFrame
<1> QED BY <1>6, <1>7, <1>8, <1>9, <1>10, <1>11, <1>12 DEF Inv

(* The query starts: it has nothing to ask, is refused, or is under way. *)
LEMMA QueryKAnonHashesInv == Inv /\ QueryKAnonHashes => Inv'
<1> SUFFICES ASSUME Inv, QueryKAnonHashes PROVE Inv'
  OBVIOUS
<1>0. /\ TypeOK /\ FinishAtMostOnce /\ NothingStarted /\ BidsComeFirst
      /\ EachBuyerOnce /\ KTasksAllReport /\ CallHasOneOwner /\ BidTasksCounted
      /\ AllBuyersFailedIsAnError /\ CancelledIsReported
      /\ KAnonStatusIsRight /\ KAnonBeforeScoring
      /\ ReplaySolicitsAll /\ CacheMatchesSolicited
  BY DEF Inv
<1>1. /\ kanon = "queued"
      /\ UNCHANGED <<conf, inputs, cancelled, call, bidTracker, bids, anyOk, queried, kv,
                     signals, score, scored, join, errs, finish, result, deleted>>
      /\ UNCHANGED fetchVars
  BY DEF QueryKAnonHashes, requestVars, bidVars, signalVars, scoreVars, endVars
<1>2. queried = {} /\ queried' \subseteq Hashes
  BY <1>0, <1>1 DEF KAnonStatusIsRight
<1>3. CASE KTaskCompleted("SKIPPED") /\ kanon' = "resolved" /\ UNCHANGED kstatus
  <2>1. kstatus' = {x \in bids : /\ BidInfo[x].hashes # {}
                                 /\ BidInfo[x].hashes \subseteq queried'}
    BY <1>0, <1>1, <1>3 DEF KAnonStatusIsRight
  <2> QED BY <1>1, <1>2, <1>3, <2>1, KAnonReports DEF TaskStatus
<1>4. CASE PopulateKAnonStatusForBids({}) /\ KTaskCompleted("ERROR") /\ kanon' = "resolved"
  <2>1. kstatus' = {x \in bids : /\ BidInfo[x].hashes # {}
                                 /\ BidInfo[x].hashes \subseteq queried'}
    BY <1>1, <1>2, <1>4 DEF PopulateKAnonStatusForBids
  <2> QED BY <1>1, <1>2, <1>4, <2>1, KAnonReports DEF TaskStatus
<1>5. CASE kanon' = "asked" /\ UNCHANGED <<kstatus, kTracker, flow>>
  <2>0. UNCHANGED <<invoked, main, todo, chaff, solicited>>
    BY <1>1 DEF fetchVars
  <2>1. TypeOK'
    BY <1>0, <1>1, <1>5, <2>0 DEF TypeOK
  <2>2. AfterBids /\ AfterBids' /\ (KvReported' <=> KvReported)
    BY <1>1, <1>5 DEF AfterBids, KvReported
  <2>3. FinishAtMostOnce' /\ NothingStarted' /\ BidsComeFirst' /\ EachBuyerOnce'
    BY <1>0, <1>1, <1>5, <2>0, <2>2 DEF FinishAtMostOnce, NothingStarted, BidsComeFirst,
                                        EachBuyerOnce
  <2>4. KTasksAllReport' /\ CallHasOneOwner'
    BY <1>0, <1>1, <1>5, <2>0, <2>2 DEF KTasksAllReport, CallHasOneOwner
  <2>5. BidTasksCounted' /\ AllBuyersFailedIsAnError' /\ CancelledIsReported'
    BY <1>0, <1>1, <1>5, <2>0, <2>2 DEF BidTasksCounted, AllBuyersFailedIsAnError,
                                        CancelledIsReported, IsCancelled
  <2>6. KAnonStatusIsRight' /\ KAnonBeforeScoring'
    BY <1>0, <1>1, <1>2, <1>5, <2>4 DEF KAnonStatusIsRight, KAnonBeforeScoring,
       CallHasOneOwner
  <2>7. ReplaySolicitsAll' /\ CacheMatchesSolicited'
    BY <1>0, <1>1, ReplayFrame
  <2> QED BY <2>1, <2>3, <2>4, <2>5, <2>6, <2>7 DEF Inv
<1> QED BY <1>3, <1>4, <1>5 DEF QueryKAnonHashes

(* The query is answered. *)
LEMMA OnKAnonHashesQueriedInv == Inv /\ OnKAnonHashesQueried => Inv'
<1> SUFFICES ASSUME Inv, OnKAnonHashesQueried PROVE Inv'
  OBVIOUS
<1>0. TypeOK /\ KAnonStatusIsRight
  BY DEF Inv
<1>1. /\ kanon = "asked" /\ kanon' = "resolved"
      /\ UNCHANGED <<conf, inputs, cancelled, call, bidTracker, bids, anyOk, kv,
                     signals, score, scored, join, errs, finish, result, deleted>>
      /\ UNCHANGED fetchVars
  BY DEF OnKAnonHashesQueried, requestVars, bidVars, signalVars, scoreVars, endVars
<1>2. CASE KTaskCompleted("ERROR") /\ UNCHANGED <<queried, kstatus>>
  <2>1. kstatus' = {x \in bids : /\ BidInfo[x].hashes # {}
                                 /\ BidInfo[x].hashes \subseteq queried'}
    BY <1>0, <1>1, <1>2 DEF KAnonStatusIsRight
  <2> QED BY <1>0, <1>1, <1>2, <2>1, KAnonReports DEF TaskStatus, TypeOK
<1>3. CASE /\ queried' \in SUBSET GetKAnonHashesForBids
           /\ PopulateKAnonStatusForBids(queried') /\ KTaskCompleted("SUCCESS")
  <2>1. kstatus' = {x \in bids : /\ BidInfo[x].hashes # {}
                                 /\ BidInfo[x].hashes \subseteq queried'}
    BY <1>3 DEF PopulateKAnonStatusForBids
  <2>2. queried' \subseteq Hashes
    BY <1>0, <1>3 DEF TypeOK, GetKAnonHashesForBids, Hashes
  <2> QED BY <1>1, <1>3, <2>1, <2>2, KAnonReports DEF TaskStatus
<1> QED BY <1>2, <1>3 DEF OnKAnonHashesQueried

(* The lookup reports its task: the second tracker's last report finds the   *)
(* query resolved and the call not ended.                                    *)
LEMMA LookupReports ==
  ASSUME Inv, kv = "sent", kv' = "done", NEW st \in TaskStatus, KTaskCompleted(st),
         signals' \in {"ok", "empty", "error"}, conf.v2 => signals' # "error",
         UNCHANGED <<conf, inputs, cancelled, call, bidTracker, bids, anyOk,
                     score, scored, join, errs, finish, result, deleted>>,
         UNCHANGED fetchVars, UNCHANGED kanonVars
  PROVE  Inv'
<1>0. /\ TypeOK /\ FinishAtMostOnce /\ NothingStarted /\ BidsComeFirst
      /\ EachBuyerOnce /\ KTasksAllReport /\ CallHasOneOwner /\ BidTasksCounted
      /\ AllBuyersFailedIsAnError /\ CancelledIsReported
      /\ KAnonStatusIsRight /\ KAnonBeforeScoring
      /\ ReplaySolicitsAll /\ CacheMatchesSolicited
  BY DEF Inv
<1>1. UNCHANGED <<invoked, main, todo, chaff, solicited, kanon, queried, kstatus>>
  BY DEF fetchVars, kanonVars
<1>2. /\ AfterBids /\ AfterBids' /\ conf.fetch /\ score = "idle" /\ finish = <<>>
      /\ flow = "idle" /\ ~KvReported /\ KvReported'
      /\ main \in {"loop", "returned"} /\ todo = {} /\ call = {}
  BY <1>0 DEF AfterBids, KTasksAllReport, CallHasOneOwner, BidsComeFirst, KvReported
<1>3. /\ kTracker.pending = (IF conf.kanon /\ kanon # "resolved" THEN 1 ELSE 0) + 1
      /\ kTracker.pending > 0
  BY <1>0, <1>2 DEF KTasksAllReport
<1>4. /\ kTracker' \in Tracker /\ kTracker'.pending = kTracker.pending - 1
      /\ flow' = IF kTracker'.pending = 0 THEN "signalsDone" ELSE flow
  BY <1>0, <1>3, KReported
<1>5. TypeOK'
  BY <1>0, <1>1, <1>2, <1>4 DEF TypeOK
<1>6. FinishAtMostOnce' /\ NothingStarted' /\ BidsComeFirst' /\ EachBuyerOnce'
  BY <1>0, <1>1, <1>2, <1>4 DEF FinishAtMostOnce, NothingStarted, BidsComeFirst,
                                EachBuyerOnce
<1>7. KTasksAllReport'
  BY <1>0, <1>1, <1>2, <1>3, <1>4 DEF KTasksAllReport
<1>8. CallHasOneOwner'
  BY <1>0, <1>1, <1>2, <1>3, <1>4 DEF CallHasOneOwner
<1>9. BidTasksCounted' /\ AllBuyersFailedIsAnError' /\ CancelledIsReported'
  BY <1>0, <1>1, <1>2, <1>4 DEF BidTasksCounted, AllBuyersFailedIsAnError,
                                CancelledIsReported, IsCancelled
<1>10. KAnonStatusIsRight' /\ KAnonBeforeScoring'
  BY <1>0, KAnonFrame DEF scoreVars
<1>11. ReplaySolicitsAll' /\ CacheMatchesSolicited'
  BY <1>0, ReplayFrame
<1> QED BY <1>5, <1>6, <1>7, <1>8, <1>9, <1>10, <1>11 DEF Inv

(* The lookup starts, or was cancelled, or is silently not sent. *)
LEMMA FetchScoringSignalsInv == Inv /\ FetchScoringSignals => Inv'
<1> SUFFICES ASSUME Inv, FetchScoringSignals PROVE Inv'
  OBVIOUS
<1>0. /\ TypeOK /\ FinishAtMostOnce /\ NothingStarted /\ BidsComeFirst
      /\ EachBuyerOnce /\ KTasksAllReport /\ CallHasOneOwner /\ BidTasksCounted
      /\ AllBuyersFailedIsAnError /\ CancelledIsReported
      /\ KAnonStatusIsRight /\ KAnonBeforeScoring
      /\ ReplaySolicitsAll /\ CacheMatchesSolicited
  BY DEF Inv
<1>1. /\ flow = "fetchSignals" /\ flow' = "idle"
      /\ UNCHANGED <<conf, inputs, cancelled, call, bidTracker, bids, anyOk, scored,
                     signals, kTracker, score, join, errs, result, deleted>>
      /\ UNCHANGED fetchVars /\ UNCHANGED kanonVars /\ UNCHANGED scoreVars
  BY DEF FetchScoringSignals, requestVars, bidVars, scoreVars
<1>2. /\ AfterBids /\ finish = <<>> /\ kv = "idle" /\ score = "idle" /\ conf.fetch
      /\ join # "sent"
  BY <1>0, <1>1 DEF AfterBids, CallHasOneOwner
<1>3. CASE IsCancelled /\ FinishWithStatus("CANCELLED") /\ UNCHANGED kv
  <2>1. /\ finish' \in Seq(Codes) /\ finish' # <<>> /\ Len(finish') = 1
    BY <1>2, <1>3, FirstFinish DEF Codes
  <2>2. FinishAtMostOnce' /\ ~KvReported' /\ conf.cancellation
    BY <1>2, <1>3, <2>1 DEF FinishAtMostOnce, KvReported, IsCancelled
  <2> QED BY <1>0, <1>1, <1>2, <1>3, <2>1, <2>2, EndStep DEF TypeOK
<1>4. CASE UNCHANGED finish /\ kv' \in {"sent", "idle"}
  <2>0. UNCHANGED <<invoked, main, todo, chaff, solicited, kanon, queried, kstatus>>
    BY <1>1 DEF fetchVars, kanonVars
  <2>1. TypeOK'
    BY <1>0, <1>1, <1>4, <2>0 DEF TypeOK
  <2>2. /\ main \in {"loop", "returned"} /\ todo = {} /\ call = {}
        /\ ~KvReported /\ ~KvReported'
    BY <1>0, <1>2, <1>4 DEF BidsComeFirst, KvReported
  <2>3. FinishAtMostOnce' /\ NothingStarted' /\ BidsComeFirst' /\ EachBuyerOnce'
    BY <1>0, <1>1, <1>4, <2>0, <2>2 DEF FinishAtMostOnce, NothingStarted, BidsComeFirst,
                                        EachBuyerOnce
  <2>4. KTasksAllReport' /\ CallHasOneOwner'
    BY <1>0, <1>1, <1>2, <1>4, <2>0, <2>2 DEF KTasksAllReport, CallHasOneOwner
  <2>5. BidTasksCounted' /\ AllBuyersFailedIsAnError' /\ CancelledIsReported'
    BY <1>0, <1>1, <1>2, <1>4, <2>0, <2>2
    DEF BidTasksCounted, AllBuyersFailedIsAnError, CancelledIsReported, IsCancelled
  <2>6. KAnonStatusIsRight' /\ KAnonBeforeScoring'
    BY <1>0, <1>1, KAnonFrame
  <2>7. ReplaySolicitsAll' /\ CacheMatchesSolicited'
    BY <1>0, <1>1, ReplayFrame
  <2> QED BY <2>1, <2>3, <2>4, <2>5, <2>6, <2>7 DEF Inv
<1> QED BY <1>2, <1>3, <1>4 DEF FetchScoringSignals

(* The V1 lookup calls back. *)
LEMMA OnScoringSignalsV1Inv == Inv /\ OnScoringSignalsV1 => Inv'
<1> SUFFICES ASSUME Inv, OnScoringSignalsV1 PROVE Inv'
  OBVIOUS
<1>1. /\ ~conf.v2 /\ kv = "sent" /\ kv' = "done"
      /\ UNCHANGED <<conf, inputs, cancelled, call, bidTracker, bids, anyOk,
                     score, scored, join, errs, finish, result, deleted>>
      /\ UNCHANGED fetchVars /\ UNCHANGED kanonVars
  BY DEF OnScoringSignalsV1, requestVars, bidVars, scoreVars, endVars
<1>2. \E st \in TaskStatus : KTaskCompleted(st)
  BY DEF OnScoringSignalsV1, TaskStatus
<1>3. signals' \in {"ok", "empty", "error"}
  BY DEF OnScoringSignalsV1, Inv, TypeOK
<1> QED BY <1>1, <1>2, <1>3, LookupReports

(* The V2 lookup calls back, and may end the call by itself. *)
LEMMA OnScoringSignalsV2Inv == Inv /\ OnScoringSignalsV2 => Inv'
<1> SUFFICES ASSUME Inv, OnScoringSignalsV2 PROVE Inv'
  OBVIOUS
<1>0. /\ TypeOK /\ FinishAtMostOnce /\ NothingStarted /\ BidsComeFirst
      /\ EachBuyerOnce /\ KTasksAllReport /\ CallHasOneOwner /\ BidTasksCounted
      /\ AllBuyersFailedIsAnError /\ CancelledIsReported
      /\ KAnonStatusIsRight /\ KAnonBeforeScoring
      /\ ReplaySolicitsAll /\ CacheMatchesSolicited
  BY DEF Inv
<1>1. /\ conf.v2 /\ kv = "sent"
      /\ UNCHANGED <<conf, inputs, cancelled, call, bidTracker, bids, anyOk,
                     score, scored, deleted>>
      /\ UNCHANGED fetchVars /\ UNCHANGED kanonVars
  BY DEF OnScoringSignalsV2, requestVars, bidVars, scoreVars
<1>2. /\ AfterBids /\ finish = <<>> /\ score = "idle" /\ flow = "idle" /\ conf.fetch
      /\ join # "sent" /\ signals = "error"
  BY <1>0, <1>1 DEF AfterBids, CallHasOneOwner, KTasksAllReport
<1>3. CASE /\ IsCancelled /\ FinishWithStatus("CANCELLED") /\ kv' = "done"
           /\ UNCHANGED <<signals, kTracker, flow, join, errs, result>>
  <2>1. /\ finish' \in Seq(Codes) /\ finish' # <<>> /\ Len(finish') = 1
    BY <1>2, <1>3, FirstFinish DEF Codes
  <2>2. FinishAtMostOnce' /\ ~KvReported'
    BY <1>1, <1>2, <1>3, <2>1 DEF FinishAtMostOnce, KvReported
  <2> QED BY <1>0, <1>1, <1>2, <1>3, <2>1, <2>2, EndStep DEF TypeOK
<1>4. CASE /\ errs' = errs \cup {"AD_SERVER"} /\ OnScoreAdsDone("empty", errs')
           /\ kv' = (IF conf.kvLog THEN "tail" ELSE "done")
           /\ UNCHANGED <<signals, kTracker, flow>>
  <2>1. /\ finish' \in Seq(Codes) /\ finish' # <<>> /\ FinishAtMostOnce'
        /\ join' \in {"idle", "sent", "done"}
        /\ join' = "sent" => conf.genuine \/ join = "sent"
        /\ result' \in {"none", "chaff", "winner", "clientError"}
    BY <1>0, <1>1, <1>2, <1>4, EndOfCall
  <2>2. ~KvReported' /\ errs' \subseteq {"AD_SERVER", "CLIENT"}
    BY <1>0, <1>1, <1>2, <1>4 DEF KvReported, TypeOK
  <2>3. /\ kv' \in {"done", "tail"} /\ (kv' = "tail" => conf.kvLog)
    BY <1>4
  <2> QED BY <1>0, <1>1, <1>2, <1>4, <2>1, <2>2, <2>3, EndStep
<1>5. CASE /\ signals' \in {"ok", "empty"} /\ kv' = "done" /\ KTaskCompleted("SUCCESS")
           /\ UNCHANGED endVars
  BY <1>1, <1>5, LookupReports DEF endVars, TaskStatus
<1> QED BY <1>3, <1>4, <1>5 DEF OnScoringSignalsV2

(* Both tasks have reported: the call goes on to scoring, or ends. *)
LEMMA OnFetchScoringSignalsDoneInv == Inv /\ OnFetchScoringSignalsDone => Inv'
<1> SUFFICES ASSUME Inv, OnFetchScoringSignalsDone PROVE Inv'
  OBVIOUS
<1>0. /\ TypeOK /\ FinishAtMostOnce /\ NothingStarted /\ BidsComeFirst
      /\ EachBuyerOnce /\ KTasksAllReport /\ CallHasOneOwner /\ BidTasksCounted
      /\ AllBuyersFailedIsAnError /\ CancelledIsReported
      /\ KAnonStatusIsRight /\ KAnonBeforeScoring
      /\ ReplaySolicitsAll /\ CacheMatchesSolicited
  BY DEF Inv
<1>1. /\ flow = "signalsDone"
      /\ UNCHANGED <<conf, inputs, cancelled, call, bidTracker, bids, anyOk, kv, signals,
                     kTracker, score, scored, deleted>>
      /\ UNCHANGED fetchVars /\ UNCHANGED kanonVars /\ UNCHANGED scoreVars
  BY DEF OnFetchScoringSignalsDone, requestVars, bidVars, signalVars, scoreVars
<1>2. /\ AfterBids /\ finish = <<>> /\ score = "idle" /\ kv \notin {"sent", "tail"}
      /\ kanon \notin {"queued", "asked"} /\ join # "sent"
      /\ (conf.kanon => kanon = "resolved") /\ (conf.fetch => KvReported)
  BY <1>0, <1>1 DEF AfterBids, CallHasOneOwner, KTasksAllReport
<1>3. CASE flow' = "scoreAds" /\ UNCHANGED endVars
  <2>0. /\ UNCHANGED <<invoked, main, todo, chaff, solicited, kanon, queried, kstatus>>
        /\ UNCHANGED <<join, errs, finish, result>>
    BY <1>1, <1>3 DEF fetchVars, kanonVars, endVars
  <2>1. TypeOK'
    BY <1>0, <1>1, <1>3, <2>0 DEF TypeOK
  <2>2. /\ main \in {"loop", "returned"} /\ todo = {} /\ call = {} /\ AfterBids'
        /\ (KvReported' <=> KvReported)
    BY <1>0, <1>1, <1>2, <1>3 DEF BidsComeFirst, KvReported, AfterBids
  <2>3. FinishAtMostOnce' /\ NothingStarted' /\ BidsComeFirst' /\ EachBuyerOnce'
    BY <1>0, <1>1, <1>3, <2>0, <2>2 DEF FinishAtMostOnce, NothingStarted, BidsComeFirst,
                                        EachBuyerOnce
  <2>4. KTasksAllReport' /\ CallHasOneOwner'
    BY <1>0, <1>1, <1>2, <1>3, <2>0, <2>2 DEF KTasksAllReport, CallHasOneOwner
  <2>5. BidTasksCounted' /\ AllBuyersFailedIsAnError' /\ CancelledIsReported'
    BY <1>0, <1>1, <1>2, <1>3, <2>0, <2>2
    DEF BidTasksCounted, AllBuyersFailedIsAnError, CancelledIsReported, IsCancelled
  <2>6. KAnonStatusIsRight' /\ KAnonBeforeScoring'
    BY <1>0, <1>1, KAnonFrame
  <2>7. ReplaySolicitsAll' /\ CacheMatchesSolicited'
    BY <1>0, <1>1, ReplayFrame
  <2> QED BY <2>1, <2>3, <2>4, <2>5, <2>6, <2>7 DEF Inv
<1>4. CASE /\ flow' = "idle" /\ errs' \subseteq {"AD_SERVER", "CLIENT"}
           /\ OnScoreAdsDone("empty", errs')
  <2>1. /\ finish' \in Seq(Codes) /\ finish' # <<>> /\ FinishAtMostOnce'
        /\ join' \in {"idle", "sent", "done"}
        /\ join' = "sent" => conf.genuine \/ join = "sent"
        /\ result' \in {"none", "chaff", "winner", "clientError"}
    BY <1>0, <1>1, <1>2, <1>4, EndOfCall
  <2> QED BY <1>1, <1>2, <1>4, <2>1, EndStep
<1>5. CASE ~conf.fetch \/ signals = "ok"
  BY <1>3, <1>4, <1>5 DEF OnFetchScoringSignalsDone
<1>6. CASE ~(~conf.fetch \/ signals = "ok")
  <2>1. flow' = "idle" /\ errs' \subseteq {"AD_SERVER", "CLIENT"}
    BY <1>0, <1>6 DEF OnFetchScoringSignalsDone, TypeOK
  <2>2. OnScoreAdsDone("empty", errs')
    BY <1>6 DEF OnFetchScoringSignalsDone
  <2> QED BY <1>4, <2>1, <2>2
<1> QED BY <1>5, <1>6

(* Scoring starts, or the call ends here. *)
LEMMA ScoreAdsInv == Inv /\ ScoreAds => Inv'
<1> SUFFICES ASSUME Inv, ScoreAds PROVE Inv'
  OBVIOUS
<1>0. /\ TypeOK /\ FinishAtMostOnce /\ NothingStarted /\ BidsComeFirst
      /\ EachBuyerOnce /\ KTasksAllReport /\ CallHasOneOwner /\ BidTasksCounted
      /\ AllBuyersFailedIsAnError /\ CancelledIsReported
      /\ KAnonStatusIsRight /\ KAnonBeforeScoring
      /\ ReplaySolicitsAll /\ CacheMatchesSolicited
  BY DEF Inv
<1>1. /\ flow = "scoreAds" /\ flow' = "idle"
      /\ UNCHANGED <<conf, inputs, cancelled, call, bidTracker, bids, anyOk, kv, signals,
                     kTracker, join, errs, result, deleted>>
      /\ UNCHANGED fetchVars /\ UNCHANGED kanonVars
  BY DEF ScoreAds, requestVars, bidVars, signalVars
<1>2. /\ AfterBids /\ finish = <<>> /\ score = "idle" /\ kv \notin {"sent", "tail"}
      /\ kanon \notin {"queued", "asked"} /\ join # "sent"
      /\ (conf.kanon => kanon = "resolved") /\ (conf.fetch => KvReported)
  BY <1>0, <1>1 DEF AfterBids, CallHasOneOwner, KTasksAllReport
<1>3. CASE /\ FinishWithStatus("CANCELLED") \/ FinishWithStatus("INTERNAL")
           /\ UNCHANGED scoreVars
  <2>1. /\ finish' \in Seq(Codes) /\ finish' # <<>> /\ Len(finish') = 1
    BY <1>2, <1>3, FirstFinish DEF Codes
  <2>2. FinishAtMostOnce'
    BY <2>1 DEF FinishAtMostOnce
  <2> QED BY <1>0, <1>1, <1>2, <1>3, <2>1, <2>2, EndStep DEF TypeOK, scoreVars
<1>4. CASE /\ score' = "sent" /\ scored' = (IF conf.kanon THEN kstatus ELSE bids)
           /\ UNCHANGED finish
  <2>0. UNCHANGED <<invoked, main, todo, chaff, solicited, kanon, queried, kstatus>>
    BY <1>1 DEF fetchVars, kanonVars
  <2>1. TypeOK'
    BY <1>0, <1>1, <1>4, <2>0 DEF TypeOK
  <2>2. /\ main \in {"loop", "returned"} /\ todo = {} /\ call = {} /\ AfterBids'
        /\ (KvReported' <=> KvReported)
    BY <1>0, <1>1, <1>2, <1>4 DEF BidsComeFirst, KvReported, AfterBids
  <2>3. FinishAtMostOnce' /\ NothingStarted' /\ BidsComeFirst' /\ EachBuyerOnce'
    BY <1>0, <1>1, <1>4, <2>0, <2>2 DEF FinishAtMostOnce, NothingStarted, BidsComeFirst,
                                        EachBuyerOnce
  <2>4. KTasksAllReport' /\ CallHasOneOwner'
    BY <1>0, <1>1, <1>2, <1>4, <2>0, <2>2 DEF KTasksAllReport, CallHasOneOwner
  <2>5. BidTasksCounted' /\ AllBuyersFailedIsAnError' /\ CancelledIsReported'
    BY <1>0, <1>1, <1>2, <1>4, <2>0, <2>2
    DEF BidTasksCounted, AllBuyersFailedIsAnError, CancelledIsReported, IsCancelled
  <2>6. KAnonStatusIsRight' /\ KAnonBeforeScoring'
    BY <1>0, <1>1, <1>2, <1>4, <2>0 DEF KAnonStatusIsRight, KAnonBeforeScoring
  <2>7. ReplaySolicitsAll' /\ CacheMatchesSolicited'
    BY <1>0, <1>1, ReplayFrame
  <2> QED BY <2>1, <2>3, <2>4, <2>5, <2>6, <2>7 DEF Inv
<1> QED BY <1>3, <1>4 DEF ScoreAds

(* Scoring is over, and ends the call. *)
LEMMA OnScoringDoneInv == Inv /\ OnScoringDone => Inv'
<1> SUFFICES ASSUME Inv, OnScoringDone PROVE Inv'
  OBVIOUS
<1>0. /\ TypeOK /\ FinishAtMostOnce /\ NothingStarted /\ BidsComeFirst
      /\ EachBuyerOnce /\ KTasksAllReport /\ CallHasOneOwner /\ BidTasksCounted
      /\ AllBuyersFailedIsAnError /\ CancelledIsReported
      /\ KAnonStatusIsRight /\ KAnonBeforeScoring
      /\ ReplaySolicitsAll /\ CacheMatchesSolicited
  BY DEF Inv
<1>1. /\ score = "sent" /\ score' = "done"
      /\ UNCHANGED <<conf, inputs, cancelled, call, bidTracker, bids, flow, anyOk, kv,
                     signals, kTracker, scored, errs, deleted>>
      /\ UNCHANGED fetchVars /\ UNCHANGED kanonVars
  BY DEF OnScoringDone, requestVars, bidVars, flowVars, signalVars
<1>2. /\ AfterBids /\ finish = <<>> /\ kv \notin {"sent", "tail"}
      /\ kanon \notin {"queued", "asked"} /\ join # "sent" /\ flow = "idle"
  BY <1>0, <1>1 DEF AfterBids, CallHasOneOwner, KTasksAllReport
<1>3. CASE FinishWithStatus("CANCELLED") /\ UNCHANGED <<join, result>>
  <2>1. /\ finish' \in Seq(Codes) /\ finish' # <<>> /\ Len(finish') = 1
    BY <1>2, <1>3, FirstFinish DEF Codes
  <2>2. FinishAtMostOnce'
    BY <2>1 DEF FinishAtMostOnce
  <2> QED BY <1>0, <1>1, <1>2, <1>3, <2>1, <2>2, EndStep DEF TypeOK
<1>4. CASE \E r \in {"winner", "empty", "INTERNAL", "OTHER"} : OnScoreAdsDone(r, errs)
  <2>1. /\ finish' \in Seq(Codes) /\ finish' # <<>> /\ FinishAtMostOnce'
        /\ join' \in {"idle", "sent", "done"}
        /\ join' = "sent" => conf.genuine \/ join = "sent"
        /\ result' \in {"none", "chaff", "winner", "clientError"}
    BY <1>0, <1>1, <1>2, <1>4, EndOfCall
  <2> QED BY <1>0, <1>1, <1>2, <2>1, EndStep DEF TypeOK
<1> QED BY <1>3, <1>4 DEF OnScoringDone

(* What comes after the call was ended, the client's cancellation, and       *)
(* steps that leave the reactor as it is.                                    *)
LEMMA AftermathInv ==
  ASSUME Inv,
         ScoringSignalsV2Tail \/ OnJoinDone \/ OnCancel \/ OnDone \/ UNCHANGED vars
  PROVE  Inv'
<1>0. /\ TypeOK /\ FinishAtMostOnce /\ NothingStarted /\ BidsComeFirst
      /\ EachBuyerOnce /\ KTasksAllReport /\ CallHasOneOwner /\ BidTasksCounted
      /\ AllBuyersFailedIsAnError /\ CancelledIsReported
      /\ KAnonStatusIsRight /\ KAnonBeforeScoring
      /\ ReplaySolicitsAll /\ CacheMatchesSolicited
  BY DEF Inv
<1>1. /\ UNCHANGED <<conf, inputs, call, bidTracker, bids, flow, anyOk, signals,
                     kTracker, score, scored, errs, finish, result, invoked, main, todo,
                     chaff, solicited, kanon, queried, kstatus>>
      /\ UNCHANGED fetchVars /\ UNCHANGED kanonVars /\ UNCHANGED scoreVars
  BY DEF ScoringSignalsV2Tail, OnJoinDone, OnCancel, OnDone, vars, requestVars, fetchVars,
         bidVars, flowVars, kanonVars, signalVars, scoreVars, endVars
<1>2. /\ kv' = kv \/ (kv = "tail" /\ kv' = "done")
      /\ join' = join \/ (join = "sent" /\ join' = "done")
      /\ cancelled' = cancelled \/ cancelled' = TRUE
      /\ deleted' = deleted \/ (finish # <<>> /\ deleted' = TRUE)
  <2>1. /\ kv' = kv \/ (kv = "tail" /\ kv' = "done")
        /\ join' = join \/ (join = "sent" /\ join' = "done")
    BY DEF ScoringSignalsV2Tail, OnJoinDone, OnCancel, OnDone, vars, signalVars, endVars
  <2>2. /\ cancelled' = cancelled \/ cancelled' = TRUE
        /\ deleted' = deleted \/ (finish # <<>> /\ deleted' = TRUE)
    BY Zenon DEF ScoringSignalsV2Tail, OnJoinDone, OnCancel, OnDone, vars
  <2> QED BY <2>1, <2>2
<1>3. TypeOK'
  <2>1. cancelled' \in BOOLEAN /\ deleted' \in BOOLEAN
    BY <1>0, <1>2, Zenon DEF TypeOK
  <2> QED BY <1>0, <1>1, <1>2, <2>1 DEF TypeOK
<1>4. KvReported' <=> KvReported
  <2>1. kv = "tail" => conf.v2 /\ signals = "error"
    BY <1>0 DEF CallHasOneOwner, KTasksAllReport
  <2> QED BY <1>1, <1>2, <2>1 DEF KvReported
<1>5. AfterBids' <=> AfterBids
  BY <1>1, <1>2 DEF AfterBids
<1>6. FinishAtMostOnce' /\ NothingStarted' /\ BidsComeFirst' /\ EachBuyerOnce'
  BY <1>0, <1>1, <1>2, <1>5 DEF FinishAtMostOnce, NothingStarted, BidsComeFirst,
                                EachBuyerOnce
<1>7. KTasksAllReport'
  BY <1>0, <1>1, <1>2, <1>4, <1>5 DEF KTasksAllReport
<1>8. CallHasOneOwner'
  BY <1>0, <1>1, <1>2, <1>4 DEF CallHasOneOwner
<1>9. IsCancelled => IsCancelled'
  BY <1>1, <1>2 DEF IsCancelled
<1>10. BidTasksCounted' /\ AllBuyersFailedIsAnError' /\ CancelledIsReported'
  BY <1>0, <1>1, <1>5, <1>9 DEF BidTasksCounted, AllBuyersFailedIsAnError,
                                CancelledIsReported
<1>11. KAnonStatusIsRight' /\ KAnonBeforeScoring'
  BY <1>0, <1>1, KAnonFrame
<1>12. ReplaySolicitsAll' /\ CacheMatchesSolicited'
  BY <1>0, <1>1, ReplayFrame
<1> QED BY <1>3, <1>6, <1>7, <1>8, <1>10, <1>11, <1>12 DEF Inv

-----------------------------------------------------------------------------
(* The results. *)

LEMMA NextInv == Inv /\ [Next]_vars => Inv'
BY ExecuteInv, FetchBidsInv, FetchBidsLoopInv, FetchBidsReturnInv, OnFetchBidsDoneInv,
   OnAllBidsDoneInv, QueryKAnonHashesInv, OnKAnonHashesQueriedInv, FetchScoringSignalsInv,
   OnScoringSignalsV1Inv, OnScoringSignalsV2Inv, OnFetchScoringSignalsDoneInv, ScoreAdsInv,
   OnScoringDoneInv, AftermathInv
DEF Next, Released

(* Inv is an invariant of the reactor. *)
THEOREM Invariance == Spec => []Inv
BY InitInv, NextInv, PTL DEF Spec

(* The callbacks that hold the reactor, one by one. *)
LEMMA WhoIsOutstanding ==
  ASSUME NEW c \in Outstanding
  PROVE  \/ \E b \in call : c = <<"bid", b>>
         \/ c = <<"kanon", "rpc">> /\ kanon \in {"queued", "asked"}
         \/ c = <<"kv", "rpc">> /\ kv \in {"sent", "tail"}
         \/ c = <<"score", "rpc">> /\ score = "sent"
         \/ c = <<"join", "rpc">> /\ join = "sent"
<1>1. CASE c \in {"bid"} \X call
  BY <1>1
<1>2. CASE c \notin {"bid"} \X call
  BY <1>2, Zenon DEF Outstanding
<1> QED BY <1>1, <1>2

(* Nothing that follows the bids is under way when the call was ended, but   *)
(* for the callbacks that are named.                                         *)
LEMMA InvMeansKnownStragglers == Inv => StragglersAreKnown
<1> SUFFICES ASSUME Inv, deleted, NEW c \in Outstanding
             PROVE  \/ c[1] = "kanon" /\ conf.fetch /\ (conf.v2 \/ conf.cancellation)
                    \/ c[1] = "join" /\ conf.genuine
                    \/ c[1] = "kv" /\ kv = "tail" /\ conf.kvLog /\ conf.v2
  BY DEF StragglersAreKnown
<1>1. finish # <<>> /\ CallHasOneOwner /\ BidsComeFirst
  BY DEF Inv, CallHasOneOwner
<1>2. call = {} /\ kv # "sent" /\ score # "sent"
  BY <1>1 DEF CallHasOneOwner, BidsComeFirst
<1>3. \/ c = <<"kanon", "rpc">> /\ kanon \in {"queued", "asked"}
      \/ c = <<"kv", "rpc">> /\ kv = "tail"
      \/ c = <<"join", "rpc">> /\ join = "sent"
  BY <1>2, WhoIsOutstanding
<1>4. \A s \in {"kanon", "kv", "join"} : <<s, "rpc">>[1] = s
  OBVIOUS
<1> QED BY <1>1, <1>3, <1>4 DEF CallHasOneOwner

(* However the RPCs of a request complete, fail or are cancelled, the call   *)
(* is finished at most once, and only the named callbacks outlive it.        *)
THEOREM LifeCycleIsSafe == Spec => []SelectAdLifeCycle
<1>1. Inv => SelectAdLifeCycle
  BY InvMeansKnownStragglers DEF SelectAdLifeCycle, Inv
<1> QED BY <1>1, Invariance, PTL

(* The tracker of FetchBids always waits for what is left to answer, and     *)
(* the status of the call says what its tasks reported.                      *)
THEOREM OutcomeIsRight == Spec => []OutcomeMatchesTasks
<1>1. Inv => OutcomeMatchesTasks
  <2> SUFFICES ASSUME Inv PROVE BidTasksAllReport
    BY DEF OutcomeMatchesTasks, Inv
  <2>1. TypeOK /\ BidTasksCounted /\ BidsComeFirst /\ NothingStarted
    BY DEF Inv
  <2>2. Cardinality(todo) \in Nat /\ Cardinality(call) \in Nat
    BY <2>1, BuyersAreFinite DEF TypeOK
  <2>3. call # {} => main \in {"loop", "returned"} /\ finish = <<>>
    BY <2>1 DEF TypeOK, BidsComeFirst, NothingStarted
  <2> QED BY <2>1, <2>2, <2>3 DEF BidTasksAllReport, BidTasksCounted, BidsComeFirst
<1> QED BY <1>1, Invariance, PTL

(* With enforcement, scoring sees the resolved k-anonymity of every bid. *)
THEOREM ScoringSeesKAnonymity == Spec => []KAnonBeforeScoring
<1>1. Inv => KAnonBeforeScoring
  BY DEF Inv
<1> QED BY <1>1, Invariance, PTL

(* The cache of invoked buyers names exactly whom this ciphertext was sent   *)
(* to, for a first service and for a replay alike.                           *)
THEOREM ReplaysLookAlike == Spec => []CacheMatchesSolicited
<1>1. Inv => CacheMatchesSolicited
  BY DEF Inv
<1> QED BY <1>1, Invariance, PTL

(* After OnAllBidsDone the shared map of bids is read without its lock: no   *)
(* step changes it any more.                                                 *)
THEOREM BidsAreFrozen == Spec => BidsFrozen
<1>1. Inv /\ [Next]_vars => [AfterBids => bids' = bids]_vars
  <2> SUFFICES ASSUME Inv, Next, AfterBids PROVE bids' = bids
    BY DEF vars
  <2>1. call = {} /\ flow # "allBidsDone"
    BY DEF Inv, BidsComeFirst
  <2> QED
    BY <2>1 DEF Next, Execute, FetchBids, FetchBidsLoop, FetchBidsReturn, OnFetchBidsDone,
       OnAllBidsDone, QueryKAnonHashes, OnKAnonHashesQueried, FetchScoringSignals,
       OnScoringSignalsV1, OnScoringSignalsV2, ScoringSignalsV2Tail,
       OnFetchScoringSignalsDone, ScoreAds, OnScoringDone, OnJoinDone, OnCancel, OnDone,
       Released, vars, bidVars
<1> QED BY <1>1, Invariance, PTL DEF Spec, BidsFrozen

-----------------------------------------------------------------------------
(* The reactor implements UnaryReactor. *)

(* The party that ends the call finds it not ended, and only grpc's OnDone   *)
(* deletes the reactor.                                                      *)
LEMMA FinishIsFinal ==
  ASSUME Inv, Next
  PROVE  /\ finish # <<>> => finish' = finish
         /\ deleted' = deleted \/ (finish # <<>> /\ finish' = finish /\ deleted' = TRUE)
         /\ conf' = conf
<1>1. NothingStarted /\ CallHasOneOwner
  BY DEF Inv
<1>2. finish # <<>> => /\ main # "start" /\ flow = "idle" /\ kv # "sent" /\ score # "sent"
  BY <1>1 DEF NothingStarted, CallHasOneOwner
<1>3. finish # <<>> => finish' = finish
  BY <1>2 DEF Next, Execute, FetchBids, FetchBidsLoop, FetchBidsReturn, OnFetchBidsDone,
     OnAllBidsDone, QueryKAnonHashes, OnKAnonHashesQueried, FetchScoringSignals,
     OnScoringSignalsV1, OnScoringSignalsV2, ScoringSignalsV2Tail,
     OnFetchScoringSignalsDone, ScoreAds, OnScoringDone, OnJoinDone, OnCancel, OnDone,
     Released, vars, endVars
<1>4. deleted' = deleted \/ (finish # <<>> /\ finish' = finish /\ deleted' = TRUE)
  BY Zenon DEF Next, Execute, FetchBids, FetchBidsLoop, FetchBidsReturn, OnFetchBidsDone,
     OnAllBidsDone, QueryKAnonHashes, OnKAnonHashesQueried, FetchScoringSignals,
     OnScoringSignalsV1, OnScoringSignalsV2, ScoringSignalsV2Tail,
     OnFetchScoringSignalsDone, ScoreAds, OnScoringDone, OnJoinDone, OnCancel, OnDone,
     Released, vars, endVars
<1>5. conf' = conf
  BY Zenon DEF Next, Execute, FetchBids, FetchBidsLoop, FetchBidsReturn, OnFetchBidsDone,
     OnAllBidsDone, QueryKAnonHashes, OnKAnonHashesQueried, FetchScoringSignals,
     OnScoringSignalsV1, OnScoringSignalsV2, ScoringSignalsV2Tail,
     OnFetchScoringSignalsDone, ScoreAds, OnScoringDone, OnJoinDone, OnCancel, OnDone,
     Released, vars, requestVars
<1> QED BY <1>3, <1>4, <1>5

(* A sound call that was ended has no callback left, and one status. *)
LEMMA SoundCallsEndClean ==
  ASSUME Inv, Sound, finish # <<>>
  PROVE  Outstanding = {} /\ \E c \in Codes : finish = <<c>>
<1>1. CallHasOneOwner /\ BidsComeFirst /\ KTasksAllReport /\ FinishAtMostOnce /\ TypeOK
  BY DEF Inv
<1>2. call = {} /\ kv \notin {"sent", "tail"} /\ score # "sent" /\ join # "sent"
      /\ kanon \notin {"queued", "asked"}
  BY <1>1 DEF CallHasOneOwner, BidsComeFirst, KTasksAllReport, Sound
<1>3. Outstanding = {}
  BY <1>2, WhoIsOutstanding
<1>4. finish \in Seq(Codes)
  BY <1>1 DEF TypeOK
<1>5. Len(finish) = 1 /\ finish[1] \in Codes
  <2>1. Len(finish) \in Nat \ {0}
    BY <1>4, EmptySeq
  <2>2. PICK n \in Nat \ {0} : n = Len(finish)
    BY <2>1
  <2>3. n <= 1
    BY <1>1, <2>2 DEF FinishAtMostOnce, Sound
  <2>4. n = 1
    BY <2>2, <2>3
  <2> QED BY <1>4, <2>2, <2>4, ElementOfSeq
<1>6. <<finish[1]>> \in Seq(Codes) /\ Len(<<finish[1]>>) = 1
  BY <1>5
<1>7. finish = <<finish[1]>>
  BY <1>4, <1>5, <1>6, SeqEqual
<1> QED BY <1>3, <1>5, <1>7

(* The same of the state after a step. *)
LEMMA SoundCallsEndCleanNext ==
  (Inv /\ Sound /\ finish # <<>> => Outstanding = {} /\ \E c \in Codes : finish = <<c>>)'
<1>1. Inv /\ Sound /\ finish # <<>> => Outstanding = {} /\ \E c \in Codes : finish = <<c>>
  BY SoundCallsEndClean
<1> QED BY <1>1, PTL

(* Every step of the reactor is a step of UnaryReactor, or none. *)
LEMMA StepSimulation == Inv /\ [Next]_vars => [Reactor!Next]_(Reactor!vars)
<1> SUFFICES ASSUME Inv, [Next]_vars PROVE [Reactor!Next]_(Reactor!vars)
  OBVIOUS
<1>1. Inv'
  BY NextInv
<1>2. /\ finish # <<>> => finish' = finish
      /\ deleted' = deleted \/ (finish # <<>> /\ finish' = finish /\ deleted' = TRUE)
      /\ conf' = conf
  <2>1. CASE Next
    BY <2>1, FinishIsFinal
  <2>2. CASE UNCHANGED vars
    BY <2>2 DEF vars
  <2> QED BY <2>1, <2>2
<1>3. Sound' <=> Sound
  BY <1>2 DEF Sound
<1>4. CASE ~Sound
  BY <1>3, <1>4 DEF Reactor!vars
<1>5. CASE Sound
  <2>1. deleted => finish # <<>>
    BY DEF Inv, CallHasOneOwner
  <2>2. CASE finish = <<>> /\ finish' = <<>>
    <3>1. Outstanding' \subseteq ({"bid"} \X Configured)
                                 \cup ({"kanon", "kv", "score", "join"} \X {"rpc"})
      <4>1. call' \subseteq Configured
        BY <1>1 DEF Inv, TypeOK
      <4> QED BY <4>1 DEF Outstanding
    <3>2. deleted' = deleted
      BY <1>2, <2>2
    <3>3. Reactor!Work
      BY <1>3, <1>5, <2>2, <3>1, <3>2 DEF Reactor!Work
    <3> QED BY <3>3 DEF Reactor!Next
  <2>3. CASE finish = <<>> /\ finish' # <<>>
    <3>1. Outstanding' = {} /\ \E c \in Codes : finish' = <<c>>
      BY <1>1, <1>3, <1>5, <2>3, SoundCallsEndCleanNext
    <3>2. deleted' = deleted
      BY <1>2, <2>3
    <3>3. Reactor!Finish
      BY <1>3, <1>5, <2>3, <3>1, <3>2 DEF Reactor!Finish
    <3> QED BY <3>3 DEF Reactor!Next
  <2>4. CASE finish # <<>>
    <3>1. finish' = finish /\ Outstanding = {} /\ Outstanding' = {}
      BY <1>1, <1>2, <1>3, <1>5, <2>4, SoundCallsEndClean, SoundCallsEndCleanNext
    <3>2. CASE deleted' = deleted
      BY <1>3, <3>1, <3>2 DEF Reactor!vars
    <3>3. CASE deleted' # deleted
      <4>1. deleted' = TRUE /\ ~deleted
        BY <1>2, <3>3 DEF Inv, TypeOK
      <4>2. Reactor!Release
        BY <1>3, <1>5, <2>4, <3>1, <4>1 DEF Reactor!Release
      <4> QED BY <4>2 DEF Reactor!Next
    <3> QED BY <3>2, <3>3
  <2> QED BY <2>2, <2>3, <2>4
<1> QED BY <1>4, <1>5

(* On sound calls the SelectAd reactor implements UnaryReactor: it ends the  *)
(* call once, starts nothing after that, and is deleted only when no         *)
(* callback holds it.                                                        *)
THEOREM ImplementsUnaryReactor == Spec => ReactorSafety
<1>1. Init => Reactor!Init
  <2> SUFFICES ASSUME Init PROVE Reactor!Init
    OBVIOUS
  <2>1. finish = <<>> /\ Outstanding = {}
    BY DEF Init, Outstanding
  <2>2. (Sound /\ deleted) = FALSE
    BY Zenon DEF Init
  <2> QED BY <2>1, <2>2 DEF Reactor!Init
<1>2. Spec => []Inv
  BY Invariance
<1> QED BY <1>1, <1>2, StepSimulation, PTL DEF Spec, ReactorSafety, Reactor!Safety
=============================================================================

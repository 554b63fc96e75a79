--------------------------- MODULE BiddingService ---------------------------
(***************************************************************************)
(* The calls of the bidding service.  It makes one reactor per call, by    *)
(* RPC and by kind of UDF; calls share nothing that the reactors write, so *)
(* one call of any kind is looked at.                                      *)
(***************************************************************************)
EXTENDS GenerateBidsReactor

CONSTANTS AppConfigs, AppOutputs  \* see ProtectedAppSignalsReactor

VARIABLES prepared, bidInput

App == INSTANCE ProtectedAppSignalsReactor

ASSUME AppSignalsAssumption ==
  /\ AppConfigs \subseteq App!AppConfigType
  /\ \A out \in AppOutputs : out \in Seq(App!AppBidType)

generateVars == <<requests, returned, deviceSignals, tracker, pending, groupBids>>
appVars == <<prepared, bidInput>>
serviceVars == <<vars, appVars>>

ServiceInit ==
  \/ Init /\ prepared = "" /\ bidInput = {}
  \/ /\ App!Init /\ requests = <<>> /\ returned = <<>> /\ deviceSignals = "none"
     /\ tracker = SetNumTasksToTrack(0) /\ pending = {} /\ groupBids = <<>>

GenerateWork == conf.kind # "pas" /\ Work /\ UNCHANGED appVars
AppWork == conf.kind = "pas" /\ App!Work /\ UNCHANGED generateVars
Cancellation == Cancel /\ UNCHANGED appVars

ServiceStopped == IF conf.kind = "pas" THEN App!Stopped ELSE Stopped

(* Nothing is left to do, or the tracker waits. *)
Done ==
  /\ (ServiceStopped /\ stage \in {"none", "crashed"}) \/ stage = "byob"
  /\ UNCHANGED serviceVars

ServiceNext == GenerateWork \/ AppWork \/ Cancellation \/ Done

ServiceSpec ==
  ServiceInit /\ [][ServiceNext]_serviceVars /\ WF_serviceVars(GenerateWork \/ AppWork)

-----------------------------------------------------------------------------

(* The variables have their types. *)
TypeOK ==
  IF conf.kind # "pas" THEN GenerateTypeOK
  ELSE Len(finish) <= 3 /\ stage \in {"construct", "execute", "prepare", "ads",
         "metadata", "bid", "finishAgain", "none", "crashed"}

OnGenerate(P) == conf.kind # "pas" => P
OnAppSignals(P) == conf.kind = "pas" => P

(* However executions fail and come back, a bid goes out under the interest  *)
(* group that made it, a request has the device signals of its groups, and   *)
(* generateBid gets the app signals in one form.                             *)
BidsAreTheirGroups ==
  /\ OnGenerate(BidsAreAttributed /\ DeviceSignalsOfTheGroup)
  /\ OnAppSignals(App!SignalsInOneForm)

(* What a UDF wrote leaves the service within its limits: debug URLs,        *)
(* contributions of each event type, egress in wire format only.             *)
OutputWithinLimits ==
  /\ OnGenerate(DebugUrlsWithinLimits /\ ContributionsWithinLimit)
  /\ OnAppSignals(App!EgressIsEncoded)

(* See ProtectedAppSignalsReactor.  It holds of the requests that could be   *)
(* decrypted.                                                                *)
DoneIsLast == OnAppSignals(App!DoneIsLast)

(* A call is finished twice only after a failed encryption, whichever        *)
(* reactor it has; an app signals call also when it was not decrypted.  A    *)
(* binary call ends OK only when every execution has reported.               *)
BiddingLifeCycle ==
  /\ TypeOK
  /\ OnGenerate(GenerateFinishAtMostOnce /\ BinaryAnswerMatchesTasks)
  /\ OnAppSignals(App!AppSignalsFinishAtMostOnce)

(* Every call ends and its reactor is deleted, but for the binary call       *)
(* without interest groups and a call whose process aborted.                 *)
EventuallyReleased == <>ServiceStopped
=============================================================================

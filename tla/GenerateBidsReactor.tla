------------------------- MODULE GenerateBidsReactor -------------------------
(***************************************************************************)
(* One GenerateBids call of the bidding service, in its two forms.  With   *)
(* JavaScript UDFs the interest groups are dispatched as one batch, each   *)
(* on its own or, in the Microsoft build, all in one request.  With        *)
(* binary (BYOB) UDFs each group is executed on its own, the results come  *)
(* back on any thread in any order, and a task tracker waits for them.     *)
(***************************************************************************)
EXTENDS CodeDispatchReactor, AsyncTaskTracker, FiniteSets

CONSTANTS
  Configs,           \* the settings and requests to consider
  Outputs(_),        \* what generateBid may return for a dispatch id
  MaxUrlChars,       \* max_allowed_size_debug_url_chars_
  MaxAllUrlChars,    \* max_allowed_size_all_debug_urls_chars_
  ContributionLimit  \* per_adtech_paapi_contributions_limit_

(* A group's device signals come from a browser, or from Android (an empty   *)
(* message), or are missing; SerializeIG may refuse it.                      *)
GroupType ==
  [name : STRING, device : {"browser", "android", "none"}, serializes : BOOLEAN]

(* Bids are told apart by where they were made.  One may be no AdWithBid.  A *)
(* URL is its length, 0 when there is none; a contribution is its event      *)
(* type.                                                                     *)
BidType ==
  [made : STRING \X Nat, parses : BOOLEAN, ig : STRING, bid : Nat,
   allow : BOOLEAN, win : Nat, loss : Nat, events : Seq(STRING)]
OutputType == [status : {"OK", "error", "unparsable"}, bids : Seq(BidType)]

kDefaultMultiIGBidRequestName == "multi_ig_bid_request"

ASSUME BidLimits ==
  /\ MaxUrlChars \in Nat /\ MaxAllUrlChars \in Nat /\ ContributionLimit \in Nat

ASSUME GenerateBidsAssumption == \A c \in Configs :
  /\ c.kind \in {"v8", "byob"} /\ c.igs \in Seq(GroupType)
  /\ {c.microsoft, c.cancellation, c.component, c.debug} \subseteq BOOLEAN
  /\ \A i \in DOMAIN c.igs : Outputs(c.igs[i].name) \subseteq OutputType
  /\ Outputs(kDefaultMultiIGBidRequestName) \subseteq OutputType

VARIABLES
  conf,       \* runtime_config and the request
  requests,   \* dispatch_requests_, or the executions of the binary, by the
              \* place of the interest group
  returned,   \* what came back for each
  deviceSignals, \* device signals in the request reused for every execution
  tracker,    \* async_task_tracker_
  pending,    \* executions that have not called back
  groupBids,  \* ads_with_bids_by_ig_
  bids        \* the bids of raw_response_

bidVars == <<conf, requests, returned, deviceSignals, tracker, pending,
             groupBids, bids>>
vars == <<dispatchVars, bidVars>>

Init ==
  /\ DispatchInit /\ conf \in Configs
  /\ requests = <<>> /\ returned = <<>> /\ deviceSignals = "none"
  /\ tracker = SetNumTasksToTrack(0) /\ pending = {} /\ groupBids = <<>>
  /\ bids = <<>>

IsCancelled == conf.cancellation /\ cancelled

Groups == IF readable THEN conf.igs ELSE <<>>

(* A failed encryption has finished the call before the Finish that follows. *)
EncryptResponseAndFinish(st) ==
  \/ FinishWithStatus(st)
  \/ Finish("INTERNAL") /\ stage' = "finishAgain"

FinishAgain ==
  /\ stage = "finishAgain" /\ FinishWithStatus("INTERNAL")
  /\ UNCHANGED <<cancelled, readable, deleted, bidVars>>

-----------------------------------------------------------------------------
(* What is done with the bids of a UDF. *)

IsValidProtectedAudienceBid(bid) ==
  IF bid.bid = 0 THEN "INVALID_ARGUMENT"
  ELSE IF conf.component /\ ~bid.allow THEN "PERMISSION_DENIED"
  ELSE "OK"

(* The bid with the URLs it may keep when total characters are in use. *)
TrimAndReturnDebugUrlsSize(bid, total) ==
  LET Fits(url, used) == url <= MaxUrlChars /\ url + used <= MaxAllUrlChars
      win == IF Fits(bid.win, total) THEN bid.win ELSE 0
      loss == IF Fits(bid.loss, total + win) THEN bid.loss ELSE 0
  IN IF total >= MaxAllUrlChars THEN [bid EXCEPT !.win = 0, !.loss = 0]
     ELSE [bid EXCEPT !.win = win, !.loss = loss]

(* Mutant: the limit is on all contributions of the bid. *)
ProcessPAggContributionsUntyped(bid) ==
  LET e == bid.events
  IN [bid EXCEPT !.events = [i \in {j \in DOMAIN e : j <= ContributionLimit} |-> e[i]]]

(* Each event type keeps its first ContributionLimit contributions, which    *)
(* keep their place here.                                                    *)
ProcessPAggContributions(bid) ==
  LET e == bid.events
      Kept(i) == /\ e[i] # "EVENT_TYPE_UNSPECIFIED"
                 /\ Cardinality({j \in 1..i : e[j] = e[i]}) <= ContributionLimit
  IN [bid EXCEPT !.events = [i \in {j \in DOMAIN e : Kept(j)} |-> e[i]]]

(* The bids of a response so far and the characters of their debug URLs. *)
NoBids == [bids |-> <<>>, chars |-> 0]

(* A received bid that is valid joins the response. *)
AddBid(acc, bid, limitEvents) ==
  IF ~bid.parses \/ IsValidProtectedAudienceBid(bid) # "OK" THEN acc
  ELSE LET trimmed == TrimAndReturnDebugUrlsSize(bid, acc.chars)
           kept == IF limitEvents THEN ProcessPAggContributions(trimmed)
                   ELSE trimmed
       IN [bids |-> Append(acc.bids, kept),
           chars |-> acc.chars + trimmed.win + trimmed.loss]

AddBids(acc, list, limitEvents) ==
  LET added[k \in 0..Len(list)] ==
        IF k = 0 THEN acc ELSE AddBid(added[k - 1], list[k], limitEvents)
  IN added[Len(list)]

(* The bids of the lists that some interest groups have, in their order. *)
AddAllBids(lists, limitEvents) ==
  LET added[i \in 0..Len(conf.igs)] ==
        IF i = 0 THEN NoBids
        ELSE IF i \in DOMAIN lists THEN AddBids(added[i - 1], lists[i], limitEvents)
        ELSE added[i - 1]
  IN added[Len(conf.igs)]

-----------------------------------------------------------------------------
(* JavaScript UDFs. *)

(* The browser's signals of the group, or an empty object. *)
MakeBrowserSignalsForScript(g) ==
  IF g.device = "browser" THEN g.name ELSE "none"

BuildGenerateBidRequest(g) ==
  [id |-> g.name, groups |-> <<g.name>>,
   device |-> <<MakeBrowserSignalsForScript(g)>>]

(* Signals are appended before the group.  The copy that is put back when    *)
(* SerializeIG fails shares the strings that were appended to, so the        *)
(* signals of the failed group stay.                                         *)
MicrosoftPopulateMultiIGBidRequest(gs) ==
  [id |-> kDefaultMultiIGBidRequestName,
   groups |-> [i \in {j \in DOMAIN gs : gs[j].serializes} |-> gs[i].name],
   device |-> [i \in DOMAIN gs |-> MakeBrowserSignalsForScript(gs[i])]]

DispatchRequests(gs) ==
  IF conf.microsoft THEN <<MicrosoftPopulateMultiIGBidRequest(gs)>>
  ELSE [i \in {j \in DOMAIN gs : gs[j].serializes} |-> BuildGenerateBidRequest(gs[i])]

Execute ==
  LET rs == DispatchRequests(Groups)
      go == ~IsCancelled /\ Groups # <<>>
  IN /\ conf.kind = "v8" /\ stage = "execute"
     /\ \/ /\ IsCancelled /\ EncryptResponseAndFinish("CANCELLED")
           /\ UNCHANGED requests
        \/ /\ ~IsCancelled /\ Groups = <<>>
           /\ EncryptResponseAndFinish("INVALID_ARGUMENT")
           /\ UNCHANGED requests
        \/ /\ go /\ requests' = rs
           /\ \/ DOMAIN rs = {} /\ EncryptResponseAndFinish("OK")
              \/ DOMAIN rs # {} /\ stage' = "generate" /\ UNCHANGED callVars
              \/ DOMAIN rs # {} /\ EncryptResponseAndFinish("INTERNAL")
     /\ UNCHANGED <<cancelled, readable, deleted, conf, returned, deviceSignals,
                    tracker, pending, groupBids, bids>>

(* The bids of one dispatch response, whose status is OK, "error" or         *)
(* "unparsable".  A bid is given the group of its request; the Microsoft     *)
(* build takes the name the UDF chose, and skips a bid without one.          *)
BidsOfResponse(r, out) ==
  IF out.status # "OK" THEN <<>>
  ELSE [k \in DOMAIN out.bids |->
          LET b == out.bids[k]
          IN IF ~conf.microsoft THEN [b EXCEPT !.ig = r.id]
             ELSE [b EXCEPT !.parses = @ /\ ~(b.ig = "" /\
                               r.id = kDefaultMultiIGBidRequestName)]]

(* Mutant: the names are taken in the order of the interest groups, though   *)
(* some of them were not dispatched.                                         *)
GenerateBidsCallbackByIndex(outs) ==
  AddAllBids([i \in DOMAIN outs |->
    BidsOfResponse([requests[i] EXCEPT !.id =
      conf.igs[Cardinality({j \in DOMAIN outs : j <= i})].name], outs[i])], TRUE)

GenerateBidsCallback(outs) ==
  AddAllBids([i \in DOMAIN outs |-> BidsOfResponse(requests[i], outs[i])], TRUE)

BatchDone ==
  /\ stage = "generate" /\ ~IsCancelled
  /\ \E outs \in [DOMAIN requests -> UNION {Outputs(requests[i].id) :
                                              i \in DOMAIN requests}] :
       /\ \A i \in DOMAIN requests : outs[i] \in Outputs(requests[i].id)
       /\ returned' = outs /\ bids' = GenerateBidsCallback(outs).bids
  /\ EncryptResponseAndFinish("OK")
  /\ UNCHANGED <<cancelled, readable, deleted, conf, requests, deviceSignals,
                 tracker, pending, groupBids>>

(* CancellationWrapper of the batch. *)
BatchCancelled ==
  /\ stage = "generate" /\ IsCancelled
  /\ EncryptResponseAndFinish("CANCELLED")
  /\ UNCHANGED <<cancelled, readable, deleted, bidVars>>

-----------------------------------------------------------------------------
(* Binary UDFs. *)

(* The loop over the groups runs while stage is "execute" and the tracker    *)
(* counts its tasks.                                                         *)
ExecuteBinary ==
  /\ conf.kind = "byob" /\ stage = "execute" /\ groupBids = <<>>
  /\ \/ /\ IsCancelled /\ EncryptResponseAndFinish("CANCELLED")
        /\ UNCHANGED <<tracker, groupBids>>
     \/ /\ ~IsCancelled
        /\ tracker' = SetNumTasksToTrack(Len(Groups))
        /\ groupBids' = [i \in DOMAIN Groups |-> <<>>]
        /\ stage' = IF Groups = <<>> THEN "byob" ELSE "execute"
        /\ UNCHANGED callVars
  /\ UNCHANGED <<cancelled, readable, deleted, conf, requests, returned,
                 deviceSignals, pending, bids>>

(* The request is one object for all groups: a group without device signals  *)
(* leaves those of the group before it.                                      *)
UpdateProtectedAudienceBidRequest(g) ==
  IF g.device = "none" THEN deviceSignals ELSE g.name

(* The first bid only; debug URLs when they are enabled; no contributions. *)
ParseProtectedAudienceBids(r, out) ==
  IF out.bids = <<>> THEN <<>>
  ELSE <<[Head(out.bids) EXCEPT
            !.ig = r.id, !.parses = TRUE, !.events = <<>>,
            !.win = IF conf.debug THEN @ ELSE 0,
            !.loss = IF conf.debug THEN @ ELSE 0]>>

OnAllBidsDone(t, gb) ==
  IF ~AnyTaskSuccessfullyCompleted(t)
  THEN EncryptResponseAndFinish("INTERNAL") /\ UNCHANGED bids
  ELSE IF IsCancelled
  THEN EncryptResponseAndFinish("CANCELLED") /\ UNCHANGED bids
  ELSE /\ EncryptResponseAndFinish("OK")
       /\ bids' = AddAllBids(gb, FALSE).bids

(* One report to the tracker: the last one runs OnAllBidsDone. *)
Report(status, gb, after) ==
  LET t == TaskCompleted(tracker, status)
  IN /\ tracker' = t /\ groupBids' = gb
     /\ IF IsLastResponse(t) THEN OnAllBidsDone(t, gb)
        ELSE stage' = after /\ UNCHANGED <<callVars, bids>>

ExecuteForInterestGroup ==
  LET i == Len(requests) + 1
      g == Groups[i]
      device == UpdateProtectedAudienceBidRequest(g)
      after == IF i = Len(Groups) THEN "byob" ELSE "execute"
  IN /\ conf.kind = "byob" /\ stage = "execute" /\ groupBids # <<>>
     /\ i <= Len(Groups)
     /\ deviceSignals' = device
     /\ requests' = Append(requests,
                      [id |-> g.name, groups |-> <<g.name>>, device |-> <<device>>])
     /\ \/ /\ pending' = pending \cup {i} /\ stage' = after
           /\ UNCHANGED <<callVars, tracker, groupBids, bids>>
        \/ Report("ERROR", groupBids, after) /\ UNCHANGED pending
     /\ UNCHANGED <<cancelled, readable, deleted, conf, returned>>

(* Mutant: a failed execution is not reported. *)
OnByobResponseForgets(i, out) ==
  IF out.status = "error" THEN UNCHANGED <<tracker, groupBids, stage, callVars, bids>>
  ELSE Report("SUCCESS",
         [groupBids EXCEPT ![i] = ParseProtectedAudienceBids(requests[i], out)],
         stage)

(* The callback of an execution. *)
OnByobResponse(i, out) ==
  IF out.status = "error" THEN Report("ERROR", groupBids, stage)
  ELSE IF out.bids = <<>> THEN Report("EMPTY_RESPONSE", groupBids, stage)
  ELSE Report("SUCCESS",
         [groupBids EXCEPT ![i] = ParseProtectedAudienceBids(requests[i], out)],
         stage)

ByobCallback ==
  /\ \E i \in pending : \E out \in {o \in Outputs(requests[i].id) :
                                        o.status # "unparsable"} :
       pending' = pending \ {i} /\ OnByobResponse(i, out)
  /\ UNCHANGED <<cancelled, readable, deleted, conf, requests, returned,
                 deviceSignals>>

-----------------------------------------------------------------------------

Shared == (DecryptRequest \/ Bind \/ OnDone) /\ UNCHANGED bidVars
Cancel == OnCancel /\ UNCHANGED bidVars

Work ==
  \/ Execute \/ BatchDone \/ BatchCancelled \/ ExecuteBinary
  \/ ExecuteForInterestGroup \/ ByobCallback \/ FinishAgain \/ Shared

(* A binary call without interest groups waits for a tracker without tasks. *)
Hung == conf.kind = "byob" /\ stage = "byob" /\ tracker.num = 0
Stopped == deleted \/ (Hung /\ bound /\ finish = <<>>)

-----------------------------------------------------------------------------

(* The variables have their types. *)
GenerateTypeOK ==
  /\ DispatchTypeOK /\ conf \in Configs /\ tracker \in Tracker
  /\ stage \in {"construct", "execute", "generate", "byob", "finishAgain", "none"}
  /\ pending \subseteq DOMAIN requests

(* The characters of the debug URLs of some bids. *)
DebugUrlChars(list) ==
  LET sum[k \in 0..Len(list)] ==
        IF k = 0 THEN 0 ELSE sum[k - 1] + list[k].win + list[k].loss
  IN sum[Len(list)]

(* The debug URLs of a response stay within the limit for one URL and for   *)
(* all, however many bids and groups they come from.                         *)
DebugUrlsWithinLimits ==
  /\ \A k \in DOMAIN bids : bids[k].win <= MaxUrlChars /\ bids[k].loss <= MaxUrlChars
  /\ DebugUrlChars(bids) <= MaxAllUrlChars

(* A bid goes out under the interest group whose execution returned it       *)
(* (generate_bids_reactor.cc sets it from the dispatch id, the binary        *)
(* reactor from the request it sent), however failures and threads reorder.  *)
BidsAreAttributed ==
  ~conf.microsoft => \A k \in DOMAIN bids : \E i \in DOMAIN requests :
    /\ requests[i].id = bids[k].ig
    /\ conf.kind = "v8" => /\ returned[i].status = "OK"
                           /\ \E b \in DOMAIN returned[i].bids :
                                returned[i].bids[b].made = bids[k].made
    /\ conf.kind = "byob" => \E b \in DOMAIN groupBids[i] :
                               groupBids[i][b].made = bids[k].made

(* A dispatched request has the device signals of each of its groups, and    *)
(* none for a group that has none, with one exception: the binary reactor    *)
(* fills the request it sent before, so that a group without device signals  *)
(* may be sent with those of an earlier one.                                 *)
OwnDeviceSignals(g) ==
  IF g.device = "browser" \/ (conf.kind = "byob" /\ g.device = "android")
  THEN g.name ELSE "none"

DeviceSignalsOfTheGroup ==
  \A i \in DOMAIN requests : \A n \in DOMAIN requests[i].groups :
    /\ n \in DOMAIN requests[i].device
    /\ \E k \in DOMAIN conf.igs :
         /\ conf.igs[k].name = requests[i].groups[n]
         /\ \/ requests[i].device[n] = OwnDeviceSignals(conf.igs[k])
            \/ conf.kind = "byob" /\ conf.igs[k].device = "none"

(* Per event type at most ContributionLimit contributions leave the service. *)
ContributionsWithinLimit ==
  \A k \in DOMAIN bids : \A n \in DOMAIN bids[k].events :
    /\ bids[k].events[n] # "EVENT_TYPE_UNSPECIFIED"
    /\ Cardinality({m \in DOMAIN bids[k].events :
                      bids[k].events[m] = bids[k].events[n]}) <= ContributionLimit

(* When every execution of the binary failed the call ends in an error, and  *)
(* it ends OK only when every execution has reported.                        *)
BinaryAnswerMatchesTasks ==
  conf.kind = "byob" /\ finish # <<>> /\ readable /\ finish[1] # "CANCELLED" =>
    /\ tracker.num > 0 => tracker.pending = 0 /\ pending = {}
    /\ tracker.count["ERROR"] = tracker.num => finish[1] = "INTERNAL"

(* Only a failed encryption finishes a call twice. *)
GenerateFinishAtMostOnce ==
  Len(finish) > 1 => finish = <<"INTERNAL", "INTERNAL">>
=============================================================================

---------------------------- MODULE PeriodicFetch ----------------------------
(***************************************************************************)
(* The periodic fetchers of ad-tech code and egress schemas, from URLs or  *)
(* from a bucket, and the engine they load into.  Content changes while it *)
(* is fetched; a fetch, a blob or a load may fail.  A URL fetcher fetches  *)
(* all its endpoints and loads them together as one version; a bucket      *)
(* fetcher loads each blob as a version of its own.                        *)
(*                                                                         *)
(* Then the auction server's periodic fetch of each buyer's reportWin      *)
(* code, for protected audience and app signals auctions: one request per  *)
(* configured endpoint, results handled by their position in the request   *)
(* list.                                                                   *)
(***************************************************************************)
EXTENDS Integers, Sequences, FiniteSets

CONSTANTS
  Endpoints,  \* url_endpoints_: the script, and perhaps its WASM helper
  Blobs,      \* the names a bucket may hold; "" is a name that cannot be used
  MaxEdits,   \* bound: how often the content changes
  BuyerOrder, \* the buyers, in the order their map is walked; "x" is no origin
  MaxRounds   \* bound: how many rounds of the buyers' code are looked at

(* The fetchers of URLs and of buckets are different ones, whose versions    *)
(* have different names; the buyers are the keys of a map.                   *)
ASSUME PeriodicFetchAssumption ==
  /\ Endpoints \in Seq(STRING) /\ "url" \notin Blobs
  /\ BuyerOrder \in Seq(STRING)
  /\ \A i, j \in DOMAIN BuyerOrder : i # j => BuyerOrder[i] # BuyerOrder[j]

VARIABLES
  kind,     \* url or bucket
  content,  \* what is published: name -> edition; 0 = not there, -1 = broken code
  edits,
  fstage,   \* new, listing, fetching, scheduled, ended
  asked,    \* the names still to be fetched
  got,      \* name -> set of editions fetched: {} = none; {0} = fetching it failed
  cached,   \* cb_results_value_; <<>> before the first fetch
  loaded,   \* version -> what the engine runs, {} = nothing; "url" is the URL version
  someLoad, \* some_load_success_
  startOk,  \* what Start returned: {} = not yet
  refused,  \* GetBlob refused a name and will not call back
  owner,    \* alive; ended; endedBusy: End came while a fetch was running
  late,     \* a fetch ran after End
  urls,        \* auction type -> buyer -> endpoint: none, empty, bad or url
  testMode,
  rstage,      \* idle, fetching, handling, waiting, crashed
  responses,   \* one per request, in order: what the endpoint answered
  handled,     \* how many of them were handled
  perOrigin,   \* type -> buyer -> code remembered: {} = no entry
  romaCode,    \* <<type, buyer>> -> what Roma runs: {} = nothing
  failedLoads, \* loads that failed: <<type, buyer, code>>
  rounds

fetchVars == <<kind, content, edits, fstage, asked, got, cached, loaded, someLoad, startOk,
               refused, owner, late>>

UrlVersion == "url"
Versions == Blobs \cup {UrlVersion}
Elems(s) == {s[i] : i \in DOMAIN s}
Names == IF kind = "url" THEN Elems(Endpoints) ELSE Blobs

-----------------------------------------------------------------------------
(* The engine: LoadSync replaces the code of a version, or fails and leaves  *)
(* it.  Broken code is refused; good code may be refused too, when the       *)
(* engine is at its limits.                                                  *)
LoadSync(version, code, ok) == IF ok THEN [loaded EXCEPT ![version] = {code}] ELSE loaded

(* The version of a blob is its bucket and name; a blob without a name has   *)
(* none.                                                                     *)
GetBucketBlobVersion(blob) == IF blob = "" THEN {} ELSE {blob}

-----------------------------------------------------------------------------
FetchInit ==
  /\ kind \in {"url", "bucket"}
  /\ content \in [Names -> {-1, 1}] /\ edits = 0
  /\ fstage = "new" /\ asked = {} /\ got = [n \in Names |-> {}] /\ cached = <<>>
  /\ loaded = [v \in Versions |-> {}] /\ someLoad = FALSE /\ startOk = {}
  /\ refused = FALSE /\ owner = "alive" /\ late = FALSE

(* A new edition is published, a broken one replaced, a blob deleted. *)
Publish ==
  /\ edits < MaxEdits /\ edits' = edits + 1 /\ owner = "alive"
  /\ \E n \in Names, e \in {edits + 2, -1, 0} :
       content[n] # e /\ content' = [content EXCEPT ![n] = e]
  /\ UNCHANGED <<kind, fstage, asked, got, cached, loaded, someLoad, startOk, refused, owner, late>>

(* Start's own fetch, and the one a task runs when its time has come.        *)
Begin == \/ fstage = "new" \/ fstage = "scheduled"
StartReturns(some) == startOk' = IF startOk = {} THEN {some} ELSE startOk

PeriodicUrlFetchSync ==
  /\ kind = "url" /\ Begin
  /\ fstage' = "fetching" /\ asked' = Names /\ got' = [n \in Names |-> {}]
  /\ late' = (late \/ owner # "alive")
  /\ UNCHANGED <<kind, content, edits, cached, loaded, someLoad, startOk, refused, owner>>

(* ListBlobsSync: the names of the bucket, or an error and a new attempt     *)
(* after the period.                                                         *)
PeriodicBucketFetchSync ==
  /\ kind = "bucket" /\ Begin
  /\ late' = (late \/ owner # "alive")
  /\ \/ /\ fstage' = "fetching" /\ asked' = {n \in Names : content[n] # 0}
        /\ got' = [n \in Names |-> {}] /\ UNCHANGED startOk
     \/ /\ fstage' = "scheduled" /\ StartReturns(someLoad) /\ UNCHANGED <<asked, got>>
  /\ UNCHANGED <<kind, content, edits, cached, loaded, someLoad, refused, owner>>

(* One endpoint answers with what is there at that moment, or with an error. *)
UrlFetched ==
  /\ kind = "url" /\ fstage = "fetching"
  /\ \E n \in asked : \E e \in {content[n], 0} :
       asked' = asked \ {n} /\ got' = [got EXCEPT ![n] = {e}]
  /\ UNCHANGED <<kind, content, edits, fstage, cached, loaded, someLoad, startOk, refused, owner, late>>

(* New content is remembered whether or not it can be loaded; OnFetch of     *)
(* PeriodicCodeFetcher and AdtechSchemaFetcher.                              *)
OnUrlResults(values, ok) ==
  IF values = cached THEN UNCHANGED <<cached, loaded, someLoad>>
  ELSE cached' = values /\ loaded' = LoadSync(UrlVersion, values, ok) /\ someLoad' = ok

(* All or nothing: one failure and this round is over.  The next round is    *)
(* scheduled in every case.                                                  *)
UrlFetchDone ==
  /\ kind = "url" /\ fstage = "fetching" /\ asked = {}
  /\ LET values == [i \in DOMAIN Endpoints |-> CHOOSE e \in got[Endpoints[i]] : TRUE]
         broken == \E i \in DOMAIN values : values[i] = -1
     IN IF \E i \in DOMAIN values : values[i] = 0
        THEN UNCHANGED <<cached, loaded, someLoad>>
        ELSE \E ok \in {~broken, FALSE} : OnUrlResults(values, ok)
  /\ fstage' = "scheduled" /\ StartReturns(someLoad')
  /\ UNCHANGED <<kind, content, edits, asked, got, refused, owner, late>>

(* Mutant: a blob that cannot be read is loaded all the same, under the name *)
(* of another.                                                               *)
OnBlobWrongVersion(n, e, ok) ==
  loaded' = LoadSync(CHOOSE v \in Blobs : TRUE, <<n, e>>, ok) /\ someLoad' = (ok \/ someLoad)
(* OnFetch of PeriodicBucketCodeFetcher and EgressSchemaBucketFetcher, under *)
(* some_load_success_mu_: a blob without a name, a failed or an empty blob   *)
(* and a failed load leave the engine as it is.                              *)
OnBlob(n, e, ok) ==
  IF GetBucketBlobVersion(n) = {} \/ e = 0 \/ ~ok THEN UNCHANGED <<loaded, someLoad>>
  ELSE loaded' = LoadSync(n, <<n, e>>, ok) /\ someLoad' = TRUE

(* A blob comes, in any order; or GetBlob refuses the request, which is      *)
(* logged, and the callback that would count the blob down is never called.  *)
GetBlob ==
  /\ kind = "bucket" /\ fstage = "fetching"
  /\ \E n \in asked :
       /\ asked' = asked \ {n}
       /\ \/ \E e \in {content[n], 0} : \E ok \in {e > 0, FALSE} :
               OnBlob(n, e, ok) /\ UNCHANGED refused
          \/ refused' = TRUE /\ UNCHANGED <<loaded, someLoad>>
  /\ UNCHANGED <<kind, content, edits, fstage, got, cached, startOk, owner, late>>

(* Mutant: a round without a blob is not followed by another. *)
BlobsDoneStops ==
  /\ kind = "bucket" /\ fstage = "fetching" /\ asked = {} /\ ~refused /\ someLoad
  /\ fstage' = "scheduled" /\ StartReturns(someLoad)
  /\ UNCHANGED <<kind, content, edits, asked, got, cached, loaded, someLoad, refused, owner, late>>
(* blobs_remaining is zero. *)
BlobsDone ==
  /\ kind = "bucket" /\ fstage = "fetching" /\ asked = {} /\ ~refused
  /\ fstage' = "scheduled" /\ StartReturns(someLoad)
  /\ UNCHANGED <<kind, content, edits, asked, got, cached, loaded, someLoad, refused, owner, late>>

(* Cancels the task that is scheduled.  A round that is running is not one.  *)
End ==
  /\ owner = "alive" /\ startOk # {}
  /\ IF fstage = "scheduled" THEN fstage' = "ended" /\ owner' = "ended"
     ELSE owner' = "endedBusy" /\ UNCHANGED fstage
  /\ UNCHANGED <<kind, content, edits, asked, got, cached, loaded, someLoad, startOk, refused, late>>

FetchRound == UrlFetched \/ UrlFetchDone \/ GetBlob \/ BlobsDone
FetchProgress ==
  \/ fstage # "scheduled" /\ (PeriodicUrlFetchSync \/ PeriodicBucketFetchSync)
  \/ FetchRound
FetchNext ==
  ~late /\ (PeriodicUrlFetchSync \/ PeriodicBucketFetchSync \/ FetchRound \/ Publish \/ End)

-----------------------------------------------------------------------------
(* A version runs what was published under its name, whole and not broken: a *)
(* failed fetch or load of one never touches it or another.                  *)
VersionsRunTheirOwnCode ==
  /\ \A b \in Blobs : \A c \in loaded[b] : b # "" /\ c[1] = b /\ c[2] > 0
  /\ \A c \in loaded[UrlVersion] :
       DOMAIN c = DOMAIN Endpoints /\ \A i \in DOMAIN c : c[i] > 0

(* "Notified when 1 blob is successfully loaded": a Start that succeeds      *)
(* leaves something to run, one that fails had nothing at that time.         *)
StartOkMeansLoaded ==
  startOk = {TRUE} => \E v \in Versions : loaded[v] # {}

(* A fetch runs after End only if End came in the middle of one. *)
NoFetchAfterEnd == late => owner = "endedBusy"

(* Fetching goes on for ever: a round that began ends with another one       *)
(* scheduled, unless the client refused a blob, which stops this bucket.     *)
FetchingGoesOn ==
  (fstage = "fetching") ~> (fstage \in {"scheduled", "ended"} \/ refused = TRUE \/ late = TRUE)

-----------------------------------------------------------------------------
(* The buyers' reportWin code. *)
udfVars == <<urls, testMode, rstage, responses, handled, perOrigin, romaCode, failedLoads, rounds>>

Types == <<"pa", "pas">>
Buyers == {BuyerOrder[i] : i \in DOMAIN BuyerOrder}
Configured(t) == {b \in Buyers : urls[t][b] # "none"}

(* StripQueryAndFragmentsFromUrl fails for what is not a URL, in test mode   *)
(* too.                                                                      *)
CreateUdfFetchRequest(t, b) == urls[t][b] = "url"

(* The requests and, in parallel, the buyers they are for: the endpoints of  *)
(* protected audience, then those of app signals.  An empty or malformed one *)
(* is skipped.                                                               *)
RequestsOf(t) ==
  LET added[i \in 0 .. Len(BuyerOrder)] ==
        IF i = 0 THEN <<>>
        ELSE IF BuyerOrder[i] \in Configured(t) /\ CreateUdfFetchRequest(t, BuyerOrder[i])
        THEN Append(added[i - 1], <<t, BuyerOrder[i]>>) ELSE added[i - 1]
  IN added[Len(BuyerOrder)]
Requests == RequestsOf("pa") \o RequestsOf("pas")

(* What auction_main enables reportWin for: endpoints that are not empty.    *)
SetBuyersEnabledForReportWin(t) == {b \in Configured(t) : urls[t][b] # "empty"}

(* A body, and the header X-Allow-Fledge: true. *)
ValidateUdfFetchResponse(r) == r.code # 0 /\ r.header

(* The version of a buyer's code is made of the type and the domain.         *)
GetBuyerReportWinVersion(t, b) == IF b = "x" THEN {} ELSE {<<t, b>>}

-----------------------------------------------------------------------------
(* Empty and malformed endpoints are looked at where they do harm.           *)
EndpointsOf(t, b) == IF t = "pa" /\ b # "x" THEN {"none", "empty", "bad", "url"} ELSE {"none", "url"}
UdfInit ==
  /\ urls \in {u \in [{"pa", "pas"} -> [Buyers -> {"none", "empty", "bad", "url"}]] :
                \A t \in {"pa", "pas"}, b \in Buyers : u[t][b] \in EndpointsOf(t, b)}
  /\ testMode \in BOOLEAN
  /\ rstage = "idle" /\ responses = <<>> /\ handled = 0 /\ rounds = 0
  /\ perOrigin = [t \in {"pa", "pas"} |-> [b \in Buyers |-> {}]]
  /\ romaCode = [v \in {"pa", "pas"} \X Buyers |-> {}] /\ failedLoads = {}

UdfAnswer(ok, header, code) == [ok |-> ok, header |-> header, code |-> code]
UdfAnswers(b) == IF b = "x" THEN {UdfAnswer(TRUE, TRUE, 1)}
              ELSE {UdfAnswer(FALSE, FALSE, 0), UdfAnswer(TRUE, FALSE, 1), UdfAnswer(TRUE, TRUE, 1),
                    UdfAnswer(TRUE, TRUE, 2)}

Responses == {r \in [DOMAIN Requests -> UNION {UdfAnswers(b) : b \in Buyers}] :
                \A i \in DOMAIN Requests : r[i] \in UdfAnswers(Requests[i][2])}

(* A round: the requests are sent together.  With none to send, the fetch is *)
(* not scheduled again.                                                      *)
PeriodicBuyerReportingFetchAndLoadSync ==
  /\ rstage \in {"idle", "waiting"} /\ rounds < MaxRounds
  /\ rounds' = rounds + 1 /\ handled' = 0
  /\ IF Requests = <<>> THEN rstage' = "ended" /\ UNCHANGED responses
     ELSE rstage' = "handling" /\ responses' \in Responses
  /\ UNCHANGED <<urls, testMode, perOrigin, romaCode, failedLoads>>

(* LoadBuyerCode logs a failed load and goes on; the code is remembered      *)
(* either way, so that it is not tried again until it changes.               *)
LoadBuyerCode(version, b, code) ==
  \/ romaCode' = [romaCode EXCEPT ![version] = {code}] /\ UNCHANGED failedLoads
  \/ failedLoads' = failedLoads \cup {<<version, code[3]>>} /\ UNCHANGED romaCode
Remember(t, b, c) == perOrigin' = [perOrigin EXCEPT ![t][b] = {c}]

(* operator[] makes an entry, with an empty body, for a buyer it has none    *)
(* for.                                                                      *)
Remembered(t, b) == IF perOrigin[t][b] = {} THEN {0} ELSE perOrigin[t][b]

OnProtectedAudienceUdfFetch(b, r, from) ==
  IF ~testMode /\ ~ValidateUdfFetchResponse(r)
  THEN UNCHANGED <<perOrigin, romaCode, failedLoads, rstage>>
  ELSE IF Remembered("pa", b) = {r.code} \/ GetBuyerReportWinVersion("pa", b) = {}
  THEN perOrigin' = [perOrigin EXCEPT !["pa"][b] = Remembered("pa", b)]
       /\ UNCHANGED <<romaCode, failedLoads, rstage>>
  ELSE /\ LoadBuyerCode(<<"pa", b>>, b, <<from[1], from[2], IF r.header THEN r.code ELSE -r.code>>)
       /\ Remember("pa", b, r.code) /\ UNCHANGED rstage

(* The same for app signals, but that a buyer without a version is logged    *)
(* and then its missing version used: the server aborts.                     *)
OnProtectedAppSignalUdfFetch(b, r, from) ==
  IF ~testMode /\ ~ValidateUdfFetchResponse(r)
  THEN UNCHANGED <<perOrigin, romaCode, failedLoads, rstage>>
  ELSE IF Remembered("pas", b) = {r.code}
  THEN perOrigin' = [perOrigin EXCEPT !["pas"][b] = Remembered("pas", b)]
       /\ UNCHANGED <<romaCode, failedLoads, rstage>>
  ELSE IF GetBuyerReportWinVersion("pas", b) = {}
  THEN rstage' = "crashed" /\ UNCHANGED <<perOrigin, romaCode, failedLoads>>
  ELSE /\ LoadBuyerCode(<<"pas", b>>, b, <<from[1], from[2], IF r.header THEN r.code ELSE -r.code>>)
       /\ Remember("pas", b, r.code) /\ UNCHANGED rstage

(* Mutant: an off-by-one. *)
IsProtectedAudienceOffByOne(i) == i <= Cardinality(Configured("pa")) - 1
(* A result is for protected audience if its index is below the number of    *)
(* configured endpoints, whether or not they were requested.                 *)
IsProtectedAudience(i) == i <= Cardinality(Configured("pa"))

UdfDoneCallback ==
  /\ rstage = "handling" /\ handled < Len(responses)
  /\ handled' = handled + 1
  /\ LET i == handled + 1
         r == responses[i]
         from == Requests[i]
     IN IF ~r.ok THEN UNCHANGED <<perOrigin, romaCode, failedLoads, rstage>>
        ELSE IF IsProtectedAudience(i) THEN OnProtectedAudienceUdfFetch(from[2], r, from)
        ELSE OnProtectedAppSignalUdfFetch(from[2], r, from)
  /\ UNCHANGED <<urls, testMode, responses, rounds>>

(* All were handled; the next round is scheduled. *)
RoundDone ==
  /\ rstage = "handling" /\ handled = Len(responses) /\ rstage' = "waiting"
  /\ UNCHANGED <<urls, testMode, responses, handled, perOrigin, romaCode, failedLoads, rounds>>

(* End cancels the next round. *)
EndUdfFetch ==
  /\ rstage = "waiting" /\ rstage' = "ended"
  /\ UNCHANGED <<urls, testMode, responses, handled, perOrigin, romaCode, failedLoads, rounds>>

UdfProgress == UdfDoneCallback \/ RoundDone
UdfNext == UdfProgress \/ PeriodicBuyerReportingFetchAndLoadSync \/ EndUdfFetch

-----------------------------------------------------------------------------
Skipped == \E b \in Configured("pa") : ~CreateUdfFetchRequest("pa", b)

(* Roma runs, as a buyer's reportWin, only code of that buyer's endpoint for *)
(* that type of auction, let through by its header outside test mode.  The   *)
(* types are mixed up only if a protected audience endpoint was skipped.     *)
ReportWinIsTheBuyersOwn ==
  \A t \in {"pa", "pas"}, b \in Buyers : \A c \in romaCode[<<t, b>>] :
    /\ c[2] = b /\ (c[1] = t \/ Skipped)
    /\ c[3] > 0 \/ testMode

(* After a round Roma runs the code each endpoint answered with, unless      *)
(* loading that code failed, in this round or an earlier one.                *)
RoundBringsCodeUpToDate ==
  (rstage = "waiting" /\ ~Skipped) =>
    \A i \in DOMAIN responses :
      LET v == Requests[i]
          r == responses[i]
      IN (ValidateUdfFetchResponse(r) /\ v[2] # "x") =>
           \/ romaCode[v] = {<<v[1], v[2], r.code>>}
           \/ <<v, r.code>> \in failedLoads
           \/ testMode

(* Roma has code only for buyers reportWin is enabled for, so that an        *)
(* auction knows to report to them; misplaced code excepted.                 *)
LoadedBuyersAreEnabled ==
  \A t \in {"pa", "pas"}, b \in Buyers :
    romaCode[<<t, b>>] # {} => b \in SetBuyersEnabledForReportWin(t) \/ Skipped

(* A round ends with the next one scheduled, or in the abort of a buyer      *)
(* without a version.                                                        *)
RoundsGoOn == (rstage = "handling") ~> (rstage \in {"waiting", "crashed"})
=============================================================================

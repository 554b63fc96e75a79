------------------------------ MODULE Services ------------------------------
(***************************************************************************)
(* The parts that live beside the auction's main path, one part in each    *)
(* behaviour: they share no state.  The variables of the other parts are   *)
(* 0; a fetcher that is not there has nothing to fetch.                    *)
(***************************************************************************)
EXTENDS HttpFetcher, PeriodicFetch, ServerStartup, ModelServing, SelectAuctionResultReactor,
        SecureCalls, RoutingUtils

VARIABLE part

servicesVars == <<part, topVars, httpVars, fetchVars, bootVars, udfVars, modelVars,
                  callVars, routeVars>>

NoTop == /\ top = 0 /\ sealed = 0 /\ topStep = "off" /\ topErrors = 0 /\ topGroups = 0
         /\ topUpdates = 0 /\ scored = 0 /\ topCancelled = 0 /\ finishes = 0

NoHttp == /\ reqs = <<>> /\ caller = 0 /\ multi = {} /\ watched = 0 /\ timer = 0 /\ msgs = 0
          /\ sent = 0 /\ handleSet = {} /\ tasks = {} /\ freed = {} /\ calls = <<>> /\ results = 0
          /\ pending = 0 /\ allDone = <<>> /\ loop = 0 /\ shutdown = "off" /\ overtaken = {}

NoFetch ==
  /\ kind = 0 /\ content = 0 /\ edits = 0 /\ fstage = "off" /\ asked = 0 /\ got = 0
  /\ cached = 0 /\ loaded = 0 /\ someLoad = 0 /\ startOk = 0 /\ refused = FALSE
  /\ owner = 0 /\ late = FALSE

NoBoot ==
  /\ srv = 0 /\ cfg = 0 /\ entries = 0 /\ bstage = "off" /\ udf = 0 /\ defv = 0
  /\ running = 0 /\ schemas = 0 /\ sandbox = 0

NoUdfs ==
  /\ urls = 0 /\ testMode = 0 /\ rstage = "off" /\ responses = 0 /\ handled = 0
  /\ perOrigin = 0 /\ romaCode = 0 /\ failedLoads = 0 /\ rounds = 0

NoModel ==
  /\ framework = 0 /\ grace = 0 /\ mconfig = 0 /\ bucket = 0 /\ mentries = 0 /\ timers = {}
  /\ mround = "off" /\ rconfig = 0 /\ todo = 0 /\ fetchedFiles = 0 /\ mfailed = 0
  /\ mrounds = 0 /\ sidecarUp = 0 /\ ram = 0 /\ modelData = 0 /\ prodModel = 0
  /\ consentedModel = 0 /\ inferenceCount = 0 /\ modelPaths = 0 /\ resetting = 0
  /\ owed = 0 /\ unserialised = 0 /\ batch = [stage |-> "off"] /\ mevents = 0 /\ faulty = 0

NoCalls ==
  /\ callCase = 0 /\ rpcStage = 0 /\ rpcParams = 0 /\ rpcContext = 0 /\ wire = 0
  /\ rpcReply = 0 /\ heard = 0 /\ rpcFinishes = 0 /\ clientLife = 0 /\ activeCalls = 0
  /\ kAnonBids = 0 /\ aborted = 0

NoRoute ==
  /\ rin = 0 /\ pool = 0 /\ pc = 0 /\ turn = 0 /\ cb = 0 /\ slot = 0 /\ answers = 0
  /\ counter = 0 /\ overlap = 0 /\ heap = 0

(* Init and Next *)
ServicesInit ==
  /\ part \in {"top", "http", "fetch", "boot", "udfs", "model", "calls", "route"}
  /\ IF part = "top" THEN TopInit ELSE NoTop
  /\ IF part = "http" THEN HttpInit ELSE NoHttp
  /\ IF part = "fetch" THEN FetchInit ELSE NoFetch
  /\ IF part = "boot" THEN BootInit ELSE NoBoot
  /\ IF part = "udfs" THEN UdfInit ELSE NoUdfs
  /\ IF part = "model" THEN ModelInit ELSE NoModel
  /\ IF part = "calls" THEN CallInit ELSE NoCalls
  /\ IF part = "route" THEN RouteInit ELSE NoRoute

(* The parts that are not there do not move. *)
Frame ==
  /\ UNCHANGED part
  /\ IF part = "top" THEN TRUE ELSE UNCHANGED topVars
  /\ IF part = "http" THEN TRUE ELSE UNCHANGED httpVars
  /\ IF part = "fetch" THEN TRUE ELSE UNCHANGED fetchVars
  /\ IF part = "boot" THEN TRUE ELSE UNCHANGED bootVars
  /\ IF part = "udfs" THEN TRUE ELSE UNCHANGED udfVars
  /\ IF part = "model" THEN TRUE ELSE UNCHANGED modelVars
  /\ IF part = "calls" THEN TRUE ELSE UNCHANGED callVars
  /\ IF part = "route" THEN TRUE ELSE UNCHANGED routeVars

ServicesNext ==
  /\ \/ part = "top" /\ TopNext
     \/ part = "http" /\ HttpNext
     \/ part = "fetch" /\ FetchNext
     \/ part = "boot" /\ BootNext
     \/ part = "udfs" /\ UdfNext
     \/ part = "model" /\ ModelNext
     \/ part = "calls" /\ CallNext
     \/ part = "route" /\ RouteNext
  /\ Frame

ServicesProgress ==
  /\ \/ part = "top" /\ TopProgress
     \/ part = "http" /\ HttpProgress
     \/ part = "fetch" /\ FetchProgress
     \/ part = "boot" /\ BootProgress
     \/ part = "udfs" /\ UdfProgress
     \/ part = "model" /\ ModelProgress
  /\ Frame

ServicesSpec ==
  ServicesInit /\ [][ServicesNext]_servicesVars /\ WF_servicesVars(ServicesProgress)

(* A top-level auction scores what was made for it only, tells the device of *)
(* all groups that bid and of updates unmixed, and is finished once.         *)
TopLevelIsSound ==
  part = "top" =>
    /\ OnlyThisAuctionIsScored /\ AllBiddingGroupsReturned
    /\ UpdatesFromTheFirst /\ TopFinishesOnce

(* A server runs code that was published for what it is used for: under its  *)
(* version, for its buyer, loaded before it serves and fetched while it does, *)
(* with flags from where they belong; and fetches nothing when it is over.   *)
ServersRunTheirCode ==
  /\ part = "fetch" =>
       VersionsRunTheirOwnCode /\ StartOkMeansLoaded /\ NoFetchAfterEnd
  /\ part = "udfs" =>
       /\ ReportWinIsTheBuyersOwn /\ RoundBringsCodeUpToDate
       /\ LoadedBuyersAreEnabled
  /\ part = "boot" =>
       /\ FlagsComeFromTheirSource /\ ProdAlwaysChaffs /\ ServesLoadedCode
       /\ RefreshGoesOn /\ ModelsHaveASandbox /\ StoppedFetchesNothing

(* The models that serve are those of the configuration, all copies built    *)
(* from their registration, whatever resets, deletions and failures come in  *)
(* between; requests are counted and answered in order.                      *)
ModelsMatchTheirRegistration ==
  part = "model" =>
    /\ CopiesMatchTheirRequest /\ EntriesMatchTheSidecar /\ RoundServesTheConfig
    /\ InferencesAreCounted /\ OutputsFollowRequests

(* A remote call is heard of once and as what it was, its buffers and client *)
(* exist meanwhile, and a request nobody could decrypt is never answered OK. *)
(* A script's calls to key/value servers are each answered before it goes on. *)
CallsAreHeardOnce ==
  /\ part = "calls" =>
       /\ HeardOnce /\ BidsArriveOrFail /\ BuffersOutliveTheCall
       /\ NoCallbackAfterClient /\ UndecryptedIsRefused /\ KAnonStatusAttached
  /\ part = "route" =>
       /\ FrameOutlivesCallbacks /\ SettledMeansCounted
       /\ EachServerAnswered /\ ConnectionsByTheirFlag

(* Nothing waits for ever: auctions are answered, fetches return, destructors *)
(* and start-up end, rounds follow rounds, deletions are carried out.        *)
ServicesGoOn ==
  /\ (part = "top") => TopEventuallyReleased
  /\ (part = "http") => EveryFetchReturns /\ ShutdownCompletes
  /\ (part = "fetch") => FetchingGoesOn
  /\ (part = "boot") => StartupEnds
  /\ (part = "udfs") => RoundsGoOn
  /\ (part = "model") => DeletionsHappen
======================================================================================================================================================

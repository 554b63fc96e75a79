---------------------------- MODULE ServerStartup ----------------------------
(***************************************************************************)
(* How each of the four servers comes up: its flags from the command line  *)
(* and the parameter store, the checks on them, the ad-tech code and       *)
(* schemas it loads before it serves, the versions it will run by default, *)
(* and what goes on being fetched while it serves.  Every flag is a        *)
(* string; "" is a flag that has no value.                                 *)
(***************************************************************************)
EXTENDS Integers, FiniteSets, Sequences

CONSTANTS
  CodeBlobs,    \* the objects a code bucket may hold
  DefaultBlob   \* the one the fetch config names as the default

VARIABLES
  srv,      \* bidding, auction, sfe, bfe
  cfg,      \* command line, the store's answer, and what the flags' JSON says
  entries,  \* config_entries_map_
  bstage,   \* the step RunServer is at
  udf,      \* kind of code -> the versions the engine has loaded
  defv,     \* kind of code -> the default version of the runtime config
  running,  \* the periodic fetchers that are alive
  schemas,  \* the egress schema caches that were filled
  sandbox   \* the inference sandbox was started

bootVars == <<srv, cfg, entries, bstage, udf, defv, running, schemas, sandbox>>

Port == "p"
LateFlags == {"sel"}
OverriddenFlags == {"chaff", "rate"}
(* The flags GetConfigClient of each server sets, those a property tells     *)
(* apart.                                                                    *)
CommonFlags == {"pa", "pas", "health"}
BiddingFlags == CommonFlags \cup {"code", "kv", "sel"}
AuctionFlags == CommonFlags \cup {"code"}
SellerFlags == CommonFlags \cup {"chaff", "rate", "byos", "tkv"}
BuyerFlags == CommonFlags \cup {"chaff", "rate", "byos", "tkv"}
Flags == CASE srv = "bidding" -> BiddingFlags [] srv = "auction" -> AuctionFlags
           [] srv = "sfe" -> SellerFlags [] OTHER -> BuyerFlags
On(f) == entries[f] = "true"
Kinds == IF srv = "auction" THEN {"score"}
         ELSE (IF On("pa") THEN {"pa"} ELSE {}) \cup (IF On("pas") THEN {"pas", "retrieval"} ELSE {})
AllKinds == {"pa", "pas", "retrieval", "score"}

(* The configurations that differ from the usual one in two places: what the *)
(* flags may be, and what the JSON of the fetch configs may say.             *)
Usual == [init |-> "yes", probe |-> "none", found |-> "", pa |-> "true", pas |-> "false",
          health |-> "q", code |-> "json", kv |-> "addr", sel |-> "addr", chaff |-> "false",
          rate |-> "1", byos |-> "addr", tkv |-> "addr", mode |-> "url", byob |-> "no",
          jsBucket |-> "set", infer |-> "none", prod |-> "yes", tkvBrowser |-> "no",
          signals |-> "required", unlimited |-> "yes", limited |-> "yes", egress |-> "url"]
Others == [init |-> {"no"}, probe |-> Flags, found |-> {"true", "false", "addr", "2000000"},
           pa |-> {"false"}, pas |-> {"true"}, health |-> {"", Port}, code |-> {"", "bad"},
           kv |-> {""}, sel |-> {""}, chaff |-> {"true"}, rate |-> {"2000000"},
           byos |-> {"", "ignored"}, tkv |-> {"", "ignored"},
           mode |-> {"local", "bucket", "invalid"}, byob |-> {"yes"}, jsBucket |-> {""},
           infer |-> {"static", "periodic", "skip"}, prod |-> {"no"}, tkvBrowser |-> {"yes"},
           signals |-> {"none"}, unlimited |-> {"no"}, limited |-> {"no"},
           egress |-> {"bucket", "invalid"}]
Configs == UNION {{[Usual EXCEPT ![f] = v, ![g] = w] : v \in Others[f], w \in Others[g] \cup {Usual[g]}}
                  : f \in DOMAIN Usual, g \in DOMAIN Usual}

BootInit ==
  /\ srv \in {"bidding", "auction", "sfe", "bfe"} /\ cfg \in Configs
  /\ entries = [f \in Flags |-> ""] /\ bstage = "flags"
  /\ udf = [k \in AllKinds |-> {}] /\ defv = [k \in AllKinds |-> <<>>]
  /\ running = {} /\ schemas = {} /\ sandbox = FALSE

Goto(s) == bstage' = s
Keep == UNCHANGED <<srv, cfg>>
Loads == <<udf, defv, running, schemas, sandbox>>

-----------------------------------------------------------------------------
(* The config client: GetConfigClient puts what the command line gives, then *)
(* Init asks the store for each flag.                                        *)
SetFlag(f) == cfg[f]
SetFlags ==
  /\ bstage = "flags" /\ Goto("config")
  /\ entries' = [f \in Flags |-> IF f \in LateFlags THEN "" ELSE SetFlag(f)]
  /\ Keep /\ UNCHANGED Loads

Stored(f) == IF cfg.probe = f THEN cfg.found ELSE ""
(* Mutant: a value of the command line is kept. *)
FoundKeepsCommandLine(f) == IF Stored(f) # "" /\ entries[f] = "" THEN Stored(f) ELSE entries[f]
(* "If a value is found, it will override the pre-populated values." *)
Found(f) == IF Stored(f) # "" THEN Stored(f) ELSE entries[f]

(* A call the client refuses has no callback: the flag's absence is an error *)
(* if it has no value, and if it has one the counter never reaches zero.     *)
ConfigClientInit ==
  /\ bstage = "config"
  /\ \/ cfg.init = "no" /\ Goto("checks") /\ UNCHANGED entries
     \/ cfg.init = "yes" /\ Goto("error") /\ UNCHANGED entries
     \/ cfg.init = "yes" /\ Goto("checks") /\ entries' = [f \in Flags |-> Found(f)]
     \/ /\ cfg.init = "yes" /\ UNCHANGED entries
        /\ \E f \in Flags : Goto(IF entries[f] = "" THEN "error" ELSE "hung")
  /\ Keep /\ UNCHANGED Loads

(* The seller front end's checks on the hosts of its scoring signals. *)
SellerHosts ==
  LET ignored == entries["tkv"] = "ignored"
      tkvHost == IF ignored THEN "" ELSE entries["tkv"]
  IN /\ ~(ignored /\ cfg.tkvBrowser = "yes")
     /\ ~(cfg.signals # "none" /\ entries["byos"] \in {"", "ignored"} /\ tkvHost = "")

(* The Microsoft selection flags are set after the store was read; their     *)
(* default is the empty string and not the absence of a value.               *)
SetLateFlag(f) == IF f \in LateFlags THEN SetFlag(f) ELSE entries[f]

CheckTypes ==
  /\ bstage = "checks"
  /\ Goto(IF ~On("pa") /\ ~On("pas") THEN "crashed"
          ELSE IF srv = "sfe" /\ ~SellerHosts THEN "error" ELSE "prepare")
  /\ entries' = [f \in Flags |-> SetLateFlag(f)]
  /\ Keep /\ UNCHANGED Loads

(* SetOverride, after Init: chaffing is always on in a prod build, and a     *)
(* sampling rate out of range is none.                                       *)
Override(f) ==
  IF f = "chaff" /\ cfg.prod = "yes" THEN "true"
  ELSE IF f = "rate" /\ entries[f] = "2000000" THEN "0" ELSE entries[f]

(* The buyer front end's checks: which host it needs depends on the protocol *)
(* of browser traffic.                                                       *)
BuyerHosts ==
  LET host(f) == IF entries[f] = "ignored" THEN "" ELSE entries[f]
  IN cfg.signals = "none" \/ host(IF cfg.tkvBrowser = "yes" THEN "tkv" ELSE "byos") # ""

(* A front end: overrides, hosts, caches and clients.  A missing bidding     *)
(* address, an unreadable fetch config or public key endpoint is an error;   *)
(* an unreadable map of buyers is a CHECK.                                   *)
PrepareFrontEnd ==
  /\ bstage = "prepare" /\ srv \in {"sfe", "bfe"}
  /\ entries' = [f \in Flags |-> Override(f)]
  /\ \/ Goto(IF srv = "bfe" /\ ~BuyerHosts THEN "error" ELSE "serve")
     \/ Goto("error")
     \/ srv = "sfe" /\ Goto("crashed")
  /\ Keep /\ UNCHANGED Loads

(* The fetch config is mandatory; one that does not parse ends the auction   *)
(* server with a CHECK and the bidding server with an error.                 *)
ParseFetchConfig ==
  /\ bstage = "prepare" /\ srv \in {"bidding", "auction"}
  /\ Goto(CASE entries["code"] = "" -> "crashed"
            [] entries["code"] = "bad" -> IF srv = "auction" THEN "crashed" ELSE "error"
            [] OTHER -> "engine")
  /\ UNCHANGED entries /\ Keep /\ UNCHANGED Loads

-----------------------------------------------------------------------------
(* Code.  A binary is used in every fetch mode that names one.               *)
UdfConfigHasByob == srv = "bidding" /\ cfg.byob = "yes" /\ cfg.mode \in {"local", "bucket", "url"}

(* Registering runInference starts the sandbox. *)
GetV8DispatchConfig == sandbox' = (srv = "bidding" /\ cfg.infer # "none")

(* A binary is for the protected audience alone (CHECKs); its service, and   *)
(* V8, may fail to start.                                                    *)
StartEngine ==
  /\ bstage = "engine"
  /\ IF UdfConfigHasByob
     THEN /\ UNCHANGED sandbox
          /\ IF ~On("pa") \/ On("pas") THEN Goto("crashed") ELSE Goto("udf") \/ Goto("error")
     ELSE \/ Goto("udf") /\ GetV8DispatchConfig
          \/ Goto("error") /\ UNCHANGED sandbox
          \/ cfg.infer # "none" /\ srv = "bidding" /\ Goto("crashed") /\ UNCHANGED sandbox
  /\ Keep /\ UNCHANGED <<entries, udf, defv, running, schemas>>

BucketOf(k) == IF UdfConfigHasByob THEN "exe" ELSE k
(* GetBucketBlobVersion: both names must be there. *)
BucketVersion(k, blob) == <<k, blob>>
JsBucketSet == cfg.jsBucket # ""

(* Start of a bucket fetcher: it loads the blobs it can and is content with  *)
(* one; a URL fetcher loads the one version.                                 *)
StartBucketFetch(k) == {{BucketVersion(BucketOf(k), b) : b \in B} : B \in (SUBSET CodeBlobs) \ {{}}}
StartUrlFetch(k) == {{<<k>>}}

Fetchers(started) == started

Fail == Goto("error") /\ UNCHANGED <<udf, running>>

(* The enabled kinds are started in turn, and the first that fails ends it. *)
StartFetchers(Start(_)) ==
  \/ Fail
  \/ /\ Goto("inference")
     /\ udf' \in {u \in [AllKinds -> {{}} \cup UNION {Start(k) : k \in Kinds}] :
                    \A k \in AllKinds : IF k \in Kinds THEN u[k] \in Start(k) ELSE u[k] = {}}
     /\ running' = running \cup Fetchers(Kinds)
(* A file is loaded once. *)
LoadFile(k) ==
  \/ Fail
  \/ Goto("inference") /\ UNCHANGED running /\ udf' = [udf EXCEPT ![k] = {<<k>>}]

(* BuyerCodeFetchManager: local mode is for the protected audience only. *)
InitializeLocalCodeFetch == LoadFile("pa")
InitializeBucketCodeFetch == IF JsBucketSet THEN StartFetchers(StartBucketFetch) ELSE Fail
InitializeUrlCodeFetch == StartFetchers(StartUrlFetch)
(* BuyerCodeFetchManagerByob: the same modes for a binary. *)
InitializeByobCodeFetch ==
  CASE cfg.mode = "local" -> LoadFile("pa")
    [] cfg.mode = "bucket" -> StartFetchers(StartBucketFetch)
    [] cfg.mode = "url" -> StartFetchers(StartUrlFetch)
BuyerManagerInit ==
  CASE UdfConfigHasByob -> InitializeByobCodeFetch
    [] ~UdfConfigHasByob /\ cfg.mode = "local" -> InitializeLocalCodeFetch
    [] ~UdfConfigHasByob /\ cfg.mode = "bucket" -> InitializeBucketCodeFetch
    [] ~UdfConfigHasByob /\ cfg.mode = "url" -> InitializeUrlCodeFetch
    [] OTHER -> Fail

(* SellerUdfFetchManager, after the fetch of the buyers' reporting code was  *)
(* started, which may fail too.                                              *)
SellerLocalCodeFetch == LoadFile("score")
SellerBucketCodeFetch == IF JsBucketSet THEN StartFetchers(StartBucketFetch) ELSE Fail
SellerUrlCodeFetch == StartFetchers(StartUrlFetch)
SellerManagerInit ==
  \/ Fail
  \/ CASE cfg.mode = "local" -> SellerLocalCodeFetch
       [] cfg.mode = "bucket" -> SellerBucketCodeFetch
       [] cfg.mode = "url" -> SellerUrlCodeFetch
       [] OTHER -> Fail

InitUdfFetch ==
  /\ bstage = "udf" /\ IF srv = "auction" THEN SellerManagerInit ELSE BuyerManagerInit
  /\ Keep /\ UNCHANGED <<entries, defv, schemas, sandbox>>

(* The models: loaded once from the bucket, or fetched periodically; or no   *)
(* bucket is named.  A static model that cannot be registered is skipped, a  *)
(* bucket that cannot be read is a CHECK.                                    *)
InitInference ==
  /\ bstage = "inference"
  /\ IF srv = "auction" \/ cfg.infer \in {"none", "skip"} \/ cfg.init = "no"
     THEN Goto("kv") /\ UNCHANGED running
     ELSE \/ cfg.infer = "static" /\ bstage' \in {"kv", "crashed"} /\ UNCHANGED running
          \/ cfg.infer = "periodic" /\ Goto("kv") /\ running' = running \cup {"models"}
          \/ cfg.infer = "periodic" /\ Goto("error") /\ UNCHANGED running
  /\ Keep /\ UNCHANGED <<entries, udf, defv, schemas, sandbox>>

CheckKvServer ==
  /\ bstage = "kv"
  /\ Goto(IF srv = "bidding" /\ On("pas") /\ entries["kv"] = "" THEN "error" ELSE "defaults")
  /\ Keep /\ UNCHANGED <<entries, udf, defv, running, schemas, sandbox>>

(* The version requests run that name none.  The manager of binaries has no  *)
(* defaults of its own: it inherits these, which are about the JS bucket.    *)
BuyerDefaults == [k \in AllKinds |->
  IF cfg.mode # "bucket" THEN <<k>> ELSE IF k \in Kinds THEN BucketVersion(k, DefaultBlob) ELSE <<>>]
SellerDefaults == [k \in AllKinds |->
  IF k # "score" THEN <<>> ELSE IF cfg.mode = "bucket" THEN BucketVersion(k, DefaultBlob) ELSE <<k>>]

ConfigureRuntimeDefaults ==
  /\ bstage = "defaults"
  /\ IF cfg.mode = "bucket" /\ ~JsBucketSet THEN Goto("error") /\ UNCHANGED defv
     ELSE Goto("egress") /\ defv' = IF srv = "auction" THEN SellerDefaults ELSE BuyerDefaults
  /\ Keep /\ UNCHANGED <<entries, udf, running, schemas, sandbox>>

(* Which schemas are used: one at least, in a fetch mode that is supported. *)
SchemasWanted == (IF cfg.unlimited = "yes" THEN {"unlimited"} ELSE {}) \cup
                 (IF cfg.limited = "yes" THEN {"limited"} ELSE {})
StartEgressSchemaFetch == cfg.egress \in {"url", "bucket"}

(* EgressSchemaFetchManager::Init.  The manager is a local variable of the   *)
(* block that calls Init, and its fetchers end with it: only the caches      *)
(* outlive it.                                                               *)
EgressInit(wanted) == Goto("serve") /\ schemas' = wanted

InitEgress ==
  /\ bstage = "egress"
  /\ IF srv # "bidding" \/ ~On("pas") THEN Goto("serve") /\ UNCHANGED schemas
     ELSE \/ SchemasWanted # {} /\ StartEgressSchemaFetch /\ EgressInit(SchemasWanted)
          \/ Goto("error") /\ UNCHANGED schemas
  /\ Keep /\ UNCHANGED <<entries, udf, defv, running, sandbox>>

-----------------------------------------------------------------------------
BuildAndStart ==
  /\ bstage = "serve"
  /\ IF entries["health"] = Port THEN Goto("crashed") ELSE bstage' \in {"serving", "error"}
  /\ Keep /\ UNCHANGED <<entries, udf, defv, running, schemas, sandbox>>

(* End of the two managers, which leave only the model fetcher. *)
BuyerManagerEnd == running \ {"pa", "pas", "retrieval"}
SellerManagerEnd == running \ {"score"}
(* Wait returns: the auction server calls End, the bidding server's manager  *)
(* ends in its destructor, and its model fetcher too.                        *)
Shutdown ==
  /\ bstage = "serving" /\ Goto("stopped")
  /\ running' = (IF srv = "auction" THEN SellerManagerEnd ELSE BuyerManagerEnd) \ {"models"}
  /\ Keep /\ UNCHANGED <<entries, udf, defv, schemas, sandbox>>

BootSteps ==
  SetFlags \/ ConfigClientInit \/ CheckTypes \/ PrepareFrontEnd \/ ParseFetchConfig \/ StartEngine
  \/ InitUdfFetch \/ InitInference \/ CheckKvServer \/ ConfigureRuntimeDefaults \/ InitEgress
  \/ BuildAndStart
BootProgress == BootSteps
BootNext == BootSteps \/ Shutdown

-----------------------------------------------------------------------------
(* A server that serves runs every flag as its source gave it: the store's   *)
(* value before the command line's.  Excepted are the late flags, which the  *)
(* command line always has the last word on, and what a front end overrides. *)
FlagsComeFromTheirSource ==
  bstage = "serving" =>
    /\ \A f \in Flags \ (LateFlags \cup OverriddenFlags) :
         entries[f] = IF cfg.init = "yes" /\ Stored(f) # "" THEN Stored(f) ELSE cfg[f]
    /\ ("sel" \in Flags => entries["sel"] = cfg.sel)

(* No prod front end serves without chaffing, whatever the store says, and   *)
(* none samples at a rate out of range.                                      *)
ProdAlwaysChaffs ==
  (bstage = "serving" /\ "chaff" \in Flags) =>
    (cfg.prod = "yes" => On("chaff")) /\ entries["rate"] # "2000000"

(* A server that serves has code for each kind it serves, and its default    *)
(* version is one its fetcher loads.  Excepted: local mode has no app        *)
(* signals code, a bucket's default blob may be missing as long as another   *)
(* was loaded, and with binaries in a bucket the default names another       *)
(* bucket altogether.                                                        *)
ServesLoadedCode ==
  (bstage = "serving" /\ srv \in {"bidding", "auction"}) =>
    \A k \in Kinds :
      \/ cfg.mode = "local" /\ k \in {"pas", "retrieval"}
      \/ cfg.mode = "bucket" /\ UdfConfigHasByob /\ udf[k] # {}
      \/ cfg.mode = "bucket" /\ \E v \in udf[k] : v[1] = defv[k][1]
      \/ defv[k] \in udf[k]

(* What was fetched periodically before serving goes on being fetched; the   *)
(* egress schemas, whose fetchers died with their manager, do not.  Caches   *)
(* that requests need are filled.                                            *)
RefreshGoesOn ==
  (bstage = "serving" /\ srv \in {"bidding", "auction"}) =>
    /\ cfg.mode \in {"url", "bucket"} => Kinds \subseteq running
    /\ srv = "bidding" /\ On("pas") =>
         schemas # {} /\ (cfg.limited = "yes" => "limited" \in schemas)

(* A server that fetches models has a sandbox to load them into, binaries    *)
(* excepted: they are served without one.                                    *)
ModelsHaveASandbox == "models" \in running => sandbox \/ UdfConfigHasByob

(* Nothing is fetched once the server has stopped. *)
StoppedFetchesNothing == bstage = "stopped" => running = {}

(* Starting ends: the server serves or the process ends, unless the config   *)
(* client refused a flag that has a value.                                   *)
StartupEnds == (bstage = "flags") ~> (bstage \in {"serving", "stopped", "error", "crashed", "hung"})
=============================================================================

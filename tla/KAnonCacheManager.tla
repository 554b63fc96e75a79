-------------------------- MODULE KAnonCacheManager --------------------------
(***************************************************************************)
(* The k-anonymity lookups of the seller front end                         *)
(* (services/seller_frontend_service/k_anon): hashes are looked for in the *)
(* sharded caches of positive and of negative answers, the k-anonymity     *)
(* service is asked about the rest, the caller is called back, and only    *)
(* then are the caches brought up to date, from string_views that point    *)
(* into the caller.                                                        *)
(*                                                                         *)
(* Several requests use one manager.  A lookup is a sequence of steps: the *)
(* query of the positive shards, that of the negative ones, the call, the  *)
(* callback and the two insertions.  Shards share no hash, so a visit to   *)
(* all shards of a kind is one step although it takes their mutexes one by *)
(* one.  A shard is the set of hashes it holds; which ones it evicts is    *)
(* left open (Cache.tla has the list and the timers).                      *)
(***************************************************************************)
EXTENDS Integers, FiniteSets

CONSTANTS
  Hash,            \* k-anon hashes
  Request,         \* concurrent callers of AreKAnonymous, one call each
  Load32,          \* little_endian::Load32 of each hash
  KAnonShards,     \* num_k_anon_shards_
  NonKAnonShards,  \* num_non_k_anon_shards_
  ShardCapacity    \* capacity of one shard

ASSUME KAnonAssumption ==
  /\ Load32 \in [Hash -> Nat]
  /\ KAnonShards \in Nat \ {0} /\ NonKAnonShards \in Nat \ {0}
  /\ ShardCapacity \in Nat \ {0} /\ IsFiniteSet(Hash)

VARIABLES
  enabled,     \* enable_k_anon_cache_
  kAnon,       \* k_anon_caches_: shard -> hashes
  nonKAnon,    \* non_k_anon_caches_
  pc,          \* where each request is
  hashes,      \* the hashes it asked about
  cached,      \* k_anon_hashes, what the positive caches knew
  unresolved,  \* unresolved_hashes
  answer,      \* what its callback was given: {} or {set of hashes}
  owner,       \* the requests whose caller is still there
  vouched,     \* history: hashes the service has called k-anonymous
  denied       \* history: hashes it was asked about and left out

caches == <<kAnon, nonKAnon>>
request == <<hashes, cached, unresolved>>
kAnonVars == <<enabled, kAnon, nonKAnon, pc, hashes, cached, unresolved,
               answer, owner, vouched, denied>>

Shard(n) == 0..(n - 1)

GetShardIndex(h, n) == Load32[h] % n

MapHashToShardedCache(S, n) ==
  [i \in Shard(n) |-> {h \in S : GetShardIndex(h, n) = i}]

Held(cache) == UNION {cache[i] : i \in DOMAIN cache}

QueryShardedCaches(cache, n, S) ==
  UNION {cache[i] \cap MapHashToShardedCache(S, n)[i] : i \in Shard(n)}

(* What one shard may hold after the insertion of S: a batch that fits is    *)
(* there, older entries may have been evicted.                               *)
CacheInsert(old, S) ==
  {T \in SUBSET (old \cup S) :
     /\ Cardinality(T) <= ShardCapacity
     /\ Cardinality(S) <= ShardCapacity => S \subseteq T}

InsertShardedCaches(cache, n, S) ==
  {c \in [Shard(n) -> SUBSET Hash] :
     \A i \in Shard(n) : c[i] \in CacheInsert(cache[i], MapHashToShardedCache(S, n)[i])}

KAnonInit ==
  /\ enabled \in BOOLEAN
  /\ kAnon = [i \in Shard(KAnonShards) |-> {}]
  /\ nonKAnon = [i \in Shard(NonKAnonShards) |-> {}]
  /\ pc = [r \in Request |-> "idle"]
  /\ hashes = [r \in Request |-> {}] /\ cached = [r \in Request |-> {}]
  /\ unresolved = [r \in Request |-> {}] /\ answer = [r \in Request |-> {}]
  /\ owner = Request /\ vouched = {} /\ denied = {}

-----------------------------------------------------------------------------
(* AreKAnonymous, up to the query of the positive caches. *)
AreKAnonymous(r, H) ==
  /\ pc[r] = "idle"
  /\ hashes' = [hashes EXCEPT ![r] = H]
  /\ IF enabled
     THEN /\ cached' = [cached EXCEPT ![r] =
                          QueryShardedCaches(kAnon, KAnonShards, H)]
          /\ pc' = [pc EXCEPT ![r] = "queried"]
          /\ UNCHANGED unresolved
     ELSE /\ unresolved' = [unresolved EXCEPT ![r] = H]
          /\ pc' = [pc EXCEPT ![r] = "unresolved"]
          /\ UNCHANGED cached
  /\ UNCHANGED <<enabled, caches, answer, owner, vouched, denied>>

(* Mutant: all that the caches have resolved is reported. *)
QueryNonKAnonCachesReportsBoth(r) ==
  /\ pc[r] = "queried"
  /\ LET known == QueryShardedCaches(nonKAnon, NonKAnonShards, hashes[r])
         rest == hashes[r] \ (cached[r] \cup known)
     IN  IF rest = {}
         THEN /\ answer' = [answer EXCEPT ![r] = {cached[r] \cup known}]
              /\ pc' = [pc EXCEPT ![r] = "done"]
              /\ UNCHANGED unresolved
         ELSE /\ unresolved' = [unresolved EXCEPT ![r] = rest]
              /\ pc' = [pc EXCEPT ![r] = "unresolved"]
              /\ UNCHANGED answer
  /\ UNCHANGED <<enabled, caches, hashes, cached, owner, vouched, denied>>

(* The query of the negative caches; with nothing left to ask about the      *)
(* caller is called back at once.                                            *)
QueryNonKAnonCaches(r) ==
  /\ pc[r] = "queried"
  /\ LET known == QueryShardedCaches(nonKAnon, NonKAnonShards, hashes[r])
         rest == hashes[r] \ (cached[r] \cup known)
     IN  IF rest = {}
         THEN /\ answer' = [answer EXCEPT ![r] = {cached[r]}]
              /\ pc' = [pc EXCEPT ![r] = "done"]
              /\ UNCHANGED unresolved
         ELSE /\ unresolved' = [unresolved EXCEPT ![r] = rest]
              /\ pc' = [pc EXCEPT ![r] = "unresolved"]
              /\ UNCHANGED answer
  /\ UNCHANGED <<enabled, caches, hashes, cached, owner, vouched, denied>>

(* QueryKAnonClient: the client refuses and AreKAnonymous returns the error, *)
(* or the call is out.                                                       *)
QueryKAnonClient(r) ==
  /\ pc[r] = "unresolved"
  /\ \E next \in {"refused", "asked"} : pc' = [pc EXCEPT ![r] = next]
  /\ UNCHANGED <<enabled, caches, request, answer, owner, vouched, denied>>

(* Mutant: the callback is forgotten when the service has nothing to say. *)
OnNoAnswerSilent(r) ==
  /\ pc[r] = "asked"
  /\ pc' = [pc EXCEPT ![r] = "done"]
  /\ UNCHANGED <<enabled, caches, request, answer, owner, vouched, denied>>

(* Mutant: the error branch goes on to look at the response. *)
OnNoAnswerNoReturn(r) ==
  /\ pc[r] = "asked"
  /\ answer' = [answer EXCEPT ![r] = {cached[r]}]
  /\ UNCHANGED <<enabled, caches, pc, request, owner, vouched, denied>>

(* on_done_execute without an answer, by an error, a timeout or an empty     *)
(* response: what the caches knew is reported, and nothing is stored.        *)
OnNoAnswer(r) ==
  /\ pc[r] = "asked"
  /\ answer' = [answer EXCEPT ![r] = {cached[r]}]
  /\ pc' = [pc EXCEPT ![r] = "done"]
  /\ UNCHANGED <<enabled, caches, request, owner, vouched, denied>>

(* Mutant: the answer of the caches is lost. *)
OnAnswerOnly(r) ==
  /\ pc[r] = "asked"
  /\ \E S \in SUBSET unresolved[r] :
       /\ answer' = [answer EXCEPT ![r] = {S}]
       /\ vouched' = vouched \cup S
       /\ denied' = denied \cup (unresolved[r] \ S)
  /\ pc' = [pc EXCEPT ![r] = IF enabled THEN "insertKAnon" ELSE "done"]
  /\ UNCHANGED <<enabled, caches, request, owner>>

(* on_done_execute with the hashes S the service vouches for, taken to be    *)
(* among those it was asked about (the code adds whatever it is sent); a set *)
(* of another type counts as none.  The callback runs before the caches.     *)
OnAnswer(r) ==
  /\ pc[r] = "asked"
  /\ \E S \in SUBSET unresolved[r] :
       /\ answer' = [answer EXCEPT ![r] = {S \cup cached[r]}]
       /\ vouched' = vouched \cup S
       /\ denied' = denied \cup (unresolved[r] \ S)
  /\ pc' = [pc EXCEPT ![r] = IF enabled THEN "insertKAnon" ELSE "done"]
  /\ UNCHANGED <<enabled, caches, request, owner>>

Resolved(r) == UNION answer[r]

(* The positive caches get the whole answer, the cached hashes included. *)
InsertKAnon(r) ==
  /\ pc[r] = "insertKAnon"
  /\ kAnon' \in InsertShardedCaches(kAnon, KAnonShards, Resolved(r))
  /\ pc' = [pc EXCEPT ![r] = "insertNonKAnon"]
  /\ UNCHANGED <<enabled, nonKAnon, request, answer, owner, vouched, denied>>

(* The negative caches get the rest of unresolved_hashes.  Those are views   *)
(* into the caller: once it is gone they read as anything.                   *)
InsertNonKAnon(r) ==
  /\ pc[r] = "insertNonKAnon"
  /\ \E views \in SUBSET Hash :
       /\ r \in owner => views = unresolved[r]
       /\ nonKAnon' \in InsertShardedCaches(nonKAnon, NonKAnonShards,
                                            views \ Resolved(r))
  /\ pc' = [pc EXCEPT ![r] = "done"]
  /\ UNCHANGED <<enabled, kAnon, request, answer, owner, vouched, denied>>

(* An entry's timer runs out in one shard of either kind. *)
Expire ==
  /\ \/ /\ \E i \in Shard(KAnonShards) : \E h \in kAnon[i] :
             kAnon' = [kAnon EXCEPT ![i] = @ \ {h}]
        /\ UNCHANGED nonKAnon
     \/ /\ \E i \in Shard(NonKAnonShards) : \E h \in nonKAnon[i] :
             nonKAnon' = [nonKAnon EXCEPT ![i] = @ \ {h}]
        /\ UNCHANGED kAnon
  /\ UNCHANGED <<enabled, pc, request, answer, owner, vouched, denied>>

(* The callback let the reactor go on; it ends its call and is deleted.      *)
(* (SelectAdReactor.tla has the V2 lookup that deletes it even earlier.)     *)
OwnerDeleted(r) ==
  /\ r \in owner /\ (answer[r] # {} \/ pc[r] = "refused")
  /\ owner' = owner \ {r}
  /\ UNCHANGED <<enabled, caches, pc, request, answer, vouched, denied>>

Settled ==
  /\ \A r \in Request : pc[r] \in {"done", "refused"}
  /\ UNCHANGED kAnonVars

Step(r) ==
  \/ QueryNonKAnonCaches(r) \/ QueryKAnonClient(r) \/ OnNoAnswer(r)
  \/ OnAnswer(r) \/ InsertKAnon(r) \/ InsertNonKAnon(r)

KAnonNext ==
  \/ \E r \in Request, H \in (SUBSET Hash) \ {{}} : AreKAnonymous(r, H)
  \/ \E r \in Request : Step(r) \/ OwnerDeleted(r)
  \/ Expire \/ Settled

KAnonSpec == KAnonInit /\ [][KAnonNext]_kAnonVars

(* The calling thread runs on, and the client's call has a deadline; the     *)
(* insertions need not come to an end.                                       *)
KAnonFairSpec ==
  /\ KAnonSpec
  /\ \A r \in Request : WF_kAnonVars(\/ QueryNonKAnonCaches(r) \/ QueryKAnonClient(r)
                                \/ OnNoAnswer(r) \/ OnAnswer(r))

-----------------------------------------------------------------------------
(* Properties. *)

KAnonTypeOK ==
  /\ enabled \in BOOLEAN
  /\ kAnon \in [Shard(KAnonShards) -> SUBSET Hash]
  /\ nonKAnon \in [Shard(NonKAnonShards) -> SUBSET Hash]
  /\ pc \in [Request -> {"idle", "queried", "unresolved", "asked", "refused",
                         "insertKAnon", "insertNonKAnon", "done"}]
  /\ hashes \in [Request -> SUBSET Hash] /\ cached \in [Request -> SUBSET Hash]
  /\ unresolved \in [Request -> SUBSET Hash]
  /\ answer \in [Request -> SUBSET (SUBSET Hash)]
  /\ owner \subseteq Request /\ vouched \subseteq Hash /\ denied \subseteq Hash

(* No hash is reported k-anonymous that the service has not called so:       *)
(* however lookups interleave, whatever the caches evict, and even when the  *)
(* negative caches are filled from freed memory, AreKAnonymous's callback    *)
(* gets only hashes it was asked about and the service has vouched for.      *)
OnlyVouchedFor ==
  \A r \in Request : \A A \in answer[r] : A \subseteq vouched \cap hashes[r]

(* Nothing the positive caches knew is lost: whether the service answers,    *)
(* fails or says nothing, on_done_execute reports at least the hashes that   *)
(* the caches held when AreKAnonymous looked, evicted since or not.          *)
CachedHashesReported ==
  \A r \in Request : \A A \in answer[r] : cached[r] \subseteq A

(* Every hash sits in the shard in which QueryShardedCaches looks for it,    *)
(* and no shard holds more than its capacity.                                *)
ShardsHoldTheirOwn ==
  /\ \A i \in Shard(KAnonShards) :
       /\ \A h \in kAnon[i] : GetShardIndex(h, KAnonShards) = i
       /\ Cardinality(kAnon[i]) <= ShardCapacity
  /\ \A i \in Shard(NonKAnonShards) :
       /\ \A h \in nonKAnon[i] : GetShardIndex(h, NonKAnonShards) = i
       /\ Cardinality(nonKAnon[i]) <= ShardCapacity

(* What the positive caches hold, and what a lookup found in them, has been  *)
(* vouched for; a lookup finds only hashes it asked about.                   *)
KAnonCachesVouchedFor ==
  /\ Held(kAnon) \subseteq vouched
  /\ \A r \in Request : cached[r] \subseteq vouched \cap hashes[r]

(* A request with an answer has the query of the service behind it. *)
AnsweredIsPast ==
  \A r \in Request :
    answer[r] # {} => pc[r] \in {"insertKAnon", "insertNonKAnon", "done"}

(* The service is asked only about hashes of the request, and a request that *)
(* has not started has neither found nor left anything.                      *)
UnresolvedWithinHashes ==
  \A r \in Request :
    /\ unresolved[r] \subseteq hashes[r]
    /\ pc[r] = "idle" => cached[r] = {} /\ unresolved[r] = {}

(* The inductive invariant of the proofs. *)
KAnonInv ==
  /\ KAnonTypeOK /\ OnlyVouchedFor /\ KAnonCachesVouchedFor /\ AnsweredIsPast
  /\ UnresolvedWithinHashes

(* The callback runs at most once, and never after AreKAnonymous returned an *)
(* error: a second run would resume the reactor a second time.               *)
AnsweredOnce ==
  [][\A r \in Request :
       answer[r] # {} \/ pc[r] = "refused" => answer'[r] = answer[r]]_kAnonVars

(* Every lookup that is started ends with the callback or with an error for  *)
(* its caller, whatever the service does: nothing else resumes the reactor.  *)
EveryQueryAnswered ==
  \A r \in Request :
    pc[r] # "idle" ~> (answer[r] # {} \/ pc[r] = "refused")
=============================================================================

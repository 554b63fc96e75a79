--------------------------- MODULE KAnonCaches_proofs ---------------------------
(***************************************************************************)
(* Proofs about Cache, for any capacity and any number of keys and nodes,  *)
(* and about KAnonCacheManager, for any number of callers, hashes and      *)
(* shards.                                                                 *)
(*                                                                         *)
(* The list of a cache enters the proofs through the set of its nodes      *)
(* alone: two lemmas say what unlinking a node and linking one at the      *)
(* front do to that set, and three more what the actions built from them   *)
(* do to map, list and count.                                              *)
(*                                                                         *)
(* The manager's invariant says that k-anonymity is only ever handed on:   *)
(* from the service to an answer, from an answer to a positive cache, from *)
(* a positive cache to a later answer; the history `vouched' grows only.   *)
(***************************************************************************)
EXTENDS Cache, KAnonCacheManager, SequenceTheorems, FiniteSetTheorems, TLAPS

-----------------------------------------------------------------------------
(* The expiring LRU cache. *)

Nodes(s) == {s[i] : i \in DOMAIN s}

Once(s) == \A i, j \in DOMAIN s : s[i] = s[j] => i = j

(* Unlinking takes one node out of a list that holds each node once. *)
LEMMA Unlink ==
  ASSUME NEW S, NEW s \in Seq(S), Once(s), NEW i \in DOMAIN s
  PROVE  /\ RemoveAt(s, i) \in Seq(S) /\ Once(RemoveAt(s, i))
         /\ Len(RemoveAt(s, i)) = Len(s) - 1
         /\ Nodes(RemoveAt(s, i)) = Nodes(s) \ {s[i]}
<1>1. i \in 1 .. Len(s) /\ Len(s) \in Nat
  OBVIOUS
<1>2. PICK a, b : a = SubSeq(s, 1, i - 1) /\ b = SubSeq(s, i + 1, Len(s))
  OBVIOUS
<1>3. a \in Seq(S) /\ Len(a) = i - 1 /\ \A j \in 1 .. i - 1 : a[j] = s[j]
  BY <1>1, <1>2, SMTT(30)
<1>4. /\ b \in Seq(S) /\ Len(b) = Len(s) - i
      /\ \A j \in 1 .. Len(s) - i : b[j] = s[i + j]
  BY <1>1, <1>2, SMTT(30)
<1>5. PICK r : r = a \o b
  OBVIOUS
<1>6. /\ r \in Seq(S) /\ Len(r) = Len(s) - 1
      /\ \A j \in 1 .. Len(s) - 1 : r[j] = IF j < i THEN a[j] ELSE b[j - (i - 1)]
  <2>1. /\ r \in Seq(S) /\ Len(r) = Len(a) + Len(b)
        /\ \A j \in 1 .. Len(a) + Len(b) : r[j] = IF j <= Len(a) THEN a[j] ELSE b[j - Len(a)]
    BY <1>3, <1>4, <1>5, ConcatProperties
  <2>2. Len(a) + Len(b) = Len(s) - 1
    BY <1>1, <1>3, <1>4
  <2>3. \A j \in 1 .. Len(s) - 1 : j <= Len(a) <=> j < i
    BY <1>1, <1>3
  <2> QED BY <1>3, <2>1, <2>2, <2>3
<1>7. ASSUME NEW j \in 1 .. Len(s) - 1
      PROVE  r[j] = IF j < i THEN s[j] ELSE s[j + 1]
  <2>1. CASE j < i
    <3>1. j \in 1 .. i - 1
      BY <1>1, <2>1
    <3> QED BY <1>3, <1>6, <2>1, <3>1
  <2>2. CASE ~(j < i)
    <3>1. j - (i - 1) \in 1 .. Len(s) - i /\ i + (j - (i - 1)) = j + 1
      BY <1>1, <2>2
    <3> QED BY <1>4, <1>6, <2>2, <3>1
  <2> QED BY <2>1, <2>2
<1>8. \A j \in 1 .. Len(s) - 1 : r[j] = IF j < i THEN s[j] ELSE s[j + 1]
  BY <1>7
<1>11. Len(s) \in Nat /\ DOMAIN s = 1 .. Len(s) /\ DOMAIN r = 1 .. Len(s) - 1
  BY <1>6
<1>12. \A x, y \in 1 .. Len(s) : s[x] = s[y] => x = y
  BY <1>11 DEF Once
<1>13. \A j, k \in 1 .. Len(s) - 1 : r[j] = r[k] => j = k
  <2> SUFFICES ASSUME NEW j \in 1 .. Len(s) - 1, NEW k \in 1 .. Len(s) - 1, r[j] = r[k]
               PROVE  j = k
    OBVIOUS
  <2>1. j \in 1 .. Len(s) /\ j + 1 \in 1 .. Len(s) /\ k \in 1 .. Len(s)
        /\ k + 1 \in 1 .. Len(s)
    BY <1>11
  <2> QED BY <1>1, <1>8, <1>12, <2>1
<1>14. ASSUME NEW j \in 1 .. Len(s) - 1 PROVE r[j] \in Nodes(s) /\ r[j] # s[i]
  <2>1. j \in 1 .. Len(s) /\ j + 1 \in 1 .. Len(s)
    BY <1>11
  <2> QED BY <1>1, <1>8, <1>11, <1>12, <2>1 DEF Nodes
<1>15. ASSUME NEW j \in 1 .. Len(s), s[j] # s[i] PROVE s[j] \in Nodes(r)
  <2>1. CASE j < i
    <3>1. j \in 1 .. Len(s) - 1 /\ r[j] = s[j]
      BY <1>1, <1>8, <2>1
    <3> QED BY <1>11, <3>1 DEF Nodes
  <2>2. CASE j > i
    <3>1. j - 1 \in 1 .. Len(s) - 1 /\ r[j - 1] = s[j]
      BY <1>1, <1>8, <2>2
    <3> QED BY <1>11, <3>1 DEF Nodes
  <2> QED BY <1>11, <1>15, <2>1, <2>2
<1>16. Once(r)
  BY <1>11, <1>13 DEF Once
<1>17. Nodes(r) = Nodes(s) \ {s[i]}
  BY <1>11, <1>14, <1>15 DEF Nodes
<1>18. RemoveAt(s, i) = r
  BY <1>2, <1>5 DEF RemoveAt
<1> QED BY <1>6, <1>16, <1>17, <1>18, Zenon

(* Linking at the front adds one node that was not there. *)
LEMMA LinkFront ==
  ASSUME NEW S, NEW s \in Seq(S), Once(s), NEW n \in S, n \notin Nodes(s)
  PROVE  /\ <<n>> \o s \in Seq(S) /\ Once(<<n>> \o s) /\ Len(<<n>> \o s) = Len(s) + 1
         /\ Nodes(<<n>> \o s) = Nodes(s) \cup {n}
<1>1. PICK r : r = <<n>> \o s
  OBVIOUS
<1>2. /\ r \in Seq(S) /\ Len(r) = Len(s) + 1 /\ DOMAIN r = 1 .. Len(s) + 1
      /\ DOMAIN s = 1 .. Len(s) /\ Len(s) \in Nat
  BY <1>1
<1>3. \A j \in 1 .. Len(s) + 1 : r[j] = IF j = 1 THEN n ELSE s[j - 1]
  BY <1>1, <1>2
<1>4. r[1] = n /\ \A j \in 1 .. Len(s) : r[j + 1] = s[j]
  BY <1>2, <1>3
<1>5. \A j \in 1 .. Len(s) + 1 : j = 1 \/ j - 1 \in 1 .. Len(s)
  BY <1>2
<1>6. Once(r)
  <2> SUFFICES ASSUME NEW j \in 1 .. Len(s) + 1, NEW k \in 1 .. Len(s) + 1, r[j] = r[k]
               PROVE  j = k
    BY <1>2 DEF Once
  <2>1. \A x \in 1 .. Len(s) : s[x] # n
    BY <1>2 DEF Nodes
  <2>2. \A x, y \in 1 .. Len(s) : s[x] = s[y] => x = y
    BY <1>2 DEF Once
  <2> QED BY <1>2, <1>3, <1>5, <2>1, <2>2
<1>7. ASSUME NEW j \in 1 .. Len(s) + 1 PROVE r[j] \in Nodes(s) \cup {n}
  BY <1>2, <1>3, <1>5 DEF Nodes
<1>8. ASSUME NEW j \in 1 .. Len(s) PROVE s[j] \in Nodes(r)
  <2>1. j + 1 \in 1 .. Len(s) + 1 /\ r[j + 1] = s[j]
    BY <1>2, <1>4
  <2> QED BY <1>2, <2>1 DEF Nodes
<1>9. n \in Nodes(r)
  <2>1. 1 \in 1 .. Len(s) + 1
    BY <1>2
  <2> QED BY <1>2, <1>4, <2>1 DEF Nodes
<1>10. Nodes(r) = Nodes(s) \cup {n}
  BY <1>2, <1>7, <1>8, <1>9 DEF Nodes
<1> QED BY <1>1, <1>2, <1>6, <1>10, Zenon

-----------------------------------------------------------------------------
(* What the actions on the list do to the cache. *)

LEMMA ListedNodes == Listed = Nodes(dll)
BY DEF Listed, Nodes

(* MapMatchesList, said of the set of listed nodes. *)
LEMMA MatchesNodes ==
  MapMatchesList <=> /\ \A k \in Present : key[map[k]] = k /\ map[k] \in Nodes(dll)
                     /\ \A n \in Nodes(dll) : map[key[n]] = n
                     /\ Once(dll)
BY ListedNodes DEF MapMatchesList, Nodes, Once

(* The same of the next state. *)
LEMMA MatchesNodesNext ==
  /\ \A k \in Present' : key'[map'[k]] = k /\ map'[k] \in Nodes(dll')
  /\ \A n \in Nodes(dll') : map'[key'[n]] = n
  /\ Once(dll')
  => MapMatchesList'
BY DEF MapMatchesList, Nodes, Once, Listed

(* Marking an entry most recently used leaves the cache the same entries. *)
LEMMA MoveToFrontKeeps ==
  ASSUME dll \in Seq(Node), Once(dll), NEW n, MoveToFront(n)
  PROVE  /\ dll' \in Seq(Node) /\ Once(dll') /\ Len(dll') = Len(dll)
         /\ Nodes(dll') = Nodes(dll)
<1>1. PICK i \in DOMAIN dll : dll[i] = n /\ dll' = <<n>> \o RemoveAt(dll, i)
  BY DEF MoveToFront
<1>2. n \in Node /\ n \in Nodes(dll) /\ Len(dll) \in Nat
  BY <1>1 DEF Nodes
<1>3. PICK r : /\ r = RemoveAt(dll, i) /\ r \in Seq(Node) /\ Once(r)
               /\ Len(r) = Len(dll) - 1 /\ Nodes(r) = Nodes(dll) \ {n}
  BY <1>1, Unlink
<1>4. PICK q : /\ q = <<n>> \o r /\ q \in Seq(Node) /\ Once(q)
               /\ Len(q) = Len(r) + 1 /\ Nodes(q) = Nodes(r) \cup {n}
  <2>1. n \notin Nodes(r) /\ r \in Seq(Node) /\ Once(r) /\ n \in Node
    BY <1>2, <1>3
  <2> QED BY <2>1, LinkFront
<1>5. dll' = q
  BY <1>1, <1>3, <1>4
<1>6. Len(q) = Len(dll)
  BY <1>2, <1>3, <1>4
<1>7. Nodes(q) = Nodes(dll)
  BY <1>2, <1>3, <1>4, Zenon
<1> QED BY <1>4, <1>5, <1>6, <1>7, Zenon

(* Removing a listed node takes out its entry and no other; its timer may   *)
(* stay behind, as that of the node that is being destroyed.                *)
LEMMA RemoveNodeRemoves ==
  ASSUME TypeOK, MapMatchesList, ArgumentOutlivesEvent, TimeoutsAccounted, dying = NoNode,
         NEW n \in Nodes(dll), RemoveNode(n), UNCHANGED <<key, live>>,
         timeouts' \in [Node -> Nat], \A m \in Node : timeouts'[m] <= timeouts[m]
  PROVE  /\ map' \in [Key -> Node \cup {NoNode}] /\ dll' \in Seq(Node)
         /\ armed' \subseteq Node /\ reclaims' \subseteq Node /\ num' = num - 1
         /\ dying' \in Node \ Listed' /\ overtaken' \subseteq Node
         /\ Len(dll') = Len(dll) - 1
         /\ MapMatchesList' /\ ArgumentOutlivesEvent' /\ TimeoutsAccounted'
<1>1. PICK i \in DOMAIN dll : dll[i] = n /\ dll' = RemoveAt(dll, i)
  BY DEF RemoveNode
<1>2. dll \in Seq(Node) /\ Once(dll) /\ n \in Node
  BY <1>1, MatchesNodes DEF TypeOK
<1>3. /\ dll' \in Seq(Node) /\ Once(dll') /\ Len(dll') = Len(dll) - 1
      /\ Nodes(dll') = Nodes(dll) \ {n}
  BY <1>1, <1>2, Unlink
<1>4. /\ map' \in [Key -> Node \cup {NoNode}] /\ armed' \subseteq Node
      /\ reclaims' \subseteq Node /\ num' = num - 1 /\ overtaken' \subseteq Node
  BY <1>2 DEF RemoveNode, Overtake, TypeOK
<1>5. ASSUME NEW k \in Present'
      PROVE  key'[map'[k]] = k /\ map'[k] \in Nodes(dll')
  <2>1. k # key[n] /\ map'[k] = map[k] /\ k \in Present
    BY <1>2, <1>5 DEF RemoveNode, TypeOK, Present
  <2> QED BY <1>3, <2>1, MatchesNodes
<1>6. ASSUME NEW m \in Nodes(dll')
      PROVE  map'[key'[m]] = m
  <2>0. m \in Nodes(dll) /\ m # n
    BY <1>3, <1>6
  <2>1. m \in Nodes(dll) /\ m # n /\ m \in Node
    BY <1>2, <2>0 DEF Nodes
  <2>2. key[m] # key[n]
    BY <2>1, MatchesNodes
  <2> QED BY <1>2, <2>1, <2>2, MatchesNodes DEF RemoveNode, TypeOK
<1>7. MapMatchesList'
  BY <1>3, <1>5, <1>6, MatchesNodesNext
<1>8. Listed' = Nodes(dll) \ {n} /\ Listed = Nodes(dll)
  BY <1>3 DEF Listed, Nodes
<1>9. /\ armed' = armed /\ reclaims' = reclaims \cup {n} /\ dying' = n
      /\ overtaken' = overtaken \cup {m \in {n} : timeouts'[m] > 0}
  BY DEF RemoveNode, Overtake
<1>10. \A m \in Node : timeouts'[m] > 0 => timeouts[m] > 0
  BY DEF TypeOK
<1>11. ArgumentOutlivesEvent'
  BY <1>2, <1>8, <1>9, <1>10, CacheAssumption DEF ArgumentOutlivesEvent, TypeOK
<1>12. TimeoutsAccounted'
  BY <1>8, <1>9, <1>10 DEF TimeoutsAccounted
<1> QED BY <1>2, <1>3, <1>4, <1>7, <1>8, <1>9, <1>11, <1>12

-----------------------------------------------------------------------------
(* The invariant. *)

(* Batches are finite, and have a size. *)
LEMMA BatchesAreFinite ==
  ASSUME NEW B \in SUBSET Key
  PROVE  IsFiniteSet(B) /\ Cardinality(B) \in Nat
BY CacheAssumption, FS_Subset, FS_CardinalityType

(* The cache starts empty. *)
LEMMA InitInv == Init => Inv
<1> SUFFICES ASSUME Init PROVE Inv
  OBVIOUS
<1>1. TypeOK
  BY DEF Init, TypeOK
<1>2. MapMatchesList
  BY DEF Init, MapMatchesList, Present
<1>3. CountWithinCapacity
  BY CacheAssumption DEF Init, CountWithinCapacity
<1>4. ArgumentOutlivesEvent /\ TimeoutsAccounted /\ HolderMeansRunning /\ InsertProgress
  BY DEF Init, ArgumentOutlivesEvent, Listed, TimeoutsAccounted, HolderMeansRunning,
         InsertProgress
<1> QED BY <1>1, <1>2, <1>3, <1>4 DEF Inv

(* Evict: one node goes and the overflow shrinks by one, or nothing is left  *)
(* to go because the batch alone is larger than the cache.                   *)
LEMMA EvictInv == Inv /\ Alive /\ Evict => Inv'
<1> SUFFICES ASSUME Inv, Alive, Evict PROVE Inv'
  OBVIOUS
<1>0. /\ TypeOK /\ MapMatchesList /\ CountWithinCapacity /\ ArgumentOutlivesEvent
      /\ TimeoutsAccounted /\ HolderMeansRunning /\ InsertProgress
  BY DEF Inv
<1>1. /\ op = "insert" /\ evict > 0 /\ left = batch /\ num = Len(dll) /\ num <= Capacity
      /\ evict = num + Cardinality(batch) - Capacity /\ life = "running" /\ dying = NoNode
  BY <1>0 DEF Evict, InsertProgress, CountWithinCapacity, HolderMeansRunning, Alive
<1>2. Cardinality(batch) \in Nat /\ Capacity \in Nat /\ Capacity > 0 /\ Len(dll) \in Nat
      /\ evict \in Int
  BY <1>0, BatchesAreFinite, CacheAssumption DEF TypeOK
<1>3. batch # {}
  <2>1. batch = {} => Cardinality(batch) = 0
    BY FS_EmptySet, Zenon
  <2>2. Cardinality(batch) # 0
    BY <1>1, <1>2
  <2> QED BY <2>1, <2>2, Zenon
<1>4. CASE dll = <<>>
  <2>1. /\ evict' = 0 /\ num = 0 /\ Cardinality(batch) > Capacity
        /\ UNCHANGED <<map, dll, num, key, live, armed, timeouts, reclaims, dying, overtaken,
                       op, batch, left, life>>
    BY <1>1, <1>2, <1>4 DEF Evict, entryVars, nodeVars, eventVars
  <2>2. TypeOK' /\ MapMatchesList' /\ CountWithinCapacity' /\ ArgumentOutlivesEvent'
        /\ TimeoutsAccounted' /\ HolderMeansRunning'
    BY <1>0, <2>1 DEF TypeOK, MapMatchesList, CountWithinCapacity, Listed, Present,
                      ArgumentOutlivesEvent, TimeoutsAccounted, HolderMeansRunning
  <2>3. InsertProgress'
    BY <1>1, <1>2, <2>1 DEF InsertProgress
  <2> QED BY <2>2, <2>3 DEF Inv
<1>5. CASE dll # <<>>
  <2>1. /\ RemoveNode(LruNode) /\ evict' = evict - 1
        /\ UNCHANGED <<key, live, timeouts, op, batch, left, life>>
    BY <1>5 DEF Evict, nodeVars
  <2>2. LruNode \in Nodes(dll)
    <3>1. Len(dll) \in DOMAIN dll
      BY <1>0, <1>5 DEF TypeOK
    <3> QED BY <3>1 DEF Nodes, LruNode
  <2>3. /\ map' \in [Key -> Node \cup {NoNode}] /\ dll' \in Seq(Node)
        /\ armed' \subseteq Node /\ reclaims' \subseteq Node /\ num' = num - 1
        /\ dying' \in Node \ Listed' /\ overtaken' \subseteq Node
        /\ Len(dll') = Len(dll) - 1
        /\ MapMatchesList' /\ ArgumentOutlivesEvent' /\ TimeoutsAccounted'
    <3>1. timeouts' \in [Node -> Nat] /\ \A m \in Node : timeouts'[m] <= timeouts[m]
      BY <1>0, <2>1 DEF TypeOK
    <3> QED BY <1>0, <1>1, <2>1, <2>2, <3>1, RemoveNodeRemoves
  <2>4. TypeOK'
    BY <1>0, <1>2, <2>1, <2>3 DEF TypeOK
  <2>5. CountWithinCapacity' /\ HolderMeansRunning'
    BY <1>0, <1>1, <1>2, <2>1, <2>3 DEF CountWithinCapacity, HolderMeansRunning
  <2>6. InsertProgress'
    <3>1. /\ batch' = batch /\ left' = batch /\ op' = "insert"
          /\ evict' = num' + Cardinality(batch) - Capacity
      BY <1>1, <1>2, <2>1, <2>3, SMTT(30)
    <3>2. evict' <= 0 => num' + Cardinality(batch) = Capacity
      BY <1>1, <1>2, <2>1, <2>3, SMTT(30)
    <3>3. Cardinality(batch) > 0
      BY <1>2, <1>3, <1>0, BatchesAreFinite, FS_EmptySet DEF TypeOK
    <3> QED BY <1>1, <1>2, <2>3, <3>1, <3>2, <3>3, SMTT(30) DEF InsertProgress
  <2> QED BY <2>3, <2>4, <2>5, <2>6 DEF Inv
<1> QED BY <1>4, <1>5

(* A key that is found is marked most recently used, by Insert with a fresh  *)
(* timer, by Query without: the entries stay the same.                       *)
LEMMA RefreshInv ==
  ASSUME Inv, NEW k \in left, map[k] # NoNode, MoveToFront(map[k]),
         armed' \in {armed, armed \cup {map[k]}}, left' = left \ {k},
         UNCHANGED <<map, num, key, live, timeouts, reclaims, dying, overtaken, op, batch,
                     evict, life>>,
         op = "insert" => evict <= 0
  PROVE  Inv'
<1>0. /\ TypeOK /\ MapMatchesList /\ CountWithinCapacity /\ ArgumentOutlivesEvent
      /\ TimeoutsAccounted /\ HolderMeansRunning /\ InsertProgress
  BY DEF Inv
<1>1. k \in Key /\ k \in Present /\ map[k] \in Nodes(dll)
  BY <1>0, MatchesNodes DEF TypeOK, Present
<1>2. /\ dll' \in Seq(Node) /\ Once(dll') /\ Len(dll') = Len(dll)
      /\ Nodes(dll') = Nodes(dll)
  BY <1>0, MatchesNodes, MoveToFrontKeeps DEF TypeOK
<1>3. Listed' = Listed /\ Present' = Present
  BY <1>2 DEF Listed, Nodes, Present
<1>4. TypeOK'
  BY <1>0, <1>1, <1>2 DEF TypeOK
<1>5. MapMatchesList'
  BY <1>0, <1>2, <1>3, MatchesNodes, MatchesNodesNext
<1>6. ArgumentOutlivesEvent'
  BY <1>0, <1>1, <1>3, ListedNodes DEF ArgumentOutlivesEvent
<1>7. CountWithinCapacity' /\ TimeoutsAccounted' /\ HolderMeansRunning'
  <2>1. CountWithinCapacity'
    BY <1>0, <1>2 DEF CountWithinCapacity
  <2>2. TimeoutsAccounted' /\ HolderMeansRunning'
    BY <1>0, <1>3 DEF TimeoutsAccounted, HolderMeansRunning
  <2> QED BY <2>1, <2>2
<1>8. InsertProgress'
  <2> SUFFICES ASSUME op = "insert" PROVE InsertProgress'
    BY DEF InsertProgress
  <2>1. /\ left \subseteq batch /\ num < Capacity
        /\ Cardinality(batch) <= Capacity =>
             batch \ left \subseteq Present /\ num + Cardinality(left) <= Capacity
    BY <1>0 DEF InsertProgress
  <2>2. /\ Cardinality(left) \in Nat /\ Cardinality(left') = Cardinality(left) - 1
        /\ num \in Int /\ Capacity \in Nat
    BY <1>0, BatchesAreFinite, FS_RemoveElement, CacheAssumption DEF TypeOK
  <2>3. left' \subseteq batch' /\ num' < Capacity /\ ~(evict' > 0)
    BY <1>0, <2>1, <2>2 DEF TypeOK
  <2>4. ASSUME Cardinality(batch') <= Capacity
        PROVE  batch' \ left' \subseteq Present' /\ num' + Cardinality(left') <= Capacity
    <3>1. batch \ left \subseteq Present /\ num + Cardinality(left) <= Capacity
      BY <2>1, <2>4
    <3>2. batch' \ left' \subseteq Present'
      BY <1>1, <1>3, <3>1
    <3> QED BY <2>2, <3>1, <3>2
  <2> QED BY <2>3, <2>4 DEF InsertProgress
<1> QED BY <1>4, <1>5, <1>6, <1>7, <1>8 DEF Inv

(* Insert adds an entry: its node was free, so it was neither listed nor     *)
(* waiting to be reclaimed, and there was room for it.                       *)
LEMMA AddInv == ASSUME Inv, Alive, InsertEntry, NEW k \in left, AddEntry(k) PROVE Inv'
<1>0. /\ TypeOK /\ MapMatchesList /\ CountWithinCapacity /\ ArgumentOutlivesEvent
      /\ TimeoutsAccounted /\ HolderMeansRunning /\ InsertProgress
  BY DEF Inv
<1>1. PICK n \in Node :
        /\ n \notin live /\ dll' = <<n>> \o dll
        /\ map' = [map EXCEPT ![k] = n] /\ key' = [key EXCEPT ![n] = k]
        /\ live' = live \cup {n} /\ armed' = armed \cup {n}
        /\ overtaken' = overtaken \ {n}
  BY DEF AddEntry, InsertAtFront
<1>2. /\ op = "insert" /\ evict <= 0 /\ map[k] = NoNode /\ num' = num + 1
      /\ left' = IF num' = Capacity THEN {} ELSE left \ {k}
      /\ dying = NoNode /\ UNCHANGED <<timeouts, reclaims, dying, op, batch, evict, life>>
  BY DEF InsertEntry, AddEntry
<1>3. n \notin Nodes(dll) /\ n \notin reclaims /\ k \in Key
  BY <1>0, <1>1, ListedNodes DEF ArgumentOutlivesEvent, TypeOK
<1>4. /\ dll' \in Seq(Node) /\ Once(dll') /\ Len(dll') = Len(dll) + 1
      /\ Nodes(dll') = Nodes(dll) \cup {n}
  <2>1. dll \in Seq(Node) /\ Once(dll)
    BY <1>0, MatchesNodes DEF TypeOK
  <2>2. /\ <<n>> \o dll \in Seq(Node) /\ Once(<<n>> \o dll)
        /\ Len(<<n>> \o dll) = Len(dll) + 1 /\ Nodes(<<n>> \o dll) = Nodes(dll) \cup {n}
    BY <1>3, <2>1, LinkFront
  <2> QED BY <1>1, <2>2, Zenon
<1>5. TypeOK'
  BY <1>0, <1>1, <1>2, <1>3, <1>4 DEF TypeOK
<1>6. ASSUME NEW j \in Present'
      PROVE  key'[map'[j]] = j /\ map'[j] \in Nodes(dll')
  <2>1. CASE j = k
    BY <1>0, <1>1, <1>3, <1>4, <2>1 DEF TypeOK
  <2>2. CASE j # k
    <3>1. j \in Present /\ map'[j] = map[j]
      BY <1>0, <1>1, <1>3, <1>6, <2>2 DEF Present, TypeOK
    <3>2. map[j] \in Nodes(dll) /\ key[map[j]] = j
      BY <1>0, <3>1, MatchesNodes
    <3>3. map[j] # n /\ map[j] \in Node
      BY <1>0, <1>3, <3>1, <3>2 DEF TypeOK, Present
    <3>4. key'[map[j]] = key[map[j]]
      BY <1>0, <1>1, <3>3 DEF TypeOK
    <3> QED BY <1>4, <3>1, <3>2, <3>4
  <2> QED BY <2>1, <2>2
<1>7. ASSUME NEW m \in Nodes(dll')
      PROVE  map'[key'[m]] = m
  <2>1. CASE m = n
    BY <1>0, <1>1, <1>3, <2>1 DEF TypeOK
  <2>2. CASE m # n
    <3>1. m \in Nodes(dll)
      BY <1>4, <1>7, <2>2
    <3>2. m \in Node /\ map[key[m]] = m /\ key[m] \in Key
      BY <1>0, <3>1, MatchesNodes DEF Nodes, TypeOK
    <3>3. key'[m] = key[m] /\ key[m] # k
      BY <1>0, <1>1, <1>2, <2>2, <3>2, CacheAssumption DEF TypeOK
    <3> QED BY <1>0, <1>1, <3>2, <3>3 DEF TypeOK
  <2> QED BY <2>1, <2>2
<1>8. MapMatchesList'
  BY <1>4, <1>6, <1>7, MatchesNodesNext
<1>9. Listed' = Listed \cup {n}
  BY <1>4, ListedNodes DEF Listed, Nodes
<1>10. ArgumentOutlivesEvent' /\ TimeoutsAccounted'
  BY <1>0, <1>1, <1>2, <1>3, <1>9 DEF ArgumentOutlivesEvent, TimeoutsAccounted, TypeOK
<1>11. /\ num < Capacity /\ num = Len(dll) /\ num \in Nat /\ Capacity \in Nat
       /\ left \subseteq batch /\ life = "running"
  BY <1>0, <1>2, CacheAssumption
  DEF InsertProgress, CountWithinCapacity, HolderMeansRunning, TypeOK, Alive
<1>12. CountWithinCapacity' /\ HolderMeansRunning'
  BY <1>2, <1>4, <1>11 DEF CountWithinCapacity, HolderMeansRunning
<1>13. Present' = Present \cup {k}
  BY <1>0, <1>1, <1>3, CacheAssumption DEF Present, TypeOK
<1>14. /\ IsFiniteSet(left) /\ Cardinality(left) \in Nat
       /\ Cardinality(left \ {k}) = Cardinality(left) - 1
       /\ Cardinality(left \ {k}) \in Nat /\ (Cardinality(left \ {k}) = 0 => left \ {k} = {})
       /\ Cardinality({}) = 0
  BY <1>0, BatchesAreFinite, FS_RemoveElement, FS_EmptySet DEF TypeOK
<1>15. left' \subseteq batch' /\ ~(evict' > 0) /\ (left' # {} => num' < Capacity)
  BY <1>0, <1>2, <1>11 DEF TypeOK
<1>16. ASSUME Cardinality(batch') <= Capacity
       PROVE  batch' \ left' \subseteq Present' /\ num' + Cardinality(left') <= Capacity
  <2>1. batch \ left \subseteq Present /\ num + Cardinality(left) <= Capacity
    BY <1>0, <1>2, <1>16 DEF InsertProgress
  <2>2. left' = left \ {k}
    BY <1>2, <1>11, <1>14, <2>1
  <2> QED BY <1>2, <1>11, <1>13, <1>14, <2>1, <2>2
<1>17. InsertProgress'
  BY <1>15, <1>16 DEF InsertProgress
<1> QED BY <1>5, <1>8, <1>10, <1>12, <1>17 DEF Inv

(* A node taken out outside of Insert: expiry, of whatever entry the task    *)
(* finds under the key it read.                                              *)
LEMMA ExpireInv == ASSUME Inv, Alive, NEW n \in Node, ExpireEntry(n) PROVE Inv'
<1>0. /\ TypeOK /\ MapMatchesList /\ CountWithinCapacity /\ ArgumentOutlivesEvent
      /\ TimeoutsAccounted /\ HolderMeansRunning /\ InsertProgress
  BY DEF Inv
<1>1. /\ op = "none" /\ timeouts[n] > 0
      /\ timeouts' = [timeouts EXCEPT ![n] = @ - 1]
      /\ UNCHANGED <<key, live, batch, left, evict, life>>
  BY DEF ExpireEntry, nodeVars
<1>2. timeouts' \in [Node -> Nat] /\ \A m \in Node : timeouts'[m] <= timeouts[m]
  BY <1>0, <1>1 DEF TypeOK
<1>3. dying = NoNode
  BY <1>0, <1>1 DEF HolderMeansRunning
<1>4. Capacity \in Int /\ num \in Int
  BY <1>0, CacheAssumption DEF TypeOK
<1>5. ASSUME NEW k \in Key, map[k] # NoNode, RemoveNode(map[k]), op' = "expire"
      PROVE  Inv'
  <2>1. map[k] \in Nodes(dll)
    BY <1>0, <1>5, MatchesNodes DEF TypeOK, Present
  <2>2. /\ map' \in [Key -> Node \cup {NoNode}] /\ dll' \in Seq(Node)
        /\ armed' \subseteq Node /\ reclaims' \subseteq Node /\ num' = num - 1
        /\ dying' \in Node \ Listed' /\ overtaken' \subseteq Node
        /\ Len(dll') = Len(dll) - 1
        /\ MapMatchesList' /\ ArgumentOutlivesEvent' /\ TimeoutsAccounted'
    BY <1>0, <1>1, <1>2, <1>3, <1>5, <2>1, RemoveNodeRemoves
  <2>3. TypeOK'
    BY <1>0, <1>1, <1>2, <1>4, <1>5, <2>2 DEF TypeOK
  <2>4. CountWithinCapacity' /\ HolderMeansRunning' /\ InsertProgress'
    BY <1>0, <1>1, <1>4, <1>5, <2>2 DEF CountWithinCapacity, HolderMeansRunning, InsertProgress
  <2> QED BY <2>2, <2>3, <2>4 DEF Inv
<1>6. ASSUME UNCHANGED <<map, dll, num, armed, reclaims, dying, overtaken, op>>
      PROVE  Inv'
  <2>1. TypeOK' /\ HolderMeansRunning' /\ InsertProgress'
    BY <1>0, <1>1, <1>2, <1>6 DEF TypeOK, HolderMeansRunning, InsertProgress, Listed
  <2>2. MapMatchesList' /\ CountWithinCapacity'
    BY <1>0, <1>1, <1>6 DEF MapMatchesList, CountWithinCapacity, Listed, Present
  <2>3. \A m \in Node : timeouts'[m] > 0 => timeouts[m] > 0
    BY <1>0, <1>2 DEF TypeOK
  <2>4. ArgumentOutlivesEvent' /\ TimeoutsAccounted'
    BY <1>0, <1>1, <1>6, <2>3 DEF ArgumentOutlivesEvent, TimeoutsAccounted, Listed
  <2> QED BY <2>1, <2>2, <2>4 DEF Inv
<1>7. KeyRead(n) \subseteq Key
  BY <1>0 DEF KeyRead, TypeOK
<1> QED BY <1>5, <1>6, <1>7 DEF ExpireEntry, entryVars

(* What the event machinery may touch, when only posted tasks, timers and   *)
(* arguments have changed.                                                  *)
LEMMA EntriesStay ==
  ASSUME Inv, UNCHANGED <<map, dll, num, key, op, batch, left, evict, life>>,
         TypeOK', ArgumentOutlivesEvent', TimeoutsAccounted', dying' = dying
  PROVE  Inv'
<1>1. HolderMeansRunning' /\ InsertProgress'
  BY DEF Inv, HolderMeansRunning, InsertProgress, Listed, Present
<1>2. MapMatchesList' /\ CountWithinCapacity'
  BY DEF Inv, MapMatchesList, CountWithinCapacity, Listed, Present
<1> QED BY <1>1, <1>2 DEF Inv

(* Every step of a process that has not crashed keeps the invariant. *)
LEMMA NextInv == Inv /\ [Next]_vars => Inv'
<1> SUFFICES ASSUME Inv, [Next]_vars PROVE Inv'
  OBVIOUS
<1>0. /\ TypeOK /\ MapMatchesList /\ CountWithinCapacity /\ ArgumentOutlivesEvent
      /\ TimeoutsAccounted /\ HolderMeansRunning /\ InsertProgress
  BY DEF Inv
<1>1. ASSUME UNCHANGED <<entryVars, nodeVars, eventVars, life>>, TypeOK',
             HolderMeansRunning', InsertProgress'
      PROVE  Inv'
  <2>1. MapMatchesList' /\ CountWithinCapacity'
    BY <1>0, <1>1 DEF entryVars, nodeVars, MapMatchesList, CountWithinCapacity, Listed,
                      Present
  <2>2. ArgumentOutlivesEvent' /\ TimeoutsAccounted'
    BY <1>0, <1>1 DEF entryVars, nodeVars, eventVars, ArgumentOutlivesEvent, Listed,
                      TimeoutsAccounted
  <2> QED BY <1>1, <2>1, <2>2 DEF Inv
<1>2. ASSUME NEW S \in SUBSET Key, Insert(S) PROVE Inv'
  <2>1. Cardinality(S) \in Nat /\ Capacity \in Nat \ {0} /\ num \in Int
        /\ (S # {} => Cardinality(S) > 0)
    BY <1>0, BatchesAreFinite, FS_EmptySet, CacheAssumption DEF TypeOK
  <2>2. TypeOK' /\ HolderMeansRunning'
    BY <1>0, <1>2, <2>1 DEF Insert, TypeOK, HolderMeansRunning, entryVars, nodeVars, eventVars
  <2>3. /\ left' = S /\ batch' = S /\ evict' = num + Cardinality(S) - Capacity
        /\ num' = num
    BY <1>2 DEF Insert, entryVars
  <2>4. evict' <= 0 => num + Cardinality(S) <= Capacity /\ (S # {} => num < Capacity)
    BY <2>1, <2>3
  <2>5. InsertProgress'
    BY <2>3, <2>4 DEF InsertProgress
  <2> QED BY <1>1, <1>2, <2>2, <2>5 DEF Insert
<1>3. ASSUME NEW S \in SUBSET Key, Query(S) PROVE Inv'
  <2>1. TypeOK' /\ HolderMeansRunning' /\ InsertProgress'
    BY <1>0, <1>3 DEF Query, TypeOK, HolderMeansRunning, InsertProgress, entryVars, nodeVars,
                      eventVars
  <2> QED BY <1>1, <1>3, <2>1 DEF Query
<1>4. ASSUME Alive, Evict PROVE Inv'
  BY <1>4, EvictInv
<1>5. ASSUME Alive, InsertEntry PROVE Inv'
  <2>1. PICK k \in left : RefreshEntry(k) \/ AddEntry(k)
    BY <1>5 DEF InsertEntry
  <2>2. CASE RefreshEntry(k)
    BY <1>5, <2>2, RefreshInv DEF InsertEntry, RefreshEntry, nodeVars
  <2>3. CASE AddEntry(k)
    BY <1>5, <2>3, AddInv
  <2> QED BY <2>1, <2>2, <2>3
<1>6. ASSUME InsertReturn PROVE Inv'
  <2>1. TypeOK' /\ HolderMeansRunning' /\ InsertProgress'
    BY <1>0, <1>6 DEF InsertReturn, TypeOK, HolderMeansRunning, InsertProgress, entryVars,
                      nodeVars, eventVars
  <2> QED BY <1>1, <1>6, <2>1 DEF InsertReturn
<1>7. ASSUME QueryKey PROVE Inv'
  <2>1. PICK k \in left :
          /\ left' = left \ {k}
          /\ IF map[k] # NoNode THEN MoveToFront(map[k]) ELSE UNCHANGED dll
    BY <1>7 DEF QueryKey
  <2>2. CASE map[k] # NoNode
    BY <1>7, <2>1, <2>2, RefreshInv DEF QueryKey, nodeVars, eventVars
  <2>3. CASE map[k] = NoNode
    <3>1. TypeOK' /\ HolderMeansRunning' /\ InsertProgress'
      BY <1>0, <1>7, <2>1, <2>3 DEF QueryKey, TypeOK, HolderMeansRunning, InsertProgress,
                                    Listed, nodeVars, eventVars
    <3> QED BY <1>1, <1>7, <2>1, <2>3, <3>1 DEF QueryKey, entryVars
  <2> QED BY <2>2, <2>3
<1>8. ASSUME QueryReturn PROVE Inv'
  <2>1. TypeOK' /\ HolderMeansRunning' /\ InsertProgress'
    BY <1>0, <1>8 DEF QueryReturn, TypeOK, HolderMeansRunning, InsertProgress, entryVars,
                      nodeVars, eventVars
  <2> QED BY <1>1, <1>8, <2>1 DEF QueryReturn
<1>9. ASSUME EventDel PROVE Inv'
  <2>1. /\ UNCHANGED <<map, dll, num, key, live, timeouts, reclaims, overtaken, batch, left,
                       evict, life>>
        /\ dying' = NoNode /\ armed' = armed \ {dying}
        /\ op' = IF op = "expire" THEN "none" ELSE op
    BY <1>9 DEF EventDel, entryVars, nodeVars
  <2>2. TypeOK' /\ HolderMeansRunning'
    BY <1>0, <2>1 DEF TypeOK, HolderMeansRunning
  <2>3. MapMatchesList' /\ CountWithinCapacity' /\ InsertProgress'
    BY <1>0, <2>1 DEF MapMatchesList, CountWithinCapacity, InsertProgress, Listed, Present
  <2>4. ArgumentOutlivesEvent' /\ TimeoutsAccounted'
    BY <1>0, <2>1 DEF ArgumentOutlivesEvent, TimeoutsAccounted, Listed
  <2> QED BY <2>2, <2>3, <2>4 DEF Inv
<1>10. ASSUME Crash PROVE Inv'
  <2>1. /\ UNCHANGED <<map, dll, num, key, live, armed, timeouts, reclaims, dying, overtaken,
                       op, batch, left, evict>>
        /\ life' = "crashed"
    BY <1>10 DEF Crash, entryVars, nodeVars, eventVars, lockVars
  <2>2. TypeOK' /\ CountWithinCapacity' /\ HolderMeansRunning'
    BY <1>0, <2>1 DEF TypeOK, CountWithinCapacity, HolderMeansRunning, Listed
  <2>3. MapMatchesList' /\ InsertProgress' /\ ArgumentOutlivesEvent' /\ TimeoutsAccounted'
    BY <1>0, <2>1 DEF MapMatchesList, InsertProgress, ArgumentOutlivesEvent,
                      TimeoutsAccounted, Listed, Present
  <2> QED BY <2>2, <2>3 DEF Inv
<1>11. ASSUME NEW n \in Node, EntryExpiryCallback(n), ~Crash PROVE Inv'
  <2>1. /\ UNCHANGED <<map, dll, num, key, live, reclaims, dying, op, batch, left, evict, life>>
        /\ n \in armed /\ armed' = armed \ {n}
        /\ timeouts' = [timeouts EXCEPT ![n] = @ + 1]
        /\ overtaken' = overtaken \cup {m \in {dying} \cap {n} : timeouts'[m] > 0}
    BY <1>11 DEF EntryExpiryCallback, Overtake, lockVars, entryVars, nodeVars
  <2>2. TypeOK'
    BY <1>0, <2>1 DEF TypeOK
  <2>3. timeouts'[n] > 0 /\ \A m \in Node \ {n} : timeouts'[m] = timeouts[m]
    BY <1>0, <2>1 DEF TypeOK
  <2>4. n \in Listed \/ n = dying
    BY <1>0, <2>1 DEF ArgumentOutlivesEvent
  <2>5. n \in Listed \/ n \in overtaken'
    BY <2>1, <2>3, <2>4
  <2>6. Listed' = Listed
    BY <2>1 DEF Listed
  <2>7. overtaken \subseteq overtaken'
    BY <2>1
  <2>8. TimeoutsAccounted'
    BY <1>0, <2>3, <2>5, <2>6, <2>7 DEF TimeoutsAccounted
  <2>9. ArgumentOutlivesEvent'
    BY <1>0, <2>1, <2>6, <2>8 DEF ArgumentOutlivesEvent, TimeoutsAccounted
  <2> QED BY <2>1, <2>2, <2>8, <2>9, EntriesStay
<1>12. ASSUME Alive, NEW n \in Node, ExpireEntry(n) PROVE Inv'
  BY <1>12, ExpireInv
<1>13. ASSUME NEW n \in Node, ReclaimArgument(n) PROVE Inv'
  <2>1. /\ UNCHANGED <<map, dll, num, key, armed, timeouts, dying, overtaken, op, batch, left,
                       evict, life>>
        /\ n \in reclaims /\ reclaims' = reclaims \ {n} /\ live' = live \ {n}
    BY <1>13 DEF ReclaimArgument, lockVars, entryVars
  <2>2. TypeOK' /\ TimeoutsAccounted'
    BY <1>0, <2>1 DEF TypeOK, TimeoutsAccounted, Listed
  <2>3. n \notin Listed /\ Listed' = Listed
    BY <1>0, <2>1 DEF ArgumentOutlivesEvent, Listed
  <2>4. ArgumentOutlivesEvent'
    BY <1>0, <2>1, <2>3 DEF ArgumentOutlivesEvent, TimeoutsAccounted
  <2> QED BY <2>1, <2>2, <2>4, EntriesStay
<1>14. ASSUME Alive, RequestShutdown \/ ShutdownEventLoop PROVE Inv'
  <2>1. /\ UNCHANGED <<map, dll, num, key, live, armed, timeouts, reclaims, dying, overtaken,
                       op, batch, left, evict>>
        /\ life' \in {"stopping", "stopped"} /\ life \notin {"destroyed", "crashed"}
        /\ op \notin {"insert", "query"}
    BY <1>0, <1>14 DEF RequestShutdown, ShutdownEventLoop, entryVars, nodeVars, eventVars,
                       lockVars, HolderMeansRunning, TypeOK, Alive
  <2>2. TypeOK' /\ HolderMeansRunning' /\ InsertProgress' /\ CountWithinCapacity'
    BY <1>0, <2>1 DEF TypeOK, HolderMeansRunning, InsertProgress, CountWithinCapacity, Listed
  <2>3. MapMatchesList' /\ ArgumentOutlivesEvent' /\ TimeoutsAccounted'
    BY <1>0, <2>1 DEF MapMatchesList, Listed, Present, ArgumentOutlivesEvent,
                      TimeoutsAccounted
  <2> QED BY <2>2, <2>3 DEF Inv
<1>15. ASSUME Destroy PROVE Inv'
  <2>1. /\ UNCHANGED <<num, key, live, timeouts, dying, op, batch, left, evict>>
        /\ life' = "destroyed" /\ op = "none" /\ dll' = <<>> /\ armed' = {}
        /\ map' = [k \in Key |-> NoNode] /\ reclaims' = reclaims \cup Listed
        /\ overtaken' = overtaken \cup {n \in Listed : timeouts'[n] > 0}
    BY <1>15 DEF Destroy, lockVars, nodeVars, Overtake
  <2>2. Listed \subseteq Node /\ Listed' = {}
    BY <1>0, <2>1 DEF Listed, TypeOK
  <2>3. TypeOK' /\ HolderMeansRunning' /\ InsertProgress' /\ CountWithinCapacity'
    BY <1>0, <2>1, <2>2 DEF TypeOK, HolderMeansRunning, InsertProgress,
                            CountWithinCapacity
  <2>4. MapMatchesList'
    BY <2>1 DEF MapMatchesList, Present
  <2>5. TimeoutsAccounted'
    BY <1>0, <2>1, <2>2 DEF TimeoutsAccounted
  <2>6. ArgumentOutlivesEvent'
    BY <1>0, <2>1, <2>2, <2>5 DEF ArgumentOutlivesEvent, TimeoutsAccounted
  <2> QED BY <2>3, <2>4, <2>5, <2>6 DEF Inv
<1>16. ASSUME UNCHANGED vars PROVE Inv'
  <2>1. TypeOK' /\ HolderMeansRunning' /\ InsertProgress'
    BY <1>0, <1>16 DEF vars, entryVars, nodeVars, eventVars, lockVars, TypeOK,
                       HolderMeansRunning, InsertProgress, Listed, Present
  <2> QED BY <1>1, <1>16, <2>1 DEF vars
<1> QED
  BY <1>2, <1>3, <1>4, <1>5, <1>6, <1>7, <1>8, <1>9, <1>10, <1>11, <1>12, <1>13, <1>14,
     <1>15, <1>16
  DEF Next, Terminated, ExpireCrashes, DestroyBesideTask

(* The invariant holds in every reachable state. *)
THEOREM Invariance == Spec => []Inv
BY InitInv, NextInv, PTL DEF Spec

(* Map, list and count describe the same entries, within the capacity, and a *)
(* batch that fits is there in full when Insert is through, whatever order   *)
(* inserts, queries, timers and expiry tasks ran in.                         *)
THEOREM CacheStaysConsistent == Spec => []CacheConsistent
<1>1. Inv => CacheConsistent
  BY DEF Inv, CacheConsistent, BatchIsPresent, InsertProgress
<1> QED BY <1>1, Invariance, PTL

(* For any cache: the argument of a listed entry is there, each argument is  *)
(* reclaimed once, a timer outlives its entry only while its event is being  *)
(* destroyed, and a timeout task meets a freed argument only when its entry  *)
(* was removed under it or it came of that last moment of the timer.         *)
THEOREM ArgumentsOutliveEvents == Spec => []ArgumentOutlivesEvent
<1>1. Inv => ArgumentOutlivesEvent
  BY DEF Inv
<1> QED BY <1>1, Invariance, PTL

-----------------------------------------------------------------------------
(* The k-anon cache manager. *)

(* A lookup returns hashes that were asked for and that a shard holds. *)
LEMMA QueryFinds ==
  ASSUME NEW n \in Nat \ {0}, NEW cache \in [Shard(n) -> SUBSET Hash],
         NEW S \in SUBSET Hash
  PROVE  QueryShardedCaches(cache, n, S) \subseteq Held(cache) \cap S
BY DEF QueryShardedCaches, Held, MapHashToShardedCache, Shard

(* An insertion adds nothing but the inserted hashes. *)
LEMMA InsertAdds ==
  ASSUME NEW n \in Nat \ {0}, NEW cache \in [Shard(n) -> SUBSET Hash],
         NEW S \in SUBSET Hash, NEW c \in InsertShardedCaches(cache, n, S)
  PROVE  c \in [Shard(n) -> SUBSET Hash] /\ Held(c) \subseteq Held(cache) \cup S
<1>1. c \in [Shard(n) -> SUBSET Hash]
  BY DEF InsertShardedCaches
<1>2. ASSUME NEW i \in Shard(n)
      PROVE  c[i] \subseteq cache[i] \cup S
  BY DEF InsertShardedCaches, CacheInsert, MapHashToShardedCache
<1> QED BY <1>1, <1>2 DEF Held

(* The initial caches are empty, and so is everything known. *)
LEMMA KAnonInitInv == KAnonInit => KAnonInv
<1> SUFFICES ASSUME KAnonInit PROVE KAnonInv
  OBVIOUS
<1>1. KAnonTypeOK
  BY DEF KAnonInit, KAnonTypeOK
<1>2. OnlyVouchedFor /\ AnsweredIsPast
  BY DEF KAnonInit, OnlyVouchedFor, AnsweredIsPast
<1>3. KAnonCachesVouchedFor
  BY DEF KAnonInit, KAnonCachesVouchedFor, Held
<1>4. UnresolvedWithinHashes
  BY DEF KAnonInit, UnresolvedWithinHashes
<1> QED BY <1>1, <1>2, <1>3, <1>4 DEF KAnonInv

(* Every step keeps the invariant. *)
LEMMA KAnonNextInv == KAnonInv /\ [KAnonNext]_kAnonVars => KAnonInv'
<1> SUFFICES ASSUME KAnonInv, [KAnonNext]_kAnonVars PROVE KAnonInv'
  OBVIOUS
<1>0. /\ KAnonTypeOK /\ OnlyVouchedFor /\ KAnonCachesVouchedFor /\ AnsweredIsPast
      /\ UnresolvedWithinHashes
  BY DEF KAnonInv
<1>1. ASSUME NEW r \in Request, NEW H \in (SUBSET Hash) \ {{}}, AreKAnonymous(r, H)
      PROVE  KAnonInv'
  <2>1. QueryShardedCaches(kAnon, KAnonShards, H) \subseteq Held(kAnon) \cap H
    BY <1>0, QueryFinds, KAnonAssumption DEF KAnonTypeOK
  <2>2. KAnonTypeOK'
    BY <1>0, <1>1, <2>1 DEF AreKAnonymous, KAnonTypeOK, caches
  <2>3. answer[r] = {}
    BY <1>0, <1>1 DEF AreKAnonymous, AnsweredIsPast
  <2>4. OnlyVouchedFor' /\ AnsweredIsPast'
    BY <1>0, <1>1, <2>3 DEF AreKAnonymous, OnlyVouchedFor, AnsweredIsPast, KAnonTypeOK
  <2>5. KAnonCachesVouchedFor'
    BY <1>0, <1>1, <2>1
    DEF AreKAnonymous, KAnonCachesVouchedFor, UnresolvedWithinHashes, KAnonTypeOK,
        caches, Held
  <2>6. UnresolvedWithinHashes'
    BY <1>0, <1>1 DEF AreKAnonymous, UnresolvedWithinHashes, KAnonTypeOK
  <2> QED BY <2>2, <2>4, <2>5, <2>6 DEF KAnonInv
<1>2. ASSUME NEW r \in Request, QueryNonKAnonCaches(r)
      PROVE  KAnonInv'
  <2>1. KAnonTypeOK'
    BY <1>0, <1>2 DEF QueryNonKAnonCaches, KAnonTypeOK, caches
  <2>2. OnlyVouchedFor' /\ AnsweredIsPast'
    BY <1>0, <1>2 DEF QueryNonKAnonCaches, OnlyVouchedFor, AnsweredIsPast,
                      KAnonCachesVouchedFor, KAnonTypeOK
  <2>3. KAnonCachesVouchedFor'
    BY <1>0, <1>2 DEF QueryNonKAnonCaches, KAnonCachesVouchedFor, Held, caches
  <2>4. UnresolvedWithinHashes'
    BY <1>0, <1>2 DEF QueryNonKAnonCaches, UnresolvedWithinHashes, KAnonTypeOK
  <2> QED BY <2>1, <2>2, <2>3, <2>4 DEF KAnonInv
<1>3. ASSUME NEW r \in Request, QueryKAnonClient(r)
      PROVE  KAnonInv'
  <2>1. KAnonTypeOK'
    BY <1>0, <1>3 DEF QueryKAnonClient, KAnonTypeOK, caches, request
  <2>2. OnlyVouchedFor' /\ AnsweredIsPast'
    BY <1>0, <1>3 DEF QueryKAnonClient, OnlyVouchedFor, AnsweredIsPast, KAnonTypeOK,
                      request
  <2>3. KAnonCachesVouchedFor' /\ UnresolvedWithinHashes'
    BY <1>0, <1>3 DEF QueryKAnonClient, KAnonCachesVouchedFor, Held, caches,
                      UnresolvedWithinHashes, request, KAnonTypeOK
  <2> QED BY <2>1, <2>2, <2>3 DEF KAnonInv
<1>4. ASSUME NEW r \in Request, OnNoAnswer(r)
      PROVE  KAnonInv'
  <2>1. KAnonTypeOK'
    BY <1>0, <1>4 DEF OnNoAnswer, KAnonTypeOK, caches, request
  <2>2. OnlyVouchedFor' /\ AnsweredIsPast'
    BY <1>0, <1>4 DEF OnNoAnswer, OnlyVouchedFor, AnsweredIsPast, KAnonTypeOK,
                      KAnonCachesVouchedFor, request
  <2>3. KAnonCachesVouchedFor' /\ UnresolvedWithinHashes'
    BY <1>0, <1>4 DEF OnNoAnswer, KAnonCachesVouchedFor, Held, caches,
                      UnresolvedWithinHashes, request, KAnonTypeOK
  <2> QED BY <2>1, <2>2, <2>3 DEF KAnonInv
<1>5. ASSUME NEW r \in Request, OnAnswer(r)
      PROVE  KAnonInv'
  <2>1. PICK S \in SUBSET unresolved[r] :
          /\ answer' = [answer EXCEPT ![r] = {S \cup cached[r]}]
          /\ vouched' = vouched \cup S
          /\ denied' = denied \cup (unresolved[r] \ S)
    BY <1>5 DEF OnAnswer
  <2>2. KAnonTypeOK'
    BY <1>0, <1>5, <2>1 DEF OnAnswer, KAnonTypeOK, caches, request
  <2>3. S \cup cached[r] \subseteq vouched' \cap hashes[r]
    BY <1>0, <2>1 DEF UnresolvedWithinHashes, KAnonCachesVouchedFor
  <2>4. ASSUME NEW q \in Request, NEW A \in answer'[q]
        PROVE  A \subseteq vouched' \cap hashes'[q]
    <3>1. hashes' = hashes
      BY <1>5 DEF OnAnswer, request
    <3>2. CASE q = r
      BY <1>0, <2>1, <2>3, <2>4, <3>1, <3>2 DEF KAnonTypeOK
    <3>3. CASE q # r
      BY <1>0, <2>1, <2>4, <3>1, <3>3 DEF KAnonTypeOK, OnlyVouchedFor
    <3> QED BY <3>2, <3>3
  <2>5. AnsweredIsPast'
    BY <1>0, <1>5, <2>1 DEF OnAnswer, AnsweredIsPast, KAnonTypeOK
  <2>6. KAnonCachesVouchedFor' /\ UnresolvedWithinHashes'
    BY <1>0, <1>5, <2>1 DEF OnAnswer, KAnonCachesVouchedFor, Held, caches,
                            UnresolvedWithinHashes, request, KAnonTypeOK
  <2> QED BY <2>2, <2>4, <2>5, <2>6 DEF KAnonInv, OnlyVouchedFor
<1>6. ASSUME NEW r \in Request, InsertKAnon(r)
      PROVE  KAnonInv'
  <2>1. Resolved(r) \subseteq vouched /\ Resolved(r) \subseteq Hash
    BY <1>0 DEF Resolved, OnlyVouchedFor, KAnonTypeOK
  <2>2. /\ kAnon' \in [Shard(KAnonShards) -> SUBSET Hash]
        /\ Held(kAnon') \subseteq Held(kAnon) \cup Resolved(r)
    BY <1>0, <1>6, <2>1, InsertAdds, KAnonAssumption DEF InsertKAnon, KAnonTypeOK
  <2>3. KAnonTypeOK'
    BY <1>0, <1>6, <2>2 DEF InsertKAnon, KAnonTypeOK, request
  <2>4. OnlyVouchedFor' /\ AnsweredIsPast'
    BY <1>0, <1>6 DEF InsertKAnon, OnlyVouchedFor, AnsweredIsPast, KAnonTypeOK, request
  <2>5. KAnonCachesVouchedFor'
    BY <1>0, <1>6, <2>1, <2>2 DEF InsertKAnon, KAnonCachesVouchedFor, request
  <2>6. UnresolvedWithinHashes'
    BY <1>0, <1>6 DEF InsertKAnon, UnresolvedWithinHashes, request, KAnonTypeOK
  <2> QED BY <2>3, <2>4, <2>5, <2>6 DEF KAnonInv
<1>7. ASSUME NEW r \in Request, InsertNonKAnon(r)
      PROVE  KAnonInv'
  <2>1. PICK views \in SUBSET Hash :
          nonKAnon' \in InsertShardedCaches(nonKAnon, NonKAnonShards,
                                            views \ Resolved(r))
    BY <1>7 DEF InsertNonKAnon
  <2>2. nonKAnon' \in [Shard(NonKAnonShards) -> SUBSET Hash]
    BY <1>0, <2>1, InsertAdds, KAnonAssumption DEF KAnonTypeOK
  <2>3. KAnonTypeOK'
    BY <1>0, <1>7, <2>2 DEF InsertNonKAnon, KAnonTypeOK, request
  <2>4. OnlyVouchedFor' /\ AnsweredIsPast'
    BY <1>0, <1>7 DEF InsertNonKAnon, OnlyVouchedFor, AnsweredIsPast, KAnonTypeOK, request
  <2>5. KAnonCachesVouchedFor' /\ UnresolvedWithinHashes'
    BY <1>0, <1>7 DEF InsertNonKAnon, KAnonCachesVouchedFor, Held,
                      UnresolvedWithinHashes, request, KAnonTypeOK
  <2> QED BY <2>3, <2>4, <2>5 DEF KAnonInv
<1>8. ASSUME Expire
      PROVE  KAnonInv'
  <2>1. /\ kAnon' \in [Shard(KAnonShards) -> SUBSET Hash]
        /\ nonKAnon' \in [Shard(NonKAnonShards) -> SUBSET Hash]
        /\ \A i \in Shard(KAnonShards) : kAnon'[i] \subseteq kAnon[i]
    BY <1>0, <1>8 DEF Expire, KAnonTypeOK
  <2>2. Held(kAnon') \subseteq Held(kAnon)
    BY <1>0, <2>1 DEF Held, KAnonTypeOK
  <2>3. KAnonTypeOK'
    BY <1>0, <1>8, <2>1 DEF Expire, KAnonTypeOK, request
  <2>4. OnlyVouchedFor' /\ AnsweredIsPast'
    BY <1>0, <1>8 DEF Expire, OnlyVouchedFor, AnsweredIsPast, request
  <2>5. KAnonCachesVouchedFor' /\ UnresolvedWithinHashes'
    BY <1>0, <1>8, <2>2 DEF Expire, KAnonCachesVouchedFor,
                            UnresolvedWithinHashes, request
  <2> QED BY <2>3, <2>4, <2>5 DEF KAnonInv
<1>9. ASSUME NEW r \in Request, OwnerDeleted(r)
      PROVE  KAnonInv'
  BY <1>0, <1>9 DEF OwnerDeleted, KAnonInv, KAnonTypeOK, OnlyVouchedFor, AnsweredIsPast,
                    KAnonCachesVouchedFor, UnresolvedWithinHashes, Held, caches,
                    request
<1>10. ASSUME UNCHANGED kAnonVars
       PROVE  KAnonInv'
  BY <1>0, <1>10 DEF kAnonVars, KAnonInv, KAnonTypeOK, OnlyVouchedFor, AnsweredIsPast,
                     KAnonCachesVouchedFor, UnresolvedWithinHashes, Held
<1> QED
  BY <1>1, <1>2, <1>3, <1>4, <1>5, <1>6, <1>7, <1>8, <1>9, <1>10
  DEF KAnonNext, Step, Settled

(* The invariant holds in every reachable state. *)
THEOREM KAnonInvariance == KAnonSpec => []KAnonInv
<1>1. KAnonInit => KAnonInv
  BY KAnonInitInv
<1>2. KAnonInv /\ [KAnonNext]_kAnonVars => KAnonInv'
  BY KAnonNextInv
<1> QED BY <1>1, <1>2, PTL DEF KAnonSpec

(* No hash is reported k-anonymous that the service has not vouched for, for *)
(* any number of concurrent lookups, any sharding and any evictions.         *)
THEOREM ReportsOnlyVouchedFor == KAnonSpec => []OnlyVouchedFor
<1>1. KAnonInv => OnlyVouchedFor
  BY DEF KAnonInv
<1> QED BY <1>1, KAnonInvariance, PTL

(* The callback given to AreKAnonymous runs at most once, and never after    *)
(* the call was refused.                                                     *)
THEOREM CalledBackOnce == KAnonSpec => AnsweredOnce
<1>1. ASSUME KAnonInv, [KAnonNext]_kAnonVars, NEW r \in Request, answer[r] # {} \/ pc[r] = "refused"
      PROVE  answer'[r] = answer[r]
  <2>1. pc[r] \in {"insertKAnon", "insertNonKAnon", "done", "refused"}
    BY <1>1 DEF KAnonInv, AnsweredIsPast
  <2>2. answer \in [Request -> SUBSET (SUBSET Hash)]
    BY <1>1 DEF KAnonInv, KAnonTypeOK
  <2>3. ASSUME NEW q \in Request, NEW H \in (SUBSET Hash) \ {{}}, AreKAnonymous(q, H)
        PROVE  answer'[r] = answer[r]
    BY <2>3 DEF AreKAnonymous
  <2>4. ASSUME NEW q \in Request, Step(q)
        PROVE  answer'[r] = answer[r]
    BY <2>1, <2>2, <2>4 DEF Step, QueryNonKAnonCaches, QueryKAnonClient,
       OnNoAnswer, OnAnswer, InsertKAnon, InsertNonKAnon
  <2>5. ASSUME NEW q \in Request, OwnerDeleted(q)
        PROVE  answer'[r] = answer[r]
    BY <2>5 DEF OwnerDeleted
  <2>6. CASE Expire
    BY <2>6 DEF Expire
  <2>7. CASE UNCHANGED kAnonVars
    BY <2>7 DEF kAnonVars
  <2> QED BY <1>1, <2>3, <2>4, <2>5, <2>6, <2>7 DEF KAnonNext, Settled
<1>2. KAnonInv /\ [KAnonNext]_kAnonVars =>
        [\A r \in Request : answer[r] # {} \/ pc[r] = "refused"
                              => answer'[r] = answer[r]]_kAnonVars
  BY <1>1
<1> QED BY <1>2, KAnonInvariance, PTL DEF KAnonSpec, AnsweredOnce

(* An insertion keeps each hash in its own shard, and the shard's capacity. *)
LEMMA InsertKeepsShards ==
  ASSUME NEW n \in Nat \ {0}, NEW cache \in [Shard(n) -> SUBSET Hash],
         NEW S \in SUBSET Hash, NEW c \in InsertShardedCaches(cache, n, S),
         \A i \in Shard(n) : \A h \in cache[i] : GetShardIndex(h, n) = i
  PROVE  \A i \in Shard(n) : /\ \A h \in c[i] : GetShardIndex(h, n) = i
                             /\ Cardinality(c[i]) <= ShardCapacity
<1> TAKE i \in Shard(n)
<1>1. c[i] \in CacheInsert(cache[i], MapHashToShardedCache(S, n)[i])
  BY DEF InsertShardedCaches
<1>2. c[i] \subseteq cache[i] \cup {h \in S : GetShardIndex(h, n) = i}
  BY <1>1 DEF CacheInsert, MapHashToShardedCache
<1>3. Cardinality(c[i]) <= ShardCapacity
  BY <1>1 DEF CacheInsert
<1> QED BY <1>2, <1>3

(* An entry's expiry keeps the capacity. *)
LEMMA ExpiryKeepsCapacity ==
  ASSUME NEW S \in SUBSET Hash, NEW h \in S, Cardinality(S) <= ShardCapacity
  PROVE  Cardinality(S \ {h}) <= ShardCapacity
<1>1. IsFiniteSet(S)
  BY KAnonAssumption, FS_Subset
<1>2. Cardinality(S) \in Nat /\ Cardinality(S \ {h}) = Cardinality(S) - 1
  BY <1>1, FS_CardinalityType, FS_RemoveElement
<1> QED BY <1>2, KAnonAssumption

(* For every sharding, a hash is only ever stored where lookups look for it, *)
(* and no shard exceeds its capacity.                                        *)
THEOREM ShardsStayTidy == KAnonSpec => []ShardsHoldTheirOwn
<1>1. KAnonInit => ShardsHoldTheirOwn
  BY KAnonAssumption, FS_EmptySet DEF KAnonInit, ShardsHoldTheirOwn
<1>2. ASSUME KAnonInv, ShardsHoldTheirOwn, [KAnonNext]_kAnonVars
      PROVE  ShardsHoldTheirOwn'
  <2>0. KAnonTypeOK /\ OnlyVouchedFor
    BY <1>2 DEF KAnonInv
  <2>1. CASE UNCHANGED caches
    BY <1>2, <2>1 DEF caches, ShardsHoldTheirOwn
  <2>2. ASSUME NEW r \in Request, InsertKAnon(r)
        PROVE  ShardsHoldTheirOwn'
    <3>1. Resolved(r) \in SUBSET Hash
      BY <2>0 DEF Resolved, KAnonTypeOK
    <3>2. \A i \in Shard(KAnonShards) :
            /\ \A h \in kAnon'[i] : GetShardIndex(h, KAnonShards) = i
            /\ Cardinality(kAnon'[i]) <= ShardCapacity
      BY <1>2, <2>0, <2>2, <3>1, InsertKeepsShards, KAnonAssumption
      DEF InsertKAnon, ShardsHoldTheirOwn, KAnonTypeOK
    <3> QED BY <1>2, <2>2, <3>2 DEF InsertKAnon, ShardsHoldTheirOwn
  <2>3. ASSUME NEW r \in Request, InsertNonKAnon(r)
        PROVE  ShardsHoldTheirOwn'
    <3>1. PICK views \in SUBSET Hash :
            nonKAnon' \in InsertShardedCaches(nonKAnon, NonKAnonShards,
                                              views \ Resolved(r))
      BY <2>3 DEF InsertNonKAnon
    <3>2. \A i \in Shard(NonKAnonShards) :
            /\ \A h \in nonKAnon'[i] : GetShardIndex(h, NonKAnonShards) = i
            /\ Cardinality(nonKAnon'[i]) <= ShardCapacity
      BY <1>2, <2>0, <3>1, InsertKeepsShards, KAnonAssumption
      DEF ShardsHoldTheirOwn, KAnonTypeOK
    <3> QED BY <1>2, <2>3, <3>2 DEF InsertNonKAnon, ShardsHoldTheirOwn
  <2>4. CASE Expire
    <3>1. CASE UNCHANGED nonKAnon /\ \E i \in Shard(KAnonShards) : \E h \in kAnon[i] :
                 kAnon' = [kAnon EXCEPT ![i] = @ \ {h}]
      <4>1. PICK i \in Shard(KAnonShards) : \E h \in kAnon[i] :
              kAnon' = [kAnon EXCEPT ![i] = @ \ {h}]
        BY <3>1
      <4>2. PICK h \in kAnon[i] : kAnon' = [kAnon EXCEPT ![i] = @ \ {h}]
        BY <4>1
      <4>3. Cardinality(kAnon[i] \ {h}) <= ShardCapacity
        BY <1>2, <2>0, <4>2, ExpiryKeepsCapacity DEF KAnonTypeOK, ShardsHoldTheirOwn
      <4> QED BY <1>2, <2>0, <3>1, <4>2, <4>3 DEF ShardsHoldTheirOwn, KAnonTypeOK
    <3>2. CASE UNCHANGED kAnon /\ \E i \in Shard(NonKAnonShards) : \E h \in nonKAnon[i] :
                 nonKAnon' = [nonKAnon EXCEPT ![i] = @ \ {h}]
      <4>1. PICK i \in Shard(NonKAnonShards) : \E h \in nonKAnon[i] :
              nonKAnon' = [nonKAnon EXCEPT ![i] = @ \ {h}]
        BY <3>2
      <4>2. PICK h \in nonKAnon[i] : nonKAnon' = [nonKAnon EXCEPT ![i] = @ \ {h}]
        BY <4>1
      <4>3. Cardinality(nonKAnon[i] \ {h}) <= ShardCapacity
        BY <1>2, <2>0, <4>2, ExpiryKeepsCapacity DEF KAnonTypeOK, ShardsHoldTheirOwn
      <4> QED BY <1>2, <2>0, <3>2, <4>2, <4>3 DEF ShardsHoldTheirOwn, KAnonTypeOK
    <3> QED BY <2>4, <3>1, <3>2 DEF Expire
  <2>5. \/ UNCHANGED caches \/ Expire
        \/ \E r \in Request : InsertKAnon(r) \/ InsertNonKAnon(r)
    BY <1>2 DEF KAnonNext, Step, Settled, kAnonVars, caches, AreKAnonymous,
       QueryNonKAnonCaches, QueryKAnonClient, OnNoAnswer, OnAnswer, OwnerDeleted
  <2> QED BY <2>1, <2>2, <2>3, <2>4, <2>5
<1> QED BY <1>1, <1>2, KAnonInvariance, PTL DEF KAnonSpec

(* Whatever the service says, a caller is told of at least the hashes that   *)
(* the positive caches held for it: `cached' is fixed before any answer, and *)
(* every answer is built on it.                                              *)
THEOREM CachedIsNeverLost == KAnonSpec => []CachedHashesReported
<1>1. KAnonInit => CachedHashesReported
  BY DEF KAnonInit, CachedHashesReported
<1>2. ASSUME KAnonInv, CachedHashesReported, [KAnonNext]_kAnonVars
      PROVE  CachedHashesReported'
  <2>0. KAnonTypeOK /\ AnsweredIsPast
    BY <1>2 DEF KAnonInv
  <2>1. ASSUME NEW r \in Request, NEW H \in (SUBSET Hash) \ {{}}, AreKAnonymous(r, H)
        PROVE  CachedHashesReported'
    <3>1. answer[r] = {}
      BY <2>0, <2>1 DEF AreKAnonymous, AnsweredIsPast
    <3> QED BY <1>2, <2>0, <2>1, <3>1 DEF AreKAnonymous, CachedHashesReported, KAnonTypeOK
  <2>2. ASSUME NEW r \in Request, QueryNonKAnonCaches(r)
        PROVE  CachedHashesReported'
    BY <1>2, <2>0, <2>2 DEF QueryNonKAnonCaches, CachedHashesReported, KAnonTypeOK
  <2>3. ASSUME NEW r \in Request, OnNoAnswer(r)
        PROVE  CachedHashesReported'
    BY <1>2, <2>0, <2>3 DEF OnNoAnswer, CachedHashesReported, KAnonTypeOK, request
  <2>4. ASSUME NEW r \in Request, OnAnswer(r)
        PROVE  CachedHashesReported'
    BY <1>2, <2>0, <2>4 DEF OnAnswer, CachedHashesReported, KAnonTypeOK, request
  <2>5. CASE UNCHANGED <<cached, answer>>
    BY <1>2, <2>5 DEF CachedHashesReported
  <2>6. \/ UNCHANGED <<cached, answer>>
        \/ \E r \in Request, H \in (SUBSET Hash) \ {{}} : AreKAnonymous(r, H)
        \/ \E r \in Request : QueryNonKAnonCaches(r) \/ OnNoAnswer(r) \/ OnAnswer(r)
    BY <1>2 DEF KAnonNext, Step, Settled, kAnonVars, request, QueryKAnonClient, InsertKAnon,
       InsertNonKAnon, Expire, OwnerDeleted
  <2> QED BY <2>1, <2>2, <2>3, <2>4, <2>5, <2>6
<1> QED BY <1>1, <1>2, KAnonInvariance, PTL DEF KAnonSpec
=============================================================================

------------------------------- MODULE Cache -------------------------------
(***************************************************************************)
(* The expiring LRU cache of the seller front end                          *)
(* (services/seller_frontend_service/cache): a hash map and a doubly       *)
(* linked list under one mutex, one libevent timer per entry, and executor *)
(* tasks that act on what the timers say.                                  *)
(*                                                                         *)
(* Insert, Query and the expiry task hold cache_mutex_ from their first    *)
(* step to the last (`op').  The event loop does not take the mutex: a     *)
(* timer may fire in the middle of them; the executor runs what was posted *)
(* in any order.  Each node owns an ExpiryEventData that its event's       *)
(* callback is given (`live' while it is allocated).  Destroying the node  *)
(* calls that callback once more, by hand, to have the argument reclaimed, *)
(* and only then deletes the timer (`dying' between the two): the argument *)
(* may be gone before the timer, or before a timeout task already posted.  *)
(* What reads it then is undefined: it may find any key, or end the        *)
(* process (life "crashed").  A node stands for the memory of its argument *)
(* and may be allocated again as soon as that is freed.                    *)
(***************************************************************************)
EXTENDS Integers, Sequences, FiniteSets, SequencesExt

CONSTANTS
  Key,        \* keys of entries
  Node,       \* list nodes, each with its timer and its ExpiryEventData
  Capacity,   \* capacity_
  NoNode,     \* value of an absent map entry
  MaxTimeouts \* bound: timeout tasks queued for one node

ASSUME CacheAssumption ==
  /\ Capacity \in Nat \ {0} /\ NoNode \notin Node
  /\ MaxTimeouts \in Nat \ {0} /\ IsFiniteSet(Key)

VARIABLES
  map,       \* hash_to_node_: Key -> Node or NoNode
  dll,       \* dll_, most recently used first
  num,       \* num_entries_
  key,       \* the key each node was created for
  live,      \* nodes whose ExpiryEventData is allocated
  armed,     \* nodes whose timer is pending in the event loop
  timeouts,  \* Node -> timeout tasks posted and not run
  reclaims,  \* nodes with a posted task that only reclaims the argument
  dying,     \* the node whose event is being destroyed, or NoNode
  overtaken, \* history: see Overtake
  op,        \* who holds the mutex: none, insert, query, expire
  batch,     \* entries of the running Insert
  left,      \* keys the running operation has not handled
  evict,     \* N, what Evict still has to remove
  life       \* running, stopping, stopped, destroyed, crashed

lockVars == <<op, batch, left, evict>>
entryVars == <<map, dll, num>>
nodeVars == <<key, live>>
eventVars == <<armed, timeouts, reclaims, dying, overtaken>>
vars == <<entryVars, nodeVars, eventVars, lockVars, life>>

Present == {k \in Key : map[k] # NoNode}
Listed == {dll[i] : i \in DOMAIN dll}

Init ==
  /\ map = [k \in Key |-> NoNode] /\ dll = <<>> /\ num = 0
  /\ key \in [Node -> Key] /\ key = [n \in Node |-> CHOOSE k \in Key : TRUE]
  /\ live = {} /\ armed = {} /\ timeouts = [n \in Node |-> 0] /\ reclaims = {}
  /\ dying = NoNode /\ overtaken = {}
  /\ op = "none" /\ batch = {} /\ left = {} /\ evict = 0
  /\ life = "running"

-----------------------------------------------------------------------------
(* The list and the events. *)

InsertAtFront(n) == dll' = <<n>> \o dll

MoveToFront(n) == \E i \in DOMAIN dll :
  dll[i] = n /\ dll' = <<n>> \o RemoveAt(dll, i)

(* Nodes of S that a timeout task is queued for will have it run without    *)
(* their entry.                                                             *)
Overtake(S) == overtaken' = overtaken \cup {n \in S : timeouts'[n] > 0}

(* Mutant: the map keeps pointing at the node. *)
RemoveNodeKeepMap(n) ==
  /\ \E i \in DOMAIN dll : dll[i] = n /\ dll' = RemoveAt(dll, i)
  /\ num' = num - 1 /\ reclaims' = reclaims \cup {n} /\ dying' = n
  /\ Overtake({n}) /\ UNCHANGED <<map, armed>>

(* Takes the entry out of list, map and count, which only the holder of the *)
(* mutex reads, and begins to destroy the node: the destructor of its Event *)
(* activates the callback by hand, which posts the reclaiming task.         *)
RemoveNode(n) ==
  /\ \E i \in DOMAIN dll : dll[i] = n /\ dll' = RemoveAt(dll, i)
  /\ map' = [map EXCEPT ![key[n]] = NoNode]
  /\ num' = num - 1
  /\ reclaims' = reclaims \cup {n}
  /\ dying' = n /\ Overtake({n})
  /\ UNCHANGED armed

(* Mutant: the timer stays pending. *)
EventDelKeepTimer ==
  /\ dying # NoNode /\ dying' = NoNode
  /\ op' = IF op = "expire" THEN "none" ELSE op
  /\ UNCHANGED <<entryVars, nodeVars, armed, timeouts, reclaims, overtaken, batch,
                 left, evict, life>>

(* The rest of the destructor deletes the timer.  The expiry task has done  *)
(* what it came for.                                                        *)
EventDel ==
  /\ dying # NoNode /\ dying' = NoNode
  /\ armed' = armed \ {dying}
  /\ op' = IF op = "expire" THEN "none" ELSE op
  /\ UNCHANGED <<entryVars, nodeVars, timeouts, reclaims, overtaken, batch, left,
                 evict, life>>

LruNode == dll[Len(dll)]

-----------------------------------------------------------------------------
(* Insert: work out the overflow, evict, then add entry by entry. *)

Insert(entries) ==
  /\ life = "running" /\ op = "none"
  /\ op' = "insert" /\ batch' = entries /\ left' = entries
  /\ evict' = num + Cardinality(entries) - Capacity
  /\ UNCHANGED <<entryVars, nodeVars, eventVars, life>>

Evict ==
  /\ op = "insert" /\ dying = NoNode /\ evict > 0
  /\ UNCHANGED <<nodeVars, timeouts, op, batch, left, life>>
  /\ IF dll = <<>>
     THEN /\ evict' = 0  \* the error status is only logged
          /\ UNCHANGED <<entryVars, eventVars>>
     ELSE RemoveNode(LruNode) /\ evict' = evict - 1

(* The entry is there: reset its timer, mark it most recently used. *)
RefreshEntry(k) ==
  /\ map[k] # NoNode
  /\ MoveToFront(map[k])
  /\ armed' = armed \cup {map[k]}
  /\ left' = left \ {k}
  /\ UNCHANGED <<map, num, nodeVars, overtaken>>

(* A new node, its timer started; stop when this fills the cache. *)
AddEntry(k) ==
  /\ map[k] = NoNode
  /\ \E n \in Node \ live :
       /\ InsertAtFront(n)
       /\ map' = [map EXCEPT ![k] = n]
       /\ key' = [key EXCEPT ![n] = k]
       /\ live' = live \cup {n}
       /\ armed' = armed \cup {n}
       /\ overtaken' = overtaken \ {n}
  /\ num' = num + 1
  /\ left' = IF num' = Capacity THEN {} ELSE left \ {k}

InsertEntry ==
  /\ op = "insert" /\ dying = NoNode /\ evict <= 0
  /\ \E k \in left : RefreshEntry(k) \/ AddEntry(k)
  /\ UNCHANGED <<timeouts, reclaims, dying, op, batch, evict, life>>

InsertReturn ==
  /\ op = "insert" /\ dying = NoNode /\ evict <= 0 /\ left = {}
  /\ op' = "none" /\ batch' = {} /\ evict' = 0
  /\ UNCHANGED <<entryVars, nodeVars, eventVars, left, life>>

-----------------------------------------------------------------------------
(* Query: every key found becomes most recently used. *)

Query(keys) ==
  /\ life = "running" /\ op = "none"
  /\ op' = "query" /\ left' = keys
  /\ UNCHANGED <<entryVars, nodeVars, eventVars, batch, evict, life>>

QueryKey ==
  /\ op = "query"
  /\ \E k \in left :
       /\ left' = left \ {k}
       /\ IF map[k] # NoNode THEN MoveToFront(map[k]) ELSE UNCHANGED dll
  /\ UNCHANGED <<map, num, nodeVars, eventVars, op, batch, evict, life>>

QueryReturn ==
  /\ op = "query" /\ left = {}
  /\ op' = "none"
  /\ UNCHANGED <<entryVars, nodeVars, eventVars, batch, left, evict, life>>

-----------------------------------------------------------------------------
(* Expiry.  EntryExpiryCallback runs in the event loop and only posts. *)

Crash == life' = "crashed" /\ UNCHANGED <<entryVars, nodeVars, eventVars, lockVars>>

(* The timer of a node that is being destroyed may still fire, on an        *)
(* argument that is about to be reclaimed or is already gone.               *)
EntryExpiryCallback(n) ==
  /\ life \in {"running", "stopping"} /\ n \in armed
  /\ \/ /\ timeouts[n] < MaxTimeouts
        /\ armed' = armed \ {n}
        /\ timeouts' = [timeouts EXCEPT ![n] = @ + 1]
        /\ Overtake({dying} \cap {n})
        /\ UNCHANGED <<entryVars, nodeVars, reclaims, dying, lockVars, life>>
     \/ n \notin live /\ Crash

(* What the task finds in its argument: its key, or in freed memory any.    *)
KeyRead(n) == IF n \in live THEN {key[n]} ELSE Key

(* The posted task: it looks its key up again, under the mutex, and removes *)
(* whatever entry it finds.  Its argument stays for the final activation.   *)
ExpireEntry(n) ==
  /\ op = "none" /\ timeouts[n] > 0
  /\ timeouts' = [timeouts EXCEPT ![n] = @ - 1]
  /\ \/ \E k \in KeyRead(n) :
          map[k] # NoNode /\ RemoveNode(map[k]) /\ op' = "expire"
     \/ /\ n \in live => map[key[n]] = NoNode
        /\ UNCHANGED <<entryVars, armed, reclaims, dying, overtaken, op>>
  /\ UNCHANGED <<nodeVars, batch, left, evict, life>>

(* The task runs with its argument gone, or the cache. *)
ExpireCrashes(n) ==
  /\ timeouts[n] > 0 /\ (n \notin live \/ life = "destroyed")
  /\ Crash

(* The task a hand-made activation posts: it frees the argument. *)
ReclaimArgument(n) ==
  /\ n \in reclaims
  /\ reclaims' = reclaims \ {n} /\ live' = live \ {n}
  /\ UNCHANGED <<entryVars, key, armed, timeouts, dying, overtaken, lockVars, life>>

-----------------------------------------------------------------------------
(* The destructor: have the event loop stop, then drop every node.  It does *)
(* not take the mutex; its caller sees to it that no Insert or Query runs,  *)
(* nobody that no expiry task does.                                         *)

RequestShutdown ==
  /\ life = "running" /\ op \in {"none", "expire"} /\ life' = "stopping"
  /\ UNCHANGED <<entryVars, nodeVars, eventVars, lockVars>>

ShutdownEventLoop ==
  /\ life = "stopping" /\ life' = "stopped"
  /\ UNCHANGED <<entryVars, nodeVars, eventVars, lockVars>>

(* Mutant: the events left are destroyed without their final activation. *)
DestroyNoActivation ==
  /\ life = "stopped" /\ op = "none" /\ life' = "destroyed"
  /\ map' = [k \in Key |-> NoNode] /\ dll' = <<>>
  /\ armed' = {}
  /\ UNCHANGED <<num, nodeVars, timeouts, reclaims, dying, lockVars>>
  /\ Overtake(Listed)

Destroy ==
  /\ life = "stopped" /\ op = "none" /\ life' = "destroyed"
  /\ map' = [k \in Key |-> NoNode] /\ dll' = <<>>
  /\ armed' = {} /\ reclaims' = reclaims \cup Listed
  /\ UNCHANGED <<num, nodeVars, timeouts, dying, lockVars>>
  /\ Overtake(Listed)

DestroyBesideTask == life = "stopped" /\ op = "expire" /\ Crash

Terminated ==
  /\ life = "crashed" \/ (life = "destroyed" /\ reclaims = {})
  /\ UNCHANGED vars

Alive == life # "crashed"

Next ==
  \/ /\ Alive
     /\ \/ \E S \in SUBSET Key : Insert(S) \/ Query(S)
        \/ Evict \/ InsertEntry \/ InsertReturn \/ QueryKey \/ QueryReturn \/ EventDel
        \/ \E n \in Node : EntryExpiryCallback(n) \/ ExpireEntry(n)
                           \/ ExpireCrashes(n) \/ ReclaimArgument(n)
        \/ RequestShutdown \/ ShutdownEventLoop \/ Destroy \/ DestroyBesideTask
  \/ Terminated

(* The mutex holder runs on, and the executor runs what it was given. *)
Fairness ==
  /\ WF_vars(Alive /\ Evict) /\ WF_vars(Alive /\ InsertEntry)
  /\ WF_vars(Alive /\ InsertReturn) /\ WF_vars(Alive /\ QueryKey)
  /\ WF_vars(Alive /\ QueryReturn) /\ WF_vars(Alive /\ EventDel)
  /\ \A n \in Node : WF_vars(Alive /\ ReclaimArgument(n))

Spec == Init /\ [][Next]_vars

FairSpec == Spec /\ Fairness

-----------------------------------------------------------------------------
(* Properties. *)

TypeOK ==
  /\ map \in [Key -> Node \cup {NoNode}] /\ dll \in Seq(Node) /\ num \in Int
  /\ key \in [Node -> Key] /\ live \subseteq Node
  /\ armed \subseteq Node /\ timeouts \in [Node -> Nat] /\ reclaims \subseteq Node
  /\ dying \in Node \cup {NoNode} /\ overtaken \subseteq Node
  /\ op \in {"none", "insert", "query", "expire"} /\ batch \subseteq Key
  /\ left \subseteq Key /\ evict \in Int
  /\ life \in {"running", "stopping", "stopped", "destroyed", "crashed"}

(* The map and the list hold the same entries, each once, whatever order     *)
(* inserts, queries, evictions and expiries took the mutex in.               *)
MapMatchesList ==
  /\ \A k \in Present : key[map[k]] = k /\ map[k] \in Listed
  /\ \A i \in DOMAIN dll : map[key[dll[i]]] = dll[i]
  /\ \A i, j \in DOMAIN dll : dll[i] = dll[j] => i = j

(* num_entries_ counts the entries, and they never exceed capacity_. *)
CountWithinCapacity ==
  life \notin {"destroyed", "crashed"} => num = Len(dll) /\ num <= Capacity

(* "If there isn't enough space, it evicts the required number of entries   *)
(* to make space": a batch that fits the cache is in it when Insert returns. *)
BatchIsPresent ==
  op = "insert" /\ evict <= 0 /\ left = {} /\ Cardinality(batch) <= Capacity
    => batch \subseteq Present

(* What the event machinery may touch is allocated, with two exceptions.  A  *)
(* listed node has its argument and nothing is on the way to reclaim it; an  *)
(* argument is reclaimed once ("Otherwise, we might end up trying to clean   *)
(* up the same memory twice"); a timer is pending only for a listed node, or *)
(* for the one whose destructor has posted the reclaiming task and not yet   *)
(* deleted the timer; and a timeout task runs without its argument only when *)
(* it was queued while its entry was removed, or came of that one timer.     *)
ArgumentOutlivesEvent ==
  /\ Listed \subseteq live \ reclaims
  /\ reclaims \subseteq live
  /\ armed \subseteq Listed \cup {dying}
  /\ \A n \in Node \ live : timeouts[n] > 0 => n \in overtaken

(* "the memory for argument associated with event callback can always be     *)
(* reclaimed": once an entry left the list its argument is given back.       *)
ArgumentIsReclaimed ==
  \A n \in Node : (n \in live \ Listed) ~> (n \notin live \/ ~Alive)

(* Between operations the map, the list and the count describe the same      *)
(* entries, within the capacity, and a batch that fits is there in full.     *)
CacheConsistent == TypeOK /\ MapMatchesList /\ CountWithinCapacity /\ BatchIsPresent

-----------------------------------------------------------------------------
(* The inductive invariant of the proofs. *)

(* A timeout task is queued for a listed node, or was overtaken. *)
TimeoutsAccounted == \A n \in Node : timeouts[n] > 0 => n \in Listed \cup overtaken

(* The destructor waits for the callers of Insert and Query, and only a      *)
(* holder of the mutex destroys nodes before it does.                        *)
HolderMeansRunning ==
  /\ op \in {"insert", "query"} => life \in {"running", "crashed"}
  /\ dying # NoNode => op \in {"insert", "expire"} /\ dying \notin Listed

(* How far Insert has come: until Evict is through nothing was added and     *)
(* evict is the overflow; from then on there is room for the next entry, and *)
(* for all that are left of a batch that fits.                               *)
InsertProgress ==
  op = "insert" =>
    /\ left \subseteq batch
    /\ evict > 0 => left = batch /\ evict = num + Cardinality(batch) - Capacity
    /\ evict <= 0 =>
         /\ left # {} => num < Capacity
         /\ Cardinality(batch) <= Capacity =>
              batch \ left \subseteq Present /\ num + Cardinality(left) <= Capacity

Inv ==
  /\ TypeOK /\ MapMatchesList /\ CountWithinCapacity /\ ArgumentOutlivesEvent
  /\ TimeoutsAccounted /\ HolderMeansRunning /\ InsertProgress
=============================================================================

------------------------------- MODULE Lemmas -------------------------------
(***************************************************************************)
(* What the proofs about several components use: what the operations of    *)
(* AsyncTaskTracker do to a tracker, and how to reason about a loop, which *)
(* is a recursive function on 0 .. N in the models.                        *)
(***************************************************************************)
EXTENDS AsyncTaskTracker, WellFoundedInduction, TLAPS

(* The counters of a fresh tracker are naturals, and they add up. *)
LEMMA FreshTracker ==
  ASSUME NEW n \in Nat
  PROVE  SetNumTasksToTrack(n) \in Tracker /\ SumMatches(SetNumTasksToTrack(n))
BY DEF SetNumTasksToTrack, Tracker, SumMatches, TaskStatus

(* TaskCompleted moves one task from pending to its status. *)
LEMMA CountedTracker ==
  ASSUME NEW tr \in Tracker, NEW s \in TaskStatus, tr.pending > 0
  PROVE  /\ TaskCompleted(tr, s) \in Tracker
         /\ SumMatches(tr) => SumMatches(TaskCompleted(tr, s))
         /\ TaskCompleted(tr, s).num = tr.num
         /\ TaskCompleted(tr, s).pending = tr.pending - 1
         /\ \A u \in TaskStatus : TaskCompleted(tr, s).count[u] =
              IF u = s THEN tr.count[u] + 1 ELSE tr.count[u]
<1> DEFINE new == [tr.count EXCEPT ![s] = @ + 1]
<1>1. /\ tr.num \in Nat /\ tr.pending \in Nat /\ tr.count \in [TaskStatus -> Nat]
  BY DEF Tracker
<1>2. TaskCompleted(tr, s) = [num |-> tr.num, pending |-> tr.pending - 1, count |-> new]
  BY DEF TaskCompleted, Tracker
<1>3. /\ new \in [TaskStatus -> Nat]
      /\ \A u \in TaskStatus : new[u] = IF u = s THEN tr.count[u] + 1 ELSE tr.count[u]
  BY <1>1
<1> HIDE DEF new
<1>4. TaskCompleted(tr, s) \in Tracker
  BY <1>1, <1>2, <1>3 DEF Tracker
<1>5. \A u \in {"SUCCESS", "EMPTY_RESPONSE", "SKIPPED", "ERROR", "CANCELLED"} :
        u \in TaskStatus /\ tr.count[u] \in Nat
  BY <1>1 DEF TaskStatus
<1>6. SumMatches(tr) => SumMatches(TaskCompleted(tr, s))
  <2>1. s \in {"SUCCESS", "EMPTY_RESPONSE", "SKIPPED", "ERROR", "CANCELLED"}
    BY DEF TaskStatus
  <2> QED BY <1>1, <1>2, <1>3, <1>5, <2>1 DEF SumMatches
<1> QED BY <1>2, <1>3, <1>4, <1>6

-----------------------------------------------------------------------------
(* Induction. *)

(* Every set of natural numbers that has an element has a least one. *)
LEMMA LeastElement ==
  ASSUME NEW T \in SUBSET Nat, T # {}
  PROVE  \E x \in T : \A y \in T : x <= y
<1>1. PICK x \in T : \A y \in T : ~(<<y, x>> \in OpToRel(<, Nat))
  BY NatLessThanWellFounded, WFMin
<1>2. \A y \in T : <<y, x>> \in Nat \X Nat
  BY SMT
<1>3. \A y \in T : ~(y < x)
  BY <1>1, <1>2 DEF OpToRel
<1> QED
  BY <1>3

(* Induction over the natural numbers, for the numbers of a set. *)
LEMMA SetInduction ==
  ASSUME NEW S, 0 \in S, \A n \in Nat : n \in S => n + 1 \in S
  PROVE  \A n \in Nat : n \in S
<1>1. SUFFICES ASSUME NEW m \in Nat, m \notin S PROVE FALSE
  OBVIOUS
<1>2. PICK x \in Nat \ S : \A y \in Nat \ S : x <= y
  BY <1>1, LeastElement, Nat \ S \in SUBSET Nat, Nat \ S # {}
<1>3. x # 0 /\ x - 1 \in Nat /\ x - 1 \in S
  BY <1>2
<1> QED
  BY <1>2, <1>3, (x - 1) + 1 = x

(* What the turns of a loop do to a value. *)
Turns(N, V) == [(1 .. N) \X V -> V]

(* A loop of N turns over values of V: there is the function of the values   *)
(* after each turn.                                                          *)
LEMMA Loop ==
  ASSUME NEW N \in Nat, NEW V, NEW b \in V, NEW G \in Turns(N, V)
  PROVE  \E f \in [0 .. N -> V] :
           f[0] = b /\ \A i \in 1 .. N : f[i] = G[<<i, f[i - 1]>>]
<1> DEFINE Run(n) == {f \in [0 .. n -> V] :
                        f[0] = b /\ \A i \in 1 .. n : f[i] = G[<<i, f[i - 1]>>]}
           S == {n \in Nat : n <= N => Run(n) # {}}
<1>1. 0 \in S
  <2>1. [i \in 0 .. 0 |-> b] \in Run(0)
    OBVIOUS
  <2> QED
    BY <2>1
<1>2. ASSUME NEW n \in Nat, n \in S PROVE n + 1 \in S
  <2>1. SUFFICES ASSUME n + 1 <= N PROVE Run(n + 1) # {}
    OBVIOUS
  <2>2. PICK f \in Run(n) : TRUE
    BY <1>2, <2>1
  <2>3. PICK g : g = [i \in 0 .. n + 1 |-> IF i = n + 1 THEN G[<<n + 1, f[n]>>] ELSE f[i]]
    OBVIOUS
  <2>4. f \in [0 .. n -> V] /\ n \in 0 .. n /\ f[n] \in V
    BY <2>2
  <2>5. <<n + 1, f[n]>> \in (1 .. N) \X V
    BY <2>4, <2>1
  <2>6. G[<<n + 1, f[n]>>] \in V
    BY <2>5 DEF Turns
  <2>7. g \in [0 .. n + 1 -> V]
    BY <2>3, <2>4, <2>6
  <2>8. g[0] = b
    BY <2>2, <2>3
  <2>9. ASSUME NEW i \in 1 .. n + 1 PROVE g[i] = G[<<i, g[i - 1]>>]
    <3>1. CASE i = n + 1
      <4>1. g[n] = f[n] /\ i - 1 = n /\ g[i] = G[<<n + 1, f[n]>>]
        BY <3>1, <2>3
      <4> QED
        BY <4>1, <3>1, Zenon
    <3>2. CASE i # n + 1
      <4>1. i \in 1 .. n /\ g[i] = f[i] /\ g[i - 1] = f[i - 1]
        BY <3>2, <2>3
      <4> QED
        BY <4>1, <2>2
    <3> QED
      BY <3>1, <3>2
  <2> QED
    BY <2>7, <2>8, <2>9
<1>3. N \in S
  <2> HIDE DEF S
  <2> QED
    BY <1>1, <1>2, SetInduction
<1>4. PICK f \in Run(N) : TRUE
  BY <1>3
<1> QED
  BY <1>4

(* The values of a loop stay in a set that its turns do not leave. *)
LEMMA LoopStays ==
  ASSUME NEW N \in Nat, NEW V, NEW G \in Turns(N, V), NEW f,
         f[0] \in V, \A i \in 1 .. N : f[i - 1] \in V => f[i] = G[<<i, f[i - 1]>>]
  PROVE  \A i \in 0 .. N : f[i] \in V
<1> DEFINE S == {n \in Nat : n <= N => f[n] \in V}
<1>1. 0 \in S
  OBVIOUS
<1>2. ASSUME NEW n \in Nat, n \in S PROVE n + 1 \in S
  <2>1. SUFFICES ASSUME n + 1 <= N PROVE f[n + 1] \in V
    OBVIOUS
  <2>2. f[n] \in V /\ n + 1 \in 1 .. N /\ (n + 1) - 1 = n
    BY <1>2, <2>1
  <2>3. f[n + 1] = G[<<n + 1, f[n]>>]
    BY <2>2
  <2>4. <<n + 1, f[n]>> \in (1 .. N) \X V
    BY <2>2
  <2> QED
    BY <2>3, <2>4 DEF Turns
<1>3. \A n \in Nat : n \in S
  <2> HIDE DEF S
  <2> QED
    BY <1>1, <1>2, SetInduction
<1> QED
  BY <1>3
=============================================================================

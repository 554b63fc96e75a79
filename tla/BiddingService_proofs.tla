------------------------ MODULE BiddingService_proofs ------------------------
(***************************************************************************)
(* Proofs about BiddingService, for any number of interest groups, any     *)
(* settings and any results of the UDFs.  First what the loops over the    *)
(* bids come to, then the call, the tasks of a binary call, and app        *)
(* signals.                                                                *)
(***************************************************************************)
EXTENDS BiddingService, Lemmas, SequenceTheorems, FiniteSetTheorems, TLAPS

-----------------------------------------------------------------------------
(* The loops over the bids. *)

(* Contributions with gaps where some were removed. *)
Events == UNION {[D -> STRING] : D \in SUBSET Nat}

EventsFit(e) ==
  \A n \in DOMAIN e :
    /\ e[n] # "EVENT_TYPE_UNSPECIFIED"
    /\ Cardinality({m \in DOMAIN e : e[m] = e[n]}) <= ContributionLimit

(* A set of numbers up to N that has an element has a greatest one. *)
LEMMA GreatestElement ==
  ASSUME NEW N \in Nat, NEW T \in SUBSET (1 .. N), T # {}
  PROVE  \E x \in T : \A y \in T : y <= x
<1> DEFINE U == {N - y : y \in T}
<1>1. U \in SUBSET Nat /\ U # {}
  <2>1. ASSUME NEW y \in T PROVE N - y \in Nat
    OBVIOUS
  <2> QED
    BY <2>1
<1>2. PICK u \in U : \A v \in U : u <= v
  BY <1>1, LeastElement
<1>3. PICK x \in T : u = N - x
  BY <1>2
<1>4. \A y \in T : N - x <= N - y
  BY <1>2, <1>3
<1> QED
  BY <1>4

(* The contributions that are kept are within the limit of their type. *)
LEMMA ContributionsFit ==
  ASSUME NEW bid \in BidType, NEW kept, kept = ProcessPAggContributions(bid).events
  PROVE  kept \in Events /\ EventsFit(kept)
<1>1. PICK e \in Seq(STRING) : e = bid.events
  BY DEF BidType
<1> DEFINE Kept(i) == /\ e[i] # "EVENT_TYPE_UNSPECIFIED"
                      /\ Cardinality({j \in 1 .. i : e[j] = e[i]}) <= ContributionLimit
           D == {j \in DOMAIN e : Kept(j)}
<1>2. kept = [i \in D |-> e[i]]
  BY <1>1 DEF ProcessPAggContributions, BidType
<1>3. PICK N \in Nat : N = Len(e) /\ DOMAIN e = 1 .. N
  BY <1>1
<1>4. D \in SUBSET (1 .. N) /\ \A i \in D : e[i] \in STRING
  BY <1>1, <1>3
<1>5. kept \in [D -> STRING] /\ D \in SUBSET Nat
  BY <1>2, <1>4
<1>6. ASSUME NEW n \in D
      PROVE  /\ kept[n] # "EVENT_TYPE_UNSPECIFIED"
             /\ Cardinality({m \in D : kept[m] = kept[n]}) <= ContributionLimit
  <2> DEFINE T == {m \in D : kept[m] = kept[n]}
  <2>1. T \in SUBSET (1 .. N) /\ T # {}
    BY <1>4
  <2>2. PICK x \in T : \A y \in T : y <= x
    BY <2>1, GreatestElement
  <2>3. PICK S : S = {j \in 1 .. x : e[j] = e[x]}
    OBVIOUS
  <2>4. x \in D /\ x \in 1 .. N /\ Cardinality(S) <= ContributionLimit
    BY <2>2, <2>3, <1>4
  <2>5. IsFiniteSet(1 .. x) /\ S \in SUBSET (1 .. x)
    BY <2>3, <2>4, FS_Interval
  <2>6. IsFiniteSet(S)
    BY <2>5, FS_Subset
  <2>7. T \in SUBSET S
    <3>1. ASSUME NEW t \in T PROVE t \in S
      <4>1. t \in D /\ t \in 1 .. N /\ t <= x
        BY <2>1, <2>2
      <4>2. kept[t] = e[t] /\ kept[x] = e[x] /\ kept[t] = kept[x]
        BY <1>2, <2>2, <2>4, <4>1
      <4>3. t \in 1 .. x
        BY <2>4, <4>1
      <4>4. e[t] = e[x]
        BY <4>2
      <4> QED
        BY <2>3, <4>3, <4>4
    <3> QED
      BY <3>1
  <2>8. Cardinality(T) <= Cardinality(S) /\ Cardinality(T) \in Nat /\ Cardinality(S) \in Nat
    BY <2>6, <2>7, FS_Subset, FS_CardinalityType
  <2>9. kept[n] # "EVENT_TYPE_UNSPECIFIED"
    BY <1>2
  <2> QED
    BY <2>4, <2>8, <2>9, BidLimits
<1>7. DOMAIN kept = D
  BY <1>5
<1> QED
  BY <1>5, <1>6, <1>7 DEF Events, EventsFit

(* No contributions are within the limit. *)
LEMMA NoEventsFit ==
  ASSUME NEW e, e = <<>>
  PROVE  e \in Events /\ EventsFit(e)
<1>1. DOMAIN e = {} /\ e \in [{} -> STRING]
  OBVIOUS
<1> QED
  BY <1>1 DEF Events, EventsFit

(* The URLs a bid keeps fit, each and with those before them. *)
LEMMA TrimmedUrlsFit ==
  ASSUME NEW bid \in BidType, NEW total \in 0 .. MaxAllUrlChars,
         NEW t, t = TrimAndReturnDebugUrlsSize(bid, total)
  PROVE  /\ t \in BidType /\ t.win \in 0 .. MaxUrlChars /\ t.loss \in 0 .. MaxUrlChars
         /\ total + t.win + t.loss <= MaxAllUrlChars
         /\ t.made = bid.made /\ t.ig = bid.ig /\ t.events = bid.events
<1> DEFINE Fits(url, used) == url <= MaxUrlChars /\ url + used <= MaxAllUrlChars
           win == IF Fits(bid.win, total) THEN bid.win ELSE 0
           loss == IF Fits(bid.loss, total + win) THEN bid.loss ELSE 0
<1>1. bid.win \in Nat /\ bid.loss \in Nat
  BY DEF BidType
<1>2. CASE total >= MaxAllUrlChars
  <2>1. t = [bid EXCEPT !.win = 0, !.loss = 0]
    BY <1>2 DEF TrimAndReturnDebugUrlsSize
  <2>a. PICK z \in Nat : z = 0
    OBVIOUS
  <2>b. t = [bid EXCEPT !.win = z, !.loss = z]
    BY <2>1, <2>a
  <2>c. t \in BidType /\ t.win = z /\ t.loss = z
        /\ t.made = bid.made /\ t.ig = bid.ig /\ t.events = bid.events
    BY <2>b DEF BidType
  <2>2. t \in BidType /\ t.win = 0 /\ t.loss = 0
        /\ t.made = bid.made /\ t.ig = bid.ig /\ t.events = bid.events
    BY <2>a, <2>c
  <2> QED
    BY <2>2, BidLimits
<1>3. CASE ~(total >= MaxAllUrlChars)
  <2>1. t = [bid EXCEPT !.win = win, !.loss = loss]
    BY <1>3 DEF TrimAndReturnDebugUrlsSize
  <2>2. win \in Nat /\ win <= MaxUrlChars /\ total + win <= MaxAllUrlChars
    BY <1>1, BidLimits
  <2>3. loss \in Nat /\ loss <= MaxUrlChars /\ total + win + loss <= MaxAllUrlChars
    <3> HIDE DEF win
    <3> QED
      BY <1>1, <2>2, BidLimits
  <2> HIDE DEF win, loss
  <2>4. t \in BidType /\ t.win = win /\ t.loss = loss
        /\ t.made = bid.made /\ t.ig = bid.ig /\ t.events = bid.events
    BY <2>1, <2>2, <2>3 DEF BidType
  <2> QED
    BY <2>2, <2>3, <2>4, BidLimits
<1> QED
  BY <1>2, <1>3

(* What may leave the service: bids of the lists, within the limits. *)
AnswerBid ==
  [made : STRING \X Nat, parses : BOOLEAN, ig : STRING, bid : Nat,
   allow : BOOLEAN, win : 0 .. MaxUrlChars, loss : 0 .. MaxUrlChars, events : Events]
Leaving(lists) ==
  {b \in AnswerBid :
     /\ EventsFit(b.events)
     /\ \E i \in DOMAIN lists : \E n \in DOMAIN lists[i] :
          lists[i][n].made = b.made /\ lists[i][n].ig = b.ig}
Answers(lists) ==
  {a \in [bids : Seq(Leaving(lists)), chars : 0 .. MaxAllUrlChars] :
     DebugUrlChars(a.bids) = a.chars}

(* The total of the characters is what its recursive definition says. *)
LEMMA CharsAreTheSum ==
  ASSUME NEW S, \A b \in S : b.win \in Nat /\ b.loss \in Nat, NEW list \in Seq(S)
  PROVE  \E sum \in [0 .. Len(list) -> Nat] :
           /\ DebugUrlChars(list) = sum[Len(list)] /\ sum[0] = 0
           /\ \A k \in 1 .. Len(list) : sum[k] = sum[k - 1] + list[k].win + list[k].loss
<1>0. PICK n \in Nat : n = Len(list)
  OBVIOUS
<1> DEFINE Turn(k, x) == x + list[k].win + list[k].loss
           Step(f) == [k \in 0 .. n |-> IF k = 0 THEN 0 ELSE Turn(k, f[k - 1])]
<1>1. ASSUME NEW k \in 1 .. n, NEW x \in Nat PROVE Turn(k, x) \in Nat
  <2>1. list[k] \in S
    BY <1>0
  <2>2. list[k].win \in Nat /\ list[k].loss \in Nat
    BY <2>1
  <2> QED
    BY <2>2
<1>2. PICK sum : sum = CHOOSE f : f = Step(f)
  OBVIOUS
<1>3. DebugUrlChars(list) = sum[n]
  BY <1>0, <1>2, Zenon DEF DebugUrlChars
<1> HIDE DEF Turn
<1>4. PICK V, z : V = Nat /\ z = 0
  OBVIOUS
<1>5. PICK G : G = [p \in (1 .. n) \X V |-> Turn(p[1], p[2])]
  OBVIOUS
<1>6. G \in Turns(n, V) /\ z \in V
  BY <1>1, <1>4, <1>5 DEF Turns
<1>7. ASSUME NEW k \in 1 .. n, NEW x \in V PROVE G[<<k, x>>] = Turn(k, x)
  <2>1. <<k, x>> \in (1 .. n) \X V
    OBVIOUS
  <2> QED
    BY <1>5, <2>1
<1>8. \E f : f = Step(f)
  <2>1. PICK f \in [0 .. n -> V] : f[0] = z /\ \A k \in 1 .. n : f[k] = G[<<k, f[k - 1]>>]
    BY <1>6, Loop
  <2>2. ASSUME NEW k \in 1 .. n PROVE f[k] = Turn(k, f[k - 1])
    <3>1. f[k - 1] \in V
      BY <2>1
    <3> QED
      BY <1>7, <2>1, <3>1
  <2>3. f = [k \in 0 .. n |-> f[k]]
    BY <2>1
  <2>4. \A k \in 0 .. n : f[k] = IF k = 0 THEN 0 ELSE Turn(k, f[k - 1])
    BY <1>4, <2>1, <2>2
  <2>5. f = Step(f)
    BY <2>3, <2>4
  <2> QED
    BY <2>5
<1>9. sum = Step(sum)
  BY <1>2, <1>8
<1>10. /\ sum = [k \in 0 .. n |-> sum[k]] /\ sum[0] = 0
       /\ \A k \in 1 .. n : sum[k] = Turn(k, sum[k - 1])
  BY <1>9, SMTT(30)
<1>11. sum[0] \in V /\ \A k \in 1 .. n : sum[k - 1] \in V => sum[k] = G[<<k, sum[k - 1]>>]
  <2>1. sum[0] \in V
    BY <1>4, <1>10
  <2>2. ASSUME NEW k \in 1 .. n, sum[k - 1] \in V PROVE sum[k] = G[<<k, sum[k - 1]>>]
    <3>1. sum[k] = Turn(k, sum[k - 1])
      BY <1>10
    <3> QED
      BY <1>7, <2>2, <3>1
  <2> QED
    BY <2>1, <2>2
<1>12. \A k \in 0 .. n : sum[k] \in V
  BY <1>6, <1>11, LoopStays
<1>13. sum \in [0 .. n -> Nat]
  BY <1>4, <1>10, <1>12
<1>14. \A k \in 1 .. n : sum[k] = sum[k - 1] + list[k].win + list[k].loss
  BY <1>10 DEF Turn
<1> QED
  BY <1>0, <1>3, <1>10, <1>13, <1>14

(* A bid that joins a list adds its own characters. *)
LEMMA CharsOfOneMore ==
  ASSUME NEW S, \A b \in S : b.win \in Nat /\ b.loss \in Nat, NEW list \in Seq(S), NEW bid \in S
  PROVE  DebugUrlChars(Append(list, bid)) = DebugUrlChars(list) + bid.win + bid.loss
<1>0. PICK n \in Nat : n = Len(list)
  OBVIOUS
<1>a. Append(list, bid) \in Seq(S)
  BY AppendProperties
<1>1. PICK more \in Seq(S) : more = Append(list, bid)
  BY <1>a
<1>2. Len(more) = n + 1 /\ more[n + 1] = bid /\ \A k \in 1 .. n : more[k] = list[k]
  BY <1>0, <1>1
<1>3. PICK f \in [0 .. n -> Nat] :
        /\ DebugUrlChars(list) = f[n] /\ f[0] = 0
        /\ \A k \in 1 .. n : f[k] = f[k - 1] + list[k].win + list[k].loss
  BY <1>0, CharsAreTheSum
<1>4. PICK g \in [0 .. n + 1 -> Nat] :
        /\ DebugUrlChars(more) = g[n + 1] /\ g[0] = 0
        /\ \A k \in 1 .. n + 1 : g[k] = g[k - 1] + more[k].win + more[k].loss
  <2>1. PICK m : m = n + 1 /\ m = Len(more)
    BY <1>2
  <2>2. \E g \in [0 .. m -> Nat] :
          /\ DebugUrlChars(more) = g[m] /\ g[0] = 0
          /\ \A k \in 1 .. m : g[k] = g[k - 1] + more[k].win + more[k].loss
    BY <2>1, CharsAreTheSum
  <2> QED
    BY <2>1, <2>2
<1> DEFINE T == {k \in Nat : k <= n => f[k] = g[k]}
<1>5. 0 \in T
  BY <1>3, <1>4
<1>6. ASSUME NEW k \in Nat, k \in T PROVE k + 1 \in T
  <2>1. SUFFICES ASSUME k + 1 <= n PROVE f[k + 1] = g[k + 1]
    OBVIOUS
  <2>2. k + 1 \in 1 .. n /\ k + 1 \in 1 .. n + 1 /\ (k + 1) - 1 = k /\ f[k] = g[k]
    BY <1>6, <2>1
  <2>3. f[k + 1] = f[k] + list[k + 1].win + list[k + 1].loss
    BY <1>3, <2>2
  <2>4. g[k + 1] = g[k] + more[k + 1].win + more[k + 1].loss
    BY <1>4, <2>2
  <2>5. more[k + 1] = list[k + 1]
    BY <1>2, <2>2
  <2> QED
    BY <2>2, <2>3, <2>4, <2>5
<1>7. n \in T
  <2> HIDE DEF T
  <2> QED
    BY <1>5, <1>6, SetInduction
<1>8. f[n] = g[n]
  BY <1>7
<1>9. n + 1 \in 1 .. n + 1 /\ (n + 1) - 1 = n
  OBVIOUS
<1>10. g[n + 1] = g[n] + more[n + 1].win + more[n + 1].loss
  BY <1>4, <1>9
<1> QED
  BY <1>1, <1>2, <1>3, <1>4, <1>8, <1>10

(* No bids have no characters. *)
LEMMA CharsOfNone == DebugUrlChars(<<>>) = 0
<1>1. PICK S : S = {b \in {} : TRUE}
  OBVIOUS
<1>2. PICK none : none = <<>>
  OBVIOUS
<1>a. none \in Seq(S) /\ Len(none) = 0 /\ \A b \in S : FALSE
  BY <1>1, <1>2
<1>3. DebugUrlChars(none) = 0
  BY <1>a, CharsAreTheSum
<1> QED
  BY <1>2, <1>3

(* A bid of a list joins an answer, or is left out. *)
LEMMA AddBidKeepsAnswer ==
  ASSUME NEW lists, NEW acc \in Answers(lists), NEW i \in DOMAIN lists,
         lists[i] \in Seq(BidType), NEW n \in DOMAIN lists[i],
         NEW limitEvents \in BOOLEAN, limitEvents \/ lists[i][n].events = <<>>
  PROVE  AddBid(acc, lists[i][n], limitEvents) \in Answers(lists)
<1>1. PICK bid \in BidType : bid = lists[i][n]
  OBVIOUS
<1>2. CASE ~bid.parses \/ IsValidProtectedAudienceBid(bid) # "OK"
  BY <1>1, <1>2 DEF AddBid
<1>3. CASE ~(~bid.parses \/ IsValidProtectedAudienceBid(bid) # "OK")
  <2>1. acc.chars \in 0 .. MaxAllUrlChars /\ acc.bids \in Seq(Leaving(lists))
        /\ DebugUrlChars(acc.bids) = acc.chars
    BY DEF Answers
  <2>2. PICK t : t = TrimAndReturnDebugUrlsSize(bid, acc.chars)
    OBVIOUS
  <2>3. /\ t \in BidType /\ t.win \in 0 .. MaxUrlChars /\ t.loss \in 0 .. MaxUrlChars
        /\ acc.chars + t.win + t.loss <= MaxAllUrlChars
        /\ t.made = bid.made /\ t.ig = bid.ig /\ t.events = bid.events
    BY <2>1, <2>2, TrimmedUrlsFit
  <2>4. PICK kept : kept = IF limitEvents THEN ProcessPAggContributions(t) ELSE t
    OBVIOUS
  <2>5. kept.events \in Events /\ EventsFit(kept.events)
    <3>1. CASE limitEvents
      BY <2>3, <2>4, <3>1, ContributionsFit
    <3>2. CASE ~limitEvents
      BY <1>1, <2>3, <2>4, <3>2, NoEventsFit
    <3> QED
      BY <3>1, <3>2
  <2>6. \E e : kept = [t EXCEPT !.events = e]
    <3>1. CASE limitEvents
      BY <2>4, <3>1 DEF ProcessPAggContributions
    <3>2. CASE ~limitEvents
      <4>1. t = [t EXCEPT !.events = t.events]
        BY <2>3 DEF BidType
      <4> QED
        BY <2>4, <3>2, <4>1
    <3> QED
      BY <3>1, <3>2
  <2>7. PICK e : kept = [t EXCEPT !.events = e]
    BY <2>6
  <2>8. e \in Events /\ EventsFit(e)
    BY <2>3, <2>5, <2>7 DEF BidType
  <2>9. kept \in AnswerBid /\ kept.made = bid.made /\ kept.ig = bid.ig
        /\ kept.win = t.win /\ kept.loss = t.loss /\ kept.events = e
    BY <2>3, <2>7, <2>8 DEF BidType, AnswerBid
  <2>10. kept \in Leaving(lists)
    BY <1>1, <2>8, <2>9 DEF Leaving
  <2>11. AddBid(acc, bid, limitEvents) =
           [bids |-> Append(acc.bids, kept), chars |-> acc.chars + t.win + t.loss]
    BY <1>3, <2>2, <2>4 DEF AddBid
  <2>12. \A b \in Leaving(lists) : b.win \in Nat /\ b.loss \in Nat
    BY BidLimits DEF Leaving, AnswerBid
  <2>13. DebugUrlChars(Append(acc.bids, kept)) = DebugUrlChars(acc.bids) + kept.win + kept.loss
    BY <2>1, <2>10, <2>12, CharsOfOneMore
  <2>14. acc.chars + t.win + t.loss \in 0 .. MaxAllUrlChars
    BY <2>1, <2>3, BidLimits
  <2>15. Append(acc.bids, kept) \in Seq(Leaving(lists))
    BY <2>1, <2>10
  <2>16. DebugUrlChars(Append(acc.bids, kept)) = acc.chars + t.win + t.loss
    BY <2>1, <2>9, <2>13
  <2>17. PICK q, x : q = Append(acc.bids, kept) /\ x = acc.chars + t.win + t.loss
    OBVIOUS
  <2>18. [bids |-> q, chars |-> x] \in Answers(lists)
    BY <2>14, <2>15, <2>16, <2>17 DEF Answers
  <2> QED
    BY <1>1, <2>11, <2>17, <2>18
<1> QED
  BY <1>2, <1>3

(* Lists of bids as they are received; contributions are there only if they  *)
(* are limited.                                                              *)
Receivable(lists, limitEvents) ==
  \A i \in DOMAIN lists :
    /\ lists[i] \in Seq(BidType)
    /\ limitEvents \/ \A n \in DOMAIN lists[i] : lists[i][n].events = <<>>

(* All bids of a list join, one after the other.                             *)
LEMMA AddBidsKeepsAnswer ==
  ASSUME NEW lists, NEW limitEvents \in BOOLEAN, Receivable(lists, limitEvents),
         NEW i \in DOMAIN lists, NEW acc \in Answers(lists)
  PROVE  AddBids(acc, lists[i], limitEvents) \in Answers(lists)
<1>1. PICK N \in Nat : N = Len(lists[i])
  BY DEF Receivable
<1>2. PICK V : V = Answers(lists)
  OBVIOUS
<1> DEFINE Turn(k, a) == AddBid(a, lists[i][k], limitEvents)
           Step(f) == [k \in 0 .. N |-> IF k = 0 THEN acc ELSE Turn(k, f[k - 1])]
<1>3. ASSUME NEW k \in 1 .. N, NEW a \in V PROVE Turn(k, a) \in V
  <2>1. lists[i] \in Seq(BidType) /\ k \in DOMAIN lists[i]
    BY <1>1 DEF Receivable
  <2>2. limitEvents \/ lists[i][k].events = <<>>
    BY <2>1 DEF Receivable
  <2> QED
    BY <1>2, <2>1, <2>2, AddBidKeepsAnswer
<1>4. PICK f : f = CHOOSE g : g = Step(g)
  OBVIOUS
<1>5. AddBids(acc, lists[i], limitEvents) = f[N]
  BY <1>1, <1>4, Zenon DEF AddBids
<1>6. PICK z : z = acc
  OBVIOUS
<1>7. z \in V
  BY <1>2, <1>6
<1> HIDE DEF Turn
<1>8. PICK G : G = [p \in (1 .. N) \X V |-> Turn(p[1], p[2])]
  OBVIOUS
<1>9. G \in Turns(N, V)
  BY <1>3, <1>8 DEF Turns
<1>10. ASSUME NEW k \in 1 .. N, NEW a \in V PROVE G[<<k, a>>] = Turn(k, a)
  <2>1. <<k, a>> \in (1 .. N) \X V
    OBVIOUS
  <2> QED
    BY <1>8, <2>1
<1>11. \E g : g = Step(g)
  <2>1. PICK g \in [0 .. N -> V] : g[0] = z /\ \A k \in 1 .. N : g[k] = G[<<k, g[k - 1]>>]
    BY <1>7, <1>9, Loop
  <2>2. ASSUME NEW k \in 1 .. N PROVE g[k] = Turn(k, g[k - 1])
    <3>1. g[k - 1] \in V
      BY <2>1
    <3> QED
      BY <1>10, <2>1, <3>1
  <2>3. g = [k \in 0 .. N |-> g[k]]
    BY <2>1
  <2>4. \A k \in 0 .. N : g[k] = IF k = 0 THEN acc ELSE Turn(k, g[k - 1])
    BY <1>6, <2>1, <2>2
  <2>5. g = Step(g)
    BY <2>3, <2>4
  <2> QED
    BY <2>5
<1>12. f = Step(f)
  BY <1>4, <1>11
<1>13. f[0] \in V /\ \A k \in 1 .. N : f[k - 1] \in V => f[k] = G[<<k, f[k - 1]>>]
  <2>1. f[0] \in V
    BY <1>6, <1>7, <1>12
  <2>2. ASSUME NEW k \in 1 .. N, f[k - 1] \in V PROVE f[k] = G[<<k, f[k - 1]>>]
    <3>1. f[k] = Turn(k, f[k - 1])
      BY <1>12
    <3> QED
      BY <1>10, <2>2, <3>1
  <2> QED
    BY <2>1, <2>2
<1>14. f[N] \in V
  BY <1>9, <1>13, LoopStays
<1> QED
  BY <1>2, <1>5, <1>14

LEMMA NoBidsIsAnswer ==
  ASSUME NEW lists
  PROVE  NoBids \in Answers(lists)
<1>1. PICK q, z : q = <<>> /\ z = 0
  OBVIOUS
<1>2. q \in Seq(Leaving(lists)) /\ z \in 0 .. MaxAllUrlChars /\ DebugUrlChars(q) = z
  BY <1>1, CharsOfNone, BidLimits
<1>3. [bids |-> q, chars |-> z] \in Answers(lists)
  BY <1>2 DEF Answers
<1> QED
  BY <1>1, <1>3 DEF NoBids

(* The bids of all lists.                                                    *)
LEMMA AllBidsAreAnswer ==
  ASSUME conf.igs \in Seq(GroupType), NEW lists, NEW limitEvents \in BOOLEAN,
         Receivable(lists, limitEvents)
  PROVE  AddAllBids(lists, limitEvents) \in Answers(lists)
<1>1. PICK N \in Nat : N = Len(conf.igs)
  OBVIOUS
<1>2. PICK V : V = Answers(lists)
  OBVIOUS
<1> DEFINE Turn(k, a) == IF k \in DOMAIN lists THEN AddBids(a, lists[k], limitEvents) ELSE a
           Step(f) == [k \in 0 .. N |-> IF k = 0 THEN NoBids ELSE Turn(k, f[k - 1])]
<1>3. ASSUME NEW k \in 1 .. N, NEW a \in V PROVE Turn(k, a) \in V
  <2>1. CASE k \in DOMAIN lists
    BY <1>2, <2>1, AddBidsKeepsAnswer
  <2>2. CASE k \notin DOMAIN lists
    BY <2>2
  <2> QED
    BY <2>1, <2>2
<1>4. PICK f : f = CHOOSE g : g = Step(g)
  OBVIOUS
<1>5. AddAllBids(lists, limitEvents) = f[N]
  BY <1>1, <1>4, Zenon DEF AddAllBids
<1>6. PICK z : z = NoBids
  OBVIOUS
<1>7. z \in V
  BY <1>2, <1>6, NoBidsIsAnswer
<1> HIDE DEF Turn
<1>8. PICK G : G = [p \in (1 .. N) \X V |-> Turn(p[1], p[2])]
  OBVIOUS
<1>9. G \in Turns(N, V)
  BY <1>3, <1>8 DEF Turns
<1>10. ASSUME NEW k \in 1 .. N, NEW a \in V PROVE G[<<k, a>>] = Turn(k, a)
  <2>1. <<k, a>> \in (1 .. N) \X V
    OBVIOUS
  <2> QED
    BY <1>8, <2>1
<1>11. \E g : g = Step(g)
  <2>1. PICK g \in [0 .. N -> V] : g[0] = z /\ \A k \in 1 .. N : g[k] = G[<<k, g[k - 1]>>]
    BY <1>7, <1>9, Loop
  <2>2. ASSUME NEW k \in 1 .. N PROVE g[k] = Turn(k, g[k - 1])
    <3>1. g[k - 1] \in V
      BY <2>1
    <3> QED
      BY <1>10, <2>1, <3>1
  <2>3. g = [k \in 0 .. N |-> g[k]]
    BY <2>1
  <2>4. \A k \in 0 .. N : g[k] = IF k = 0 THEN NoBids ELSE Turn(k, g[k - 1])
    BY <1>6, <2>1, <2>2
  <2>5. g = Step(g)
    BY <2>3, <2>4
  <2> QED
    BY <2>5
<1>12. f = Step(f)
  BY <1>4, <1>11
<1>13. f[0] \in V /\ \A k \in 1 .. N : f[k - 1] \in V => f[k] = G[<<k, f[k - 1]>>]
  <2>1. f[0] \in V
    BY <1>6, <1>7, <1>12
  <2>2. ASSUME NEW k \in 1 .. N, f[k - 1] \in V PROVE f[k] = G[<<k, f[k - 1]>>]
    <3>1. f[k] = Turn(k, f[k - 1])
      BY <1>12
    <3> QED
      BY <1>10, <2>2, <3>1
  <2> QED
    BY <2>1, <2>2
<1>14. f[N] \in V
  BY <1>9, <1>13, LoopStays
<1> QED
  BY <1>2, <1>5, <1>14

(* What the properties say of bids that may leave. *)
LEMMA AnswersAreRight ==
  ASSUME NEW lists, NEW a \in Answers(lists)
  PROVE  /\ \A k \in DOMAIN a.bids :
              /\ a.bids[k].win <= MaxUrlChars /\ a.bids[k].loss <= MaxUrlChars
              /\ EventsFit(a.bids[k].events)
              /\ \E i \in DOMAIN lists : \E n \in DOMAIN lists[i] :
                   lists[i][n].made = a.bids[k].made /\ lists[i][n].ig = a.bids[k].ig
         /\ DebugUrlChars(a.bids) <= MaxAllUrlChars
<1>1. a.bids \in Seq(Leaving(lists)) /\ DebugUrlChars(a.bids) = a.chars
      /\ a.chars \in 0 .. MaxAllUrlChars
  BY DEF Answers
<1>2. ASSUME NEW k \in DOMAIN a.bids PROVE a.bids[k] \in Leaving(lists)
  BY <1>1
<1>3. \A b \in Leaving(lists) : b.win \in 0 .. MaxUrlChars /\ b.loss \in 0 .. MaxUrlChars
  BY DEF Leaving, AnswerBid
<1>4. \A b \in Leaving(lists) : b.win <= MaxUrlChars /\ b.loss <= MaxUrlChars
  BY <1>3, BidLimits
<1>5. DebugUrlChars(a.bids) <= MaxAllUrlChars
  BY <1>1, BidLimits
<1> QED
  BY <1>2, <1>4, <1>5 DEF Leaving
-----------------------------------------------------------------------------
(* The inductive invariant. *)

Statuses == {"OK", "CANCELLED", "INVALID_ARGUMENT", "INTERNAL", "UNIMPLEMENTED"}

(* The stages of a GenerateBids call that was not answered. *)
Waiting == {"construct", "execute", "generate", "byob"}

Flags ==
  /\ cancelled \in BOOLEAN /\ readable \in BOOLEAN /\ bound \in BOOLEAN
  /\ deleted \in BOOLEAN /\ backlog \in Statuses \cup {"none"}

(* A call is finished when its stage says so, and never by the constructor   *)
(* if the request could be read.                                             *)
CallPart ==
  /\ Flags
  /\ stage \in Waiting \cup {"finishAgain", "none"}
  /\ ~bound => finish = <<>>
  /\ stage \in {"construct", "execute"} => ~bound
  /\ stage = "construct" => readable
  /\ stage \in Waiting /\ readable => backlog = "none" /\ finish = <<>>
  /\ stage = "generate" => readable
  /\ stage = "byob" => finish = <<>> \/ finish = <<backlog>>
  /\ stage = "finishAgain" =>
       IF bound THEN finish = <<"INTERNAL">> ELSE backlog = "INTERNAL"
  /\ stage = "none" =>
       IF bound THEN \/ \E st \in Statuses : finish = <<st>>
                     \/ finish = <<"INTERNAL", "INTERNAL">>
       ELSE backlog # "none"

(* What the call is, or will be, finished with first. *)
FirstStatus == IF bound THEN finish[1] ELSE backlog

(* A request is that of an interest group at its place, or of all of them. *)
RequestPart ==
  /\ conf \in Configs /\ conf.kind # "pas"
  /\ \A i \in DOMAIN requests :
       /\ i \in DOMAIN conf.igs
       /\ \/ requests[i].id = conf.igs[i].name
          \/ conf.microsoft /\ requests[i].id = kDefaultMultiIGBidRequestName
  /\ DeviceSignalsOfTheGroup

(* What an execution of the binary left for its group. *)
ListOf(i) ==
  /\ groupBids[i] \in Seq(BidType)
  /\ \A b \in DOMAIN groupBids[i] :
       /\ groupBids[i][b].events = <<>>
       /\ i \in DOMAIN requests /\ groupBids[i][b].ig = requests[i].id

Signals == STRING \cup {"none"}
Requested == [id : STRING, groups : Seq(STRING), device : Seq(Signals)]

(* Of a binary call: every group either was not executed, or has reported,   *)
(* or will.  Nothing is outstanding when the call is answered.               *)
TaskPart ==
  /\ tracker \in Tracker /\ SumMatches(tracker) /\ deviceSignals \in Signals
  /\ IsFiniteSet(pending) /\ pending \subseteq DOMAIN requests
  /\ conf.kind = "v8" =>
       tracker = SetNumTasksToTrack(0) /\ pending = {} /\ groupBids = <<>> /\ stage # "byob"
  /\ conf.kind = "byob" =>
       /\ stage # "generate" /\ requests \in Seq(Requested)
       /\ groupBids = <<>> =>
            /\ tracker = SetNumTasksToTrack(0) /\ requests = <<>> /\ pending = {}
            /\ stage \notin Waiting => FirstStatus \in {"CANCELLED", "INTERNAL"}
       /\ groupBids # <<>> =>
            /\ readable /\ conf.igs # <<>> /\ stage # "construct"
            /\ DOMAIN groupBids = DOMAIN conf.igs /\ tracker.num = Len(conf.igs)
            /\ \A i \in DOMAIN groupBids : ListOf(i)
            /\ tracker.pending = Cardinality(pending) + (Len(conf.igs) - Len(requests))
            /\ (stage = "execute") = (Len(requests) < Len(conf.igs))
            /\ stage \notin Waiting =>
                 /\ tracker.pending = 0
                 /\ tracker.count["ERROR"] = tracker.num => FirstStatus = "INTERNAL"

(* Bids are there when the call is answered, and are right from then on. *)
BidsPart ==
  /\ stage \in Waiting => bids = <<>>
  /\ BidsAreAttributed /\ DebugUrlsWithinLimits /\ ContributionsWithinLimit

GenerateInv == CallPart /\ RequestPart /\ TaskPart /\ BidsPart

(* The stages of an app signals call that was not answered. *)
AppWaiting == {"construct", "execute"} \cup App!Outstanding

AppCallPart ==
  /\ Flags /\ conf \in AppConfigs /\ conf.kind = "pas"
  /\ stage \in AppWaiting \cup {"finishAgain", "none", "crashed"}
  /\ finish \in Seq(Statuses)
  /\ Len(finish) <= IF stage \in AppWaiting THEN 1
                    ELSE IF stage = "finishAgain" THEN 2 ELSE 3
  /\ ~bound => finish = <<>>
  /\ stage \in {"construct", "execute"} => ~bound
  /\ stage = "construct" => readable
  /\ readable =>
       /\ stage \in AppWaiting => backlog = "none" /\ finish = <<>>
       /\ stage = "finishAgain" =>
            IF bound THEN finish = <<"INTERNAL">> ELSE backlog = "INTERNAL"
       /\ Len(finish) > 1 => finish = <<"INTERNAL", "INTERNAL">>

(* The form of the signals follows from the way the call takes. *)
SignalsPart ==
  /\ stage \in {"construct", "execute"} => prepared = "" /\ bidInput = {}
  /\ stage = "prepare" => ~App!IsContextualRetrievalRequest
  /\ stage = "ads" => prepared # "" /\ ~App!IsContextualRetrievalRequest
  /\ stage = "metadata" => prepared = "" /\ App!IsContextualRetrievalRequest
  /\ App!SignalsInOneForm /\ App!EgressIsEncoded

AppInv == AppCallPart /\ SignalsPart

(* The calls of both kinds. *)
ServiceInv == IF conf.kind = "pas" THEN AppInv ELSE GenerateInv
-----------------------------------------------------------------------------
(* GenerateBids: the call. *)

Rest == <<cancelled, readable, deleted>>

LEMMA OneStatus ==
  ASSUME NEW st, NEW q, q = <<st>>
  PROVE  Len(q) = 1 /\ q # <<>> /\ q[1] = st
OBVIOUS

LEMMA TwoStatuses ==
  ASSUME NEW S, NEW s \in S, NEW t \in S, NEW q, q = <<s, t>>
  PROVE  q = Append(<<s>>, t)
OBVIOUS

(* What the call with gRPC amounts to. *)
LEMMA CallIsSafe ==
  ASSUME CallPart
  PROVE  DispatchTypeOK /\ GenerateFinishAtMostOnce
<1>1. \/ finish = <<>> \/ \E st : finish = <<st>>
      \/ finish = <<"INTERNAL", "INTERNAL">>
  <2>1. CASE stage = "finishAgain"
    BY <2>1 DEF CallPart
  <2>2. CASE stage = "none"
    BY <2>2 DEF CallPart
  <2>3. CASE stage \in Waiting
    BY <2>3 DEF CallPart, Waiting
  <2> QED
    BY <2>1, <2>2, <2>3 DEF CallPart
<1>2. \/ Len(finish) = 0 \/ Len(finish) = 1
      \/ Len(finish) = 2 /\ finish = <<"INTERNAL", "INTERNAL">>
  BY <1>1
<1> QED
  BY <1>2 DEF CallPart, Flags, DispatchTypeOK, GenerateFinishAtMostOnce

(* Execute, or a callback, finishes the call. *)
LEMMA FinishKeepsCall ==
  ASSUME CallPart, stage \in Waiting, bound => finish = <<>>, NEW st \in Statuses,
         EncryptResponseAndFinish(st), UNCHANGED Rest
  PROVE  /\ CallPart' /\ stage' \in {"none", "finishAgain"}
         /\ FirstStatus' \in {st, "INTERNAL"}
<1>1. PICK s \in Statuses :
        /\ Finish(s) /\ s \in {st, "INTERNAL"}
        /\ stage' = "none" \/ (stage' = "finishAgain" /\ s = "INTERNAL")
  <2>1. "INTERNAL" \in Statuses
    BY DEF Statuses
  <2> QED
    BY <2>1 DEF EncryptResponseAndFinish, FinishWithStatus
<1>2. UNCHANGED <<cancelled, readable, deleted>> /\ Flags
  BY DEF Rest, CallPart
<1>3. CASE bound
  <2>1. finish' = <<s>> /\ bound' = bound /\ backlog' = backlog
    BY <1>1, <1>3 DEF Finish
  <2>2. FirstStatus' = s
    BY <1>3, <2>1 DEF FirstStatus
  <2> QED
    BY <1>1, <1>2, <1>3, <2>1, <2>2 DEF CallPart, Flags, Waiting
<1>4. CASE ~bound
  <2>1. finish' = finish /\ bound' = bound /\ backlog' = s
    BY <1>1, <1>4 DEF Finish
  <2>2. FirstStatus' = s /\ finish = <<>> /\ s # "none"
    BY <1>4, <2>1 DEF FirstStatus, CallPart, Statuses
  <2> QED
    BY <1>1, <1>2, <1>4, <2>1, <2>2 DEF CallPart, Flags, Waiting
<1> QED
  BY <1>2, <1>3, <1>4 DEF Flags

(* The Finish after a failed encryption. *)
LEMMA FinishAgainKeepsCall ==
  ASSUME CallPart, FinishAgain
  PROVE  CallPart' /\ stage' = "none" /\ FirstStatus' = FirstStatus
<1>1. /\ stage = "finishAgain" /\ stage' = "none" /\ Finish("INTERNAL") /\ UNCHANGED Rest
  BY DEF FinishAgain, FinishWithStatus, Rest
<1>2. UNCHANGED <<cancelled, readable, deleted>> /\ Flags
  BY <1>1 DEF Rest, CallPart
<1>3. CASE bound
  <2>1. /\ finish = <<"INTERNAL">> /\ finish' = Append(finish, "INTERNAL")
        /\ bound' = bound /\ backlog' = backlog
    BY <1>1, <1>3 DEF Finish, CallPart
  <2>a. PICK s : s = "INTERNAL"
    OBVIOUS
  <2>b. finish = <<s>> /\ finish' = Append(finish, s)
    BY <2>1, <2>a
  <2>c. finish' = <<s, s>>
    BY <2>b, s \in {s}, TwoStatuses, ZenonT(40)
  <2>2. finish' = <<"INTERNAL", "INTERNAL">>
    BY <2>a, <2>c, Zenon
  <2>3. FirstStatus' = "INTERNAL" /\ FirstStatus = "INTERNAL"
    BY <1>3, <2>1, <2>2 DEF FirstStatus
  <2> QED
    BY <1>1, <1>2, <1>3, <2>1, <2>2, <2>3 DEF CallPart, Flags, Waiting
<1>4. CASE ~bound
  <2>1. finish' = finish /\ bound' = bound /\ backlog' = "INTERNAL" /\ backlog = "INTERNAL"
    BY <1>1, <1>4 DEF Finish, CallPart
  <2>2. FirstStatus' = FirstStatus /\ finish = <<>>
    BY <1>4, <2>1 DEF FirstStatus, CallPart
  <2> QED
    BY <1>1, <1>2, <1>4, <2>1, <2>2 DEF CallPart, Flags, Waiting
<1> QED
  BY <1>2, <1>3, <1>4 DEF Flags

(* What the reactors share. *)
LEMMA SharedKeepsCall ==
  ASSUME CallPart, DecryptRequest \/ Bind \/ OnDone \/ OnCancel
  PROVE  /\ CallPart'
         /\ \/ stage = "construct" /\ stage' = "execute"
            \/ stage' = stage /\ readable' = readable
         /\ stage \notin Waiting => FirstStatus' = FirstStatus
<1>1. CASE DecryptRequest
  <2>1. /\ stage = "construct" /\ stage' = "execute" /\ ~bound /\ finish = <<>>
        /\ backlog = "none" /\ cancelled' = cancelled /\ deleted' = deleted
    BY <1>1 DEF DecryptRequest, CallPart, Waiting
  <2>2. readable' \in BOOLEAN /\ finish' = finish /\ bound' = bound
    BY <1>1, <2>1 DEF DecryptRequest, Finish, callVars
  <2>3. backlog' \in Statuses \cup {"none"} /\ (readable' => backlog' = "none")
    BY <1>1, <2>1 DEF DecryptRequest, Finish, callVars, Statuses
  <2> QED
    BY <2>1, <2>2, <2>3 DEF CallPart, Flags, Waiting
<1>2. CASE Bind
  <2>1. /\ stage \notin {"construct", "execute", "crashed"} /\ ~bound /\ bound' = TRUE
        /\ finish' = (IF backlog = "none" THEN <<>> ELSE <<backlog>>) /\ backlog' = backlog
        /\ cancelled' = cancelled /\ deleted' = deleted /\ readable' = readable /\ stage' = stage
    BY <1>2 DEF Bind
  <2>2. backlog \in Statuses \cup {"none"} /\ Flags
    BY DEF CallPart, Flags
  <2>3. CASE backlog = "none"
    <3>1. finish' = <<>> /\ stage \in Waiting
      BY <2>1, <2>3 DEF CallPart
    <3> QED
      BY <2>1, <2>2, <2>3, <3>1 DEF CallPart, Flags, Waiting
  <2>4. CASE backlog # "none"
    <3>1. finish' = <<backlog>> /\ finish'[1] = backlog /\ backlog \in Statuses
      BY <2>1, <2>2, <2>4
    <3>2. FirstStatus' = FirstStatus
      BY <2>1, <3>1 DEF FirstStatus
    <3>3. \/ stage = "byob" /\ ~readable
          \/ stage = "finishAgain" /\ backlog = "INTERNAL"
          \/ stage = "none"
      BY <2>1, <2>4 DEF CallPart, Waiting
    <3> QED
      BY <2>1, <2>2, <2>4, <3>1, <3>2, <3>3 DEF CallPart, Flags, Waiting
  <2> QED
    BY <2>3, <2>4
<1>3. CASE OnDone \/ OnCancel
  <2>1. /\ stage' = stage /\ readable' = readable /\ bound' = bound /\ finish' = finish
        /\ backlog' = backlog /\ cancelled' \in BOOLEAN /\ deleted' \in BOOLEAN
    BY <1>3 DEF OnDone, OnCancel, callVars, CallPart, Flags
  <2> QED
    BY <2>1 DEF CallPart, Flags, FirstStatus
<1> QED
  BY <1>1, <1>2, <1>3
-----------------------------------------------------------------------------
(* GenerateBids: requests, bids and tasks. *)

(* What the assumptions say of a call. *)
LEMMA ConfigOK ==
  ASSUME conf \in Configs
  PROVE  /\ conf.kind \in {"v8", "byob"} /\ conf.igs \in Seq(GroupType)
         /\ conf.microsoft \in BOOLEAN /\ conf.cancellation \in BOOLEAN
         /\ \A i \in DOMAIN conf.igs : /\ conf.igs[i] \in GroupType
                                       /\ conf.igs[i].name \in STRING
                                       /\ Outputs(conf.igs[i].name) \subseteq OutputType
         /\ Outputs(kDefaultMultiIGBidRequestName) \subseteq OutputType
<1>1. /\ conf.kind \in {"v8", "byob"} /\ conf.igs \in Seq(GroupType)
      /\ conf.microsoft \in BOOLEAN /\ conf.cancellation \in BOOLEAN
      /\ \A i \in DOMAIN conf.igs : Outputs(conf.igs[i].name) \subseteq OutputType
      /\ Outputs(kDefaultMultiIGBidRequestName) \subseteq OutputType
  BY GenerateBidsAssumption
<1>2. ASSUME NEW i \in DOMAIN conf.igs PROVE conf.igs[i] \in GroupType
  BY <1>1
<1>3. \A g \in GroupType : g.name \in STRING
  BY DEF GroupType
<1> QED
  BY <1>1, <1>2, <1>3

(* What a request may return. *)
LEMMA RequestsReturnOutputs ==
  ASSUME RequestPart, NEW i \in DOMAIN requests
  PROVE  /\ Outputs(requests[i].id) \subseteq OutputType
         /\ ~conf.microsoft => requests[i].id \in STRING
<1>1. conf \in Configs /\ i \in DOMAIN conf.igs
  BY DEF RequestPart
<1>2. \/ requests[i].id = conf.igs[i].name
      \/ conf.microsoft /\ requests[i].id = kDefaultMultiIGBidRequestName
  BY DEF RequestPart
<1>3. /\ conf.igs[i].name \in STRING /\ Outputs(conf.igs[i].name) \subseteq OutputType
      /\ Outputs(kDefaultMultiIGBidRequestName) \subseteq OutputType
  BY <1>1, ConfigOK
<1> QED
  BY <1>2, <1>3, Zenon

(* No bids are right, whatever else holds. *)
LEMMA NoBidsAreRight ==
  ASSUME bids' = <<>>
  PROVE  BidsPart'
<1>1. DebugUrlChars(bids') <= MaxAllUrlChars
  <2>1. DebugUrlChars(bids') = 0
    BY CharsOfNone
  <2> QED
    BY <2>1, BidLimits
<1> QED
  BY <1>1 DEF BidsPart, BidsAreAttributed, DebugUrlsWithinLimits, ContributionsWithinLimit

(* Bids of lists that were returned for the requests are right. *)
LEMMA NewBidsAreRight ==
  ASSUME NEW lists, NEW a \in Answers(lists), bids' = a.bids, stage' \notin Waiting,
         ~conf'.microsoft =>
           \A i \in DOMAIN lists : \A n \in DOMAIN lists[i] :
             /\ i \in DOMAIN requests' /\ requests'[i].id = lists[i][n].ig
             /\ conf'.kind = "v8" => /\ returned'[i].status = "OK"
                                     /\ \E b \in DOMAIN returned'[i].bids :
                                          returned'[i].bids[b].made = lists[i][n].made
             /\ conf'.kind = "byob" => \E b \in DOMAIN groupBids'[i] :
                                         groupBids'[i][b].made = lists[i][n].made
  PROVE  BidsPart'
<1>1. /\ \A k \in DOMAIN bids' :
           /\ bids'[k].win <= MaxUrlChars /\ bids'[k].loss <= MaxUrlChars
           /\ EventsFit(bids'[k].events)
           /\ \E i \in DOMAIN lists : \E n \in DOMAIN lists[i] :
                lists[i][n].made = bids'[k].made /\ lists[i][n].ig = bids'[k].ig
      /\ DebugUrlChars(bids') <= MaxAllUrlChars
  <2>1. PICK q : q = a.bids
    OBVIOUS
  <2>2. bids' = q
    BY <2>1
  <2> QED
    BY <2>1, <2>2, AnswersAreRight
<1>2. DebugUrlsWithinLimits'
  BY <1>1 DEF DebugUrlsWithinLimits
<1>3. ContributionsWithinLimit'
  BY <1>1 DEF ContributionsWithinLimit, EventsFit
<1>4. BidsAreAttributed'
  <2>1. SUFFICES ASSUME ~conf'.microsoft, NEW k \in DOMAIN bids'
                 PROVE  \E i \in DOMAIN requests' :
                          /\ requests'[i].id = bids'[k].ig
                          /\ conf'.kind = "v8" => /\ returned'[i].status = "OK"
                                                  /\ \E b \in DOMAIN returned'[i].bids :
                                                       returned'[i].bids[b].made = bids'[k].made
                          /\ conf'.kind = "byob" => \E b \in DOMAIN groupBids'[i] :
                                                      groupBids'[i][b].made = bids'[k].made
    BY DEF BidsAreAttributed
  <2>a. PICK i \in DOMAIN lists : \E n \in DOMAIN lists[i] :
               lists[i][n].made = bids'[k].made /\ lists[i][n].ig = bids'[k].ig
    BY <1>1
  <2>2. PICK n \in DOMAIN lists[i] :
               lists[i][n].made = bids'[k].made /\ lists[i][n].ig = bids'[k].ig
    BY <2>a
  <2>3. PICK m, g : m = lists[i][n].made /\ g = lists[i][n].ig
    OBVIOUS
  <2>4. m = bids'[k].made /\ g = bids'[k].ig
    BY <2>2, <2>3
  <2>5. /\ i \in DOMAIN requests' /\ requests'[i].id = g
        /\ conf'.kind = "v8" => /\ returned'[i].status = "OK"
                                /\ \E b \in DOMAIN returned'[i].bids :
                                     returned'[i].bids[b].made = m
        /\ conf'.kind = "byob" => \E b \in DOMAIN groupBids'[i] :
                                    groupBids'[i][b].made = m
    BY <2>1, <2>3, Zenon
  <2> QED
    BY <2>4, <2>5, Zenon
<1> QED
  BY <1>2, <1>3, <1>4 DEF BidsPart

(* The requests of a batch are those of their groups. *)
LEMMA DispatchedRequests ==
  ASSUME conf \in Configs, conf' = conf, conf.kind = "v8", conf.igs # <<>>,
         requests' = DispatchRequests(conf.igs)
  PROVE  RequestPart'
<1>1. /\ conf.igs \in Seq(GroupType) /\ conf.microsoft \in BOOLEAN
      /\ \A i \in DOMAIN conf.igs : conf.igs[i] \in GroupType
  BY ConfigOK
<1>2. CASE conf.microsoft
  <2>1. PICK r : r = MicrosoftPopulateMultiIGBidRequest(conf.igs)
    OBVIOUS
  <2>2. requests' = <<r>> /\ DOMAIN requests' = {1} /\ requests'[1] = r
    BY <1>2, <2>1 DEF DispatchRequests
  <2>3. 1 \in DOMAIN conf.igs
    BY <1>1
  <2>4. /\ r.id = kDefaultMultiIGBidRequestName
        /\ r.groups = [i \in {j \in DOMAIN conf.igs : conf.igs[j].serializes} |-> conf.igs[i].name]
        /\ r.device = [i \in DOMAIN conf.igs |-> MakeBrowserSignalsForScript(conf.igs[i])]
    BY <2>1 DEF MicrosoftPopulateMultiIGBidRequest
  <2>5. ASSUME NEW n \in DOMAIN r.groups
        PROVE  /\ n \in DOMAIN r.device /\ n \in DOMAIN conf.igs
               /\ conf.igs[n].name = r.groups[n]
               /\ r.device[n] = OwnDeviceSignals(conf.igs[n])
    BY <2>4 DEF MakeBrowserSignalsForScript, OwnDeviceSignals
  <2>6. DeviceSignalsOfTheGroup'
    BY <2>2, <2>5 DEF DeviceSignalsOfTheGroup, OwnDeviceSignals
  <2> QED
    BY <1>2, <2>2, <2>3, <2>4, <2>6 DEF RequestPart
<1>3. CASE ~conf.microsoft
  <2>1. requests' = [i \in {j \in DOMAIN conf.igs : conf.igs[j].serializes} |->
                       BuildGenerateBidRequest(conf.igs[i])]
    BY <1>3 DEF DispatchRequests
  <2>2. ASSUME NEW i \in DOMAIN requests'
        PROVE  /\ i \in DOMAIN conf.igs /\ requests'[i].id = conf.igs[i].name
               /\ requests'[i].groups = <<conf.igs[i].name>>
               /\ requests'[i].device = <<MakeBrowserSignalsForScript(conf.igs[i])>>
    BY <2>1 DEF BuildGenerateBidRequest
  <2>3. ASSUME NEW i \in DOMAIN requests', NEW n \in DOMAIN requests'[i].groups
        PROVE  /\ n \in DOMAIN requests'[i].device /\ i \in DOMAIN conf.igs
               /\ conf.igs[i].name = requests'[i].groups[n]
               /\ requests'[i].device[n] = OwnDeviceSignals(conf.igs[i])
    <3>1. n = 1
      BY <2>2, <2>3
    <3> QED
      BY <2>2, <3>1 DEF MakeBrowserSignalsForScript, OwnDeviceSignals
  <2>4. DeviceSignalsOfTheGroup'
    BY <2>3 DEF DeviceSignalsOfTheGroup, OwnDeviceSignals
  <2> QED
    BY <2>2, <2>4 DEF RequestPart
<1> QED
  BY <1>2, <1>3

(* The bids of a response are bids, and, but for the Microsoft build, those  *)
(* of the group.                                                             *)
LEMMA BidsOfResponseAreBids ==
  ASSUME NEW r, NEW out \in OutputType, conf.microsoft \in BOOLEAN,
         ~conf.microsoft => r.id \in STRING,
         NEW q, q = BidsOfResponse(r, out)
  PROVE  /\ q \in Seq(BidType)
         /\ \A n \in DOMAIN q :
              /\ out.status = "OK" /\ n \in DOMAIN out.bids
              /\ q[n].made = out.bids[n].made
              /\ ~conf.microsoft => q[n].ig = r.id
<1>1. out.bids \in Seq(BidType)
  BY DEF OutputType
<1>2. CASE out.status # "OK"
  BY <1>2 DEF BidsOfResponse
<1>3. CASE out.status = "OK"
  <2> DEFINE F(b) == IF ~conf.microsoft THEN [b EXCEPT !.ig = r.id]
                     ELSE [b EXCEPT !.parses = @ /\ ~(b.ig = "" /\
                               r.id = kDefaultMultiIGBidRequestName)]
  <2>1. q = [k \in DOMAIN out.bids |-> F(out.bids[k])]
    BY <1>3 DEF BidsOfResponse
  <2>2. ASSUME NEW b \in BidType
        PROVE  F(b) \in BidType /\ F(b).made = b.made /\ (~conf.microsoft => F(b).ig = r.id)
    <3>1. CASE ~conf.microsoft
      BY <3>1 DEF BidType
    <3>2. CASE conf.microsoft
      <4>1. PICK p \in BOOLEAN : p = (b.parses /\ ~(b.ig = "" /\ r.id = kDefaultMultiIGBidRequestName))
        BY DEF BidType
      <4>2. F(b) = [b EXCEPT !.parses = p]
        BY <3>2, <4>1
      <4> QED
        BY <3>2, <4>2 DEF BidType
    <3> QED
      BY <3>1, <3>2
  <2> HIDE DEF F
  <2>3. PICK N \in Nat : N = Len(out.bids) /\ DOMAIN out.bids = 1 .. N
    BY <1>1
  <2>4. \A k \in 1 .. N : out.bids[k] \in BidType
    BY <1>1, <2>3
  <2>5. q \in [1 .. N -> BidType] /\ \A k \in 1 .. N : q[k] = F(out.bids[k])
    BY <2>1, <2>2, <2>3, <2>4
  <2>6. q \in Seq(BidType) /\ DOMAIN q = 1 .. N
    BY <2>5
  <2> QED
    BY <1>3, <2>2, <2>3, <2>4, <2>5, <2>6
<1> QED
  BY <1>2, <1>3

(* The bid that a binary left for a group, without contributions. *)
LEMMA ParsedBidsAreBids ==
  ASSUME NEW r, r.id \in STRING, NEW out \in OutputType,
         NEW q, q = ParseProtectedAudienceBids(r, out)
  PROVE  /\ q \in Seq(BidType)
         /\ \A n \in DOMAIN q : q[n].events = <<>> /\ q[n].ig = r.id
<1>1. out.bids \in Seq(BidType)
  BY DEF OutputType
<1>2. CASE out.bids = <<>>
  BY <1>2 DEF ParseProtectedAudienceBids
<1>3. CASE out.bids # <<>>
  <2>1. PICK h \in BidType : h = Head(out.bids)
    BY <1>1, <1>3
  <2>2. PICK w \in Nat, l \in Nat : /\ w = IF conf.debug THEN h.win ELSE 0
                                    /\ l = IF conf.debug THEN h.loss ELSE 0
    BY DEF BidType
  <2>3. PICK e : e = <<>>
    OBVIOUS
  <2>4. e \in Seq(STRING)
    BY <2>3
  <2>5. PICK t \in BOOLEAN : t = TRUE
    OBVIOUS
  <2>6. PICK b : b = [h EXCEPT !.ig = r.id, !.parses = t, !.events = e, !.win = w, !.loss = l]
    OBVIOUS
  <2>7. b \in BidType /\ b.ig = r.id /\ b.events = e
    BY <2>4, <2>6 DEF BidType
  <2>8. q = <<b>>
    BY <1>3, <2>1, <2>2, <2>3, <2>5, <2>6 DEF ParseProtectedAudienceBids
  <2>9. q \in Seq(BidType) /\ DOMAIN q = {1} /\ q[1] = b
    BY <2>7, <2>8
  <2> QED
    BY <2>3, <2>7, <2>9
<1> QED
  BY <1>2, <1>3
-----------------------------------------------------------------------------
(* GenerateBids: the steps. *)

(* Execute of a batch. *)
LEMMA ExecuteKeepsInv ==
  ASSUME GenerateInv, Execute
  PROVE  GenerateInv'
<1>1. /\ conf.kind = "v8" /\ stage = "execute" /\ bids = <<>> /\ conf \in Configs
      /\ CallPart /\ RequestPart /\ TaskPart /\ ~bound
  BY DEF Execute, GenerateInv, BidsPart, Waiting, RequestPart, CallPart
<1>2. /\ UNCHANGED <<conf, deviceSignals, tracker, pending, groupBids, bids>> /\ UNCHANGED Rest
      /\ UNCHANGED <<cancelled, readable, deleted>>
  BY DEF Execute, Rest
<1>3. \/ \E st \in Statuses : EncryptResponseAndFinish(st)
      \/ stage' = "generate" /\ UNCHANGED callVars /\ readable
  <2>1. {"CANCELLED", "INVALID_ARGUMENT", "OK", "INTERNAL"} \subseteq Statuses
    BY DEF Statuses
  <2>2. Groups # <<>> => readable
    BY DEF Groups
  <2> QED
    BY <2>1, <2>2, Zenon DEF Execute
<1>4. CallPart' /\ stage' \in {"none", "finishAgain", "generate"}
  <2>1. CASE \E st \in Statuses : EncryptResponseAndFinish(st)
    <3>1. PICK st \in Statuses : EncryptResponseAndFinish(st)
      BY <2>1
    <3> QED
      BY <1>1, <1>2, <3>1, FinishKeepsCall DEF Waiting
  <2>2. CASE stage' = "generate" /\ UNCHANGED callVars /\ readable
    BY <1>1, <1>2, <2>2 DEF CallPart, Flags, Waiting, callVars
  <2> QED
    BY <1>3, <2>1, <2>2
<1>5. RequestPart'
  <2>1. CASE requests' = requests
    BY <1>1, <1>2, <2>1 DEF RequestPart, DeviceSignalsOfTheGroup, OwnDeviceSignals
  <2>2. CASE Groups # <<>> /\ requests' = DispatchRequests(Groups)
    <3>1. Groups = conf.igs
      BY <2>2 DEF Groups
    <3> QED
      BY <1>1, <1>2, <2>2, <3>1, DispatchedRequests
  <2> QED
    BY <2>1, <2>2 DEF Execute
<1>6. TaskPart'
  <2>1. /\ tracker \in Tracker /\ SumMatches(tracker) /\ deviceSignals \in Signals
        /\ tracker = SetNumTasksToTrack(0) /\ pending = {} /\ groupBids = <<>>
    BY <1>1 DEF TaskPart
  <2>2. IsFiniteSet({})
    BY FS_EmptySet
  <2> QED
    BY <1>1, <1>2, <1>4, <2>1, <2>2 DEF TaskPart
<1>7. BidsPart'
  BY <1>1, <1>2, NoBidsAreRight
<1> QED
  BY <1>4, <1>5, <1>6, <1>7 DEF GenerateInv

(* The answer of a batch. *)
LEMMA BatchDoneKeepsInv ==
  ASSUME GenerateInv, BatchDone
  PROVE  GenerateInv'
<1>1. /\ stage = "generate" /\ conf.kind = "v8" /\ readable /\ finish = <<>>
      /\ CallPart /\ RequestPart /\ TaskPart /\ conf \in Configs
  <2>1. conf \in Configs /\ RequestPart /\ TaskPart /\ CallPart /\ stage = "generate"
    BY DEF GenerateInv, RequestPart, BatchDone
  <2>2. conf.kind = "v8"
    BY <2>1, ConfigOK DEF TaskPart
  <2> QED
    BY <2>1, <2>2 DEF CallPart, Waiting
<1>2. /\ UNCHANGED <<conf, requests, deviceSignals, tracker, pending, groupBids>>
      /\ UNCHANGED Rest
  BY DEF BatchDone, Rest
<1>3. CallPart' /\ stage' \in {"none", "finishAgain"}
  <2>1. EncryptResponseAndFinish("OK") /\ "OK" \in Statuses /\ stage \in Waiting
    BY <1>1 DEF BatchDone, Statuses, Waiting
  <2> QED
    BY <1>1, <1>2, <2>1, FinishKeepsCall
<1>4. PICK outs : /\ DOMAIN outs = DOMAIN requests
                  /\ \A i \in DOMAIN requests : outs[i] \in Outputs(requests[i].id)
                  /\ returned' = outs /\ bids' = GenerateBidsCallback(outs).bids
  BY DEF BatchDone
<1>5. PICK lists : lists = [i \in DOMAIN outs |-> BidsOfResponse(requests[i], outs[i])]
  OBVIOUS
<1>6. PICK a : a = AddAllBids(lists, TRUE)
  OBVIOUS
<1>7. bids' = a.bids
  BY <1>4, <1>5, <1>6 DEF GenerateBidsCallback
<1>8. ASSUME NEW i \in DOMAIN lists
      PROVE  /\ i \in DOMAIN requests /\ lists[i] \in Seq(BidType)
             /\ \A n \in DOMAIN lists[i] :
                  /\ outs[i].status = "OK" /\ n \in DOMAIN outs[i].bids
                  /\ lists[i][n].made = outs[i].bids[n].made
                  /\ ~conf.microsoft => lists[i][n].ig = requests[i].id
  <2>1. i \in DOMAIN requests /\ lists[i] = BidsOfResponse(requests[i], outs[i])
    BY <1>4, <1>5
  <2>2. /\ Outputs(requests[i].id) \subseteq OutputType
        /\ ~conf.microsoft => requests[i].id \in STRING
    BY <1>1, <2>1, RequestsReturnOutputs
  <2>3. PICK out \in OutputType : out = outs[i]
    BY <1>4, <2>1, <2>2
  <2>4. PICK r, q : r = requests[i] /\ q = lists[i]
    OBVIOUS
  <2>5. q = BidsOfResponse(r, out) /\ (~conf.microsoft => r.id \in STRING)
        /\ conf.microsoft \in BOOLEAN
    BY <1>1, <2>1, <2>2, <2>3, <2>4, ConfigOK
  <2>6. /\ q \in Seq(BidType)
        /\ \A n \in DOMAIN q :
             /\ out.status = "OK" /\ n \in DOMAIN out.bids
             /\ q[n].made = out.bids[n].made
             /\ ~conf.microsoft => q[n].ig = r.id
    BY <2>5, BidsOfResponseAreBids
  <2> QED
    BY <2>1, <2>3, <2>4, <2>6
<1>9. a \in Answers(lists)
  <2>1. Receivable(lists, TRUE)
    BY <1>8 DEF Receivable
  <2>2. conf.igs \in Seq(GroupType) /\ TRUE \in BOOLEAN
    BY <1>1, ConfigOK
  <2> QED
    BY <1>6, <2>1, <2>2, AllBidsAreAnswer
<1>10. BidsPart'
  <2>1. stage' \notin Waiting
    BY <1>3 DEF Waiting
  <2>2. ASSUME ~conf'.microsoft, NEW i \in DOMAIN lists, NEW n \in DOMAIN lists[i]
        PROVE  /\ i \in DOMAIN requests' /\ requests'[i].id = lists[i][n].ig
               /\ conf'.kind = "v8" => /\ returned'[i].status = "OK"
                                       /\ \E b \in DOMAIN returned'[i].bids :
                                            returned'[i].bids[b].made = lists[i][n].made
               /\ conf'.kind = "byob" => \E b \in DOMAIN groupBids'[i] :
                                           groupBids'[i][b].made = lists[i][n].made
    <3>1. conf' = conf /\ requests' = requests /\ returned' = outs /\ conf'.kind # "byob"
      BY <1>1, <1>2, <1>4
    <3>2. /\ i \in DOMAIN requests /\ outs[i].status = "OK" /\ n \in DOMAIN outs[i].bids
          /\ lists[i][n].made = outs[i].bids[n].made /\ lists[i][n].ig = requests[i].id
      BY <1>8, <2>2, <3>1
    <3>3. PICK m : m = lists[i][n].made
      OBVIOUS
    <3> QED
      BY <3>1, <3>2, Zenon
  <2> QED
    BY <1>7, <1>9, <2>1, <2>2, NewBidsAreRight
<1>11. RequestPart'
  BY <1>1, <1>2 DEF RequestPart, DeviceSignalsOfTheGroup, OwnDeviceSignals
<1>12. TaskPart'
  BY <1>1, <1>2, <1>3 DEF TaskPart
<1> QED
  BY <1>3, <1>10, <1>11, <1>12 DEF GenerateInv

(* The batch of a cancelled call. *)
LEMMA BatchCancelledKeepsInv ==
  ASSUME GenerateInv, BatchCancelled
  PROVE  GenerateInv'
<1>1. /\ stage = "generate" /\ conf.kind = "v8" /\ readable /\ finish = <<>> /\ bids = <<>>
      /\ CallPart /\ RequestPart /\ TaskPart /\ conf \in Configs
  <2>1. /\ conf \in Configs /\ RequestPart /\ TaskPart /\ CallPart /\ stage = "generate"
        /\ BidsPart
    BY DEF GenerateInv, RequestPart, BatchCancelled
  <2>2. conf.kind = "v8"
    BY <2>1, ConfigOK DEF TaskPart
  <2> QED
    BY <2>1, <2>2 DEF CallPart, Waiting, BidsPart
<1>2. /\ UNCHANGED <<conf, requests, deviceSignals, tracker, pending, groupBids, bids>>
      /\ UNCHANGED Rest
  BY DEF BatchCancelled, Rest, bidVars
<1>3. CallPart' /\ stage' \in {"none", "finishAgain"}
  <2>1. /\ EncryptResponseAndFinish("CANCELLED") /\ "CANCELLED" \in Statuses
        /\ stage \in Waiting
    BY <1>1 DEF BatchCancelled, Statuses, Waiting
  <2> QED
    BY <1>1, <1>2, <2>1, FinishKeepsCall
<1>4. RequestPart'
  BY <1>1, <1>2 DEF RequestPart, DeviceSignalsOfTheGroup, OwnDeviceSignals
<1>5. TaskPart'
  BY <1>1, <1>2, <1>3 DEF TaskPart
<1> QED
  BY <1>1, <1>2, <1>3, <1>4, <1>5, NoBidsAreRight DEF GenerateInv
-----------------------------------------------------------------------------
(* GenerateBids: the tasks of a binary call. *)

(* A binary call starts its loop, or ends. *)
LEMMA ExecuteBinaryKeepsInv ==
  ASSUME GenerateInv, ExecuteBinary
  PROVE  GenerateInv'
<1>1. /\ conf.kind = "byob" /\ stage = "execute" /\ groupBids = <<>> /\ bids = <<>>
      /\ CallPart /\ RequestPart /\ TaskPart /\ conf \in Configs /\ ~bound
  BY DEF ExecuteBinary, GenerateInv, BidsPart, Waiting, RequestPart, CallPart
<1>2. /\ UNCHANGED <<conf, requests, deviceSignals, pending, bids>> /\ UNCHANGED Rest
      /\ UNCHANGED <<cancelled, readable, deleted>>
  BY DEF ExecuteBinary, Rest
<1>3. /\ tracker = SetNumTasksToTrack(0) /\ requests = <<>> /\ pending = {}
      /\ tracker \in Tracker /\ SumMatches(tracker) /\ deviceSignals \in Signals
      /\ IsFiniteSet(pending) /\ requests \in Seq(Requested)
  BY <1>1 DEF TaskPart
<1>4. RequestPart' /\ BidsPart'
  BY <1>1, <1>2, NoBidsAreRight DEF RequestPart, DeviceSignalsOfTheGroup, OwnDeviceSignals
<1>5. CASE EncryptResponseAndFinish("CANCELLED") /\ UNCHANGED <<tracker, groupBids>>
  <2>1. /\ CallPart' /\ stage' \in {"none", "finishAgain"}
        /\ FirstStatus' \in {"CANCELLED", "INTERNAL"}
    BY <1>1, <1>2, <1>5, FinishKeepsCall DEF Waiting, Statuses
  <2>2. TaskPart'
    BY <1>1, <1>2, <1>3, <1>5, <2>1 DEF TaskPart
  <2> QED
    BY <1>4, <2>1, <2>2 DEF GenerateInv
<1>6. CASE /\ tracker' = SetNumTasksToTrack(Len(Groups))
           /\ groupBids' = [i \in DOMAIN Groups |-> <<>>]
           /\ stage' = IF Groups = <<>> THEN "byob" ELSE "execute"
           /\ UNCHANGED callVars
  <2>1. Groups \in Seq(GroupType) /\ Len(Groups) \in Nat
    BY <1>1, ConfigOK DEF Groups
  <2>2. CallPart'
    BY <1>1, <1>2, <1>6 DEF CallPart, Flags, Waiting, callVars
  <2>3. tracker' \in Tracker /\ SumMatches(tracker')
    BY <1>6, <2>1, FreshTracker
  <2>4. CASE Groups = <<>>
    <3>1. groupBids' = <<>> /\ tracker' = SetNumTasksToTrack(0) /\ stage' = "byob"
      BY <1>6, <2>4
    <3>2. TaskPart'
      BY <1>1, <1>2, <1>3, <2>3, <3>1 DEF TaskPart, Waiting
    <3> QED
      BY <1>4, <2>2, <3>2 DEF GenerateInv
  <2>5. CASE Groups # <<>>
    <3>1. readable /\ Groups = conf.igs /\ conf.igs # <<>> /\ stage' = "execute"
      BY <1>6, <2>5 DEF Groups
    <3>2. Len(conf.igs) > 0 /\ 1 \in DOMAIN conf.igs
      <4>1. PICK s \in Seq(GroupType) : s = conf.igs
        BY <2>1, <3>1
      <4>2. Len(s) > 0 /\ 1 \in DOMAIN s
        BY <3>1, <4>1
      <4> QED
        BY <4>1, <4>2
    <3>3. /\ DOMAIN groupBids' = DOMAIN conf.igs
          /\ \A i \in DOMAIN groupBids' : groupBids'[i] = <<>>
      BY <1>6, <3>1
    <3>4. groupBids' # <<>>
      BY <3>2, <3>3
    <3>5. tracker'.num = Len(conf.igs) /\ tracker'.pending = Len(conf.igs)
      BY <1>6, <3>1 DEF SetNumTasksToTrack
    <3>6. \A i \in DOMAIN groupBids' : ListOf(i)'
      <4>1. \A q : q = <<>> => q \in Seq(BidType) /\ DOMAIN q = {}
        OBVIOUS
      <4> QED
        BY <3>3, <4>1, Zenon DEF ListOf
    <3>7. Cardinality(pending') = 0 /\ Len(requests') = 0
      BY <1>2, <1>3, FS_EmptySet
    <3>8. TaskPart'
      BY <1>1, <1>2, <1>3, <2>1, <2>3, <3>1, <3>2, <3>3, <3>4, <3>5, <3>6, <3>7
      DEF TaskPart, Waiting
    <3> QED
      BY <1>4, <2>2, <3>8 DEF GenerateInv
  <2> QED
    BY <2>4, <2>5
<1> QED
  BY <1>5, <1>6 DEF ExecuteBinary

(* What the tasks of a binary call amount to while it runs. *)
LEMMA RunningTasks ==
  ASSUME GenerateInv, conf.kind = "byob", groupBids # <<>>
  PROVE  /\ conf \in Configs /\ conf.igs \in Seq(GroupType) /\ conf.igs # <<>> /\ readable
         /\ requests \in Seq(Requested) /\ IsFiniteSet(pending)
         /\ Len(requests) \in Nat /\ Len(conf.igs) \in Nat \ {0}
         /\ Len(requests) <= Len(conf.igs) /\ Cardinality(pending) \in Nat
         /\ tracker \in Tracker /\ tracker.pending \in Nat /\ SumMatches(tracker)
         /\ tracker.num = Len(conf.igs)
         /\ tracker.pending = Cardinality(pending) + (Len(conf.igs) - Len(requests))
         /\ stage \in Waiting => finish = <<>>
         /\ stage \in Waiting => stage \in {"execute", "byob"}
         /\ stage \in Waiting => bids = <<>>
<1>1. /\ conf \in Configs /\ TaskPart /\ CallPart /\ BidsPart /\ RequestPart
  BY DEF GenerateInv, RequestPart
<1>2. /\ readable /\ conf.igs # <<>> /\ requests \in Seq(Requested) /\ IsFiniteSet(pending)
      /\ tracker \in Tracker /\ SumMatches(tracker) /\ tracker.num = Len(conf.igs)
      /\ tracker.pending = Cardinality(pending) + (Len(conf.igs) - Len(requests))
      /\ stage \in Waiting => stage \in {"execute", "byob"}
  BY <1>1 DEF TaskPart, Waiting
<1>3. conf.igs \in Seq(GroupType)
  BY <1>1, ConfigOK
<1>4. stage \in Waiting => finish = <<>> /\ bids = <<>>
  BY <1>1, <1>2 DEF CallPart, BidsPart
<1>5. Cardinality(pending) \in Nat
  BY <1>2, FS_CardinalityType
<1>6. tracker.pending \in Nat
  BY <1>2 DEF Tracker
<1>7. Len(requests) <= Len(conf.igs)
  <2>1. \A i \in DOMAIN requests : i \in DOMAIN conf.igs
    BY <1>1 DEF RequestPart
  <2>2. Len(requests) # 0 => Len(requests) \in DOMAIN requests
    BY <1>2
  <2> QED
    BY <1>2, <1>3, <2>1, <2>2
<1>8. Len(conf.igs) \in Nat \ {0} /\ Len(requests) \in Nat
  BY <1>2, <1>3
<1> QED
  BY <1>1, <1>2, <1>3, <1>4, <1>5, <1>6, <1>7, <1>8

(* A report: the last one ends the call. *)
LEMMA ReportKeepsInv ==
  ASSUME GenerateInv, conf.kind = "byob", groupBids # <<>>, stage \in {"execute", "byob"},
         tracker.pending > 0, NEW status \in TaskStatus, NEW gb,
         DOMAIN gb = DOMAIN groupBids,
         \A i \in DOMAIN gb :
           /\ gb[i] \in Seq(BidType)
           /\ \A b \in DOMAIN gb[i] :
                /\ gb[i][b].events = <<>>
                /\ i \in DOMAIN requests' /\ gb[i][b].ig = requests'[i].id,
         NEW after \in {"execute", "byob"}, after = "execute" => stage = "execute",
         Report(status, gb, after), UNCHANGED Rest, conf' = conf, RequestPart',
         requests' \in Seq(Requested), deviceSignals' \in Signals,
         IsFiniteSet(pending'), pending' \subseteq DOMAIN requests',
         tracker.pending - 1 = Cardinality(pending') + (Len(conf.igs) - Len(requests')),
         (after = "execute") = (Len(requests') < Len(conf.igs))
  PROVE  GenerateInv'
<1>1. /\ conf \in Configs /\ conf.igs \in Seq(GroupType) /\ conf.igs # <<>> /\ readable
      /\ Len(conf.igs) \in Nat \ {0} /\ tracker \in Tracker /\ tracker.pending \in Nat
      /\ SumMatches(tracker) /\ tracker.num = Len(conf.igs)
      /\ finish = <<>> /\ bids = <<>> /\ stage \in Waiting /\ CallPart /\ TaskPart
  BY RunningTasks DEF GenerateInv, Waiting
<1>2. PICK t : t = TaskCompleted(tracker, status)
  OBVIOUS
<1>3. /\ t \in Tracker /\ SumMatches(t) /\ t.num = Len(conf.igs)
      /\ t.pending = tracker.pending - 1
  BY <1>1, <1>2, CountedTracker
<1>4. /\ tracker' = t /\ groupBids' = gb
      /\ IF IsLastResponse(t) THEN OnAllBidsDone(t, gb)
         ELSE stage' = after /\ UNCHANGED <<callVars, bids>>
  BY <1>2 DEF Report
<1>5. /\ DOMAIN gb = DOMAIN conf.igs /\ DOMAIN conf.igs # {} /\ gb # <<>> /\ readable'
  <2>1. DOMAIN gb = DOMAIN conf.igs
    BY <1>1 DEF TaskPart
  <2>2. DOMAIN conf.igs # {}
    <3>1. 1 \in DOMAIN conf.igs
      BY <1>1
    <3> QED
      BY <3>1, Zenon
  <2> QED
    BY <1>1, <2>1, <2>2 DEF Rest
<1>6. \A i \in DOMAIN groupBids' : ListOf(i)'
  BY <1>4 DEF ListOf
<1>7. CASE ~IsLastResponse(t)
  <2>1. stage' = after /\ UNCHANGED callVars /\ bids' = <<>>
    BY <1>1, <1>4, <1>7
  <2>2. CallPart'
    BY <1>1, <2>1 DEF CallPart, Flags, Waiting, callVars, Rest
  <2>3. TaskPart'
    BY <1>1, <1>3, <1>4, <1>5, <1>6, <2>1 DEF TaskPart, Waiting
  <2> QED
    BY <2>1, <2>2, <2>3, NoBidsAreRight DEF GenerateInv
<1>8. CASE IsLastResponse(t)
  <2>1. t.pending = 0 /\ OnAllBidsDone(t, gb)
    BY <1>4, <1>8 DEF IsLastResponse
  <2>2. PICK st \in Statuses :
          /\ EncryptResponseAndFinish(st)
          /\ ~AnyTaskSuccessfullyCompleted(t) => st = "INTERNAL"
          /\ bids' = bids \/ bids' = AddAllBids(gb, FALSE).bids
    <3>1. {"CANCELLED", "OK", "INTERNAL"} \subseteq Statuses
      BY DEF Statuses
    <3> QED
      BY <2>1, <3>1, Zenon DEF OnAllBidsDone
  <2>3. /\ CallPart' /\ stage' \in {"none", "finishAgain"}
        /\ FirstStatus' \in {st, "INTERNAL"}
    BY <1>1, <2>2, FinishKeepsCall
  <2>4. t.count["ERROR"] = t.num => FirstStatus' = "INTERNAL"
    <3>1. ASSUME t.count["ERROR"] = t.num PROVE ~AnyTaskSuccessfullyCompleted(t)
      <4>1. t.count \in [TaskStatus -> Nat]
        BY <1>3 DEF Tracker
      <4>2. t.num \in Nat \ {0}
        BY <1>1, <1>3
      <4>3. PICK su \in Nat, em \in Nat, sk \in Nat, er \in Nat, ca \in Nat :
              /\ su = t.count["SUCCESS"] /\ em = t.count["EMPTY_RESPONSE"]
              /\ sk = t.count["SKIPPED"] /\ er = t.count["ERROR"]
              /\ ca = t.count["CANCELLED"]
        BY <4>1 DEF TaskStatus
      <4>4. t.num = 0 + su + em + sk + er + ca /\ er = t.num
        BY <1>3, <2>1, <3>1, <4>3 DEF SumMatches
      <4>5. su = 0 /\ em = 0 /\ sk = 0 /\ er # 0
        BY <4>2, <4>4
      <4> QED
        BY <4>3, <4>5 DEF AnyTaskSuccessfullyCompleted
    <3> QED
      BY <2>2, <2>3, <3>1
  <2>5. /\ Len(requests') = Len(conf.igs)
    <3>1. Len(requests') \in Nat /\ Cardinality(pending') \in Nat
      BY FS_CardinalityType
    <3>2. after = "execute" \/ ~(Len(requests') < Len(conf.igs))
      OBVIOUS
    <3>3. Cardinality(pending') + (Len(conf.igs) - Len(requests')) = 0
      BY <1>3, <2>1
    <3>4. \A i \in DOMAIN requests' : i \in DOMAIN conf.igs
      BY DEF RequestPart
    <3>5. Len(requests') # 0 => Len(requests') \in DOMAIN requests'
      OBVIOUS
    <3>6. Len(requests') <= Len(conf.igs)
      BY <1>1, <3>1, <3>4, <3>5
    <3> QED
      BY <1>1, <3>1, <3>3, <3>6
  <2>6. TaskPart'
    BY <1>1, <1>3, <1>4, <1>5, <1>6, <2>1, <2>3, <2>4, <2>5 DEF TaskPart, Waiting
  <2>7. BidsPart'
    <3>1. CASE bids' = bids
      BY <1>1, <3>1, NoBidsAreRight
    <3>2. CASE bids' = AddAllBids(gb, FALSE).bids
      <4>1. Receivable(gb, FALSE)
        BY DEF Receivable
      <4>2. PICK a : a = AddAllBids(gb, FALSE)
        OBVIOUS
      <4>3. a \in Answers(gb) /\ bids' = a.bids
        BY <1>1, <3>2, <4>1, <4>2, AllBidsAreAnswer
      <4>4. stage' \notin Waiting
        BY <2>3 DEF Waiting
      <4>5. ASSUME NEW i \in DOMAIN gb, NEW n \in DOMAIN gb[i]
            PROVE  /\ i \in DOMAIN requests' /\ requests'[i].id = gb[i][n].ig
                   /\ conf'.kind # "v8"
                   /\ \E b \in DOMAIN groupBids'[i] : groupBids'[i][b].made = gb[i][n].made
        BY <1>4, Zenon
      <4> QED
        BY <4>3, <4>4, <4>5, NewBidsAreRight, Zenon
    <3> QED
      BY <2>2, <3>1, <3>2
  <2> QED
    BY <2>3, <2>6, <2>7 DEF GenerateInv
<1> QED
  BY <1>7, <1>8

(* The loop over the groups appends the request of the next one. *)
LEMMA NextRequest ==
  ASSUME GenerateInv, ExecuteForInterestGroup
  PROVE  /\ RequestPart' /\ requests' \in Seq(Requested) /\ deviceSignals' \in Signals
         /\ Len(requests') = Len(requests) + 1 /\ Len(requests') <= Len(conf.igs)
         /\ \A j \in DOMAIN requests : j \in DOMAIN requests' /\ requests'[j] = requests[j]
<1>1. /\ conf.kind = "byob" /\ stage = "execute" /\ groupBids # <<>> /\ conf' = conf
  BY DEF ExecuteForInterestGroup
<1>2. /\ conf \in Configs /\ conf.igs \in Seq(GroupType) /\ readable
      /\ requests \in Seq(Requested) /\ Len(requests) \in Nat /\ Len(conf.igs) \in Nat
      /\ RequestPart /\ deviceSignals \in Signals
  BY <1>1, RunningTasks DEF GenerateInv, TaskPart
<1>3. PICK i : i = Len(requests) + 1
  OBVIOUS
<1>4. Groups = conf.igs
  BY <1>2 DEF Groups
<1>5. i <= Len(conf.igs) /\ i \in DOMAIN conf.igs
  BY <1>2, <1>3, <1>4 DEF ExecuteForInterestGroup
<1>6. PICK g \in GroupType : g = conf.igs[i]
  BY <1>2, <1>5
<1>7. PICK device : device = UpdateProtectedAudienceBidRequest(g)
  OBVIOUS
<1>8. device \in Signals /\ g.name \in STRING /\ (g.device # "none" => device = g.name)
  BY <1>2, <1>7 DEF UpdateProtectedAudienceBidRequest, GroupType, Signals
<1>9. PICK r : r = [id |-> g.name, groups |-> <<g.name>>, device |-> <<device>>]
  OBVIOUS
<1>10. deviceSignals' = device /\ requests' = Append(requests, r)
  BY <1>3, <1>4, <1>6, <1>7, <1>9 DEF ExecuteForInterestGroup
<1>11. r \in Requested
  <2>1. <<g.name>> \in Seq(STRING) /\ <<device>> \in Seq(Signals)
    BY <1>8
  <2> QED
    BY <1>8, <1>9, <2>1 DEF Requested
<1>12. /\ requests' \in Seq(Requested) /\ Len(requests') = i /\ requests'[i] = r
       /\ \A j \in DOMAIN requests : j \in DOMAIN requests' /\ requests'[j] = requests[j]
       /\ \A j \in DOMAIN requests' : j = i \/ j \in DOMAIN requests
  BY <1>2, <1>3, <1>10, <1>11
<1>13. ASSUME NEW n \in DOMAIN r.groups
       PROVE  /\ n \in DOMAIN r.device /\ conf.igs[i].name = r.groups[n]
              /\ \/ r.device[n] = OwnDeviceSignals(conf.igs[i])
                 \/ conf.igs[i].device = "none"
  <2>1. r.groups = <<g.name>> /\ r.device = <<device>>
    BY <1>9
  <2>2. n = 1
    BY <2>1
  <2> QED
    BY <1>1, <1>6, <1>8, <2>1, <2>2 DEF OwnDeviceSignals, GroupType
<1>14. DeviceSignalsOfTheGroup'
  <2>1. SUFFICES ASSUME NEW j \in DOMAIN requests', NEW n \in DOMAIN requests'[j].groups
                 PROVE  /\ n \in DOMAIN requests'[j].device
                        /\ \E k \in DOMAIN conf'.igs :
                             /\ conf'.igs[k].name = requests'[j].groups[n]
                             /\ \/ requests'[j].device[n] = OwnDeviceSignals(conf.igs[k])
                                \/ conf'.kind = "byob" /\ conf'.igs[k].device = "none"
    BY <1>1 DEF DeviceSignalsOfTheGroup, OwnDeviceSignals
  <2>2. CASE j = i
    <3>1. requests'[j] = r
      BY <1>12, <2>2
    <3> QED
      BY <1>1, <1>5, <1>13, <2>1, <3>1, Zenon
  <2>3. CASE j \in DOMAIN requests
    <3>1. requests'[j] = requests[j]
      BY <1>12, <2>3
    <3>2. n \in DOMAIN requests[j].groups /\ DeviceSignalsOfTheGroup
      BY <1>2, <3>1 DEF RequestPart
    <3>3. /\ n \in DOMAIN requests[j].device
          /\ \E k \in DOMAIN conf.igs :
               /\ conf.igs[k].name = requests[j].groups[n]
               /\ \/ requests[j].device[n] = OwnDeviceSignals(conf.igs[k])
                  \/ conf.kind = "byob" /\ conf.igs[k].device = "none"
      BY <2>3, <3>2, Zenon DEF DeviceSignalsOfTheGroup
    <3> QED
      BY <1>1, <3>1, <3>3
  <2> QED
    BY <1>12, <2>2, <2>3
<1>15. RequestPart'
  <2>1. requests'[i].id = conf.igs[i].name
    BY <1>6, <1>9, <1>12
  <2>2. ASSUME NEW j \in DOMAIN requests'
        PROVE  /\ j \in DOMAIN conf.igs
               /\ \/ requests'[j].id = conf.igs[j].name
                  \/ conf.microsoft /\ requests'[j].id = kDefaultMultiIGBidRequestName
    BY <1>2, <1>5, <1>12, <2>1 DEF RequestPart
  <2> QED
    BY <1>1, <1>2, <1>14, <2>2 DEF RequestPart
<1> QED
  BY <1>3, <1>5, <1>10, <1>8, <1>12, <1>15

LEMMA ExecuteForInterestGroupKeepsInv ==
  ASSUME GenerateInv, ExecuteForInterestGroup
  PROVE  GenerateInv'
<1>1. /\ conf.kind = "byob" /\ stage = "execute" /\ groupBids # <<>> /\ conf' = conf
      /\ UNCHANGED Rest
  BY DEF ExecuteForInterestGroup, Rest
<1>2. /\ conf \in Configs /\ conf.igs \in Seq(GroupType) /\ readable /\ conf.igs # <<>>
      /\ requests \in Seq(Requested) /\ Len(requests) \in Nat /\ Len(conf.igs) \in Nat \ {0}
      /\ IsFiniteSet(pending) /\ Cardinality(pending) \in Nat
      /\ tracker.pending = Cardinality(pending) + (Len(conf.igs) - Len(requests))
      /\ finish = <<>> /\ bids = <<>> /\ CallPart /\ TaskPart
      /\ pending \subseteq DOMAIN requests
  BY <1>1, RunningTasks DEF GenerateInv, TaskPart, Waiting
<1>3. /\ RequestPart' /\ requests' \in Seq(Requested) /\ deviceSignals' \in Signals
      /\ Len(requests') = Len(requests) + 1 /\ Len(requests') <= Len(conf.igs)
      /\ \A j \in DOMAIN requests : j \in DOMAIN requests' /\ requests'[j] = requests[j]
  BY NextRequest
<1>4. PICK i \in Nat : i = Len(requests) + 1 /\ i \notin pending /\ i \in DOMAIN requests'
  BY <1>2, <1>3
<1>a. PICK c \in Nat, L \in Nat, R \in Nat :
        /\ c = Cardinality(pending) /\ L = Len(conf.igs) /\ R = Len(requests)
        /\ tracker.pending = c + (L - R) /\ Len(requests') = R + 1 /\ R + 1 <= L
  BY <1>2, <1>3
<1>5. PICK after \in {"execute", "byob"} :
        after = IF i = Len(conf.igs) THEN "byob" ELSE "execute"
  OBVIOUS
<1>6. (after = "execute") = (Len(requests') < Len(conf.igs))
  BY <1>2, <1>3, <1>4, <1>5
<1>7. Groups = conf.igs
  BY <1>2 DEF Groups
<1>8. \/ /\ pending' = pending \cup {i} /\ stage' = after
         /\ UNCHANGED <<callVars, tracker, groupBids, bids>>
      \/ Report("ERROR", groupBids, after) /\ UNCHANGED pending
  BY <1>4, <1>5, <1>7 DEF ExecuteForInterestGroup
<1>9. \A j \in DOMAIN groupBids :
        /\ groupBids[j] \in Seq(BidType)
        /\ \A b \in DOMAIN groupBids[j] :
             /\ groupBids[j][b].events = <<>>
             /\ j \in DOMAIN requests' /\ groupBids[j][b].ig = requests'[j].id
  BY <1>1, <1>2, <1>3, Zenon DEF TaskPart, ListOf
<1>10. CASE /\ pending' = pending \cup {i} /\ stage' = after
            /\ UNCHANGED <<callVars, tracker, groupBids, bids>>
  <2>1. CallPart'
    BY <1>1, <1>2, <1>10 DEF CallPart, Flags, Waiting, callVars, Rest
  <2>2. IsFiniteSet(pending') /\ Cardinality(pending') = Cardinality(pending) + 1
    BY <1>2, <1>4, <1>10, FS_AddElement
  <2>3. pending' \subseteq DOMAIN requests'
    BY <1>2, <1>3, <1>4, <1>10
  <2>4. \A j \in DOMAIN groupBids' : ListOf(j)'
    BY <1>9, <1>10 DEF ListOf
  <2>5. tracker.pending = Cardinality(pending') + (Len(conf.igs) - Len(requests'))
    BY <1>a, <2>2
  <2>6. stage' \in Waiting /\ readable'
    BY <1>1, <1>2, <1>10 DEF Waiting, Rest
  <2>7. TaskPart'
    BY <1>1, <1>2, <1>3, <1>6, <1>10, <2>2, <2>3, <2>4, <2>5, <2>6 DEF TaskPart
  <2>8. BidsPart'
    BY <1>2, <1>10, NoBidsAreRight
  <2> QED
    BY <1>3, <2>1, <2>7, <2>8 DEF GenerateInv
<1>11. CASE Report("ERROR", groupBids, after) /\ UNCHANGED pending
  <2>1. /\ tracker.pending > 0
        /\ tracker.pending - 1 = Cardinality(pending') + (Len(conf.igs) - Len(requests'))
    BY <1>a, <1>11
  <2>2. pending' \subseteq DOMAIN requests' /\ IsFiniteSet(pending')
    BY <1>2, <1>3, <1>11
  <2>3. "ERROR" \in TaskStatus
    BY DEF TaskStatus
  <2> QED
    BY <1>1, <1>3, <1>6, <1>9, <1>11, <2>1, <2>2, <2>3, ReportKeepsInv
<1> QED
  BY <1>8, <1>10, <1>11

(* An execution calls back: it is one the call waits for. *)
LEMMA ByobCallbackKeepsInv ==
  ASSUME GenerateInv, ByobCallback
  PROVE  GenerateInv'
<1>1. /\ conf' = conf /\ requests' = requests /\ deviceSignals' = deviceSignals
      /\ UNCHANGED Rest
  BY DEF ByobCallback, Rest
<1>2. PICK i \in pending : \E out \in {o \in Outputs(requests[i].id) : o.status # "unparsable"} :
        pending' = pending \ {i} /\ OnByobResponse(i, out)
  BY DEF ByobCallback
<1>3. PICK out \in Outputs(requests[i].id) : pending' = pending \ {i} /\ OnByobResponse(i, out)
  BY <1>2
<1>4. RequestPart /\ TaskPart /\ conf \in Configs /\ pending # {}
  BY DEF GenerateInv, RequestPart
<1>5. conf.kind = "byob" /\ groupBids # <<>>
  BY <1>4, ConfigOK DEF TaskPart
<1>6. /\ conf.igs \in Seq(GroupType) /\ Len(conf.igs) \in Nat /\ Len(requests) \in Nat
      /\ Len(requests) <= Len(conf.igs) /\ requests \in Seq(Requested)
      /\ IsFiniteSet(pending) /\ Cardinality(pending) \in Nat
      /\ tracker.pending = Cardinality(pending) + (Len(conf.igs) - Len(requests))
      /\ pending \subseteq DOMAIN requests
  BY <1>4, <1>5, RunningTasks DEF TaskPart
<1>7. /\ IsFiniteSet(pending') /\ Cardinality(pending') = Cardinality(pending) - 1
      /\ Cardinality(pending) > 0
  <2>1. IsFiniteSet(pending') /\ Cardinality(pending') = Cardinality(pending) - 1
    BY <1>3, <1>6, FS_RemoveElement
  <2>2. Cardinality(pending') \in Nat
    BY <2>1, FS_CardinalityType
  <2> QED
    BY <1>6, <2>1, <2>2
<1>8. /\ tracker.pending > 0
      /\ tracker.pending - 1 = Cardinality(pending') + (Len(conf.igs) - Len(requests'))
  BY <1>1, <1>6, <1>7
<1>9. stage \in {"execute", "byob"} /\ (stage = "execute") = (Len(requests') < Len(conf.igs))
  <2>1. stage \in Waiting
    BY <1>4, <1>5, <1>8 DEF TaskPart
  <2> QED
    BY <1>1, <1>4, <1>5, <2>1, RunningTasks DEF TaskPart
<1>10. \A j \in DOMAIN groupBids : ListOf(j)
  BY <1>4, <1>5 DEF TaskPart
<1>11. PICK status, gb :
         /\ status \in TaskStatus
         /\ Report(status, gb, stage)
         /\ \/ gb = groupBids
            \/ gb = [groupBids EXCEPT ![i] = ParseProtectedAudienceBids(requests[i], out)]
  <2>1. {"ERROR", "EMPTY_RESPONSE", "SUCCESS"} \subseteq TaskStatus
    BY DEF TaskStatus
  <2> QED
    BY <1>3, <2>1, Zenon DEF OnByobResponse
<1>12. DOMAIN gb = DOMAIN groupBids
  BY <1>11
<1>13. ASSUME NEW j \in DOMAIN gb
       PROVE  /\ gb[j] \in Seq(BidType)
              /\ \A b \in DOMAIN gb[j] :
                   /\ gb[j][b].events = <<>>
                   /\ j \in DOMAIN requests' /\ gb[j][b].ig = requests'[j].id
  <2>1. CASE gb[j] = groupBids[j]
    <3>1. ListOf(j)
      BY <1>10, <1>12
    <3> QED
      BY <1>1, <2>1, <3>1, Zenon DEF ListOf
  <2>2. CASE j = i /\ gb[j] = ParseProtectedAudienceBids(requests[i], out)
    <3>1. i \in DOMAIN requests /\ out \in OutputType
      BY <1>3, <1>4, <1>6, RequestsReturnOutputs
    <3>2. PICK r, q : r = requests[i] /\ q = gb[j]
      OBVIOUS
    <3>3. r.id \in STRING
      <4>1. r \in Requested
        BY <1>6, <3>1, <3>2
      <4> QED
        BY <4>1 DEF Requested
    <3>4. /\ q \in Seq(BidType)
          /\ \A n \in DOMAIN q : q[n].events = <<>> /\ q[n].ig = r.id
      BY <2>2, <3>1, <3>2, <3>3, ParsedBidsAreBids
    <3> QED
      BY <1>1, <2>2, <3>1, <3>2, <3>4, Zenon
  <2> QED
    BY <1>11, <1>12, <2>1, <2>2
<1>14. RequestPart'
  BY <1>1, <1>4 DEF RequestPart, DeviceSignalsOfTheGroup, OwnDeviceSignals
<1>15. requests' \in Seq(Requested) /\ deviceSignals' \in Signals /\ pending' \subseteq DOMAIN requests'
  BY <1>1, <1>3, <1>4, <1>6 DEF TaskPart
<1> QED
  BY <1>1, <1>5, <1>7, <1>8, <1>9, <1>11, <1>12, <1>13, <1>14, <1>15, ReportKeepsInv

(* Neither what the reactors share nor a second Finish touches the bids. *)
LEMMA UntouchedBids ==
  ASSUME GenerateInv, UNCHANGED bidVars, CallPart',
         \/ stage = "construct" /\ stage' = "execute"
         \/ stage = "finishAgain" /\ stage' = "none" /\ readable' = readable
         \/ stage' = stage /\ readable' = readable,
         stage \notin Waiting => FirstStatus' = FirstStatus
  PROVE  GenerateInv'
<1>1. /\ CallPart /\ RequestPart /\ TaskPart /\ BidsPart
      /\ UNCHANGED <<conf, requests, returned, deviceSignals, tracker, pending, groupBids, bids>>
  BY DEF GenerateInv, bidVars
<1>2. RequestPart'
  BY <1>1 DEF RequestPart, DeviceSignalsOfTheGroup, OwnDeviceSignals
<1>3. \A i : ListOf(i)' = ListOf(i)
  BY <1>1 DEF ListOf
<1>4. TaskPart'
  <2>1. CASE stage' = stage /\ readable' = readable
    BY <1>1, <1>3, <2>1 DEF TaskPart
  <2>2. CASE stage = "construct" /\ stage' = "execute"
    <3>1. groupBids = <<>>
      BY <1>1, <2>2, ConfigOK DEF TaskPart, RequestPart
    <3> QED
      BY <1>1, <2>2, <3>1 DEF TaskPart, Waiting
  <2>3. CASE stage = "finishAgain" /\ stage' = "none" /\ readable' = readable
    <3>1. stage \notin Waiting /\ FirstStatus' = FirstStatus
      BY <2>3 DEF Waiting
    <3>2. stage' \notin Waiting
      BY <2>3 DEF Waiting
    <3> QED
      BY <1>1, <1>3, <2>3, <3>1, <3>2 DEF TaskPart
  <2> QED
    BY <2>1, <2>2, <2>3
<1>5. BidsPart'
  <2>1. stage' \in Waiting => stage \in Waiting
    BY DEF Waiting
  <2>2. BidsAreAttributed'
    BY <1>1 DEF BidsPart, BidsAreAttributed
  <2>3. DebugUrlsWithinLimits'
    BY <1>1 DEF BidsPart, DebugUrlsWithinLimits
  <2>4. ContributionsWithinLimit'
    <3>1. \A k \in DOMAIN bids : EventsFit(bids[k].events)
      BY <1>1 DEF BidsPart, ContributionsWithinLimit, EventsFit
    <3>2. \A k \in DOMAIN bids' : EventsFit(bids'[k].events)
      BY <1>1, <3>1
    <3> QED
      BY <3>2 DEF ContributionsWithinLimit, EventsFit
  <2> QED
    BY <1>1, <2>1, <2>2, <2>3, <2>4 DEF BidsPart
<1> QED
  BY <1>2, <1>4, <1>5 DEF GenerateInv

LEMMA FinishAgainKeepsInv ==
  ASSUME GenerateInv, FinishAgain
  PROVE  GenerateInv'
<1>1. /\ CallPart' /\ stage' = "none" /\ FirstStatus' = FirstStatus
  BY FinishAgainKeepsCall DEF GenerateInv
<1>2. stage = "finishAgain" /\ readable' = readable /\ UNCHANGED bidVars
  BY DEF FinishAgain
<1> QED
  BY <1>1, <1>2, UntouchedBids

LEMMA SharedKeepsInv ==
  ASSUME GenerateInv, Shared \/ Cancel
  PROVE  GenerateInv'
<1>1. CallPart /\ (DecryptRequest \/ Bind \/ OnDone \/ OnCancel) /\ UNCHANGED bidVars
  BY DEF GenerateInv, Shared, Cancel
<1>2. /\ CallPart'
      /\ \/ stage = "construct" /\ stage' = "execute"
         \/ stage' = stage /\ readable' = readable
      /\ stage \notin Waiting => FirstStatus' = FirstStatus
  BY <1>1, SharedKeepsCall
<1> QED
  BY <1>1, <1>2, UntouchedBids

(* What the invariant says of a GenerateBids call. *)
LEMMA GenerateInvIsSafe ==
  ASSUME GenerateInv
  PROVE  /\ GenerateTypeOK /\ GenerateFinishAtMostOnce /\ BinaryAnswerMatchesTasks
         /\ BidsAreAttributed /\ DeviceSignalsOfTheGroup
         /\ DebugUrlsWithinLimits /\ ContributionsWithinLimit
<1>1. CallPart /\ RequestPart /\ TaskPart /\ BidsPart
  BY DEF GenerateInv
<1>2. DispatchTypeOK /\ GenerateFinishAtMostOnce
  BY <1>1, CallIsSafe
<1>3. GenerateTypeOK
  BY <1>1, <1>2 DEF GenerateTypeOK, CallPart, RequestPart, TaskPart, Waiting
<1>4. BinaryAnswerMatchesTasks
  <2>1. SUFFICES ASSUME conf.kind = "byob", finish # <<>>, readable, finish[1] # "CANCELLED"
                 PROVE  /\ tracker.num > 0 => tracker.pending = 0 /\ pending = {}
                        /\ tracker.count["ERROR"] = tracker.num => finish[1] = "INTERNAL"
    BY DEF BinaryAnswerMatchesTasks
  <2>2. stage \notin Waiting /\ bound /\ FirstStatus = finish[1]
    BY <1>1, <2>1 DEF CallPart, FirstStatus
  <2>3. CASE groupBids = <<>>
    <3>1. /\ tracker = SetNumTasksToTrack(0) /\ FirstStatus = "INTERNAL"
      BY <1>1, <2>1, <2>2, <2>3 DEF TaskPart
    <3>2. tracker.num = 0
      BY <3>1 DEF SetNumTasksToTrack
    <3> QED
      BY <2>2, <3>1, <3>2
  <2>4. CASE groupBids # <<>>
    <3>1. /\ tracker.pending = 0
          /\ tracker.count["ERROR"] = tracker.num => FirstStatus = "INTERNAL"
      BY <1>1, <2>1, <2>2, <2>4 DEF TaskPart
    <3>2. PICK c \in Nat, L \in Nat, R \in Nat :
            /\ c = Cardinality(pending) /\ L = Len(conf.igs) /\ R = Len(requests)
            /\ tracker.pending = c + (L - R) /\ R <= L /\ IsFiniteSet(pending)
      BY <2>1, <2>4, RunningTasks
    <3>3. pending = {}
      BY <3>1, <3>2, FS_EmptySet
    <3> QED
      BY <2>2, <3>1, <3>3
  <2> QED
    BY <2>3, <2>4
<1> QED
  BY <1>1, <1>2, <1>3, <1>4 DEF RequestPart, BidsPart
-----------------------------------------------------------------------------
(* App signals. *)

(* Execute, or a callback, finishes the call; it may have been finished when *)
(* the request was not decrypted.                                            *)
LEMMA AppFinishKeepsCall ==
  ASSUME AppCallPart, stage \in AppWaiting, NEW st \in Statuses,
         App!EncryptResponseAndFinish(st), UNCHANGED Rest, conf' = conf
  PROVE  AppCallPart' /\ stage' \in {"none", "finishAgain"}
<1>1. PICK s \in Statuses :
        /\ App!Finish(s)
        /\ stage' = "none" \/ (stage' = "finishAgain" /\ s = "INTERNAL")
  <2>1. "INTERNAL" \in Statuses
    BY DEF Statuses
  <2> QED
    BY <2>1 DEF App!EncryptResponseAndFinish, App!FinishWithStatus
<1>2. /\ UNCHANGED <<cancelled, readable, deleted>> /\ Flags /\ conf \in AppConfigs
      /\ conf.kind = "pas" /\ finish \in Seq(Statuses) /\ Len(finish) \in Nat /\ Len(finish) <= 1
      /\ readable => finish = <<>>
      /\ ~bound => finish = <<>>
  BY DEF Rest, AppCallPart
<1>3. stage' \notin AppWaiting
  BY <1>1 DEF AppWaiting, App!Outstanding
<1>4. CASE bound
  <2>1. finish' = Append(finish, s) /\ bound' = bound /\ backlog' = backlog
    BY <1>1, <1>4 DEF App!Finish
  <2>2. /\ finish' \in Seq(Statuses) /\ Len(finish') <= 2
        /\ readable => finish' = <<s>> /\ Len(finish') = 1
    <3>1. finish' \in Seq(Statuses) /\ Len(finish') = Len(finish) + 1
      BY <1>2, <2>1
    <3>2. finish = <<>> => finish' = <<s>>
      BY <2>1
    <3>3. finish = <<>> => Len(finish) = 0
      OBVIOUS
    <3> QED
      BY <1>2, <3>1, <3>2, <3>3
  <2> QED
    BY <1>1, <1>2, <1>3, <1>4, <2>1, <2>2 DEF AppCallPart, Flags
<1>5. CASE ~bound
  <2>1. finish' = finish /\ bound' = bound /\ backlog' = s /\ Len(finish) = 0
    BY <1>1, <1>2, <1>5 DEF App!Finish
  <2> QED
    BY <1>1, <1>2, <1>3, <1>5, <2>1 DEF AppCallPart, Flags
<1> QED
  BY <1>2, <1>4, <1>5 DEF Flags

(* The call goes on, or its process aborts. *)
LEMMA AppCallGoesOn ==
  ASSUME AppCallPart, stage \in AppWaiting, stage' \in App!Outstanding \cup {"crashed"},
         UNCHANGED callVars, UNCHANGED Rest, conf' = conf
  PROVE  AppCallPart'
<1>1. UNCHANGED <<cancelled, readable, deleted, bound, backlog, finish>>
  BY DEF Rest, callVars
<1>2. Len(finish) \in Nat /\ Len(finish) <= 1 /\ stage' \notin {"construct", "execute", "finishAgain", "none"}
  BY DEF AppCallPart, App!Outstanding
<1>3. stage' \in AppWaiting \cup {"crashed"}
  BY DEF AppWaiting
<1> QED
  BY <1>1, <1>2, <1>3 DEF AppCallPart, Flags

LEMMA RomaKeepsCall ==
  ASSUME AppCallPart, stage \in AppWaiting, NEW callback \in App!Outstanding,
         App!ExecuteRomaRequests(callback), UNCHANGED Rest, conf' = conf
  PROVE  AppCallPart' /\ stage' \in {"none", "finishAgain", callback}
<1>1. CASE \E st \in Statuses : App!EncryptResponseAndFinish(st)
  BY <1>1, AppFinishKeepsCall
<1>2. CASE stage' = callback /\ UNCHANGED callVars
  BY <1>2, AppCallGoesOn
<1>3. {"CANCELLED", "INTERNAL"} \subseteq Statuses
  BY DEF Statuses
<1> QED
  BY <1>1, <1>2, <1>3, Zenon DEF App!ExecuteRomaRequests, App!callVars, callVars

(* The Finish after a failed encryption. *)
LEMMA AppFinishAgainKeepsCall ==
  ASSUME AppCallPart, App!FinishAgain
  PROVE  AppCallPart' /\ stage' = "none" /\ UNCHANGED <<readable, conf, prepared, bidInput, bids>>
<1>1. /\ stage = "finishAgain" /\ stage' = "none" /\ App!Finish("INTERNAL")
      /\ UNCHANGED <<cancelled, readable, deleted, conf, prepared, bidInput, bids>>
  BY DEF App!FinishAgain, App!FinishWithStatus, App!bidVars
<1>2. /\ finish \in Seq(Statuses) /\ Len(finish) \in Nat /\ Len(finish) <= 2
      /\ "none" \notin AppWaiting /\ ~(stage \in AppWaiting)
  BY <1>1 DEF AppCallPart, AppWaiting, App!Outstanding
<1>3. CASE bound
  <2>1. PICK s \in Statuses : s = "INTERNAL"
    BY DEF Statuses
  <2>2. finish' = Append(finish, s) /\ bound' = bound /\ backlog' = backlog
    BY <1>1, <1>3, <2>1 DEF App!Finish
  <2>3. finish' \in Seq(Statuses) /\ Len(finish') <= 3
    BY <1>2, <2>2
  <2>4. readable => finish' = <<"INTERNAL", "INTERNAL">>
    <3>1. readable => finish = <<s>>
      BY <1>1, <1>3, <2>1 DEF AppCallPart
    <3>2. readable => finish' = <<s, s>>
      BY <2>2, <3>1, TwoStatuses, ZenonT(40)
    <3> QED
      BY <2>1, <3>2, Zenon
  <2> QED
    BY <1>1, <1>2, <1>3, <2>2, <2>3, <2>4 DEF AppCallPart, Flags
<1>4. CASE ~bound
  <2>1. finish' = finish /\ bound' = bound /\ backlog' = "INTERNAL" /\ Len(finish) = 0
    BY <1>1, <1>4 DEF App!Finish, AppCallPart
  <2> QED
    BY <1>1, <1>2, <1>4, <2>1 DEF AppCallPart, Flags, Statuses
<1> QED
  BY <1>1, <1>3, <1>4 DEF AppCallPart, Flags

(* What the reactors share. *)
LEMMA AppSharedKeepsCall ==
  ASSUME AppCallPart, DecryptRequest \/ Bind \/ OnDone \/ OnCancel, conf' = conf
  PROVE  /\ AppCallPart'
         /\ \/ stage = "construct" /\ stage' = "execute"
            \/ stage' = stage /\ readable' = readable
<1>1. CASE DecryptRequest
  <2>1. /\ stage = "construct" /\ stage' = "execute" /\ ~bound /\ finish = <<>>
        /\ backlog = "none" /\ cancelled' = cancelled /\ deleted' = deleted
    BY <1>1 DEF DecryptRequest, AppCallPart, AppWaiting
  <2>2. readable' \in BOOLEAN /\ finish' = finish /\ bound' = bound /\ Len(finish) = 0
    BY <1>1, <2>1 DEF DecryptRequest, Finish, callVars
  <2>3. backlog' \in Statuses \cup {"none"} /\ (readable' => backlog' = "none")
    BY <1>1, <2>1 DEF DecryptRequest, Finish, callVars, Statuses
  <2> QED
    BY <2>1, <2>2, <2>3 DEF AppCallPart, Flags, AppWaiting
<1>2. CASE Bind
  <2>1. /\ stage \notin {"construct", "execute", "crashed"} /\ ~bound /\ bound' = TRUE
        /\ finish' = (IF backlog = "none" THEN <<>> ELSE <<backlog>>) /\ backlog' = backlog
        /\ cancelled' = cancelled /\ deleted' = deleted /\ readable' = readable /\ stage' = stage
    BY <1>2 DEF Bind
  <2>2. backlog \in Statuses \cup {"none"} /\ Flags
    BY DEF AppCallPart, Flags
  <2>3. CASE backlog = "none"
    <3>1. finish' = <<>> /\ finish' \in Seq(Statuses) /\ Len(finish') = 0
      BY <2>1, <2>3
    <3>2. stage = "finishAgain" => ~readable
      BY <2>1, <2>3 DEF AppCallPart
    <3> QED
      BY <2>1, <2>2, <2>3, <3>1, <3>2 DEF AppCallPart, Flags
  <2>4. CASE backlog # "none"
    <3>1. PICK b \in Statuses : b = backlog
      BY <2>2, <2>4
    <3>2. finish' = <<b>> /\ finish' \in Seq(Statuses) /\ Len(finish') = 1
      BY <2>1, <2>4, <3>1
    <3>3. readable => stage \notin AppWaiting
      BY <2>4 DEF AppCallPart
    <3>4. readable /\ stage = "finishAgain" => b = "INTERNAL"
      BY <2>1, <3>1 DEF AppCallPart
    <3> QED
      BY <2>1, <2>2, <2>4, <3>1, <3>2, <3>3, <3>4 DEF AppCallPart, Flags
  <2> QED
    BY <2>1, <2>3, <2>4
<1>3. CASE OnDone \/ OnCancel
  <2>1. /\ stage' = stage /\ readable' = readable /\ bound' = bound /\ finish' = finish
        /\ backlog' = backlog /\ cancelled' \in BOOLEAN /\ deleted' \in BOOLEAN
    BY <1>3 DEF OnDone, OnCancel, callVars, AppCallPart, Flags
  <2> QED
    BY <2>1 DEF AppCallPart, Flags
<1> QED
  BY <1>1, <1>2, <1>3

(* A step that leaves the signals and the bids alone. *)
LEMMA UntouchedSignals ==
  ASSUME SignalsPart, UNCHANGED <<conf, prepared, bidInput, bids>>,
         \/ stage = "construct" /\ stage' = "execute"
         \/ readable' = readable /\ stage' \in {stage, "none", "finishAgain", "crashed"}
         \/ /\ readable' = readable /\ stage = "execute"
            /\ stage' = IF App!IsContextualRetrievalRequest THEN "metadata" ELSE "prepare"
  PROVE  SignalsPart'
<1>1. App!EgressIsEncoded'
  BY DEF SignalsPart, App!EgressIsEncoded
<1>2. CASE readable' = readable
  <2>1. App!SignalsInOneForm' /\ App!IsContextualRetrievalRequest' = App!IsContextualRetrievalRequest
    BY <1>2 DEF SignalsPart, App!SignalsInOneForm, App!IsContextualRetrievalRequest
  <2> HIDE DEF App!IsContextualRetrievalRequest
  <2> QED
    BY <1>1, <1>2, <2>1 DEF SignalsPart
<1>3. CASE stage = "construct" /\ stage' = "execute"
  BY <1>1, <1>3 DEF SignalsPart, App!SignalsInOneForm
<1> QED
  BY <1>2, <1>3

(* Execute. *)
LEMMA AppExecuteKeepsInv ==
  ASSUME AppInv, App!Execute \/ App!ExecuteBinary
  PROVE  AppInv'
<1>1. /\ AppCallPart /\ SignalsPart /\ stage = "execute" /\ stage \in AppWaiting
      /\ UNCHANGED <<readable, conf, prepared, bidInput, bids>> /\ UNCHANGED Rest
  BY DEF AppInv, App!Execute, App!ExecuteBinary, App!bidVars, Rest, AppWaiting
<1>2. PICK callback \in App!Outstanding :
        callback = IF App!IsContextualRetrievalRequest THEN "metadata" ELSE "prepare"
  BY DEF App!Outstanding
<1>3. \/ \E st \in Statuses : App!EncryptResponseAndFinish(st)
      \/ App!ExecuteRomaRequests(callback)
  <2>1. {"CANCELLED", "INVALID_ARGUMENT", "UNIMPLEMENTED"} \subseteq Statuses
    BY DEF Statuses
  <2>2. CASE App!ExecuteBinary
    BY <2>1, <2>2 DEF App!ExecuteBinary, App!EncryptResponseAndFinish
  <2>3. CASE App!Execute
    BY <1>2, <2>1, <2>3 DEF App!Execute, App!StartContextualAdsRetrieval,
       App!StartNonContextualAdsRetrieval, App!FetchAdsMetadata
  <2> QED
    BY <2>2, <2>3
<1>4. AppCallPart' /\ stage' \in {"none", "finishAgain", callback}
  <2>1. CASE \E st \in Statuses : App!EncryptResponseAndFinish(st)
    BY <1>1, <2>1, AppFinishKeepsCall
  <2>2. CASE App!ExecuteRomaRequests(callback)
    BY <1>1, <2>2, RomaKeepsCall
  <2> QED
    BY <1>3, <2>1, <2>2
<1>5. SignalsPart'
  BY <1>1, <1>2, <1>4, UntouchedSignals
<1> QED
  BY <1>4, <1>5 DEF AppInv

(* Data for the retrieval of ads are there. *)
LEMMA PrepareKeepsInv ==
  ASSUME AppInv, App!PrepareDataForAdRetrievalDone
  PROVE  AppInv'
<1>1. /\ AppCallPart /\ SignalsPart /\ stage = "prepare" /\ stage \in AppWaiting
      /\ UNCHANGED <<readable, conf, bidInput, bids>> /\ UNCHANGED Rest
  BY DEF AppInv, App!PrepareDataForAdRetrievalDone, Rest, AppWaiting, App!Outstanding
<1>2. \/ App!EncryptResponseAndFinish("INTERNAL") /\ UNCHANGED prepared
      \/ App!ExecuteRomaRequests("ads") /\ prepared' # ""
      \/ stage' = "crashed" /\ UNCHANGED callVars /\ UNCHANGED prepared
  BY DEF App!PrepareDataForAdRetrievalDone, App!FetchAds, App!Crash, App!callVars, callVars
<1>3. CASE App!EncryptResponseAndFinish("INTERNAL") /\ UNCHANGED prepared
  <2>1. AppCallPart' /\ stage' \in {"none", "finishAgain"}
    BY <1>1, <1>3, AppFinishKeepsCall DEF Statuses
  <2> QED
    BY <1>1, <1>3, <2>1, UntouchedSignals DEF AppInv
<1>4. CASE App!ExecuteRomaRequests("ads") /\ prepared' # ""
  <2>1. AppCallPart' /\ stage' \in {"none", "finishAgain", "ads"}
    BY <1>1, <1>4, RomaKeepsCall DEF App!Outstanding
  <2>2. /\ ~App!IsContextualRetrievalRequest' /\ App!SignalsInOneForm' /\ App!EgressIsEncoded'
    BY <1>1 DEF SignalsPart, App!IsContextualRetrievalRequest, App!SignalsInOneForm,
       App!EgressIsEncoded
  <2>3. SignalsPart'
    BY <1>4, <2>1, <2>2 DEF SignalsPart
  <2> QED
    BY <2>1, <2>3 DEF AppInv
<1>5. CASE stage' = "crashed" /\ UNCHANGED callVars /\ UNCHANGED prepared
  <2>1. AppCallPart'
    BY <1>1, <1>5, AppCallGoesOn
  <2> QED
    BY <1>1, <1>5, <2>1, UntouchedSignals DEF AppInv
<1> QED
  BY <1>2, <1>3, <1>4, <1>5

(* Ads, or their metadata, are there: the form of the signals is chosen. *)
LEMMA FetchKeepsInv ==
  ASSUME AppInv, App!OnFetchAdsDataDone
  PROVE  AppInv'
<1>1. /\ AppCallPart /\ SignalsPart /\ stage \in {"ads", "metadata"} /\ stage \in AppWaiting
      /\ UNCHANGED <<readable, conf, prepared, bids>> /\ UNCHANGED Rest
  BY DEF AppInv, App!OnFetchAdsDataDone, Rest, AppWaiting, App!Outstanding
<1>2. \/ \E st \in Statuses : App!EncryptResponseAndFinish(st) /\ UNCHANGED bidInput
      \/ bidInput' = App!CreateGenerateBidsRequest /\ App!ExecuteRomaRequests("bid")
  <2>1. {"OK", "INTERNAL"} \subseteq Statuses
    BY DEF Statuses
  <2> QED
    BY <2>1 DEF App!OnFetchAdsDataDone
<1>3. CASE \E st \in Statuses : App!EncryptResponseAndFinish(st) /\ UNCHANGED bidInput
  <2>1. AppCallPart' /\ stage' \in {"none", "finishAgain"}
    BY <1>1, <1>3, AppFinishKeepsCall
  <2> QED
    BY <1>1, <1>3, <2>1, UntouchedSignals DEF AppInv
<1>4. CASE bidInput' = App!CreateGenerateBidsRequest /\ App!ExecuteRomaRequests("bid")
  <2>1. AppCallPart' /\ stage' \in {"none", "finishAgain", "bid"}
    BY <1>1, <1>4, RomaKeepsCall DEF App!Outstanding
  <2>2. bidInput' = IF conf.adIds /\ ~conf.fetchAds /\ readable THEN {"raw"} ELSE {"prepared"}
    BY <1>1, <1>4 DEF SignalsPart, App!CreateGenerateBidsRequest, App!IsContextualRetrievalRequest
  <2>3. App!SignalsInOneForm' /\ App!EgressIsEncoded'
    BY <1>1, <2>2 DEF SignalsPart, App!SignalsInOneForm, App!EgressIsEncoded
  <2>4. SignalsPart'
    BY <2>1, <2>3 DEF SignalsPart
  <2> QED
    BY <2>1, <2>4 DEF AppInv
<1> QED
  BY <1>2, <1>3, <1>4

(* A payload leaves in wire format, and only where egress is enabled. *)
LEMMA AddedBidsAreEncoded ==
  ASSUME NEW b \in App!AppBidType, NEW a \in App!AddedBid(b)
  PROVE  /\ a.egress \in (IF conf.limitedEgress THEN {"", "wire"} ELSE {""})
         /\ a.unlimited \in (IF conf.unlimitedEgress THEN {"", "wire"} ELSE {""})
<1>1. PICK e \in App!Payloads(conf.limitedEgress, b.egress),
           u \in App!Payloads(conf.unlimitedEgress, b.unlimited) :
        a = App!WithPayloads(b, e, u)
  BY DEF App!AddedBid
<1>2. a.egress = e /\ a.unlimited = u
  BY <1>1 DEF App!AppBidType, App!WithPayloads
<1>3. /\ e \in (IF conf.limitedEgress THEN {"", "wire"} ELSE {""})
      /\ u \in (IF conf.unlimitedEgress THEN {"", "wire"} ELSE {""})
  BY DEF App!Payloads, App!PopulateSerializedEgressPayload
<1> QED
  BY <1>2, <1>3

(* generateBid is over. *)
LEMMA OnBidsKeepsInv ==
  ASSUME AppInv, App!OnBids
  PROVE  AppInv'
<1>1. /\ AppCallPart /\ SignalsPart /\ stage = "bid" /\ stage \in AppWaiting
      /\ UNCHANGED <<readable, conf, prepared, bidInput>> /\ UNCHANGED Rest
  BY DEF AppInv, App!OnBids, Rest, AppWaiting, App!Outstanding
<1>2. PICK st \in Statuses :
        /\ App!EncryptResponseAndFinish(st)
        /\ \/ UNCHANGED bids
           \/ \E out \in AppOutputs : \E ok \in SUBSET DOMAIN out : \E added :
                /\ DOMAIN added = ok /\ \A k \in ok : added[k] \in App!AddedBid(out[k])
                /\ bids' = added
  <2>1. {"OK", "INTERNAL"} \subseteq Statuses
    BY DEF Statuses
  <2>2. CASE App!EncryptResponseAndFinish("INTERNAL") /\ UNCHANGED bids
    BY <2>1, <2>2
  <2>3. ASSUME NEW out \in AppOutputs, NEW ok \in SUBSET DOMAIN out,
               \E added \in [ok -> UNION {App!AddedBid(out[k]) : k \in ok}] :
                 /\ \A k \in ok : added[k] \in App!AddedBid(out[k])
                 /\ bids' = added,
               App!EncryptResponseAndFinish("OK")
        PROVE  /\ App!EncryptResponseAndFinish("OK")
               /\ \E added : /\ DOMAIN added = ok
                             /\ \A k \in ok : added[k] \in App!AddedBid(out[k])
                             /\ bids' = added
    <3>1. PICK added \in [ok -> UNION {App!AddedBid(out[k]) : k \in ok}] :
                 /\ \A k \in ok : added[k] \in App!AddedBid(out[k])
                 /\ bids' = added
      BY <2>3
    <3>2. DOMAIN added = ok
      OBVIOUS
    <3> QED
      BY <2>3, <3>1, <3>2
  <2>4. CASE \E out \in AppOutputs :
               /\ App!ParseProtectedSignalsGenerateBidsResponse(out)
               /\ LET ok == {k \in DOMAIN out :
                               App!IsValidProtectedAppSignalsBid(out[k]) = "OK"}
                  IN /\ \E added \in [ok -> UNION {App!AddedBid(out[k]) : k \in ok}] :
                          /\ \A k \in ok : added[k] \in App!AddedBid(out[k])
                          /\ bids' = added
                     /\ App!EncryptResponseAndFinish("OK")
    <3>1. PICK out \in AppOutputs :
                LET ok == {k \in DOMAIN out :
                               App!IsValidProtectedAppSignalsBid(out[k]) = "OK"}
                  IN /\ \E added \in [ok -> UNION {App!AddedBid(out[k]) : k \in ok}] :
                          /\ \A k \in ok : added[k] \in App!AddedBid(out[k])
                          /\ bids' = added
                     /\ App!EncryptResponseAndFinish("OK")
      BY <2>4
    <3>2. PICK ok : ok = {k \in DOMAIN out : App!IsValidProtectedAppSignalsBid(out[k]) = "OK"}
      OBVIOUS
    <3>3. ok \in SUBSET DOMAIN out
      BY <3>2
    <3>4. /\ \E added \in [ok -> UNION {App!AddedBid(out[k]) : k \in ok}] :
               /\ \A k \in ok : added[k] \in App!AddedBid(out[k])
               /\ bids' = added
          /\ App!EncryptResponseAndFinish("OK")
      BY <3>1, <3>2, Zenon
    <3>5. /\ App!EncryptResponseAndFinish("OK")
          /\ \E added : /\ DOMAIN added = ok
                        /\ \A k \in ok : added[k] \in App!AddedBid(out[k])
                        /\ bids' = added
      BY <2>3, <3>3, <3>4, Zenon
    <3> QED
      BY <2>1, <3>3, <3>5, Zenon
  <2> QED
    BY <2>2, <2>4, Zenon DEF App!OnBids
<1>3. AppCallPart' /\ stage' \in {"none", "finishAgain"}
  BY <1>1, <1>2, AppFinishKeepsCall
<1>4. CASE UNCHANGED bids
  BY <1>1, <1>3, <1>4, UntouchedSignals DEF AppInv
<1>5. ASSUME NEW out \in AppOutputs, NEW ok \in SUBSET DOMAIN out, NEW added,
             DOMAIN added = ok, \A k \in ok : added[k] \in App!AddedBid(out[k]),
             bids' = added
      PROVE  AppInv'
  <2>1. out \in Seq(App!AppBidType)
    BY AppSignalsAssumption
  <2>2. ASSUME NEW k \in ok
        PROVE  /\ added[k].egress \in (IF conf.limitedEgress THEN {"", "wire"} ELSE {""})
               /\ added[k].unlimited \in (IF conf.unlimitedEgress THEN {"", "wire"} ELSE {""})
    <3>1. PICK b \in App!AppBidType : b = out[k]
      BY <2>1
    <3>2. added[k] \in App!AddedBid(b)
      BY <1>5, <3>1
    <3> QED
      BY <3>2, AddedBidsAreEncoded
  <2>3. App!EgressIsEncoded'
    BY <1>1, <1>5, <2>2 DEF App!EgressIsEncoded
  <2>4. App!SignalsInOneForm'
    BY <1>1 DEF SignalsPart, App!SignalsInOneForm
  <2>5. SignalsPart'
    BY <1>3, <2>3, <2>4 DEF SignalsPart
  <2> QED
    BY <1>3, <2>5 DEF AppInv
<1> QED
  BY <1>2, <1>4, <1>5

(* A callback of a call that was cancelled, or whose reactor is gone. *)
LEMMA LateCallbackKeepsInv ==
  ASSUME AppInv, App!CancelledCallback \/ App!CallbackAfterDone
  PROVE  AppInv'
<1>1. /\ AppCallPart /\ SignalsPart /\ stage \in AppWaiting
      /\ UNCHANGED <<readable, conf, prepared, bidInput, bids>> /\ UNCHANGED Rest
  BY DEF AppInv, App!CancelledCallback, App!CallbackAfterDone, App!bidVars, Rest, AppWaiting
<1>2. CASE App!CancelledCallback
  <2>1. AppCallPart' /\ stage' \in {"none", "finishAgain"}
    BY <1>1, <1>2, AppFinishKeepsCall DEF App!CancelledCallback, Statuses
  <2> QED
    BY <1>1, <2>1, UntouchedSignals DEF AppInv
<1>3. CASE App!CallbackAfterDone
  <2>1. stage' = "crashed" /\ UNCHANGED callVars
    BY <1>3 DEF App!CallbackAfterDone, App!Crash, App!callVars, callVars
  <2>2. AppCallPart'
    BY <1>1, <2>1, AppCallGoesOn
  <2> QED
    BY <1>1, <2>1, <2>2, UntouchedSignals DEF AppInv
<1> QED
  BY <1>2, <1>3

LEMMA AppSharedKeepsInv ==
  ASSUME AppInv, DecryptRequest \/ Bind \/ OnDone \/ OnCancel,
         UNCHANGED <<conf, prepared, bidInput, bids>>
  PROVE  AppInv'
<1>1. AppCallPart /\ SignalsPart
  BY DEF AppInv
<1>2. /\ AppCallPart'
      /\ \/ stage = "construct" /\ stage' = "execute"
         \/ stage' = stage /\ readable' = readable
  BY <1>1, AppSharedKeepsCall
<1> QED
  BY <1>1, <1>2, UntouchedSignals DEF AppInv

(* What the invariant says of an app signals call. *)
LEMMA AppInvIsSafe ==
  ASSUME AppInv
  PROVE  /\ Len(finish) <= 3
         /\ stage \in {"construct", "execute", "prepare", "ads", "metadata", "bid",
                       "finishAgain", "none", "crashed"}
         /\ App!AppSignalsFinishAtMostOnce /\ App!SignalsInOneForm /\ App!EgressIsEncoded
<1>1. AppCallPart /\ SignalsPart
  BY DEF AppInv
<1>2. Len(finish) \in Nat /\ Len(finish) <= 3
  BY <1>1 DEF AppCallPart
<1> QED
  BY <1>1, <1>2 DEF AppCallPart, SignalsPart, AppWaiting, App!Outstanding,
     App!AppSignalsFinishAtMostOnce
-----------------------------------------------------------------------------

LEMMA InitialCall ==
  ASSUME ServiceInit
  PROVE  ServiceInv
<1>1. CASE Init
  <2>1. /\ conf \in Configs /\ stage = "construct" /\ readable = TRUE /\ cancelled = FALSE
        /\ bound = FALSE /\ backlog = "none" /\ finish = <<>> /\ deleted = FALSE
        /\ requests = <<>> /\ tracker = SetNumTasksToTrack(0) /\ pending = {}
        /\ groupBids = <<>> /\ bids = <<>> /\ deviceSignals = "none"
    BY <1>1 DEF Init, DispatchInit
  <2>2. conf.kind \in {"v8", "byob"}
    BY <2>1, ConfigOK
  <2>3. CallPart
    BY <2>1 DEF CallPart, Flags, Waiting
  <2>4. RequestPart
    BY <2>1, <2>2 DEF RequestPart, DeviceSignalsOfTheGroup, OwnDeviceSignals
  <2>5. TaskPart
    <3>1. tracker \in Tracker /\ SumMatches(tracker) /\ IsFiniteSet({})
      BY <2>1, FreshTracker, FS_EmptySet
    <3>2. requests \in Seq(Requested) /\ deviceSignals \in Signals
      BY <2>1 DEF Signals
    <3> QED
      BY <2>1, <2>2, <3>1, <3>2 DEF TaskPart, Waiting
  <2>6. BidsPart
    <3>1. DebugUrlChars(bids) <= MaxAllUrlChars
      BY <2>1, CharsOfNone, BidLimits
    <3> QED
      BY <2>1, <3>1 DEF BidsPart, BidsAreAttributed, DebugUrlsWithinLimits,
         ContributionsWithinLimit
  <2> QED
    BY <2>2, <2>3, <2>4, <2>5, <2>6 DEF ServiceInv, GenerateInv
<1>2. CASE App!Init
  <2>1. /\ conf \in AppConfigs /\ stage = "construct" /\ readable = TRUE /\ cancelled = FALSE
        /\ bound = FALSE /\ backlog = "none" /\ finish = <<>> /\ deleted = FALSE
    BY <1>2 DEF App!Init, App!DispatchInit
  <2>a. prepared = "" /\ bidInput = {} /\ bids = <<>>
    BY <1>2, Zenon DEF App!Init
  <2>2. conf.kind = "pas"
    BY <2>1, AppSignalsAssumption DEF App!AppConfigType
  <2>3. AppCallPart
    <3>1. finish \in Seq(Statuses) /\ Len(finish) = 0
      BY <2>1
    <3>2. Flags
      BY <2>1 DEF Flags
    <3> QED
      BY <2>1, <2>2, <3>1, <3>2 DEF AppCallPart, AppWaiting
  <2>4. SignalsPart
    <3>a. bids = <<>>
      BY <2>a, Zenon
    <3>b. DOMAIN bids = {}
      BY <3>a
    <3>1. App!EgressIsEncoded
      BY <3>b, Zenon DEF App!EgressIsEncoded
    <3>2. App!SignalsInOneForm
      BY <2>a DEF App!SignalsInOneForm
    <3>3. stage = "construct"
      BY <2>1
    <3> QED
      BY <2>a, <3>1, <3>2, <3>3, Zenon DEF SignalsPart
  <2> QED
    BY <2>2, <2>3, <2>4 DEF ServiceInv, AppInv
<1> QED
  BY <1>1, <1>2 DEF ServiceInit

LEMMA StepOfGenerateBids ==
  ASSUME GenerateInv, Work \/ Cancel
  PROVE  GenerateInv' /\ conf' = conf
<1>1. CASE Execute
  BY <1>1, ExecuteKeepsInv DEF Execute
<1>2. CASE BatchDone
  BY <1>2, BatchDoneKeepsInv DEF BatchDone
<1>3. CASE BatchCancelled
  BY <1>3, BatchCancelledKeepsInv DEF BatchCancelled, bidVars
<1>4. CASE ExecuteBinary
  BY <1>4, ExecuteBinaryKeepsInv DEF ExecuteBinary
<1>5. CASE ExecuteForInterestGroup
  BY <1>5, ExecuteForInterestGroupKeepsInv DEF ExecuteForInterestGroup
<1>6. CASE ByobCallback
  BY <1>6, ByobCallbackKeepsInv DEF ByobCallback
<1>7. CASE FinishAgain
  BY <1>7, FinishAgainKeepsInv DEF FinishAgain, bidVars
<1>8. CASE Shared \/ Cancel
  BY <1>8, SharedKeepsInv DEF Shared, Cancel, bidVars
<1> QED
  BY <1>1, <1>2, <1>3, <1>4, <1>5, <1>6, <1>7, <1>8 DEF Work

LEMMA StepOfAppSignals ==
  ASSUME AppInv, App!Work \/ (Cancel /\ UNCHANGED appVars)
  PROVE  AppInv' /\ conf' = conf
<1>1. CASE App!Execute \/ App!ExecuteBinary
  BY <1>1, AppExecuteKeepsInv DEF App!Execute, App!ExecuteBinary, App!bidVars
<1>2. CASE App!PrepareDataForAdRetrievalDone
  BY <1>2, PrepareKeepsInv DEF App!PrepareDataForAdRetrievalDone
<1>3. CASE App!OnFetchAdsDataDone
  BY <1>3, FetchKeepsInv DEF App!OnFetchAdsDataDone
<1>4. CASE App!OnBids
  BY <1>4, OnBidsKeepsInv DEF App!OnBids
<1>5. CASE App!CancelledCallback \/ App!CallbackAfterDone
  BY <1>5, LateCallbackKeepsInv DEF App!CancelledCallback, App!CallbackAfterDone, App!bidVars
<1>6. CASE App!FinishAgain
  <2>1. AppCallPart /\ SignalsPart /\ stage = "finishAgain"
    BY <1>6 DEF AppInv, App!FinishAgain
  <2>2. AppCallPart' /\ stage' = "none" /\ UNCHANGED <<readable, conf, prepared, bidInput, bids>>
    BY <1>6, <2>1, AppFinishAgainKeepsCall
  <2> QED
    BY <2>1, <2>2, UntouchedSignals DEF AppInv
<1>7. CASE App!Shared
  <2>1. DecryptRequest \/ Bind \/ OnDone
    BY <1>7 DEF App!Shared, App!DecryptRequest, App!Finish, App!callVars, App!Bind, App!OnDone,
       DecryptRequest, Finish, callVars, Bind, OnDone
  <2>2. UNCHANGED <<conf, prepared, bidInput, bids>>
    BY <1>7 DEF App!Shared, App!bidVars
  <2> QED
    BY <2>1, <2>2, AppSharedKeepsInv
<1>8. CASE Cancel /\ UNCHANGED appVars
  BY <1>8, AppSharedKeepsInv DEF Cancel, bidVars, appVars
<1> QED
  BY <1>1, <1>2, <1>3, <1>4, <1>5, <1>6, <1>7, <1>8 DEF App!Work

(* A step that changes nothing. *)
LEMMA StutteringCall ==
  ASSUME ServiceInv, UNCHANGED serviceVars
  PROVE  ServiceInv'
<1>1. UNCHANGED <<cancelled, stage, readable, bound, backlog, finish, deleted, conf, requests,
                  returned, deviceSignals, tracker, pending, groupBids, bids, prepared, bidInput>>
  BY DEF serviceVars, vars, dispatchVars, callVars, bidVars, appVars
<1>2. CASE conf.kind = "pas"
  <2>1. AppInv
    BY <1>2 DEF ServiceInv
  <2>2. AppCallPart'
    BY <1>1, <2>1 DEF AppInv, AppCallPart, Flags
  <2>3. SignalsPart'
    BY <1>1, <2>1, UntouchedSignals DEF AppInv
  <2> QED
    BY <1>1, <1>2, <2>2, <2>3 DEF ServiceInv, AppInv
<1>3. CASE conf.kind # "pas"
  <2>1. GenerateInv
    BY <1>3 DEF ServiceInv
  <2>2. CallPart' /\ FirstStatus' = FirstStatus /\ UNCHANGED bidVars
    BY <1>1, <2>1 DEF GenerateInv, CallPart, Flags, FirstStatus, bidVars
  <2>3. GenerateInv'
    BY <1>1, <2>1, <2>2, UntouchedBids
  <2> QED
    BY <1>1, <1>3, <2>3 DEF ServiceInv
<1> QED
  BY <1>2, <1>3

(* The invariant of the calls of the bidding service. *)
THEOREM BiddingInvariance == ServiceSpec => []ServiceInv
<1>1. ServiceInit => ServiceInv
  BY InitialCall
<1>2. ServiceInv /\ [ServiceNext]_serviceVars => ServiceInv'
  <2>1. SUFFICES ASSUME ServiceInv, [ServiceNext]_serviceVars PROVE ServiceInv'
    OBVIOUS
  <2>2. CASE conf.kind # "pas" /\ (Work \/ Cancel)
    <3>1. GenerateInv' /\ conf' = conf
      BY <2>1, <2>2, StepOfGenerateBids DEF ServiceInv
    <3> QED
      BY <2>2, <3>1 DEF ServiceInv
  <2>3. CASE conf.kind = "pas" /\ (App!Work \/ (Cancel /\ UNCHANGED appVars))
    <3>1. AppInv' /\ conf' = conf
      BY <2>1, <2>3, StepOfAppSignals DEF ServiceInv
    <3> QED
      BY <2>3, <3>1 DEF ServiceInv
  <2>4. CASE UNCHANGED serviceVars
    BY <2>1, <2>4, StutteringCall
  <2> QED
    BY <2>1, <2>2, <2>3, <2>4 DEF ServiceNext, GenerateWork, AppWork, Cancellation, Done
<1> QED
  BY <1>1, <1>2, PTL DEF ServiceSpec

(* A call is finished twice only after a failed encryption (or, for app      *)
(* signals, when the request was not decrypted), and a binary call ends OK   *)
(* only when every execution has reported: for any groups and settings, and  *)
(* whatever the UDFs return in whatever order.                               *)
THEOREM BiddingLifeCycleHolds == ServiceSpec => []BiddingLifeCycle
<1>1. ServiceInv => BiddingLifeCycle
  BY GenerateInvIsSafe, AppInvIsSafe DEF ServiceInv, BiddingLifeCycle, TypeOK, OnGenerate,
     OnAppSignals
<1> QED
  BY <1>1, BiddingInvariance, PTL

(* A bid goes out under the interest group whose execution returned it, a    *)
(* request has the device signals of its groups, and generateBid gets the    *)
(* app signals in one form.                                                  *)
THEOREM BidsStayWithTheirGroups == ServiceSpec => []BidsAreTheirGroups
<1>1. ServiceInv => BidsAreTheirGroups
  BY GenerateInvIsSafe, AppInvIsSafe DEF ServiceInv, BidsAreTheirGroups, OnGenerate, OnAppSignals
<1> QED
  BY <1>1, BiddingInvariance, PTL

(* The limits on debug URLs, one and all, and on the contributions of each   *)
(* event type hold of every response, for any limits, and no egress payload  *)
(* leaves as the UDF wrote it.                                               *)
THEOREM LimitsHold == ServiceSpec => []OutputWithinLimits
<1>1. ServiceInv => OutputWithinLimits
  BY GenerateInvIsSafe, AppInvIsSafe DEF ServiceInv, OutputWithinLimits, OnGenerate, OnAppSignals
<1> QED
  BY <1>1, BiddingInvariance, PTL
=============================================================================

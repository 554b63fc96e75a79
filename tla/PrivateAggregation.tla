------------------------- MODULE PrivateAggregation -------------------------
(***************************************************************************)
(* Private aggregation contributions after the auction.  The auction       *)
(* service turns what reportWin and scoreAd return into contributions; the *)
(* seller front end picks, of what the buyers attached to their bids, the  *)
(* contributions of the ghost winners and then of everybody, works out     *)
(* their values and buckets, and encodes all of it, grouped by ad tech,    *)
(* interest group and event, for the client.                               *)
(*                                                                         *)
(* Amounts of money are in halves of a unit, so that truncation shows.  A  *)
(* result is a set: empty for an error, a singleton otherwise.  id tells   *)
(* contributions apart and is no field of the code.                        *)
(***************************************************************************)
EXTENDS Integers, Sequences, SequencesExt, FiniteSets

CONSTANTS
  PAggCases,   \* auctions: [bids, winner, ghosts, reasons, winning, other, docs]
  IgIndex,     \* interest_group_index_map: <<owner, name>> -> index
  PAggLimit    \* per_adtech_paapi_contributions_limit

VARIABLES
  auction,     \* the case
  paBids,      \* the contributions still attached to each bid
  ghostsLeft,  \* ghost winners not yet handled
  reports,     \* top_level_contributions: [origin, contributions] each
  paggStep     \* ghosts, done

paggVars == <<auction, paBids, ghostsLeft, reports, paggStep>>

-----------------------------------------------------------------------------
(* Values and buckets.  A base value is not there when the auction has none. *)

BaseAmount(bv, base) ==
  CASE base = "winning-bid" -> {bv.winning}
    [] base = "highest-scoring-other-bid" -> {bv.other}
    [] base = "bid-rejection-reason" -> {2 * n : n \in bv.reason}
    [] OTHER -> {}

(* The base value is an int before it is scaled. *)
GetPrivateAggregationValuePostAuction(bv, v) ==
  CASE v.kind = "int" -> {v.n}
    [] v.kind = "extended" ->
         {(b \div 2) * v.scale + v.offset : b \in BaseAmount(bv, v.base)}
    [] OTHER -> {}

(* The bucket is scaled first; a negative one is an error. *)
GetPrivateAggregationBucketPostAuction(bv, k) ==
  CASE k.kind = "bits" -> {k.n}
    [] k.kind = "signal" ->
         {n \in {(b * k.scale) \div 2 + k.offset : b \in BaseAmount(bv, k.base)} :
            n >= 0}
    [] OTHER -> {}

-----------------------------------------------------------------------------
(* The auction service: contributions from a UDF's answer. *)

(* kBaseValue names; what is not one of them is refused later. *)
ToBaseValue(name) ==
  IF name \in {"winning-bid", "highest-scoring-other-bid", "script-run-time",
               "signals-fetch-time", "bid-rejection-reason"}
  THEN name ELSE "unspecified"

ParseSignalValue(v) == [v EXCEPT !.base = ToBaseValue(@)]

ParseSignalBucket(k) == [k EXCEPT !.base = ToBaseValue(@)]

(* A contribution may lack its bucket, not its value; both are computed at   *)
(* once, and one that cannot be is an error.                                 *)
ParseAndProcessContribution(bv, c) ==
  LET value == IF c.value.kind = "extended" THEN ParseSignalValue(c.value) ELSE c.value
      bucket == IF c.bucket.kind = "signal" THEN ParseSignalBucket(c.bucket) ELSE c.bucket
      values == GetPrivateAggregationValuePostAuction(bv, value)
      buckets == GetPrivateAggregationBucketPostAuction(bv, bucket)
  IN IF c.bucket.kind = "none"
     THEN {[c EXCEPT !.value = [kind |-> "int", n |-> n], !.event = ""] : n \in values}
     ELSE {[c EXCEPT !.value = [kind |-> "int", n |-> n],
                     !.bucket = [kind |-> "bits", n |-> b], !.event = ""] :
             n \in values, b \in buckets}

(* Only a custom event keeps its name. *)
ProcessAndAppendContributions(contributions, event, bv) ==
  FlattenSeq([i \in DOMAIN contributions |->
    LET c == ParseAndProcessContribution(bv, contributions[i])
    IN IF c = {} THEN <<>>
       ELSE <<[(CHOOSE x \in c : TRUE) EXCEPT !.event = event]>>])

(* doc maps the reserved events to arrays and custom names to arrays. *)
AppendAdEventContributionsToPaggResponse(type, doc, bv) ==
  IF type = "custom"
  THEN FlattenSeq([i \in DOMAIN doc.custom |->
         ProcessAndAppendContributions(doc.custom[i].list, doc.custom[i].name, bv)])
  ELSE ProcessAndAppendContributions(doc[type], "", bv)

HandlePrivateAggregationReporting(doc, bv, won) ==
  IF won
  THEN AppendAdEventContributionsToPaggResponse("win", doc, bv)
       \o AppendAdEventContributionsToPaggResponse("always", doc, bv)
       \o AppendAdEventContributionsToPaggResponse("custom", doc, bv)
  ELSE AppendAdEventContributionsToPaggResponse("loss", doc, bv)
       \o AppendAdEventContributionsToPaggResponse("always", doc, bv)

-----------------------------------------------------------------------------
(* The seller front end: the buyers' contributions. *)

Reserved == {"reserved.win", "reserved.loss", "reserved.always"}
WinEvents(e) == e \notin {"", "reserved.loss"}
LossEvents(e) == e \in {"reserved.loss", "reserved.always"}

FilterWinContributions(cs) == SelectSeq(cs, LAMBDA c : WinEvents(c.event))
FilterLossContributions(cs) == SelectSeq(cs, LAMBDA c : LossEvents(c.event))

GetBaseValues(a) == [winning |-> a.winning, other |-> a.other, reason |-> {}]

Computed(c, bv) ==
  {[c EXCEPT !.value = [kind |-> "int", n |-> n],
             !.bucket = [kind |-> "bits", n |-> b], !.event = ""] :
     n \in GetPrivateAggregationValuePostAuction(bv, c.value),
     b \in GetPrivateAggregationBucketPostAuction(bv, c.bucket)}

(* Contributions whose value and bucket can be computed, in order. *)
GetProcessedAndFilteredContributions(cs, bv, ig) ==
  FlattenSeq([i \in DOMAIN cs |->
    IF Computed(cs[i], bv) = {} THEN <<>>
    ELSE <<[(CHOOSE x \in Computed(cs[i], bv) : TRUE) EXCEPT !.ig = ig]>>])

(* The ones it moved out of the bid are left empty, the others as they were. *)
LeftBehind(cs, bv) == SelectSeq(cs, LAMBDA c : Computed(c, bv) = {})

Ig(b) == <<b.owner, b.ig>>

(* What the auction service put into the winning score: one response for     *)
(* each ad whose scoreAd returned contributions.                             *)
SellerReports ==
  [i \in DOMAIN auction.docs |-> [origin |-> "seller", contributions |->
     HandlePrivateAggregationReporting(auction.docs[i].doc, GetBaseValues(auction),
                                       auction.docs[i].won)]]

PAggInit ==
  /\ auction \in PAggCases
  /\ paBids = [i \in DOMAIN auction.bids |-> auction.bids[i].contributions]
  /\ ghostsLeft = auction.ghosts /\ reports = SellerReports /\ paggStep = "ghosts"

(* The bids of the ghost's interest group are filtered until one yields      *)
(* something.                                                                *)
GhostBids(g) ==
  {i \in DOMAIN auction.bids : Ig(auction.bids[i]) = g /\ paBids[i] # <<>>
                               /\ g \in DOMAIN IgIndex}

GhostBaseValues == [winning |-> 0, other |-> 0, reason |-> {1}]  \* k-anonymity

GhostYield(i) ==
  GetProcessedAndFilteredContributions(FilterLossContributions(paBids[i]),
    GhostBaseValues, IgIndex[Ig(auction.bids[i])])

HandlePrivateAggregationContributionsForGhostWinner ==
  /\ paggStep = "ghosts" /\ ghostsLeft # <<>>
  /\ LET bs == GhostBids(Head(ghostsLeft))
         hits == {i \in bs : GhostYield(i) # <<>>}
         hit == CHOOSE i \in hits : \A j \in hits : i <= j
         seen == IF hits = {} THEN bs ELSE {i \in bs : i <= hit}
     IN /\ paBids' = [i \in DOMAIN paBids |->
             IF i \in seen
             THEN LeftBehind(FilterLossContributions(paBids[i]), GhostBaseValues)
             ELSE paBids[i]]
        /\ reports' = IF hits = {} THEN reports
                      ELSE Append(reports, [origin |-> Head(ghostsLeft)[1],
                                            contributions |-> GhostYield(hit)])
  /\ ghostsLeft' = Tail(ghostsLeft)
  /\ UNCHANGED <<auction, paggStep>>

(* Mutant: a loser's contributions are filtered as the winner's. *)
BuyerContributionsAllWin(owner) ==
  FlattenSeq([i \in DOMAIN auction.bids |->
    IF auction.bids[i].owner # owner \/ Ig(auction.bids[i]) \notin DOMAIN IgIndex
    THEN <<>>
    ELSE GetProcessedAndFilteredContributions(FilterWinContributions(paBids[i]),
           GetBaseValues(auction), IgIndex[Ig(auction.bids[i])])])

(* One buyer's part of the winner's report.  Whoever has the winner's owner  *)
(* and interest group has won; the first rejection reason of a loser counts. *)
BuyerContributions(owner) ==
  FlattenSeq([i \in DOMAIN auction.bids |->
    LET b == auction.bids[i]
        won == Ig(b) = auction.winner
        bv == IF won THEN GetBaseValues(auction)
              ELSE [GetBaseValues(auction) EXCEPT !.reason =
                      IF Ig(b) \in DOMAIN auction.reasons
                      THEN {auction.reasons[Ig(b)]} ELSE {}]
        kept == IF won THEN FilterWinContributions(paBids[i])
                ELSE FilterLossContributions(paBids[i])
    IN IF b.owner # owner \/ Ig(b) \notin DOMAIN IgIndex THEN <<>>
       ELSE GetProcessedAndFilteredContributions(kept, bv, IgIndex[Ig(b)])])

Owners == {auction.bids[i].owner : i \in DOMAIN auction.bids}

HandlePrivateAggregationContributions ==
  /\ paggStep = "ghosts" /\ ghostsLeft = <<>> /\ paggStep' = "done"
  /\ reports' = reports \o
       [k \in 1..Cardinality({o \in Owners : BuyerContributions(o) # <<>>}) |->
          LET o == SetToSeq({x \in Owners : BuyerContributions(x) # <<>>})[k]
          IN [origin |-> o, contributions |-> BuyerContributions(o)]]
  /\ UNCHANGED <<auction, paBids, ghostsLeft>>

PAggNext ==
  \/ HandlePrivateAggregationContributionsForGhostWinner
  \/ HandlePrivateAggregationContributions

-----------------------------------------------------------------------------
(* Encoding.  An array made from an unordered map is a set of entries; a map *)
(* is a sequence of pairs, because the decoder reads them in order.          *)

GroupContributionsByAdTech(rs) ==
  [o \in {rs[i].origin : i \in DOMAIN rs} |->
     LET all == FlattenSeq([i \in DOMAIN rs |->
                  IF rs[i].origin = o THEN rs[i].contributions ELSE <<>>])
     IN SubSeq(all, 1, IF Len(all) < PAggLimit THEN Len(all) ELSE PAggLimit)]

(* A bucket is two words, low word first; its byte string has the high word  *)
(* first and each word's most significant byte first.  A word has two bytes  *)
(* of one bit here, instead of eight of eight.                               *)
Byte == 2
Word == Byte * Byte
BigEndian(w) == <<w \div Byte, w % Byte>>
ConvertIntArrayToByteString(n) == BigEndian(n \div Word) \o BigEndian(n % Word)
GetBucketFromByteString(b) == (b[3] * Byte + b[4]) + Word * (b[1] * Byte + b[2])

CborSerializePAggContribution(c) ==
  [c EXCEPT !.bucket = [kind |-> "bytes", bytes |-> ConvertIntArrayToByteString(@.n)]]

(* One that lacks its value or bucket is left out. *)
CborSerializePAggContributionList(cs) ==
  LET whole == SelectSeq(cs, LAMBDA c : c.value.kind = "int" /\ c.bucket.kind = "bits")
  IN [i \in DOMAIN whole |-> CborSerializePAggContribution(whole[i])]

(* Only an event outside the reserved names is written. *)
CborSerializePAggEventContributions(cs) ==
  {LET list == CborSerializePAggContributionList(SelectSeq(cs, LAMBDA c : c.event = e))
   IN IF e \in Reserved THEN <<<<"contributions", list>>>>
      ELSE <<<<"event", e>>, <<"contributions", list>>>> :
     e \in {cs[i].event : i \in DOMAIN cs}}


(* -1 stands for a contribution without an interest group index. *)
CborSerializeIgContributions(cs) ==
  {LET list == SelectSeq(cs, LAMBDA c : c.ig = g)
       ev == <<"eventContributions", CborSerializePAggEventContributions(list)>>
   IN IF g = -1 THEN <<ev>> ELSE <<<<"igIndex", g>>, ev>> :
     g \in {cs[i].ig : i \in DOMAIN cs}}

CborSerializePAggResponse(rs) ==
  LET groups == GroupContributionsByAdTech(rs)
  IN {<<<<"igContributions", CborSerializeIgContributions(groups[o])>>,
        <<"reportingOrigin", o>>>> : o \in DOMAIN groups}

(* Each decoder carries the last event name or index it has seen. *)
DecodePrivateAggEvent(name) == name

CborDecodePAggContribution(c) ==
  [c EXCEPT !.bucket = [kind |-> "bits", n |-> GetBucketFromByteString(@.bytes)]]

CborDecodePAggContributionList(list, name, g) ==
  [i \in DOMAIN list |-> [CborDecodePAggContribution(list[i]) EXCEPT
                            !.event = DecodePrivateAggEvent(name), !.ig = g]]

CborDecodePAggEventContributions(entries, g) ==
  FlattenSeq(SetToSeq({FoldLeft(LAMBDA acc, p :
      IF p[1] = "event" THEN [acc EXCEPT !.name = p[2]]
      ELSE [acc EXCEPT !.out = @ \o CborDecodePAggContributionList(p[2], acc.name, g)],
      [name |-> "", out |-> <<>>], e).out : e \in entries}))

CborDecodePAggIgContributions(entries) ==
  FlattenSeq(SetToSeq({FoldLeft(LAMBDA acc, p :
      IF p[1] = "igIndex" THEN [acc EXCEPT !.g = p[2]]
      ELSE [acc EXCEPT !.out = @ \o CborDecodePAggEventContributions(p[2], acc.g)],
      [g |-> -1, out |-> <<>>], e).out : e \in entries}))

CborDecodePAggResponse(entries) ==
  {FoldLeft(LAMBDA acc, p :
     IF p[1] = "reportingOrigin" THEN [acc EXCEPT !.origin = p[2]]
     ELSE [acc EXCEPT !.contributions = @ \o CborDecodePAggIgContributions(p[2])],
     [origin |-> "", contributions |-> <<>>], e) : e \in entries}

-----------------------------------------------------------------------------
(* Properties. *)

ReportedIds(rs) ==
  FlattenSeq([i \in DOMAIN rs |->
    [k \in DOMAIN rs[i].contributions |-> rs[i].contributions[k].id]])

Original(id) ==
  CHOOSE x \in {<<i, k>> : i \in DOMAIN auction.bids, k \in 1..3} :
    /\ x[2] \in DOMAIN auction.bids[x[1]].contributions
    /\ auction.bids[x[1]].contributions[x[2]].id = id

(* Ghost winners are handled first, on the same bids: still nothing that a   *)
(* buyer contributed is reported twice, a win or custom event is reported    *)
(* for the winner's interest group only and a loss event for the others, and *)
(* every report goes to the buyer whose bid it came from.                    *)
ContributionsReportedOnce ==
  LET ids == ReportedIds(reports) IN
  /\ \A i, j \in DOMAIN ids : ids[i] = ids[j] => i = j
  /\ \A i \in DOMAIN reports : reports[i].origin # "seller" =>
       \A k \in DOMAIN reports[i].contributions :
       LET x == Original(reports[i].contributions[k].id)
           b == auction.bids[x[1]]
           e == b.contributions[x[2]].event
       IN /\ b.owner = reports[i].origin
          /\ reports[i].contributions[k].ig = IgIndex[Ig(b)]
          /\ e \notin {"reserved.loss", "reserved.always"} => Ig(b) = auction.winner
          /\ e = "reserved.loss" =>
               Ig(b) # auction.winner \/ Ig(b) \in {auction.ghosts[n] : n \in DOMAIN auction.ghosts}

(* What the winner's buyer asked to have reported of a win is reported, with *)
(* one exception: another bid of its interest group is a ghost winner, whose *)
(* handling drops the group's win contributions before the winner's turn.    *)
WinIsReported ==
  paggStep = "done" /\ auction.winner \notin {auction.ghosts[n] : n \in DOMAIN auction.ghosts} =>
    \A i \in DOMAIN auction.bids : Ig(auction.bids[i]) = auction.winner =>
      \A k \in DOMAIN auction.bids[i].contributions :
        LET c == auction.bids[i].contributions[k]
        IN WinEvents(c.event) /\ Computed(c, GetBaseValues(auction)) # {} =>
             c.id \in {ReportedIds(reports)[n] : n \in DOMAIN ReportedIds(reports)}

Erased(e) == IF e \in Reserved THEN "" ELSE e

Count(s, x) == Cardinality({i \in DOMAIN s : s[i] = x})

(* Decoding what was encoded gives, for each ad tech, the contributions      *)
(* within its limit that have a value and a bucket, each once, with its      *)
(* interest group and its custom event; reserved events are not told.        *)
PAggRoundTrip(rs) ==
  LET out == CborDecodePAggResponse(CborSerializePAggResponse(rs))
      groups == GroupContributionsByAdTech(rs)
  IN /\ {r.origin : r \in out} = DOMAIN groups
     /\ \A r \in out :
          LET kept == SelectSeq(groups[r.origin], LAMBDA c :
                        c.value.kind = "int" /\ c.bucket.kind = "bits")
              want == [i \in DOMAIN kept |-> [kept[i] EXCEPT !.event = Erased(@)]]
          IN /\ Len(r.contributions) = Len(want)
             /\ \A i \in DOMAIN want : Count(r.contributions, want[i]) = Count(want, want[i])
=============================================================================

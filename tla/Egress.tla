------------------------------- MODULE Egress -------------------------------
(***************************************************************************)
(* Egress vectors of the protected app signals auction.  A schema, fetched *)
(* periodically and kept in EgressSchemaCache, lists the features; the ad  *)
(* tech's generateBid returns a value for each; the reactor gets a copy of *)
(* the cached features, sets the values and packs the bits into bytes,     *)
(* last feature in the first byte, with a header byte after them.          *)
(*                                                                         *)
(* A result is a set: empty for an error, a singleton otherwise.           *)
(***************************************************************************)
EXTENDS Integers, Sequences, SequencesExt

CONSTANTS
  EgressSchemas,  \* schemas that may be fetched: [version, features]
  EgressPayloads, \* what generateBid may return: [name, value] for each feature
  EgressReqs,     \* concurrent requests
  EgressBitLimit  \* egress_bit_limit

VARIABLES
  schemaCache,    \* version_features_ of the one schema id: {} or {schema}
  egress          \* per request: its step, its copy, its payload, its vector

egressVars == <<schemaCache, egress>>

FeatureTypes == {"boolean", "signed", "unsigned", "bucket", "histogram"}
Zeros(n) == [i \in 1..n |-> 0]
Total(s) == FoldSeq(LAMBDA x, y : x + y, 0, s)

-----------------------------------------------------------------------------
(* Features.  A feature has a name (its type), a size and, for a histogram,  *)
(* the schema of its buckets.  The value of a payload is a set too, empty    *)
(* when there is none of the type the feature's name calls for.              *)

(* A schema entry without a size takes the size of a boolean. *)
CreateEgressFeature(entry) ==
  IF entry.name \in FeatureTypes
  THEN {[name |-> entry.name, size |-> entry.size, buckets |-> entry.buckets,
         set |-> FALSE, value |-> {}]}
  ELSE {}

ExtractFeatures(entries) ==
  IF \A i \in DOMAIN entries : CreateEgressFeature(entries[i]) # {}
  THEN {[i \in DOMAIN entries |-> CHOOSE f \in CreateEgressFeature(entries[i]) : TRUE]}
  ELSE {}

HistogramSize(buckets) == Total([i \in DOMAIN buckets |-> buckets[i].size])

FeatureSize(f) == IF f.name = "histogram" THEN HistogramSize(f.buckets) ELSE f.size

(* Most significant bit first; what does not fit is lost. *)
UnsignedIntToBits(num, n) == [i \in 1..n |-> (num \div 2^(n - i)) % 2]

SerializeBoolean(value) == {<<IF v THEN 1 ELSE 0>> : v \in value}

SerializeUnsigned(value, size) ==
  {UnsignedIntToBits(v, size) : v \in {n \in value : n <= 2^size - 1}}

(* Mutant: the sign bit of a negative value is not set. *)
SerializeSignedNoSign(value, size) ==
  {UnsignedIntToBits(IF v < 0 THEN v + 2^(size - 1) ELSE v, size) :
     v \in {n \in value : n < 2^(size - 1) /\ n >= -(2^(size - 1))}}

SerializeSigned(value, size) ==
  {IF v < 0 THEN [UnsignedIntToBits(v + 2^(size - 1), size) EXCEPT ![1] = 1]
   ELSE UnsignedIntToBits(v, size) :
     v \in {n \in value : n < 2^(size - 1) /\ n >= -(2^(size - 1))}}

(* Bits of the parts of a bucket or histogram feature, last part first. *)
LastFirst(parts) ==
  IF {} \in Range(parts) THEN {}
  ELSE {FlattenSeq(Reverse([i \in DOMAIN parts |-> CHOOSE b \in parts[i] : TRUE]))}

SerializeBucket(value, size) ==
  UNION {LastFirst([i \in 1..size |-> SerializeBoolean(vs[i])]) :
           vs \in {s \in value : Len(s) = size}}

(* Histogram buckets carry their own names, which SetValue compares. *)
SerializeHistogram(value, buckets) ==
  UNION {LastFirst([i \in DOMAIN vs |->
           CASE vs[i].name # buckets[i].name -> {}
             [] buckets[i].name = "unsigned" ->
                  SerializeUnsigned(vs[i].value, buckets[i].size)
             [] buckets[i].name = "signed" ->
                  SerializeSigned(vs[i].value, buckets[i].size)
             [] OTHER -> {}]) :
           vs \in {s \in value : Len(s) = Len(buckets)}}

Serialize(f) ==
  CASE ~f.set -> {Zeros(IF f.name = "boolean" THEN 1 ELSE FeatureSize(f))}
    [] f.set /\ f.name = "boolean" -> SerializeBoolean(f.value)
    [] f.set /\ f.name = "unsigned" -> SerializeUnsigned(f.value, f.size)
    [] f.set /\ f.name = "signed" -> SerializeSigned(f.value, f.size)
    [] f.set /\ f.name = "bucket" -> SerializeBucket(f.value, f.size)
    [] f.set /\ f.name = "histogram" -> SerializeHistogram(f.value, f.buckets)

-----------------------------------------------------------------------------
(* The vector. *)

SetValue(f, payload) ==
  IF payload.name = f.name THEN {[f EXCEPT !.set = TRUE, !.value = payload.value]}
  ELSE {}

PopulateValuesForEgressFeatures(payload, features) ==
  IF Len(payload) # Len(features)
     \/ \E i \in DOMAIN payload : SetValue(features[i], payload[i]) = {} THEN {}
  ELSE {[i \in DOMAIN features |->
           CHOOSE f \in SetValue(features[i], payload[i]) : TRUE]}

(* uint8_t: three bits of version over five of protocol, which is 0. *)
GetEgressVectorHeader(version) == (version * 32) % 256

(* bits, in the order they are laid down, fill the last byte first, each     *)
(* byte from its least significant bit.                                      *)
Pack(bits, bytes) ==
  [i \in 1..bytes |->
     Total([b \in 1..8 |-> LET k == (bytes - i) * 8 + b IN
            IF k <= Len(bits) THEN bits[k] * 2^(b - 1) ELSE 0])]

BytesFor(total) == IF total % 8 # 0 THEN total \div 8 + 1 ELSE total \div 8

(* Each feature's bits are laid down from its last. *)
SerializeEgressFeatures(version, features) ==
  LET total == Total([i \in DOMAIN features |-> FeatureSize(features[i])])
      parts == [i \in DOMAIN features |-> Serialize(features[i])]
  IN IF total = 0 \/ total > EgressBitLimit THEN {<<>>}
     ELSE IF {} \in Range(parts) THEN {}
     ELSE LET bits == FlattenSeq([i \in DOMAIN parts |->
                                    Reverse(CHOOSE b \in parts[i] : TRUE)])
          IN {Append(Pack(bits, BytesFor(total)), GetEgressVectorHeader(version))}

-----------------------------------------------------------------------------
(* The cache and the requests that use it. *)

EgressInit ==
  /\ schemaCache = {}
  /\ egress \in [EgressReqs ->
       {[at |-> "start", copy |-> [version |-> 0, features |-> <<>>],
         payload |-> p, out |-> {}] : p \in EgressPayloads}]

(* Update: a schema with a type nobody knows leaves the old one in place. *)
UpdateEgressSchema ==
  \E s \in EgressSchemas :
    /\ \/ ExtractFeatures(s.features) = {} /\ UNCHANGED schemaCache
       \/ \E fs \in ExtractFeatures(s.features) :
            schemaCache' = {[version |-> s.version, features |-> fs]}
    /\ UNCHANGED egress

(* Get returns a copy of every feature, under the reader lock. *)
GetEgressSchema(r) ==
  /\ egress[r].at = "start"
  /\ \/ /\ schemaCache = {}
        /\ egress' = [egress EXCEPT ![r].at = "failed"]
     \/ \E s \in schemaCache :
          egress' = [egress EXCEPT ![r].at = "copied", ![r].copy = s]
  /\ UNCHANGED schemaCache

PopulateEgress(r) ==
  /\ egress[r].at = "copied"
  /\ LET fs == PopulateValuesForEgressFeatures(egress[r].payload,
                                               egress[r].copy.features)
     IN egress' = [egress EXCEPT
          ![r].at = IF fs = {} THEN "failed" ELSE "populated",
          ![r].copy.features = IF fs = {} THEN @ ELSE CHOOSE x \in fs : TRUE]
  /\ UNCHANGED schemaCache

SerializeEgress(r) ==
  /\ egress[r].at = "populated"
  /\ LET out == SerializeEgressFeatures(egress[r].copy.version,
                                        egress[r].copy.features)
     IN egress' = [egress EXCEPT ![r].at = IF out = {} THEN "failed" ELSE "done",
                                 ![r].out = out]
  /\ UNCHANGED schemaCache

EgressNext ==
  \/ UpdateEgressSchema
  \/ \E r \in EgressReqs :
       GetEgressSchema(r) \/ PopulateEgress(r) \/ SerializeEgress(r)

-----------------------------------------------------------------------------
(* Reading a vector back. *)

BitAt(bytes, k) == (bytes[Len(bytes) - 1 - (k \div 8)] \div 2^(k % 8)) % 2

(* Positions of a number in the vector, least significant bit first. *)
Unsigned(bytes, from, size) ==
  Total([i \in 1..size |-> BitAt(bytes, from + i - 1) * 2^(i - 1)])

Signed(bytes, from, size) ==
  LET u == Unsigned(bytes, from, size)
  IN IF u >= 2^(size - 1) THEN u - 2^size ELSE u

Decode(bytes, from, f) ==
  CASE f.name = "boolean" -> {BitAt(bytes, from) = 1}
    [] f.name = "unsigned" -> {Unsigned(bytes, from, f.size)}
    [] f.name = "signed" -> {Signed(bytes, from, f.size)}
    [] f.name = "bucket" -> {[i \in 1..f.size |-> {BitAt(bytes, from + i - 1) = 1}]}
    [] f.name = "histogram" ->
         {[i \in DOMAIN f.buckets |->
            LET at == from + Total([j \in 1..(i - 1) |-> f.buckets[j].size])
            IN [name |-> f.buckets[i].name,
                value |-> {IF f.buckets[i].name = "signed"
                           THEN Signed(bytes, at, f.buckets[i].size)
                           ELSE Unsigned(bytes, at, f.buckets[i].size)}]]}

(* The schema with the header's version tells how to read a vector: whoever  *)
(* does so finds the values generateBid returned for this request, whatever  *)
(* other requests set and whenever the schema was replaced, and no vector    *)
(* holds more bits than the limit.                                           *)
EgressVectorReadsBack ==
  \A r \in EgressReqs : egress[r].at = "done" => \A bytes \in egress[r].out :
    bytes # <<>> => \E s \in EgressSchemas :
      /\ bytes[Len(bytes)] = GetEgressVectorHeader(s.version)
      /\ Len(s.features) = Len(egress[r].payload)
      /\ 8 * (Len(bytes) - 2) < EgressBitLimit
      /\ \A i \in DOMAIN s.features :
           egress[r].payload[i].value =
             Decode(bytes, Total([j \in 1..(i - 1) |-> FeatureSize(s.features[j])]),
                    s.features[i])
=============================================================================

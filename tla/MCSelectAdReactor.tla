------------------------- MODULE MCSelectAdReactor -------------------------
(* Small instances of SelectAdReactor: three buyers, three bids. *)
EXTENDS SelectAdReactor, TLC

CONSTANTS b1, b2, b3, x1, x2, y1, h1, h2

MCConfigured == {b1, b2, b3}

(* x2 has the wrong currency; y1 has no URL and shares a hash with x1. *)
MCBidInfo ==
  x1 :> [owner |-> b1, mismatch |-> FALSE, url |-> TRUE, hashes |-> {h1, h2}] @@
  x2 :> [owner |-> b1, mismatch |-> TRUE, url |-> TRUE, hashes |-> {h1}] @@
  y1 :> [owner |-> b2, mismatch |-> FALSE, url |-> FALSE, hashes |-> {h2}]

Base ==
  {c \in ConfigType : /\ ~c.genuine /\ ~c.badPriority /\ ~c.cborFails
                      /\ ~c.v2 /\ ~c.kvLog}

(* Buyer fan-out with chaff and the invoked-buyers cache but no k-anon or   *)
(* signals; the parallel k-anon query and V1 lookup, without cancellation,  *)
(* and each of the two alone with it.                                       *)
V1Configs ==
  {c \in Base : \/ ~c.kanon /\ ~c.fetch /\ (c.cache => c.chaffing)
                \/ /\ ~c.chaffing /\ ~c.cache
                   /\ ~(c.cancellation /\ c.kanon /\ c.fetch)}

(* V2 lookups, cancelled lookups beside a k-anon query, KV logging, the      *)
(* Microsoft join, malformed priority signals, a failing CBOR encoder.      *)
OtherConfigs ==
  {c \in ConfigType : /\ ~c.chaffing /\ ~c.cache /\ c.fetch
                      /\ c.v2 \/ (c.kanon /\ c.cancellation)
                      /\ c.cborFails => ~c.kvLog /\ ~c.genuine /\ ~c.badPriority}

MCConfigs == V1Configs \cup OtherConfigs
=============================================================================

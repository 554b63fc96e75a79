------------------------- MODULE ComponentCiphertexts -------------------------
(***************************************************************************)
(* The seller front end's tables of buyers, component sellers and public   *)
(* key endpoints, read once at start-up, and the call that re-encrypts the *)
(* device's request for each component seller.  A JSON object is a         *)
(* sequence of [name, value]; a name is [base, upper], upper when it has   *)
(* capital letters; {} is a failure.                                       *)
(***************************************************************************)
EXTENDS Integers, Sequences, SequencesExt, FiniteSets

CONSTANTS
  ConfigCases,      \* [buyers, sellers, endpoints, testMode]
  CiphertextCases,  \* [sellers, ciphertext]
  Platforms

VARIABLES
  sellerConf,    \* the parameters
  buyerTable,    \* ig owner -> platform
  sellerTable,   \* seller_cloud_platforms_map_
  keyPlatforms,  \* the platforms whose public keys can be fetched
  cipherRequest, cipherResponse, cipherStep

cipherVars == <<sellerConf, buyerTable, sellerTable, keyPlatforms, cipherRequest,
                cipherResponse, cipherStep>>

Names(json) == [i \in DOMAIN json |-> json[i].name]
Distinct(json) == \A i, j \in DOMAIN json : i # j => json[i].name # json[j].name
Table(json) ==
  [n \in {json[i].name : i \in DOMAIN json} |->
     json[CHOOSE i \in DOMAIN json : json[i].name = n].value]

StringToCloudPlatform(p) == IF p \in Platforms THEN {p} ELSE {}

Malformed(json) ==
  \E i \in DOMAIN json : json[i].name.base = "" \/ StringToCloudPlatform(json[i].value) = {}

(* A buyer table must have an entry, a seller table need not. *)
ParseIgOwnerToBfeDomainMap(json) ==
  IF json = <<>> \/ Malformed(json) \/ ~Distinct(json) THEN {} ELSE {Table(json)}
ParseSellerToCloudPlatformInMap(json) ==
  IF Malformed(json) \/ ~Distinct(json) THEN {} ELSE {Table(json)}

(* No endpoint can be given for the local platform; of two endpoints of one  *)
(* platform the first is kept.                                               *)
ParseCloudPlatformPublicKeysMap(json) ==
  IF \E i \in DOMAIN json : json[i].name \notin Platforms \ {"local"} \/ ~json[i].allowed THEN {}
  ELSE {{json[i].name : i \in DOMAIN json}}

(* Mutant: the buyers' platforms are not looked up. *)
ValidateSfePublicKeyEndpointsNever(platforms, buyers) == TRUE
ValidateSfePublicKeyEndpoints(platforms, buyers) ==
  \A b \in DOMAIN buyers : buyers[b] \in platforms

(* Test mode has keys for every platform. *)
CreateSfePublicKeyFetcher(conf, buyers) ==
  IF conf.testMode THEN {Platforms}
  ELSE {p \in ParseCloudPlatformPublicKeysMap(conf.endpoints) :
          ValidateSfePublicKeyEndpoints(p, buyers)}

(* Parsing, the key id, the private key and the decryption may each fail. *)
DecryptOHTTPEncapsulatedHpkeCiphertext(c) == IF c.flaw = "" THEN {c.plaintext} ELSE {}

HpkeEncryptAndOHTTPEncapsulate(plaintext, platform) ==
  IF platform \in keyPlatforms THEN {[plaintext |-> plaintext, platform |-> platform]} ELSE {}

-----------------------------------------------------------------------------
CipherInit ==
  /\ sellerConf \in ConfigCases /\ cipherRequest \in CiphertextCases
  /\ buyerTable = <<>> /\ sellerTable = <<>> /\ keyPlatforms = {}
  /\ cipherResponse = <<>> /\ cipherStep = "off"

(* RunServer reads the tables; any that cannot be read ends the server. *)
StartSeller ==
  /\ cipherStep = "off"
  /\ LET buyers == ParseIgOwnerToBfeDomainMap(sellerConf.buyers)
         sellers == ParseSellerToCloudPlatformInMap(sellerConf.sellers)
         keys(b) == CreateSfePublicKeyFetcher(sellerConf, b)
     IN IF buyers = {} \/ sellers = {} \/ \E b \in buyers : keys(b) = {}
        THEN cipherStep' = "failed" /\ UNCHANGED <<buyerTable, sellerTable, keyPlatforms>>
        ELSE /\ \E b \in buyers : buyerTable' = b /\ \E k \in keys(b) : keyPlatforms' = k
             /\ \E s \in sellers : sellerTable' = s
             /\ cipherStep' = "serving"
  /\ UNCHANGED <<sellerConf, cipherRequest, cipherResponse>>

Lower(name) == [name EXCEPT !.upper = FALSE]

(* Sellers that are not configured, and names that came before, are passed   *)
(* over; a seller that cannot be encrypted for ends the call, with what has  *)
(* been encrypted left in the response.                                      *)
Reencrypt(plaintext) ==
  FoldLeft(LAMBDA st, s :
    LET e == HpkeEncryptAndOHTTPEncapsulate(plaintext, sellerTable[Lower(s)])
    IN IF st.failed \/ Lower(s) \notin DOMAIN sellerTable
          \/ (\E i \in DOMAIN st.out : st.out[i].seller = s) THEN st
       ELSE IF e = {} THEN [st EXCEPT !.failed = TRUE]
       ELSE [st EXCEPT !.out = Append(@, [seller |-> s, message |-> CHOOSE x \in e : TRUE])],
    [out |-> <<>>, failed |-> FALSE], cipherRequest.sellers)

CiphertextsExecute ==
  /\ cipherStep = "serving"
  /\ LET plain == DecryptOHTTPEncapsulatedHpkeCiphertext(cipherRequest.ciphertext)
         status == IF sellerTable = <<>> THEN "UNIMPLEMENTED"
                   ELSE IF cipherRequest.sellers = <<>> \/ cipherRequest.ciphertext.flaw = "empty"
                           \/ plain = {} THEN "INVALID_ARGUMENT" ELSE "OK"
     IN IF status # "OK" THEN cipherStep' = status /\ UNCHANGED cipherResponse
        ELSE \E p \in plain : \E r \in {Reencrypt(p)} :
               /\ cipherResponse' = r.out
               /\ cipherStep' = IF r.failed THEN "INTERNAL" ELSE "OK"
  /\ UNCHANGED <<sellerConf, buyerTable, sellerTable, keyPlatforms, cipherRequest>>

CipherNext == StartSeller \/ CiphertextsExecute

-----------------------------------------------------------------------------
(* A server that came up can encrypt for every buyer it may call. *)
BuyersHaveKeys ==
  cipherStep \notin {"off", "failed"} =>
    \A b \in DOMAIN buyerTable : buyerTable[b] \in keyPlatforms

(* A successful answer holds, under every name the request used for a        *)
(* configured seller, the device's request for that seller's platform, and   *)
(* nothing else.                                                             *)
EverySellerServed ==
  cipherStep = "OK" =>
    LET asked == {s \in {cipherRequest.sellers[i] : i \in DOMAIN cipherRequest.sellers} :
                    Lower(s) \in DOMAIN sellerTable}
    IN /\ {cipherResponse[i].seller : i \in DOMAIN cipherResponse} = asked
       /\ Len(cipherResponse) = Cardinality(asked)
       /\ \A i \in DOMAIN cipherResponse :
            cipherResponse[i].message =
              [plaintext |-> cipherRequest.ciphertext.plaintext,
               platform |-> sellerTable[Lower(cipherResponse[i].seller)]]
=============================================================================

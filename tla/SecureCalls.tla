----------------------------- MODULE SecureCalls -----------------------------
(***************************************************************************)
(* One remote call from a server to another, as the clients make it: the   *)
(* request is encrypted, the parameters of the call are put on the heap,   *)
(* grpc calls back, the response is decrypted and the caller's callback is *)
(* run.  The calls of GetBids carry the framing of chaff requests, which   *)
(* the buyer front end reads and answers; the calls of the k-anonymity     *)
(* service end in its reactors; the seller's join goes through the buyer   *)
(* front end, which makes a call of its own.  A text of bytes is a record: *)
(* a serialised message, gzip of bytes, or a frame.  An option is a set of *)
(* at most one element.                                                    *)
(***************************************************************************)
EXTENDS Integers, Sequences

CONSTANTS
  CallCases,   \* a sequence of [clients, faults, chaff, bids, apps, fields]
  UrlHash,     \* std::hash of a render URL
  PadSize,     \* the least size of a chaff payload
  ZipSize,     \* the length of compressed data
  ProtoSize    \* the length of a message that is not empty

VARIABLES
  callCase,
  rpcStage,    \* of each call: "idle" "refused" "sent" "served" "heard" "done"
  rpcParams,   \* of each call: "none" "heap" "freed"
  rpcContext,  \* of each call's ClientContext: "none" "owned" "freed"
  wire,        \* the plain text of each call's request: an option
  rpcReply,    \* [status, bytes, hashes] of each call, from the server
  heard,       \* what each call's callback was given, in order
  rpcFinishes, \* the statuses each call's reactor finished with, in order
  clientLife,  \* "up", "closing" (in its destructor), "gone"
  activeCalls, \* active_calls_count_
  kAnonBids,   \* microsoft_is_k_anon of the bids and the app signals bids
  aborted

callVars == <<callCase, rpcStage, rpcParams, rpcContext, wire, rpcReply, heard, rpcFinishes,
              clientLife, activeCalls, kAnonBids, aborted>>

(* The faults that a call of each client can meet: a request that cannot   *)
(* be made, one that the server cannot read or answer, and an answer that  *)
(* cannot be read.                                                         *)
SendFaults == {"noPublicKey", "encryptRefused", "encryptFailed"}
ServeFaults == {"noKeyId", "noCiphertext", "unknownKey", "badCiphertext", "replyNotEncrypted"}
AnswerFaults == {"replyRefused", "replyFailed"}
FaultsOf(client) ==
  {"none", "lost"} \cup
    CASE client \in {"bidding", "scoring"} -> SendFaults \cup AnswerFaults \cup {"badReply"}
      [] client = "keyValue" -> {"noPublicKey", "badKeyText", "notPadded", "encryptFailed",
                                 "badFrame", "badReply"} \cup AnswerFaults
      [] client = "buyer" -> SendFaults \cup ServeFaults \cup AnswerFaults
      [] client = "kAnonQuery" -> SendFaults \cup ServeFaults \cup AnswerFaults \cup {"badMessage"}
      [] client \in {"kAnonJoin", "buyerJoin"} -> SendFaults \cup ServeFaults \cup {"badMessage"}
      [] OTHER -> {}

Clients == {"bidding", "scoring", "keyValue", "buyer", "kAnonQuery", "kAnonJoin", "buyerJoin",
            "kAnon", "seller"}

(* One call; any number of calls of one client that counts them; or the    *)
(* seller's join and the one that the buyer front end makes for it.  Only  *)
(* a seller with chaffing on sends chaff.                                  *)
ASSUME CallCasesAreCalls ==
  /\ PadSize \in Nat \ {0} /\ ZipSize \in Nat \ {0} /\ ProtoSize \in Nat \ {0}
  /\ \A k \in DOMAIN CallCases : LET d == CallCases[k] IN
       /\ d.clients \in Seq(Clients) /\ d.clients # <<>> /\ DOMAIN d.faults = DOMAIN d.clients
       /\ \A i \in DOMAIN d.clients : d.faults[i] \in FaultsOf(d.clients[i])
       /\ \/ Len(d.clients) = 1 /\ d.clients[1] # "buyerJoin"
          \/ d.clients = <<"buyerJoin", "kAnonJoin">>
          \/ \A i \in DOMAIN d.clients : d.clients[i] \in {"kAnon", "seller"}
       /\ d.chaff \in [seller : BOOLEAN, buyer : BOOLEAN, generator : BOOLEAN, request : BOOLEAN]
       /\ d.chaff.request => d.chaff.seller
       /\ d.bids \in Seq(DOMAIN UrlHash) /\ d.apps \in Seq(DOMAIN UrlHash)

Dial == CallCases[callCase]
Calls == DOMAIN Dial.clients
The(s) == CHOOSE x \in s : TRUE

-----------------------------------------------------------------------------
(* Bytes. *)
Proto(m) == [kind |-> "proto", msg |-> m]
Gzip(b) == [kind |-> "gzip", of |-> b]
NotAMessage == [kind |-> "garbage"]
SizeOf(b) ==
  CASE b.kind = "gzip" -> ZipSize
    [] b.kind = "proto" /\ b.msg = "noBids" -> 0
    [] OTHER -> ProtoSize

Compress(b, type) == IF type = "gzip" THEN Gzip(b) ELSE b

(* What follows the end of the stream is not looked at. *)
GzipDecompress(b) == IF b.kind = "gzip" THEN {b.of} ELSE {}
Decompress(b, type) == IF type = "gzip" THEN GzipDecompress(b) ELSE {b}

(* The overload for a view of bytes knows gzip only. *)
DecompressView(type, b) == IF type = "gzip" THEN GzipDecompress(b) ELSE {}

(* A zero byte of padding is no tag of a message. *)
ParseFromString(b, padding) == IF b.kind = "proto" /\ padding = 0 THEN {b.msg} ELSE {}

(* One byte of version (0) and compression, four of length, data, padding. *)
EncodeAndCompressGetBidsPayload(m, type, padded) ==
  LET body == Compress(Proto(m), type)
      room == IF SizeOf(body) > padded THEN SizeOf(body) ELSE padded
  IN [kind |-> "frame", version |-> 0, compression |-> type,
      length |-> SizeOf(body), body |-> body, padding |-> room - SizeOf(body)]

DecodeGetBidsPayload(b) ==
  IF b.kind # "frame" \/ b.length > SizeOf(b.body) + b.padding THEN {}
  ELSE UNION {{[version |-> b.version, compression |-> b.compression, msg |-> m] :
                 m \in ParseFromString(d, IF b.compression = "none" THEN b.length - SizeOf(b.body) ELSE 0)} :
              d \in IF b.compression = "none" THEN {b.body} ELSE DecompressView(b.compression, b.body)}

-----------------------------------------------------------------------------
(* Encryption: an operation works when its call is accepted and its        *)
(* callback, run before the call returns, is successful.                   *)
HandleCryptoOperationResult(status, successful) == status /\ successful
HpkeEncrypts(f) ==
  /\ f # "noPublicKey"
  /\ HandleCryptoOperationResult(f # "encryptRefused", f # "encryptFailed")
AeadDecrypts(f) == HandleCryptoOperationResult(f # "replyRefused", f # "replyFailed")

(* DecryptRequest of a server, up to the parsing of the message. *)
RequestDecrypts(f) == f \notin {"noKeyId", "noCiphertext", "unknownKey", "badCiphertext"}

Error(s) == [status |-> s, msg |-> {}]
Ok(m) == [status |-> "OK", msg |-> {m}]

(* DecryptResponse: an error, or the message. *)
DecryptResponse(f, bytes) ==
  IF ~AeadDecrypts(f) THEN Error("INTERNAL")
  ELSE IF ParseFromString(bytes, 0) = {} THEN Error("INVALID_ARGUMENT")
  ELSE Ok(The(ParseFromString(bytes, 0)))

-----------------------------------------------------------------------------
(* The request: FetchBid's configuration of a GetBids call.  chaff is the  *)
(* record [seller, buyer, generator, request] of who has chaffing on, of a *)
(* random generator, and of whether this request is chaff.                 *)
ChaffRequestSize(c) == IF c.seller /\ c.request /\ c.generator THEN PadSize ELSE 0
CompressionHeader(c) == IF c.seller THEN "none" ELSE "gzip"
RequestCompression == "gzip"

BuyerPayload(c) ==
  LET m == IF c.request THEN "chaff" ELSE "request"
  IN IF c.seller THEN EncodeAndCompressGetBidsPayload(m, RequestCompression, ChaffRequestSize(c))
     ELSE Compress(Proto(m), RequestCompression)

(* Clients that wait in their destructor for the calls under way. *)
Counted(i) == Dial.clients[i] \in {"kAnon", "seller"}

(* The key/value client's own encryption: the public key, its text, the    *)
(* padding of the request to a power of two, and the oblivious HTTP request. *)
ObliviousRequestBuilds(f) == f \notin {"noPublicKey", "badKeyText", "notPadded", "encryptFailed"}

RequestBuilds(i) ==
  CASE Counted(i) -> TRUE
    [] Dial.clients[i] = "keyValue" -> ObliviousRequestBuilds(Dial.faults[i])
    [] OTHER -> HpkeEncrypts(Dial.faults[i])
Plaintext(i) == IF Dial.clients[i] = "buyer" THEN BuyerPayload(Dial.chaff) ELSE Proto("request")

(* Of a call that was refused the callback is never run. *)
Refuse(i) ==
  /\ ~RequestBuilds(i)
  /\ rpcStage' = [rpcStage EXCEPT ![i] = "refused"]
  /\ UNCHANGED <<rpcParams, wire, activeCalls>>

(* The parameters are released to the callback of the call. *)
ParamsAtReturn(i) == IF Dial.clients[i] = "buyerJoin" THEN "freed" ELSE "heap"

EncryptPayloadAndSendRpc(i) ==
  /\ RequestBuilds(i)
  /\ rpcStage' = [rpcStage EXCEPT ![i] = "sent"]
  /\ rpcParams' = [rpcParams EXCEPT ![i] = ParamsAtReturn(i)]
  /\ wire' = [wire EXCEPT ![i] = {Plaintext(i)}]
  /\ activeCalls' = activeCalls + IF Counted(i) THEN 1 ELSE 0

(* The second call of a join is made by the buyer front end's reactor. *)
ByReactor(i) == i = 2 /\ Dial.clients[1] = "buyerJoin"

ExecuteInternal(i) ==
  /\ rpcStage[i] = "idle" /\ clientLife = "up" /\ ~aborted /\ ~ByReactor(i)
  /\ rpcContext' = [rpcContext EXCEPT ![i] = "owned"]
  /\ Refuse(i) \/ EncryptPayloadAndSendRpc(i)
  /\ UNCHANGED <<callCase, rpcReply, heard, rpcFinishes, clientLife, kAnonBids, aborted>>

-----------------------------------------------------------------------------
(* The servers' side.  The service runs a reactor before it is bound to    *)
(* its call, so that a second Finish replaces the status of the first.     *)

(* GetBids: ParseRawRequestBytestring, an option of [new, compression, msg]. *)
ParseRawRequestBytestring(b, header, chaffing) ==
  IF header # "none"
  THEN {[new |-> FALSE, compression |-> header, msg |-> m] :
          m \in UNION {ParseFromString(d, 0) : d \in Decompress(b, header)}}
  ELSE IF chaffing /\ b.kind = "frame"
  THEN {[new |-> TRUE, compression |-> p.compression, msg |-> p.msg] :
          p \in {q \in DecodeGetBidsPayload(b) : q.version = 0}}
  ELSE {[new |-> FALSE, compression |-> "none", msg |-> m] : m \in ParseFromString(b, 0)}

BidsMessage == IF Dial.bids \o Dial.apps = <<>> THEN "noBids" ELSE "bids"

(* EncryptResponse, and the chaff response of a chaff request. *)
GetBidsPayload(r, c) ==
  IF c.buyer /\ r.msg = "chaff"
  THEN EncodeAndCompressGetBidsPayload("noBids", r.compression, IF c.generator THEN PadSize ELSE 0)
  ELSE IF r.new THEN EncodeAndCompressGetBidsPayload(BidsMessage, "gzip", 0)
  ELSE Compress(Proto(BidsMessage), r.compression)

Reply(s, bytes, hashes) == [status |-> s, bytes |-> bytes, hashes |-> hashes]

GetBidsReplies(f) ==
  LET c == Dial.chaff
      r == IF RequestDecrypts(f) THEN ParseRawRequestBytestring(The(wire[1]), CompressionHeader(c), c.buyer) ELSE {}
  IN IF r = {} THEN {Reply("INVALID_ARGUMENT", NotAMessage, <<>>)}
     ELSE IF f = "replyNotEncrypted" THEN {Reply("INTERNAL", NotAMessage, <<>>)}
     ELSE {Reply("OK", GetBidsPayload(The(r), c), <<>>)}

(* GetKAnonHash and the hashes asked for: bids, then app signals bids. *)
GetKAnonHash(url) == UrlHash[url]
CreateBidsQueryRawRequest(bids, apps) ==
  [i \in DOMAIN bids |-> GetKAnonHash(bids[i])] \o [i \in DOMAIN apps |-> GetKAnonHash(apps[i])]

(* What a reactor of the k-anonymity service has read: nothing when the    *)
(* request could not be decrypted, any part when it could not be parsed.   *)
ReadFields(f) ==
  CASE ~RequestDecrypts(f) -> {{}}
    [] f = "badMessage" -> SUBSET Dial.fields
    [] OTHER -> {Dial.fields}
ReadHashes(f) ==
  LET all == CreateBidsQueryRawRequest(Dial.bids, Dial.apps)
  IN CASE ~RequestDecrypts(f) -> {<<>>}
       [] f = "badMessage" -> {SubSeq(all, 1, n) : n \in 0 .. Len(all)}
       [] OTHER -> {all}

(* The Finish of the base reactor's constructor. *)
DecryptFinishes(f) == IF RequestDecrypts(f) THEN <<>> ELSE <<"INVALID_ARGUMENT">>

QueryComplete(fields, hashes) == "data_type" \in fields /\ hashes # <<>>
JoinComplete(fields) == {"browser", "data_type", "instance_hash"} \subseteq fields

(* QueryReactor::Execute: "no" to every hash; EncryptResponse finishes and *)
(* EncryptResponseAndFinish finishes again.                                *)
QueryFinishes(f, fields, hashes) ==
  DecryptFinishes(f) \o
    (IF ~QueryComplete(fields, hashes) THEN <<"INVALID_ARGUMENT">>
     ELSE IF f = "replyNotEncrypted" THEN <<"INTERNAL", "INTERNAL">> ELSE <<"OK">>)
JoinFinishes(f, fields) ==
  DecryptFinishes(f) \o (IF JoinComplete(fields) THEN <<"OK">> ELSE <<"INVALID_ARGUMENT">>)

(* The reactor's answer is taken when it is bound: the last status. *)
Served(i, fs, reply) ==
  /\ rpcStage' = [rpcStage EXCEPT ![i] = "served"]
  /\ rpcFinishes' = [rpcFinishes EXCEPT ![i] = fs]
  /\ rpcReply' = [rpcReply EXCEPT ![i] = {[reply EXCEPT !.status = fs[Len(fs)]]}]

QueryReactor(i) ==
  \E fields \in ReadFields(Dial.faults[i]), hashes \in ReadHashes(Dial.faults[i]) :
    Served(i, QueryFinishes(Dial.faults[i], fields, hashes),
           Reply("OK", Proto("answers"), [k \in DOMAIN hashes |-> FALSE]))

JoinReactor(i) ==
  \E fields \in ReadFields(Dial.faults[i]) :
    Served(i, JoinFinishes(Dial.faults[i], fields), Reply("OK", Proto("empty"), <<>>))

(* MicrosoftJoinKAnonReactor::Execute: the call is forwarded and answered  *)
(* at once, whether or not it could be sent.                               *)
JoinKAnonRefuses(f) == ~RequestDecrypts(f) \/ f = "badMessage" \/ ~({"browser", "instance_hash"} \subseteq Dial.fields)
MicrosoftJoinKAnonReactor ==
  LET f == Dial.faults[1]
  IN IF JoinKAnonRefuses(f)
     THEN /\ Served(1, <<"INVALID_ARGUMENT">>, Reply("OK", NotAMessage, <<>>))
          /\ UNCHANGED <<rpcParams, wire, activeCalls, rpcContext>>
     ELSE /\ rpcContext' = [rpcContext EXCEPT ![2] = "owned"]
          /\ rpcFinishes' = [rpcFinishes EXCEPT ![1] = <<"OK">>]
          /\ rpcReply' = [rpcReply EXCEPT ![1] = {Reply("OK", Proto("empty"), <<>>)}]
          /\ IF RequestBuilds(2)
             THEN /\ rpcStage' = [rpcStage EXCEPT ![1] = "served", ![2] = "sent"]
                  /\ rpcParams' = [rpcParams EXCEPT ![2] = ParamsAtReturn(2)]
                  /\ wire' = [wire EXCEPT ![2] = {Plaintext(2)}]
             ELSE /\ rpcStage' = [rpcStage EXCEPT ![1] = "served", ![2] = "refused"]
                  /\ UNCHANGED <<rpcParams, wire>>
          /\ UNCHANGED activeCalls

(* OnDone deletes the reactor and with it its client contexts. *)
ReactorDone ==
  /\ Dial.clients[1] = "buyerJoin" /\ rpcStage[1] \in {"served", "done"} /\ ~aborted
  /\ Len(rpcContext) = 2 /\ rpcContext[2] = "owned"
  /\ rpcContext' = [rpcContext EXCEPT ![2] = "freed"]
  /\ UNCHANGED <<callCase, rpcStage, rpcParams, wire, rpcReply, heard, rpcFinishes, clientLife,
                 activeCalls, kAnonBids, aborted>>

(* The other servers answer with a message, or with bytes that are none. *)
OtherServer(i) ==
  \E b \in IF Dial.faults[i] = "badReply" THEN {NotAMessage} ELSE {Proto("answer")} :
    Served(i, <<"OK">>, Reply("OK", b, <<>>))

GetBidsServer(i) ==
  \E r \in GetBidsReplies(Dial.faults[i]) : Served(i, <<r.status>>, r)

Serve(i) ==
  /\ rpcStage[i] = "sent" /\ Dial.faults[i] # "lost" /\ ~aborted
  /\ CASE Dial.clients[i] = "buyer" -> GetBidsServer(i)
       [] Dial.clients[i] = "kAnonQuery" -> QueryReactor(i)
       [] Dial.clients[i] = "kAnonJoin" -> JoinReactor(i)
       [] Dial.clients[i] = "buyerJoin" -> MicrosoftJoinKAnonReactor
       [] OTHER -> OtherServer(i)
  /\ Dial.clients[i] # "buyerJoin" => UNCHANGED <<rpcParams, wire, activeCalls, rpcContext>>
  /\ UNCHANGED <<callCase, heard, clientLife, kAnonBids, aborted>>

-----------------------------------------------------------------------------
(* The answer: what the callback is given, in order.  RawClientParams and  *)
(* ClientParams delete themselves in OnDone.                               *)
RpcStatus(i) == IF Dial.faults[i] = "lost" THEN "DEADLINE_EXCEEDED" ELSE The(rpcReply[i]).status

(* OnRpcDone of the bidding, app signals, scoring and k-anon clients. *)
OnRpcDoneGoingOn(i, decrypted) ==
  IF RpcStatus(i) # "OK" THEN <<Error(RpcStatus(i))>>
  ELSE IF decrypted.status # "OK" THEN <<Error("INVALID_ARGUMENT"), decrypted>>
  ELSE <<decrypted>>
OnRpcDone(i, decrypted) ==
  IF RpcStatus(i) # "OK" THEN <<Error(RpcStatus(i))>>
  ELSE IF decrypted.status # "OK" THEN <<Error("INVALID_ARGUMENT")>>
  ELSE <<decrypted>>

(* The decryption of a join's empty response is the status OK made into a  *)
(* StatusOr, which is an error.                                            *)
JoinResponse == Error("INTERNAL")

(* The key/value client: the oblivious HTTP response, its frame, the message. *)
GetValuesResponse(f, bytes) ==
  IF f \in {"replyRefused", "replyFailed", "badFrame"} THEN Error("INVALID_ARGUMENT")
  ELSE IF ParseFromString(bytes, 0) = {} THEN Error("INVALID_ARGUMENT")
  ELSE Ok(The(ParseFromString(bytes, 0)))

OnGetBidsDoneChaffingDisabled(bytes) ==
  LET d == Decompress(bytes, RequestCompression)
      m == UNION {ParseFromString(x, 0) : x \in d}
  IN IF d = {} THEN Error("INTERNAL") ELSE IF m = {} THEN Error("INVALID_ARGUMENT") ELSE Ok(The(m))

(* Whatever was answered to chaff is dropped.  The metadata is skipped and *)
(* its compression not read: the request's is taken.                       *)
OnGetBidsDoneChaffingEnabled(bytes, c) ==
  IF ChaffRequestSize(c) > 0 THEN Ok("noBids")
  ELSE LET d == DecompressView(RequestCompression, bytes.body)
           m == UNION {ParseFromString(x, 0) : x \in d}
       IN IF m = {} THEN Error("INTERNAL") ELSE Ok(The(m))

(* After a failed decryption the client runs the callback, and goes on to  *)
(* take the payload of the error.                                          *)
BuyerDone(i) ==
  IF RpcStatus(i) # "OK" THEN <<Error(RpcStatus(i))>>
  ELSE IF ~AeadDecrypts(Dial.faults[i]) THEN <<Error("INTERNAL")>>
  ELSE IF Dial.chaff.seller THEN <<OnGetBidsDoneChaffingEnabled(The(rpcReply[i]).bytes, Dial.chaff)>>
  ELSE <<OnGetBidsDoneChaffingDisabled(The(rpcReply[i]).bytes)>>
BuyerAborts(i) ==
  Dial.clients[i] = "buyer" /\ RpcStatus(i) = "OK" /\ ~AeadDecrypts(Dial.faults[i])

Heard(i) ==
  LET f == Dial.faults[i]
      bytes == IF rpcReply[i] = {} THEN NotAMessage ELSE The(rpcReply[i]).bytes
  IN CASE Dial.clients[i] = "buyer" -> BuyerDone(i)
       [] Dial.clients[i] = "buyerJoin" -> <<>>
       [] Dial.clients[i] = "kAnonJoin" -> OnRpcDone(i, JoinResponse)
       [] Dial.clients[i] = "keyValue" -> OnRpcDone(i, GetValuesResponse(f, bytes))
       [] Counted(i) -> <<IF RpcStatus(i) = "OK" THEN Ok("answer") ELSE Error(RpcStatus(i))>>
       [] OTHER -> OnRpcDone(i, DecryptResponse(f, bytes))

(* AttachBiddingMetadata: the answers are those of the bids, in order, and *)
(* the server aborts when there are more or fewer.                         *)
Unattached == [bids |-> [i \in DOMAIN Dial.bids |-> "unset"], apps |-> [i \in DOMAIN Dial.apps |-> "unset"]]
AnswerAt(hashes, k) == IF hashes[k] THEN "yes" ELSE "no"
AttachBiddingMetadata(hashes) ==
  [bids |-> [i \in DOMAIN Dial.bids |-> AnswerAt(hashes, i)],
   apps |-> [i \in DOMAIN Dial.apps |-> AnswerAt(hashes, Len(Dial.bids) + i)]]
WrongCount(i, h) ==
  /\ Dial.clients[i] = "kAnonQuery" /\ h[1].status = "OK"
  /\ Len(The(rpcReply[i]).hashes) # Len(Dial.bids) + Len(Dial.apps)

RpcDone(i) ==
  /\ \/ rpcStage[i] = "served"
     \/ rpcStage[i] = "sent" /\ Dial.faults[i] = "lost"
  /\ ~aborted
  /\ \E h \in {Heard(i)} :
       /\ heard' = [heard EXCEPT ![i] = h]
       /\ aborted' = (BuyerAborts(i) \/ WrongCount(i, h))
       /\ kAnonBids' = IF Dial.clients[i] = "kAnonQuery" /\ h[1].status = "OK" /\ ~WrongCount(i, h)
                       THEN AttachBiddingMetadata(The(rpcReply[i]).hashes) ELSE kAnonBids
  /\ rpcParams' = [rpcParams EXCEPT ![i] = "freed"]
  /\ rpcStage' = [rpcStage EXCEPT ![i] = IF Counted(i) THEN "heard" ELSE "done"]
  /\ UNCHANGED <<callCase, rpcContext, wire, rpcReply, rpcFinishes, clientLife, activeCalls>>

(* A client that counts its calls takes its callback off the count last. *)
CallCounted(i) ==
  /\ rpcStage[i] = "heard"
  /\ rpcStage' = [rpcStage EXCEPT ![i] = "done"] /\ activeCalls' = activeCalls - 1
  /\ UNCHANGED <<callCase, rpcParams, rpcContext, wire, rpcReply, heard, rpcFinishes, clientLife,
                 kAnonBids, aborted>>

(* Its destructor waits until none is left. *)
DestroyClient ==
  /\ clientLife = "up" /\ Counted(1) /\ clientLife' = "closing"
  /\ UNCHANGED <<callCase, rpcStage, rpcParams, rpcContext, wire, rpcReply, heard, rpcFinishes,
                 activeCalls, kAnonBids, aborted>>
ClientDestroyed ==
  /\ clientLife = "closing" /\ activeCalls = 0 /\ clientLife' = "gone"
  /\ UNCHANGED <<callCase, rpcStage, rpcParams, rpcContext, wire, rpcReply, heard, rpcFinishes,
                 activeCalls, kAnonBids, aborted>>

CallInit ==
  /\ callCase \in DOMAIN CallCases
  /\ rpcStage = [i \in Calls |-> "idle"] /\ rpcParams = [i \in Calls |-> "none"]
  /\ rpcContext = [i \in Calls |-> "none"] /\ wire = [i \in Calls |-> {}]
  /\ rpcReply = [i \in Calls |-> {}] /\ heard = [i \in Calls |-> <<>>]
  /\ rpcFinishes = [i \in Calls |-> <<>>] /\ clientLife = "up" /\ activeCalls = 0
  /\ kAnonBids = Unattached /\ aborted = FALSE

CallNext ==
  \/ \E i \in Calls : ExecuteInternal(i) \/ Serve(i) \/ RpcDone(i) \/ CallCounted(i)
  \/ ReactorDone \/ DestroyClient \/ ClientDestroyed

-----------------------------------------------------------------------------
(* A caller hears of a call exactly once when the call was accepted and    *)
(* never when it was refused, so that it counts each task once; and what   *)
(* it hears is an answer only when every step of the call worked.  Two     *)
(* clients do otherwise: the seller's join never calls back, and a join    *)
(* that worked is heard as an error.                                       *)
HeardOnce ==
  \A i \in Calls :
    /\ rpcStage[i] # "done" /\ rpcStage[i] # "heard" => heard[i] = <<>>
    /\ rpcStage[i] \in {"done", "heard"} =>
         /\ Len(heard[i]) = (IF Dial.clients[i] = "buyerJoin" THEN 0 ELSE 1)
         /\ heard[i] # <<>> /\ heard[i][1].status = "OK"
              => /\ Dial.faults[i] \in {"none", "badMessage"} /\ Dial.clients[i] # "kAnonJoin"
                 /\ heard[i][1].msg # {}

(* Seller and buyer read each other's framing: the seller hears the bids   *)
(* the buyer made, chaff is heard as an empty answer, and when only the    *)
(* seller has chaffing on every call is an error, never other bids.        *)
BidsArriveOrFail ==
  Dial.clients[1] = "buyer" /\ Dial.faults[1] = "none" /\ rpcStage[1] = "done" =>
    heard[1] =
      IF Dial.chaff.seller /\ ~Dial.chaff.buyer THEN <<Error("INVALID_ARGUMENT")>>
      ELSE IF Dial.chaff.request THEN <<Ok("noBids")>>
      ELSE <<Ok(BidsMessage)>>

(* While grpc holds a call, its request, response and context exist.  The  *)
(* seller's join frees the parameters when it returns, and a buyer's join  *)
(* lives in a context of a reactor that has answered.                      *)
BuffersOutliveTheCall ==
  \A i \in Calls : rpcStage[i] \in {"sent", "served"} =>
    /\ rpcParams[i] = "heap" \/ Dial.clients[i] = "buyerJoin"
    /\ rpcContext[i] = "owned" \/ ByReactor(i)

(* No callback runs, and none touches the count, once the client is gone. *)
NoCallbackAfterClient ==
  clientLife = "gone" => \A i \in Calls : rpcStage[i] \in {"idle", "refused", "done"}

(* The reactors of the k-anonymity service run on after a request that     *)
(* could not be decrypted: it is still never answered OK.                  *)
UndecryptedIsRefused ==
  \A i \in Calls : ~RequestDecrypts(Dial.faults[i]) /\ rpcFinishes[i] # <<>> =>
    /\ rpcFinishes[i][Len(rpcFinishes[i])] # "OK"
    /\ Dial.clients[1] = "buyerJoin" /\ i = 1 => rpcStage[2] = "idle"

(* A query answered gives every bid of both kinds its status, one that     *)
(* failed none, and the server never aborts on the number of answers,      *)
(* unless the service answered what it had read of a broken message.       *)
KAnonStatusAttached ==
  Dial.clients[1] = "kAnonQuery" /\ Dial.faults[1] # "badMessage" /\ rpcStage[1] = "done" =>
    /\ ~aborted
    /\ LET got == {kAnonBids.bids[i] : i \in DOMAIN Dial.bids} \cup {kAnonBids.apps[i] : i \in DOMAIN Dial.apps}
       IN got \subseteq (IF heard[1][1].status = "OK" THEN {"no"} ELSE {"unset"})
=============================================================================

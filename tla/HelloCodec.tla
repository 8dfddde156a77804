------------------------------ MODULE HelloCodec ------------------------------
(***************************************************************************)
(* The first two messages of a connection as JSON: what each program makes *)
(* of the one it receives, and what it writes for the one it sends         *)
(* (chat-server/src/hello_codec.cpp, client-qt/src/hello_codec.cpp).       *)
(*                                                                         *)
(* A JSON value is a record with one field, named after its type:          *)
(*   [string |-> a Text]   [number |-> twice the number]   [bool |-> b]    *)
(*   [null |-> TRUE]   [array |-> a sequence]   [object |-> a record]      *)
(* An object is the record of the keys its reader looks for; it may have   *)
(* others, which no reader minds.  Numbers are counted in halves, so that  *)
(* there are some that are not whole.                                      *)
(*                                                                         *)
(* External: the parsers and serializers of Boost.JSON and Qt.             *)
(***************************************************************************)
EXTENDS Integers, Sequences, FiniteSets

CONSTANTS
  Text,         \* the strings that occur
  Bytes,        \* how many bytes each of them has
  WellFormed,   \* the strings that are UTF-8, the only ones a parser lets through
  ThroughQt,    \* what is left of each once it has been a QString: without the
                \* bytes that are no UTF-8, or a byte order mark at its beginning
  Uuid,         \* the strings that UuidId::parse accepts
  kMaxCapabilityCount,   \* 16
  kMaxUint32,            \* 2^32 - 1
  kMaxSafeInteger        \* 2^53 - 1

kServerVersion == "1.0"

ASSUME TextAssumption ==
  /\ Bytes \in [Text -> Nat]
  /\ WellFormed \subseteq Text
  /\ "" \in WellFormed /\ Bytes[""] = 0
  /\ kServerVersion \in WellFormed /\ Bytes[kServerVersion] = 3
  /\ ThroughQt \in [Text -> WellFormed]
  /\ \A t \in Uuid \union {"", kServerVersion} : ThroughQt[t] = t
  /\ Uuid \subseteq WellFormed \ {""}

kMaxClientVersionBytes == 32
kMaxPlatformBytes == 16
kMaxCapabilityValueBytes == 64
kMaxJsonBytes == 65536
kMaxTextBytes == 4096
kHeartbeatIdleMs == 20000
kSessionTimeoutMs == 60000

ASSUME LimitsAssumption ==
  /\ kMaxCapabilityCount \in Nat
  /\ kMaxUint32 \in Nat /\ kMaxUint32 >= kMaxJsonBytes
  /\ kMaxSafeInteger \in Nat

-----------------------------------------------------------------------------
(* What the codecs work on *)

RequestId == Uuid \union {""}   \* UuidId() holds the empty string

CapabilitySet == SUBSET Text

\* The fields of the DTOs are strings that nothing has checked yet.
HelloRequest == [client_version : Text, platform : Text, capabilities : CapabilitySet]

HelloResponse ==
  [server_version : Text, server_time : Int, max_json : Nat, max_text : Nat,
   heartbeat_idle : Nat, timeout : Nat, capabilities : CapabilitySet]

ErrorCode == {"invalid_json", "invalid_request_id", "invalid_request"}

Outcome(T) == [value : T] \union [error : ErrorCode]
isOk(outcome) == DOMAIN outcome = {"value"}

\* JSON values as deep as the two messages go.
Scalar ==
  [string : WellFormed] \union [number : Int] \union [bool : BOOLEAN] \union [null : {TRUE}]
Flat == Scalar \union [array : Seq(Scalar)]
Absent == [absent |-> TRUE]      \* in place of the value of a key that is not there
Malformed == [malformed |-> TRUE]   \* in place of the value of a text that is not JSON
Field == Flat \union {Absent}

RequestData == [client_version : Field, platform : Field, capabilities : Field]
ResponseData ==
  [server_version : Field, server_time : Field, max_json : Field, max_text : Field,
   heartbeat_idle : Field, timeout : Field, capabilities : Field]
RequestRoot == [request_id : Field, data : Field \union [object : RequestData]]
ResponseRoot == [request_id : Field, ok : Field, data : Field \union [object : ResponseData]]

\* What arrives: a text of up to 64 KiB or a longer one.
Body(Root) == [oversized : BOOLEAN, json : Flat \union [object : Root] \union {Malformed}]

-----------------------------------------------------------------------------
(* Reading a message *)

IsA(type, json) == DOMAIN json = {type}
Has(object, key, type) == IsA(type, object[key])

\* Bug: a text of the greatest length is too long already.
HasShorterText(object, key, most, reads) ==
  Has(object, key, "string") /\ Bytes[reads[object[key].string]] \in 1 .. most - 1

\* reads is what the library of the reader makes of a string.
HasText(object, key, most, reads) ==
  Has(object, key, "string") /\ Bytes[reads[object[key].string]] \in 1..most

\* Bug: a negative number is let through.
HasCountOfAnySign(object, key, most) ==
  /\ Has(object, key, "number")
  /\ object[key].number <= 2 * most /\ object[key].number % 2 = 0

HasCount(object, key, most) ==
  /\ Has(object, key, "number")
  /\ object[key].number \in 0 .. 2 * most /\ object[key].number % 2 = 0
Count(object, key) == object[key].number \div 2

HasCapabilities(object, reads) ==
  /\ Has(object, "capabilities", "array")
  /\ Len(object["capabilities"].array) <= kMaxCapabilityCount
  /\ \A i \in DOMAIN object["capabilities"].array :
       LET item == object["capabilities"].array[i]
       IN IsA("string", item) /\ Bytes[reads[item.string]] \in 1..kMaxCapabilityValueBytes
CapabilitiesOf(object, reads) ==
  {reads[object["capabilities"].array[i].string] : i \in DOMAIN object["capabilities"].array}

\* What stands under request_id, "" if there is no string.
RequestIdText(root, reads) ==
  IF Has(root, "request_id", "string") THEN reads[root["request_id"].string] ELSE ""

\* Bug: the variable is cleared, not left alone.
FailsAndClears(code, out) == [result |-> [error |-> code], out_request_id |-> ""]

\* out is the variable the caller passed for the id, kept or overwritten.
Fails(code, out) == [result |-> [error |-> code], out_request_id |-> out]
Returns(dto, out) == [result |-> [value |-> dto], out_request_id |-> out]

AsItIs == [text \in Text |-> text]

\* Bug: a request without a platform is taken as one with an empty one.
ReadRequestPlatformOptional(data, id) ==
  LET silent == data["platform"] = Absent IN
  IF /\ HasText(data, "client_version", kMaxClientVersionBytes, AsItIs)
     /\ silent \/ HasText(data, "platform", kMaxPlatformBytes, AsItIs)
     /\ HasCapabilities(data, AsItIs)
    THEN Returns([client_version |-> data["client_version"].string,
                  platform |-> IF silent THEN "" ELSE data["platform"].string,
                  capabilities |-> CapabilitiesOf(data, AsItIs)], id)
    ELSE Fails("invalid_request", id)

ReadRequest(data, id) ==
  IF /\ HasText(data, "client_version", kMaxClientVersionBytes, AsItIs)
     /\ HasText(data, "platform", kMaxPlatformBytes, AsItIs)
     /\ HasCapabilities(data, AsItIs)
    THEN Returns([client_version |-> data["client_version"].string,
                  platform |-> data["platform"].string,
                  capabilities |-> CapabilitiesOf(data, AsItIs)], id)
    ELSE Fails("invalid_request", id)

decodeHelloRequest(body, out_request_id) ==
  IF body.oversized THEN Fails("invalid_request", out_request_id)
  ELSE IF body.json = Malformed THEN Fails("invalid_json", out_request_id)
  ELSE IF ~IsA("object", body.json) THEN Fails("invalid_request", out_request_id)
  ELSE LET root == body.json.object
           id == RequestIdText(root, AsItIs) IN
       IF id \notin Uuid THEN Fails("invalid_request_id", out_request_id)
       ELSE IF ~Has(root, "data", "object")
         THEN Fails("invalid_request", id)
       ELSE ReadRequest(root["data"].object, id)

Counts == {"max_json", "max_text", "heartbeat_idle", "timeout"}

ReadResponse(data, id) ==
  IF /\ HasText(data, "server_version", kMaxClientVersionBytes, ThroughQt)
     /\ HasCount(data, "server_time", kMaxSafeInteger)
     /\ \A key \in Counts : HasCount(data, key, kMaxUint32)
     /\ HasCapabilities(data, ThroughQt)
    THEN Returns([server_version |-> ThroughQt[data["server_version"].string],
                  server_time |-> Count(data, "server_time"),
                  max_json |-> Count(data, "max_json"),
                  max_text |-> Count(data, "max_text"),
                  heartbeat_idle |-> Count(data, "heartbeat_idle"),
                  timeout |-> Count(data, "timeout"),
                  capabilities |-> CapabilitiesOf(data, ThroughQt)], id)
    ELSE Fails("invalid_request", id)

\* QJsonDocument takes an object or an array for a document, nothing else.
decodeHelloResponse(body, out_request_id) ==
  IF body.oversized THEN Fails("invalid_request", out_request_id)
  ELSE IF ~(IsA("object", body.json) \/ IsA("array", body.json))
    THEN Fails("invalid_json", out_request_id)
  ELSE IF ~IsA("object", body.json) THEN Fails("invalid_request", out_request_id)
  ELSE LET root == body.json.object
           id == RequestIdText(root, ThroughQt) IN
       IF id \notin Uuid THEN Fails("invalid_request_id", out_request_id)
       ELSE IF ~(Has(root, "ok", "bool") /\ root["ok"].bool) \/ ~Has(root, "data", "object")
         THEN Fails("invalid_request", id)
       ELSE ReadResponse(root["data"].object, id)

-----------------------------------------------------------------------------
(* Writing a message *)

\* The elements of a set, in some order, each once.
Listing(S) ==
  CHOOSE list \in [1..Cardinality(S) -> S] :
    \A i, j \in 1..Cardinality(S) : list[i] = list[j] => i = j

AsString(text) == [string |-> text]
AsNumber(n) == [number |-> 2 * n]
AsArray(S) == [array |-> [i \in 1..Cardinality(S) |-> AsString(Listing(S)[i])]]
AsQtArray(S) ==
  [array |-> [i \in 1..Cardinality(S) |-> AsString(ThroughQt[Listing(S)[i]])]]

\* What is too long for a frame is not sent (encodeFrame), so not oversized.
Written(root) == [oversized |-> FALSE, json |-> [object |-> root]]

\* The client never refuses.
encodeHelloRequest(request_id, request) ==
  Written([request_id |-> AsString(request_id),
           data |-> [object |->
             [client_version |-> AsString(ThroughQt[request.client_version]),
              platform |-> AsString(ThroughQt[request.platform]),
              capabilities |-> AsQtArray(request.capabilities)]]])

encodeHelloResponse(request_id, response) ==
  Written([request_id |-> AsString(request_id),
           ok |-> [bool |-> TRUE],
           data |-> [object |->
             [server_version |-> AsString(response.server_version),
              server_time |-> AsNumber(response.server_time),
              max_json |-> AsNumber(response.max_json),
              max_text |-> AsNumber(response.max_text),
              heartbeat_idle |-> AsNumber(response.heartbeat_idle),
              timeout |-> AsNumber(response.timeout),
              capabilities |-> AsArray(response.capabilities)]]])

-----------------------------------------------------------------------------
(* Negotiation *)

\* Bug: the server answers with all it can do.
FirstOperand(a, b) == a

\* Bug: the server grants all it is asked for.
SecondOperand(a, b) == b

Intersect(a, b) == a \intersect b
=============================================================================

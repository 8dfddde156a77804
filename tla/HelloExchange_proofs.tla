------------------------ MODULE HelloExchange_proofs ------------------------
(***************************************************************************)
(* Proofs about the exchange of hello messages, for any texts, limits on   *)
(* capabilities, requests and strangers.                                   *)
(*                                                                         *)
(* The argument: what a decoder accepts is within the limits of the code   *)
(* (DecodedRequests), and a message within those limits is decoded to what *)
(* was encoded (EncodedRequests, EncodedResponses).  The invariant says of *)
(* the message on its way who wrote it and from what.                      *)
(***************************************************************************)
EXTENDS HelloExchange, FiniteSetTheorems, TLAPS

-----------------------------------------------------------------------------
(* Sets as arrays *)

\* Listing names every element of a finite set, and nothing else.
LEMMA ListingFacts ==
  ASSUME NEW S, IsFiniteSet(S)
  PROVE  /\ Cardinality(S) \in Nat
         /\ Listing(S) \in [1..Cardinality(S) -> S]
         /\ \A x \in S : \E i \in 1..Cardinality(S) : Listing(S)[i] = x
<1> DEFINE n == Cardinality(S)
<1>1. n \in Nat /\ ExistsBijection(1..n, S)
  BY FS_CardinalityType
<1>2. \E list \in [1..n -> S] : \A i, j \in 1..n : list[i] = list[j] => i = j
  BY <1>1 DEF ExistsBijection, Bijection, Injection, IsInjective
<1>3. /\ Listing(S) \in [1..n -> S]
      /\ \A i, j \in 1..n : Listing(S)[i] = Listing(S)[j] => i = j
  BY <1>2 DEF Listing
<1>4. Listing(S) \in Injection(1..n, S)
  BY <1>3 DEF Injection, IsInjective
<1>5. Cardinality(1..n) = n
  BY <1>1, FS_Interval
<1>6. Listing(S) \in Surjection(1..n, S)
  BY <1>4, <1>5, FS_Injection
<1> QED
  BY <1>1, <1>3, <1>6 DEF Surjection

\* The texts of an array are finitely many, and no more than its elements.
LEMMA ArrayFacts ==
  ASSUME NEW n \in Nat, NEW f, DOMAIN f = 1..n
  PROVE  /\ IsFiniteSet({f[i] : i \in 1..n})
         /\ Cardinality({f[i] : i \in 1..n}) \in Nat
         /\ Cardinality({f[i] : i \in 1..n}) <= n
<1> DEFINE T == {f[i] : i \in 1..n}
           g == [i \in 1..n |-> f[i]]
<1>1. g \in Surjection(1..n, T)
  BY DEF Surjection
<1>2. IsFiniteSet(1..n) /\ Cardinality(1..n) = n
  BY FS_Interval
<1>3. IsFiniteSet(T) /\ Cardinality(T) <= n
  BY <1>1, <1>2, FS_Surjection
<1>4. Cardinality(T) \in Nat
  BY <1>3, FS_CardinalityType
<1> QED
  BY <1>3, <1>4

-----------------------------------------------------------------------------
(* JSON values *)

\* A value is what its type says.
LEMMA FieldCases ==
  ASSUME NEW v \in Field
  PROVE  /\ IsA("string", v) => v.string \in WellFormed /\ v = AsString(v.string)
         /\ IsA("array", v) => v.array \in Seq(Scalar)
         /\ ~IsA("object", v)
<1>1. v \in [string : WellFormed] \/ v \in [number : Int] \/ v \in [bool : BOOLEAN]
      \/ v \in [null : {TRUE}] \/ v \in [array : Seq(Scalar)] \/ v = Absent
  BY DEF Field, Flat, Scalar
<1>2. CASE v \in [string : WellFormed]
  <2>1. DOMAIN v = {"string"} /\ v = [string |-> v.string] /\ v.string \in WellFormed
    BY <1>2
  <2> QED
    BY <2>1 DEF IsA, AsString
<1>3. CASE v \in [array : Seq(Scalar)]
  <2>1. DOMAIN v = {"array"} /\ v.array \in Seq(Scalar)
    BY <1>3
  <2> QED
    BY <2>1 DEF IsA
<1>4. CASE v \in [number : Int]
  <2>1. DOMAIN v = {"number"}
    BY <1>4
  <2> QED
    BY <2>1 DEF IsA
<1>5. CASE v \in [bool : BOOLEAN]
  <2>1. DOMAIN v = {"bool"}
    BY <1>5
  <2> QED
    BY <2>1 DEF IsA
<1>6. CASE v \in [null : {TRUE}]
  <2>1. DOMAIN v = {"null"}
    BY <1>6
  <2> QED
    BY <2>1 DEF IsA
<1>7. CASE v = Absent
  <2>1. DOMAIN v = {"absent"}
    BY <1>7 DEF Absent
  <2> QED
    BY <2>1 DEF IsA
<1> QED
  BY <1>1, <1>2, <1>3, <1>4, <1>5, <1>6, <1>7

\* What the assumptions say of a text, as it is and through a QString.
LEMMA TextFacts ==
  /\ WellFormed \subseteq Text /\ RequestId \subseteq WellFormed
  /\ Uuid \subseteq RequestId /\ "" \notin Uuid
  /\ \A text \in Text : ThroughQt[text] \in WellFormed /\ AsItIs[text] = text
  /\ \A id \in RequestId : ThroughQt[id] = id
  /\ AsItIs \in [Text -> Text] /\ ThroughQt \in [Text -> Text]
  BY TextAssumption DEF RequestId, AsItIs

\* The sets of capabilities that a decoder accepts.
AcceptedSets ==
  {S \in CapabilitySet :
     /\ IsFiniteSet(S) /\ Cardinality(S) \in Nat
     /\ Cardinality(S) <= kMaxCapabilityCount
     /\ \A text \in S : Bytes[text] \in 1..kMaxCapabilityValueBytes}

\* The limits of the decoders hold for the set, not only for the array.
LEMMA CapabilitiesAreAccepted ==
  ASSUME NEW object, object["capabilities"] \in Field, NEW reads \in [Text -> Text],
         HasCapabilities(object, reads)
  PROVE  CapabilitiesOf(object, reads) \in AcceptedSets
<1> DEFINE items == object["capabilities"].array
           n == Len(items)
           f == [i \in 1..n |-> reads[items[i].string]]
<1>1. items \in Seq(Scalar) /\ n <= kMaxCapabilityCount
  BY FieldCases DEF HasCapabilities, Has
<1>2. n \in Nat /\ DOMAIN items = 1..n /\ items \in [1..n -> Scalar]
  BY <1>1
<1>3. CapabilitiesOf(object, reads) = {f[i] : i \in 1..n}
  BY <1>2 DEF CapabilitiesOf
<1>4. ASSUME NEW i \in 1..n
      PROVE  f[i] \in Text /\ Bytes[f[i]] \in 1..kMaxCapabilityValueBytes
  <2>1. IsA("string", items[i]) /\ Bytes[reads[items[i].string]] \in 1..kMaxCapabilityValueBytes
    BY <1>2, <1>4 DEF HasCapabilities
  <2>2. items[i] \in Field
    BY <1>2, <1>4 DEF Field, Flat
  <2>3. items[i].string \in Text
    BY <2>1, <2>2, FieldCases, TextFacts
  <2> QED
    BY <2>1, <2>3
<1> HIDE DEF f, n, items
<1>5. DOMAIN f = 1..n
  BY DEF f
<1>6. /\ IsFiniteSet({f[i] : i \in 1..n}) /\ Cardinality({f[i] : i \in 1..n}) \in Nat
      /\ Cardinality({f[i] : i \in 1..n}) <= n
  BY <1>2, <1>5, ArrayFacts
<1>7. Cardinality({f[i] : i \in 1..n}) <= kMaxCapabilityCount
  BY <1>1, <1>2, <1>6, LimitsAssumption
<1> QED
  BY <1>3, <1>4, <1>6, <1>7 DEF AcceptedSets, CapabilitySet

-----------------------------------------------------------------------------
(* What a decoder returns *)

\* The requests that the server accepts.
Limited(most) == {text \in Text : Bytes[text] \in 1..most}
Accepted ==
  [client_version : Limited(kMaxClientVersionBytes), platform : Limited(kMaxPlatformBytes),
   capabilities : AcceptedSets]

\* A text that is read is a string of the message, within its limit.
LEMMA ReadTexts ==
  ASSUME NEW object, NEW key, object[key] \in Field, NEW most,
         NEW reads \in [Text -> Text], HasText(object, key, most, reads)
  PROVE  /\ object[key].string \in WellFormed
         /\ reads[object[key].string] \in Limited(most)
<1>1. object[key].string \in WellFormed
  BY FieldCases DEF HasText, Has
<1> QED
  BY <1>1, TextFacts DEF HasText, Limited

\* A refusal and an answer are what they say, and not both.
LEMMA OutcomeFacts ==
  /\ \A code \in ErrorCode : \A out :
       /\ Fails(code, out).out_request_id = out
       /\ Fails(code, out).result \in [error : ErrorCode]
  /\ \A dto, out :
       /\ Returns(dto, out).out_request_id = out
       /\ Returns(dto, out).result = [value |-> dto]
       /\ isOk(Returns(dto, out).result)
  /\ \A result \in [error : ErrorCode] : ~isOk(result)
  /\ ~isOk(NoResult)
  /\ {"invalid_json", "invalid_request_id", "invalid_request"} \subseteq ErrorCode
<1>1. ASSUME NEW result \in [error : ErrorCode] PROVE ~isOk(result)
  <2>1. DOMAIN result = {"error"}
    OBVIOUS
  <2> QED
    BY <2>1 DEF isOk
<1>2. ~isOk(NoResult)
  <2>1. DOMAIN NoResult = {"none"}
    BY DEF NoResult
  <2> QED
    BY <2>1 DEF isOk
<1>3. ASSUME NEW dto, NEW out PROVE isOk(Returns(dto, out).result)
  <2>1. DOMAIN Returns(dto, out).result = {"value"}
    BY DEF Returns
  <2> QED
    BY <2>1 DEF isOk
<1> QED
  BY <1>1, <1>2, <1>3 DEF Fails, Returns, ErrorCode

\* The id is taken from the message.
LEMMA IdFacts ==
  ASSUME NEW root, root["request_id"] \in Field, NEW reads \in [Text -> Text],
         RequestIdText(root, reads) \in Uuid
  PROVE  \E text \in WellFormed :
           root["request_id"] = AsString(text) /\ reads[text] = RequestIdText(root, reads)
<1>1. Has(root, "request_id", "string")
  BY TextFacts DEF RequestIdText
<1>2. /\ root["request_id"].string \in WellFormed
      /\ root["request_id"] = AsString(root["request_id"].string)
  BY <1>1, FieldCases DEF Has
<1> QED
  BY <1>1, <1>2 DEF RequestIdText

\* The body of a request is refused, or it is within the limits.
LEMMA ReadRequests ==
  ASSUME NEW data \in RequestData, NEW id \in Uuid
  PROVE  /\ ReadRequest(data, id).out_request_id = id
         /\ ReadRequest(data, id).result \in [error : ErrorCode] \union [value : Accepted]
<1>1. CASE /\ HasText(data, "client_version", kMaxClientVersionBytes, AsItIs)
           /\ HasText(data, "platform", kMaxPlatformBytes, AsItIs)
           /\ HasCapabilities(data, AsItIs)
  <2> DEFINE dto == [client_version |-> data["client_version"].string,
                     platform |-> data["platform"].string,
                     capabilities |-> CapabilitiesOf(data, AsItIs)]
  <2>1. data["client_version"] \in Field /\ data["platform"] \in Field
        /\ data["capabilities"] \in Field
    BY DEF RequestData
  <2>2. AsItIs \in [Text -> Text]
    BY TextFacts
  <2>3. data["client_version"].string \in Limited(kMaxClientVersionBytes)
    <3>1. /\ data["client_version"].string \in WellFormed
          /\ AsItIs[data["client_version"].string] \in Limited(kMaxClientVersionBytes)
      BY <1>1, <2>1, <2>2, ReadTexts
    <3> QED
      BY <3>1, TextFacts
  <2>4. data["platform"].string \in Limited(kMaxPlatformBytes)
    <3>1. /\ data["platform"].string \in WellFormed
          /\ AsItIs[data["platform"].string] \in Limited(kMaxPlatformBytes)
      BY <1>1, <2>1, <2>2, ReadTexts
    <3> QED
      BY <3>1, TextFacts
  <2>5. CapabilitiesOf(data, AsItIs) \in AcceptedSets
    BY <1>1, <2>1, CapabilitiesAreAccepted, TextFacts
  <2>6. dto \in Accepted
    BY <2>3, <2>4, <2>5 DEF Accepted
  <2>7. ReadRequest(data, id) = Returns(dto, id)
    BY <1>1 DEF ReadRequest
  <2> HIDE DEF dto
  <2>8. [value |-> dto] \in [value : Accepted]
    BY <2>6
  <2> QED
    BY <2>7, <2>8 DEF Returns
<1>2. CASE ReadRequest(data, id) = Fails("invalid_request", id)
  BY <1>2, OutcomeFacts
<1> QED
  BY <1>1, <1>2 DEF ReadRequest

\* An object of a message is one of its reader's shape.
LEMMA Objects ==
  ASSUME NEW Shape, NEW v \in Flat \union [object : Shape] \union {Malformed, Absent},
         IsA("object", v)
  PROVE  v.object \in Shape
<1>1. v \notin Flat
  BY FieldCases DEF Field
<1>2. v # Absent
  BY FieldCases DEF Field
<1>3. v # Malformed
  <2>1. DOMAIN Malformed = {"malformed"}
    BY DEF Malformed
  <2> QED
    BY <2>1 DEF IsA
<1> QED
  BY <1>1, <1>2, <1>3

\* A call of the server's decoder refuses and keeps the id it was passed, or finds
\* a valid one in the message.
LEMMA DecodedRequests ==
  ASSUME NEW body \in Body(RequestRoot), NEW out
  PROVE  LET decoded == decodeHelloRequest(body, out) IN
         \/ decoded.out_request_id = out /\ decoded.result \in [error : ErrorCode]
         \/ /\ decoded.out_request_id \in Uuid
            /\ body.json.object["request_id"] = AsString(decoded.out_request_id)
            /\ decoded.result \in [error : ErrorCode] \union [value : Accepted]
<1> DEFINE decoded == decodeHelloRequest(body, out)
           root == body.json.object
           id == RequestIdText(root, AsItIs)
<1>1. CASE decoded \in {Fails(code, out) : code \in ErrorCode}
  BY <1>1, OutcomeFacts
<1>2. CASE ~body.oversized /\ IsA("object", body.json) /\ id \in Uuid
  <2>1. root \in RequestRoot
    BY <1>2, Objects DEF Body
  <2>2. root["request_id"] \in Field /\ root["data"] \in Field \union [object : RequestData]
    BY <2>1 DEF RequestRoot
  <2>3. \E text \in WellFormed : root["request_id"] = AsString(text) /\ AsItIs[text] = id
    BY <1>2, <2>2, IdFacts, TextFacts
  <2>4. root["request_id"] = AsString(id)
    BY <2>3, TextFacts
  <2>5. body.json # Malformed
    <3>1. DOMAIN Malformed = {"malformed"}
      BY DEF Malformed
    <3> QED
      BY <1>2, <3>1 DEF IsA
  <2>6. CASE ~Has(root, "data", "object")
    <3>1. decoded = Fails("invalid_request", id)
      BY <1>2, <2>5, <2>6 DEF decodeHelloRequest
    <3> QED
      BY <1>2, <2>4, <3>1, OutcomeFacts
  <2>7. CASE Has(root, "data", "object")
    <3>1. root["data"].object \in RequestData
      BY <2>2, <2>7, Objects DEF Has, Field
    <3>2. decoded = ReadRequest(root["data"].object, id)
      BY <1>2, <2>5, <2>7 DEF decodeHelloRequest
    <3> QED
      BY <1>2, <2>4, <3>1, <3>2, ReadRequests
  <2> QED
    BY <2>6, <2>7
<1> QED
  BY <1>1, <1>2, OutcomeFacts DEF decodeHelloRequest

\* A number that is read is none below zero.
LEMMA ReadCounts ==
  ASSUME NEW object, NEW key, NEW most \in Nat, HasCount(object, key, most)
  PROVE  Count(object, key) \in Nat
<1>1. object[key].number \in 0 .. 2 * most
  BY DEF HasCount
<1> DEFINE number == object[key].number
<1>2. number \in Nat
  BY <1>1
<1> HIDE DEF number
<1>3. number \div 2 \in Nat
  BY <1>2
<1> QED
  BY <1>3 DEF Count, number

\* The body of a response is refused, or it has the types of the DTO.
LEMMA ReadResponses ==
  ASSUME NEW data \in ResponseData, NEW id \in Uuid
  PROVE  /\ ReadResponse(data, id).out_request_id = id
         /\ ReadResponse(data, id).result \in [error : ErrorCode] \union [value : HelloResponse]
<1>1. CASE /\ HasText(data, "server_version", kMaxClientVersionBytes, ThroughQt)
           /\ HasCount(data, "server_time", kMaxSafeInteger)
           /\ \A key \in Counts : HasCount(data, key, kMaxUint32)
           /\ HasCapabilities(data, ThroughQt)
  <2> DEFINE dto == [server_version |-> ThroughQt[data["server_version"].string],
                     server_time |-> Count(data, "server_time"),
                     max_json |-> Count(data, "max_json"),
                     max_text |-> Count(data, "max_text"),
                     heartbeat_idle |-> Count(data, "heartbeat_idle"),
                     timeout |-> Count(data, "timeout"),
                     capabilities |-> CapabilitiesOf(data, ThroughQt)]
  <2>1. data["server_version"] \in Field /\ data["capabilities"] \in Field
    BY DEF ResponseData
  <2>2. ThroughQt \in [Text -> Text]
    BY TextFacts
  <2>3. ThroughQt[data["server_version"].string] \in Text
    BY <1>1, <2>1, <2>2, ReadTexts, TextFacts
  <2>4. Count(data, "server_time") \in Nat
    BY <1>1, ReadCounts, LimitsAssumption
  <2>5. \A key \in Counts : Count(data, key) \in Nat
    BY <1>1, ReadCounts, LimitsAssumption
  <2>6. /\ Count(data, "max_json") \in Nat /\ Count(data, "max_text") \in Nat
        /\ Count(data, "heartbeat_idle") \in Nat /\ Count(data, "timeout") \in Nat
    BY <2>5 DEF Counts
  <2>7. CapabilitiesOf(data, ThroughQt) \in CapabilitySet
    BY <1>1, <2>1, <2>2, CapabilitiesAreAccepted DEF AcceptedSets
  <2>8. dto \in HelloResponse
    BY <2>3, <2>4, <2>6, <2>7 DEF HelloResponse
  <2>9. ReadResponse(data, id) = Returns(dto, id)
    BY <1>1 DEF ReadResponse
  <2> HIDE DEF dto
  <2>10. [value |-> dto] \in [value : HelloResponse]
    BY <2>8
  <2> QED
    BY <2>9, <2>10 DEF Returns
<1>2. CASE ~(/\ HasText(data, "server_version", kMaxClientVersionBytes, ThroughQt)
             /\ HasCount(data, "server_time", kMaxSafeInteger)
             /\ \A key \in Counts : HasCount(data, key, kMaxUint32)
             /\ HasCapabilities(data, ThroughQt))
  <2>1. ReadResponse(data, id) = Fails("invalid_request", id)
    BY <1>2 DEF ReadResponse
  <2> QED
    BY <2>1, OutcomeFacts
<1> QED
  BY <1>1, <1>2

\* The same of the client's decoder, which reads the id through a QString.
LEMMA DecodedResponses ==
  ASSUME NEW body \in Body(ResponseRoot), NEW out
  PROVE  LET decoded == decodeHelloResponse(body, out) IN
         \/ decoded.out_request_id = out /\ decoded.result \in [error : ErrorCode]
         \/ /\ decoded.out_request_id \in Uuid
            /\ \E text \in WellFormed :
                 /\ body.json.object["request_id"] = AsString(text)
                 /\ ThroughQt[text] = decoded.out_request_id
            /\ decoded.result \in [error : ErrorCode] \union [value : HelloResponse]
<1> DEFINE decoded == decodeHelloResponse(body, out)
           root == body.json.object
           id == RequestIdText(root, ThroughQt)
<1>1. CASE decoded \in {Fails(code, out) : code \in ErrorCode}
  BY <1>1, OutcomeFacts
<1>2. CASE ~body.oversized /\ IsA("object", body.json) /\ id \in Uuid
  <2>1. root \in ResponseRoot
    BY <1>2, Objects DEF Body
  <2>2. root["request_id"] \in Field /\ root["data"] \in Field \union [object : ResponseData]
    BY <2>1 DEF ResponseRoot
  <2>3. \E text \in WellFormed : root["request_id"] = AsString(text) /\ ThroughQt[text] = id
    BY <1>2, <2>2, IdFacts, TextFacts
  <2> DEFINE granted == Has(root, "ok", "bool") /\ root["ok"].bool
  <2>4. CASE ~granted \/ ~Has(root, "data", "object")
    <3>1. decoded = Fails("invalid_request", id)
      BY <1>2, <2>4 DEF decodeHelloResponse
    <3> QED
      BY <1>2, <2>3, <3>1, OutcomeFacts
  <2>5. CASE granted /\ Has(root, "data", "object")
    <3>1. root["data"].object \in ResponseData
      BY <2>2, <2>5, Objects DEF Has, Field
    <3>2. decoded = ReadResponse(root["data"].object, id)
      BY <1>2, <2>5 DEF decodeHelloResponse
    <3> QED
      BY <1>2, <2>3, <3>1, <3>2, ReadResponses
  <2> QED
    BY <2>4, <2>5
<1> QED
  BY <1>1, <1>2, OutcomeFacts DEF decodeHelloResponse

-----------------------------------------------------------------------------
(* What an encoder writes is read *)

\* A string is read as what the reader's library makes of it.
LEMMA StringIsRead ==
  ASSUME NEW text \in WellFormed, NEW object, NEW key, object[key] = AsString(text),
         NEW most, NEW reads
  PROVE  /\ object[key] \in Field /\ object[key].string = text
         /\ HasText(object, key, most, reads) <=> Bytes[reads[text]] \in 1..most
<1>1. object[key] \in [string : WellFormed] /\ object[key].string = text
  BY DEF AsString
<1>2. DOMAIN object[key] = {"string"}
  BY DEF AsString
<1> QED
  BY <1>1, <1>2 DEF Field, Flat, Scalar, HasText, Has, IsA

\* The array a set is written as is read as that set again, but for what the two
\* libraries do to its texts.
LEMMA ArrayIsRead ==
  ASSUME NEW S \in CapabilitySet, IsFiniteSet(S),
         NEW writes \in [Text -> Text], \A text \in S : writes[text] \in WellFormed,
         NEW reads \in [Text -> Text], NEW object,
         object["capabilities"] =
           [array |-> [i \in 1..Cardinality(S) |-> AsString(writes[Listing(S)[i]])]]
  PROVE  /\ object["capabilities"] \in Field
         /\ CapabilitiesOf(object, reads) = {reads[writes[text]] : text \in S}
         /\ HasCapabilities(object, reads) <=>
              /\ Cardinality(S) <= kMaxCapabilityCount
              /\ \A text \in S : Bytes[reads[writes[text]]] \in 1..kMaxCapabilityValueBytes
<1> DEFINE n == Cardinality(S)
           list == Listing(S)
           items == [i \in 1..n |-> AsString(writes[list[i]])]
<1>1. /\ n \in Nat /\ list \in [1..n -> S]
      /\ \A x \in S : \E i \in 1..n : list[i] = x
  BY ListingFacts
<1>2. object["capabilities"].array = items /\ DOMAIN object["capabilities"] = {"array"}
      /\ object["capabilities"] = [array |-> items]
  OBVIOUS
<1> HIDE DEF n, list
<1>3. ASSUME NEW i \in 1..n
      PROVE  /\ items[i] \in [string : WellFormed] /\ IsA("string", items[i])
             /\ items[i].string = writes[list[i]]
  <2>1. items[i] = AsString(writes[list[i]]) /\ writes[list[i]] \in WellFormed
    BY <1>1, <1>3
  <2>2. DOMAIN items[i] = {"string"}
    BY <2>1 DEF AsString
  <2> QED
    BY <2>1, <2>2 DEF AsString, IsA
<1>4. DOMAIN items = 1..n
  OBVIOUS
<1> HIDE DEF items
<1>5. items \in Seq(Scalar) /\ Len(items) = n
  <2>1. \A i \in 1..n : items[i] \in Scalar
    BY <1>3 DEF Scalar
  <2>2. items = [i \in 1..n |-> items[i]]
    BY <1>4 DEF items
  <2> HIDE DEF Scalar
  <2>3. items \in [1..n -> Scalar]
    BY <2>1, <2>2
  <2> QED
    BY <1>1, <2>3
<1>6. object["capabilities"] \in Field
  BY <1>2, <1>5 DEF Field, Flat
<1>7. CapabilitiesOf(object, reads) = {reads[writes[list[i]]] : i \in 1..n}
  <2>1. CapabilitiesOf(object, reads) = {reads[items[i].string] : i \in 1..n}
    BY <1>2, <1>4 DEF CapabilitiesOf
  <2>2. \A i \in 1..n : reads[items[i].string] = reads[writes[list[i]]]
    BY <1>3
  <2> QED
    BY <2>1, <2>2
<1>8. {reads[writes[list[i]]] : i \in 1..n} = {reads[writes[text]] : text \in S}
  BY <1>1
<1>9. HasCapabilities(object, reads) <=>
        /\ n <= kMaxCapabilityCount
        /\ \A i \in 1..n : Bytes[reads[writes[list[i]]]] \in 1..kMaxCapabilityValueBytes
  BY <1>2, <1>3, <1>4, <1>5 DEF HasCapabilities, Has, IsA
<1>10. (\A i \in 1..n : Bytes[reads[writes[list[i]]]] \in 1..kMaxCapabilityValueBytes)
         <=> \A text \in S : Bytes[reads[writes[text]]] \in 1..kMaxCapabilityValueBytes
  BY <1>1
<1> QED
  BY <1>6, <1>7, <1>8, <1>9, <1>10 DEF n

\* The names of JSON types differ, so a value is of one type only.
LEMMA WrittenFacts ==
  ASSUME NEW root
  PROVE  /\ Written(root).oversized = FALSE
         /\ Written(root).json = [object |-> root] /\ Written(root).json.object = root
         /\ IsA("object", Written(root).json) /\ Written(root).json # Malformed
<1>1. Written(root).json = [object |-> root] /\ Written(root).oversized = FALSE
  BY DEF Written
<1>2. DOMAIN [object |-> root] = {"object"} /\ DOMAIN Malformed = {"malformed"}
  BY DEF Malformed
<1> QED
  BY <1>1, <1>2 DEF IsA

\* What our client writes of a request, valid or not, is a message; if it is
\* accepted, it is accepted with its id and with its capabilities as a QString
\* carries them, and if it is valid, it is accepted unchanged.
LEMMA EncodedRequests ==
  ASSUME NEW id \in RequestId, NEW request \in HelloRequest,
         IsFiniteSet(request.capabilities), NEW out
  PROVE  LET body == encodeHelloRequest(id, request)
             decoded == decodeHelloRequest(body, out)
         IN /\ body \in Body(RequestRoot)
            /\ isOk(decoded.result) =>
                 /\ decoded.out_request_id = id
                 /\ decoded.result.value.capabilities
                      = {ThroughQt[text] : text \in request.capabilities}
            /\ Valid(id, request) => decoded = Returns(request, id)
<1> DEFINE body == encodeHelloRequest(id, request)
           decoded == decodeHelloRequest(body, out)
           S == request.capabilities
           data == [client_version |-> AsString(ThroughQt[request.client_version]),
                    platform |-> AsString(ThroughQt[request.platform]),
                    capabilities |-> AsQtArray(S)]
           root == [request_id |-> AsString(id), data |-> [object |-> data]]
           carried == {ThroughQt[text] : text \in S}
<1>1. /\ request.client_version \in Text /\ request.platform \in Text /\ S \in CapabilitySet
      /\ ThroughQt[request.client_version] \in WellFormed
      /\ ThroughQt[request.platform] \in WellFormed
      /\ \A text \in S : text \in Text /\ ThroughQt[text] \in WellFormed
                         /\ AsItIs[ThroughQt[text]] = ThroughQt[text]
  BY TextFacts DEF HelloRequest, CapabilitySet
<1>2. AsItIs \in [Text -> Text] /\ ThroughQt \in [Text -> Text] /\ id \in WellFormed
  BY TextFacts
<1>3. /\ data["client_version"] = AsString(ThroughQt[request.client_version])
      /\ data["platform"] = AsString(ThroughQt[request.platform])
      /\ data["capabilities"]
           = [array |-> [i \in 1..Cardinality(S) |-> AsString(ThroughQt[Listing(S)[i]])]]
      /\ data = [client_version |-> data["client_version"], platform |-> data["platform"],
                 capabilities |-> data["capabilities"]]
  BY DEF AsQtArray
<1>4. body = Written(root)
  BY DEF encodeHelloRequest
<1>5. /\ root["request_id"] = AsString(id) /\ root["data"] = [object |-> data]
      /\ root["data"].object = data
      /\ root = [request_id |-> root["request_id"], data |-> root["data"]]
  OBVIOUS
<1> HIDE DEF data, root, S, body, decoded
<1>6. /\ data["client_version"] \in Field
      /\ data["client_version"].string = ThroughQt[request.client_version]
      /\ HasText(data, "client_version", kMaxClientVersionBytes, AsItIs)
           <=> Bytes[AsItIs[ThroughQt[request.client_version]]] \in 1..kMaxClientVersionBytes
  <2>1. data["client_version"] = AsString(ThroughQt[request.client_version])
    BY <1>3
  <2>2. ThroughQt[request.client_version] \in WellFormed
    BY <1>1
  <2> QED
    BY <2>1, <2>2, StringIsRead
<1>7. /\ data["platform"] \in Field
      /\ data["platform"].string = ThroughQt[request.platform]
      /\ HasText(data, "platform", kMaxPlatformBytes, AsItIs)
           <=> Bytes[AsItIs[ThroughQt[request.platform]]] \in 1..kMaxPlatformBytes
  <2>1. data["platform"] = AsString(ThroughQt[request.platform])
    BY <1>3
  <2>2. ThroughQt[request.platform] \in WellFormed
    BY <1>1
  <2> QED
    BY <2>1, <2>2, StringIsRead
<1>8. /\ data["capabilities"] \in Field
      /\ CapabilitiesOf(data, AsItIs) = {AsItIs[ThroughQt[text]] : text \in S}
      /\ HasCapabilities(data, AsItIs) <=>
           /\ Cardinality(S) <= kMaxCapabilityCount
           /\ \A text \in S :
                Bytes[AsItIs[ThroughQt[text]]] \in 1..kMaxCapabilityValueBytes
  BY <1>1, <1>2, <1>3, ArrayIsRead DEF S
<1>9. CapabilitiesOf(data, AsItIs) = carried
  BY <1>1, <1>8
<1>10. root["request_id"] \in Field /\ RequestIdText(root, AsItIs) = id
  <2>1. root["request_id"] \in Field /\ root["request_id"].string = id
    BY <1>2, <1>5, StringIsRead
  <2>2. Has(root, "request_id", "string")
    BY <1>5 DEF AsString, Has, IsA
  <2> QED
    BY <1>2, <2>1, <2>2, TextFacts DEF RequestIdText
<1>11. Has(root, "data", "object")
  <2>1. DOMAIN [object |-> data] = {"object"}
    OBVIOUS
  <2> QED
    BY <1>5, <2>1 DEF Has, IsA
<1>12. body \in Body(RequestRoot)
  <2>1. data \in RequestData
    BY <1>3, <1>6, <1>7, <1>8 DEF RequestData
  <2>2. root["data"] \in Field \union [object : RequestData]
    BY <1>5, <2>1
  <2>3. root \in RequestRoot
    BY <1>5, <1>10, <2>2 DEF RequestRoot
  <2>4. [object |-> root] \in [object : RequestRoot]
    BY <2>3
  <2> QED
    BY <1>4, <2>4 DEF Body, Written
<1>13. decoded = IF id \notin Uuid THEN Fails("invalid_request_id", out)
                 ELSE ReadRequest(data, id)
  BY <1>4, <1>5, <1>10, <1>11, WrittenFacts DEF decoded, decodeHelloRequest
<1>14. isOk(decoded.result) =>
         decoded.out_request_id = id /\ decoded.result.value.capabilities = carried
  <2> SUFFICES ASSUME isOk(decoded.result)
               PROVE  decoded.out_request_id = id /\ decoded.result.value.capabilities = carried
    OBVIOUS
  <2>1. decoded = ReadRequest(data, id)
    BY <1>13, OutcomeFacts
  <2>2. decoded # Fails("invalid_request", id)
    BY OutcomeFacts
  <2>3. decoded = Returns([client_version |-> data["client_version"].string,
                           platform |-> data["platform"].string,
                           capabilities |-> CapabilitiesOf(data, AsItIs)], id)
    BY <2>1, <2>2 DEF ReadRequest
  <2> QED
    BY <1>9, <2>3 DEF Returns
<1>15. Valid(id, request) => decoded = Returns(request, id)
  <2> SUFFICES ASSUME Valid(id, request) PROVE decoded = Returns(request, id)
    OBVIOUS
  <2>1. /\ ThroughQt[request.client_version] = request.client_version
        /\ ThroughQt[request.platform] = request.platform
        /\ \A text \in S : ThroughQt[text] = text
    BY DEF Valid, Sized, S
  <2>2. HasText(data, "client_version", kMaxClientVersionBytes, AsItIs)
    BY <1>1, <1>6, <2>1, TextFacts DEF Valid, Sized
  <2>3. HasText(data, "platform", kMaxPlatformBytes, AsItIs)
    BY <1>1, <1>7, <2>1, TextFacts DEF Valid, Sized
  <2>4. HasCapabilities(data, AsItIs)
    BY <1>1, <1>8, <2>1 DEF Valid, Sized, S
  <2>5. carried = S
    BY <2>1
  <2>6. ReadRequest(data, id)
          = Returns([client_version |-> request.client_version,
                     platform |-> request.platform, capabilities |-> S], id)
    BY <1>6, <1>7, <1>9, <2>1, <2>2, <2>3, <2>4, <2>5 DEF ReadRequest
  <2>7. request = [client_version |-> request.client_version,
                   platform |-> request.platform, capabilities |-> S]
    BY DEF HelloRequest, S
  <2>8. id \in Uuid
    BY DEF Valid
  <2> QED
    BY <1>13, <2>6, <2>7, <2>8
<1> QED
  BY <1>12, <1>14, <1>15 DEF decoded, body, S

\* A number that is written within its limit is read as that number.
LEMMA NumberIsRead ==
  ASSUME NEW n \in Nat, NEW most \in Nat, n <= most,
         NEW object, NEW key, object[key] = AsNumber(n)
  PROVE  /\ object[key] \in Field /\ HasCount(object, key, most)
         /\ Count(object, key) = n
<1>1. object[key] = [number |-> 2 * n] /\ object[key].number = 2 * n
  BY DEF AsNumber
<1>2. DOMAIN object[key] = {"number"} /\ object[key] \in [number : Int]
  BY <1>1
<1>3. 2 * n \in 0 .. 2 * most /\ (2 * n) % 2 = 0 /\ (2 * n) \div 2 = n
  OBVIOUS
<1> QED
  BY <1>1, <1>2, <1>3 DEF Field, Flat, Scalar, HasCount, Has, IsA, Count

\* What the server grants is finite, small, and read as it was written.
LEMMA GrantedFacts ==
  ASSUME NEW request \in Accepted
  PROVE  LET S == Intersect(Supported, request.capabilities) IN
         /\ S \in CapabilitySet /\ IsFiniteSet(S) /\ Cardinality(S) <= kMaxCapabilityCount
         /\ \A text \in S : /\ text \in WellFormed /\ ThroughQt[text] = text
                            /\ Bytes[text] \in 1..kMaxCapabilityValueBytes
<1> DEFINE R == request.capabilities
           S == Supported \intersect R
<1>1. /\ R \in CapabilitySet /\ IsFiniteSet(R) /\ Cardinality(R) \in Nat
      /\ Cardinality(R) <= kMaxCapabilityCount
      /\ \A text \in R : Bytes[text] \in 1..kMaxCapabilityValueBytes
  BY DEF Accepted, AcceptedSets
<1>2. \A text \in Supported : text \in WellFormed /\ ThroughQt[text] = text
  BY ExchangeAssumption
<1> HIDE DEF R
<1>3. IsFiniteSet(S) /\ Cardinality(S) <= Cardinality(R)
  BY <1>1, FS_Intersection
<1>4. Cardinality(S) \in Nat
  BY <1>3, FS_CardinalityType
<1>5. Cardinality(S) <= kMaxCapabilityCount
  BY <1>1, <1>3, <1>4, LimitsAssumption
<1> QED
  BY <1>1, <1>2, <1>3, <1>5 DEF Intersect, R, CapabilitySet

\* The answer to a request that was accepted is a message, and our client reads
\* it as it was meant.
LEMMA EncodedResponses ==
  ASSUME NEW id \in Uuid, NEW request \in Accepted, NEW time \in Times, NEW out
  PROVE  LET body == encodeHelloResponse(id, Negotiated(request, time))
         IN /\ body \in Body(ResponseRoot)
            /\ decodeHelloResponse(body, out) = Returns(Negotiated(request, time), id)
<1> DEFINE body == encodeHelloResponse(id, Negotiated(request, time))
           S == Intersect(Supported, request.capabilities)
           data == [server_version |-> AsString(kServerVersion),
                    server_time |-> AsNumber(time),
                    max_json |-> AsNumber(kMaxJsonBytes),
                    max_text |-> AsNumber(kMaxTextBytes),
                    heartbeat_idle |-> AsNumber(kHeartbeatIdleMs),
                    timeout |-> AsNumber(kSessionTimeoutMs),
                    capabilities |-> AsArray(S)]
           root == [request_id |-> AsString(id), ok |-> [bool |-> TRUE],
                    data |-> [object |-> data]]
<1>1. /\ S \in CapabilitySet /\ IsFiniteSet(S) /\ Cardinality(S) <= kMaxCapabilityCount
      /\ \A text \in S : /\ text \in WellFormed /\ ThroughQt[text] = text
                         /\ Bytes[text] \in 1..kMaxCapabilityValueBytes
  BY GrantedFacts
<1>2. /\ AsItIs \in [Text -> Text] /\ ThroughQt \in [Text -> Text]
      /\ \A text \in Text : AsItIs[text] = text
      /\ id \in WellFormed /\ ThroughQt[id] = id
  BY TextFacts
<1> HIDE DEF S
<1>3. body = Written(root)
  BY DEF encodeHelloResponse, Negotiated, S
<1>4. /\ data["server_version"] = AsString(kServerVersion)
      /\ data["server_time"] = AsNumber(time)
      /\ data["max_json"] = AsNumber(kMaxJsonBytes)
      /\ data["max_text"] = AsNumber(kMaxTextBytes)
      /\ data["heartbeat_idle"] = AsNumber(kHeartbeatIdleMs)
      /\ data["timeout"] = AsNumber(kSessionTimeoutMs)
      /\ data["capabilities"]
           = [array |-> [i \in 1..Cardinality(S) |-> AsString(Listing(S)[i])]]
      /\ data = [server_version |-> data["server_version"],
                 server_time |-> data["server_time"], max_json |-> data["max_json"],
                 max_text |-> data["max_text"], heartbeat_idle |-> data["heartbeat_idle"],
                 timeout |-> data["timeout"], capabilities |-> data["capabilities"]]
  BY DEF AsArray
<1>5. /\ root["request_id"] = AsString(id) /\ root["ok"] = [bool |-> TRUE]
      /\ root["data"] = [object |-> data] /\ root["data"].object = data
      /\ root = [request_id |-> root["request_id"], ok |-> root["ok"], data |-> root["data"]]
  OBVIOUS
<1> HIDE DEF data, root, body
<1>6. /\ data["server_version"] \in Field /\ data["server_version"].string = kServerVersion
      /\ HasText(data, "server_version", kMaxClientVersionBytes, ThroughQt)
      /\ ThroughQt[kServerVersion] = kServerVersion
  <2>1. kServerVersion \in WellFormed /\ ThroughQt[kServerVersion] = kServerVersion
        /\ Bytes[kServerVersion] = 3
    BY TextAssumption
  <2>2. 3 \in 1..kMaxClientVersionBytes
    BY DEF kMaxClientVersionBytes
  <2> QED
    BY <1>4, <2>1, <2>2, StringIsRead
<1>7. /\ data["server_time"] \in Field /\ HasCount(data, "server_time", kMaxSafeInteger)
      /\ Count(data, "server_time") = time
  <2>1. time \in Nat /\ time <= kMaxSafeInteger
    BY ExchangeAssumption, LimitsAssumption
  <2> QED
    BY <1>4, <2>1, NumberIsRead, LimitsAssumption
<1>8. /\ kMaxJsonBytes \in Nat /\ kMaxJsonBytes <= kMaxUint32
      /\ kMaxTextBytes \in Nat /\ kMaxTextBytes <= kMaxUint32
      /\ kHeartbeatIdleMs \in Nat /\ kHeartbeatIdleMs <= kMaxUint32
      /\ kSessionTimeoutMs \in Nat /\ kSessionTimeoutMs <= kMaxUint32
      /\ kMaxUint32 \in Nat
  BY SMT, LimitsAssumption DEF kMaxJsonBytes, kMaxTextBytes, kHeartbeatIdleMs, kSessionTimeoutMs
<1>9. /\ data["max_json"] \in Field /\ HasCount(data, "max_json", kMaxUint32)
      /\ Count(data, "max_json") = kMaxJsonBytes
  BY <1>4, <1>8, NumberIsRead
<1>10. /\ data["max_text"] \in Field /\ HasCount(data, "max_text", kMaxUint32)
       /\ Count(data, "max_text") = kMaxTextBytes
  BY <1>4, <1>8, NumberIsRead
<1>11. /\ data["heartbeat_idle"] \in Field /\ HasCount(data, "heartbeat_idle", kMaxUint32)
       /\ Count(data, "heartbeat_idle") = kHeartbeatIdleMs
  BY <1>4, <1>8, NumberIsRead
<1>12. /\ data["timeout"] \in Field /\ HasCount(data, "timeout", kMaxUint32)
       /\ Count(data, "timeout") = kSessionTimeoutMs
  BY <1>4, <1>8, NumberIsRead
<1>13. /\ data["capabilities"] \in Field
       /\ CapabilitiesOf(data, ThroughQt) = {ThroughQt[AsItIs[text]] : text \in S}
       /\ HasCapabilities(data, ThroughQt) <=>
            /\ Cardinality(S) <= kMaxCapabilityCount
            /\ \A text \in S :
                 Bytes[ThroughQt[AsItIs[text]]] \in 1..kMaxCapabilityValueBytes
  <2>1. \A i \in 1..Cardinality(S) : AsItIs[Listing(S)[i]] = Listing(S)[i]
    <3>1. Listing(S) \in [1..Cardinality(S) -> S]
      BY <1>1, ListingFacts
    <3> QED
      BY <1>1, <1>2, <3>1 DEF CapabilitySet
  <2>2. data["capabilities"]
          = [array |-> [i \in 1..Cardinality(S) |-> AsString(AsItIs[Listing(S)[i]])]]
    BY <1>4, <2>1
  <2>3. \A text \in S : AsItIs[text] \in WellFormed
    BY <1>1, <1>2 DEF CapabilitySet
  <2> QED
    BY <1>1, <1>2, <2>2, <2>3, ArrayIsRead
<1>14. CapabilitiesOf(data, ThroughQt) = S /\ HasCapabilities(data, ThroughQt)
  <2>1. \A text \in S : ThroughQt[AsItIs[text]] = text
    BY <1>1, <1>2 DEF CapabilitySet
  <2> QED
    BY <1>1, <1>13, <2>1
<1>15. root["request_id"] \in Field /\ RequestIdText(root, ThroughQt) = id
  <2>1. root["request_id"] \in Field /\ root["request_id"].string = id
    BY <1>2, <1>5, StringIsRead
  <2>2. Has(root, "request_id", "string")
    BY <1>5 DEF AsString, Has, IsA
  <2> QED
    BY <1>2, <2>1, <2>2 DEF RequestIdText
<1>16. Has(root, "data", "object") /\ Has(root, "ok", "bool") /\ root["ok"].bool
       /\ root["ok"] \in Field
  <2>1. DOMAIN [object |-> data] = {"object"} /\ DOMAIN [bool |-> TRUE] = {"bool"}
        /\ [bool |-> TRUE] \in [bool : BOOLEAN]
    OBVIOUS
  <2> QED
    BY <1>5, <2>1 DEF Has, IsA, Field, Flat, Scalar
<1>17. body \in Body(ResponseRoot)
  <2>1. data \in ResponseData
    BY <1>4, <1>6, <1>7, <1>9, <1>10, <1>11, <1>12, <1>13 DEF ResponseData
  <2>2. root["data"] \in Field \union [object : ResponseData]
    BY <1>5, <2>1
  <2>3. root \in ResponseRoot
    BY <1>5, <1>15, <1>16, <2>2 DEF ResponseRoot
  <2>4. [object |-> root] \in [object : ResponseRoot]
    BY <2>3
  <2> QED
    BY <1>3, <2>4 DEF Body, Written
<1>18. decodeHelloResponse(body, out) = ReadResponse(data, id)
  <2>1. body.oversized = FALSE /\ IsA("object", body.json) /\ body.json.object = root
    BY <1>3, WrittenFacts
  <2>2. decodeHelloResponse(body, out) = ReadResponse(root["data"].object, id)
    BY <1>15, <1>16, <2>1 DEF decodeHelloResponse
  <2> QED
    BY <1>5, <2>2
<1>19. \A key \in Counts : HasCount(data, key, kMaxUint32)
  BY <1>9, <1>10, <1>11, <1>12 DEF Counts
<1>20. ReadResponse(data, id)
         = Returns([server_version |-> kServerVersion, server_time |-> time,
                    max_json |-> kMaxJsonBytes, max_text |-> kMaxTextBytes,
                    heartbeat_idle |-> kHeartbeatIdleMs, timeout |-> kSessionTimeoutMs,
                    capabilities |-> S], id)
  BY <1>6, <1>7, <1>9, <1>10, <1>11, <1>12, <1>14, <1>19 DEF ReadResponse
<1> QED
  BY <1>17, <1>18, <1>20 DEF Negotiated, S, body

-----------------------------------------------------------------------------
(* The invariant *)

\* An accepted request is the one it is about, if our client sent it.
Fits(about, id, request) ==
  about # Nobody =>
    /\ id = about.id
    /\ request.capabilities = {ThroughQt[text] : text \in about.request.capabilities}

Asked(asked) ==
  [to |-> "server", from |-> "client", about |-> asked,
   body |-> encodeHelloRequest(asked.id, asked.request)]
Strange(to, body) == [to |-> to, from |-> "stranger", about |-> Nobody, body |-> body]
Answered(about, id, request, time) ==
  [to |-> "client", from |-> "server", about |-> about,
   body |-> encodeHelloResponse(id, Negotiated(request, time))]

WireInv ==
  \/ wire = Nothing
  \/ \E asked \in Requests : wire = Asked(asked)
  \/ \E body \in StrangeRequests : wire = Strange("server", body)
  \/ \E body \in StrangeResponses : wire = Strange("client", body)
  \/ \E about \in Requests \union {Nobody}, id \in Uuid, request \in Accepted, time \in Times :
       Fits(about, id, request) /\ wire = Answered(about, id, request, time)

ServerShape ==
  server \in [out_request_id : RequestId,
              result : {NoResult} \union [error : ErrorCode] \union [value : Accepted],
              about : Requests \union {Nobody}]
ServerFits ==
  isOk(server.result) =>
    server.out_request_id \in Uuid
    /\ Fits(server.about, server.out_request_id, server.result.value)

ClientShape ==
  client \in [out_request_id : RequestId, result : {NoResult} \union Outcome(HelloResponse),
              from : {"nobody", "stranger", "server"}, about : Requests \union {Nobody}]

ExchangeInv ==
  /\ WireInv /\ ServerShape /\ ServerFits /\ ClientShape
  /\ RequestsArriveWhole /\ AnswersMatchRequests

\* What callers and strangers give is as the assumptions say.
LEMMA InputFacts ==
  /\ \A asked \in Requests : /\ asked.id \in RequestId /\ asked.request \in HelloRequest
                             /\ IsFiniteSet(asked.request.capabilities)
  /\ StrangeRequests \subseteq Body(RequestRoot)
  /\ StrangeResponses \subseteq Body(ResponseRoot)
  BY ExchangeAssumption

\* Who wrote a message and what it is can be read off its first fields.
LEMMA MessageFacts ==
  /\ Nothing.to = "nobody"
  /\ \A asked : /\ Asked(asked).to = "server" /\ Asked(asked).from = "client"
                /\ Asked(asked).about = asked
                /\ Asked(asked).body = encodeHelloRequest(asked.id, asked.request)
  /\ \A to, body : /\ Strange(to, body).to = to /\ Strange(to, body).from = "stranger"
                   /\ Strange(to, body).about = Nobody /\ Strange(to, body).body = body
  /\ \A about, id, request, time :
       /\ Answered(about, id, request, time).to = "client"
       /\ Answered(about, id, request, time).from = "server"
       /\ Answered(about, id, request, time).about = about
       /\ Answered(about, id, request, time).body
            = encodeHelloResponse(id, Negotiated(request, time))
  BY DEF Nothing, Asked, Strange, Answered

\* An accepted request is the value of the server's result.
LEMMA AcceptedValue ==
  ASSUME ServerShape, isOk(server.result)
  PROVE  /\ server.result.value \in Accepted
         /\ server.result = [value |-> server.result.value]
<1>1. server.result \in {NoResult} \union [error : ErrorCode] \union [value : Accepted]
  BY DEF ServerShape
<1>2. server.result \in [value : Accepted]
  BY <1>1, OutcomeFacts
<1> QED
  BY <1>2

\* It holds before the first message.
LEMMA InitGivesExchangeInv == Init => ExchangeInv
<1> SUFFICES ASSUME Init PROVE ExchangeInv
  OBVIOUS
<1>1. "" \in RequestId
  BY DEF RequestId
<1>2. ~isOk(server.result)
  BY OutcomeFacts DEF Init
<1> QED
  BY <1>1, <1>2
     DEF Init, ExchangeInv, WireInv, ServerShape, ServerFits, ClientShape,
         RequestsArriveWhole, AnswersMatchRequests

\* The server's decoder keeps what is known of the server.
LEMMA ReceiveRequestKeeps ==
  ASSUME ExchangeInv, ReceiveRequest
  PROVE  ExchangeInv'
<1> DEFINE decoded == decodeHelloRequest(wire.body, server.out_request_id)
<1>1. /\ server' = [out_request_id |-> decoded.out_request_id, result |-> decoded.result,
                    about |-> wire.about]
      /\ wire' = Nothing /\ client' = client
  BY DEF ReceiveRequest
<1> HIDE DEF decoded
<1>2. /\ server'.out_request_id = decoded.out_request_id
      /\ server'.result = decoded.result /\ server'.about = wire.about
  BY <1>1
<1>3. /\ wire.body \in Body(RequestRoot)
      /\ \/ wire.about = Nobody
         \/ /\ wire.about \in Requests
            /\ wire.body = encodeHelloRequest(wire.about.id, wire.about.request)
  <2>1. CASE \E asked \in Requests : wire = Asked(asked)
    <3>1. PICK asked \in Requests : wire = Asked(asked)
      BY <2>1
    <3>2. wire.about = asked /\ wire.body = encodeHelloRequest(asked.id, asked.request)
      BY <3>1, MessageFacts
    <3>3. encodeHelloRequest(asked.id, asked.request) \in Body(RequestRoot)
      BY InputFacts, EncodedRequests
    <3> QED
      BY <3>2, <3>3
  <2>2. CASE \E body \in StrangeRequests : wire = Strange("server", body)
    BY <2>2, MessageFacts, InputFacts
  <2> QED
    BY <2>1, <2>2, MessageFacts DEF ExchangeInv, WireInv, ReceiveRequest
<1>4. \/ decoded.out_request_id = server.out_request_id /\ decoded.result \in [error : ErrorCode]
      \/ /\ decoded.out_request_id \in Uuid
         /\ decoded.result \in [error : ErrorCode] \union [value : Accepted]
  BY <1>3, DecodedRequests DEF decoded
<1>5. ServerShape'
  <2>1. decoded.out_request_id \in RequestId
    BY <1>4, TextFacts DEF ExchangeInv, ServerShape
  <2>2. decoded.result \in {NoResult} \union [error : ErrorCode] \union [value : Accepted]
    BY <1>4
  <2>3. wire.about \in Requests \union {Nobody}
    BY <1>3
  <2> QED
    BY <1>1, <2>1, <2>2, <2>3 DEF ServerShape
<1>6. ServerFits'
  <2> SUFFICES ASSUME isOk(decoded.result)
               PROVE  decoded.out_request_id \in Uuid
                      /\ Fits(wire.about, decoded.out_request_id, decoded.result.value)
    BY <1>2 DEF ServerFits
  <2>1. decoded.out_request_id \in Uuid
    BY <1>4, OutcomeFacts
  <2>2. CASE wire.about = Nobody
    BY <2>1, <2>2 DEF Fits
  <2>3. CASE /\ wire.about \in Requests
             /\ wire.body = encodeHelloRequest(wire.about.id, wire.about.request)
    BY <2>1, <2>3, InputFacts, EncodedRequests DEF Fits, decoded
  <2> QED
    BY <1>3, <2>2, <2>3
<1>7. RequestsArriveWhole'
  <2> SUFFICES ASSUME wire.about # Nobody, Valid(wire.about.id, wire.about.request)
               PROVE  /\ decoded.out_request_id = wire.about.id
                      /\ decoded.result = [value |-> wire.about.request]
    BY <1>2 DEF RequestsArriveWhole, ServerHolds
  <2>1. decoded = Returns(wire.about.request, wire.about.id)
    BY <1>3, InputFacts, EncodedRequests DEF decoded
  <2> QED
    BY <2>1 DEF Returns
<1> QED
  BY <1>1, <1>5, <1>6, <1>7 DEF ExchangeInv, WireInv, ClientShape, AnswersMatchRequests

\* The client's decoder keeps what is known of the client.
LEMMA ReceiveResponseKeeps ==
  ASSUME ExchangeInv, ReceiveResponse
  PROVE  ExchangeInv'
<1> DEFINE decoded == decodeHelloResponse(wire.body, client.out_request_id)
<1>1. /\ client' = [out_request_id |-> decoded.out_request_id, result |-> decoded.result,
                    from |-> wire.from, about |-> wire.about]
      /\ wire' = Nothing /\ server' = server
  BY DEF ReceiveResponse
<1> HIDE DEF decoded
<1>2. /\ client'.out_request_id = decoded.out_request_id /\ client'.from = wire.from
      /\ client'.result = decoded.result /\ client'.about = wire.about
  BY <1>1
<1>3. CASE \E body \in StrangeResponses : wire = Strange("client", body)
  <2>1. /\ wire.body \in Body(ResponseRoot) /\ wire.from = "stranger" /\ wire.about = Nobody
    BY <1>3, MessageFacts, InputFacts
  <2>2. \/ decoded.out_request_id = client.out_request_id /\ decoded.result \in [error : ErrorCode]
        \/ /\ decoded.out_request_id \in Uuid
           /\ decoded.result \in [error : ErrorCode] \union [value : HelloResponse]
    BY <2>1, DecodedResponses DEF decoded
  <2>3. decoded.out_request_id \in RequestId
    BY <2>2, TextFacts DEF ExchangeInv, ClientShape
  <2>4. decoded.result \in {NoResult} \union Outcome(HelloResponse)
    BY <2>2 DEF Outcome
  <2>5. ClientShape'
    BY <1>1, <2>1, <2>3, <2>4 DEF ClientShape
  <2>6. AnswersMatchRequests'
    BY <1>2, <2>1 DEF AnswersMatchRequests
  <2> QED
    BY <1>1, <2>5, <2>6 DEF ExchangeInv, WireInv, ServerShape, ServerFits,
       RequestsArriveWhole, ServerHolds
<1>4. ASSUME NEW about \in Requests \union {Nobody}, NEW id \in Uuid,
             NEW request \in Accepted, NEW time \in Times,
             Fits(about, id, request), wire = Answered(about, id, request, time)
      PROVE  ExchangeInv'
  <2>1. /\ wire.from = "server" /\ wire.about = about
        /\ wire.body = encodeHelloResponse(id, Negotiated(request, time))
    BY <1>4, MessageFacts
  <2>2. decoded = Returns(Negotiated(request, time), id)
    BY <2>1, EncodedResponses DEF decoded
  <2>3. /\ decoded.out_request_id = id
        /\ decoded.result = [value |-> Negotiated(request, time)]
        /\ decoded.result.value = Negotiated(request, time)
    BY <2>2 DEF Returns
  <2>4. wire.body \in Body(ResponseRoot)
    BY <2>1, EncodedResponses
  <2>5. decoded.result \in [error : ErrorCode] \union [value : HelloResponse]
    BY <2>4, DecodedResponses DEF decoded
  <2>6. ClientShape'
    BY <1>1, <2>1, <2>3, <2>5, TextFacts DEF ClientShape, Outcome
  <2>7. AnswersMatchRequests'
    <3>1. Negotiated(request, time).capabilities = Supported \intersect request.capabilities
      BY DEF Negotiated, Intersect
    <3> QED
      BY <1>2, <1>4, <2>1, <2>3, <3>1 DEF AnswersMatchRequests, Fits
  <2> QED
    BY <1>1, <2>6, <2>7 DEF ExchangeInv, WireInv, ServerShape, ServerFits,
       RequestsArriveWhole, ServerHolds
<1> QED
  BY <1>3, <1>4, MessageFacts DEF ExchangeInv, WireInv, ReceiveResponse

\* Every step keeps the invariant.
LEMMA StepKeepsExchangeInv == ExchangeInv /\ [Next]_vars => ExchangeInv'
<1> SUFFICES ASSUME ExchangeInv, [Next]_vars PROVE ExchangeInv'
  OBVIOUS
<1> USE DEF ServerShape, ServerFits, ClientShape, RequestsArriveWhole, ServerHolds,
        AnswersMatchRequests
<1>1. CASE UNCHANGED vars
  BY <1>1 DEF ExchangeInv, WireInv, vars
<1>2. ASSUME NEW asked \in Requests, SendRequest(asked) PROVE ExchangeInv'
  <2>1. wire' = Asked(asked)
    BY <1>2 DEF SendRequest, Asked
  <2> QED
    BY <1>2, <2>1 DEF ExchangeInv, WireInv, SendRequest
<1>3. ASSUME NEW body \in StrangeRequests, StrangerSends("server", body) PROVE ExchangeInv'
  <2>1. wire' = Strange("server", body)
    BY <1>3 DEF StrangerSends, Strange
  <2> QED
    BY <1>3, <2>1 DEF ExchangeInv, WireInv, StrangerSends
<1>4. ASSUME NEW body \in StrangeResponses, StrangerSends("client", body) PROVE ExchangeInv'
  <2>1. wire' = Strange("client", body)
    BY <1>4 DEF StrangerSends, Strange
  <2> QED
    BY <1>4, <2>1 DEF ExchangeInv, WireInv, StrangerSends
<1>5. ASSUME NEW time \in Times, SendResponse(time) PROVE ExchangeInv'
  <2> DEFINE request == server.result.value
  <2>1. request \in Accepted
    BY <1>5, AcceptedValue DEF ExchangeInv, SendResponse
  <2>2. /\ server.out_request_id \in Uuid /\ server.about \in Requests \union {Nobody}
        /\ Fits(server.about, server.out_request_id, request)
    BY <1>5 DEF ExchangeInv, SendResponse
  <2>3. wire' = Answered(server.about, server.out_request_id, request, time)
    BY <1>5 DEF SendResponse, Answered
  <2> HIDE DEF request
  <2>4. WireInv'
    BY <2>1, <2>2, <2>3 DEF WireInv
  <2>5. /\ server'.result = NoResult /\ server'.out_request_id = server.out_request_id
        /\ server'.about = server.about /\ client' = client
    BY <1>5 DEF SendResponse, ExchangeInv
  <2>6. ServerShape'
    BY <1>5 DEF SendResponse, ExchangeInv
  <2>7. ServerFits' /\ RequestsArriveWhole'
    BY <2>5, OutcomeFacts
  <2> QED
    BY <2>4, <2>5, <2>6, <2>7 DEF ExchangeInv
<1>6. CASE ReceiveRequest \/ ReceiveResponse
  BY <1>6, ReceiveRequestKeeps, ReceiveResponseKeeps
<1> QED
  BY <1>1, <1>2, <1>3, <1>4, <1>5, <1>6 DEF Next

\* The inductive invariant: who wrote what is on its way, and what either side
\* knows after it has read it.
THEOREM ExchangeInvariantHolds == Spec => []ExchangeInv
  BY InitGivesExchangeInv, StepKeepsExchangeInv, PTL DEF Spec

-----------------------------------------------------------------------------
(* The properties *)

\* What a decoder returns has the type of its message, and what an encoder writes
\* is a message of the shape its reader looks for.
THEOREM TypeCorrect == Spec => []TypeOK
<1>1. ASSUME ExchangeInv PROVE TypeOK
  <2>1. \/ wire = Nothing
        \/ wire.to = "server" /\ wire.body \in Body(RequestRoot)
        \/ wire.to = "client" /\ wire.body \in Body(ResponseRoot)
    <3>1. ASSUME NEW asked \in Requests, wire = Asked(asked)
          PROVE  wire.to = "server" /\ wire.body \in Body(RequestRoot)
      <4>1. encodeHelloRequest(asked.id, asked.request) \in Body(RequestRoot)
        BY InputFacts, EncodedRequests
      <4> QED
        BY <3>1, <4>1, MessageFacts
    <3>2. ASSUME NEW about, NEW id \in Uuid, NEW request \in Accepted, NEW time \in Times,
                 wire = Answered(about, id, request, time)
          PROVE  wire.to = "client" /\ wire.body \in Body(ResponseRoot)
      <4>1. encodeHelloResponse(id, Negotiated(request, time)) \in Body(ResponseRoot)
        BY EncodedResponses
      <4> QED
        BY <3>2, <4>1, MessageFacts
    <3>3. ASSUME NEW body \in StrangeRequests, wire = Strange("server", body)
          PROVE  wire.to = "server" /\ wire.body \in Body(RequestRoot)
      BY <3>3, MessageFacts, InputFacts
    <3>4. ASSUME NEW body \in StrangeResponses, wire = Strange("client", body)
          PROVE  wire.to = "client" /\ wire.body \in Body(ResponseRoot)
      BY <3>4, MessageFacts, InputFacts
    <3> QED
      BY <1>1, <3>1, <3>2, <3>3, <3>4 DEF ExchangeInv, WireInv
  <2>2. Accepted \subseteq HelloRequest
    BY DEF Accepted, HelloRequest, Limited, AcceptedSets
  <2>3. server.result \in {NoResult} \union Outcome(HelloRequest)
    <3>1. server.result \in {NoResult} \union [error : ErrorCode] \union [value : Accepted]
      BY <1>1 DEF ExchangeInv, ServerShape
    <3>2. [value : Accepted] \subseteq [value : HelloRequest]
      BY <2>2
    <3> QED
      BY <3>1, <3>2 DEF Outcome
  <2> QED
    BY <1>1, <2>1, <2>3 DEF TypeOK, ExchangeInv, ServerShape, ClientShape
<1> QED
  BY <1>1, ExchangeInvariantHolds, PTL

\* A valid request of our client is never refused or changed on its way through the
\* two JSON libraries (hello_codec.cpp of both sides).
THEOREM RequestsArrive == Spec => []RequestsArriveWhole
<1>1. ExchangeInv => RequestsArriveWhole
  BY DEF ExchangeInv
<1> QED
  BY <1>1, ExchangeInvariantHolds, PTL

\* The answer our client holds has the id of the request it is about and grants
\* exactly what that request named and the server can do.
THEOREM AnswersMatch == Spec => []AnswersMatchRequests
<1>1. ExchangeInv => AnswersMatchRequests
  BY DEF ExchangeInv
<1> QED
  BY <1>1, ExchangeInvariantHolds, PTL

\* Our client accepts every answer of our server, whoever asked the server.
THEOREM AnswersAreRead == Spec => []AnswersAreReadable
<1>1. ASSUME ExchangeInv PROVE AnswersAreReadable
  <2> SUFFICES ASSUME wire.to = "client", wire.from = "server"
               PROVE  isOk(decodeHelloResponse(wire.body, client.out_request_id).result)
    BY DEF AnswersAreReadable
  <2>1. PICK about \in Requests \union {Nobody}, id \in Uuid, request \in Accepted,
             time \in Times : wire = Answered(about, id, request, time)
    <3>1. wire # Nothing /\ \A asked \in Requests : wire # Asked(asked)
      BY MessageFacts
    <3>2. \A body : wire # Strange("server", body) /\ wire # Strange("client", body)
      BY MessageFacts
    <3> QED
      BY <1>1, <3>1, <3>2 DEF ExchangeInv, WireInv
  <2>2. wire.body = encodeHelloResponse(id, Negotiated(request, time))
    BY <2>1, MessageFacts
  <2>3. decodeHelloResponse(wire.body, client.out_request_id)
          = Returns(Negotiated(request, time), id)
    BY <2>2, EncodedResponses
  <2> QED
    BY <2>3, OutcomeFacts
<1> QED
  BY <1>1, ExchangeInvariantHolds, PTL

\* A request the server accepted is accepted again when our client encodes it.
THEOREM AcceptedRequestsReturn == Spec => []AcceptedRequestsRoundTrip
<1>1. ASSUME ExchangeInv PROVE AcceptedRequestsRoundTrip
  <2> DEFINE request == server.result.value
             id == server.out_request_id
  <2> SUFFICES ASSUME isOk(server.result),
                      \A text \in {request.client_version, request.platform}
                                    \union request.capabilities : ThroughQt[text] = text
               PROVE  decodeHelloRequest(encodeHelloRequest(id, request), "")
                        = [result |-> server.result, out_request_id |-> id]
    BY DEF AcceptedRequestsRoundTrip
  <2>1. request \in Accepted /\ server.result = [value |-> request] /\ id \in Uuid
    BY <1>1, AcceptedValue DEF ExchangeInv, ServerFits
  <2> HIDE DEF request, id
  <2>2. /\ request \in HelloRequest /\ IsFiniteSet(request.capabilities)
        /\ Cardinality(request.capabilities) <= kMaxCapabilityCount
    BY <2>1 DEF Accepted, HelloRequest, Limited, AcceptedSets
  <2>3. Valid(id, request)
    BY <2>1, <2>2 DEF Valid, Sized, Accepted, Limited, AcceptedSets
  <2>4. decodeHelloRequest(encodeHelloRequest(id, request), "") = Returns(request, id)
    BY <2>1, <2>2, <2>3, TextFacts, EncodedRequests
  <2> QED
    BY <2>1, <2>4 DEF Returns
<1> QED
  BY <1>1, ExchangeInvariantHolds, PTL

\* Neither decoder leaves an id in its caller's variable that the message it read
\* did not name.
THEOREM IdsAreNamed == Spec => IdsComeFromTheMessage
<1> DEFINE Named ==
      /\ server'.out_request_id # server.out_request_id
           => NamedByMessage(server'.out_request_id, AsItIs)
      /\ client'.out_request_id # client.out_request_id
           => NamedByMessage(client'.out_request_id, ThroughQt)
<1>1. ASSUME ExchangeInv, TypeOK, Next PROVE Named
  <2>1. CASE ReceiveRequest
    <3> DEFINE decoded == decodeHelloRequest(wire.body, server.out_request_id)
    <3>1. server'.out_request_id = decoded.out_request_id /\ client' = client
      BY <2>1 DEF ReceiveRequest
    <3>2. wire.body \in Body(RequestRoot)
      BY <1>1, <2>1, MessageFacts DEF TypeOK, ReceiveRequest
    <3>3. \/ decoded.out_request_id = server.out_request_id
          \/ /\ decoded.out_request_id \in Uuid
             /\ wire.body.json.object["request_id"] = AsString(decoded.out_request_id)
      BY <3>2, DecodedRequests
    <3> HIDE DEF decoded
    <3> QED
      BY <3>1, <3>3, TextFacts DEF NamedByMessage
  <2>2. CASE ReceiveResponse
    <3> DEFINE decoded == decodeHelloResponse(wire.body, client.out_request_id)
    <3>1. client'.out_request_id = decoded.out_request_id /\ server' = server
      BY <2>2 DEF ReceiveResponse
    <3>2. wire.body \in Body(ResponseRoot)
      BY <1>1, <2>2, MessageFacts DEF TypeOK, ReceiveResponse
    <3>3. \/ decoded.out_request_id = client.out_request_id
          \/ /\ decoded.out_request_id \in Uuid
             /\ \E text \in WellFormed :
                  /\ wire.body.json.object["request_id"] = AsString(text)
                  /\ ThroughQt[text] = decoded.out_request_id
      BY <3>2, DecodedResponses
    <3> HIDE DEF decoded
    <3> QED
      BY <3>1, <3>3 DEF NamedByMessage
  <2>3. CASE server'.out_request_id = server.out_request_id /\ client' = client
    BY <2>3
  <2>4. \A time : SendResponse(time) => server'.out_request_id = server.out_request_id
    BY <1>1 DEF SendResponse, ExchangeInv, ServerShape
  <2> QED
    BY <1>1, <2>1, <2>2, <2>3, <2>4 DEF Next, SendRequest, StrangerSends, SendResponse
<1>2. ExchangeInv /\ TypeOK /\ [Next]_vars => [Named]_vars
  BY <1>1
<1> QED
  BY <1>2, ExchangeInvariantHolds, TypeCorrect, PTL DEF Spec, IdsComeFromTheMessage
=============================================================================

---------------------------- MODULE HelloExchange ----------------------------
(***************************************************************************)
(* A client and a server of this repository greet each other, and both     *)
(* meet strangers: programs that send whatever JSON they like.  The two    *)
(* take turns, since hello is the first message of either direction.       *)
(* Each side keeps one RequestId that it passes to its decoder every time, *)
(* as the tests do, so what a call leaves in it is there in the next.      *)
(*                                                                         *)
(* External: what the server answers (the handler is not written yet, but  *)
(* hello.hpp says it is the intersection of the two sides' capabilities),  *)
(* the clock, and the programs that call the codecs.                       *)
(***************************************************************************)
EXTENDS HelloCodec

CONSTANTS
  Supported,         \* the capabilities of the server
  Requests,          \* what callers give to encodeHelloRequest
  Times,             \* what the server's clock may show, seconds since 1970
  StrangeRequests,   \* bodies strangers send to the server
  StrangeResponses   \* and to the client

\* The server's own capabilities are plain names like text_v1.
ASSUME ExchangeAssumption ==
  /\ Supported \subseteq {text \in WellFormed : ThroughQt[text] = text}
  /\ IsFiniteSet(Supported)
  /\ Requests \subseteq [id : RequestId, request : HelloRequest]
  /\ \A asked \in Requests : IsFiniteSet(asked.request.capabilities)
  /\ Times \subseteq 0..kMaxSafeInteger
  /\ StrangeRequests \subseteq Body(RequestRoot)
  /\ StrangeResponses \subseteq Body(ResponseRoot)

VARIABLES
  wire,     \* the message on its way, with who wrote it
  server,   \* out_request_id and the result of the last decodeHelloRequest
  client    \* out_request_id and the result of the last decodeHelloResponse
\* History: about, in all three, is the request of our client that the message,
\* or the message last read, is or answers.

vars == <<wire, server, client>>

Nothing == [to |-> "nobody"]
Nobody == [none |-> TRUE]     \* about, for what strangers began
NoResult == [none |-> TRUE]

Init ==
  /\ wire = Nothing
  /\ server = [out_request_id |-> "", result |-> NoResult, about |-> Nobody]
  /\ client = [out_request_id |-> "", result |-> NoResult, from |-> "nobody", about |-> Nobody]

Idle == wire = Nothing /\ ~isOk(server.result)

SendRequest(asked) ==
  /\ Idle
  /\ wire' = [to |-> "server", from |-> "client", about |-> asked,
              body |-> encodeHelloRequest(asked.id, asked.request)]
  /\ UNCHANGED <<server, client>>

StrangerSends(to, body) ==
  /\ Idle
  /\ wire' = [to |-> to, from |-> "stranger", about |-> Nobody, body |-> body]
  /\ UNCHANGED <<server, client>>

ReceiveRequest ==
  /\ wire.to = "server"
  /\ LET decoded == decodeHelloRequest(wire.body, server.out_request_id)
     IN server' = [out_request_id |-> decoded.out_request_id, result |-> decoded.result,
                   about |-> wire.about]
  /\ wire' = Nothing
  /\ UNCHANGED client

Negotiated(request, time) ==
  [server_version |-> kServerVersion, server_time |-> time,
   max_json |-> kMaxJsonBytes, max_text |-> kMaxTextBytes,
   heartbeat_idle |-> kHeartbeatIdleMs, timeout |-> kSessionTimeoutMs,
   capabilities |-> Intersect(Supported, request.capabilities)]

SendResponse(time) ==
  /\ wire = Nothing /\ isOk(server.result)
  /\ wire' = [to |-> "client", from |-> "server", about |-> server.about,
              body |-> encodeHelloResponse(server.out_request_id,
                                           Negotiated(server.result.value, time))]
  /\ server' = [server EXCEPT !.result = NoResult]
  /\ UNCHANGED client

ReceiveResponse ==
  /\ wire.to = "client"
  /\ LET decoded == decodeHelloResponse(wire.body, client.out_request_id)
     IN client' = [out_request_id |-> decoded.out_request_id, result |-> decoded.result,
                   from |-> wire.from, about |-> wire.about]
  /\ wire' = Nothing
  /\ UNCHANGED server

Next ==
  \/ \E asked \in Requests : SendRequest(asked)
  \/ \E body \in StrangeRequests : StrangerSends("server", body)
  \/ \E body \in StrangeResponses : StrangerSends("client", body)
  \/ ReceiveRequest
  \/ \E time \in Times : SendResponse(time)
  \/ ReceiveResponse

Spec == Init /\ [][Next]_vars

-----------------------------------------------------------------------------
TypeOK ==
  /\ \/ wire = Nothing
     \/ wire.to = "server" /\ wire.body \in Body(RequestRoot)
     \/ wire.to = "client" /\ wire.body \in Body(ResponseRoot)
  /\ server.out_request_id \in RequestId
  /\ server.result \in {NoResult} \union Outcome(HelloRequest)
  /\ client.out_request_id \in RequestId
  /\ client.result \in {NoResult} \union Outcome(HelloResponse)

\* What a client may put into a request: an id, and fields within their limits
\* that a QString can carry (hello.hpp:36-41).
Sized(text, most) == Bytes[text] \in 1..most /\ ThroughQt[text] = text
Valid(id, request) ==
  /\ id \in Uuid
  /\ Sized(request.client_version, kMaxClientVersionBytes)
  /\ Sized(request.platform, kMaxPlatformBytes)
  /\ \A text \in request.capabilities : Sized(text, kMaxCapabilityValueBytes)
  /\ Cardinality(request.capabilities) <= kMaxCapabilityCount

ServerHolds(id, request) ==
  server.out_request_id = id /\ server.result = [value |-> request]

\* The two JSON libraries agree: a valid request of our client reaches our
\* server as the same request with the same id, whatever the server has read
\* before (client hello_codec.cpp:41-61 against server hello_codec.cpp:32-116).
RequestsArriveWhole ==
  server.about # Nobody /\ server.result # NoResult =>
    LET asked == server.about
    IN Valid(asked.id, asked.request) => ServerHolds(asked.id, asked.request)

\* The server accepts nothing our own client could not have said: encoded again,
\* any request it accepted, from whomever, is accepted again with the same fields
\* and the same id, unless a QString cannot carry it (hello_codec.cpp:94-113).
AcceptedRequestsRoundTrip ==
  isOk(server.result) =>
    LET request == server.result.value
        id == server.out_request_id
        carried == \A text \in {request.client_version, request.platform}
                                 \union request.capabilities : ThroughQt[text] = text
    IN carried => decodeHelloRequest(encodeHelloRequest(id, request), "")
                    = [result |-> server.result, out_request_id |-> id]

\* Whoever asked, and whatever was asked before, the answer the server writes to
\* a request it accepted is one our client accepts (server hello_codec.cpp:118-140
\* against client hello_codec.cpp:63-174).
AnswersAreReadable ==
  wire.to = "client" /\ wire.from = "server"
    => isOk(decodeHelloResponse(wire.body, client.out_request_id).result)

\* An answer goes with the request it is for: it has that request's id, and
\* grants what both that request named and the server can do, no more and no
\* less (hello.hpp:68-77, hello_codec.cpp:60, 128-135).
AnswersMatchRequests ==
  client.from = "server" /\ client.about # Nobody
    => /\ client.out_request_id = client.about.id
       /\ client.result.value.capabilities
            = Supported \intersect {ThroughQt[text] : text \in client.about.request.capabilities}

\* A caller that reuses its variable never finds an id there that no message
\* named: a call leaves it alone, refusing or not, or puts there the valid id of
\* the very message it reads (server hello_codec.cpp:49-66, client
\* hello_codec.cpp:81-103).
NamedByMessage(id, reads) ==
  /\ id \in Uuid
  /\ \E text \in WellFormed :
       wire.body.json.object["request_id"] = AsString(text) /\ reads[text] = id
IdsComeFromTheMessage ==
  [][/\ server'.out_request_id # server.out_request_id
          => NamedByMessage(server'.out_request_id, AsItIs)
     /\ client'.out_request_id # client.out_request_id
          => NamedByMessage(client'.out_request_id, ThroughQt)]_vars

\* What a document says of the client and its code does not do: a request with an
\* invalid field is not sent (PRPs/M1-7:72 against client hello_codec.cpp:41-61).
InvalidRequestsAreNotSent ==
  wire.to = "server" /\ wire.from = "client" => Valid(wire.about.id, wire.about.request)
=============================================================================

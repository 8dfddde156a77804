# Formal models of chat-hub

TLA+ models, TLC runs and TLAPS proofs for the C++ code of chat-hub: the framing
layer every connection reads and writes with, the hello messages and the identifiers in
them, the server's TLS handshake, and the certificates that the CA tool issues and
writes, both ends load, and a connection is verified with. Paths
are relative to `src/`; `Dnn` are the decision numbers the sources cite.

    tlc -config MC_FrameDecoder.cfg MC_FrameDecoder    # any of the runs below
    tlapm FrameDecoder_proofs.tla                      # the proofs

## The system

chat-hub is a client/server chat program at an early milestone. What exists is the
wire contract in `shared/`, the two adapters that encode and decode the first
message (hello), TLS on both ends and a tool that issues the development
certificates. There is no session yet: nothing under `src/` connects the parts but
the integration test.

| component | state | operations | interacts with |
| --- | --- | --- | --- |
| UTF-8 validation, `shared/.../frame.hpp:33-86` | none | `isValidUtf8` | called by encoder and decoder on every body |
| Protocol registry, `shared/.../protocol_descriptor.hpp` | a constant table | `findProtocol` | read by encoder and decoder |
| Frame codec, `shared/.../frame.hpp:88-244` | input buffer, consumed prefix, pending header, failure, decoded frames | `encodeFrame`; `feedBytes`, `tryPopFrame`, `hasFailed`, `error` | bytes from the connection in, frames to the owner out |
| Hello codecs, `chat-server/src/hello_codec.cpp`, `client-qt/src/hello_codec.cpp`, `shared/.../hello.hpp` | none; they write into a `RequestId` of their caller | encode and decode of request and response, `CapabilitySet::intersect` | bodies of frames |
| Identifiers, `shared/.../ids.hpp` | none | `parse` of UUID, account name, decimal sequence | used by the hello codecs |
| Server TLS handshake, `chat-server/src/tls_handshake.cpp` | `Shared`: stream, timer, handler, `completed`, `timeout_started` | `asyncServerHandshake`, the timer's handler, the handshake's handler | asio's io_context and strand; the peer; the caller's handler |
| Server TLS context, `chat-server/src/tls_context.cpp` | loaded certificate and key | `TlsContext::load` | files of the CA tool; handshake |
| Client TLS configuration, `client-qt/src/tls_client.cpp` | CA list, verify mode | `build`, `applyTo` | file of the CA tool; Qt's socket |
| Development CA, `tools/pki/src/dev_ca.cpp` | four files on disk | `issueDevCa`, `writeDevCaFiles`, inspection | server context and client configuration read its files |
| Outcome, `shared/.../outcome.hpp` | none | value type | results of the codecs |
| Session, `PRPs/M1-8-TLS-Session.md` | planned only | - | - |

Where it is hard, and what makes each part correct:

- *Frame codec.* One stream, any chunking, state kept across calls (a header
  validated in one call, its body read many calls later), a loop that counts what it
  consumed and a buffer discarded afterwards, several checks with a documented order,
  a sticky failure. Correct means: the frames handed out depend on the stream alone,
  they are the encodings laid end to end, a failure is the first real defect, nothing
  complete waits for another call, the buffer stays small, a failure is final, and
  every frame one end encodes reaches the other.
- *Server TLS handshake.* The thread that starts it, a timer and a chain of socket
  operations race; a queued handler cannot be recalled; the timer's handler closes a
  socket that is in use; the stream may only be moved when nobody uses it. Correct
  means: one answer, `ok` with an open stream, `timeout` and `error` over a closed
  connection, nothing touched after the answer, and an answer for every peer.
- *PKI files, server context, client trust.* Four files written one after the other,
  read by two programs at other times; a partly written set must not load, or be
  refused by the peer.
  Certificates expire, clocks differ, and a program keeps what it loaded. Correct means:
  success is whole, a server's pair belongs together, and a handshake ends encrypted only
  with a server of the run the client trusts, at the address it dialled, and always
  between two programs that started over one finished set.
- *Hello codecs.* Two implementations of one format on two JSON libraries; out
  parameters written before a later check fails; limits counted in the same unit. Correct
  means: a valid request arrives unchanged, what the server accepts our client could have
  said, every answer is readable and is about its own request, and no id is left behind
  that no message named.
- *Identifiers.* Range tests on bytes, a library parser that stops early. Correct means:
  one value for all spellings of a name, one spelling for a number and a UUID.

## Modules

| module | models | notes |
| --- | --- | --- |
| `ProtocolRegistry` | the 54 types, `max_body`, `findProtocol` | a type is its number on the wire |
| `Utf8` | `isValidUtf8` | the loop is a recursive function |
| `FrameDecoder` | `encodeFrame` and class `FrameDecoder` | over one stream the peer writes |
| `FrameChannel` | abstract: a first-in first-out channel | what the framing layer promises |
| `FrameLink` | encoder, connection and decoder | implements `FrameChannel` |
| `TlsHandshake` | `asyncServerHandshake` | one connection |
| `HandshakeContract` | abstract: the comment of `tls_handshake.hpp:18-24` | implemented by `TlsHandshake` |
| `Ipv4Literal` | `isIpv4Literal` | the loop over the octets is a quantifier |
| `PkiFiles` | `chathub-dev-ca`, `TlsContext::load`, `TlsClientConfig::build` | one directory, three programs |
| `DevCertificates` | what `issueDevCa` puts into its certificates | and what a verifying peer asks of them (external) |
| `TlsConnection` | `applyTo` and a connection | composes `PkiFiles` and `DevCertificates` |
| `HelloCodec` | both decoders, both encoders, `CapabilitySet`, `Outcome` | over JSON values |
| `HelloExchange` | a client and a server that use them, among strangers | composes both sides of `HelloCodec` |
| `Identifiers` | the parsers of `ids.hpp` | texts are sequences of bytes |
| `MC_*` | constants for TLC | `MC_Utf8`, `MC_Ipv4Literal` and `MC_Identifiers` also hold the definitions the code is compared with |
| `*_proofs` | the theorems | `FrameLink_proofs` builds on those of the decoder; `TlsConnection_proofs` begins with those about the files |

Definitions whose comment calls them a bug are not part of the specifications. Each
stands before the definition it is a faulty variant of, and shows that the properties
notice such a mistake.

### FrameDecoder

The peer appends byte strings (`PeerWrites`) to `stream`; `fed` is how much of it the
owner has passed to `feedBytes`. The other variables are the members of the class,
with their names. A call of `feedBytes` is `FeedBytes(size)` (the failure test and the
insert), then one step per pass of the loop of `decodeAvailableFrames` (`AcceptHeader`,
`AcceptFrame`) and one that leaves it (`WaitForMore`, `RejectHeader`, `RejectBody`),
which includes `discardConsumedBytes`. `pc` says whether a call is under way; the class
is used by one thread, so no other call can begin then. `HeaderCheck` has the checks of
`parseAndValidateHeader` in their order. `delivered` (what `tryPopFrame` returned) and
`bounds` (where each frame began) are history variables.

The length field is a natural number of four bytes; the code's 32-bit unsigned value
cannot overflow and neither can this one.

### FrameLink

`SendFrame` encodes a frame and writes the bytes; on `nullopt` nothing is written. The
rest is the decoder. `delivered` refines the channel's `received`.

### TlsHandshake

| variable | code |
| --- | --- |
| `caller` | the next statement of the thread in `asyncServerHandshake` |
| `operation`, `remaining` | the socket operation of `async_handshake`, and how many are still needed |
| `wait` | the timer's operation |
| `socket` | the TCP socket below the stream |
| `stream`, `completed`, `timeout_started`, `has_handler` | the fields of `Shared` |
| `calls` | history: the calls of the handler |

`async_handshake` is a chain of reads and writes. When one ends, its handler waits in
the strand's queue (`queued`, or `failed` with an error); it either begins the next one
(`NextOperation`) or, in the same step, runs the code's handler (`HandshakeTimedOut`,
`HandshakeFailed`, `HandshakeSucceeded`). The strand never runs two handlers at once,
and the order of two queued ones is left open, since several threads may run the
io_context. `close` makes a waiting operation fail and leaves a queued one alone;
`cancel` does the same to the timer. The caller starts the handshake outside the strand,
so the timer's handler may run before that. The model has no clock: the timer may be up
at any time, so also after the handshake ended, and an `ok` that was queued first counts
even if five seconds have passed. `close` and the start of the handshake are atomic here;
that they overlap on two threads, five seconds after a thread was stopped between two
statements, is not modelled.

### PkiFiles

| variable | code |
| --- | --- |
| `run`, `address` | runs of `chathub-dev-ca` so far, and what each was given as `--ip` |
| `tool`, `file`, `exit` | where the run stands in `main`, `issueDevCa` and `writeDevCaFiles`, the call of `write_file` it is in, its exit status |
| `dir` | for each file, the run whose whole text a reader finds in it, or `Unreadable` |
| `server`, `cert`, `key`, `server_error` | the statement of `load`, what its context holds, which error it returned |
| `client`, `root`, `client_error` | the same for `build` |
| `intact`, `server_saw`, `client_saw` | history: the run that reported success if no file was opened since; what that was while `load`, or `build`, ran |

`write_file` is two steps, since it truncates first and the text of a small file arrives
at `close()`: `OpenFile` and `WriteFile`, each of which may fail. When the second fails,
or the process is killed in it, the text may be cut or, all the same, whole. `load` reads
its two files in two steps, between which the tool may do anything. A missing, an empty
and a cut file are one value, because every reader refuses all three. Certificates and
keys are told apart by their run alone, as each run makes new keys; OpenSSL may notice a
foreign key when it is read or leave it to `SSL_CTX_check_private_key`, and both are
allowed. The files are read where the tool writes them, as on a developer's machine; in a
deployment they are copied, and a copy cut short is the same `Unreadable`. Two runs at
once, and data lost by the machine after `close()`, are not modelled.

### TlsConnection

A day is the unit of time; `today` is the day on the clock of the machine with the tool
and the server, a client's clock is off by one of `Lags`. `Issue` is `IssueDevCa` of
`PkiFiles` together with the day that `initCert` writes into both certificates. `ApplyTo`
puts the client's configuration into `socket`; starting the client again begins with a
new one. `Connect` is one handshake: the server proves with its key that it has the key
of its certificate, and the socket accepts or refuses (`PeerVerified`: signed by a trusted
root, both in force, made for the address dialled). Names of issuers are left out, since
all roots have the same one. What a network or a timeout does to a handshake is
`TlsHandshake`. The server loads at start only and the client at start only, as in the
code: what is in memory gets older than the files.

### HelloCodec and HelloExchange

A JSON value is a record with one field, named after its type, so that
`DOMAIN v = {"string"}` is `is_string()`. An object is the record of the keys its reader
looks up; a missing one is `Absent`. Numbers are counted in halves, since a fraction must
be refused and JSON has one kind of number. Texts are model values with a size in bytes
(`Bytes`); which of them are UTF-8 and which are UUIDs are constants. `ThroughQt` is what a
text is after a conversion to `QString` and back: bytes that are no UTF-8 are replaced, and
a byte order mark at the beginning is lost, which is how two array elements can become
one. `reads` is that function in the client's decoder and the identity in the server's.
`decodeHelloRequest` and `decodeHelloResponse` make the checks in the order of the code;
each returns its outcome and what is then in the caller's `out_request_id`.

The flag `oversized` is the limit of 64 KiB on a body. An encoder's own message never has
it: at most 16 capabilities of 64 bytes, each byte escaped as up to six characters, make
less than 7 KB, and one that is larger is refused by `encodeFrame` and never sent.

In `HelloExchange` client and server take turns, since hello is the first message of
either direction; strangers send messages of any shape to both. Each side passes one
variable to its decoder again and again. What the server answers is written by no code
yet: `Negotiated` is taken from `hello.hpp`, with `CapabilitySet::intersect`. `about` is
history: the request of our client that a message is, or answers.

### Identifiers

The parsers as functions from byte sequences to a set of at most one value. `from_chars` is
external, modelled by its contract: it reads the digits at the beginning and reports where
it stopped, or that the number is out of range. `MaxSeq` stands for 2^64 - 1.

## Runs

| run | question | bounds |
| --- | --- | --- |
| `utf8` | does `isValidUtf8` accept exactly UTF-8? | all texts of up to 4 bytes from the 21 values on both sides of every comparison; a character has at most 4 bytes, and the loop begins anew after each |
| `frame_decoder` | are frames and failures a function of the stream, for any cut? | 3 writes out of 3 good frames, 7 broken ones (one per check, both ends of the length field, a truncated character) and a lone byte, every cut; `kMaxJsonBody = 2`. Three writes put a good frame before and after a broken one and leave one pending |
| `frame_link` | do the two ends make a channel? | 3 frames of body length 0 to `kMaxJsonBody`, 4 kinds the encoder refuses, every cut |
| `tls_handshake` | is there one right answer in every race? | one connection, the 4 operations of a TLS 1.3 server handshake; connections share nothing but the read-only context |
| `ipv4` | does `isIpv4Literal` accept exactly the dotted addresses? | every field of up to 4 symbols (digits, dot, another), alone and with 1 or 3 octets before and 1 or 3 after it; an octet of the code is refused from 4 symbols on |
| `hello_exchange` | do two programs that share a format, but neither code nor JSON library, agree, whatever strangers send? | 16 texts on both sides of every limit; 30 requests of our client (every field good and bad); strangers' messages with each field dropped and changed; at most 2 capabilities in a message instead of 16, with sets of 3 on either side; `kMaxUint32` and `kMaxSafeInteger` scaled to 70000 and 80000, above every constant the code writes; two ids |
| `hello_sent` | does the client's encoder refuse an invalid request, as a document says? | the same; it does not |
| `identifiers` | do the parsers accept what means something, and nothing else? | every text of up to 3 characters from both sides of every range, alone, in names of the critical lengths, written over and pushed into a UUID at every place; numbers up to `MaxSeq = 2177`, a scaled limit that, like the real one, other numbers of as many digits exceed |
| `tls_connection` | which handshakes may end encrypted, and which must? | 2 runs of the tool, 3 addresses (one invalid), 3 days, periods of 2 and 1 days (one certificate outlives the other and both can expire), clocks a day off; two runs suffice for a root and a certificate that are not of one run |
| `pki_files` | what may each of the three programs rely on? | 3 runs of the tool (one finished, one cut short, one after it), a valid and an invalid address, any number of starts of server and client |

What the properties say:

- `ScanAcceptsExactlyUtf8`: against the definition by code points in `MC_Utf8`.
- `FramesTileStream`, `FailureIsJustified`, `NothingWithheld`: the decoder is a
  function of the bytes fed, whatever the cuts. They speak of the stream and of
  `encodeFrame`'s header, not of the buffer.
- `BufferIsBounded`, `FailureIsFinal`, `FeedTerminates`: no growth, no life after a
  failure, no endless loop. `LoopMakesProgress` is why the loop ends: each turn leaves
  fewer bytes, or the same bytes with their header noted (`Work`).
- `EncodedFramesAreAccepted`, `ImplementsChannel`: the two ends agree, and the link is
  a channel that loses nothing. `NothingIsLost`: as soon as the last byte was fed, every
  frame sent is decoded, so a reader who waits for one waits for its owner or the network
  and never for the decoder.
- `StreamOutlivesOperation`, `NoConnectionIsLeaked`, `DecisionNeedsNoPeer`,
  `OutcomeIsFinal`, `HandshakeAlwaysEnds`, `ImplementsContract`: the handshake's contract, including what
  a late handler may not do. That `operation # "none"` implies `~completed` also shows
  that the early return at `tls_handshake.cpp:58` is never taken.
- `AcceptsExactlyDottedQuads`: against the addresses a formatter writes.
- `SuccessIsWhole`: exit status 0 means four whole files of that run, until a later run
  opens one; `UndisturbedEndsAgree`: and programs started over them come up and fit
  together.
- `LoadedPairMatches`: no interleaving gives a server a foreign key. `TrustNeverLags`: the
  root on disk is never older than the certificate served, because it is written first.
  What does not hold, and is left to the handshake to refuse: that they are always of the
  same run.

- `EncryptedIsGenuine`, `UndisturbedEndsConnect`: which connections may and must be
  accepted. Between the two lie those that are refused though nobody did wrong: one end was
  started before the last run and the other after it, or the client's clock is behind the
  moment the certificate was made.
- `RequestsArriveWhole`, `AcceptedRequestsRoundTrip`: valid requests arrive, and the server
  accepts none that could not have been sent. `AnswersAreReadable`, `AnswersMatchRequests`:
  the way back. `IdsComeFromTheMessage`: a variable that is used again holds an id that was
  there or the id of the message just read, even if that was then refused.
- `SpellingsAreOneName`, `UuidsAreVersion4`, `NumbersHaveOneSpelling`: accepted texts and
  values correspond one to one, but for the case of letters in a name.
- `InvalidRequestsAreNotSent` is violated: `encodeHelloRequest` checks nothing and writes a
  request without an id as readily as any, while `PRPs/M1-7-hello与capability.md:72` says
  that a request with an invalid field is not sent. The server refuses it.

`CHECK_DEADLOCK` is off where the system stops: a peer writes a bounded number of
times, and a handshake ends.

## Fairness

- `FeedTerminates`: weak fairness of the loop's steps; a call runs to its end.
- `ImplementsChannel`: also strong fairness of taking a frame out and of feeding at
  least one byte that has arrived. Both are only possible between two calls, so weak
  fairness would say nothing while the owner calls `feedBytes` over and over. It is an
  assumption about the owner, which `frame.hpp` leaves to the session: it keeps reading
  and takes out what was decoded.
- `HandshakeAlwaysEnds`: weak fairness of the calling thread, of the clock, of the
  timer's handler and of the handshake's handler, which the io_context runs as long as
  somebody runs it. Nothing is assumed of the peer, who may stay silent or dribble half
  records for ever.

## Proofs

`FrameDecoder_proofs`, for every set of byte strings a peer may write, every number of
writes and every `kMaxJsonBody` up to 65536 (`MaxJsonBodyAssumption`,
`PeerAssumption`). None of the properties is inductive: they speak of the stream, the
code of its buffer. The invariant `IInv` adds `BufferHoldsRest` (the unread part of the
buffer is the stream after the last frame), `PendingHeaderIsNext` (a pending header is
the header of those bytes, and stays so when more arrive), `Settled` (what a call leaves
behind), `FailedIsIdle` and `BoundsAscend`. With these a check of `HeaderCheck` is a
statement about the stream (`DefectPointwise`, `HeaderCheckDecides`), a body is a segment
of it, and `AcceptFrame` appends the encoding found at the last boundary
(`AcceptedFrameIsEncoded`). One lemma per action shows that it keeps `IInv`.
Proved: `TypeOK`, `FramesTileStream`, `FailureIsJustified`, `NothingWithheld`,
`BufferIsBounded`, `FailureIsFinal` and `LoopMakesProgress`.

`FrameLink_proofs`, for any frames, chunks and limits, has two parts. The first is about the
bytes alone: `Decodes` says that a byte string is certain frames laid end to end and then a
remainder that is incomplete or has a certain defect. A string has one such reading
(`OneResult`: the length field decides where a frame ends, `SameFrame`; the start of an
encoding is no defect and a whole encoding is not incomplete, `EncodingIsNoDefect`,
`NoShorterReading`; the kinds of defect exclude one another, `DefectsExclude`), and it is
what the decoder has answered whenever `feedBytes` has returned (`DecoderAnswersTheBytes`).
So neither the cuts nor the calls decide anything. The second part is about a sender that
uses `encodeFrame`: `SentTiles` says that what was sent tiles the stream as well, so what
was decoded is a prefix of it (`LogIsPrefix`) and no defect can lie at the end. Proved:
`EncodedFramesAreAccepted`, `NothingIsLost`, and that every step of the link is one of
`FrameChannel` or none.

`TlsHandshake_proofs`, for any number of operations, with or without a handler: the
invariant says that before the decision the socket is closed exactly when the timer's
handler ran (`Undecided`), and after it the handler was called once and the connection is
handed over or closed (`Decided`). Proved: `TypeOK`, `StreamOutlivesOperation`,
`NoConnectionIsLeaked`, `OutcomeIsFinal`, and that `TlsHandshake` implements
`HandshakeContract`. `DecisionNeedsNoPeer` needs one fact more: an undecided handshake has
its timer or an operation under way.

`TlsConnection_proofs`, its part about the files, for any number of runs and any addresses:
runs get larger numbers and each writes from the first file on, so the readable files never
get newer along the order of writing (`NewerFirst`), which gives `TrustNeverLags`; opening a
file ends the intact set and with it what a load in progress may rely on (`LoadRelies`),
which gives `UndisturbedEndsAgree`. Proved: all five properties of `pki_files`. Its part
about the connection, for any number of runs and days, any addresses, periods with
`kServerValidityDays <= kCaValidityDays` (`ValidityAssumption`) and clocks: every step is one
of `PkiFiles` or leaves its variables alone, so `IInv` holds; added to it are
`AddressesAreGood` (a certificate is for a valid address, in files and in memory) and
`SocketFollowsClient`. `VerifiedPeers` reduces a verification to equal runs, equal
addresses and two periods. Proved: `ConnectionTypeOK`, `EncryptedIsGenuine` and
`UndisturbedEndsConnect`.

`HelloExchange_proofs`, for any texts, sizes, ids, limits, requests and strangers that meet
`TextAssumption`, `LimitsAssumption` and `ExchangeAssumption`: what a decoder accepts is
within limits (`DecodedRequests`, `DecodedResponses`), what an encoder writes within them is
decoded to what was encoded (`EncodedRequests`, `EncodedResponses`), where a set becomes an
array with each element once (`ListingFacts`, `ArrayIsRead`). The invariant says of the
message on its way who wrote it and from what. Proved: all six properties of
`hello_exchange`.

The pure algorithms are proved for inputs of any length, not only for those of the runs:

- `Utf8_proofs`: a text is accepted exactly when it is a concatenation of encoded scalar
  values (`ValidIsWellFormed`). For a unit of one to four bytes the tests of the loop's body
  are the definition of an encoded scalar value, by the arithmetic of six-bit digits
  (`UnitAccepted` against `IsEncodedScalar`), so that loop and definition are one recursive
  function. `ValidTextsAreScalars` says what that function answers. Proved:
  `ScanAcceptsExactlyUtf8`.
- `Ipv4Literal_proofs`: a text is accepted exactly when it is four bytes in decimal with
  dots between (`AcceptedIsDottedQuad`). An octet has at most three symbols, and three dots
  leave four octets. Proved: `AcceptsExactlyDottedQuads`.
- `Identifiers_proofs`: names and ids go byte by byte (`SpellingsShareAName`,
  `StoredNamesAreStable`, `IsUuidIsVersion4`, `UuidsAreStoredAsTheyAre`), numbers digit by
  digit: reading undoes writing and writing undoes reading (`NumbersAreReadBack`,
  `AcceptedNumbersHaveOneSpelling`). Proved: `SpellingsAreOneName`, `UuidsAreVersion4` and
  `NumbersHaveOneSpelling`.

The proofs about the decoder and the files use `isValidUtf8` and `isIpv4Literal` as unknown
predicates, and need no more; what those accept is said by the modules above.

Two forms of argument replace what the provers lack. The library's induction theorems take
an operator as a parameter, which no installed prover can instantiate: every induction here
is the search for a smallest counterexample in a set of numbers (`LeastNatural`, from the
well-foundedness of `<`). And a recursive function is a `CHOOSE`, of which nothing is known
before one is shown to exist: this is done by gluing, place by place, the functions on the
shorter ranges together.

Only model-checked are the properties that need fairness: `FeedTerminates`,
`HandshakeAlwaysEnds` and the fairness of `FrameChannel`, with it the second half of
`ImplementsChannel`. Liveness is beyond the prover. For each the safety it rests on is
proved: that the loop always gets closer to its end (`LoopMakesProgress`), that the decision
never depends on the peer (`DecisionNeedsNoPeer`), and that nothing is kept back once it was
fed (`NothingIsLost`).

## Not modelled

- The registry's other columns: no code but the registry's test reads them.
- The bytes of TLS, JSON and X.509: OpenSSL, Qt and Boost.JSON are outside. A certificate is
  what a verifying peer looks at; its serial number, fingerprint and curve are not.
- `inspectCertPem`: it prints the facts of a certificate for a test.
- `isSnakeCaseCode`: a predicate that only its test calls.
- The tags of `UuidId`: types of the compiler, with no behaviour.
- Two runs of the tool at once, data lost by the machine after `close()`.
- The session of `PRPs/M1-8-TLS-Session.md`: no code yet. With it, handshake, link and hello
  become one connection, and who takes frames out of the decoder, and when, is decided.

## Plan

1. Framing, handshake and PKI files, with their proofs: done.
2. Hello codecs and identifiers, the composition of files, certificates and connections,
   and the proofs about the compositions: done.
   The pure algorithms for inputs of any length, and the safety behind each liveness
   property: done.
3. When the session is written: a module for it that composes `FrameLink`, `TlsHandshake` and
   `HelloExchange`; the heartbeat and the limits of `hello.hpp` as its timeouts; a bound on
   `decoded_frames_`.

----------------------------- MODULE TlsHandshake -----------------------------
(***************************************************************************)
(* asyncServerHandshake of chat-server/src/tls_handshake.cpp for one       *)
(* accepted connection: the thread that calls it, the two completion       *)
(* handlers on its strand, and what asio does between them.                *)
(*                                                                         *)
(* External (asio, OpenSSL, the peer): async_handshake is a chain of reads *)
(* and writes on the socket.  Each operation completes in the reactor and  *)
(* queues a handler on the strand, which runs the TLS engine and either    *)
(* begins the next operation or ends the handshake by calling, in the same *)
(* step, the handler of line 57.  The timer's handler is queued when its   *)
(* time is up or when it is cancelled; a handler that is already queued    *)
(* keeps its error_code whatever happens to the timer or to the socket.    *)
(* The strand runs one queued handler at a time; which of two goes first   *)
(* is left open, as the operations may complete on several threads.        *)
(***************************************************************************)
EXTENDS Naturals, Sequences

CONSTANT Operations   \* how many socket operations a TLS handshake takes

ASSUME OperationsAssumption == Operations \in Nat \ {0}

VARIABLES
  caller,           \* the next statement of asyncServerHandshake's thread
  operation,        \* the socket operation of async_handshake: "none", "waiting",
                    \*   "queued" with success, "failed" (queued with an error)
  remaining,        \* how many operations the handshake still needs
  wait,             \* the timer's operation: "none", "waiting", "queued" with
                    \*   success, "cancelled" (queued with operation_aborted)
  socket,           \* "open" or "closed"
  has_handler,      \* whether the caller gave a handler that is not empty
  \* struct Shared
  stream,           \* "held", or "moved" out of the shared_ptr
  completed,
  timeout_started,
  calls             \* history: what the handler was called with

shared == <<stream, completed, timeout_started>>
asio == <<operation, remaining, wait, socket>>
vars == <<caller, asio, has_handler, shared, calls>>

Init ==
  /\ caller = "arm_timer"
  /\ operation = "none" /\ remaining = Operations /\ wait = "none"
  /\ socket = "open" /\ has_handler \in BOOLEAN
  /\ stream = "held" /\ completed = FALSE /\ timeout_started = FALSE
  /\ calls = <<>>

-----------------------------------------------------------------------------
(* The body of asyncServerHandshake, on the caller's thread *)

AsyncWait ==
  /\ caller = "arm_timer" /\ caller' = "start_handshake"
  /\ wait' = "waiting"
  /\ UNCHANGED <<operation, remaining, socket, has_handler, shared, calls>>

\* The first operation; on a socket closed meanwhile it fails at once.
Begin(onSocket) == operation' = IF onSocket = "open" THEN "waiting" ELSE "failed"

AsyncHandshake ==
  /\ caller = "start_handshake" /\ caller' = "returned"
  /\ Begin(socket)
  /\ UNCHANGED <<remaining, wait, socket, has_handler, shared, calls>>

-----------------------------------------------------------------------------
(* External: the clock, the peer and the reactor *)

TimeIsUp ==
  /\ wait = "waiting" /\ wait' = "queued"
  /\ UNCHANGED <<caller, operation, remaining, socket, has_handler, shared, calls>>

\* The peer sent or took bytes, or it broke the connection.
OperationEnds ==
  /\ operation = "waiting"
  /\ operation' \in {"queued", "failed"}
  /\ UNCHANGED <<caller, remaining, wait, socket, has_handler, shared, calls>>

\* The caller closes the connection it was given.
OwnerCloses ==
  /\ calls # <<>> /\ calls[Len(calls)].stream = "given"
  /\ socket = "open" /\ socket' = "closed"
  /\ UNCHANGED <<caller, operation, remaining, wait, has_handler, shared, calls>>

-----------------------------------------------------------------------------
(* The handlers, on the strand *)

\* lowest_layer().close(): an operation still waiting ends with an error.
Abort(op) == IF op = "waiting" THEN "failed" ELSE op
\* timer.cancel() reaches a wait that is not queued yet.
Cancelled(w) == IF w = "waiting" THEN "cancelled" ELSE w

Handle(status, given) ==
  calls' = IF has_handler THEN Append(calls, [status |-> status, stream |-> given])
                          ELSE calls

\* The timer's handler.  The first form is a bug that forgets state->completed,
\* the second one does not close the socket, the third one answers at once.
TimerHandlerUnguarded ==
  /\ wait = "queued" /\ wait' = "none"
  /\ timeout_started' = TRUE
  /\ socket' = "closed" /\ operation' = Abort(operation)
  /\ UNCHANGED <<caller, remaining, has_handler, stream, completed, calls>>
TimerHandlerWithoutClose ==
  /\ wait = "queued" /\ wait' = "none"
  /\ IF completed THEN UNCHANGED timeout_started ELSE timeout_started' = TRUE
  /\ UNCHANGED <<caller, operation, remaining, socket, has_handler, stream, completed, calls>>
TimerHandlerAnswers ==
  /\ wait = "queued" /\ wait' = "none"
  /\ IF completed
     THEN UNCHANGED <<operation, socket, shared, calls>>
     ELSE /\ timeout_started' = TRUE /\ completed' = TRUE
          /\ socket' = "closed" /\ operation' = Abort(operation)
          /\ stream' = "moved" /\ Handle("timeout", "nullptr")
  /\ UNCHANGED <<caller, remaining, has_handler>>
TimerHandler ==
  /\ wait = "queued" /\ wait' = "none"
  /\ IF completed
     THEN UNCHANGED <<operation, socket, timeout_started>>
     ELSE /\ timeout_started' = TRUE
          /\ socket' = "closed" /\ operation' = Abort(operation)
  /\ UNCHANGED <<caller, remaining, has_handler, stream, completed, calls>>

\* ec is set: operation_aborted.
TimerHandlerCancelled ==
  /\ wait = "cancelled" /\ wait' = "none"
  /\ UNCHANGED <<caller, operation, remaining, socket, has_handler, shared, calls>>

\* The TLS engine wants another operation.  It may be after the same part of the
\* handshake as before: half a record arrived.
\* The first form is a bug that goes on when nothing is left to do.
NextOperationPastTheEnd ==
  /\ operation = "queued"
  /\ Begin(socket)
  /\ remaining' \in {remaining, remaining - 1}
  /\ UNCHANGED <<caller, wait, socket, has_handler, shared, calls>>
NextOperation ==
  /\ operation = "queued"
  /\ Begin(socket)
  /\ remaining' \in {remaining, remaining - 1} \ {0}
  /\ UNCHANGED <<caller, wait, socket, has_handler, shared, calls>>

\* The handler of async_handshake, with the ec that the chain ended in: its last
\* operation failed, the engine refused what the peer sent, or all is done.  The
\* early return of lines 58-60 is never taken (StreamOutlivesOperation).
HandshakeEnds ==
  /\ ~completed /\ completed' = TRUE
  /\ operation' = "none"
  /\ wait' = Cancelled(wait)
  /\ UNCHANGED <<caller, remaining, has_handler, timeout_started>>

HandshakeTimedOut ==
  /\ operation \in {"queued", "failed"} /\ timeout_started
  /\ HandshakeEnds
  /\ Handle("timeout", "nullptr")
  /\ UNCHANGED <<socket, stream>>

\* The first form is a bug that leaves the socket open.
HandshakeFailedWithoutClose ==
  /\ operation \in {"queued", "failed"} /\ ~timeout_started
  /\ HandshakeEnds
  /\ Handle("error", "nullptr")
  /\ UNCHANGED <<socket, stream>>
HandshakeFailed ==
  /\ operation \in {"queued", "failed"} /\ ~timeout_started
  /\ HandshakeEnds
  /\ socket' = "closed"
  /\ Handle("error", "nullptr")
  /\ UNCHANGED stream

\* Without a handler the local shared_ptr is the last one: the stream dies and
\* its socket is closed.  The first form is a bug that looks at ec before it looks
\* at timeout_started.
HandshakeSucceededTooLate ==
  /\ operation = "queued" /\ remaining = 1
  /\ HandshakeEnds
  /\ stream' = "moved"
  /\ Handle("ok", "given")
  /\ socket' = IF has_handler THEN socket ELSE "closed"
HandshakeSucceeded ==
  /\ operation = "queued" /\ remaining = 1 /\ ~timeout_started
  /\ HandshakeEnds
  /\ stream' = "moved"
  /\ Handle("ok", "given")
  /\ socket' = IF has_handler THEN socket ELSE "closed"

-----------------------------------------------------------------------------
Caller == AsyncWait \/ AsyncHandshake
HandshakeHandler == NextOperation \/ HandshakeTimedOut \/ HandshakeFailed \/ HandshakeSucceeded
Strand == TimerHandler \/ TimerHandlerCancelled \/ HandshakeHandler
Next == Caller \/ TimeIsUp \/ OperationEnds \/ OwnerCloses \/ Strand

Spec == Init /\ [][Next]_vars

\* The calling thread runs on, the clock does, and the io_context runs what is
\* queued.  Nothing is assumed of the peer.
FairSpec ==
  /\ Spec
  /\ WF_vars(Caller)
  /\ WF_vars(TimeIsUp)
  /\ WF_vars(TimerHandler \/ TimerHandlerCancelled)
  /\ WF_vars(HandshakeHandler)

-----------------------------------------------------------------------------
TypeOK ==
  /\ caller \in {"arm_timer", "start_handshake", "returned"}
  /\ operation \in {"none", "waiting", "queued", "failed"}
  /\ remaining \in 1..Operations
  /\ wait \in {"none", "waiting", "queued", "cancelled"}
  /\ socket \in {"open", "closed"}
  /\ has_handler \in BOOLEAN
  /\ stream \in {"held", "moved"}
  /\ completed \in BOOLEAN /\ timeout_started \in BOOLEAN
  /\ calls \in Seq([status : {"ok", "timeout", "error"}, stream : {"given", "nullptr"}])

\* The stream is not moved or given away while asio still works on it for
\* async_handshake (tls_handshake.cpp:42-43, 49-52).
StreamOutlivesOperation == operation # "none" => stream = "held" /\ ~completed

\* Once the outcome is decided a timer handler that was already queued changes
\* nothing: not the flags, not the connection that was handed over, and the
\* handler is not called again (tls_handshake.cpp:39-41, 58-60).
OutcomeIsFinal ==
  [][completed => /\ UNCHANGED <<shared, calls, operation>>
                  /\ socket' # socket => OwnerCloses]_vars

\* Whatever happens, a connection that is not handed over does not stay open
\* behind the decision: also without a handler (tls_handshake.cpp:67-92).
NoConnectionIsLeaked == completed /\ (calls = <<>> \/ stream = "held") => socket = "closed"

\* The decision never hangs on the peer alone.  Before the time is up the timer is
\* still to fire; from then on no operation waits for the peer, but one has ended
\* whose handler answers, also when the time was up before async_handshake was
\* called at all (tls_handshake.cpp:36-57).
DecisionNeedsNoPeer ==
  caller = "returned" /\ ~completed =>
    \/ wait \in {"waiting", "queued"}
    \/ timeout_started /\ operation \in {"queued", "failed"}

\* However slow or silent the peer is, the handshake is decided, the handler is
\* called if there is one, and no handler stays behind that would keep Shared
\* alive (tls_handshake.hpp:28).
HandshakeAlwaysEnds ==
  <>[](completed /\ (has_handler => calls # <<>>) /\ operation = "none" /\ wait = "none")

\* The promise of tls_handshake.hpp:18-24: one answer, "ok" with the connected
\* stream, "error" or "timeout" over a connection that is closed by then.
connection ==
  IF calls # <<>> /\ calls[1].stream = "given" THEN "handed_over"
  ELSE IF socket = "open" THEN "handshaking"
  ELSE "closed"
Contract == INSTANCE HandshakeContract
ImplementsContract == Contract!Spec
=============================================================================

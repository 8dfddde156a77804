------------------------- MODULE TlsHandshake_proofs -------------------------
(***************************************************************************)
(* Proofs about one server handshake, for any number of socket operations  *)
(* and with or without a handler.                                          *)
(*                                                                         *)
(* The argument: until the outcome is decided, the socket is closed if and *)
(* only if the timer's handler ran (UndecidedSocket); the decision ends    *)
(* the chain of operations (DecidedOnce), so no step of either handler can *)
(* decide again.                                                           *)
(***************************************************************************)
EXTENDS TlsHandshake, TLAPS

Call == [status : {"ok", "timeout", "error"}, stream : {"given", "nullptr"}]

\* What Handle leaves in the history.
LEMMA HandleFacts ==
  ASSUME calls \in Seq(Call), NEW status \in {"ok", "timeout", "error"},
         NEW given \in {"given", "nullptr"}, Handle(status, given)
  PROVE  /\ calls' \in Seq(Call)
         /\ ~has_handler => calls' = calls
         /\ has_handler /\ calls = <<>> => calls' = <<[status |-> status, stream |-> given]>>
<1> DEFINE call == [status |-> status, stream |-> given]
<1>1. call \in Call
  BY DEF Call
<1>2. calls' = IF has_handler THEN Append(calls, call) ELSE calls
  BY DEF Handle
<1> HIDE DEF call
<1>3. Append(calls, call) \in Seq(Call) /\ calls = <<>> => Append(calls, call) = <<call>>
  BY <1>1
<1>4. /\ calls' \in Seq(Call)
      /\ ~has_handler => calls' = calls
      /\ has_handler /\ calls = <<>> => calls' = <<call>>
  BY <1>1, <1>2, <1>3
<1> QED
  BY <1>4 DEF call

\* Every step keeps the types.
LEMMA StepKeepsType == TypeOK /\ [Next]_vars => TypeOK'
<1> SUFFICES ASSUME TypeOK, [Next]_vars PROVE TypeOK'
  OBVIOUS
<1> USE DEF TypeOK, Call
<1>1. CASE UNCHANGED vars
  BY <1>1 DEF vars, asio, shared
<1>2. CASE Caller
  BY <1>2 DEF Caller, AsyncWait, AsyncHandshake, Begin, shared
<1>3. CASE TimeIsUp \/ OperationEnds \/ OwnerCloses
  BY <1>3 DEF TimeIsUp, OperationEnds, OwnerCloses, shared
<1>4. CASE TimerHandler \/ TimerHandlerCancelled
  BY <1>4 DEF TimerHandler, TimerHandlerCancelled, Abort, shared
<1>5. CASE NextOperation
  BY <1>5, OperationsAssumption DEF NextOperation, Begin, shared
<1>6. CASE HandshakeTimedOut
  BY <1>6, HandleFacts DEF HandshakeTimedOut, HandshakeEnds, Cancelled
<1>7. CASE HandshakeFailed
  BY <1>7, HandleFacts DEF HandshakeFailed, HandshakeEnds, Cancelled
<1>8. CASE HandshakeSucceeded
  BY <1>8, HandleFacts DEF HandshakeSucceeded, HandshakeEnds, Cancelled
<1> QED
  BY <1>1, <1>2, <1>3, <1>4, <1>5, <1>6, <1>7, <1>8 DEF Next, Strand, HandshakeHandler

\* The first state is well typed.
LEMMA InitHasType == Init => TypeOK
<1>1. <<>> \in Seq(Call) /\ Operations \in 1..Operations
  BY OperationsAssumption
<1> QED
  BY <1>1 DEF Init, TypeOK, Call

\* Every variable keeps its type; the handshake never asks for an operation when
\* none is left.
THEOREM TypeCorrect == Spec => []TypeOK
<1> QED
  BY InitHasType, StepKeepsType, PTL DEF Spec

-----------------------------------------------------------------------------
(* The inductive invariant *)

\* Before async_handshake is called nothing is under way or decided.
NotStarted == caller # "returned" => operation = "none" /\ ~completed
\* Before the decision nothing was said or given away, and the socket is closed
\* exactly when the time was up.
Undecided ==
  ~completed => /\ calls = <<>> /\ stream = "held"
                /\ socket = "closed" <=> timeout_started
\* After it the handler was called once, if there is one, and the connection is
\* the caller's or closed.
Decided ==
  completed =>
    /\ ~has_handler => calls = <<>> /\ socket = "closed"
    /\ has_handler => /\ Len(calls) = 1 /\ calls = <<calls[1]>>
                      /\ calls[1].stream = "given" <=> stream = "moved"
                      /\ stream = "held" => socket = "closed"

IInv == TypeOK /\ StreamOutlivesOperation /\ NotStarted /\ Undecided /\ Decided

\* Every step keeps the invariant.
LEMMA StepKeepsInv == IInv /\ [Next]_vars => IInv'
<1> SUFFICES ASSUME IInv, [Next]_vars PROVE IInv'
  OBVIOUS
<1>1. TypeOK' /\ TypeOK
  BY StepKeepsType DEF IInv
<1> USE <1>1 DEF IInv, StreamOutlivesOperation, NotStarted, Undecided, Decided
<1>2. CASE UNCHANGED vars
  BY <1>2 DEF vars, asio, shared
<1>3. CASE Caller
  BY <1>3 DEF Caller, AsyncWait, AsyncHandshake, Begin, shared
<1>4. CASE TimeIsUp
  BY <1>4 DEF TimeIsUp, shared
<1>5. CASE OperationEnds
  BY <1>5 DEF OperationEnds, shared
<1>6. CASE OwnerCloses
  <2>1. completed /\ has_handler /\ stream = "moved"
    BY <1>6 DEF OwnerCloses, TypeOK
  <2> QED BY <1>6, <2>1 DEF OwnerCloses, shared
<1>7. CASE TimerHandler
  BY <1>7 DEF TimerHandler, Abort, TypeOK
<1>8. CASE TimerHandlerCancelled
  BY <1>8 DEF TimerHandlerCancelled, shared
<1>9. CASE NextOperation
  BY <1>9 DEF NextOperation, Begin, shared
<1>10. CASE HandshakeTimedOut
  <2>1. /\ ~completed /\ completed' /\ operation' = "none" /\ caller = "returned"
        /\ UNCHANGED <<caller, has_handler, socket, stream>>
        /\ stream = "held" /\ socket = "closed" /\ calls = <<>> /\ calls \in Seq(Call)
    BY <1>10 DEF HandshakeTimedOut, HandshakeEnds, TypeOK, Call
  <2>2. /\ ~has_handler => calls' = <<>>
        /\ has_handler => calls' = <<[status |-> "timeout", stream |-> "nullptr"]>>
    BY <1>10, <2>1, HandleFacts DEF HandshakeTimedOut
  <2> QED BY <2>1, <2>2
<1>11. CASE HandshakeFailed
  <2>1. /\ ~completed /\ completed' /\ operation' = "none" /\ caller = "returned"
        /\ UNCHANGED <<caller, has_handler, stream>>
        /\ stream = "held" /\ socket' = "closed" /\ calls = <<>> /\ calls \in Seq(Call)
    BY <1>11 DEF HandshakeFailed, HandshakeEnds, TypeOK, Call
  <2>2. /\ ~has_handler => calls' = <<>>
        /\ has_handler => calls' = <<[status |-> "error", stream |-> "nullptr"]>>
    BY <1>11, <2>1, HandleFacts DEF HandshakeFailed
  <2> QED BY <2>1, <2>2
<1>12. CASE HandshakeSucceeded
  <2>1. /\ ~completed /\ completed' /\ operation' = "none" /\ caller = "returned"
        /\ UNCHANGED <<caller, has_handler>>
        /\ stream' = "moved" /\ calls = <<>> /\ calls \in Seq(Call)
        /\ ~has_handler => socket' = "closed"
    BY <1>12 DEF HandshakeSucceeded, HandshakeEnds, TypeOK, Call
  <2>2. /\ ~has_handler => calls' = <<>>
        /\ has_handler => calls' = <<[status |-> "ok", stream |-> "given"]>>
    BY <1>12, <2>1, HandleFacts DEF HandshakeSucceeded
  <2> QED BY <2>1, <2>2
<1> QED
  BY <1>2, <1>3, <1>4, <1>5, <1>6, <1>7, <1>8, <1>9, <1>10, <1>11, <1>12
     DEF Next, Strand, HandshakeHandler

\* The inductive invariant holds of every handshake.
THEOREM InvariantHolds == Spec => []IInv
<1>1. Init => IInv
  BY InitHasType DEF Init, IInv, StreamOutlivesOperation, NotStarted, Undecided, Decided
<1> QED
  BY <1>1, StepKeepsInv, PTL DEF Spec

\* The shared_ptr is not moved while async_handshake still uses the stream
\* (tls_handshake.cpp:42-43, 49-52).
THEOREM StreamIsKept == Spec => []StreamOutlivesOperation
<1>1. IInv => StreamOutlivesOperation
  BY DEF IInv
<1> QED
  BY <1>1, InvariantHolds, PTL

\* What is under way at each statement of the caller, before the decision.
SomethingIsUnderWay ==
  /\ caller = "start_handshake" => wait \in {"waiting", "queued"} \/ timeout_started
  /\ caller = "returned" /\ ~completed => operation # "none"
  /\ DecisionNeedsNoPeer

\* Every step keeps it: the timer's handler closes the socket, which ends the
\* operation that waits, and a closed socket lets no other one wait.
LEMMA StepKeepsUnderWay ==
  IInv /\ SomethingIsUnderWay /\ [Next]_vars => SomethingIsUnderWay'
<1> SUFFICES ASSUME IInv, SomethingIsUnderWay, [Next]_vars PROVE SomethingIsUnderWay'
  OBVIOUS
<1> USE DEF SomethingIsUnderWay, DecisionNeedsNoPeer
<1>1. /\ operation \in {"none", "waiting", "queued", "failed"}
      /\ wait \in {"none", "waiting", "queued", "cancelled"} /\ timeout_started \in BOOLEAN
      /\ caller \in {"arm_timer", "start_handshake", "returned"} /\ completed \in BOOLEAN
      /\ caller # "returned" => operation = "none" /\ ~completed
      /\ ~completed => (socket = "closed" <=> timeout_started)
  BY DEF IInv, TypeOK, NotStarted, Undecided
<1>2. CASE UNCHANGED vars
  BY <1>2 DEF vars, asio, shared
<1>3. CASE Caller
  BY <1>1, <1>3 DEF Caller, AsyncWait, AsyncHandshake, Begin, shared
<1>4. CASE TimeIsUp \/ OperationEnds \/ OwnerCloses
  BY <1>4 DEF TimeIsUp, OperationEnds, OwnerCloses, shared
<1>5. CASE TimerHandler
  BY <1>1, <1>5 DEF TimerHandler, Abort
<1>6. CASE TimerHandlerCancelled
  BY <1>6 DEF TimerHandlerCancelled, shared
<1>7. CASE NextOperation
  BY <1>1, <1>7 DEF NextOperation, Begin, shared
<1>8. CASE HandshakeTimedOut \/ HandshakeFailed \/ HandshakeSucceeded
  <2>1. completed' /\ caller' = caller /\ caller = "returned"
    BY <1>1, <1>8 DEF HandshakeTimedOut, HandshakeFailed, HandshakeSucceeded, HandshakeEnds
  <2> QED BY <2>1
<1> QED
  BY <1>2, <1>3, <1>4, <1>5, <1>6, <1>7, <1>8 DEF Next, Strand, HandshakeHandler

\* Whatever the peer does, the timer is still to fire or a handler that can answer
\* is queued, for any number of operations (tls_handshake.cpp:36-57).
THEOREM PeerCannotStall == Spec => []DecisionNeedsNoPeer
<1>1. Init => SomethingIsUnderWay
  BY DEF Init, SomethingIsUnderWay, DecisionNeedsNoPeer
<1>2. SomethingIsUnderWay => DecisionNeedsNoPeer
  BY DEF SomethingIsUnderWay
<1> QED
  BY <1>1, <1>2, StepKeepsUnderWay, InvariantHolds, PTL DEF Spec

\* Once the outcome is decided, the connection is the caller's or closed
\* (tls_handshake.cpp:67-92).
THEOREM ConnectionIsReleased == Spec => []NoConnectionIsLeaked
<1>1. IInv => NoConnectionIsLeaked
  BY DEF IInv, Decided, NoConnectionIsLeaked, TypeOK
<1> QED
  BY <1>1, InvariantHolds, PTL

\* A handler that was queued before the decision and runs after it touches
\* neither the flags nor the connection (tls_handshake.cpp:39-41, 58-60).
THEOREM OutcomeStays == Spec => OutcomeIsFinal
<1>1. IInv /\ [Next]_vars =>
        [completed => /\ UNCHANGED <<shared, calls, operation>>
                      /\ socket' # socket => OwnerCloses]_vars
  <2> SUFFICES ASSUME IInv, Next, completed
               PROVE  /\ UNCHANGED <<shared, calls, operation>>
                      /\ socket' # socket => OwnerCloses
    OBVIOUS
  <2>1. operation = "none" /\ caller = "returned"
    BY DEF IInv, StreamOutlivesOperation, NotStarted
  <2>2. ~Caller /\ ~HandshakeHandler /\ ~OperationEnds
    BY <2>1 DEF Caller, AsyncWait, AsyncHandshake, OperationEnds, HandshakeHandler,
                NextOperation, HandshakeTimedOut, HandshakeFailed, HandshakeSucceeded
  <2>3. CASE TimerHandler
    BY <2>3 DEF TimerHandler, shared
  <2>4. CASE TimerHandlerCancelled \/ TimeIsUp \/ OwnerCloses
    BY <2>4 DEF TimerHandlerCancelled, TimeIsUp, OwnerCloses
  <2> QED BY <2>2, <2>3, <2>4 DEF Next, Strand
<1> QED
  BY <1>1, InvariantHolds, PTL DEF Spec, OutcomeIsFinal

-----------------------------------------------------------------------------
\* Every step of the code is a step of the contract or one it does not see.
LEMMA StepRefines ==
  ASSUME IInv, IInv', [Next]_vars
  PROVE  [Contract!Next]_<<calls, connection>>
<1> USE DEF Contract!Next, Contract!Succeed, Contract!Error, Contract!Timeout,
            Contract!Fail, Contract!Close
<1>1. calls \in Seq(Call) /\ socket \in {"open", "closed"} /\ socket' \in {"open", "closed"}
      /\ has_handler \in BOOLEAN /\ completed \in BOOLEAN /\ timeout_started \in BOOLEAN
  BY DEF IInv, TypeOK, Call
<1>2. ASSUME UNCHANGED <<calls, socket>>
      PROVE  UNCHANGED <<calls, connection>>
  BY <1>2 DEF connection
<1>3. ASSUME ~completed, NEW status \in {"timeout", "error"}, Handle(status, "nullptr"), 
             socket' = "closed", HandshakeEnds, status = "timeout" <=> socket = "closed"
      PROVE  [Contract!Next]_<<calls, connection>>
  <2>1. calls = <<>> /\ connection = IF socket = "open" THEN "handshaking" ELSE "closed"
    BY <1>3 DEF IInv, Undecided, connection
  <2>2. CASE ~has_handler
    <3>1. calls' = calls
      BY <1>1, <1>3, <2>2, HandleFacts
    <3>2. connection' = "closed"
      BY <1>3, <2>1, <3>1 DEF connection
    <3> QED BY <1>1, <2>1, <3>1, <3>2
  <2>3. CASE has_handler
    <3>1. calls' = <<[status |-> status, stream |-> "nullptr"]>>
      BY <1>1, <1>3, <2>1, <2>3, HandleFacts
    <3>2. connection' = "closed"
      BY <1>3, <3>1 DEF connection
    <3> QED BY <1>1, <1>3, <2>1, <3>1, <3>2
  <2> QED BY <2>2, <2>3
<1>4. CASE UNCHANGED vars
  BY <1>2, <1>4 DEF vars, asio
<1>5. CASE Caller \/ TimeIsUp \/ OperationEnds \/ TimerHandlerCancelled \/ NextOperation
  BY <1>2, <1>5 DEF Caller, AsyncWait, AsyncHandshake, TimeIsUp, OperationEnds,
                    TimerHandlerCancelled, NextOperation
<1>6. CASE OwnerCloses
  <2>1. /\ calls # <<>> /\ calls' = calls /\ calls[Len(calls)].stream = "given"
    BY <1>6 DEF OwnerCloses
  <2>2. completed
    BY <1>1, <2>1 DEF IInv, Undecided
  <2>3. has_handler
    BY <1>1, <2>1, <2>2 DEF IInv, Decided
  <2>4. Len(calls) = 1
    BY <1>1, <2>2, <2>3 DEF IInv, Decided
  <2> QED BY <2>1, <2>4 DEF connection
<1>7. CASE TimerHandler
  <2>1. CASE completed
    BY <1>2, <1>7, <2>1 DEF TimerHandler
  <2>2. CASE ~completed
    BY <1>1, <1>7, <2>2 DEF TimerHandler, IInv, Undecided, connection
  <2> QED BY <2>1, <2>2
<1>8. CASE HandshakeTimedOut
  <2>1. /\ ~completed /\ Handle("timeout", "nullptr") /\ HandshakeEnds
        /\ socket = "closed" /\ socket' = "closed"
    BY <1>8 DEF HandshakeTimedOut, HandshakeEnds, IInv, Undecided
  <2> QED BY <1>3, <2>1
<1>9. CASE HandshakeFailed
  <2>1. /\ ~completed /\ Handle("error", "nullptr") /\ HandshakeEnds
        /\ socket # "closed" /\ socket' = "closed"
    BY <1>9 DEF HandshakeFailed, HandshakeEnds, IInv, Undecided
  <2> QED BY <1>3, <2>1
<1>10. CASE HandshakeSucceeded
  <2>1. /\ Handle("ok", "given") /\ calls = <<>> /\ socket = "open"
        /\ connection = "handshaking" /\ socket' = IF has_handler THEN socket ELSE "closed"
    BY <1>1, <1>10 DEF HandshakeSucceeded, HandshakeEnds, IInv, Undecided, connection
  <2>2. CASE ~has_handler
    BY <1>1, <2>1, <2>2, HandleFacts DEF connection
  <2>3. CASE has_handler
    <3>1. calls' = <<[status |-> "ok", stream |-> "given"]>>
      BY <1>1, <2>1, <2>3, HandleFacts
    <3>2. connection' = "handed_over"
      BY <3>1 DEF connection
    <3> QED BY <2>1, <3>1, <3>2
  <2> QED BY <2>2, <2>3
<1> QED
  BY <1>4, <1>5, <1>6, <1>7, <1>8, <1>9, <1>10 DEF Next, Strand, HandshakeHandler

\* asyncServerHandshake implements the contract of its header: one answer, and
\* with it a connection handed over or closed (tls_handshake.hpp:18-24).
THEOREM ContractHolds == Spec => ImplementsContract
<1>1. Init => Contract!Init
  BY DEF Init, Contract!Init, connection
<1>2. IInv /\ IInv' /\ [Next]_vars => [Contract!Next]_<<calls, connection>>
  BY StepRefines
<1> QED
  BY <1>1, <1>2, InvariantHolds, PTL DEF Spec, ImplementsContract, Contract!Spec
=============================================================================

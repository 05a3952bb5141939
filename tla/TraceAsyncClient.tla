------------------------- MODULE TraceAsyncClient -------------------------
(***************************************************************************)
(* TraceAsyncClientImpl: the gRPC reporter that ships finished segments to *)
(* the SkyWalking OAP over one client-streaming call.                      *)
(*                                                                         *)
(* Three kinds of threads share its fields:                                *)
(*   - reporters, the application threads that call sendMessage;           *)
(*   - the event loop thread, which waits in cq_.Next and runs the         *)
(*     callbacks of basic_event_tag_ and write_event_tag_;                 *)
(*   - the owner, which runs the constructor and later resetClient.        *)
(* Every action below is one access to shared state (an atomic, a buffer   *)
(* operation under its mutex, a gRPC call) together with the thread-local  *)
(* code up to the next one, and pc[t] names the access thread t does next. *)
(* The statistics counters are atomics that no code of the client reads:   *)
(* their increments commute with every other step and are done with the    *)
(* neighbouring access. Asserts are properties, not control.               *)
(*                                                                         *)
(* External (gRPC): an operation started on a stream stays in the          *)
(* completion queue until it completes, successfully or not, and is then   *)
(* delivered once by cq_.Next. Starting an operation on a queue that was   *)
(* shut down and is drained aborts the process.                            *)
(***************************************************************************)
EXTENDS Naturals, Sequences, FiniteSets

CONSTANTS
  Reporters,               \* application threads calling sendMessage
  EventLoop,               \* the thread of EventLoopThread
  MaxPendingMessagesSize,  \* the threshold of sendMessage, 1024 in the code
  EarlyStartEvent,         \* may the first event be delivered before the
                           \* constructor has stored the stream?
  MaxMessages,             \* bound: calls of sendMessage
  MaxFailures              \* bound: operations that complete with ok = false

ASSUME ThreadsAssumption ==
  /\ IsFiniteSet(Reporters)
  /\ EventLoop \notin Reporters

ASSUME BoundsAssumption ==
  /\ MaxPendingMessagesSize \in Nat
  /\ MaxMessages \in Nat
  /\ MaxFailures \in Nat
  /\ EarlyStartEvent \in BOOLEAN

VARIABLES
  message_buffer,    \* ValueBuffer: segments waiting to be written
  event_loop_idle,   \* the flag that hands out the right to use the stream
  active_stream,     \* the stream in active_stream_, or NoStream
  client_reset,      \* client_reset_
  messages_total,    \* the three statistics counters
  messages_dropped,
  messages_sent,
  pc,                \* next access of every reporter and of the event loop
  msg,               \* the message a thread holds in a local variable
  owner,             \* next step of the owner
  cq,                \* operations started and not yet delivered by cq_.Next
  cq_shutdown,       \* cq_.Shutdown() was called
  streams,           \* number of streams created so far; the last one's name
  failures,          \* number of failed operations so far
  aborted,           \* an operation was started after Shutdown()
  accepted,          \* history: messages in the order of push_back
  wire               \* history: messages in the order of Write

clientVars == <<message_buffer, event_loop_idle, active_stream, client_reset>>
statVars   == <<messages_total, messages_dropped, messages_sent>>
grpcVars   == <<cq, cq_shutdown, streams, failures, aborted>>
histVars   == <<accepted, wire>>
vars == <<clientVars, statVars, pc, msg, owner, grpcVars, histVars>>

Threads   == Reporters \cup {EventLoop}
NoStream  == 0
NoMessage == 0
Messages  == 1..MaxMessages

(* The accesses of sendMessage and sendMessageOnce, and the ones only the  *)
(* event loop has.                                                         *)
SenderPc    == {"ready", "push", "exchange", "pop", "mark", "write"}
EventLoopPc == {"ok_event", "failed_event", "mark_ready", "restart", "exited"}

(* Steps at which a thread has the exclusive use of the stream.            *)
StreamPc   == {"pop", "mark", "write", "ok_event", "failed_event",
               "mark_ready", "restart"}
Holding(t) == pc[t] \in StreamPc

OwnerPc == {"create", "assign", "running", "clear", "exit", "join",
            "reset_stream", "destroyed"}
Constructed == owner \notin {"create", "assign"}

(* An operation of the completion queue: the tag it was started with, its  *)
(* stream, and the segment it writes.                                      *)
Operation == [tag : {"basic", "write"}, stream : Nat \ {NoStream},
              message : Messages \cup {NoMessage},
              status : {"pending", "ok", "failed"}]

StartCall(s) ==
  [tag |-> "basic", stream |-> s, message |-> NoMessage, status |-> "pending"]

Goto(t, from, to) == pc[t] = from /\ pc' = [pc EXCEPT ![t] = to]

(* The event loop thread exists before the constructor's body runs; the    *)
(* flag starts as false because startStream occupies the stream.           *)
Init ==
  /\ message_buffer = <<>>
  /\ event_loop_idle = FALSE
  /\ active_stream = NoStream
  /\ client_reset = FALSE
  /\ messages_total = 0 /\ messages_dropped = 0 /\ messages_sent = 0
  /\ pc = [t \in Threads |-> "ready"]
  /\ msg = [t \in Threads |-> NoMessage]
  /\ owner = "create"
  /\ cq = {} /\ cq_shutdown = FALSE /\ aborted = FALSE
  /\ streams = 0 /\ failures = 0
  /\ accepted = <<>> /\ wire = <<>>

-----------------------------------------------------------------------------
(* The owner: constructor.                                                 *)

(* startStream in the constructor, up to the return of createStream: the   *)
(* call is already started on the completion queue.                        *)
ConstructorStart ==
  /\ owner = "create" /\ owner' = "assign"
  /\ streams' = streams + 1
  /\ cq' = cq \cup {StartCall(streams + 1)}
  /\ UNCHANGED <<clientVars, statVars, pc, msg, cq_shutdown, failures,
                 aborted, histVars>>

(* active_stream_ = ..., the end of the constructor. The owner's stream is *)
(* always the first one created.                                           *)
ConstructorAssign ==
  /\ owner = "assign" /\ owner' = "running"
  /\ active_stream' = 1
  /\ UNCHANGED <<message_buffer, event_loop_idle, client_reset, statVars, pc,
                 msg, grpcVars, histVars>>

-----------------------------------------------------------------------------
(* Reporters: sendMessage.                                                 *)

(* Plausible bug: the overflow check is missing.                           *)
SendMessageUnbounded(r) ==
  /\ owner = "running" /\ messages_total < MaxMessages
  /\ messages_total' = messages_total + 1
  /\ Goto(r, "ready", "push")
  /\ msg' = [msg EXCEPT ![r] = messages_total + 1]
  /\ UNCHANGED <<clientVars, messages_dropped, messages_sent, owner, grpcVars,
                 histVars>>

(* sendMessage up to the test on message_buffer_.size(): the message is    *)
(* dropped when more than MaxPendingMessagesSize are pending, and pushed   *)
(* by a later step otherwise. The n-th call sends message n.               *)
SendMessage(r) ==
  /\ owner = "running" /\ messages_total < MaxMessages
  /\ messages_total' = messages_total + 1
  /\ \/ /\ Len(message_buffer) > MaxPendingMessagesSize
        /\ pc[r] = "ready"
        /\ messages_dropped' = messages_dropped + 1
        /\ UNCHANGED <<pc, msg>>
     \/ /\ Len(message_buffer) <= MaxPendingMessagesSize
        /\ Goto(r, "ready", "push")
        /\ msg' = [msg EXCEPT ![r] = messages_total + 1]
        /\ UNCHANGED messages_dropped
  /\ UNCHANGED <<clientVars, messages_sent, owner, grpcVars, histVars>>

(* message_buffer_.push_back(message).                                     *)
PushBack(r) ==
  /\ Goto(r, "push", "exchange")
  /\ message_buffer' = Append(message_buffer, msg[r])
  /\ accepted' = Append(accepted, msg[r])
  /\ msg' = [msg EXCEPT ![r] = NoMessage]
  /\ UNCHANGED <<event_loop_idle, active_stream, client_reset, statVars, owner,
                 grpcVars, wire>>

-----------------------------------------------------------------------------
(* sendMessageOnce, run by reporters and by the event loop.                *)

(* Plausible bug: the flag is stored without testing its old value.        *)
ExchangeUnconditionally(t) ==
  /\ Goto(t, "exchange", "pop")
  /\ event_loop_idle' = FALSE
  /\ UNCHANGED <<message_buffer, active_stream, client_reset, statVars, msg,
                 owner, grpcVars, histVars>>

(* event_loop_idle_.compare_exchange_strong(true, false).                  *)
CompareExchange(t) ==
  /\ IF event_loop_idle THEN Goto(t, "exchange", "pop")
                        ELSE Goto(t, "exchange", "ready")
  /\ event_loop_idle' = FALSE
  /\ UNCHANGED <<message_buffer, active_stream, client_reset, statVars, msg,
                 owner, grpcVars, histVars>>

(* Plausible bug: the result of pop_front is used without has_value().     *)
PopFrontUnchecked(t) ==
  /\ Goto(t, "pop", "write")
  /\ IF message_buffer = <<>>
     THEN UNCHANGED <<message_buffer, msg>>
     ELSE /\ message_buffer' = Tail(message_buffer)
          /\ msg' = [msg EXCEPT ![t] = Head(message_buffer)]
  /\ UNCHANGED <<event_loop_idle, active_stream, client_reset, statVars, owner,
                 grpcVars, histVars>>

(* Plausible bug: the newest message is taken.                             *)
PopBack(t) ==
  /\ \/ /\ message_buffer = <<>>
        /\ Goto(t, "pop", "mark")
        /\ UNCHANGED <<message_buffer, msg>>
     \/ /\ message_buffer # <<>>
        /\ Goto(t, "pop", "write")
        /\ message_buffer' = SubSeq(message_buffer, 1, Len(message_buffer) - 1)
        /\ msg' = [msg EXCEPT ![t] = message_buffer[Len(message_buffer)]]
  /\ UNCHANGED <<event_loop_idle, active_stream, client_reset, statVars, owner,
                 grpcVars, histVars>>

(* Plausible bug: nothing to send, and the flag is not given back.         *)
PopFrontForgetsIdle(t) ==
  /\ \/ /\ message_buffer = <<>>
        /\ Goto(t, "pop", "ready")
        /\ UNCHANGED <<message_buffer, msg>>
     \/ /\ message_buffer # <<>>
        /\ Goto(t, "pop", "write")
        /\ message_buffer' = Tail(message_buffer)
        /\ msg' = [msg EXCEPT ![t] = Head(message_buffer)]
  /\ UNCHANGED <<event_loop_idle, active_stream, client_reset, statVars, owner,
                 grpcVars, histVars>>

(* message_buffer_.pop_front().                                            *)
PopFront(t) ==
  /\ \/ /\ message_buffer = <<>>
        /\ Goto(t, "pop", "mark")
        /\ UNCHANGED <<message_buffer, msg>>
     \/ /\ message_buffer # <<>>
        /\ Goto(t, "pop", "write")
        /\ message_buffer' = Tail(message_buffer)
        /\ msg' = [msg EXCEPT ![t] = Head(message_buffer)]
  /\ UNCHANGED <<event_loop_idle, active_stream, client_reset, statVars, owner,
                 grpcVars, histVars>>

(* markEventLoopIdle() when there was no message.                          *)
MarkEventLoopIdle(t) ==
  /\ Goto(t, "mark", "ready")
  /\ event_loop_idle' = TRUE
  /\ UNCHANGED <<message_buffer, active_stream, client_reset, statVars, msg,
                 owner, grpcVars, histVars>>

(* active_stream_->sendMessage(): Write with write_event_tag_.             *)
Write(t) ==
  /\ ~cq_shutdown
  /\ Goto(t, "write", "ready")
  /\ cq' = cq \cup {[tag |-> "write", stream |-> active_stream,
                     message |-> msg[t], status |-> "pending"]}
  /\ wire' = Append(wire, msg[t])
  /\ msg' = [msg EXCEPT ![t] = NoMessage]
  /\ UNCHANGED <<clientVars, statVars, owner, cq_shutdown, streams, failures,
                 aborted, accepted>>

-----------------------------------------------------------------------------
(* gRPC.                                                                   *)

(* An operation completes.                                                 *)
Complete(o, ok) ==
  /\ o \in cq /\ o.status = "pending"
  /\ ok \/ failures < MaxFailures
  /\ cq' = (cq \ {o}) \cup {[o EXCEPT !.status = IF ok THEN "ok" ELSE "failed"]}
  /\ failures' = IF ok THEN failures ELSE failures + 1
  /\ UNCHANGED <<clientVars, statVars, pc, msg, owner, cq_shutdown, streams,
                 aborted, histVars>>

(* Write or StartCall on a queue that was shut down: nothing else is       *)
(* pending on it, gRPC's check fails and the process ends. Every thread    *)
(* stays where it is: reporters have returned, the owner waits to join.    *)
OperationAfterShutdown(t) ==
  /\ cq_shutdown /\ ~aborted /\ pc[t] \in {"write", "restart"}
  /\ aborted' = TRUE
  /\ UNCHANGED <<clientVars, statVars, pc, msg, owner, cq, cq_shutdown,
                 streams, failures, histVars>>

-----------------------------------------------------------------------------
(* The event loop: gogo and the two callbacks.                             *)

(* Plausible bug: a failed Write is not counted as dropped.                *)
NextEventIgnoringFailedWrites(o) ==
  /\ EarlyStartEvent \/ Constructed
  /\ o \in cq /\ o.status # "pending"
  /\ Goto(EventLoop, "ready",
          IF o.status = "ok" THEN "ok_event" ELSE "failed_event")
  /\ cq' = cq \ {o}
  /\ messages_sent' =
       messages_sent + (IF o.tag = "write" /\ o.status = "ok" THEN 1 ELSE 0)
  /\ UNCHANGED <<clientVars, messages_total, messages_dropped, msg, owner,
                 cq_shutdown, streams, failures, aborted, histVars>>

(* Plausible bug: a failed Write is put back and written again.            *)
NextEventRetryingFailedWrites(o) ==
  /\ EarlyStartEvent \/ Constructed
  /\ o \in cq /\ o.status # "pending"
  /\ Goto(EventLoop, "ready",
          IF o.status = "ok" THEN "ok_event" ELSE "failed_event")
  /\ cq' = cq \ {o}
  /\ messages_sent' =
       messages_sent + (IF o.tag = "write" /\ o.status = "ok" THEN 1 ELSE 0)
  /\ message_buffer' = IF o.tag = "write" /\ o.status = "failed"
                       THEN <<o.message>> \o message_buffer
                       ELSE message_buffer
  /\ UNCHANGED <<event_loop_idle, active_stream, client_reset, messages_total,
                 messages_dropped, msg, owner, cq_shutdown, streams, failures,
                 aborted, histVars>>

(* cq_.Next returns a completed operation; write_event_tag_ counts the     *)
(* message before it delegates to basic_event_tag_.                        *)
NextEvent(o) ==
  /\ EarlyStartEvent \/ Constructed
  /\ o \in cq /\ o.status # "pending"
  /\ Goto(EventLoop, "ready",
          IF o.status = "ok" THEN "ok_event" ELSE "failed_event")
  /\ cq' = cq \ {o}
  /\ messages_sent' =
       messages_sent + (IF o.tag = "write" /\ o.status = "ok" THEN 1 ELSE 0)
  /\ messages_dropped' =
       messages_dropped + (IF o.tag = "write" /\ o.status = "failed" THEN 1 ELSE 0)
  /\ UNCHANGED <<clientVars, messages_total, msg, owner, cq_shutdown, streams,
                 failures, aborted, histVars>>

(* Plausible bug: gogo goes on after the queue is drained and shut down.   *)
NextDrainedWithoutBreak ==
  /\ pc[EventLoop] = "ready" /\ cq = {} /\ cq_shutdown
  /\ UNCHANGED vars

(* cq_.Next returns false: the loop of gogo ends.                          *)
NextDrained ==
  /\ cq = {} /\ cq_shutdown
  /\ Goto(EventLoop, "ready", "exited")
  /\ UNCHANGED <<clientVars, statVars, msg, owner, grpcVars, histVars>>

(* if (client_reset_) return; and the branch on ok.                        *)
CheckReset ==
  /\ \/ /\ client_reset
        /\ pc[EventLoop] \in {"ok_event", "failed_event"}
        /\ pc' = [pc EXCEPT ![EventLoop] = "ready"]
     \/ ~client_reset /\ Goto(EventLoop, "ok_event", "mark_ready")
     \/ ~client_reset /\ Goto(EventLoop, "failed_event", "restart")
  /\ UNCHANGED <<clientVars, statVars, msg, owner, grpcVars, histVars>>

(* Plausible bug: the callback does not go on with the next message.       *)
StreamReadyWithoutSend ==
  /\ Goto(EventLoop, "mark_ready", "ready")
  /\ event_loop_idle' = TRUE
  /\ UNCHANGED <<message_buffer, active_stream, client_reset, statVars, msg,
                 owner, grpcVars, histVars>>

(* Success: markEventLoopIdle(), then sendMessageOnce().                   *)
StreamReady ==
  /\ Goto(EventLoop, "mark_ready", "exchange")
  /\ event_loop_idle' = TRUE
  /\ UNCHANGED <<message_buffer, active_stream, client_reset, statVars, msg,
                 owner, grpcVars, histVars>>

(* Plausible bug: the new stream is created but not stored.                *)
StartStreamWithoutAssign ==
  /\ ~cq_shutdown
  /\ Goto(EventLoop, "restart", "ready")
  /\ streams' = streams + 1
  /\ cq' = cq \cup {StartCall(streams + 1)}
  /\ UNCHANGED <<clientVars, statVars, msg, owner, cq_shutdown, failures,
                 aborted, histVars>>

(* Failure: startStream() deletes the stream, if there is one, and creates *)
(* and stores a new one. One step: the event of the new call is delivered  *)
(* to this same thread, and no reporter uses the stream meanwhile.         *)
StartStream ==
  /\ ~cq_shutdown
  /\ Goto(EventLoop, "restart", "ready")
  /\ streams' = streams + 1
  /\ active_stream' = streams + 1
  /\ cq' = cq \cup {StartCall(streams + 1)}
  /\ UNCHANGED <<message_buffer, event_loop_idle, client_reset, statVars, msg,
                 owner, cq_shutdown, failures, aborted, histVars>>

-----------------------------------------------------------------------------
(* The owner: resetClient, called by the tracer's destructor. Reporters    *)
(* have returned by then: a call of report that overlaps the destructor of *)
(* its tracer is outside the contract of any C++ object.                   *)

ResetClient ==
  /\ owner = "running" /\ owner' = "clear"
  /\ \A r \in Reporters : pc[r] = "ready"
  /\ client_reset' = TRUE
  /\ UNCHANGED <<message_buffer, event_loop_idle, active_stream, statVars, pc,
                 msg, grpcVars, histVars>>

(* Plausible bug: the stream is deleted before the event loop has ended.   *)
ClearBufferAndStream ==
  /\ owner = "clear" /\ owner' = "exit"
  /\ message_buffer' = <<>>
  /\ active_stream' = NoStream
  /\ UNCHANGED <<event_loop_idle, client_reset, statVars, pc, msg, grpcVars,
                 histVars>>

(* message_buffer_.clear().                                                *)
ClearBuffer ==
  /\ owner = "clear" /\ owner' = "exit"
  /\ message_buffer' = <<>>
  /\ UNCHANGED <<event_loop_idle, active_stream, client_reset, statVars, pc,
                 msg, grpcVars, histVars>>

(* event_loop_.exit(): cq_.Shutdown() ...                                  *)
Shutdown ==
  /\ owner = "exit" /\ owner' = "join"
  /\ cq_shutdown' = TRUE
  /\ UNCHANGED <<clientVars, statVars, pc, msg, cq, streams, failures, aborted,
                 histVars>>

(* ... and thread_.join().                                                 *)
Join ==
  /\ owner = "join" /\ owner' = "reset_stream"
  /\ pc[EventLoop] = "exited"
  /\ UNCHANGED <<clientVars, statVars, pc, msg, grpcVars, histVars>>

(* resetStream(). The destructor of the client then finds client_reset_    *)
(* set and does nothing more.                                              *)
ResetStream ==
  /\ owner = "reset_stream" /\ owner' = "destroyed"
  /\ active_stream' = NoStream
  /\ UNCHANGED <<message_buffer, event_loop_idle, client_reset, statVars, pc,
                 msg, grpcVars, histVars>>

-----------------------------------------------------------------------------
SendMessageOnce(t) ==
  CompareExchange(t) \/ PopFront(t) \/ MarkEventLoopIdle(t) \/ Write(t)

Gogo == (\E o \in cq : NextEvent(o)) \/ NextDrained \/ CheckReset
        \/ StreamReady \/ StartStream

Reset == ClearBuffer \/ Shutdown \/ Join \/ ResetStream

(* The client is gone, or the process is.                                  *)
Terminated == (owner = "destroyed" \/ aborted) /\ UNCHANGED vars

Next ==
  \/ ConstructorStart \/ ConstructorAssign
  \/ \E r \in Reporters : SendMessage(r) \/ PushBack(r)
  \/ \E t \in Threads : SendMessageOnce(t) \/ OperationAfterShutdown(t)
  \/ \E o \in cq, ok \in BOOLEAN : Complete(o, ok)
  \/ Gogo
  \/ ResetClient \/ Reset
  \/ Terminated

Spec == Init /\ [][Next]_vars

(* Threads that are inside the client keep running, and gRPC completes     *)
(* what was started. Nothing obliges the application to send a message or  *)
(* to destroy the tracer.                                                  *)
Fairness ==
  /\ \A r \in Reporters : WF_vars(PushBack(r) \/ SendMessageOnce(r))
  /\ WF_vars(Gogo \/ SendMessageOnce(EventLoop)
                  \/ OperationAfterShutdown(EventLoop))
  /\ WF_vars(\E o \in cq, ok \in BOOLEAN : Complete(o, ok))
  /\ WF_vars(ConstructorStart \/ ConstructorAssign \/ Reset)

FairSpec == Spec /\ Fairness

-----------------------------------------------------------------------------
(* Properties.                                                             *)

(* Every field and every local variable holds a value of its kind; in      *)
(* particular only real messages are ever queued or written (pop_front's   *)
(* std::nullopt never reaches the stream).                                 *)
TypeOK ==
  /\ message_buffer \in Seq(Messages)
  /\ event_loop_idle \in BOOLEAN
  /\ active_stream \in Nat
  /\ client_reset \in BOOLEAN
  /\ messages_total \in 0..MaxMessages
  /\ messages_dropped \in Nat /\ messages_sent \in Nat
  /\ pc \in [Threads -> SenderPc \cup EventLoopPc]
  /\ \A r \in Reporters : pc[r] \in SenderPc
  /\ msg \in [Threads -> Messages \cup {NoMessage}]
  /\ \A t \in Threads : pc[t] \in {"push", "write"} <=> msg[t] # NoMessage
  /\ owner \in OwnerPc
  /\ cq \subseteq Operation
  /\ cq_shutdown \in BOOLEAN /\ aborted \in BOOLEAN
  /\ streams \in Nat /\ failures \in 0..MaxFailures
  /\ accepted \in Seq(Messages) /\ wire \in Seq(Messages)

(* "We make sure that all operations on the stream are done one by one"    *)
(* (grpc_async_client_impl.h:154): the right to use the stream is with one *)
(* operation in the queue, one thread, the constructor, or the flag, never *)
(* with two of them. It implies the assert in the failure branch of the    *)
(* callback, which expects event_loop_idle_ to be false.                   *)
OneStreamUser ==
  /\ \A o1, o2 \in cq : o1 = o2
  /\ \A t1, t2 \in Threads : Holding(t1) /\ Holding(t2) => t1 = t2
  /\ cq # {} => \A t \in Threads : ~Holding(t)
  /\ event_loop_idle => cq = {} /\ \A t \in Threads : ~Holding(t)
  /\ owner = "create" =>
       cq = {} /\ ~event_loop_idle /\ \A t \in Threads : ~Holding(t)

(* The right to use the stream never vanishes while the client lives: if   *)
(* it did, every later message would wait in the buffer for ever. Only the *)
(* early return on client_reset_ lets go of it.                            *)
TokenNotLost ==
  \/ client_reset \/ event_loop_idle \/ cq # {} \/ owner = "create"
  \/ \E t \in Threads : Holding(t)

(* size() and push_back() of sendMessage are two critical sections: every  *)
(* reporter may pass the test before any of them pushes. The buffer        *)
(* overshoots the threshold by at most one message per reporter.           *)
BufferBound ==
  Len(message_buffer) <= MaxPendingMessagesSize + Cardinality(Reporters)

(* The message popped by sendMessageOnce and not yet written.              *)
InHand ==
  IF \E t \in Threads : pc[t] = "write"
  THEN <<msg[CHOOSE t \in Threads : pc[t] = "write"]>>
  ELSE <<>>

BufferCleared == owner \in {"exit", "join", "reset_stream", "destroyed"}

IsPrefixOf(s, t) == Len(s) <= Len(t) /\ \A i \in 1..Len(s) : s[i] = t[i]

(* Across all interleavings of reporters, stream failures and reconnects,  *)
(* messages are written once, in the order of push_back, with none left    *)
(* out; resetClient cuts the tail off and never a message in the middle.   *)
WireInOrder ==
  /\ ~BufferCleared => accepted = wire \o InHand \o message_buffer
  /\ BufferCleared => IsPrefixOf(wire \o InHand, accepted)

(* The statistics account for every call of sendMessage: total - dropped - *)
(* sent is the number of messages still on their way, the quantity pending *)
(* that test/grpc_async_client_test.cc computes from the same counters.    *)
(* resetClient discards messages that no counter ever sees.                *)
Accounting ==
  LET pushing   == Cardinality({r \in Reporters : pc[r] = "push"})
      in_flight == Cardinality({o \in cq : o.tag = "write"})
      on_their_way ==
        pushing + Len(message_buffer) + Len(InHand) + in_flight
      counted == messages_dropped + messages_sent
  IN  /\ ~BufferCleared => messages_total = counted + on_their_way
      /\ BufferCleared  => messages_total >= counted + on_their_way

(* active_stream_->sendMessage never dereferences a null pointer, not even *)
(* when the event loop writes while resetClient is under way.              *)
StreamForWrite ==
  \A t \in Threads : pc[t] = "write" => active_stream # NoStream

(* A stream that was deleted has no operation outstanding, so no event of  *)
(* an old stream is ever taken for one of its successor. Needs the event   *)
(* of the first StartCall not to overtake the constructor.                 *)
OpsOnActiveStream == Constructed => \A o \in cq : o.stream = active_stream

(* The client implements the abstract reporter. What sendMessageOnce has   *)
(* popped still counts as backlog until it is written.                     *)
Reporter == INSTANCE LossyReporter WITH
  Message     <- Messages,
  RefuseAbove <- MaxPendingMessagesSize,
  Room        <- MaxPendingMessagesSize + Cardinality(Reporters) + 1,
  backlog     <- InHand \o message_buffer,
  in_flight   <- \E o \in cq : o.tag = "write",
  sent        <- messages_sent,
  dropped     <- messages_dropped,
  open        <- ~BufferCleared

(* Whatever the threads, the flag, failing streams and a concurrent        *)
(* resetClient do, an observer of sendMessage, the wire and the statistics *)
(* sees a bounded queue that transmits one message at a time and counts    *)
(* each of them once: a failed message is lost, not retried.               *)
ImplementsReporter == Reporter!Spec

(* A message waiting behind an outstanding operation is written: each      *)
(* callback goes on with the next message, through failures and new        *)
(* streams, whatever reporters do meanwhile.                               *)
DrainContinues ==
  \A m \in Messages :
    (cq # {} /\ (\E i \in 1..Len(message_buffer) : message_buffer[i] = m))
      ~> ((\E i \in 1..Len(wire) : wire[i] = m) \/ client_reset)

(* resetClient returns: the event loop drains the queue, sees the shutdown *)
(* and can be joined - unless the process dies on an operation started     *)
(* after the shutdown.                                                     *)
ResetTerminates == client_reset ~> (owner = "destroyed" \/ aborted)

-----------------------------------------------------------------------------
(* What the repository says and the code does not keep.                    *)

(* test/grpc_async_client_test.cc:162-164: "This time the stream is ready  *)
(* and previous message is sent successfully. So the new message should be *)
(* sent immediately." When every reporter has returned, nothing is         *)
(* outstanding and the event loop waits in cq_.Next, no message is left.   *)
NoStrandedMessage ==
  (/\ owner = "running" /\ cq = {} /\ \A t \in Threads : pc[t] = "ready")
    => message_buffer = <<>>

(* assert(active_stream_ != nullptr) of sendMessageOnce.                   *)
ActiveStreamAtPop ==
  \A t \in Threads : pc[t] = "pop" => active_stream # NoStream

(* "After this is called, no more events will be processed."               *)
(* (grpc_async_client_impl.h:116): no event that gogo processes starts an  *)
(* operation on the queue resetClient has shut down.                       *)
NoOperationAfterShutdown == ~aborted
=============================================================================

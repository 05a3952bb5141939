---------------------- MODULE TraceAsyncClientProofs ----------------------
(***************************************************************************)
(* Proofs about TraceAsyncClient, for any finite set of reporters and any  *)
(* bounds.                                                                 *)
(*                                                                         *)
(* The first half is about threads: types, the phases of the owner, the    *)
(* right to use the stream, the size of the buffer. The second half sees   *)
(* the client as a queue: every step of a thread, of gRPC or of the owner  *)
(* is one of eight steps of a queue, or does not touch the queue           *)
(* (StepIsQueueStep), and order, accounting and the refinement of          *)
(* LossyReporter need these eight cases only.                              *)
(***************************************************************************)
EXTENDS TraceAsyncClient, FiniteSetTheorems, SequenceTheorems, TLAPS

(* The phases of the owner, which StreamForWrite rests on: no message      *)
(* before the constructor has ended, no reporter once resetClient began,   *)
(* no event loop once the stream is deleted for good.                      *)
Lifecycle ==
  /\ ~Constructed => /\ message_buffer = <<>>
                     /\ \A r \in Reporters : pc[r] = "ready"
                     /\ pc[EventLoop] # "write"
  /\ client_reset <=> owner \notin {"create", "assign", "running"}
  /\ client_reset => \A r \in Reporters : pc[r] = "ready"
  /\ cq_shutdown <=> owner \in {"join", "reset_stream", "destroyed"}
  /\ owner \in {"reset_stream", "destroyed"} => pc[EventLoop] = "exited"
  /\ Constructed /\ owner # "destroyed" => active_stream # NoStream

IndInv == TypeOK /\ Lifecycle

LEMMA InitIndInv == Init => IndInv
<1> SUFFICES ASSUME Init PROVE IndInv
  OBVIOUS
<1>1. <<>> \in Seq(Messages)
  BY EmptySeq
<1>2. /\ pc \in [Threads -> SenderPc \cup EventLoopPc]
      /\ \A t \in Threads : pc[t] = "ready" /\ msg[t] = NoMessage
      /\ msg \in [Threads -> Messages \cup {NoMessage}]
  BY DEF Init, SenderPc
<1>3. TypeOK
  <2>1. /\ messages_total \in 0..MaxMessages /\ failures \in 0..MaxFailures
        /\ active_stream \in Nat /\ streams \in Nat
        /\ messages_dropped \in Nat /\ messages_sent \in Nat
    BY BoundsAssumption DEF Init, NoStream
  <2>2. /\ owner \in OwnerPc /\ cq \subseteq Operation
        /\ event_loop_idle \in BOOLEAN /\ client_reset \in BOOLEAN
        /\ cq_shutdown \in BOOLEAN /\ aborted \in BOOLEAN
    BY DEF Init, OwnerPc
  <2>3. /\ message_buffer \in Seq(Messages)
        /\ accepted \in Seq(Messages) /\ wire \in Seq(Messages)
    BY <1>1 DEF Init
  <2> QED
    BY <1>2, <2>1, <2>2, <2>3 DEF TypeOK, Threads, SenderPc
<1>4. Lifecycle
  BY DEF Init, Lifecycle, Constructed, Threads
<1> QED
  BY <1>3, <1>4 DEF IndInv

(* The stream exists whenever a thread is about to write.                  *)
LEMMA StreamWhenWriting == IndInv => StreamForWrite
<1> SUFFICES ASSUME IndInv, NEW t \in Threads, pc[t] = "write"
             PROVE  active_stream # NoStream
  BY DEF StreamForWrite
<1>1. CASE t \in Reporters
  BY <1>1 DEF IndInv, TypeOK, Lifecycle, Constructed, OwnerPc
<1>2. CASE t = EventLoop
  BY <1>2 DEF IndInv, TypeOK, Lifecycle, Constructed, OwnerPc
<1> QED
  BY <1>1, <1>2 DEF Threads

LEMMA NextIndInv == IndInv /\ [Next]_vars => IndInv'
<1> SUFFICES ASSUME IndInv, [Next]_vars
             PROVE  IndInv'
  OBVIOUS
<1> USE ThreadsAssumption, BoundsAssumption
  DEF Constructed, Threads, SenderPc, EventLoopPc, OwnerPc, NoStream, NoMessage,
      Messages
<1>1. CASE ConstructorStart
  <2>1. StartCall(streams + 1) \in Operation
    BY DEF IndInv, TypeOK, StartCall, Operation
  <2>2. cq' \subseteq Operation
    BY <1>1, <2>1 DEF IndInv, TypeOK, ConstructorStart
  <2> QED
    BY <1>1, <2>2
    DEF IndInv, TypeOK, Lifecycle, ConstructorStart, clientVars, statVars,
        histVars
<1>2. CASE ConstructorAssign
  BY <1>2
  DEF IndInv, TypeOK, Lifecycle, ConstructorAssign, clientVars, statVars,
      grpcVars, histVars
<1>3. ASSUME NEW r \in Reporters, SendMessage(r) PROVE IndInv'
  <2>1. CASE Len(message_buffer) > MaxPendingMessagesSize
    BY <1>3, <2>1
    DEF IndInv, TypeOK, Lifecycle, SendMessage, Goto, clientVars, grpcVars,
        histVars
  <2>2. CASE Len(message_buffer) <= MaxPendingMessagesSize
    <3>1. messages_total + 1 \in Messages /\ messages_total + 1 # NoMessage
      BY <1>3 DEF IndInv, TypeOK, SendMessage
    <3>2. /\ pc[r] = "ready" /\ pc' = [pc EXCEPT ![r] = "push"]
          /\ msg' = [msg EXCEPT ![r] = messages_total + 1]
          /\ messages_total' = messages_total + 1
          /\ owner = "running"
          /\ UNCHANGED <<messages_dropped, messages_sent>>
          /\ UNCHANGED <<message_buffer, event_loop_idle, active_stream,
                         client_reset, owner>>
          /\ UNCHANGED <<cq, cq_shutdown, streams, failures, aborted,
                         accepted, wire>>
      BY <1>3, <2>2 DEF SendMessage, Goto, clientVars, grpcVars, histVars
    <3>3. TypeOK'
      BY <3>1, <3>2 DEF IndInv, TypeOK
    <3>4. Lifecycle'
      BY <3>2 DEF IndInv, TypeOK, Lifecycle
    <3> QED
      BY <3>3, <3>4 DEF IndInv
  <2>3. Len(message_buffer) \in Nat
    BY LenProperties DEF IndInv, TypeOK
  <2> QED
    BY <2>1, <2>2, <2>3
<1>4. ASSUME NEW r \in Reporters, PushBack(r) PROVE IndInv'
  BY <1>4
  DEF IndInv, TypeOK, Lifecycle, PushBack, Goto, clientVars, statVars,
      grpcVars, histVars
<1>5. ASSUME NEW t \in Threads, CompareExchange(t) PROVE IndInv'
  BY <1>5
  DEF IndInv, TypeOK, Lifecycle, CompareExchange, Goto, clientVars, statVars,
      grpcVars, histVars
<1>6. ASSUME NEW t \in Threads, PopFront(t) PROVE IndInv'
  <2>1. CASE message_buffer = <<>>
    BY <1>6, <2>1
    DEF IndInv, TypeOK, Lifecycle, PopFront, Goto, statVars, grpcVars, histVars
  <2>2. CASE message_buffer # <<>>
    <3>1. Head(message_buffer) \in Messages /\ Tail(message_buffer) \in Seq(Messages)
      BY <2>2, HeadTailProperties DEF IndInv, TypeOK
    <3>2. /\ pc[t] = "pop" /\ pc' = [pc EXCEPT ![t] = "write"]
          /\ msg' = [msg EXCEPT ![t] = Head(message_buffer)]
          /\ message_buffer' = Tail(message_buffer)
          /\ UNCHANGED <<event_loop_idle, active_stream, client_reset, owner>>
          /\ UNCHANGED <<messages_total, messages_dropped, messages_sent>>
          /\ UNCHANGED <<cq, cq_shutdown, streams, failures, aborted,
                         accepted, wire>>
      BY <1>6, <2>2 DEF PopFront, Goto, statVars, grpcVars, histVars
    <3>3. TypeOK'
      BY <3>1, <3>2 DEF IndInv, TypeOK
    <3>4. Lifecycle'
      BY <2>2, <3>2 DEF IndInv, TypeOK, Lifecycle
    <3> QED
      BY <3>3, <3>4 DEF IndInv
  <2> QED
    BY <2>1, <2>2
<1>7. ASSUME NEW t \in Threads, MarkEventLoopIdle(t) PROVE IndInv'
  BY <1>7
  DEF IndInv, TypeOK, Lifecycle, MarkEventLoopIdle, Goto, clientVars,
      statVars, grpcVars, histVars
<1>8. ASSUME NEW t \in Threads, Write(t) PROVE IndInv'
  <2> DEFINE op == [tag |-> "write", stream |-> active_stream,
                    message |-> msg[t], status |-> "pending"]
  <2>1. /\ pc[t] = "write" /\ pc' = [pc EXCEPT ![t] = "ready"]
        /\ cq' = cq \cup {op}
        /\ wire' = Append(wire, msg[t])
        /\ msg' = [msg EXCEPT ![t] = NoMessage]
        /\ UNCHANGED <<message_buffer, event_loop_idle, active_stream,
                       client_reset, owner>>
        /\ UNCHANGED <<messages_total, messages_dropped, messages_sent>>
        /\ UNCHANGED <<cq_shutdown, streams, failures, aborted, accepted>>
    BY <1>8 DEF Write, Goto, clientVars, statVars
  <2>2. msg[t] \in Messages
    BY <2>1 DEF IndInv, TypeOK
  <2>3. active_stream # NoStream
    BY <2>1, StreamWhenWriting DEF IndInv, StreamForWrite
  <2>4. op \in Operation
    BY <2>2, <2>3 DEF IndInv, TypeOK, Operation
  <2>5. cq' \subseteq Operation
    BY <2>1, <2>4 DEF IndInv, TypeOK
  <2>6. wire' \in Seq(Messages)
    BY <2>1, <2>2, AppendProperties DEF IndInv, TypeOK
  <2> HIDE DEF op
  <2>7. TypeOK'
    BY <2>1, <2>5, <2>6 DEF IndInv, TypeOK
  <2>8. Lifecycle'
    BY <2>1 DEF IndInv, TypeOK, Lifecycle
  <2> QED
    BY <2>7, <2>8 DEF IndInv
<1>9. ASSUME NEW t \in Threads, OperationAfterShutdown(t) PROVE IndInv'
  BY <1>9
  DEF IndInv, TypeOK, Lifecycle, OperationAfterShutdown, clientVars, statVars,
      grpcVars, histVars
<1>10. ASSUME NEW o \in cq, NEW ok \in BOOLEAN, Complete(o, ok) PROVE IndInv'
  <2> DEFINE status == IF ok THEN "ok" ELSE "failed"
  <2>1. [o EXCEPT !.status = status] \in Operation
    <3> status \in {"ok", "failed"}
      OBVIOUS
    <3> HIDE DEF status
    <3> QED
      BY DEF IndInv, TypeOK, Operation
  <2>2. cq' \subseteq Operation
    BY <1>10, <2>1 DEF IndInv, TypeOK, Complete
  <2>3. failures' \in 0..MaxFailures
    BY <1>10 DEF IndInv, TypeOK, Complete
  <2> QED
    BY <1>10, <2>2, <2>3
    DEF IndInv, TypeOK, Lifecycle, Complete, clientVars, statVars, histVars
<1>11. ASSUME NEW o \in cq, NextEvent(o) PROVE IndInv'
  BY <1>11
  DEF IndInv, TypeOK, Lifecycle, NextEvent, Goto, clientVars, statVars,
      grpcVars, histVars
<1>12. CASE NextDrained
  BY <1>12
  DEF IndInv, TypeOK, Lifecycle, NextDrained, Goto, clientVars, statVars,
      grpcVars, histVars
<1>13. CASE CheckReset
  BY <1>13
  DEF IndInv, TypeOK, Lifecycle, CheckReset, Goto, clientVars, statVars,
      grpcVars, histVars
<1>14. CASE StreamReady
  BY <1>14
  DEF IndInv, TypeOK, Lifecycle, StreamReady, Goto, clientVars, statVars,
      grpcVars, histVars
<1>15. CASE StartStream
  <2>1. StartCall(streams + 1) \in Operation
    BY DEF IndInv, TypeOK, StartCall, Operation
  <2>2. cq' \subseteq Operation
    BY <1>15, <2>1 DEF IndInv, TypeOK, StartStream
  <2>3. /\ pc[EventLoop] = "restart" /\ pc' = [pc EXCEPT ![EventLoop] = "ready"]
        /\ streams' = streams + 1 /\ active_stream' = streams + 1
        /\ UNCHANGED <<message_buffer, event_loop_idle, client_reset, owner>>
        /\ UNCHANGED <<messages_total, messages_dropped, messages_sent, msg>>
        /\ UNCHANGED <<cq_shutdown, failures, aborted, accepted, wire>>
    BY <1>15 DEF StartStream, Goto, statVars, histVars
  <2>4. TypeOK'
    BY <2>2, <2>3 DEF IndInv, TypeOK
  <2>5. Lifecycle'
    BY <2>3 DEF IndInv, TypeOK, Lifecycle
  <2> QED
    BY <2>4, <2>5 DEF IndInv
<1>16. CASE ResetClient
  BY <1>16
  DEF IndInv, TypeOK, Lifecycle, ResetClient, clientVars, statVars, grpcVars,
      histVars
<1>17. CASE ClearBuffer
  BY <1>17
  DEF IndInv, TypeOK, Lifecycle, ClearBuffer, clientVars, statVars, grpcVars,
      histVars
<1>18. CASE Shutdown
  BY <1>18
  DEF IndInv, TypeOK, Lifecycle, Shutdown, clientVars, statVars, grpcVars,
      histVars
<1>19. CASE Join
  BY <1>19
  DEF IndInv, TypeOK, Lifecycle, Join, clientVars, statVars, grpcVars, histVars
<1>20. CASE ResetStream
  BY <1>20
  DEF IndInv, TypeOK, Lifecycle, ResetStream, clientVars, statVars, grpcVars,
      histVars
<1>21. CASE UNCHANGED vars
  BY <1>21
  DEF IndInv, TypeOK, Lifecycle, vars, clientVars, statVars, grpcVars, histVars
<1> QED
  BY <1>1, <1>2, <1>3, <1>4, <1>5, <1>6, <1>7, <1>8, <1>9, <1>10, <1>11,
      <1>12, <1>13, <1>14, <1>15, <1>16, <1>17, <1>18, <1>19, <1>20, <1>21
  DEF Next, Terminated, SendMessageOnce, Gogo, Reset

(* Every variable keeps its kind of value, and StreamForWrite is why: the  *)
(* operation Write starts belongs to a stream.                             *)
THEOREM TypeCorrect == Spec => []TypeOK
<1>1. Spec => []IndInv
  BY InitIndInv, NextIndInv, PTL DEF Spec
<1>2. IndInv => TypeOK
  BY DEF IndInv
<1> QED
  BY <1>1, <1>2, PTL

(* sendMessageOnce never writes to a null active_stream_, for any number   *)
(* of reporters, failures and stream re-creations, with resetClient at any *)
(* moment and even when the first event overtakes the constructor.         *)
THEOREM NeverWritesToNull == Spec => []StreamForWrite
<1>1. Spec => []IndInv
  BY InitIndInv, NextIndInv, PTL DEF Spec
<1> QED
  BY <1>1, StreamWhenWriting, PTL

-----------------------------------------------------------------------------
(* One user of the stream at a time. OneStreamUser is inductive together   *)
(* with TypeOK: every action passes the right on, and the flag is taken by *)
(* the one thread whose compare_exchange finds it true.                    *)

LEMMA InitOneStreamUser == Init => OneStreamUser
  BY DEF Init, OneStreamUser, Holding, StreamPc

LEMMA NextOneStreamUser ==
  TypeOK /\ OneStreamUser /\ [Next]_vars => OneStreamUser'
<1> SUFFICES ASSUME TypeOK, OneStreamUser, [Next]_vars
             PROVE  OneStreamUser'
  OBVIOUS
<1> USE ThreadsAssumption DEF TypeOK, Threads, Holding, StreamPc
<1>1. CASE ConstructorStart
  BY <1>1 DEF OneStreamUser, ConstructorStart, StartCall, clientVars,
      statVars, histVars
<1>2. CASE ConstructorAssign
  BY <1>2 DEF OneStreamUser, ConstructorAssign, statVars, grpcVars, histVars
<1>3. ASSUME NEW r \in Reporters, SendMessage(r) PROVE OneStreamUser'
  BY <1>3 DEF OneStreamUser, SendMessage, Goto, clientVars, grpcVars, histVars
<1>4. ASSUME NEW r \in Reporters, PushBack(r) PROVE OneStreamUser'
  BY <1>4 DEF OneStreamUser, PushBack, Goto, statVars, grpcVars
<1>5. ASSUME NEW t \in Threads, CompareExchange(t) PROVE OneStreamUser'
  BY <1>5 DEF OneStreamUser, CompareExchange, Goto, statVars, grpcVars,
      histVars
<1>6. ASSUME NEW t \in Threads, PopFront(t) PROVE OneStreamUser'
  BY <1>6 DEF OneStreamUser, PopFront, Goto, statVars, grpcVars, histVars
<1>7. ASSUME NEW t \in Threads, MarkEventLoopIdle(t) PROVE OneStreamUser'
  BY <1>7 DEF OneStreamUser, MarkEventLoopIdle, Goto, statVars, grpcVars,
      histVars
<1>8. ASSUME NEW t \in Threads, Write(t) PROVE OneStreamUser'
  BY <1>8 DEF OneStreamUser, Write, Goto, clientVars, statVars
<1>9. ASSUME NEW t \in Threads, OperationAfterShutdown(t) PROVE OneStreamUser'
  BY <1>9 DEF OneStreamUser, OperationAfterShutdown, clientVars, statVars,
      histVars
<1>10. ASSUME NEW o \in cq, NEW ok \in BOOLEAN, Complete(o, ok)
       PROVE  OneStreamUser'
  BY <1>10 DEF OneStreamUser, Complete, clientVars, statVars, histVars
<1>11. ASSUME NEW o \in cq, NextEvent(o) PROVE OneStreamUser'
  BY <1>11 DEF OneStreamUser, NextEvent, Goto, clientVars, histVars
<1>12. CASE NextDrained
  BY <1>12 DEF OneStreamUser, NextDrained, Goto, clientVars, statVars,
      grpcVars, histVars
<1>13. CASE CheckReset
  BY <1>13 DEF OneStreamUser, CheckReset, Goto, clientVars, statVars,
      grpcVars, histVars
<1>14. CASE StreamReady
  BY <1>14 DEF OneStreamUser, StreamReady, Goto, statVars, grpcVars, histVars
<1>15. CASE StartStream
  BY <1>15 DEF OneStreamUser, StartStream, Goto, StartCall, statVars, histVars
<1>16. CASE ResetClient
  BY <1>16 DEF OneStreamUser, ResetClient, statVars, grpcVars, histVars
<1>17. CASE ClearBuffer
  BY <1>17 DEF OneStreamUser, ClearBuffer, statVars, grpcVars, histVars
<1>18. CASE Shutdown
  BY <1>18 DEF OneStreamUser, Shutdown, clientVars, statVars, histVars
<1>19. CASE Join
  BY <1>19 DEF OneStreamUser, Join, clientVars, statVars, grpcVars, histVars
<1>20. CASE ResetStream
  BY <1>20 DEF OneStreamUser, ResetStream, statVars, grpcVars, histVars
<1>21. CASE UNCHANGED vars
  BY <1>21 DEF OneStreamUser, vars, clientVars, statVars, grpcVars, histVars
<1> QED
  BY <1>1, <1>2, <1>3, <1>4, <1>5, <1>6, <1>7, <1>8, <1>9, <1>10, <1>11,
      <1>12, <1>13, <1>14, <1>15, <1>16, <1>17, <1>18, <1>19, <1>20, <1>21 DEF
      Next, Terminated, SendMessageOnce, Gogo, Reset

(* "All operations on the stream are done one by one": at any time one     *)
(* operation, one thread, the constructor or the flag has the stream.      *)
THEOREM ExclusiveStream == Spec => []OneStreamUser
  BY TypeCorrect, InitOneStreamUser, NextOneStreamUser, PTL DEF Spec

-----------------------------------------------------------------------------
(* The right to use the stream is never lost.                              *)

LEMMA InitTokenNotLost == Init => TokenNotLost
  BY DEF Init, TokenNotLost

LEMMA NextTokenNotLost ==
  TypeOK /\ TokenNotLost /\ [Next]_vars => TokenNotLost'
<1> SUFFICES ASSUME TypeOK, TokenNotLost, [Next]_vars
             PROVE  TokenNotLost'
  OBVIOUS
<1> USE ThreadsAssumption DEF TypeOK, Threads, Holding, StreamPc
<1>1. CASE ConstructorStart
  BY <1>1 DEF TokenNotLost, ConstructorStart, StartCall, clientVars, statVars,
      histVars
<1>2. CASE ConstructorAssign
  BY <1>2 DEF TokenNotLost, ConstructorAssign, statVars, grpcVars, histVars
<1>3. ASSUME NEW r \in Reporters, SendMessage(r) PROVE TokenNotLost'
  BY <1>3 DEF TokenNotLost, SendMessage, Goto, clientVars, grpcVars, histVars
<1>4. ASSUME NEW r \in Reporters, PushBack(r) PROVE TokenNotLost'
  BY <1>4 DEF TokenNotLost, PushBack, Goto, statVars, grpcVars
<1>5. ASSUME NEW t \in Threads, CompareExchange(t) PROVE TokenNotLost'
  BY <1>5 DEF TokenNotLost, CompareExchange, Goto, statVars, grpcVars,
      histVars
<1>6. ASSUME NEW t \in Threads, PopFront(t) PROVE TokenNotLost'
  BY <1>6 DEF TokenNotLost, PopFront, Goto, statVars, grpcVars, histVars
<1>7. ASSUME NEW t \in Threads, MarkEventLoopIdle(t) PROVE TokenNotLost'
  BY <1>7 DEF TokenNotLost, MarkEventLoopIdle, Goto, statVars, grpcVars,
      histVars
<1>8. ASSUME NEW t \in Threads, Write(t) PROVE TokenNotLost'
  BY <1>8 DEF TokenNotLost, Write, Goto, clientVars, statVars
<1>9. ASSUME NEW t \in Threads, OperationAfterShutdown(t) PROVE TokenNotLost'
  BY <1>9 DEF TokenNotLost, OperationAfterShutdown, clientVars, statVars,
      histVars
<1>10. ASSUME NEW o \in cq, NEW ok \in BOOLEAN, Complete(o, ok)
       PROVE  TokenNotLost'
  BY <1>10 DEF TokenNotLost, Complete, clientVars, statVars, histVars
<1>11. ASSUME NEW o \in cq, NextEvent(o) PROVE TokenNotLost'
  BY <1>11 DEF TokenNotLost, NextEvent, Goto, clientVars, histVars
<1>12. CASE NextDrained
  BY <1>12 DEF TokenNotLost, NextDrained, Goto, clientVars, statVars,
      grpcVars, histVars
<1>13. CASE CheckReset
  BY <1>13 DEF TokenNotLost, CheckReset, Goto, clientVars, statVars, grpcVars,
      histVars
<1>14. CASE StreamReady
  BY <1>14 DEF TokenNotLost, StreamReady, Goto, statVars, grpcVars, histVars
<1>15. CASE StartStream
  BY <1>15 DEF TokenNotLost, StartStream, Goto, StartCall, statVars, histVars
<1>16. CASE ResetClient
  BY <1>16 DEF TokenNotLost, ResetClient, statVars, grpcVars, histVars
<1>17. CASE ClearBuffer
  BY <1>17 DEF TokenNotLost, ClearBuffer, statVars, grpcVars, histVars
<1>18. CASE Shutdown
  BY <1>18 DEF TokenNotLost, Shutdown, clientVars, statVars, histVars
<1>19. CASE Join
  BY <1>19 DEF TokenNotLost, Join, clientVars, statVars, grpcVars, histVars
<1>20. CASE ResetStream
  BY <1>20 DEF TokenNotLost, ResetStream, statVars, grpcVars, histVars
<1>21. CASE UNCHANGED vars
  BY <1>21 DEF TokenNotLost, vars, clientVars, statVars, grpcVars, histVars
<1> QED
  BY <1>1, <1>2, <1>3, <1>4, <1>5, <1>6, <1>7, <1>8, <1>9, <1>10, <1>11,
      <1>12, <1>13, <1>14, <1>15, <1>16, <1>17, <1>18, <1>19, <1>20, <1>21 DEF
      Next, Terminated, SendMessageOnce, Gogo, Reset

(* Until resetClient, somebody can always carry on: the flag is up, an     *)
(* operation is outstanding, or a thread is about to do one of the two.    *)
THEOREM TokenKept == Spec => []TokenNotLost
  BY TypeCorrect, InitTokenNotLost, NextTokenNotLost, PTL DEF Spec

-----------------------------------------------------------------------------
(* The buffer's bound. The reporters that have passed the test of          *)
(* sendMessage and not pushed yet each hold a reservation.                 *)

Pushing == {r \in Reporters : pc[r] = "push"}

Reservations ==
  Len(message_buffer) + Cardinality(Pushing)
    <= MaxPendingMessagesSize + Cardinality(Reporters)

LEMMA PushingFinite ==
  /\ IsFiniteSet(Pushing) /\ Cardinality(Pushing) \in Nat
  /\ Cardinality(Pushing) <= Cardinality(Reporters)
  /\ Cardinality(Reporters) \in Nat
  BY ThreadsAssumption, FS_Subset, FS_CardinalityType DEF Pushing

LEMMA InitReservations == Init => Reservations
<1> SUFFICES ASSUME Init PROVE Reservations
  OBVIOUS
<1>1. Len(message_buffer) = 0
  BY EmptySeq DEF Init
<1> QED
  BY <1>1, PushingFinite, BoundsAssumption DEF Reservations

(* A step that neither enlarges the buffer nor admits a reporter.          *)
LEMMA FrameReservations ==
  ASSUME Reservations, Pushing' = Pushing,
         Len(message_buffer) \in Nat, Len(message_buffer') \in Nat,
         Len(message_buffer') <= Len(message_buffer)
  PROVE  Reservations'
  BY PushingFinite, BoundsAssumption DEF Reservations

LEMMA NextReservations ==
  TypeOK /\ TypeOK' /\ Reservations /\ [Next]_vars => Reservations'
<1> SUFFICES ASSUME TypeOK, TypeOK', Reservations, [Next]_vars
             PROVE  Reservations'
  OBVIOUS
<1> USE ThreadsAssumption DEF TypeOK, Threads
<1>0. Len(message_buffer) \in Nat /\ Len(message_buffer') \in Nat
  BY LenProperties
<1>1. CASE ConstructorStart
  <2>1. Pushing' = Pushing /\ message_buffer' = message_buffer
    BY <1>1 DEF Pushing, ConstructorStart, StartCall, clientVars, statVars,
        histVars
  <2> QED
    BY <2>1, FrameReservations, <1>0
<1>2. CASE ConstructorAssign
  <2>1. Pushing' = Pushing /\ message_buffer' = message_buffer
    BY <1>2 DEF Pushing, ConstructorAssign, statVars, grpcVars, histVars
  <2> QED
    BY <2>1, FrameReservations, <1>0
<1>3. ASSUME NEW r \in Reporters, SendMessage(r) PROVE Reservations'
  <2>1. message_buffer' = message_buffer
    BY <1>3 DEF SendMessage, clientVars
  <2>2. CASE Len(message_buffer) > MaxPendingMessagesSize
    <3>1. Pushing' = Pushing
      BY <1>3, <2>2, BoundsAssumption DEF Pushing, SendMessage, Goto
    <3> QED
      BY <2>1, <3>1, FrameReservations, <1>0
  <2>3. CASE Len(message_buffer) <= MaxPendingMessagesSize
    <3>1. /\ Cardinality(Pushing') <= Cardinality(Reporters)
          /\ Cardinality(Pushing') \in Nat /\ Cardinality(Reporters) \in Nat
      BY ThreadsAssumption, FS_Subset, FS_CardinalityType DEF Pushing
    <3> QED
      BY <1>0, <2>1, <2>3, <3>1, BoundsAssumption DEF Reservations
  <2> QED
    BY <1>0, <2>2, <2>3, BoundsAssumption
<1>4. ASSUME NEW r \in Reporters, PushBack(r) PROVE Reservations'
  <2>1. /\ pc[r] = "push" /\ pc' = [pc EXCEPT ![r] = "exchange"]
        /\ message_buffer' = Append(message_buffer, msg[r])
    BY <1>4 DEF PushBack, Goto
  <2>2. Len(message_buffer') = Len(message_buffer) + 1
    BY <2>1, AppendProperties DEF TypeOK, Messages, NoMessage
  <2>3. r \in Pushing /\ Pushing' = Pushing \ {r}
    BY <2>1 DEF Pushing, TypeOK, Threads
  <2>4. Cardinality(Pushing') = Cardinality(Pushing) - 1
    BY <2>3, PushingFinite, FS_RemoveElement
  <2> QED
    <3>1. Cardinality(Pushing) \in Nat /\ Cardinality(Reporters) \in Nat
      BY PushingFinite
    <3>2. Len(message_buffer') + Cardinality(Pushing')
            = Len(message_buffer) + Cardinality(Pushing)
      <4> HIDE DEF TypeOK
      <4> QED
        BY <1>0, <2>2, <2>4, <3>1
    <3> QED
      BY <3>2, Zenon DEF Reservations
<1>5. ASSUME NEW t \in Threads, CompareExchange(t) PROVE Reservations'
  <2>1. Pushing' = Pushing /\ message_buffer' = message_buffer
    BY <1>5 DEF Pushing, CompareExchange, Goto, statVars, grpcVars, histVars
  <2> QED
    BY <2>1, FrameReservations, <1>0
<1>6. ASSUME NEW t \in Threads, PopFront(t) PROVE Reservations'
  <2>1. Pushing' = Pushing
    BY <1>6 DEF Pushing, PopFront, Goto
  <2>2. CASE message_buffer = <<>>
    BY <1>6, <2>1, <2>2, FrameReservations, <1>0 DEF PopFront
  <2>3. CASE message_buffer # <<>>
    <3>1. Len(message_buffer') = Len(message_buffer) - 1
      BY <1>0, <1>6, <2>3, HeadTailProperties DEF PopFront, TypeOK
    <3> QED
      BY <2>1, <3>1, FrameReservations, <1>0
  <2> QED
    BY <2>2, <2>3
<1>7. ASSUME NEW t \in Threads, MarkEventLoopIdle(t) PROVE Reservations'
  <2>1. Pushing' = Pushing /\ message_buffer' = message_buffer
    BY <1>7 DEF Pushing, MarkEventLoopIdle, Goto, statVars, grpcVars, histVars
  <2> QED
    BY <2>1, FrameReservations, <1>0
<1>8. ASSUME NEW t \in Threads, Write(t) PROVE Reservations'
  <2>1. Pushing' = Pushing /\ message_buffer' = message_buffer
    BY <1>8 DEF Pushing, Write, Goto, clientVars, statVars
  <2> QED
    BY <2>1, FrameReservations, <1>0
<1>9. ASSUME NEW t \in Threads, OperationAfterShutdown(t) PROVE Reservations'
  <2>1. Pushing' = Pushing /\ message_buffer' = message_buffer
    BY <1>9 DEF Pushing, OperationAfterShutdown, clientVars, statVars, histVars
  <2> QED
    BY <2>1, FrameReservations, <1>0
<1>10. ASSUME NEW o \in cq, NEW ok \in BOOLEAN, Complete(o, ok)
       PROVE  Reservations'
  <2>1. Pushing' = Pushing /\ message_buffer' = message_buffer
    BY <1>10 DEF Pushing, Complete, clientVars, statVars, histVars
  <2> QED
    BY <2>1, FrameReservations, <1>0
<1>11. ASSUME NEW o \in cq, NextEvent(o) PROVE Reservations'
  <2>1. Pushing' = Pushing /\ message_buffer' = message_buffer
    BY <1>11 DEF Pushing, NextEvent, Goto, clientVars, histVars
  <2> QED
    BY <2>1, FrameReservations, <1>0
<1>12. CASE NextDrained
  <2>1. Pushing' = Pushing /\ message_buffer' = message_buffer
    BY <1>12 DEF Pushing, NextDrained, Goto, clientVars, statVars, grpcVars,
        histVars
  <2> QED
    BY <2>1, FrameReservations, <1>0
<1>13. CASE CheckReset
  <2>1. Pushing' = Pushing /\ message_buffer' = message_buffer
    BY <1>13 DEF Pushing, CheckReset, Goto, clientVars, statVars, grpcVars,
        histVars
  <2> QED
    BY <2>1, FrameReservations, <1>0
<1>14. CASE StreamReady
  <2>1. Pushing' = Pushing /\ message_buffer' = message_buffer
    BY <1>14 DEF Pushing, StreamReady, Goto, statVars, grpcVars, histVars
  <2> QED
    BY <2>1, FrameReservations, <1>0
<1>15. CASE StartStream
  <2>1. Pushing' = Pushing /\ message_buffer' = message_buffer
    BY <1>15 DEF Pushing, StartStream, Goto, StartCall, statVars, histVars
  <2> QED
    BY <2>1, FrameReservations, <1>0
<1>16. CASE ResetClient
  <2>1. Pushing' = Pushing /\ message_buffer' = message_buffer
    BY <1>16 DEF Pushing, ResetClient, statVars, grpcVars, histVars
  <2> QED
    BY <2>1, FrameReservations, <1>0
<1>17. CASE ClearBuffer
  <2>1. Pushing' = Pushing /\ message_buffer' = <<>>
    BY <1>17 DEF Pushing, ClearBuffer
  <2> QED
    BY <2>1, EmptySeq, FrameReservations, <1>0
<1>18. CASE Shutdown
  <2>1. Pushing' = Pushing /\ message_buffer' = message_buffer
    BY <1>18 DEF Pushing, Shutdown, clientVars, statVars, histVars
  <2> QED
    BY <2>1, FrameReservations, <1>0
<1>19. CASE Join
  <2>1. Pushing' = Pushing /\ message_buffer' = message_buffer
    BY <1>19 DEF Pushing, Join, clientVars, statVars, grpcVars, histVars
  <2> QED
    BY <2>1, FrameReservations, <1>0
<1>20. CASE ResetStream
  <2>1. Pushing' = Pushing /\ message_buffer' = message_buffer
    BY <1>20 DEF Pushing, ResetStream, statVars, grpcVars, histVars
  <2> QED
    BY <2>1, FrameReservations, <1>0
<1>21. CASE UNCHANGED vars
  <2>1. Pushing' = Pushing /\ message_buffer' = message_buffer
    BY <1>21 DEF Pushing, vars, clientVars
  <2> QED
    BY <2>1, FrameReservations, <1>0
<1> QED
  BY <1>1, <1>2, <1>3, <1>4, <1>5, <1>6, <1>7, <1>8, <1>9, <1>10, <1>11,
      <1>12, <1>13, <1>14, <1>15, <1>16, <1>17, <1>18, <1>19, <1>20, <1>21 DEF
      Next, Terminated, SendMessageOnce, Gogo, Reset

(* The backlog overshoots MaxPendingMessagesSize by at most the number of  *)
(* reporters, for every threshold and every number of reporters.           *)
THEOREM BoundedBuffer == Spec => []BufferBound
<1>1. TypeOK /\ Reservations => BufferBound
  <2> SUFFICES ASSUME TypeOK, Reservations PROVE BufferBound
    OBVIOUS
  <2>1. Len(message_buffer) \in Nat
    BY LenProperties DEF TypeOK
  <2> QED
    BY <2>1, PushingFinite, BoundsAssumption DEF Reservations, BufferBound
<1> QED
  BY <1>1, TypeCorrect, InitReservations, NextReservations, PTL DEF Spec

-----------------------------------------------------------------------------
(* The client as a queue.                                                  *)

WriteInFlight == \E o \in cq : o.tag = "write"

ClientInv == IndInv /\ OneStreamUser /\ Reservations

(* What the first half proves, together.                                   *)
LEMMA ClientInvariant == Spec => []ClientInv
<1>1. IndInv => TypeOK
  BY DEF IndInv
<1> QED
  BY <1>1, InitIndInv, NextIndInv, InitOneStreamUser, NextOneStreamUser,
     InitReservations, NextReservations, PTL DEF Spec, ClientInv

-----------------------------------------------------------------------------
(* The steps of a queue.                                                   *)

SameQueue  == UNCHANGED <<accepted, wire, InHand, message_buffer>>
SameStatus == /\ BufferCleared' <=> BufferCleared
              /\ WriteInFlight' <=> WriteInFlight

Quiet == SameQueue /\ SameStatus /\ Pushing' = Pushing /\ UNCHANGED statVars

(* sendMessage finds the buffer full, or is let in.                        *)
Refused ==
  /\ Len(message_buffer) > MaxPendingMessagesSize /\ ~BufferCleared
  /\ messages_total' = messages_total + 1
  /\ messages_dropped' = messages_dropped + 1
  /\ SameQueue /\ SameStatus /\ Pushing' = Pushing /\ UNCHANGED messages_sent

Admitted ==
  /\ \E r \in Reporters \ Pushing : Pushing' = Pushing \cup {r}
  /\ messages_total' = messages_total + 1
  /\ SameQueue /\ SameStatus /\ UNCHANGED <<messages_dropped, messages_sent>>

Pushed ==
  /\ ~BufferCleared
  /\ \E r \in Pushing : Pushing' = Pushing \ {r}
  /\ \E m \in Messages : /\ message_buffer' = Append(message_buffer, m)
                         /\ accepted' = Append(accepted, m)
  /\ SameStatus /\ UNCHANGED <<wire, InHand>> /\ UNCHANGED statVars

Popped ==
  /\ InHand = <<>> /\ message_buffer # <<>>
  /\ InHand' = <<Head(message_buffer)>>
  /\ message_buffer' = Tail(message_buffer)
  /\ SameStatus /\ Pushing' = Pushing
  /\ UNCHANGED <<accepted, wire>> /\ UNCHANGED statVars

Written ==
  /\ \E m \in Messages : InHand = <<m>> /\ wire' = Append(wire, m)
  /\ InHand' = <<>>
  /\ ~WriteInFlight /\ WriteInFlight'
  /\ BufferCleared' <=> BufferCleared
  /\ Pushing' = Pushing
  /\ UNCHANGED <<accepted, message_buffer>> /\ UNCHANGED statVars

(* A write has come back, and one of the two counters goes up.             *)
Counted ==
  /\ WriteInFlight /\ ~WriteInFlight'
  /\ \/ messages_sent' = messages_sent + 1 /\ UNCHANGED messages_dropped
     \/ messages_dropped' = messages_dropped + 1 /\ UNCHANGED messages_sent
  /\ BufferCleared' <=> BufferCleared
  /\ SameQueue /\ Pushing' = Pushing /\ UNCHANGED messages_total

Cleared ==
  /\ ~BufferCleared /\ BufferCleared'
  /\ message_buffer' = <<>>
  /\ WriteInFlight' <=> WriteInFlight
  /\ Pushing' = Pushing
  /\ UNCHANGED <<accepted, wire, InHand>> /\ UNCHANGED statVars

QueueStep == \/ Quiet \/ Refused \/ Admitted \/ Pushed \/ Popped \/ Written
             \/ Counted \/ Cleared

-----------------------------------------------------------------------------
(* The message in hand. Only the thread with the stream has one.           *)

LEMMA InHandOfWriter ==
  ASSUME OneStreamUser, NEW t \in Threads, pc[t] = "write"
  PROVE  InHand = <<msg[t]>>
<1>1. \A u \in Threads : pc[u] = "write" => u = t
  BY DEF OneStreamUser, Holding, StreamPc
<1>2. (CHOOSE u \in Threads : pc[u] = "write") = t
  BY <1>1
<1> QED
  BY <1>2 DEF InHand

LEMMA InHandOfNobody ==
  ASSUME \A t \in Threads : pc[t] # "write"
  PROVE  InHand = <<>>
BY DEF InHand

LEMMA InHandType ==
  ASSUME TypeOK, OneStreamUser
  PROVE  /\ InHand \in Seq(Messages)
         /\ Len(InHand) \in {0, 1}
<1>1. CASE \E t \in Threads : pc[t] = "write"
  <2>1. PICK t \in Threads : pc[t] = "write"
    BY <1>1
  <2>2. InHand = <<msg[t]>> /\ msg[t] \in Messages
    BY <2>1, InHandOfWriter DEF TypeOK, NoMessage
  <2> QED
    BY <2>2
<1>2. CASE \A t \in Threads : pc[t] # "write"
  BY <1>2, InHandOfNobody, EmptySeq
<1> QED
  BY <1>1, <1>2

(* A step of a thread that neither takes a message nor gives one away.     *)
LEMMA InHandKept ==
  ASSUME OneStreamUser, OneStreamUser',
         \A t \in Threads : pc[t] = "write" <=> pc'[t] = "write",
         \A t \in Threads : pc[t] = "write" => msg'[t] = msg[t]
  PROVE  InHand' = InHand
<1>1. CASE \E t \in Threads : pc[t] = "write"
  <2>1. PICK t \in Threads : pc[t] = "write"
    BY <1>1
  <2>2. InHand = <<msg[t]>>
    BY <2>1, InHandOfWriter
  <2>3. \A u \in Threads : pc'[u] = "write" => u = t
    BY <2>1 DEF OneStreamUser, Holding, StreamPc
  <2>4. (CHOOSE u \in Threads : pc'[u] = "write") = t
    BY <2>1, <2>3
  <2>5. InHand' = <<msg'[t]>>
    BY <2>1, <2>4 DEF InHand
  <2> QED
    BY <2>1, <2>2, <2>5
<1>2. CASE \A t \in Threads : pc[t] # "write"
  BY <1>2 DEF InHand
<1> QED
  BY <1>1, <1>2

-----------------------------------------------------------------------------
(* Every step of the client is a step of a queue.                          *)

(* A step that leaves buffer, histories, operations and statistics alone   *)
(* and moves threads between places where they have no message.            *)
LEMMA QuietStep ==
  ASSUME OneStreamUser, OneStreamUser',
         UNCHANGED <<accepted, wire, message_buffer>>, UNCHANGED statVars,
         BufferCleared' <=> BufferCleared, WriteInFlight' <=> WriteInFlight,
         \A t \in Threads : pc[t] = "write" <=> pc'[t] = "write",
         \A t \in Threads : pc[t] = "push" <=> pc'[t] = "push",
         \A t \in Threads : pc[t] = "write" => msg'[t] = msg[t]
  PROVE  Quiet
<1>1. InHand' = InHand
  BY InHandKept
<1>2. Pushing' = Pushing
  BY DEF Pushing, Threads
<1> QED
  BY <1>1, <1>2 DEF Quiet, SameQueue, SameStatus

LEMMA StepIsQueueStep ==
  ASSUME ClientInv, ClientInv', [Next]_vars
  PROVE  QueueStep
<1>0. /\ TypeOK /\ TypeOK' /\ OneStreamUser /\ OneStreamUser' /\ Lifecycle
      /\ EventLoop \in Threads /\ Reporters \subseteq Threads
  BY DEF ClientInv, IndInv, Threads
<1> USE DEF BufferCleared
<1>1. CASE ConstructorStart
  <2>1. WriteInFlight' <=> WriteInFlight
    BY <1>1 DEF ConstructorStart, StartCall, WriteInFlight
  <2>2. Quiet
    BY <1>0, <1>1, <2>1, QuietStep
       DEF ConstructorStart, clientVars, statVars, histVars
  <2> QED
    BY <2>2 DEF QueueStep
<1>2. CASE ConstructorAssign
  <2>1. Quiet
    BY <1>0, <1>2, QuietStep
       DEF ConstructorAssign, statVars, grpcVars, histVars, WriteInFlight
  <2> QED
    BY <2>1 DEF QueueStep
<1>3. ASSUME NEW r \in Reporters, SendMessage(r) PROVE QueueStep
  <2>1. /\ owner = "running" /\ pc[r] = "ready"
        /\ messages_total' = messages_total + 1
        /\ UNCHANGED <<message_buffer, messages_sent, owner, cq, accepted, wire>>
    BY <1>3 DEF SendMessage, Goto, clientVars, grpcVars, histVars
  <2>2. ASSUME pc' = [pc EXCEPT ![r] = "push"] \/ pc' = pc,
               \A u \in Threads \ {r} : msg'[u] = msg[u]
        PROVE  InHand' = InHand
    BY <1>0, <2>1, <2>2, InHandKept DEF TypeOK
  <2>3. CASE Len(message_buffer) > MaxPendingMessagesSize
    <3>1. /\ messages_dropped' = messages_dropped + 1 /\ pc' = pc /\ msg' = msg
      BY <1>0, <1>3, <2>3, LenProperties, BoundsAssumption
         DEF SendMessage, TypeOK
    <3>2. Refused
      BY <2>1, <2>2, <2>3, <3>1
         DEF Refused, SameQueue, SameStatus, Pushing, WriteInFlight
    <3> QED
      BY <3>2 DEF QueueStep
  <2>4. CASE ~(Len(message_buffer) > MaxPendingMessagesSize)
    <3>1. /\ pc' = [pc EXCEPT ![r] = "push"] /\ UNCHANGED messages_dropped
          /\ msg' = [msg EXCEPT ![r] = messages_total + 1]
      BY <1>3, <2>4 DEF SendMessage, Goto
    <3>2. InHand' = InHand
      BY <1>0, <2>2, <3>1 DEF TypeOK
    <3>3. r \in Reporters \ Pushing /\ Pushing' = Pushing \cup {r}
      BY <1>0, <2>1, <3>1 DEF Pushing, TypeOK
    <3>4. Admitted
      BY <2>1, <3>1, <3>2, <3>3
         DEF Admitted, SameQueue, SameStatus, WriteInFlight
    <3> QED
      BY <3>4 DEF QueueStep
  <2> QED
    BY <2>3, <2>4
<1>4. ASSUME NEW r \in Reporters, PushBack(r) PROVE QueueStep
  <2>1. /\ pc[r] = "push" /\ pc' = [pc EXCEPT ![r] = "exchange"]
        /\ message_buffer' = Append(message_buffer, msg[r])
        /\ accepted' = Append(accepted, msg[r])
        /\ msg' = [msg EXCEPT ![r] = NoMessage]
        /\ UNCHANGED <<owner, cq, wire>> /\ UNCHANGED statVars
    BY <1>4 DEF PushBack, Goto, grpcVars
  <2>2. msg[r] \in Messages
    BY <1>0, <2>1 DEF TypeOK
  <2>3. r \in Pushing /\ Pushing' = Pushing \ {r}
    BY <1>0, <2>1 DEF Pushing, TypeOK
  <2>4. InHand' = InHand
    BY <1>0, <2>1, InHandKept DEF TypeOK
  <2>5. ~BufferCleared
    BY <1>0, <2>1 DEF Lifecycle
  <2>6. Pushed
    BY <2>1, <2>2, <2>3, <2>4, <2>5 DEF Pushed, SameStatus, WriteInFlight
  <2> QED
    BY <2>6 DEF QueueStep
<1>5. ASSUME NEW t \in Threads, CompareExchange(t) PROVE QueueStep
  <2>1. Quiet
    BY <1>0, <1>5, QuietStep
       DEF CompareExchange, Goto, TypeOK, statVars, grpcVars, histVars,
           WriteInFlight
  <2> QED
    BY <2>1 DEF QueueStep
<1>6. ASSUME NEW t \in Threads, PopFront(t) PROVE QueueStep
  <2>1. /\ pc[t] = "pop"
        /\ UNCHANGED <<owner, cq, accepted, wire>> /\ UNCHANGED statVars
    BY <1>6 DEF PopFront, Goto, grpcVars, histVars
  <2>2. CASE message_buffer = <<>>
    <3>1. Quiet
      BY <1>0, <1>6, <2>1, <2>2, QuietStep
         DEF PopFront, Goto, TypeOK, WriteInFlight
    <3> QED
      BY <3>1 DEF QueueStep
  <2>3. CASE message_buffer # <<>>
    <3>1. /\ pc' = [pc EXCEPT ![t] = "write"]
          /\ message_buffer' = Tail(message_buffer)
          /\ msg' = [msg EXCEPT ![t] = Head(message_buffer)]
      BY <1>6, <2>3 DEF PopFront, Goto
    <3>2. \A u \in Threads : pc[u] # "write"
      BY <1>0, <2>1 DEF OneStreamUser, Holding, StreamPc
    <3>3. InHand = <<>>
      BY <3>2, InHandOfNobody
    <3>4. InHand' = <<Head(message_buffer)>>
      <4>1. /\ pc'[t] = "write" /\ msg'[t] = Head(message_buffer)
            /\ \A u \in Threads : pc'[u] = "write" => u = t
        BY <1>0, <3>1, <3>2 DEF TypeOK
      <4>2. (CHOOSE u \in Threads : pc'[u] = "write") = t
        BY <4>1
      <4> QED
        BY <4>1, <4>2 DEF InHand
    <3>5. Pushing' = Pushing
      BY <1>0, <2>1, <3>1 DEF Pushing, TypeOK
    <3>6. Popped
      BY <2>1, <2>3, <3>1, <3>3, <3>4, <3>5
         DEF Popped, SameStatus, WriteInFlight
    <3> QED
      BY <3>6 DEF QueueStep
  <2> QED
    BY <2>2, <2>3
<1>7. ASSUME NEW t \in Threads, MarkEventLoopIdle(t) PROVE QueueStep
  <2>1. Quiet
    BY <1>0, <1>7, QuietStep
       DEF MarkEventLoopIdle, Goto, TypeOK, statVars, grpcVars, histVars,
           WriteInFlight
  <2> QED
    BY <2>1 DEF QueueStep
<1>8. ASSUME NEW t \in Threads, Write(t) PROVE QueueStep
  <2> DEFINE op == [tag |-> "write", stream |-> active_stream,
                    message |-> msg[t], status |-> "pending"]
  <2>1. /\ pc[t] = "write" /\ pc' = [pc EXCEPT ![t] = "ready"]
        /\ cq' = cq \cup {op}
        /\ wire' = Append(wire, msg[t])
        /\ UNCHANGED <<message_buffer, owner, accepted>> /\ UNCHANGED statVars
    BY <1>8 DEF Write, Goto, clientVars
  <2>2. msg[t] \in Messages /\ InHand = <<msg[t]>>
    BY <1>0, <2>1, InHandOfWriter DEF TypeOK
  <2>3. cq = {} /\ \A u \in Threads : pc[u] = "write" => u = t
    BY <1>0, <2>1 DEF OneStreamUser, Holding, StreamPc
  <2>4. InHand' = <<>>
    BY <1>0, <2>1, <2>3 DEF InHand, TypeOK
  <2>5. ~WriteInFlight /\ WriteInFlight'
    <3>1. op \in cq' /\ op.tag = "write"
      BY <2>1
    <3> QED
      BY <2>3, <3>1 DEF WriteInFlight
  <2>6. Pushing' = Pushing
    BY <1>0, <2>1 DEF Pushing, TypeOK
  <2>7. Written
    BY <2>1, <2>2, <2>4, <2>5, <2>6 DEF Written
  <2> QED
    BY <2>7 DEF QueueStep
<1>9. ASSUME NEW t \in Threads, OperationAfterShutdown(t) PROVE QueueStep
  <2>1. Quiet
    BY <1>0, <1>9, QuietStep
       DEF OperationAfterShutdown, clientVars, statVars, histVars, WriteInFlight
  <2> QED
    BY <2>1 DEF QueueStep
<1>10. ASSUME NEW o \in cq, NEW ok \in BOOLEAN, Complete(o, ok)
       PROVE  QueueStep
  <2>1. WriteInFlight' <=> WriteInFlight
    <3> DEFINE p == [o EXCEPT !.status = IF ok THEN "ok" ELSE "failed"]
    <3>1. cq = {o} /\ cq' = {p}
      BY <1>0, <1>10 DEF Complete, OneStreamUser
    <3>2. p.tag = o.tag
      BY <1>0 DEF TypeOK, Operation
    <3> QED
      BY <3>1, <3>2 DEF WriteInFlight
  <2>2. Quiet
    BY <1>0, <1>10, <2>1, QuietStep DEF Complete, clientVars, statVars, histVars
  <2> QED
    BY <2>2 DEF QueueStep
<1>11. ASSUME NEW o \in cq, NextEvent(o) PROVE QueueStep
  <2>1. /\ cq = {o} /\ cq' = {}
        /\ o.tag \in {"basic", "write"} /\ o.status \in {"ok", "failed"}
    BY <1>0, <1>11 DEF NextEvent, OneStreamUser, TypeOK, Operation
  <2>2. /\ pc[EventLoop] = "ready"
        /\ pc' = [pc EXCEPT ![EventLoop] =
                    IF o.status = "ok" THEN "ok_event" ELSE "failed_event"]
        /\ UNCHANGED <<message_buffer, messages_total, msg, owner, accepted, wire>>
    BY <1>11 DEF NextEvent, Goto, clientVars, histVars
  <2>3. InHand' = InHand /\ Pushing' = Pushing
    <3>1. \A t \in Threads : /\ pc[t] = "write" <=> pc'[t] = "write"
                             /\ pc[t] = "push" <=> pc'[t] = "push"
      BY <1>0, <2>2 DEF TypeOK
    <3> QED
      BY <1>0, <2>2, <3>1, InHandKept DEF Pushing
  <2>4. CASE o.tag = "basic"
    <3>1. UNCHANGED statVars
      BY <1>0, <1>11, <2>2, <2>4 DEF NextEvent, statVars, TypeOK
    <3>2. Quiet
      BY <2>1, <2>2, <2>3, <2>4, <3>1
         DEF Quiet, SameQueue, SameStatus, WriteInFlight
    <3> QED
      BY <3>2 DEF QueueStep
  <2>5. CASE o.tag = "write"
    <3>1. \/ messages_sent' = messages_sent + 1 /\ UNCHANGED messages_dropped
          \/ messages_dropped' = messages_dropped + 1 /\ UNCHANGED messages_sent
      BY <1>0, <1>11, <2>1, <2>5 DEF NextEvent, TypeOK
    <3>2. Counted
      BY <2>1, <2>2, <2>3, <2>5, <3>1 DEF Counted, SameQueue, WriteInFlight
    <3> QED
      BY <3>2 DEF QueueStep
  <2> QED
    BY <2>1, <2>4, <2>5
<1>12. CASE NextDrained
  <2>1. Quiet
    BY <1>0, <1>12, QuietStep
       DEF NextDrained, Goto, TypeOK, clientVars, statVars, grpcVars, histVars,
           WriteInFlight
  <2> QED
    BY <2>1 DEF QueueStep
<1>13. CASE CheckReset
  <2>1. Quiet
    BY <1>0, <1>13, QuietStep
       DEF CheckReset, Goto, TypeOK, clientVars, statVars, grpcVars, histVars,
           WriteInFlight
  <2> QED
    BY <2>1 DEF QueueStep
<1>14. CASE StreamReady
  <2>1. Quiet
    BY <1>0, <1>14, QuietStep
       DEF StreamReady, Goto, TypeOK, statVars, grpcVars, histVars, WriteInFlight
  <2> QED
    BY <2>1 DEF QueueStep
<1>15. CASE StartStream
  <2>1. WriteInFlight' <=> WriteInFlight
    BY <1>15 DEF StartStream, StartCall, WriteInFlight
  <2>2. Quiet
    BY <1>0, <1>15, <2>1, QuietStep
       DEF StartStream, Goto, TypeOK, statVars, histVars
  <2> QED
    BY <2>2 DEF QueueStep
<1>16. CASE ResetClient
  <2>1. Quiet
    BY <1>0, <1>16, QuietStep
       DEF ResetClient, statVars, grpcVars, histVars, WriteInFlight
  <2> QED
    BY <2>1 DEF QueueStep
<1>17. CASE ClearBuffer
  <2>1. Cleared
    BY <1>17 DEF ClearBuffer, Cleared, InHand, Pushing, statVars, grpcVars,
                 histVars, WriteInFlight
  <2> QED
    BY <2>1 DEF QueueStep
<1>18. CASE Shutdown
  <2>1. Quiet
    BY <1>0, <1>18, QuietStep
       DEF Shutdown, clientVars, statVars, histVars, WriteInFlight
  <2> QED
    BY <2>1 DEF QueueStep
<1>19. CASE Join
  <2>1. Quiet
    BY <1>0, <1>19, QuietStep
       DEF Join, clientVars, statVars, grpcVars, histVars, WriteInFlight
  <2> QED
    BY <2>1 DEF QueueStep
<1>20. CASE ResetStream
  <2>1. Quiet
    BY <1>0, <1>20, QuietStep
       DEF ResetStream, statVars, grpcVars, histVars, WriteInFlight
  <2> QED
    BY <2>1 DEF QueueStep
<1>21. CASE UNCHANGED vars
  <2>1. Quiet
    BY <1>0, <1>21, QuietStep
       DEF vars, clientVars, statVars, grpcVars, histVars, WriteInFlight
  <2> QED
    BY <2>1 DEF QueueStep
<1> QED
  BY <1>1, <1>2, <1>3, <1>4, <1>5, <1>6, <1>7, <1>8, <1>9, <1>10, <1>11,
     <1>12, <1>13, <1>14, <1>15, <1>16, <1>17, <1>18, <1>19, <1>20, <1>21
  DEF Next, Terminated, SendMessageOnce, Gogo, Reset

-----------------------------------------------------------------------------
(* Order on the wire. WireInOrder is inductive over the steps of a queue,  *)
(* together with the fact that nothing is pushed after message_buffer_     *)
(* was cleared.                                                            *)

NothingAfterClear == BufferCleared => message_buffer = <<>>

(* What the sequences of the queue hold.                                   *)
LEMMA QueueTypes ==
  ASSUME ClientInv
  PROVE  /\ accepted \in Seq(Messages) /\ wire \in Seq(Messages)
         /\ InHand \in Seq(Messages) /\ message_buffer \in Seq(Messages)
         /\ Len(InHand) \in {0, 1} /\ Len(message_buffer) \in Nat
         /\ wire \o InHand \in Seq(Messages)
BY InHandType, ConcatProperties, LenProperties DEF ClientInv, IndInv, TypeOK

LEMMA ConcatIsPrefix ==
  ASSUME NEW S, NEW s \in Seq(S), NEW t \in Seq(S)
  PROVE  IsPrefixOf(s, s \o t)
BY ConcatProperties, LenProperties DEF IsPrefixOf

(* Moving the head of the buffer to the hand, and the hand to the wire.    *)
LEMMA HeadAndTail ==
  ASSUME NEW S, NEW s \in Seq(S), s # <<>>
  PROVE  s = <<Head(s)>> \o Tail(s)
<1>1. Len(s) \in Nat \ {0} /\ Head(s) = s[1] /\ Head(s) \in S
  BY EmptySeq, HeadTailProperties
<1>2. SubSeq(s, 1, Len(s)) = <<s[1]>> \o SubSeq(s, 2, Len(s))
  BY <1>1, SubSeqRecursiveFirst
<1> QED
  BY <1>1, <1>2, SubSeqFull, TailIsSubSeq

LEMMA StepWireInOrder ==
  ASSUME ClientInv, WireInOrder, NothingAfterClear, QueueStep
  PROVE  WireInOrder'
<1>1. /\ accepted \in Seq(Messages) /\ wire \in Seq(Messages)
      /\ InHand \in Seq(Messages) /\ message_buffer \in Seq(Messages)
      /\ wire \o InHand \in Seq(Messages)
  BY QueueTypes
<1>2. CASE Quiet \/ Refused \/ Admitted \/ Counted
  BY <1>2 DEF Quiet, Refused, Admitted, Counted, SameQueue, SameStatus,
              WireInOrder
<1>3. CASE Pushed
  <2>1. PICK m \in Messages : /\ message_buffer' = Append(message_buffer, m)
                              /\ accepted' = Append(accepted, m)
    BY <1>3 DEF Pushed
  <2>2. /\ UNCHANGED <<wire, InHand>> /\ ~BufferCleared /\ ~BufferCleared'
    BY <1>3 DEF Pushed, SameStatus
  <2>3. accepted = (wire \o InHand) \o message_buffer
    BY <2>2 DEF WireInOrder
  <2>4. <<m>> \in Seq(Messages)
    OBVIOUS
  <2>5. accepted' = ((wire \o InHand) \o message_buffer) \o <<m>>
    BY <1>1, <2>1, <2>3, AppendIsConcat
  <2>6. message_buffer' = message_buffer \o <<m>>
    BY <1>1, <2>1, AppendIsConcat
  <2>7. accepted' = (wire \o InHand) \o message_buffer'
    <3>1. \A q \in Seq(Messages) :
            (q \o message_buffer) \o <<m>> = q \o (message_buffer \o <<m>>)
      BY <1>1, <2>4, ConcatAssociative
    <3> QED
      BY <1>1, <2>5, <2>6, <3>1, Zenon
  <2> QED
    BY <2>2, <2>7 DEF WireInOrder
<1>4. CASE Popped
  <2>1. /\ InHand = <<>> /\ InHand' = <<Head(message_buffer)>>
        /\ message_buffer # <<>> /\ message_buffer' = Tail(message_buffer)
        /\ UNCHANGED <<accepted, wire>> /\ (BufferCleared' <=> BufferCleared)
    BY <1>4 DEF Popped, SameStatus
  <2>2. /\ message_buffer = InHand' \o message_buffer'
        /\ InHand' \in Seq(Messages) /\ message_buffer' \in Seq(Messages)
    BY <1>1, <2>1, HeadAndTail, HeadTailProperties
  <2>3. wire \o InHand = wire
    BY <1>1, <2>1, ConcatEmptySeq
  <2>4. ~BufferCleared
    BY <2>1 DEF NothingAfterClear
  <2>5. accepted' = (wire' \o InHand') \o message_buffer'
    BY <1>1, <2>1, <2>2, <2>3, <2>4, ConcatAssociative DEF WireInOrder
  <2> QED
    BY <2>1, <2>4, <2>5 DEF WireInOrder
<1>5. CASE Written
  <2>1. PICK m \in Messages : InHand = <<m>> /\ wire' = Append(wire, m)
    BY <1>5 DEF Written
  <2>2. /\ InHand' = <<>> /\ (BufferCleared' <=> BufferCleared)
        /\ UNCHANGED <<accepted, message_buffer>>
    BY <1>5 DEF Written
  <2>3. wire' \o InHand' = wire \o InHand
    BY <1>1, <2>1, <2>2, AppendIsConcat, AppendProperties, ConcatEmptySeq
  <2> QED
    BY <2>2, <2>3 DEF WireInOrder
<1>6. CASE Cleared
  <2>1. /\ ~BufferCleared /\ BufferCleared' /\ UNCHANGED <<accepted, wire, InHand>>
    BY <1>6 DEF Cleared
  <2>2. accepted = (wire \o InHand) \o message_buffer
    BY <2>1 DEF WireInOrder
  <2>3. IsPrefixOf(wire \o InHand, accepted)
    BY <1>1, <2>2, ConcatIsPrefix
  <2> QED
    BY <2>1, <2>3 DEF WireInOrder
<1> QED
  BY <1>2, <1>3, <1>4, <1>5, <1>6 DEF QueueStep

LEMMA StepNothingAfterClear ==
  ASSUME NothingAfterClear, QueueStep
  PROVE  NothingAfterClear'
BY DEF NothingAfterClear, QueueStep, Quiet, Refused, Admitted, Pushed, Popped,
       Written, Counted, Cleared, SameQueue, SameStatus

LEMMA InitQueue == Init => WireInOrder /\ NothingAfterClear
<1> SUFFICES ASSUME Init PROVE WireInOrder /\ NothingAfterClear
  OBVIOUS
<1>1. InHand = <<>>
  BY InHandOfNobody DEF Init
<1>2. ~BufferCleared
  BY DEF Init, BufferCleared
<1>3. <<>> \o <<>> \o <<>> = <<>>
  BY ConcatEmptySeq, EmptySeq
<1> QED
  BY <1>1, <1>2, <1>3 DEF Init, WireInOrder, NothingAfterClear

(* Messages are written once, in the order of push_back, with none left    *)
(* out, through every interleaving, failure and reconnect.                 *)
THEOREM WrittenInOrder == Spec => []WireInOrder
<1>1. /\ ClientInv /\ ClientInv' /\ WireInOrder /\ NothingAfterClear /\ [Next]_vars
      => WireInOrder' /\ NothingAfterClear'
  BY StepIsQueueStep, StepWireInOrder, StepNothingAfterClear
<1> QED
  BY <1>1, ClientInvariant, InitQueue, PTL DEF Spec

-----------------------------------------------------------------------------
(* Accounting. On the way is what is about to be pushed, in the buffer, in *)
(* a thread's hand or on the stream.                                       *)

InFlight == Cardinality({o \in cq : o.tag = "write"})

LEMMA InFlightIsOne ==
  ASSUME OneStreamUser
  PROVE  InFlight = IF WriteInFlight THEN 1 ELSE 0
<1>1. CASE WriteInFlight
  <2>1. PICK o \in cq : o.tag = "write"
    BY <1>1 DEF WriteInFlight
  <2>2. {p \in cq : p.tag = "write"} = {o}
    BY <2>1 DEF OneStreamUser
  <2> QED
    BY <1>1, <2>2, FS_Singleton DEF InFlight
<1>2. CASE ~WriteInFlight
  <2>1. {p \in cq : p.tag = "write"} = {}
    BY <1>2 DEF WriteInFlight
  <2> QED
    BY <1>2, <2>1, FS_EmptySet DEF InFlight
<1> QED
  BY <1>1, <1>2

OnTheirWay ==
  Cardinality(Pushing) + Len(message_buffer) + Len(InHand)
    + (IF WriteInFlight THEN 1 ELSE 0)

Balanced ==
  LET counted == messages_dropped + messages_sent
  IN  /\ ~BufferCleared => messages_total = counted + OnTheirWay
      /\ BufferCleared  => messages_total >= counted + OnTheirWay

LEMMA BalancedIsAccounting == OneStreamUser => (Balanced <=> Accounting)
BY InFlightIsOne DEF Balanced, Accounting, OnTheirWay, InFlight, Pushing

LEMMA StepBalanced ==
  ASSUME ClientInv, ClientInv', Balanced, QueueStep
  PROVE  Balanced'
<1>1. /\ Len(message_buffer) \in Nat /\ Len(InHand) \in Nat
      /\ messages_total \in Nat /\ messages_dropped \in Nat
      /\ messages_sent \in Nat
      /\ InHand \in Seq(Messages) /\ message_buffer \in Seq(Messages)
  BY QueueTypes, BoundsAssumption DEF ClientInv, IndInv, TypeOK
<1>2. IsFiniteSet(Pushing) /\ Cardinality(Pushing) \in Nat
  BY PushingFinite
<1>3. CASE Quiet
  BY <1>3 DEF Quiet, SameQueue, SameStatus, statVars, Balanced, OnTheirWay
<1>4. CASE Refused
  BY <1>1, <1>2, <1>4 DEF Refused, SameQueue, SameStatus, Balanced, OnTheirWay
<1>5. CASE Admitted
  <2>1. PICK r \in Reporters \ Pushing : Pushing' = Pushing \cup {r}
    BY <1>5 DEF Admitted
  <2>2. Cardinality(Pushing') = Cardinality(Pushing) + 1
    BY <1>2, <2>1, FS_AddElement
  <2>3. OnTheirWay' = OnTheirWay + 1
    BY <1>1, <1>2, <1>5, <2>2 DEF Admitted, SameQueue, SameStatus, OnTheirWay
  <2>4. OnTheirWay \in Nat
    BY <1>1, <1>2 DEF OnTheirWay
  <2> QED
    BY <1>1, <1>5, <2>3, <2>4 DEF Admitted, SameStatus, Balanced
<1>6. CASE Pushed
  <2>1. PICK r \in Pushing : Pushing' = Pushing \ {r}
    BY <1>6 DEF Pushed
  <2>2. Cardinality(Pushing') = Cardinality(Pushing) - 1
    BY <1>2, <2>1, FS_RemoveElement
  <2>3. Len(message_buffer') = Len(message_buffer) + 1
    BY <1>1, <1>6, AppendProperties DEF Pushed
  <2>4. OnTheirWay' = OnTheirWay
    BY <1>1, <1>2, <1>6, <2>2, <2>3 DEF Pushed, SameStatus, OnTheirWay
  <2> QED
    BY <1>6, <2>4 DEF Pushed, SameStatus, statVars, Balanced
<1>7. CASE Popped
  <2>1. Len(InHand) = 0 /\ Len(InHand') = 1
    BY <1>7 DEF Popped
  <2>2. Len(message_buffer') = Len(message_buffer) - 1
    BY <1>1, <1>7, HeadTailProperties DEF Popped
  <2>3. OnTheirWay' = OnTheirWay
    BY <1>1, <1>2, <1>7, <2>1, <2>2 DEF Popped, SameStatus, OnTheirWay
  <2> QED
    BY <1>7, <2>3 DEF Popped, SameStatus, statVars, Balanced
<1>8. CASE Written
  <2>1. Len(InHand) = 1 /\ Len(InHand') = 0
    BY <1>8 DEF Written
  <2>2. OnTheirWay' = OnTheirWay
    BY <1>1, <1>2, <1>8, <2>1 DEF Written, OnTheirWay
  <2> QED
    BY <1>8, <2>2 DEF Written, statVars, Balanced
<1>9. CASE Counted
  <2>1. OnTheirWay' = OnTheirWay - 1 /\ OnTheirWay \in Nat
    BY <1>1, <1>2, <1>9 DEF Counted, SameQueue, OnTheirWay
  <2>2. messages_dropped' + messages_sent' = messages_dropped + messages_sent + 1
    BY <1>1, <1>9 DEF Counted
  <2>3. messages_total' = messages_total /\ (BufferCleared' <=> BufferCleared)
    BY <1>9 DEF Counted
  <2>4. CASE BufferCleared
    <3>1. messages_total >= (messages_dropped + messages_sent) + OnTheirWay
      BY <2>4 DEF Balanced
    <3>2. messages_total' >= (messages_dropped' + messages_sent') + OnTheirWay'
      BY <1>1, <2>1, <2>2, <2>3, <3>1
    <3> QED
      BY <2>3, <2>4, <3>2 DEF Balanced
  <2>5. CASE ~BufferCleared
    <3>1. messages_total = (messages_dropped + messages_sent) + OnTheirWay
      BY <2>5 DEF Balanced
    <3>2. messages_total' = (messages_dropped' + messages_sent') + OnTheirWay'
      BY <1>1, <2>1, <2>2, <2>3, <3>1
    <3> QED
      BY <2>3, <2>5, <3>2 DEF Balanced
  <2> QED
    BY <2>4, <2>5
<1>10. CASE Cleared
  <2>1. Len(message_buffer') = 0
    BY <1>10, EmptySeq DEF Cleared
  <2>2. OnTheirWay' <= OnTheirWay /\ OnTheirWay \in Nat /\ OnTheirWay' \in Nat
    BY <1>1, <1>2, <1>10, <2>1 DEF Cleared, OnTheirWay
  <2>3. messages_total = (messages_dropped + messages_sent) + OnTheirWay
    BY <1>10 DEF Cleared, Balanced
  <2>4. messages_total' >= (messages_dropped' + messages_sent') + OnTheirWay'
    <3>1. \A t, c, a, b \in Nat : t = c + a /\ b <= a => t >= c + b
      OBVIOUS
    <3>2. messages_dropped + messages_sent \in Nat
      BY <1>1
    <3>3. messages_total >= (messages_dropped + messages_sent) + OnTheirWay'
      BY <1>1, <2>2, <2>3, <3>1, <3>2
    <3> QED
      BY <1>10, <3>3 DEF Cleared, statVars
  <2> QED
    BY <1>10, <2>4 DEF Cleared, Balanced
<1> QED
  BY <1>3, <1>4, <1>5, <1>6, <1>7, <1>8, <1>9, <1>10 DEF QueueStep

LEMMA InitBalanced == Init => Balanced
<1> SUFFICES ASSUME Init PROVE Balanced
  OBVIOUS
<1>1. InHand = <<>>
  BY InHandOfNobody DEF Init
<1>2. Pushing = {} /\ ~WriteInFlight
  BY DEF Init, Pushing, WriteInFlight, Threads
<1>3. OnTheirWay = 0
  BY <1>1, <1>2, FS_EmptySet, EmptySeq DEF Init, OnTheirWay
<1> QED
  BY <1>3 DEF Init, Balanced, BufferCleared

(* The statistics account for every call of sendMessage at every moment:   *)
(* what is neither sent nor dropped is still on its way, until resetClient *)
(* discards it.                                                            *)
THEOREM StatisticsAddUp == Spec => []Accounting
<1>1. ClientInv /\ ClientInv' /\ Balanced /\ [Next]_vars => Balanced'
  BY StepIsQueueStep, StepBalanced
<1>2. ClientInv /\ Balanced => Accounting
  BY BalancedIsAccounting DEF ClientInv
<1> QED
  BY <1>1, <1>2, ClientInvariant, InitBalanced, PTL DEF Spec

-----------------------------------------------------------------------------
(* The refinement. What a thread has in hand is the head of the backlog,   *)
(* so PopFront changes nothing that an observer of the reporter sees.      *)

Backlog == InHand \o message_buffer

LEMMA BacklogLength ==
  ASSUME TypeOK, OneStreamUser
  PROVE  /\ Backlog \in Seq(Messages)
         /\ Len(Backlog) = Len(InHand) + Len(message_buffer)
         /\ Len(InHand) \in {0, 1} /\ Len(message_buffer) \in Nat
BY InHandType, LenProperties, ConcatProperties DEF TypeOK, Backlog

LEMMA PushedIsAccept ==
  ASSUME ClientInv, ClientInv', Pushed
  PROVE  \E m \in Messages : Reporter!Accept(m)
<1>1. TypeOK /\ OneStreamUser /\ InHand \in Seq(Messages)
      /\ message_buffer \in Seq(Messages)
  BY InHandType DEF ClientInv, IndInv, TypeOK
<1>2. PICK m \in Messages : message_buffer' = Append(message_buffer, m)
  BY DEF Pushed
<1>3. (InHand \o message_buffer)' = Append(InHand \o message_buffer, m)
  <2>1. InHand' = InHand
    BY DEF Pushed
  <2>2. InHand \o Append(message_buffer, m) = Append(InHand \o message_buffer, m)
    BY <1>1
  <2> QED
    BY <1>2, <2>1, <2>2
<1>4. Len(message_buffer) < MaxPendingMessagesSize + Cardinality(Reporters)
  <2>1. Pushing # {}
    BY DEF Pushed
  <2>2. Cardinality(Pushing) \in Nat /\ Cardinality(Pushing) >= 1
    BY <2>1, PushingFinite, FS_EmptySet
  <2> QED
    BY <1>1, <2>2, FS_CardinalityType, LenProperties, ThreadsAssumption,
       BoundsAssumption DEF ClientInv, Reservations
<1>5. Len(InHand \o message_buffer)
        < MaxPendingMessagesSize + Cardinality(Reporters) + 1
  <2>1. /\ Len(InHand \o message_buffer) = Len(InHand) + Len(message_buffer)
        /\ Len(InHand) \in {0, 1} /\ Len(message_buffer) \in Nat
    BY <1>1, BacklogLength DEF Backlog
  <2>2. \A h \in {0, 1}, b, n, k \in Nat : b < n + k => h + b < n + k + 1
    OBVIOUS
  <2>3. Len(InHand) + Len(message_buffer)
          < MaxPendingMessagesSize + Cardinality(Reporters) + 1
    BY <1>4, <2>1, <2>2, PushingFinite, BoundsAssumption
  <2> QED
    BY <2>1, <2>3
<1>6. Reporter!Accept(m)
  BY <1>3, <1>5 DEF Reporter!Accept, Pushed, SameStatus, WriteInFlight, statVars
<1> QED
  BY <1>6

LEMMA WrittenIsTransmit ==
  ASSUME ClientInv, Written
  PROVE  Reporter!Transmit
<1>1. message_buffer \in Seq(Messages)
  BY QueueTypes
<1>2. PICK m \in Messages : InHand = <<m>> /\ wire' = Append(wire, m)
  BY DEF Written
<1>3. /\ <<m>> \o message_buffer # <<>>
      /\ Head(<<m>> \o message_buffer) = m
      /\ Tail(<<m>> \o message_buffer) = message_buffer
  BY <1>1
<1>4. (InHand \o message_buffer)' = message_buffer
  <2>1. <<>> \o message_buffer = message_buffer
    BY <1>1, ConcatEmptySeq
  <2> QED
    BY <2>1 DEF Written
<1> QED
  BY <1>2, <1>3, <1>4
     DEF Written, Reporter!Transmit, WriteInFlight, statVars

LEMMA ClearedIsClose ==
  ASSUME ClientInv, Cleared
  PROVE  Reporter!Close
<1>1. /\ InHand \in Seq(Messages) /\ message_buffer \in Seq(Messages)
      /\ Len(InHand) \in {0, 1} /\ Len(message_buffer) \in Nat
  BY QueueTypes
<1>2. (InHand \o message_buffer)' = InHand
  <2>1. InHand \o <<>> = InHand
    BY <1>1, ConcatEmptySeq
  <2> QED
    BY <2>1 DEF Cleared
<1>3. SubSeq(InHand \o message_buffer, 1, Len(InHand)) = InHand
  BY <1>1
<1>4. Len(InHand) <= Len(InHand \o message_buffer)
  BY <1>1
<1>5. \E n \in {0, 1} :
        /\ n <= Len(InHand \o message_buffer)
        /\ (InHand \o message_buffer)' = SubSeq(InHand \o message_buffer, 1, n)
  BY <1>1, <1>2, <1>3, <1>4
<1> QED
  BY <1>5 DEF Cleared, Reporter!Close, WriteInFlight, statVars

LEMMA PoppedIsStutter ==
  ASSUME ClientInv, Popped
  PROVE  Backlog' = Backlog
<1>1. message_buffer \in Seq(Messages) /\ message_buffer # <<>>
  BY QueueTypes DEF Popped
<1>2. message_buffer = <<Head(message_buffer)>> \o Tail(message_buffer)
  BY <1>1, HeadAndTail
<1>3. <<>> \o message_buffer = message_buffer
  BY <1>1, ConcatEmptySeq
<1> QED
  BY <1>2, <1>3 DEF Popped, Backlog

LEMMA QueueStepImplements ==
  ASSUME ClientInv, ClientInv', QueueStep
  PROVE  [Reporter!Next]_(Reporter!reporterVars)
<1>1. CASE Quiet \/ Admitted \/ Popped
  <2>1. Backlog' = Backlog
    BY <1>1, PoppedIsStutter DEF Quiet, Admitted, SameQueue, Backlog
  <2> QED
    BY <1>1, <2>1 DEF Reporter!reporterVars, Quiet, Admitted, Popped, SameQueue,
                      SameStatus, WriteInFlight, Backlog, statVars
<1>2. CASE Refused
  <2>1. Len(InHand \o message_buffer) > MaxPendingMessagesSize
    <3>1. /\ Len(InHand \o message_buffer) = Len(InHand) + Len(message_buffer)
          /\ Len(InHand) \in {0, 1} /\ Len(message_buffer) \in Nat
      BY BacklogLength DEF Backlog, ClientInv, IndInv
    <3>2. \A h \in {0, 1}, b, n \in Nat : b > n => h + b > n
      OBVIOUS
    <3>3. Len(InHand) + Len(message_buffer) > MaxPendingMessagesSize
      BY <1>2, <3>1, <3>2, BoundsAssumption DEF Refused
    <3> QED
      BY <3>1, <3>3
  <2>2. Reporter!Refuse
    BY <1>2, <2>1 DEF Refused, SameQueue, SameStatus, WriteInFlight,
                      Reporter!Refuse
  <2> QED
    BY <2>2 DEF Reporter!Next
<1>3. CASE Pushed
  BY <1>3, PushedIsAccept DEF Reporter!Next
<1>4. CASE Written
  BY <1>4, WrittenIsTransmit DEF Reporter!Next
<1>5. CASE Counted
  <2>1. Reporter!Acknowledge \/ Reporter!Lose
    BY <1>5 DEF Counted, SameQueue, WriteInFlight, Reporter!Acknowledge,
                Reporter!Lose
  <2> QED
    BY <2>1 DEF Reporter!Next
<1>6. CASE Cleared
  BY <1>6, ClearedIsClose DEF Reporter!Next
<1> QED
  BY <1>1, <1>2, <1>3, <1>4, <1>5, <1>6 DEF QueueStep

LEMMA InitImplements == Init => Reporter!Init
<1> SUFFICES ASSUME Init PROVE Reporter!Init
  OBVIOUS
<1>1. InHand = <<>>
  BY InHandOfNobody DEF Init
<1>2. <<>> \o <<>> = <<>>
  BY ConcatEmptySeq, EmptySeq
<1> QED
  BY <1>1, <1>2 DEF Init, Reporter!Init, BufferCleared

(* The client with its threads, flag, streams and completion queue         *)
(* implements the bounded lossy queue, for every number of reporters and   *)
(* every threshold: every step of a thread, of gRPC or of resetClient is a *)
(* step of LossyReporter or invisible.                                     *)
THEOREM RefinesReporter == Spec => ImplementsReporter
<1>1. ClientInv /\ ClientInv' /\ [Next]_vars
      => [Reporter!Next]_(Reporter!reporterVars)
  BY StepIsQueueStep, QueueStepImplements
<1> QED
  BY <1>1, ClientInvariant, InitImplements, PTL
     DEF Spec, ImplementsReporter, Reporter!Spec

-----------------------------------------------------------------------------
(* Operations and streams. Between createStream and the assignment of the  *)
(* constructor the only stream is the first one, and no thread moves; once *)
(* the event loop has ended, nothing is outstanding.                       *)

StreamInv ==
  /\ ~Constructed => \A t \in Threads : pc[t] = "ready"
  /\ owner = "create" => streams = 0
  /\ owner = "assign" => \A o \in cq : o.stream = 1
  /\ pc[EventLoop] = "exited" => cq = {} /\ cq_shutdown
  /\ OpsOnActiveStream

LEMMA InitStreamInv == Init => StreamInv
BY DEF Init, StreamInv, OpsOnActiveStream, Constructed, Threads

LEMMA NextStreamInv ==
  ASSUME EarlyStartEvent = FALSE, ClientInv, StreamInv, [Next]_vars
  PROVE  StreamInv'
<1>0. /\ TypeOK /\ OneStreamUser /\ Lifecycle
      /\ EventLoop \in Threads /\ Reporters \subseteq Threads
  BY DEF ClientInv, IndInv, Threads
<1> USE DEF StreamInv, OpsOnActiveStream, Constructed
<1>1. CASE ConstructorStart
  BY <1>0, <1>1 DEF ConstructorStart, StartCall, OneStreamUser, Lifecycle
<1>2. CASE ConstructorAssign
  BY <1>0, <1>2 DEF ConstructorAssign, grpcVars
<1>3. ASSUME NEW r \in Reporters, SendMessage(r) PROVE StreamInv'
  <2>1. EventLoop # r
    BY ThreadsAssumption
  <2> QED
    BY <1>0, <1>3, <2>1 DEF SendMessage, Goto, clientVars, grpcVars, TypeOK
<1>4. ASSUME NEW r \in Reporters, PushBack(r) PROVE StreamInv'
  BY <1>0, <1>4, ThreadsAssumption DEF PushBack, Goto, grpcVars, TypeOK
<1>5. ASSUME NEW t \in Threads, CompareExchange(t) PROVE StreamInv'
  BY <1>0, <1>5 DEF CompareExchange, Goto, grpcVars, TypeOK
<1>6. ASSUME NEW t \in Threads, PopFront(t) PROVE StreamInv'
  BY <1>0, <1>6 DEF PopFront, Goto, grpcVars, TypeOK
<1>7. ASSUME NEW t \in Threads, MarkEventLoopIdle(t) PROVE StreamInv'
  BY <1>0, <1>7 DEF MarkEventLoopIdle, Goto, grpcVars, TypeOK
<1>8. ASSUME NEW t \in Threads, Write(t) PROVE StreamInv'
  BY <1>0, <1>8 DEF Write, Goto, clientVars, TypeOK
<1>9. ASSUME NEW t \in Threads, OperationAfterShutdown(t) PROVE StreamInv'
  BY <1>9 DEF OperationAfterShutdown, clientVars
<1>10. ASSUME NEW o \in cq, NEW ok \in BOOLEAN, Complete(o, ok)
       PROVE  StreamInv'
  <2> DEFINE done == [o EXCEPT !.status = IF ok THEN "ok" ELSE "failed"]
  <2>1. done.stream = o.stream
    BY <1>0 DEF TypeOK, Operation
  <2>2. cq' = (cq \ {o}) \cup {done} /\ UNCHANGED <<pc, owner, cq_shutdown,
        streams, active_stream>>
    BY <1>10 DEF Complete, clientVars
  <2> HIDE DEF done
  <2> QED
    BY <2>1, <2>2
<1>11. ASSUME NEW o \in cq, NextEvent(o) PROVE StreamInv'
  <2>1. /\ Constructed /\ pc[EventLoop] = "ready" /\ pc'[EventLoop] # "exited"
        /\ cq' = cq \ {o} /\ UNCHANGED <<owner, active_stream>>
    BY <1>0, <1>11 DEF NextEvent, Goto, clientVars, TypeOK
  <2> QED
    BY <2>1
<1>12. CASE NextDrained
  BY <1>0, <1>12 DEF NextDrained, Goto, clientVars, grpcVars, TypeOK, Lifecycle
<1>13. CASE CheckReset
  BY <1>0, <1>13 DEF CheckReset, Goto, clientVars, grpcVars, TypeOK
<1>14. CASE StreamReady
  BY <1>0, <1>14 DEF StreamReady, Goto, grpcVars, TypeOK
<1>15. CASE StartStream
  <2>1. cq = {}
    BY <1>0, <1>15 DEF StartStream, Goto, OneStreamUser, Holding, StreamPc
  <2> QED
    BY <1>0, <1>15, <2>1 DEF StartStream, Goto, StartCall, TypeOK
<1>16. CASE ResetClient
  BY <1>16 DEF ResetClient, grpcVars
<1>17. CASE ClearBuffer
  BY <1>17 DEF ClearBuffer, grpcVars
<1>18. CASE Shutdown
  BY <1>18 DEF Shutdown, clientVars
<1>19. CASE Join
  BY <1>19 DEF Join, clientVars, grpcVars
<1>20. CASE ResetStream
  BY <1>0, <1>20 DEF ResetStream, grpcVars, Lifecycle
<1>21. CASE UNCHANGED vars
  BY <1>21 DEF vars, clientVars, grpcVars
<1> QED
  BY <1>1, <1>2, <1>3, <1>4, <1>5, <1>6, <1>7, <1>8, <1>9, <1>10, <1>11, <1>12,
     <1>13, <1>14, <1>15, <1>16, <1>17, <1>18, <1>19, <1>20, <1>21
     DEF Next, SendMessageOnce, Gogo, Reset, Terminated

(* When the first event does not overtake the constructor, every           *)
(* outstanding operation belongs to the stream in active_stream_: no event *)
(* of a deleted stream is taken for one of its successor.                  *)
THEOREM OperationsOfTheStream ==
  ASSUME EarlyStartEvent = FALSE
  PROVE  Spec => []OpsOnActiveStream
<1>1. ClientInv /\ StreamInv /\ [Next]_vars => StreamInv'
  BY NextStreamInv
<1>2. StreamInv => OpsOnActiveStream
  BY DEF StreamInv
<1> QED
  BY <1>1, <1>2, ClientInvariant, InitStreamInv, PTL DEF Spec
=============================================================================

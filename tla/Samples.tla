------------------------------ MODULE Samples ------------------------------
(***************************************************************************)
(* The programs of example/ at work together: sample_client.cc makes a     *)
(* request to sample.cc, both trace it and report to a collector. As in    *)
(* test/e2e/consumer.cc, several requests may run at once in threads of    *)
(* the calling process. Other HTTP clients call the server without an sw8  *)
(* header or with one that no parser accepts. The HTTP library may lose a  *)
(* request and may give up waiting.                                        *)
(*                                                                         *)
(* A step of a program is an action of RaiiTracing; the asynchronous       *)
(* client of each process is the reporter that TraceAsyncClient is shown   *)
(* to implement.                                                           *)
(***************************************************************************)
EXTENDS RaiiTracing

CONSTANTS
  Caller, Server,      \* the tracers of the two processes
  Op1, Op2, Op3,       \* "sample_op1", "sample_op2", "sample_op3"
  Target,              \* target_address
  RefuseAbove, Room,   \* bounds of the reporters
  MaxPings,            \* bound: requests of the caller
  MaxStrangers         \* bound: requests of other clients

(* Neither program sets ignore_operation_name_suffix.                      *)
ASSUME SamplesAssumption ==
  /\ {Caller, Server} \subseteq Tracers /\ Target \in Targets
  /\ {Op1, Op2, Op3} \subseteq OperationNames
  /\ ~Match(Op1) /\ ~Match(Op3)
  /\ MaxPings \in Nat /\ MaxStrangers \in Nat

VARIABLES
  pings,      \* for every request of the caller, its thread
  handlers,   \* for every request, the thread that serves it
  caller_backlog, caller_wire, caller_in_flight,
  caller_sent, caller_dropped, caller_open,
  server_backlog, server_wire, server_in_flight,
  server_sent, server_dropped, server_open

callerVars == <<caller_backlog, caller_wire, caller_in_flight,
                caller_sent, caller_dropped, caller_open>>
serverVars == <<server_backlog, server_wire, server_in_flight,
                server_sent, server_dropped, server_open>>
sampleVars == <<raiiVars, pings, handlers, callerVars, serverVars>>

CallerReporter == INSTANCE LossyReporter WITH
  Message <- {}, backlog <- caller_backlog, wire <- caller_wire,
  in_flight <- caller_in_flight, sent <- caller_sent,
  dropped <- caller_dropped, open <- caller_open

ServerReporter == INSTANCE LossyReporter WITH
  Message <- {}, backlog <- server_backlog, wire <- server_wire,
  in_flight <- server_in_flight, sent <- server_sent,
  dropped <- server_dropped, open <- server_open

Pings    == 1..MaxPings
Requests == 1..(MaxPings + MaxStrangers)

LastSpan(c) == contexts[c].spans[Len(contexts[c].spans)]

NoContext == 0    \* a null TracingContextSharedPtr
NoHeader  == <<>> \* none of ours: what it is instead shows when it is read

SamplesInit ==
  /\ RaiiInit
  /\ pings = [p \in Pings |-> [pc |-> "context", ctx |-> NoContext]]
  /\ handlers = [r \in Requests |->
       [ pc |-> IF r \in Pings THEN "unsent" ELSE "request",
         ctx |-> NoContext, header |-> NoHeader ]]
  /\ CallerReporter!Init /\ ServerReporter!Init

-----------------------------------------------------------------------------
(* sample_client.cc.                                                       *)

Ping(p, from, to) ==
  /\ pings[p].pc = from
  /\ pings' = [pings EXCEPT ![p].pc = to]

PingContext(p) ==
  /\ pings[p].pc = "context"
  /\ NewContext(Caller)
  /\ pings' = [pings EXCEPT ![p] = [pc |-> "entry", ctx |-> Len(contexts) + 1]]
  /\ UNCHANGED <<scopes, handlers, callerVars, serverVars>>

PingEntrySpan(p) ==
  /\ Ping(p, "entry", "exit")
  /\ StartEntrySpan(pings[p].ctx, Op1)
  /\ UNCHANGED <<handlers, callerVars, serverVars>>

(* entry_span.get() is the parent. setPeer only stores.                    *)
PingExitSpan(p) ==
  /\ Ping(p, "exit", "call")
  /\ StartExitSpan(pings[p].ctx, 1, Op2)
  /\ UNCHANGED <<handlers, callerVars, serverVars>>

(* The request is on its way, unless the server is gone.                   *)
Requested(r, header) ==
  [handlers EXCEPT ![r] =
     IF @.pc = "undefined" THEN @
     ELSE [pc |-> "request", ctx |-> NoContext, header |-> header]]

(* Plausible bug: the requests of a process share one variable, which      *)
(* holds the context made last.                                            *)
PingCallSharing(p) ==
  /\ Ping(p, "call", "wait")
  /\ LET ctx == Len(contexts)
     IN  /\ CreateSW8HeaderValue(ctx, Target)
         /\ handlers' = Requested(p, EncodeSpan(contexts[ctx], LastSpan(ctx), Target))
  /\ UNCHANGED <<scopes, callerVars, serverVars>>

(* The value is used without a test that there is one.                     *)
PingCall(p) ==
  /\ Ping(p, "call", "wait")
  /\ LET ctx == pings[p].ctx
     IN  /\ CreateSW8HeaderValue(ctx, Target)
         /\ handlers' = Requested(p, EncodeSpan(contexts[ctx], LastSpan(ctx), Target))
  /\ UNCHANGED <<scopes, callerVars, serverVars>>

(* Plausible bug: cli.Get waits for the server, whatever becomes of it.    *)
PingReturnReplied(p) ==
  /\ Ping(p, "wait", "leave exit") /\ handlers[p].pc = "replied"
  /\ UNCHANGED <<raiiVars, handlers, callerVars, serverVars>>

(* cli.Get returns, with a response or with an error; nobody looks at it.  *)
PingReturn(p) ==
  /\ Ping(p, "wait", "leave exit")
  /\ UNCHANGED <<raiiVars, handlers, callerVars, serverVars>>

PingLeaveExitSpan(p) ==
  /\ Ping(p, "leave exit", "leave entry")
  /\ CloseScope(pings[p].ctx)
  /\ UNCHANGED <<handlers, callerVars, serverVars>>

(* Plausible bug: report stands inside the block of the entry span.        *)
PingLeaveEntrySpanLate(p) ==
  /\ Ping(p, "leave entry", "report")
  /\ UNCHANGED <<raiiVars, handlers, callerVars, serverVars>>

PingLeaveEntrySpan(p) ==
  /\ Ping(p, "leave entry", "report")
  /\ CloseScope(pings[p].ctx)
  /\ UNCHANGED <<handlers, callerVars, serverVars>>

(* report: the segment goes to the asynchronous client, or, when report    *)
(* returns false, out of scope with its context.                           *)
PingReport(p) ==
  /\ Ping(p, "report", "done")
  /\ IF ReadyToSend(contexts[pings[p].ctx]) /\ ~Match(Op1)
     THEN /\ Report(pings[p].ctx)
          /\ \/ CallerReporter!Accept(SegmentObject(contexts[pings[p].ctx]))
             \/ CallerReporter!Refuse
     ELSE UNCHANGED <<vars, callerVars>>
  /\ UNCHANGED <<scopes, handlers, serverVars>>

(* return 0: ~TracerImpl calls resetClient.                                *)
CallerExit ==
  /\ \A p \in Pings : pings[p].pc = "done"
  /\ CallerReporter!Close
  /\ UNCHANGED <<raiiVars, pings, handlers, serverVars>>

PingStep(p) ==
  \/ PingContext(p) \/ PingEntrySpan(p) \/ PingExitSpan(p) \/ PingCall(p)
  \/ PingReturn(p) \/ PingLeaveExitSpan(p) \/ PingLeaveEntrySpan(p)
  \/ PingReport(p)

-----------------------------------------------------------------------------
(* sample.cc.                                                              *)

Handle(r, from, to) ==
  /\ handlers[r].pc = from
  /\ handlers' = [handlers EXCEPT ![r].pc = to]

HandlerContext(r) ==
  /\ handlers[r].pc = "request" /\ handlers[r].header # NoHeader
  /\ NewContextFrom(Server, handlers[r].header, "Default")
  /\ handlers' = [handlers EXCEPT ![r].pc = "entry", ![r].ctx = Len(contexts) + 1]
  /\ UNCHANGED <<scopes, pings, callerVars, serverVars>>

(* No header, or an empty one: the context remains a null pointer.         *)
HandlerNoContext(r) ==
  /\ Handle(r, "request", "entry") /\ handlers[r].header = NoHeader
  /\ UNCHANGED <<raiiVars, pings, callerVars, serverVars>>

(* A value that is no header: createSpanContext throws before there is a   *)
(* context, the handler is left, and the HTTP library answers with an      *)
(* error.                                                                  *)
HandlerRejects(r) ==
  /\ Handle(r, "request", "failed") /\ handlers[r].header = NoHeader
  /\ UNCHANGED <<raiiVars, pings, callerVars, serverVars>>

HandlerEntrySpan(r) ==
  /\ Handle(r, "entry", "leave") /\ handlers[r].ctx # NoContext
  /\ StartEntrySpan(handlers[r].ctx, Op3)
  /\ UNCHANGED <<pings, callerVars, serverVars>>

(* The constructor calls createEntrySpan on a null pointer: the process is *)
(* gone, with all its threads.                                             *)
HandlerNullContext(r) ==
  /\ handlers[r].pc = "entry" /\ handlers[r].ctx = NoContext
  /\ handlers' = [q \in Requests |-> [handlers[q] EXCEPT !.pc = "undefined"]]
  /\ UNCHANGED <<raiiVars, pings, callerVars, serverVars>>

HandlerLeave(r) ==
  /\ Handle(r, "leave", "report")
  /\ CloseScope(handlers[r].ctx)
  /\ UNCHANGED <<pings, callerVars, serverVars>>

HandlerReport(r) ==
  /\ Handle(r, "report", "replied")
  /\ IF ReadyToSend(contexts[handlers[r].ctx]) /\ ~Match(Op3)
     THEN /\ Report(handlers[r].ctx)
          /\ \/ ServerReporter!Accept(SegmentObject(contexts[handlers[r].ctx]))
             \/ ServerReporter!Refuse
     ELSE UNCHANGED <<vars, serverVars>>
  /\ UNCHANGED <<scopes, pings, callerVars>>

HandlerStep(r) ==
  \/ HandlerContext(r) \/ HandlerNoContext(r) \/ HandlerRejects(r)
  \/ HandlerEntrySpan(r) \/ HandlerNullContext(r)
  \/ HandlerLeave(r) \/ HandlerReport(r)

-----------------------------------------------------------------------------
CallerReports ==
  /\ CallerReporter!Transmit \/ CallerReporter!Acknowledge \/ CallerReporter!Lose
  /\ UNCHANGED <<raiiVars, pings, handlers, serverVars>>

(* The event loop of the server dies with it.                              *)
ServerReports ==
  /\ \A r \in Requests : handlers[r].pc # "undefined"
  /\ ServerReporter!Transmit \/ ServerReporter!Acknowledge \/ ServerReporter!Lose
  /\ UNCHANGED <<raiiVars, pings, handlers, callerVars>>

SamplesNext ==
  \/ \E p \in Pings : PingStep(p)
  \/ \E r \in Requests : HandlerStep(r)
  \/ CallerExit
  \/ CallerReports
  \/ ServerReports

(* Every thread of the caller is scheduled, and cli.Get has a timeout.     *)
SamplesSpec ==
  /\ SamplesInit /\ [][SamplesNext]_sampleVars
  /\ \A p \in Pings : WF_sampleVars(PingStep(p))

-----------------------------------------------------------------------------
(* Properties.                                                             *)

Elements(s) == {s[k] : k \in 1..Len(s)}

(* Requests served at the same time are not mixed up: what the collector   *)
(* has of a request that the server served for a ping hangs below the exit *)
(* span of that very ping, in the same trace, also when the caller's own   *)
(* segment was refused, lost or discarded.                                 *)
CollectedBelongsToPing ==
  \A r \in Pings : \A segment \in Elements(server_wire) :
    /\ handlers[r].ctx # NoContext
    /\ contexts[handlers[r].ctx].segment = segment.segment
    => /\ segment.trace = contexts[pings[r].ctx].trace
       /\ \E ref \in segment.spans[1].refs :
            /\ ref.traceSegmentId = contexts[pings[r].ctx].segment
            /\ ref.spanId = 1

(* The collector gets no segment twice and no two segments with one id,    *)
(* from whatever process and thread they come.                             *)
CollectedOnce ==
  LET all == caller_wire \o server_wire
  IN  \A j, k \in 1..Len(all) : all[j].segment = all[k].segment => j = k

(* The samples call report when every span has ended: it never returns     *)
(* false, which nobody would notice.                                       *)
NothingUnreported ==
  /\ \A p \in Pings : pings[p].pc = "done" => contexts[pings[p].ctx].sent
  /\ \A r \in Requests :
       handlers[r].pc = "replied" => contexts[handlers[r].ctx].sent

(* The caller keeps all preconditions of the library and waits for nobody: *)
(* every request comes to its end, whether the server answers, fails or    *)
(* never gets the request, and whatever the collector does.                *)
PingsEnd == <>(\A p \in Pings : pings[p].pc = "done")

=============================================================================

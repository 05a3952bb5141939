# A TLA+ model of cpp2sky

cpp2sky is the C++ SDK of Apache SkyWalking. An application builds *segments*
(trees of spans) with a tracing context, hands each finished segment to the
tracer, and an asynchronous gRPC client ships it to the collector (OAP). This
directory holds TLA+ modules of that machinery, TLC configurations that check
them, and TLAPS proofs.

Run everything here with

    tlc -workers 2 -config Client_safety.cfg MCTraceAsyncClient
    tlapm TraceAsyncClientProofs.tla   # and the other *Proofs modules

## Inventory

| Component | State | Operations | What is hard |
|---|---|---|---|
| `TraceAsyncClientImpl` (`grpc_async_client_impl.*`) | `message_buffer_`, `event_loop_idle_`, `active_stream_`, `client_reset_`, three counters | `sendMessage`, `sendMessageOnce`, the callbacks of the two event tags, `startStream`, `resetStream`, `resetClient` | shared by reporters, event loop and owner without a common lock; the flag is a hand-made token |
| `EventLoopThread` | completion queue, thread | `gogo`, `exit` | starts before its owner is constructed; shutdown while a callback runs |
| `TraceAsyncStreamImpl` | one gRPC call | constructor (`StartCall`), `sendMessage` (`Write`) | one operation at a time; fails at any time |
| `ValueBuffer` | deque and mutex | `push_back`, `pop_front`, `size`, `clear` | each atomic, their sequences not |
| `TracingContextImpl`, `TracingContextFactory` | spans, segment, parent, skip flag | create spans, header value, `readyToSend`, `createSegmentObject` | legal call sequences; ids that must resolve in another process |
| `TracingSpanImpl` | one span object | start, end, setters | a reference into the context's segment |
| `TracerImpl` | client, factory, matcher | `newContext`, `report`, destructor | `report` may refuse and be tried again |
| `SpanContextImpl`, `SpanContextExtensionImpl` | parsed header | constructor | positional fields, error paths |
| `SuffixMatcher` | suffixes | `match` | evaluated on the name at report time |
| `StartEntrySpan`, `StartExitSpan` | a span | constructor, destructor | order of destructors; a span that was reported meanwhile |
| `Base64` | none | `encode`, `decodeWithoutPadding` | lengths modulo 3 and 4, padding, an unsigned `n - 1` |
| `RandomGeneratorImpl` | a buffer of random bytes per thread | `uuid` | the end of the buffer; threads |
| `TimePoint`, `Timer` | a clock reading | `fetch`, `check` | two clocks, readings cut to milliseconds |
| `example/` | two processes with tracers | `main`, the handler of `/ping` | concurrent requests, a missing header, the end of the process |

Interaction: `TracerImpl::report` turns a context into a segment and calls
`sendMessage` on the client, on the application's thread. The client pushes it
into the buffer and tries to write it. gRPC delivers completed operations to
`gogo`, which runs the callback of the event tag; the callback writes the next
message or creates a new stream. The tracer's destructor calls `resetClient`.
Between processes the only link is the `sw8` header.

What makes the client correct: one operation on the stream at a time; the right
to start one never lost; messages written once, in order, a bounded number of
them waiting; every message counted; a shutdown that ends. What makes tracing
correct: a reported segment is a finished tree, and references between segments
resolve.

## Modules

**`TraceAsyncClient`** models the client, the event loop, the stream and the
buffer. An action is one access to shared state with the thread-local code up
to the next one; `pc[t]` names the access a thread does next, `owner` the step
of the thread that constructs and resets the client, `cq` the operations started
and not delivered. `sendMessage` is `SendMessage` (counter and the test on
`size()`), `PushBack`, then the accesses of `sendMessageOnce`:
`CompareExchange`, `PopFront`, `MarkEventLoopIdle` or `Write`. The event loop is
`NextEvent` (`cq_.Next`, and the counting of the write callback), `CheckReset`,
then `StreamReady` and `sendMessageOnce`, or `StartStream`. The owner is
`ConstructorStart`, `ConstructorAssign`, `ResetClient`, `ClearBuffer`,
`Shutdown`, `Join`, `ResetStream`. gRPC is external: `Complete` ends an
operation either way, and starting an operation on a queue that was shut down
ends the process (`OperationAfterShutdown`). `accepted` and `wire` are history
variables. `EarlyStartEvent` says whether the event of the first call may be
handled before the constructor has stored the stream; the code permits it, and
the property that does not survive it is checked without it.

A reporter is inside the client only after construction and before
`resetClient`: calling a method of an object while its destructor runs is outside
any contract, and the tracer's destructor is what calls `resetClient`.

**`LossyReporter`** is the abstract reporter: a bounded queue, one message in
flight, each counted once, a failed one lost, closing gives up the rest.
`TraceAsyncClient` instantiates it with a refinement mapping: the backlog is the
message in a thread's hand followed by the buffer.

**`TracingContext`** models tracers, contexts, spans, headers and `report`. All
contexts of all processes are in one sequence and interleave freely; `headers`
is a set that is never emptied, so a header may be lost, late or used many
times. A header is a tuple of eight fields, written by `EncodeSpan` and read by
position in `SpanContext`. Base64 and decimal text are opaque wrappers that only
their own decoder opens. The asserts of the code and the README's rule that a
context is not used after it was sent are guards.

**`RaiiTracing`** extends it with applications that create and end spans through
`StartEntrySpan` and `StartExitSpan` only. `scopes` holds, for every request, the
spans of its live scope objects; `CloseScope` runs the destructor of the innermost
one. `get()` hands out the span, and the pointer may be kept: `NameThroughGet`
renames a span with `setOperationName` or a second `startSpan`, and any span of the
context, finished or not, may be the parent in `StartExitSpan`. `report` may be
tried at any time.

**`Propagation`** has the constructors of `SpanContextImpl` and
`SpanContextExtensionImpl`, which are one loop with two numbers of fields: an
action is one character (`TooManyFields`, `EndField`, `ExtendField`) or the end
of the value (`EndInLastField`, `EndTooEarly`, `EndBehindLastField`). The codec
of the fields is a parameter with the assumption that the library's own fields
read back and contain no separator, which is what `Base64Proofs` proves of Base64. The
store past the array is undefined behaviour: the constructor may still throw
(`rejected`) or not (`undefined`).

**`Base64`** has `encode` and `decodeWithoutPadding`, one action per iteration,
with `size_t` wrapping at `SizeModulus`. The reference is a definition on bits.

**`RandomGenerator`** has `uuid` with its thread-local buffer, for several
threads. A random byte is known by its buffer, the number of times that buffer
was filled and its offset, so that "independent" means "shares no byte".

**`TimePoint`** has the two clocks and `fetch`; **`TracingSpan`** stamps the times
of one span through all overloads of `startSpan`, `addLog` and `endSpan`, with
readings the application took earlier; **`Timer`** is polled at arbitrary moments.
When a reading was taken is history that the program does not see.

**`Samples`** composes `RaiiTracing` with two instances of `LossyReporter`:
`sample_client.cc` (`PingContext` to `PingReport`, then `CallerExit` for
`return 0`), `sample.cc` (`HandlerContext` to `HandlerReport`), and HTTP, which may
lose a request and may give up waiting. Several requests of the caller run at
once, as in `test/e2e/consumer.cc`, and other clients call without a header or with
one that `createSpanContext` rejects: its exception ends the handler and
`cpp-httplib` answers with an error (`HandlerRejects`).

The `MC` modules add symmetry sets and values for TLC; `MCHelpers` runs
`Propagation`, `Base64`, `RandomGenerator`, `TracingSpan` and `Timer`, which share no
state, one at a time. Operators whose comment
begins with "Plausible bug" are not part of the specification: each is a wrong
version of the definition after it, and shows that a property can fail.

## Runs

| Run | Shows |
|---|---|
| `client_safety` | types, exclusive use of the stream, token not lost, buffer bound, order on the wire, accounting, no write to a null stream; the client implements `LossyReporter` |
| `client_liveness` | operations always belong to the current stream; a message behind an outstanding operation is written; `resetClient` returns |
| `client_lost_wakeup` | *violated*: a message is stranded in the buffer while the stream is idle |
| `client_early_event` | *violated*: `assert(active_stream_ != nullptr)` fails on the first event |
| `client_reset_race` | *violated*: an operation is started after `cq_.Shutdown()` |
| `tracing_segments` | segments are finished trees, references between reported segments resolve, contexts form one tree, mode Skip is honoured, whatever the order of calls |
| `tracing_skip` | *violated*: `setSkipAnalysis` does not reach spans that exist |
| `raii_scopes` | no destructor touches a reported segment, a request is ready exactly when its scopes are left; three contexts in chains and as siblings are one tree |
| `raii_endpoint` | *violated*: the entry span is renamed after the header was made, and the endpoint in the header is a name the caller never reports |
| `propagation_count` | *violated*: a separator behind the last field makes the parser store past its array before it throws |
| `helpers` | Header parsers: what is accepted and what is read, against splitting at the separators; the library's own header is understood. Base64: both directions bit by bit, the round trip, reads inside the text, the final assert, no separator in the output. `uuid`: no byte in two ids, the form of an id. Times: differences right to the millisecond on one clock that was not set, logs before the end. Timer: fires neither early nor, when polled, a millisecond late |
| `samples_pings` | what the collector gets of concurrent requests belongs together and comes once, `report` never returns false, every request ends |

The six violated properties state what a comment, an assert or a test of the
repository says; the findings in `PROJECT.json` quote the lines. Met while
modelling, and without a run of their own:

- `sample.cc:54` uses a null context for a request without a header, although
  line 62 provides for one (`HandlerNullContext` of `Samples`, which
  `samples_pings` reaches);
- `sample_client.cc` returns right after `report`, and the tracer's destructor
  discards the segment if the stream was not ready yet (`CallerExit`);
- a header whose trace id is empty or does not decode is accepted, with an empty
  trace id (`propagation_impl.cc:69`, `propagation.h:34`).

**Bounds.** Every race found or excluded is between two users of the flag or
between the test and the push, and the event loop is another user:
`client_safety` has three reporters, the runs with temporal properties two.
`MaxPendingMessagesSize` is 1, so that the buffer is empty, legal, at its
threshold and beyond it within four or five messages (`MaxMessages`).
`MaxFailures` is 3: a failed call, a failed write and a failure right after a
new stream. `MaxContexts` is 2 with renaming and an ignored suffix in
`tracing_segments`, and 3 in `raii_scopes`, for chains of calls and for siblings
made from one header; `MaxSpans` 2 is an entry and an exit span. So no run has two
exit spans under way in one context, where `createSW8HeaderValue` takes the last one
created: its interface cannot say which one is meant, and no property is about it.
`raii_scopes` has one operation name, because its properties do not look at names;
`raii_endpoint` has two, and one context. Header values
are all sequences up to `MaxHeaderLength` over an alphabet that lets every field
be empty, valid and invalid; `sw8` needs seven separators, and two characters
more reach every error path. Base64 inputs have all lengths modulo 3 and 4 with
bytes that set every bit, texts include padding only, padding inside and
non-canonical ends. The buffer of `helpers` has 32 bytes instead of 2048, also a
multiple of 16: it is filled again for the third id of a thread. Two ticks make
a millisecond, so that readings fall on and between milliseconds.
`samples_pings` has two requests of the caller and one of a stranger, without a
header the server accepts;
`RefuseAbove` is 0, so that the second segment may be refused. Reporters,
tracers and threads are interchangeable, so safety runs use symmetry
(`ImplementsReporter` has no liveness part and is symmetric itself); the runs
with liveness properties do not. Deadlock is checked for the client, where
`Terminated` is the only way to stop, and for the codec and the parser, which
always return; the others may stop, since an application may have nothing to do.

**Fairness.** Threads inside the client keep running, gRPC completes every
operation that was started, and the owner finishes a constructor or reset it has
begun (weak fairness each). Nothing obliges an application to send or to reset.
That gRPC completes operations is an assumption on the transport: the client
joins the event loop before it cancels the stream, so a write that never
completes would block `resetClient`. `DrainContinues` also needs failures to end
eventually, which `MaxFailures` stands for. In `Samples` the threads of the caller
are scheduled and `cli.Get` returns after its timeout at the latest; nothing is
assumed of the server, the network and the reporters, whose promise to write a
message is the one the lost wake-up breaks.

## Proofs

What the runs check on small instances, these modules prove for every value of
the constants: any set of reporters, tracers, threads and names, any bound, and
inputs of every length. The assumptions are the `ASSUME`s of the modules, which
every run evaluates. In each proof one named conjunction is inductive, and every
step of the system preserves it; the properties follow from it.

**`TraceAsyncClientProofs`** (`ThreadsAssumption`, `BoundsAssumption`):

- `TypeCorrect`: `TypeOK`. It is not inductive by itself: an operation belongs to
  a stream, so `Write` must find one. `Lifecycle` supplies it, by relating the
  owner's phase to everything else: no message before the constructor ends, no
  reporter once `resetClient` began, no event loop once the stream is gone.
- `NeverWritesToNull`: `StreamForWrite`, from the same invariant.
- `ExclusiveStream`: `OneStreamUser`, inductive with `TypeOK`. Each action hands
  the right to use the stream from one place to another.
- `TokenKept`: `TokenNotLost`, the dual: the right never disappears.
- `BoundedBuffer`: `BufferBound`. The strengthening `Reservations` counts the
  reporters between test and push as part of the buffer.

The second half of the module sees the client as a queue. `StepIsQueueStep` shows once that
every access of every thread, of gRPC and of the owner is one of eight steps of a
queue or leaves it alone; this is where `OneStreamUser` is needed, since two
threads with a message in hand could write them in either order. From the eight
cases follow

- `WrittenInOrder`: `WireInOrder`. The strengthening says that what was accepted
  is what is on the wire, then what is in hand, then the buffer.
- `StatisticsAddUp`: `Accounting`.
- `RefinesReporter`: `ImplementsReporter`. Initial states map to initial states,
  every step to a step of `LossyReporter` or to a stutter.
- `OperationsOfTheStream`: `OpsOnActiveStream`, for `EarlyStartEvent = FALSE` as in
  `client_liveness`. Without this hypothesis it is false, which is the finding of
  `client_early_event`. `ClientInv` with the phases of the owner is inductive.

**`TracingContextProofs`** (any names, suffixes and numbers): `TracingInv` says where
every id comes from. A header describes an exit span of a context that exists
(`HeadersResolve`), the parent of a context is such a header of an earlier
context, with the same trace (`ParentsResolve`), a reported segment is the final
state of a context (`ReportsMatch`), ids are fresh. Contexts only grow, so what a
header described once stays described, however late it is used. Steps fall into four
kinds (a context arrives, one context changes, a header is made, a segment is
shipped), and each kind preserves the invariant. From it: `ReportedSegmentIsTree`,
`TracesAreTrees` (the order of contexts rules out cycles), `ReferencesResolve` and
`SkipModeIsHonoured`.

**`RaiiTracingProofs`** carries `TracingInv` over to applications with scope objects
and adds that the scopes of a request are exactly its unfinished spans, outermost
first (`ScopesMatch`). From it: `NoScopeAfterReport`, `ScopesDecideReadiness`, and
`ScopedTracesAreTrees`, which proves again what `TracesAreTrees` says, of this
next-state relation.

**`PropagationProofs`** proves the parsers for header values of every length over any
alphabet. The reference splits the value with hindsight, by counting separators.
`ReadSoFar` says that the loop has done so for the characters read:
the fields it has stored are the complete ones of that split, and `value` is the last.
The lemmas `FieldKept`, `FieldGrows` and `FieldEnds` say what one more character
does to a split. From it: `ParserTypeCorrect` and `ParsersAreExact`.
`OwnHeadersAreUnderstood` then needs no more steps of the loop: `OwnHeaderSplits`
divides what `encodeSpan` writes, by taking one field after the other off its
front (`FieldInFront`). `PropagationAssumption` says of the codec what
this needs: texts are made of characters of the alphabet, contain no separator
and read back, and a span id is an integer. For Base64 the last two are
`NoSeparator` and `RoundTrip`, proved in

**`Base64Proofs`**, for byte strings and texts of every length whose double still
fits a `size_t`, as `encode` and the allocator need (`Base64Assumption`). The
encoder's output is described digit by digit, independently of the loop; the
decoder's invariant says which bytes of the result are complete and which bits of
the last one are there. `DecodingUndoesEncoding`, `EncodedHasNoSeparator`,
`DecoderReadsItsText`, `DecoderAssertHolds` (the `assert` of the source) and
`CodecTypeCorrect`. `DecoderIsExact` is `DecodeExact`: the reference reads text and
bytes as strings of bits, the invariant (`Complete`) says which two digits each
finished byte is made of, and `BytesDenote` goes from digits to bits.
`NotCanonical` and `InvalidDigit` are the other direction: what the decoder refuses
has an invalid digit, a digit without a byte or bits without a meaning.

**`RandomGeneratorProofs`**, for every set of threads, every buffer of at least
sixteen bytes and any number of ids (`BufferAssumption`):

- `IdsShareNoByte`: `FreshBytes`. By itself it says nothing of the next id; the
  strengthening says that the bytes of returned ids lie before the point the next
  id is taken from (`IssuedAreSpent`), and that the thread's sixteen bytes are the
  ones right before the index (`TakenInOrder`).
- `IdsAreWellFormed`: `UuidFormat`. `Formed` says of an id under construction which
  places are written and from which byte; `Layout` says where the code
  puts each byte.

**`TimeProofs`**, for every interval, resolution and passage of time
(`ClockAssumption`, `IntervalAssumption`). `TimerIsNeverEarly` and
`TimerIsNeverLate`: `prev_time_` is the cut reading of the moment the timer last
fired; lemmas bound what cutting loses in a reading and in a difference.
`SpanTimesMeasure` and `LogsAreInOrder`: readings of one clock that was not set
in between differ by the time that passed (`ReadingsInv`), a stamp is a cut
reading (`StampsInv`), and stamps are stored in the order of the calls (`OrderInv`).

**`SamplesProofs`**, for any number of requests with and without a header, any
bounds of the reporters and any names (`SamplesAssumption`: the tracers, names and
target of the two programs exist, and `sample_op1` and `sample_op3` have no ignored
suffix, since neither program configures one). `SamplesInv` is `RaiiInv` with what
the place of a thread in its program says of the thread's context, how many spans it
has and how many of its scopes are open (`PingsInv`, `HandlersInv`; `Continues` and
`FromPing` lead from a handler's context over its header to the ping's exit span);
that no two threads share a context (`OwnContexts`), without which a step of one
thread could disturb what is said of another; and that the queues of both reporters,
wire and backlog, hold segments of different reported contexts (`ReportersInv`). A
step touches the context of its own thread only (`TouchesOnly`), so for the other
threads there is one argument instead of one for each pair of actions. From it:

- `ReportsAreMade`: `NothingUnreported`; when `report` is called, no scope is open.
- `CollectedAtMostOnce`: `CollectedOnce`. What is accepted comes from a context that
  was not reported before, so it is in neither queue (`NotSentIsFresh`).
- `CollectedSegmentsBelong`: `CollectedBelongsToPing`.
- `SamplesUseScopes`: `SamplesSpec => RaiiSpec`, step by step. The programs call the
  library only as `RaiiTracing` allows, so its theorems are about them too;
  `SampleTracesAreTrees` is one of those.

Only model-checked:

- `DrainContinues`, `ResetTerminates`, `PingsEnd`: liveness rests on fairness and
  `ENABLED`, out of the prover's reach.
- The six violated properties have counterexamples, not proofs.

## Not modelled

Span data that no code reads back (tags, log texts, peer, layer, component id,
error flag), log formatting (`logMessage`, `trace_log.h`), authentication metadata,
TLS, the pace of reconnection, the build. Use of a context after it was reported
is excluded by the repository's README, and a second entry span of a context by
`tracing_context.h:227`. Requests with a well-formed header of another agent do not
reach the sample server of `Samples`; `TracingContext` has contexts made from any
header of this library. What `std::random_device` and gRPC do inside is external.
The configuration discovery service appears in the documentation and in
`config.proto` only. `bridge.py` of the end-to-end test is another agent.

## Plan

1. Done: client, abstract reporter, contexts and headers, scope objects, header
   parsers, Base64, ids, times, timer, and the sample programs with both reporters.
2. Done: proofs of the client, its refinement of `LossyReporter`, contexts, scope
   objects, parsers, codec, ids and times, and of the sample programs as applications
   of `RaiiTracing` with two reporters.
3. Every safety property the runs check now has a theorem. What remains is the
   liveness of the client and of the samples, which only TLC checks.

--------------------------- MODULE LossyReporter ---------------------------
(***************************************************************************)
(* What a segment reporter promises to a tracer, without threads, flags,   *)
(* streams or a completion queue: a bounded first-in first-out backlog,    *)
(* one message in flight at a time, each message transmitted at most once  *)
(* and then counted once, as sent or as dropped. Closing gives up what has *)
(* not been handed to the transport.                                       *)
(***************************************************************************)
EXTENDS Naturals, Sequences

CONSTANTS
  Message,       \* what is reported
  RefuseAbove,   \* a message is refused only when more than this are waiting
  Room           \* the largest backlog

VARIABLES
  backlog,     \* accepted and not yet transmitted
  wire,        \* transmitted, in order
  in_flight,   \* the last message of wire is not acknowledged yet
  sent,        \* messages acknowledged
  dropped,     \* messages refused or lost
  open         \* the reporter has not been closed

reporterVars == <<backlog, wire, in_flight, sent, dropped, open>>

Init ==
  /\ backlog = <<>> /\ wire = <<>>
  /\ in_flight = FALSE
  /\ sent = 0 /\ dropped = 0
  /\ open = TRUE

Accept(m) ==
  /\ open /\ Len(backlog) < Room
  /\ backlog' = Append(backlog, m)
  /\ UNCHANGED <<wire, in_flight, sent, dropped, open>>

Refuse ==
  /\ open /\ Len(backlog) > RefuseAbove
  /\ dropped' = dropped + 1
  /\ UNCHANGED <<backlog, wire, in_flight, sent, open>>

Transmit ==
  /\ ~in_flight /\ backlog # <<>>
  /\ in_flight' = TRUE
  /\ wire' = Append(wire, Head(backlog))
  /\ backlog' = Tail(backlog)
  /\ UNCHANGED <<sent, dropped, open>>

Acknowledge ==
  /\ in_flight /\ in_flight' = FALSE
  /\ sent' = sent + 1
  /\ UNCHANGED <<backlog, wire, dropped, open>>

Lose ==
  /\ in_flight /\ in_flight' = FALSE
  /\ dropped' = dropped + 1
  /\ UNCHANGED <<backlog, wire, sent, open>>

(* A message already on its way to the transport may survive.              *)
Close ==
  /\ open /\ open' = FALSE
  /\ \E n \in {0, 1} :
       n <= Len(backlog) /\ backlog' = SubSeq(backlog, 1, n)
  /\ UNCHANGED <<wire, in_flight, sent, dropped>>

Next ==
  \/ \E m \in Message : Accept(m)
  \/ Refuse \/ Transmit \/ Acknowledge \/ Lose \/ Close

Spec == Init /\ [][Next]_reporterVars
=============================================================================

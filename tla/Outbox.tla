------------------------------- MODULE Outbox -------------------------------
(***************************************************************************)
(* What the dispatcher promises of every delivery, whoever attempts it:    *)
(* scheduler and workers, an Advance, a DeliverNow.  The promise is that   *)
(* of the journal's statuses (src/internal/webhook/log.go:10) and of the   *)
(* comments at Schedule, attempt, CancelSession and CancelAll; Dispatcher  *)
(* implements it.                                                          *)
(***************************************************************************)
EXTENDS Integers

CONSTANTS
  Delivery,     \* the deliveries there may ever be
  MaxAttempts   \* requests a delivery may cost

ASSUME OutboxAssumption == MaxAttempts \in Nat \ {0}

VARIABLES
  state,     \* what the journal says of each delivery
  taken,     \* the deliveries somebody is about to send a request for
  sending,   \* the deliveries whose request is on its way
  tries,     \* requests sent so far
  dropped    \* the deliveries somebody canceled

outboxVars == <<state, taken, sending, tries, dropped>>

Open == {"pending", "retrying"}

OutboxInit ==
  /\ state = [d \in Delivery |-> "none"]
  /\ taken = {}
  /\ sending = {}
  /\ tries = [d \in Delivery |-> 0]
  /\ dropped = {}

\* A delivery is queued, once.
Enqueue(d) ==
  /\ state[d] = "none"
  /\ state' = [state EXCEPT ![d] = "pending"]
  /\ UNCHANGED <<taken, sending, tries, dropped>>

\* A delivery is taken up only while it is open, not canceled, not taken up or on
\* its way already, and not beyond its budget.
Take(d) ==
  /\ state[d] \in Open
  /\ d \notin taken \cup sending \cup dropped
  /\ tries[d] < MaxAttempts
  /\ taken' = taken \cup {d}
  /\ UNCHANGED <<state, sending, tries, dropped>>

\* What was taken up is sent, even if it is canceled meanwhile.
Send(d) ==
  /\ d \in taken
  /\ taken' = taken \ {d}
  /\ sending' = sending \cup {d}
  /\ tries' = [tries EXCEPT ![d] = @ + 1]
  /\ UNCHANGED <<state, dropped>>

\* Exactly the last request of the budget makes a refusal final.  The outcome of
\* a request that was on its way is recorded even if the delivery is canceled.
Outcomes(d) ==
  {"delivered", IF tries[d] < MaxAttempts THEN "retrying" ELSE "failed"}

Record(d) ==
  /\ d \in sending
  /\ sending' = sending \ {d}
  /\ \E o \in Outcomes(d) : state' = [state EXCEPT ![d] = o]
  /\ UNCHANGED <<taken, tries, dropped>>

\* A delivery is canceled, whatever became of it meanwhile.
Cancel(d) ==
  /\ state[d] # "none"
  /\ state' = [state EXCEPT ![d] = "canceled"]
  /\ dropped' = dropped \cup {d}
  /\ UNCHANGED <<taken, sending, tries>>

OutboxNext ==
  \E d \in Delivery :
    Enqueue(d) \/ Take(d) \/ Send(d) \/ Record(d) \/ Cancel(d)

OutboxSpec == OutboxInit /\ [][OutboxNext]_outboxVars
=============================================================================

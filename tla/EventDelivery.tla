----------------------------- MODULE EventDelivery -----------------------------
(***************************************************************************)
(* What the event bus promises of an accepted upload, with no locks, no    *)
(* markers, no consumers and no pending lists: an event is on the log; it  *)
(* is handed out in log order, again and again, until it is settled; every *)
(* time it is handed out pays for one start at most, up to a limit past    *)
(* which it is only dead-lettered; and once settled it is neither handed   *)
(* out nor started again, except by the upload that is still publishing    *)
(* it.  EventRelay implements this.                                        *)
(***************************************************************************)
EXTENDS Integers, Sequences

CONSTANTS Contents, Events, MaxDeliveries

VARIABLES
    log,         \* the accepted contents; an event is its position
    open,        \* the event its upload may still start itself, if any
    deliveries,  \* how often an event was handed out
    starts,      \* how often it was started
    dead,        \* how often it was dead-lettered
    settled      \* the events that are done with

edvars == <<log, open, deliveries, starts, dead, settled>>

Outstanding == 1..Len(log) \ settled

\* Starts that are paid for: one by the upload when it had its turn, and one by
\* every time the event was handed out.
Paid(e) == deliveries[e] + IF e \in open THEN 0 ELSE 1

Init ==
    /\ log = <<>> /\ open = {} /\ settled = {}
    /\ deliveries = [e \in Events |-> 0]
    /\ starts = [e \in Events |-> 0]
    /\ dead = [e \in Events |-> 0]

Accept(c) ==
    /\ open = {}
    /\ log' = Append(log, c)
    /\ open' = {Len(log) + 1}
    /\ UNCHANGED <<deliveries, starts, dead, settled>>

\* The upload starts its event, or does not.
Close ==
    /\ open # {}
    /\ open' = {}
    /\ \/ starts' = starts
       \/ \E e \in open : starts' = [starts EXCEPT ![e] = @ + 1]
    /\ UNCHANGED <<log, deliveries, dead, settled>>

\* No event is handed out for the first time before those ahead of it.
Deliver(S) ==
    /\ S \subseteq Outstanding
    /\ \A e \in S : deliveries[e] = 0 => \A f \in 1..(e - 1) : f \in S \/ deliveries[f] > 0
    /\ deliveries' = [e \in Events |-> deliveries[e] + IF e \in S THEN 1 ELSE 0]
    /\ UNCHANGED <<log, open, starts, dead, settled>>

Start(e) ==
    /\ deliveries[e] \in 1..MaxDeliveries
    /\ starts[e] < Paid(e)
    /\ starts' = [starts EXCEPT ![e] = @ + 1]
    /\ UNCHANGED <<log, open, deliveries, dead, settled>>

DeadLetter(e) ==
    /\ deliveries[e] > MaxDeliveries
    /\ dead' = [dead EXCEPT ![e] = @ + 1]
    /\ UNCHANGED <<log, open, deliveries, starts, settled>>

Settle(e) ==
    /\ starts[e] > 0 \/ dead[e] > 0
    /\ settled' = settled \cup {e}
    /\ UNCHANGED <<log, open, deliveries, starts, dead>>

Next ==
    \/ \E c \in Contents : Accept(c)
    \/ Close
    \/ \E S \in SUBSET Outstanding : Deliver(S)
    \/ \E e \in Outstanding : Start(e) \/ DeadLetter(e) \/ Settle(e)

Spec == Init /\ [][Next]_edvars

================================================================================

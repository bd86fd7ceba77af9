----------------------------- MODULE DatasetRelease -----------------------------
(***************************************************************************)
(* What the pipeline promises of the raw objects it is given, with no      *)
(* stages, attempts, files or reports: an execution takes one decision at  *)
(* most, it follows from the raw object alone, its pass rate over the raw  *)
(* rows included, no decision is taken before the rows the contract        *)
(* refuses are set aside, and what is released is the first good row of    *)
(* each key that has text.  DatasetPipeline implements this except where a *)
(* validation dies after overwriting the rows it read.                     *)
(***************************************************************************)
EXTENDS Integers, FiniteSets, Sequences

CONSTANTS Executions, Objects, Valid, Filled, Textual, KeyOf,
          MinRecords, CompletenessMin, PassRateMin, CoverageMin

VARIABLES
    source,      \* the raw object of an execution
    decision,    \* what it came to
    aside,       \* its rows on record as refused by the contract
    served       \* what was released, in order

rvars == <<source, decision, aside, served>>

Good(S) == S \cap Valid
Offer(S) == {r \in Good(S) : ~\E q \in Good(S) : q < r /\ KeyOf[q] = KeyOf[r]}

Share(part, whole, min) == (whole = 0 => min = 0) /\ part * 100 >= min * whole

Clean(S) == Share(Cardinality(Good(S)), Cardinality(S), PassRateMin)

\* No threshold on duplicates: the offer has none.
Fit(S) ==
    LET size == Cardinality(Offer(S))
    IN  /\ size >= MinRecords
        /\ Cardinality(Offer(S) \cap Filled) * 100 >= CompletenessMin * size
        /\ Share(Cardinality(Offer(S) \cap Textual), size, CoverageMin)

Init ==
    /\ source \in [Executions -> Objects]
    /\ decision = [x \in Executions |-> "open"]
    /\ aside = [x \in Executions |-> {}]
    /\ served = <<>>

Bad(x) == source[x] \ Valid

SetAside(x) ==
    /\ decision[x] = "open"
    /\ aside' = [aside EXCEPT ![x] = @ \cup Bad(x)]
    /\ UNCHANGED <<source, decision, served>>

Decide(x, what) ==
    /\ decision[x] = "open"
    /\ decision' = [decision EXCEPT ![x] = what]
    /\ UNCHANGED <<source, aside>>

Release(x) ==
    /\ Decide(x, "released")
    /\ Fit(source[x]) /\ Clean(source[x])
    /\ Bad(x) \subseteq aside[x]
    /\ served' = Append(served, [by |-> x, rows |-> Offer(source[x]) \cap Textual])

Refuse(x) ==
    /\ Decide(x, "refused")
    /\ ~(Fit(source[x]) /\ Clean(source[x]))
    /\ Bad(x) \subseteq aside[x]
    /\ UNCHANGED served

\* A timeout or a crash can end an execution at any time.
Fail(x) == Decide(x, "failed") /\ UNCHANGED served

Next == \E x \in Executions : SetAside(x) \/ Release(x) \/ Refuse(x) \/ Fail(x)

Spec == Init /\ [][Next]_rvars

=================================================================================

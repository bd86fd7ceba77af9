------------------------------ MODULE BlueGreen ------------------------------
(***************************************************************************)
(* What blue/green promotion promises a reader of {dataset}__prod, with no *)
(* ledger rows, jobs or requests: each dataset serves one version at a     *)
(* time, only a passed one, only one that is stored; it moves to a version *)
(* under promotion, or back to one whose promotion is on record.           *)
(* PromotionEngine implements this when no two of its jobs work on one     *)
(* dataset at a time.                                                      *)
(***************************************************************************)
CONSTANTS Datasets, Versions, DatasetOf, Passing, NoVersion

VARIABLES
    serving,     \* serving[d]: the version behind the production alias
    stored,      \* the versions that have a collection
    candidates,  \* the versions under promotion
    approved     \* the versions with a promotion on record

bgvars == <<serving, stored, candidates, approved>>

Init ==
    /\ serving = [d \in Datasets |-> NoVersion]
    /\ stored = {} /\ candidates = {} /\ approved = {}

Begin(v) ==
    /\ candidates' = candidates \cup {v}
    /\ UNCHANGED <<serving, stored, approved>>

Stage(v) ==
    /\ v \in candidates
    /\ stored' = stored \cup {v}
    /\ UNCHANGED <<serving, candidates, approved>>

Promote(v) ==
    /\ v \in candidates \cap stored
    /\ serving' = [serving EXCEPT ![DatasetOf[v]] = v]
    /\ UNCHANGED <<stored, candidates, approved>>

\* The promotion of the version being served goes on record.
Approve(v) ==
    /\ v \in candidates /\ serving[DatasetOf[v]] = v
    /\ approved' = approved \cup {v}
    /\ UNCHANGED <<serving, stored, candidates>>

\* Done, or given up wherever it was.
End(v) ==
    /\ candidates' = candidates \ {v}
    /\ UNCHANGED <<serving, stored, approved>>

Rollback(v) ==
    /\ v \in stored \cap approved
    /\ v # serving[DatasetOf[v]]
    /\ serving' = [serving EXCEPT ![DatasetOf[v]] = v]
    /\ UNCHANGED <<stored, candidates, approved>>

\* A collection is dropped only while nobody reads it.
Retire(v) ==
    /\ \A d \in Datasets : serving[d] # v
    /\ stored' = stored \ {v}
    /\ UNCHANGED <<serving, candidates, approved>>

Next ==
    \/ \E v \in Passing : \/ Begin(v) \/ Stage(v) \/ Promote(v) \/ Approve(v) \/ End(v)
                          \/ Rollback(v)
    \/ \E v \in Versions : Retire(v)

Spec == Init /\ [][Next]_bgvars

\* What is served is stored and passed its gates: the reader never meets an
\* empty alias target or an unchecked version.  (engine.py lines 5-10)
ServesStored ==
    \A d \in Datasets : serving[d] # NoVersion => serving[d] \in stored \cap Passing

==============================================================================

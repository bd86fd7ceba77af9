--------------------------- MODULE PromotionEngine ---------------------------
(***************************************************************************)
(* Blue/green promotion and rollback (controlplane/promotion/engine.py)    *)
(* over the vector store's collections and aliases                         *)
(* (controlplane/stores/vector_store.py) and the registry's promotion      *)
(* ledger and version status (controlplane/stores/registry.py).            *)
(*                                                                         *)
(* A job is one run of the promote stage (runner.py cmd_promote) or one    *)
(* rollback (the emergency flow's container, or a gateway thread).  Jobs   *)
(* share nothing but the two stores, so each store request is one action   *)
(* and every interleaving of requests is possible.  A job that raises, is  *)
(* killed or loses its connection stops where it is: nothing resumes it.   *)
(***************************************************************************)
EXTENDS Integers, FiniteSets, Sequences

CONSTANTS
    Jobs,          \* slots in which promote and rollback jobs run
    Datasets,
    Versions,      \* dataset versions, numbered in the order of their collection names
    DatasetOf,     \* [Versions -> Datasets]
    Listed,        \* [Datasets -> SUBSET Versions]: collections named {dataset}__...
    Passing,       \* the versions whose quality report says "passed"
    NoVersion,     \* Python's None
    RETAIN_VERSIONS,
    HistoryLimit,  \* LIMIT of the promotion history query
    MaxLedger      \* model bound: no job starts once the ledger is this long

ASSUME DatasetsAssumption == Datasets # {}
ASSUME VersionsAreOrdered == Versions \subseteq Nat
ASSUME NoVersionAssumption == NoVersion \notin Versions
ASSUME DatasetOfAssumption == DatasetOf \in [Versions -> Datasets]
ASSUME ListedAssumption ==
    /\ Listed \in [Datasets -> SUBSET Versions]
    /\ \A v \in Versions : v \in Listed[DatasetOf[v]]
ASSUME PassingAssumption == Passing \subseteq Versions
ASSUME BoundsAssumption ==
    RETAIN_VERSIONS \in Nat /\ HistoryLimit \in Nat \ {0} /\ MaxLedger \in Nat

VARIABLES
    alias,   \* alias[d]: the collection {d}__prod points at
    coll,    \* coll[v]: the version's collection and how much of it is written
    status,  \* status[v]: dataset_versions.status
    ledger,  \* controlplane.promotions in id order
    job      \* job[j]: the local variables of a running job

vars == <<alias, coll, status, ledger, job>>

Target == Versions \cup {NoVersion}
Decision == {"promoted", "rejected", "rolled_back"}
CollectionState == {"absent", "partial", "complete"}
Status == {"gated"} \cup Decision
Row == [version : Versions, decision : Decision, from : Target, to : Target]

\* What the job does next; "idle" is a slot without a job.
Step == {"idle", "create", "upsert", "read", "list", "choose", "probe", "switch",
         "record", "status", "expire", "drop"}

\* makes: the decision the job is to record; names: a collection listing it
\* holds, or what is left of it to drop; had: what the alias probe answered.
Job == [at : Step, makes : Decision, ds : Datasets, ver : Target, prev : Target,
        had : BOOLEAN, names : SUBSET Versions]

NoJob == [at |-> "idle", makes |-> "promoted", ds |-> CHOOSE d \in Datasets : TRUE,
          ver |-> NoVersion, prev |-> NoVersion, had |-> FALSE, names |-> {}]

Existing == {v \in Versions : coll[v] # "absent"}

Init ==
    /\ alias = [d \in Datasets |-> NoVersion]
    /\ coll = [v \in Versions |-> "absent"]
    /\ status = [v \in Versions |-> "gated"]
    /\ ledger = <<>>
    /\ job = [j \in Jobs |-> NoJob]

-----------------------------------------------------------------------------
(* The registry's promotion history and the rollback choice. *)

\* Ledger positions the history query returns: the newest HistoryLimit rows
\* with decision "promoted" of dataset d.
Window(d) ==
    LET promoted == {i \in DOMAIN ledger : /\ ledger[i].decision = "promoted"
                                           /\ DatasetOf[ledger[i].version] = d}
    IN  {i \in promoted : Cardinality({k \in promoted : k > i}) < HistoryLimit}

\* Versions may be promoted more than once: v's rows in the history, whether it
\* has any, and whether v's newest row is newer than all of w's.  The code keeps
\* one entry per version, at its newest row.
Promotions(d, v) == {i \in Window(d) : ledger[i].version = v}
InHistory(d, v) == Promotions(d, v) # {}
Newer(d, v, w) == \E i \in Promotions(d, v) : \A k \in Promotions(d, w) : k < i

\* Mutant of Candidates: "newest promoted that is not current".
CandidatesIgnoringOrder(d, serving, names) ==
    {v \in names : InHistory(d, v) /\ v # serving}

\* Mutant of Candidates: picks from the collections, not from the history.
CandidatesOffLedger(d, serving, names) ==
    {v \in names : DatasetOf[v] = d /\ v # serving}

\* The history entries strictly older than the serving version (all of them
\* when it has no entry) whose collection was in the listing.
Candidates(d, serving, names) ==
    {v \in names : /\ InHistory(d, v)
                   /\ v # serving
                   /\ InHistory(d, serving) => Newer(d, serving, v)}

\* Mutants of Expired: a forgotten current, a forgotten previous version, and a
\* window that does not count the kept versions.
ExpiredForgettingCurrent(d, current, previous, names) ==
    LET candidates == (names \cap Listed[d]) \ {previous}
        excess == Cardinality(candidates) - (RETAIN_VERSIONS - 1)
    IN  {v \in candidates : Cardinality({w \in candidates : w < v}) < excess}

ExpiredForgettingPrevious(d, current, previous, names) ==
    LET candidates == (names \cap Listed[d]) \ {current}
        excess == Cardinality(candidates) - (RETAIN_VERSIONS - 1)
    IN  {v \in candidates : Cardinality({w \in candidates : w < v}) < excess}

ExpiredCountingOnlyCandidates(d, current, previous, names) ==
    LET candidates == (names \cap Listed[d]) \ {current, previous}
        excess == Cardinality(candidates) - RETAIN_VERSIONS
    IN  {v \in candidates : Cardinality({w \in candidates : w < v}) < excess}

\* The collections the retention window lets go, given a listing: all but the
\* newest-named RETAIN_VERSIONS - |keep| of those not kept.
Expired(d, current, previous, names) ==
    LET keep == {current, previous} \ {NoVersion}
        candidates == (names \cap Listed[d]) \ keep
        excess == Cardinality(candidates) - (RETAIN_VERSIONS - Cardinality(keep))
    IN  {v \in candidates : Cardinality({w \in candidates : w < v}) < excess}

-----------------------------------------------------------------------------
(* Starting and losing jobs. *)

\* Mutant of StartPromote: the verdict is not looked at.
StartPromoteUngated(j, v) ==
    /\ job[j].at = "idle"
    /\ Len(ledger) < MaxLedger
    /\ job' = [job EXCEPT ![j] = [NoJob EXCEPT !.at = "create", !.ds = DatasetOf[v],
                                               !.ver = v]]
    /\ UNCHANGED <<alias, coll, status, ledger>>

StartPromote(j, v) ==
    /\ job[j].at = "idle"
    /\ Len(ledger) < MaxLedger
    /\ job' = [job EXCEPT ![j] =
                 [NoJob EXCEPT !.at = IF v \in Passing THEN "create" ELSE "read",
                               !.makes = IF v \in Passing THEN "promoted" ELSE "rejected",
                               !.ds = DatasetOf[v], !.ver = v]]
    /\ UNCHANGED <<alias, coll, status, ledger>>

StartRollback(j, d) ==
    /\ job[j].at = "idle"
    /\ Len(ledger) < MaxLedger
    /\ job' = [job EXCEPT ![j] = [NoJob EXCEPT !.at = "read", !.makes = "rolled_back",
                                               !.ds = d]]
    /\ UNCHANGED <<alias, coll, status, ledger>>

\* The process dies, or a request fails and the exception ends it.
Crash(j) ==
    /\ job[j].at # "idle"
    /\ job' = [job EXCEPT ![j] = NoJob]
    /\ UNCHANGED <<alias, coll, status, ledger>>

-----------------------------------------------------------------------------
(* stage *)

CreateCollection(j) ==
    /\ job[j].at = "create"
    /\ coll' = [coll EXCEPT ![job[j].ver] = IF @ = "absent" THEN "partial" ELSE @]
    /\ job' = [job EXCEPT ![j].at = "upsert"]
    /\ UNCHANGED <<alias, status, ledger>>

\* The batches, up to the last one; a batch into a dropped collection raises
\* (the job then has only Crash left).
Upsert(j) ==
    /\ job[j].at = "upsert"
    /\ coll[job[j].ver] # "absent"
    /\ coll' = [coll EXCEPT ![job[j].ver] = "complete"]
    /\ job' = [job EXCEPT ![j].at = "read"]
    /\ UNCHANGED <<alias, status, ledger>>

-----------------------------------------------------------------------------
(* decide and rollback *)

\* Both begin by reading where the alias points.
ReadAlias(j) ==
    /\ job[j].at = "read"
    /\ job' = [job EXCEPT ![j] =
                 [job[j] EXCEPT !.prev = alias[job[j].ds],
                                !.at = CASE job[j].makes = "promoted" -> "probe"
                                         [] job[j].makes = "rejected" -> "record"
                                         [] job[j].makes = "rolled_back" -> "list"]]
    /\ UNCHANGED <<alias, coll, status, ledger>>

ListCollections(j) ==
    /\ job[j].at = "list"
    /\ job' = [job EXCEPT ![j] = [job[j] EXCEPT !.names = Existing, !.at = "choose"]]
    /\ UNCHANGED <<alias, coll, status, ledger>>

\* Reads the history and takes its newest eligible entry.
ChooseTarget(j) ==
    LET d == job[j].ds
        choices == Candidates(d, job[j].prev, job[j].names)
    IN  /\ job[j].at = "choose"
        /\ \E v \in choices :
             /\ \A w \in choices \ {v} : Newer(d, v, w)
             /\ job' = [job EXCEPT ![j] =
                          [job[j] EXCEPT !.ver = v, !.names = {}, !.at = "probe"]]
        /\ UNCHANGED <<alias, coll, status, ledger>>

\* No eligible entry: the answer is "rollback_failed".
RollbackFailed(j) ==
    /\ job[j].at = "choose"
    /\ Candidates(job[j].ds, job[j].prev, job[j].names) = {}
    /\ job' = [job EXCEPT ![j] = NoJob]
    /\ UNCHANGED <<alias, coll, status, ledger>>

\* set_alias looks whether the alias exists ...
ProbeAlias(j) ==
    /\ job[j].at = "probe"
    /\ job' = [job EXCEPT ![j] =
                 [job[j] EXCEPT !.had = (alias[job[j].ds] # NoVersion), !.at = "switch"]]
    /\ UNCHANGED <<alias, coll, status, ledger>>

\* Mutant of SwitchAlias: the old alias is deleted by a request of its own.
SwitchAliasInTwo(j) ==
    /\ job[j].at = "switch"
    /\ coll[job[j].ver] # "absent"
    /\ IF job[j].had
         THEN /\ alias' = [alias EXCEPT ![job[j].ds] = NoVersion]
              /\ job' = [job EXCEPT ![j].had = FALSE]
         ELSE /\ alias' = [alias EXCEPT ![job[j].ds] = job[j].ver]
              /\ job' = [job EXCEPT ![j].at = "record"]
    /\ UNCHANGED <<coll, status, ledger>>

\* ... then sends [delete +] create in one atomic request.  Qdrant refuses a
\* missing collection and the deletion of a missing alias; a create-only
\* request over an alias made in between may be refused (Crash) or overwrite.
SwitchAlias(j) ==
    /\ job[j].at = "switch"
    /\ coll[job[j].ver] # "absent"
    /\ job[j].had => alias[job[j].ds] # NoVersion
    /\ alias' = [alias EXCEPT ![job[j].ds] = job[j].ver]
    /\ job' = [job EXCEPT ![j].at = "record"]
    /\ UNCHANGED <<coll, status, ledger>>

\* Mutant of RecordPromotion: a decision outside the ledger's vocabulary.
RecordPromotionMisnamed(j) ==
    /\ job[j].at = "record"
    /\ ledger' = Append(ledger,
                   [version |-> job[j].ver, decision |-> "switched", from |-> job[j].prev,
                    to |-> job[j].ver])
    /\ job' = [job EXCEPT ![j].at = "status"]
    /\ UNCHANGED <<alias, coll, status>>

RecordPromotion(j) ==
    /\ job[j].at = "record"
    /\ ledger' = Append(ledger,
                   [version |-> job[j].ver, decision |-> job[j].makes, from |-> job[j].prev,
                    to |-> IF job[j].makes = "rejected" THEN NoVersion ELSE job[j].ver])
    /\ job' = [job EXCEPT ![j].at = "status"]
    /\ UNCHANGED <<alias, coll, status>>

\* Mutant of UpdateStatus: a rollback marks the version it returned to.
UpdateStatusOfTarget(j) ==
    /\ job[j].at = "status"
    /\ status' = [status EXCEPT ![job[j].ver] = job[j].makes]
    /\ job' = [job EXCEPT ![j] = IF job[j].makes = "promoted"
                                   THEN [job[j] EXCEPT !.at = "expire"] ELSE NoJob]
    /\ UNCHANGED <<alias, coll, ledger>>

\* A rollback marks the version it left, if there was one; the others mark
\* their own.
UpdateStatus(j) ==
    LET marked == IF job[j].makes = "rolled_back" THEN job[j].prev ELSE job[j].ver
    IN  /\ job[j].at = "status"
        /\ status' = [v \in Versions |-> IF v = marked THEN job[j].makes ELSE status[v]]
        /\ job' = [job EXCEPT ![j] = IF job[j].makes = "promoted"
                                       THEN [job[j] EXCEPT !.at = "expire"] ELSE NoJob]
        /\ UNCHANGED <<alias, coll, ledger>>

-----------------------------------------------------------------------------
(* _cleanup_old_versions *)

ExpireCollections(j) ==
    LET gone == Expired(job[j].ds, job[j].ver, job[j].prev, Existing)
    IN  /\ job[j].at = "expire"
        /\ job' = [job EXCEPT ![j] = IF gone = {} THEN NoJob
                                       ELSE [job[j] EXCEPT !.names = gone, !.at = "drop"]]
        /\ UNCHANGED <<alias, coll, status, ledger>>

\* One drop request, oldest name first.  The request carries no condition: the
\* collection goes even if an alias has come to point at it, and that alias
\* then dangles or vanishes with it.
DropCollection(j) ==
    /\ job[j].at = "drop"
    /\ \E v \in job[j].names :
         LET rest == job[j].names \ {v}
         IN  /\ \A w \in rest : v < w
             /\ coll' = [coll EXCEPT ![v] = "absent"]
             /\ \/ alias' = alias
                \/ alias' = [d \in Datasets |-> IF alias[d] = v THEN NoVersion ELSE alias[d]]
             /\ job' = [job EXCEPT ![j] = IF rest = {} THEN NoJob
                                            ELSE [job[j] EXCEPT !.names = rest]]
    /\ UNCHANGED <<status, ledger>>

-----------------------------------------------------------------------------

Promote(j) ==
    \/ \E v \in Versions : StartPromote(j, v)
    \/ CreateCollection(j) \/ Upsert(j)
    \/ ExpireCollections(j) \/ DropCollection(j)

Rollback(j) ==
    \/ \E d \in Datasets : StartRollback(j, d)
    \/ ListCollections(j) \/ ChooseTarget(j) \/ RollbackFailed(j)

Shared(j) ==
    \/ ReadAlias(j) \/ ProbeAlias(j) \/ SwitchAlias(j)
    \/ RecordPromotion(j) \/ UpdateStatus(j) \/ Crash(j)

Next == \E j \in Jobs : Promote(j) \/ Rollback(j) \/ Shared(j)

Spec == Init /\ [][Next]_vars

-----------------------------------------------------------------------------
(* Properties under any interleaving and any crash. *)

TypeOK ==
    /\ alias \in [Datasets -> Target]
    /\ coll \in [Versions -> CollectionState]
    /\ status \in [Versions -> Status]
    /\ ledger \in Seq(Row)
    /\ job \in [Jobs -> Job]

\* Production only ever serves a version of its own dataset whose quality
\* gates passed: promote switches after the verdict, rollback only returns to
\* what a promotion recorded.  (engine.py decide and rollback)
GatedServing ==
    \A d \in Datasets : alias[d] # NoVersion => /\ alias[d] \in Passing
                                               /\ DatasetOf[alias[d]] = d

\* A version's status is never ahead of the ledger: whatever a crash cuts off,
\* a decided status has the ledger row that explains it, the row being written
\* first.  (engine.py lines 68-76, 87-95, 160-169)
StatusJustified ==
    \A v \in Versions :
        /\ status[v] \in {"promoted", "rejected"} =>
              \E i \in DOMAIN ledger : ledger[i].version = v /\ ledger[i].decision = status[v]
        /\ status[v] = "rolled_back" =>
              \E i \in DOMAIN ledger : ledger[i].from = v /\ ledger[i].decision = "rolled_back"

\* The ledger explains every rollback: its target has an earlier promotion
\* row.  (engine.py rollback: "the promotion ledger is the source of truth")
RollbacksFollowPromotions ==
    \A i \in DOMAIN ledger : ledger[i].decision = "rolled_back" =>
        \E k \in 1..(i - 1) : /\ ledger[k].decision = "promoted"
                              /\ ledger[k].version = ledger[i].to

-----------------------------------------------------------------------------
(* Properties of jobs that run one at a time, crashes included. *)

\* An alias, once promoted to, points at a collection that exists: "the prod
\* alias never points at nothing".  (engine.py lines 123-124)
ProdServes ==
    \A d \in Datasets :
        (\E i \in DOMAIN ledger : /\ ledger[i].decision = "promoted"
                                  /\ DatasetOf[ledger[i].version] = d)
        => alias[d] \in Existing

\* A rollback switches to a strictly older ledger position than the version it
\* takes out of production: repeated rollbacks walk back and never bounce.
\* (engine.py lines 118-122)
RollbackStepsBack ==
    [][\A j \in Jobs :
         LET d == job[j].ds
         IN  SwitchAlias(j) /\ job[j].makes = "rolled_back" /\ InHistory(d, alias[d])
             => Newer(d, alias[d], alias'[d])]_vars

\* The cleanup of job j runs to its end in this step.
FinishesPromotion(j) ==
    (ExpireCollections(j) \/ DropCollection(j)) /\ job'[j].at = "idle"

\* What job j's dataset has in names beside what j has promoted: the old ones.
OldOnes(j, names) == (names \cap Listed[job[j].ds]) \ {job[j].ver}

\* A promotion that finishes leaves no more than RETAIN_VERSIONS old collections,
\* those earlier crashes left behind included: "older ones are garbage-collected"
\* (docs/architecture.md lines 107-108).  The other half of that sentence, that
\* RETAIN_VERSIONS old ones are kept, is not claimed: engine.py lines 183-187
\* count the promoted collection among them, so that a cleanup that drops
\* anything leaves RETAIN_VERSIONS - 1 (PromotionEngine_serial_proofs,
\* OldOnesAreOneFewer).  (engine.py lines 174-190)
RetentionHonoured ==
    [][\A j \in Jobs : FinishesPromotion(j) =>
         Cardinality(OldOnes(j, Existing')) <= RETAIN_VERSIONS]_vars

\* A promotion that finishes and reports rollback_available leaves the version
\* it replaced in place, so that a rollback starting now would find a target,
\* provided the replaced version was itself recorded and is still within the
\* history query's limit.  (engine.py lines 77-84)
InstantRollback ==
    [][\A j \in Jobs :
         LET d == job[j].ds
         IN  FinishesPromotion(j) /\ job[j].prev # job[j].ver /\ InHistory(d, job[j].prev)
             => /\ job[j].prev \in Existing'
                /\ job[j].prev \in Candidates(d, job[j].ver, Existing')]_vars

\* A job from its verdict to its status; the cleanup comes after.
UnderPromotion(r) == r.makes = "promoted" /\ r.at \notin {"idle", "expire", "drop"}

InPromotion == {job[j].ver : j \in {k \in Jobs : UnderPromotion(job[k])}}
OnRecord == {v \in Versions : \E i \in DOMAIN ledger :
               ledger[i].version = v /\ ledger[i].decision = "promoted"}

\* The abstract promise, read off the stores and the running jobs.  It holds when
\* no two jobs work on one dataset at a time: every request, crash and cleanup is a
\* step or a stutter of BlueGreen.  (engine.py lines 1-11)
Abstract == INSTANCE BlueGreen WITH
    serving <- alias, stored <- Existing, candidates <- InPromotion, approved <- OnRecord

ImplementsBlueGreen == Abstract!Spec

=============================================================================

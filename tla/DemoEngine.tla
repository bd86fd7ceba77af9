------------------------------ MODULE DemoEngine ------------------------------
(***************************************************************************)
(* The in-memory control plane behind the interactive console              *)
(* (controlplane/demo.py, services/gateway/app/routers/demo.py): the whole *)
(* pipeline, rollback, search and reset over in-memory stores.             *)
(*                                                                         *)
(* The handlers run on the gateway's thread pool and one lock serialises   *)
(* them.  A pipeline run keeps the lock from its first stage to its last,  *)
(* one action per stage; a search keeps it for two reads; rollback and     *)
(* reset are one action each.  Nothing raises while the lock is held.      *)
(* Dataset names are taken not to nest (see engine_nested_names).          *)
(***************************************************************************)
EXTENDS Integers, FiniteSets, Sequences

CONSTANTS
    Threads,         \* threads that serve requests
    NoThread,        \* holder of the free lock
    Datasets,
    Schemas,         \* what the fingerprint of a batch may be
    NoSchema,        \* Python's None
    NoVersion,       \* Python's None
    RETAIN_VERSIONS,
    HistoryLimit,    \* limit of get_promotion_history
    MaxRuns,         \* model bound on pipeline runs
    MaxLedger        \* model bound: no rollback once the ledger is this long

ASSUME NoThreadAssumption == NoThread \notin Threads
ASSUME DatasetsAssumption == Datasets # {}
ASSUME NoSchemaAssumption == NoSchema \notin Schemas
ASSUME NoVersionAssumption == NoVersion \notin Nat
ASSUME BoundsAssumption ==
    /\ RETAIN_VERSIONS \in Nat /\ HistoryLimit \in Nat \ {0}
    /\ MaxRuns \in Nat /\ MaxLedger \in Nat

VARIABLES
    lock,         \* the thread that holds the engine's lock
    call,         \* call[t]: the request thread t is in
    minted,       \* version ids minted so far; versions are numbered by it
    versions,     \* _MemRegistry.versions
    ledger,       \* _MemRegistry.promotions
    alias,        \* alias[d]: the version whose collection {d}__prod points at
    collections   \* the versions that have a collection

registry == <<versions, ledger>>
vectors == <<alias, collections>>
vars == <<lock, call, minted, registry, vectors>>

Versions == 1..MaxRuns
Target == Versions \cup {NoVersion}
Decision == {"promoted", "rejected", "rolled_back"}
Status == {"unknown", "ingested", "validated", "enriched", "embedded", "gated"} \cup Decision
Row == [dataset : Datasets, status : Status, schema : Schemas \cup {NoSchema}]
LedgerRow == [version : Versions, decision : Decision, from : Target, to : Target]

\* sound: the batch passes every gate but drift.
Batch == [schema : Schemas, sound : BOOLEAN]
NoBatch == [schema |-> NoSchema, sound |-> FALSE]

RunStep == {"validate", "enrich", "embed", "gate", "decide"}
Step == {"idle", "scan", "answered"} \cup RunStep

\* named, hits: the collection a search answers with, and the one its hits are of.
Call == [at : Step, ds : Datasets, ver : Target, batch : Batch \cup {NoBatch},
         drifted : BOOLEAN, passed : BOOLEAN, named : Target, hits : Target]

AnyDataset == CHOOSE d \in Datasets : TRUE
NoRow == [dataset |-> AnyDataset, status |-> "unknown", schema |-> NoSchema]
NoCall == [at |-> "idle", ds |-> AnyDataset, ver |-> NoVersion,
           batch |-> NoBatch, drifted |-> FALSE, passed |-> FALSE,
           named |-> NoVersion, hits |-> NoVersion]

Cleared ==
    /\ versions' = [v \in Versions |-> NoRow]
    /\ ledger' = <<>>
    /\ alias' = [d \in Datasets |-> NoVersion]
    /\ collections' = {}

Init ==
    /\ lock = NoThread /\ call = [t \in Threads |-> NoCall] /\ minted = 0
    /\ versions = [v \in Versions |-> NoRow]
    /\ ledger = <<>>
    /\ alias = [d \in Datasets |-> NoVersion]
    /\ collections = {}

\* Mutant of Free: the lock is not waited for.
FreeUnlocked(t) == call[t].at = "idle"

\* Thread t can take a request into the lock; it is at this step inside the lock.
Free(t) == lock = NoThread /\ call[t].at = "idle"
Holds(t, step) == lock = t /\ call[t].at = step

-----------------------------------------------------------------------------
(* What the registry answers. *)

Registered(d) == {v \in Versions : versions[v].status # "unknown" /\ versions[v].dataset = d}

\* Mutant of LastPromoted: whatever was decided last.
LastPromotedOrNot(d) ==
    {v \in Registered(d) :
       /\ versions[v].status \in Decision
       /\ \A w \in Registered(d) : versions[w].status \in Decision => w <= v}

\* get_last_promoted_schema_hash: the newest version whose status is "promoted".
LastPromoted(d) ==
    {v \in Registered(d) :
       /\ versions[v].status = "promoted"
       /\ \A w \in Registered(d) : versions[w].status = "promoted" => w <= v}

Drifted(d, schema) == \E v \in LastPromoted(d) : versions[v].schema # schema

\* get_promotion_history, as ledger positions: a version's newest promotion row,
\* for the HistoryLimit versions whose row is newest.
PromotionRows(d) ==
    {i \in DOMAIN ledger : /\ ledger[i].decision = "promoted"
                           /\ versions[ledger[i].version].dataset = d}
NewestRows(d) ==
    {i \in PromotionRows(d) :
       \A k \in PromotionRows(d) : ledger[k].version = ledger[i].version => k <= i}
History(d) ==
    {i \in NewestRows(d) : Cardinality({k \in NewestRows(d) : k > i}) < HistoryLimit}

-----------------------------------------------------------------------------
(* PromotionEngine over the in-memory stores. *)

\* Mutant of Candidates: "newest promoted that is not current".
CandidatesIgnoringOrder(d) ==
    {i \in History(d) : ledger[i].version # alias[d] /\ ledger[i].version \in collections}

\* The history strictly older than the serving version (all of it when that is
\* not in it) whose collection exists.
Candidates(d) ==
    {i \in History(d) : /\ ledger[i].version # alias[d]
                        /\ ledger[i].version \in collections
                        /\ \A k \in History(d) : ledger[k].version = alias[d] => i < k}

\* Mutant of Expired: the previous version is a candidate like any other.
ExpiredForgettingPrevious(d, current, previous, stored) ==
    LET candidates == {v \in stored : versions[v].dataset = d} \ {current}
        excess == Cardinality(candidates) - (RETAIN_VERSIONS - 1)
    IN  {gone \in SUBSET candidates :
           Cardinality(gone) = IF excess < 0 THEN 0
                               ELSE IF excess > Cardinality(candidates)
                                      THEN Cardinality(candidates) ELSE excess}

\* The sets the cleanup may drop.  It takes the first names, and the names of ids
\* minted within one second sort by their random suffix.
Expired(d, current, previous, stored) ==
    LET keep == {current, previous} \ {NoVersion}
        candidates == {v \in stored : versions[v].dataset = d} \ keep
        excess == Cardinality(candidates) - (RETAIN_VERSIONS - Cardinality(keep))
    IN  {gone \in SUBSET candidates :
           Cardinality(gone) = IF excess < 0 THEN 0
                               ELSE IF excess > Cardinality(candidates)
                                      THEN Cardinality(candidates) ELSE excess}

-----------------------------------------------------------------------------
(* run_pipeline *)

Ingest(t, d, b) ==
    /\ Free(t)
    /\ minted < MaxRuns
    /\ minted' = minted + 1
    /\ lock' = t
    /\ versions' = [versions EXCEPT ![minted + 1] =
                      [dataset |-> d, status |-> "ingested", schema |-> NoSchema]]
    /\ call' = [call EXCEPT ![t] = [NoCall EXCEPT !.at = "validate", !.ds = d,
                                                  !.ver = minted + 1, !.batch = b]]
    /\ UNCHANGED <<ledger, vectors>>

\* The batch is compared with the last promoted version, then its fingerprint kept.
Validate(t) ==
    LET v == call[t].ver
    IN  /\ Holds(t, "validate")
        /\ call' = [call EXCEPT ![t].at = "enrich",
                                ![t].drifted = Drifted(call[t].ds, call[t].batch.schema)]
        /\ versions' = [versions EXCEPT ![v].status = "validated",
                                        ![v].schema = call[t].batch.schema]
        /\ UNCHANGED <<lock, minted, ledger, vectors>>

Enrich(t) ==
    /\ Holds(t, "enrich")
    /\ call' = [call EXCEPT ![t].at = "embed"]
    /\ versions' = [versions EXCEPT ![call[t].ver].status = "enriched"]
    /\ UNCHANGED <<lock, minted, ledger, vectors>>

Embed(t) ==
    /\ Holds(t, "embed")
    /\ call' = [call EXCEPT ![t].at = "gate"]
    /\ versions' = [versions EXCEPT ![call[t].ver].status = "embedded"]
    /\ UNCHANGED <<lock, minted, ledger, vectors>>

Gate(t) ==
    /\ Holds(t, "gate")
    /\ call' = [call EXCEPT ![t].at = "decide",
                            ![t].passed = call[t].batch.sound /\ ~call[t].drifted]
    /\ versions' = [versions EXCEPT ![call[t].ver].status = "gated"]
    /\ UNCHANGED <<lock, minted, ledger, vectors>>

\* stage, then decide with its cleanup.
Promote(t) ==
    LET d == call[t].ds
        v == call[t].ver
    IN  /\ Holds(t, "decide") /\ call[t].passed
        /\ alias' = [alias EXCEPT ![d] = v]
        /\ ledger' = Append(ledger, [version |-> v, decision |-> "promoted",
                                     from |-> alias[d], to |-> v])
        /\ versions' = [versions EXCEPT ![v].status = "promoted"]
        /\ \E gone \in Expired(d, v, alias[d], collections \cup {v}) :
             collections' = (collections \cup {v}) \ gone
        /\ lock' = NoThread
        /\ call' = [call EXCEPT ![t] = NoCall]
        /\ UNCHANGED minted

\* Mutant of Reject: a decision outside the vocabulary.
RejectMisnamed(t) ==
    /\ Holds(t, "decide") /\ ~call[t].passed
    /\ ledger' = Append(ledger, [version |-> call[t].ver, decision |-> "failed",
                                 from |-> alias[call[t].ds], to |-> NoVersion])
    /\ versions' = [versions EXCEPT ![call[t].ver].status = "rejected"]
    /\ lock' = NoThread
    /\ call' = [call EXCEPT ![t] = NoCall]
    /\ UNCHANGED <<minted, vectors>>

Reject(t) ==
    /\ Holds(t, "decide") /\ ~call[t].passed
    /\ ledger' = Append(ledger, [version |-> call[t].ver, decision |-> "rejected",
                                 from |-> alias[call[t].ds], to |-> NoVersion])
    /\ versions' = [versions EXCEPT ![call[t].ver].status = "rejected"]
    /\ lock' = NoThread
    /\ call' = [call EXCEPT ![t] = NoCall]
    /\ UNCHANGED <<minted, vectors>>

-----------------------------------------------------------------------------
(* rollback, search, reset *)

\* Mutant of Rollback: marks the version it returns to.
RollbackMarksTarget(t, d) ==
    /\ Free(t)
    /\ Len(ledger) < MaxLedger
    /\ \E i \in Candidates(d) :
         /\ \A k \in Candidates(d) : k <= i
         /\ alias' = [alias EXCEPT ![d] = ledger[i].version]
         /\ ledger' = Append(ledger, [version |-> ledger[i].version, decision |-> "rolled_back",
                                      from |-> alias[d], to |-> ledger[i].version])
         /\ versions' = [versions EXCEPT ![ledger[i].version].status = "rolled_back"]
    /\ UNCHANGED <<lock, call, minted, collections>>

\* To the newest candidate; without one it answers 409 and changes nothing.  The
\* version left, if any, is marked.
Rollback(t, d) ==
    /\ Free(t)
    /\ Len(ledger) < MaxLedger
    /\ \E i \in Candidates(d) :
         /\ \A k \in Candidates(d) : k <= i
         /\ alias' = [alias EXCEPT ![d] = ledger[i].version]
         /\ ledger' = Append(ledger, [version |-> ledger[i].version, decision |-> "rolled_back",
                                      from |-> alias[d], to |-> ledger[i].version])
    /\ versions' = [v \in Versions |-> IF v = alias[d]
                                         THEN [versions[v] EXCEPT !.status = "rolled_back"]
                                         ELSE versions[v]]
    /\ UNCHANGED <<lock, call, minted, collections>>

\* Where does the alias point?  Nowhere is an answer.
SearchAlias(t, d) ==
    /\ Free(t)
    /\ call' = [call EXCEPT ![t] = [NoCall EXCEPT !.ds = d, !.named = alias[d],
                      !.at = IF alias[d] = NoVersion THEN "answered" ELSE "scan"]]
    /\ lock' = IF alias[d] = NoVersion THEN NoThread ELSE t
    /\ UNCHANGED <<minted, registry, vectors>>

\* The scan resolves the alias anew; a collection that is gone has no hits.
SearchScan(t) ==
    LET target == alias[call[t].ds]
    IN  /\ Holds(t, "scan")
        /\ call' = [call EXCEPT ![t].at = "answered",
                      ![t].hits = IF target \in collections THEN target ELSE NoVersion]
        /\ lock' = NoThread
        /\ UNCHANGED <<minted, registry, vectors>>

Answer(t) ==
    /\ call[t].at = "answered"
    /\ call' = [call EXCEPT ![t] = NoCall]
    /\ UNCHANGED <<lock, minted, registry, vectors>>

\* Mutant of Reset: the vector store is forgotten.
ResetRegistryOnly(t) ==
    /\ Free(t)
    /\ versions' = [v \in Versions |-> NoRow]
    /\ ledger' = <<>>
    /\ UNCHANGED <<lock, call, minted, vectors>>

Reset(t) ==
    /\ Free(t)
    /\ Cleared
    /\ UNCHANGED <<lock, call, minted>>

-----------------------------------------------------------------------------

Run(t) ==
    \/ \E d \in Datasets, b \in Batch : Ingest(t, d, b)
    \/ Validate(t) \/ Enrich(t) \/ Embed(t) \/ Gate(t) \/ Promote(t) \/ Reject(t)

Search(t) == (\E d \in Datasets : SearchAlias(t, d)) \/ SearchScan(t) \/ Answer(t)

Next == \E t \in Threads : \/ Run(t) \/ Search(t) \/ Reset(t)
                           \/ \E d \in Datasets : Rollback(t, d)

Spec == Init /\ [][Next]_vars

-----------------------------------------------------------------------------

TypeOK ==
    /\ lock \in Threads \cup {NoThread}
    /\ call \in [Threads -> Call]
    /\ minted \in 0..MaxRuns
    /\ versions \in [Versions -> Row]
    /\ ledger \in Seq(LedgerRow)
    /\ alias \in [Datasets -> Target]
    /\ collections \subseteq Versions

\* Rows by which production of d changed.
SwitchRows(d) ==
    {i \in DOMAIN ledger : /\ ledger[i].decision # "rejected"
                           /\ versions[ledger[i].version].dataset = d}

\* The ledger tells what serves: the alias is where its newest switch went, that
\* collection exists, and an empty ledger means that nothing serves, also after
\* a reset.  (engine.py lines 66-76 and 158-167, demo.py lines 186-199)
LedgerTellsServing ==
    \A d \in Datasets :
      /\ SwitchRows(d) = {} => alias[d] = NoVersion
      /\ \A i \in SwitchRows(d) :
           (\A k \in SwitchRows(d) : k <= i) => alias[d] = ledger[i].to
      /\ alias[d] # NoVersion => alias[d] \in collections

\* Between two resets, every version of a dataset ever promoted has one schema:
\* rollbacks change the statuses the drift query looks for, but never leave it
\* without a promoted version to compare with.  (demo.py lines 120-125 and
\* 233-238, engine.py line 169)
OneSchemaPromoted ==
    \A d \in Datasets : \A i, k \in PromotionRows(d) :
        versions[ledger[i].version].schema = versions[ledger[k].version].schema

\* Production lags behind on purpose only: a stored version that was promoted
\* later than the serving one was taken out by a rollback.  (engine.py lines
\* 106-125)
AheadWereRolledBack ==
    \A d \in Datasets : \A i, k \in NewestRows(d) :
        /\ ledger[i].version = alias[d] /\ i < k
        /\ ledger[k].version \in collections
        => versions[ledger[k].version].status = "rolled_back"

\* Until the next switch, the version a promotion replaced can be rolled back to,
\* whatever names the cleanup sorts first, unless HistoryLimit versions have been
\* promoted since.  (engine.py lines 77-84, demo.py line 147)
RollbackReady ==
    \A d \in Datasets : \A i \in PromotionRows(d) :
        /\ \A k \in SwitchRows(d) : k <= i
        => \A k \in History(d) : ledger[k].version = ledger[i].from => k \in Candidates(d)

\* The hits of a search come from the collection it names.  (demo.py lines 322-349)
AnswersAgree ==
    \A t \in Threads : call[t].at = "answered" => call[t].hits = call[t].named

\* A rollback goes to a version promoted before the one that serves, so repeated
\* rollbacks end.  (engine.py lines 115-122)
RollbackGoesOlder ==
    [][\A t \in Threads, d \in Datasets : Rollback(t, d) =>
         \E i, k \in NewestRows(d) :
            /\ ledger[i].version = alias'[d] /\ ledger[k].version = alias[d] /\ i < k]_vars

=============================================================================

---------------------------- MODULE DatasetPipeline ----------------------------
(***************************************************************************)
(* One execution of flows/ingestion/dataset-pipeline.yaml per raw object:  *)
(* ingest, validate, enrich beside profile, embed, gate, promote           *)
(* (controlplane/runner.py).  The stages share nothing but the object      *)
(* store and the registry, so a stage is its store requests in the code's  *)
(* order; a task that raises, times out or loses its container is started  *)
(* over by Kestra while it has attempts left, from what it left there.     *)
(*                                                                         *)
(* Rows are numbers, in file order.  What the code computes from a row is  *)
(* given by the constants; the promote stage, which PromotionEngine takes  *)
(* apart, is one step here.                                                *)
(***************************************************************************)
EXTENDS Integers, FiniteSets, Sequences

CONSTANTS
    Executions,      \* executions of the flow, all of one dataset
    Rows,
    Objects,         \* the raw objects, each the set of its rows
    NonObjects,      \* rows that are not JSON objects
    SampleSize,      \* how many rows the schema fingerprint looks at (200)
    Valid,           \* rows the dataset's contract accepts
    Filled,          \* rows whose required field is populated (a contract with one)
    Textual,         \* rows with text to embed
    KeyOf,           \* [Rows -> key]: the id as a string
    FieldsOf,        \* [Rows -> set of fields]
    NoHash,          \* SQL NULL
    MaxAttempts,     \* maxAttempt of the retried tasks
    MinRecords,      \* gate thresholds; ratios in percent
    CompletenessMin, UniquenessMin, PassRateMin, CoverageMin

ASSUME RowsAssumption ==
    /\ Rows \subseteq Nat /\ IsFiniteSet(Rows)
    /\ Objects \subseteq SUBSET Rows
    /\ Valid \subseteq Rows \ NonObjects
    /\ Filled \subseteq Rows /\ Textual \subseteq Rows
    /\ DOMAIN KeyOf = Rows /\ DOMAIN FieldsOf = Rows
ASSUME NoHashAssumption == \A S \in SUBSET Rows : UNION {FieldsOf[r] : r \in S} # NoHash
ASSUME ThresholdsAssumption ==
    /\ MaxAttempts \in Nat \ {0} /\ MinRecords \in Nat /\ SampleSize \in Nat
    /\ {CompletenessMin, UniquenessMin, PassRateMin, CoverageMin} \subseteq 0..100

VARIABLES
    object,      \* the raw object at the execution's source_uri
    staged,      \* staged/{version}/records.jsonl: its rows and what was done to them
    quarantine,  \* quarantine/{version}/failed.jsonl and controlplane.quarantine
    versions,    \* controlplane.dataset_versions
    reports,     \* artifacts/{version}: validation, embedding, profile, quality
    checks,      \* controlplane.quality_reports, as the verdict they add up to
    promoted,    \* the versions set to "promoted", oldest first; the last one serves
    collection,  \* rows of the version's vector collection
    exec         \* the running task of each execution

stores == <<staged, quarantine, versions, reports, checks, promoted, collection>>
vars == <<object, stores, exec>>

\* Every attempt at ingest mints a version id: <<x, n>> is that of attempt n.
Versions == Executions \X (1..MaxAttempts)

Forms == {"raw", "valid", "enriched", "embedded"}
Statuses == {"none", "ingested", "validated", "enriched", "embedded", "gated", "promoted", "rejected"}
Stages == {"ingest", "validate", "enrich", "embed", "gate", "promote", "done", "failed"}
Steps == {"read", "register", "stage", "quarantine", "table", "status", "report", "emit", "join"}
Verdicts == {"none", "passed", "failed"}

NoReport == [valid |-> 0, total |-> 0, drifted |-> FALSE]

Init ==
    /\ object \in [Executions -> Objects]
    /\ staged = [v \in Versions |-> [rows |-> {}, form |-> "raw"]]
    /\ quarantine = [v \in Versions |-> [file |-> {}, table |-> {}]]
    /\ versions = [v \in Versions |-> [status |-> "none", count |-> 0, hash |-> NoHash]]
    /\ reports = [v \in Versions |-> [validation |-> NoReport,
                                      embedding |-> [embedded |-> 0, total |-> 0],
                                      profile |-> {}, quality |-> "none"]]
    /\ checks = [v \in Versions |-> "none"]
    /\ promoted = <<>>
    /\ collection = [v \in Versions |-> {}]
    /\ exec = [x \in Executions |-> [stage |-> "ingest", step |-> "read", attempt |-> 1,
                                     version |-> 1, rows |-> {}, drifted |-> FALSE,
                                     profile |-> "waiting", seen |-> {}]]

-----------------------------------------------------------------------------
(* What the stages compute. *)

\* schema_fingerprint: the fields seen in the first rows.
Sample(S) == {r \in S : Cardinality({q \in S : q < r}) < SampleSize}
Fingerprint(S) == UNION {FieldsOf[r] : r \in Sample(S)}

\* detect_drift against the hash of the version promoted last.
LastPromotedHash == IF promoted = <<>> THEN NoHash ELSE versions[promoted[Len(promoted)]].hash
Drifted(S) == LastPromotedHash # NoHash /\ LastPromotedHash # Fingerprint(S)

\* Mutant of Deduplicated: rows whose key occurs twice are dropped.
DeduplicatedAway(S) == {r \in S : \A q \in S \ {r} : KeyOf[q] # KeyOf[r]}

\* enrich_batch keeps the first row of each key.
Deduplicated(S) == {r \in S : \A q \in S : q < r => KeyOf[q] # KeyOf[r]}

\* Mutant of AtLeast: a ratio has to exceed its threshold.
MoreThan(part, whole, min) == whole # 0 /\ part * 100 > min * whole

\* A ratio against a threshold in percent; the code's ratio of nothing is 0.
\* (The report's rounding to four digits decides nothing below 200 rows.)
AtLeast(part, whole, min) == IF whole = 0 THEN min = 0 ELSE part * 100 >= min * whole

\* Mutant of Passes: min_records is all that is asked of the rows.
PassesByCount(S, report) == Cardinality(S) >= MinRecords

\* run_all over the staged rows and the two reports.
Passes(S, report) ==
    /\ Cardinality(S) >= MinRecords
    /\ S # {} => AtLeast(Cardinality(S \cap Filled), Cardinality(S), CompletenessMin)
    /\ S # {} => AtLeast(Cardinality({KeyOf[r] : r \in S}), Cardinality(S), UniquenessMin)
    /\ AtLeast(report.validation.valid, report.validation.total, PassRateMin)
    /\ AtLeast(report.embedding.embedded, report.embedding.total, CoverageMin)
    /\ ~report.validation.drifted

-----------------------------------------------------------------------------
(* Tasks. *)

At(x, stage, step) == exec[x].stage = stage /\ exec[x].step = step
Version(x) == <<x, exec[x].version>>
Goto(x, step) == exec' = [exec EXCEPT ![x].step = step]

Attempts(stage) == IF stage \in {"gate", "promote"} THEN 1 ELSE MaxAttempts

\* Mutants of Interrupted: one attempt too many; attempts are not counted.
InterruptedLate(x) ==
    IF exec[x].attempt <= Attempts(exec[x].stage)
      THEN [exec[x] EXCEPT !.step = "read", !.attempt = @ + 1]
      ELSE [exec[x] EXCEPT !.stage = "failed", !.step = "read"]

InterruptedForEver(x) == [exec[x] EXCEPT !.step = "read"]

\* The task starts over, or the execution fails.
Interrupted(x) ==
    IF exec[x].attempt < Attempts(exec[x].stage)
      THEN [exec[x] EXCEPT !.step = "read", !.attempt = @ + 1]
      ELSE [exec[x] EXCEPT !.stage = "failed", !.step = "read"]

\* A timeout, a lost container or an unreachable store, before any request or
\* after the last one but before Kestra has the task's output.
Fault(x) ==
    /\ exec[x].stage \notin {"done", "failed"}
    /\ exec[x].step # "join"
    /\ exec' = [exec EXCEPT ![x] = Interrupted(x)]
    /\ UNCHANGED <<object, stores>>

StageAfter == [ingest |-> "validate", validate |-> "enrich", embed |-> "gate",
               gate |-> "promote", promote |-> "done"]

\* Kestra has the output and starts the next task; enrich waits for profile.
Emit(x) ==
    /\ exec[x].step = "emit"
    /\ exec' = [exec EXCEPT ![x] =
         IF exec[x].stage = "enrich" THEN [exec[x] EXCEPT !.step = "join"]
         ELSE [exec[x] EXCEPT !.stage = StageAfter[exec[x].stage],
                              !.step = "read", !.attempt = 1]]
    /\ UNCHANGED <<object, stores>>

-----------------------------------------------------------------------------
(* cmd_ingest *)

IngestRead(x) ==
    /\ At(x, "ingest", "read")
    /\ exec' = [exec EXCEPT ![x].step = "register", ![x].rows = object[x],
                            ![x].version = exec[x].attempt]
    /\ UNCHANGED <<object, stores>>

\* No schema hash: the column stays NULL.
Register(x) ==
    /\ At(x, "ingest", "register")
    /\ versions' = [versions EXCEPT ![Version(x)] =
         [status |-> "ingested", count |-> Cardinality(exec[x].rows), hash |-> NoHash]]
    /\ Goto(x, "stage")
    /\ UNCHANGED <<object, staged, quarantine, reports, checks, promoted, collection>>

IngestStage(x) ==
    /\ At(x, "ingest", "stage")
    /\ staged' = [staged EXCEPT ![Version(x)] = [rows |-> exec[x].rows, form |-> "raw"]]
    /\ Goto(x, "emit")
    /\ UNCHANGED <<object, quarantine, versions, reports, checks, promoted, collection>>

-----------------------------------------------------------------------------
(* cmd_validate: the valid rows replace the staged ones before the others are *)
(* quarantined, and the report comes last.                                    *)

ValidateRead(x) ==
    LET rows == staged[Version(x)].rows
    IN  /\ At(x, "validate", "read")
        /\ Sample(rows) \cap NonObjects = {}
        /\ exec' = [exec EXCEPT ![x].step = "stage", ![x].rows = rows,
                                ![x].drifted = Drifted(rows)]
        /\ UNCHANGED <<object, stores>>

\* The fingerprint fails on a row that is no object, if it looks at it; one
\* further down goes the way of the other bad rows.
ValidateRaises(x) ==
    /\ At(x, "validate", "read")
    /\ Sample(staged[Version(x)].rows) \cap NonObjects # {}
    /\ exec' = [exec EXCEPT ![x] = Interrupted(x)]
    /\ UNCHANGED <<object, stores>>

Bad(x) == exec[x].rows \ Valid

ValidateStage(x) ==
    /\ At(x, "validate", "stage")
    /\ staged' = [staged EXCEPT ![Version(x)] = [rows |-> exec[x].rows \cap Valid, form |-> "valid"]]
    /\ Goto(x, IF Bad(x) = {} THEN "status" ELSE "quarantine")
    /\ UNCHANGED <<object, quarantine, versions, reports, checks, promoted, collection>>

WriteQuarantine(x) ==
    /\ At(x, "validate", "quarantine")
    /\ quarantine' = [quarantine EXCEPT ![Version(x)].file = Bad(x)]
    /\ Goto(x, "table")
    /\ UNCHANGED <<object, staged, versions, reports, checks, promoted, collection>>

QuarantineRecords(x) ==
    /\ At(x, "validate", "table")
    /\ quarantine' = [quarantine EXCEPT ![Version(x)].table = @ \cup Bad(x)]
    /\ Goto(x, "status")
    /\ UNCHANGED <<object, staged, versions, reports, checks, promoted, collection>>

ValidateStatus(x) ==
    /\ At(x, "validate", "status")
    /\ versions' = [versions EXCEPT ![Version(x)].status = "validated",
                                    ![Version(x)].count = Cardinality(exec[x].rows \cap Valid)]
    /\ Goto(x, "report")
    /\ UNCHANGED <<object, staged, quarantine, reports, checks, promoted, collection>>

ValidateReport(x) ==
    /\ At(x, "validate", "report")
    /\ reports' = [reports EXCEPT ![Version(x)].validation =
         [valid |-> Cardinality(exec[x].rows \cap Valid),
          total |-> Cardinality(exec[x].rows), drifted |-> exec[x].drifted]]
    /\ Goto(x, "emit")
    /\ UNCHANGED <<object, staged, quarantine, versions, checks, promoted, collection>>

-----------------------------------------------------------------------------
(* cmd_enrich, and the profile task beside it.  (Nobody reads the enrichment *)
(* report back: a task that dies writing it dies before its output.)         *)

EnrichRead(x) ==
    /\ At(x, "enrich", "read")
    /\ exec' = [exec EXCEPT ![x].step = "stage", ![x].rows = staged[Version(x)].rows]
    /\ UNCHANGED <<object, stores>>

EnrichStage(x) ==
    /\ At(x, "enrich", "stage")
    /\ staged' = [staged EXCEPT ![Version(x)] =
         [rows |-> Deduplicated(exec[x].rows), form |-> "enriched"]]
    /\ Goto(x, "status")
    /\ UNCHANGED <<object, quarantine, versions, reports, checks, promoted, collection>>

\* Mutants of EnrichStatus: the count before deduplication; the count alone.
EnrichStatusCountsInput(x) ==
    /\ At(x, "enrich", "status")
    /\ versions' = [versions EXCEPT ![Version(x)].status = "enriched",
                                    ![Version(x)].count = Cardinality(exec[x].rows)]
    /\ Goto(x, "emit")
    /\ UNCHANGED <<object, staged, quarantine, reports, checks, promoted, collection>>

EnrichStatusForgotten(x) ==
    /\ At(x, "enrich", "status")
    /\ versions' = [versions EXCEPT ![Version(x)].count = Cardinality(Deduplicated(exec[x].rows))]
    /\ Goto(x, "emit")
    /\ UNCHANGED <<object, staged, quarantine, reports, checks, promoted, collection>>

EnrichStatus(x) ==
    /\ At(x, "enrich", "status")
    /\ versions' = [versions EXCEPT ![Version(x)].status = "enriched",
                                    ![Version(x)].count = Cardinality(Deduplicated(exec[x].rows))]
    /\ Goto(x, "emit")
    /\ UNCHANGED <<object, staged, quarantine, reports, checks, promoted, collection>>

ProfileRead(x) ==
    /\ exec[x].stage = "enrich" /\ exec[x].profile = "waiting"
    /\ exec' = [exec EXCEPT ![x].profile = "read", ![x].seen = staged[Version(x)].rows]
    /\ UNCHANGED <<object, stores>>

ProfileWrite(x) ==
    /\ exec[x].profile = "read"
    /\ reports' = [reports EXCEPT ![Version(x)].profile = exec[x].seen]
    /\ exec' = [exec EXCEPT ![x].profile = "written"]
    /\ UNCHANGED <<object, staged, quarantine, versions, checks, promoted, collection>>

\* The profile task has no retry.
ProfileFault(x) ==
    /\ exec[x].stage = "enrich" /\ exec[x].profile # "failed"
    /\ exec' = [exec EXCEPT ![x].profile = "failed"]
    /\ UNCHANGED <<object, stores>>

Join(x) ==
    /\ exec[x].step = "join" /\ exec[x].profile \in {"written", "failed"}
    /\ exec' = [exec EXCEPT ![x].stage = IF exec[x].profile = "written" THEN "embed" ELSE "failed",
                            ![x].step = "read", ![x].attempt = 1]
    /\ UNCHANGED <<object, stores>>

-----------------------------------------------------------------------------
(* cmd_embed *)

EmbedRead(x) ==
    /\ At(x, "embed", "read")
    /\ exec' = [exec EXCEPT ![x].step = "stage", ![x].rows = staged[Version(x)].rows]
    /\ UNCHANGED <<object, stores>>

EmbedStage(x) ==
    /\ At(x, "embed", "stage")
    /\ staged' = [staged EXCEPT ![Version(x)] = [rows |-> exec[x].rows, form |-> "embedded"]]
    /\ Goto(x, "status")
    /\ UNCHANGED <<object, quarantine, versions, reports, checks, promoted, collection>>

EmbedStatus(x) ==
    /\ At(x, "embed", "status")
    /\ versions' = [versions EXCEPT ![Version(x)].status = "embedded"]
    /\ Goto(x, "report")
    /\ UNCHANGED <<object, staged, quarantine, reports, checks, promoted, collection>>

EmbedReport(x) ==
    /\ At(x, "embed", "report")
    /\ reports' = [reports EXCEPT ![Version(x)].embedding =
         [embedded |-> Cardinality(exec[x].rows \cap Textual), total |-> Cardinality(exec[x].rows)]]
    /\ Goto(x, "emit")
    /\ UNCHANGED <<object, staged, quarantine, versions, checks, promoted, collection>>

-----------------------------------------------------------------------------
(* cmd_gate *)

Verdict(x) == IF Passes(exec[x].rows, reports[Version(x)]) THEN "passed" ELSE "failed"

GateRead(x) ==
    /\ At(x, "gate", "read")
    /\ exec' = [exec EXCEPT ![x].step = "table", ![x].rows = staged[Version(x)].rows]
    /\ UNCHANGED <<object, stores>>

RecordQualityReport(x) ==
    /\ At(x, "gate", "table")
    /\ checks' = [checks EXCEPT ![Version(x)] = Verdict(x)]
    /\ Goto(x, "status")
    /\ UNCHANGED <<object, staged, quarantine, versions, reports, promoted, collection>>

GateStatus(x) ==
    /\ At(x, "gate", "status")
    /\ versions' = [versions EXCEPT ![Version(x)].status = "gated"]
    /\ Goto(x, "report")
    /\ UNCHANGED <<object, staged, quarantine, reports, checks, promoted, collection>>

GateReport(x) ==
    /\ At(x, "gate", "report")
    /\ reports' = [reports EXCEPT ![Version(x)].quality = Verdict(x)]
    /\ Goto(x, "emit")
    /\ UNCHANGED <<object, staged, quarantine, versions, checks, promoted, collection>>

-----------------------------------------------------------------------------
(* cmd_promote: rows without a vector are not written to the collection. *)

Promote(x) ==
    /\ At(x, "promote", "read")
    /\ reports[Version(x)].quality = "passed"
    /\ collection' = [collection EXCEPT ![Version(x)] = staged[Version(x)].rows \cap Textual]
    /\ promoted' = Append(promoted, Version(x))
    /\ versions' = [versions EXCEPT ![Version(x)].status = "promoted"]
    /\ Goto(x, "emit")
    /\ UNCHANGED <<object, staged, quarantine, reports, checks>>

\* Mutant of Reject: the decision is not written to the version.
RejectForgotten(x) ==
    /\ At(x, "promote", "read")
    /\ reports[Version(x)].quality # "passed"
    /\ Goto(x, "emit")
    /\ UNCHANGED <<object, stores>>

Reject(x) ==
    /\ At(x, "promote", "read")
    /\ reports[Version(x)].quality # "passed"
    /\ versions' = [versions EXCEPT ![Version(x)].status = "rejected"]
    /\ Goto(x, "emit")
    /\ UNCHANGED <<object, staged, quarantine, reports, checks, promoted, collection>>

-----------------------------------------------------------------------------

Task(x) ==
    \/ IngestRead(x) \/ Register(x) \/ IngestStage(x)
    \/ ValidateRead(x) \/ ValidateRaises(x) \/ ValidateStage(x) \/ WriteQuarantine(x)
    \/ QuarantineRecords(x) \/ ValidateStatus(x) \/ ValidateReport(x)
    \/ EnrichRead(x) \/ EnrichStage(x) \/ EnrichStatus(x)
    \/ EmbedRead(x) \/ EmbedStage(x) \/ EmbedStatus(x) \/ EmbedReport(x)
    \/ GateRead(x) \/ RecordQualityReport(x) \/ GateStatus(x) \/ GateReport(x)
    \/ Promote(x) \/ Reject(x)
    \/ Emit(x) \/ Join(x)

Profile(x) == ProfileRead(x) \/ ProfileWrite(x)

Next == \E x \in Executions : Task(x) \/ Profile(x) \/ Fault(x) \/ ProfileFault(x)

Spec == Init /\ [][Next]_vars

\* A task runs to its end or is ended by its timeout, and Kestra starts the next
\* one or the next attempt.
FairSpec == Spec /\ \A x \in Executions : WF_vars(Task(x)) /\ WF_vars(Profile(x))

-----------------------------------------------------------------------------

TypeOK ==
    /\ object \in [Executions -> Objects]
    /\ staged \in [Versions -> [rows : SUBSET Rows, form : Forms]]
    /\ quarantine \in [Versions -> [file : SUBSET Rows, table : SUBSET Rows]]
    /\ versions \in [Versions -> [status : Statuses, count : Nat, hash : {NoHash}]]
    /\ reports \in [Versions -> [validation : [valid : Nat, total : Nat, drifted : BOOLEAN],
                                 embedding : [embedded : Nat, total : Nat],
                                 profile : SUBSET Rows, quality : Verdicts]]
    /\ checks \in [Versions -> Verdicts]
    /\ promoted \in Seq(Versions)
    /\ collection \in [Versions -> SUBSET Rows]
    /\ exec \in [Executions -> [stage : Stages, step : Steps, attempt : 1..MaxAttempts,
                                version : 1..MaxAttempts, rows : SUBSET Rows,
                                drifted : BOOLEAN, profile : {"waiting", "read", "written", "failed"},
                                seen : SUBSET Rows]]

ValidRows(v) == object[v[1]] \cap Valid
Decided(v) == versions[v].status \in {"promoted", "rejected"}

\* What production is given is never empty and holds only rows of the version's
\* own raw object that its contract accepts, one per key, whatever was retried.
\* (runner.py lines 178-185 and 219-221, promotion/engine.py lines 45-53)
ServedRowsAreSound ==
    \A i \in DOMAIN promoted :
      LET rows == collection[promoted[i]]
      IN  /\ rows # {} /\ rows \subseteq ValidRows(promoted[i])
          /\ \A r, q \in rows : KeyOf[r] = KeyOf[q] => r = q

\* No retry of a stage loses a record: from validation on, the staged file has
\* every key of the raw object's valid rows.  (runner.py lines 14-17)
NoKeyLost ==
    \A v \in Versions :
      versions[v].status \notin {"none", "ingested"} =>
        {KeyOf[r] : r \in staged[v].rows} = {KeyOf[r] : r \in ValidRows(v)}

\* The registry, the reports and the quality table of a decided version speak of
\* the rows that were staged for it, whichever attempt wrote them; the profile is
\* of the rows before or after deduplication.  (runner.py lines 117-188)
ReportsAgree ==
    \A v \in Versions : Decided(v) =>
      /\ versions[v].count = Cardinality(staged[v].rows)
      /\ reports[v].embedding = [embedded |-> Cardinality(staged[v].rows \cap Textual),
                                 total |-> Cardinality(staged[v].rows)]
      /\ staged[v].rows \subseteq reports[v].profile /\ reports[v].profile \subseteq ValidRows(v)
      /\ checks[v] = reports[v].quality
      /\ (versions[v].status = "promoted") <=> (checks[v] = "passed")

\* quality-audit's list of stuck versions (a status it finds two hours old).
Stuck == {v \in Versions : versions[v].status \notin {"none", "promoted", "rejected"}}

\* The daily audit tells failures from successes: once an execution has ended, the
\* version it completed is not on the list of stuck ones, and every version that an
\* earlier attempt at ingest registered stays on it, however the execution ended.
\* (quality-audit.yaml lines 57-61, runner.py lines 73-84)
AuditFindsFailures ==
    \A x \in Executions : exec[x].stage \in {"done", "failed"} =>
      /\ exec[x].stage = "done" => Version(x) \notin Stuck
      /\ \A v \in Versions :
           v[1] = x /\ v # Version(x) /\ versions[v].status # "none" => v \in Stuck

\* A version goes through its states one by one and never back, however often its
\* stages are retried.  (README.md lines 227-235)
Successors == [none |-> {"ingested"}, ingested |-> {"validated"}, validated |-> {"enriched"},
               enriched |-> {"embedded"}, embedded |-> {"gated"},
               gated |-> {"promoted", "rejected"}, promoted |-> {}, rejected |-> {}]
StatusAdvances ==
    [][\A v \in Versions :
         versions'[v].status \in Successors[versions[v].status] \cup {versions[v].status}]_vars

\* Every execution ends, whatever its tasks run into.  (dataset-pipeline.yaml
\* lines 73-101: attempts are bounded)
ExecutionsEnd ==
    \A x \in Executions : <>(exec[x].stage \in {"done", "failed"})

\* A version is promoted only if its schema fingerprint is that of the version
\* promoted before it.  (docs/architecture.md line 84)
DriftBlocksPromotion ==
    \A i \in DOMAIN promoted : i > 1 =>
      Fingerprint(object[promoted[i][1]]) = Fingerprint(object[promoted[i - 1][1]])

-----------------------------------------------------------------------------
(* The abstract specification, and what remains of its promise under any fault. *)

\* What an execution came to: a decision outlives a promote task that dies after it.
Decision(x) ==
    LET statuses == {versions[<<x, n>>].status : n \in 1..MaxAttempts}
    IN  IF "promoted" \in statuses THEN "released"
        ELSE IF "rejected" \in statuses THEN "refused"
        ELSE IF exec[x].stage = "failed" THEN "failed" ELSE "open"

\* The rows in the quarantine table for any of its versions.
Aside(x) == UNION {quarantine[<<x, n>>].table : n \in 1..MaxAttempts}

Release == INSTANCE DatasetRelease WITH
    source <- object,
    decision <- [x \in Executions |-> Decision(x)],
    aside <- [x \in Executions |-> Aside(x)],
    served <- [i \in DOMAIN promoted |->
                 [by |-> promoted[i][1], rows |-> collection[promoted[i]]]]

\* Stages, retries, files and reports together keep the abstract promise, the pass
\* rate over the raw rows and their quarantine included: all gates must pass or the
\* version is rejected, and failed rows are never silently dropped.
\* (docs/architecture.md lines 42, 74 and 82, quality/gates.py lines 1-7)
ImplementsRelease == Release!Spec

\* Whatever is retried, what a version came to is what its raw object holds.  A
\* promoted one passes every gate on the rows and serves the first good row of each
\* key that has text, it has its pass rate if its validation report still counts
\* every raw row, and none is rejected that passes all.  (runner.py lines 95-224,
\* quality/gates.py lines 42-165; for a report that lost rows: ImplementsRelease)
DecisionsFollowContents ==
    /\ \A i \in DOMAIN promoted :
         LET v == promoted[i]
             raw == object[v[1]]
         IN  /\ Release!Fit(raw) /\ collection[v] = Release!Offer(raw) \cap Textual
             /\ reports[v].validation.total = Cardinality(raw) => Release!Clean(raw)
    /\ \A v \in Versions : versions[v].status = "rejected" =>
         ~(Release!Fit(object[v[1]]) /\ Release!Clean(object[v[1]]))

=============================================================================

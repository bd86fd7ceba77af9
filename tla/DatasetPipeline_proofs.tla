------------------------ MODULE DatasetPipeline_proofs ------------------------
(***************************************************************************)
(* Proofs about DatasetPipeline, for any executions, rows, raw objects,    *)
(* contracts, thresholds and numbers of attempts, and a fault at any       *)
(* request.                                                                *)
(***************************************************************************)
EXTENDS DatasetPipeline, FiniteSetTheorems, WellFoundedInduction, TLAPS

-----------------------------------------------------------------------------
(* The invariant, part by part. *)

\* What validation and de-duplication make of an execution's raw object.
Accepted(x) == object[x] \cap Valid
Kept(x) == Deduplicated(Accepted(x))
Sane(x) == Sample(object[x]) \cap NonObjects = {}

Fresh == {"none", "ingested"}

Profiled(v) ==
    Kept(v[1]) \subseteq reports[v].profile /\ reports[v].profile \subseteq Accepted(v[1])
Counted(v) ==
    reports[v].embedding = [embedded |-> Cardinality(Kept(v[1]) \cap Textual),
                            total |-> Cardinality(Kept(v[1]))]
Judged(v) ==
    /\ checks[v] = reports[v].quality /\ checks[v] \in {"passed", "failed"}
    /\ checks[v] = "passed" => AtLeast(reports[v].embedding.embedded,
                                       reports[v].embedding.total, CoverageMin)

\* What the status of a version says of its files and reports.
Documented(v) ==
    LET status == versions[v].status
    IN  /\ status \notin Fresh => Sane(v[1]) /\ staged[v].rows \in {Accepted(v[1]), Kept(v[1])}
        /\ status \in {"enriched", "embedded", "gated", "promoted", "rejected"} =>
             staged[v].rows = Kept(v[1]) /\ versions[v].count = Cardinality(Kept(v[1]))
        /\ status \in {"gated", "promoted", "rejected"} => Profiled(v) /\ Counted(v)
        /\ status \in {"promoted", "rejected"} =>
             Judged(v) /\ (status = "promoted" <=> checks[v] = "passed")

\* What is known while an execution is in a stage, step by step.
IngestTrack(x) ==
    exec[x].stage = "ingest" =>
      /\ exec[x].step \in {"read", "register", "stage", "emit"}
      /\ exec[x].step # "read" => exec[x].rows = object[x]
      /\ exec[x].step \in {"stage", "emit"} => versions[Version(x)].status = "ingested"
      /\ exec[x].step = "emit" => staged[Version(x)].rows = object[x]

ValidateTrack(x) ==
    exec[x].stage = "validate" =>
      /\ exec[x].step \in {"read", "stage", "quarantine", "table", "status", "report", "emit"}
      /\ versions[Version(x)].status \in {"ingested", "validated"}
      /\ \/ staged[Version(x)].rows = object[x]
         \/ staged[Version(x)].rows = Accepted(x) /\ Sane(x)
      /\ exec[x].step # "read" => Sane(x) /\ exec[x].rows \cap Valid = Accepted(x)
      /\ exec[x].step \notin {"read", "stage"} \/ versions[Version(x)].status = "validated" =>
           staged[Version(x)].rows = Accepted(x)
      /\ exec[x].step \in {"report", "emit"} => versions[Version(x)].status = "validated"

EnrichTrack(x) ==
    exec[x].stage = "enrich" =>
      /\ exec[x].step \in {"read", "stage", "status", "emit", "join"}
      /\ versions[Version(x)].status \in {"validated", "enriched"}
      /\ exec[x].step \in {"stage", "status"} => exec[x].rows \in {Accepted(x), Kept(x)}
      /\ exec[x].step \in {"status", "emit", "join"} => staged[Version(x)].rows = Kept(x)
      /\ exec[x].step \in {"emit", "join"} => versions[Version(x)].status = "enriched"

EmbedTrack(x) ==
    exec[x].stage = "embed" =>
      /\ exec[x].step \in {"read", "stage", "status", "report", "emit"}
      /\ versions[Version(x)].status \in {"enriched", "embedded"}
      /\ exec[x].step # "read" => exec[x].rows = Kept(x)
      /\ exec[x].step \in {"report", "emit"} => versions[Version(x)].status = "embedded"
      /\ exec[x].step = "emit" => Counted(Version(x))

GateTrack(x) ==
    exec[x].stage = "gate" =>
      /\ exec[x].step \in {"read", "table", "status", "report", "emit"}
      /\ versions[Version(x)].status \in {"embedded", "gated"}
      /\ Counted(Version(x))
      /\ exec[x].step # "read" => exec[x].rows = Kept(x)
      /\ exec[x].step \in {"status", "report"} => checks[Version(x)] = Verdict(x)
      /\ exec[x].step \in {"report", "emit"} => versions[Version(x)].status = "gated"
      /\ exec[x].step = "emit" => Judged(Version(x))

PromoteTrack(x) ==
    exec[x].stage = "promote" =>
      /\ exec[x].step \in {"read", "emit"}
      /\ exec[x].step = "read" => versions[Version(x)].status = "gated" /\ Judged(Version(x))
      /\ exec[x].step = "emit" => Decided(Version(x))

EndTrack(x) ==
    /\ exec[x].stage \in {"done", "failed"} => exec[x].step = "read"
    /\ exec[x].stage = "done" => Decided(Version(x))

\* The profile task runs beside enrich, and may outlive an execution that fails there.
ProfileTrack(x) ==
    /\ exec[x].stage \in {"ingest", "validate"} => exec[x].profile = "waiting"
    /\ exec[x].stage \in {"embed", "gate", "promote", "done"} => exec[x].profile = "written"
    /\ exec[x].stage \in {"embed", "gate"} => Profiled(Version(x))
    /\ exec[x].stage = "enrich" /\ exec[x].profile = "written" => Profiled(Version(x))
    /\ exec[x].profile = "read" =>
         /\ exec[x].stage \in {"enrich", "failed"}
         /\ versions[Version(x)].status \in {"validated", "enriched"}
         /\ exec[x].seen \in {Accepted(x), Kept(x)}

\* The versions an execution's earlier attempts at ingest registered got no further.
LeftBehind(x) ==
    \A v \in Versions : v[1] = x /\ (v # Version(x) \/ exec[x].stage = "ingest") =>
        versions[v].status \in Fresh

Track(x) ==
    /\ IngestTrack(x) /\ ValidateTrack(x) /\ EnrichTrack(x) /\ EmbedTrack(x)
    /\ GateTrack(x) /\ PromoteTrack(x) /\ EndTrack(x) /\ ProfileTrack(x) /\ LeftBehind(x)

\* Production was given the kept rows that have text.
Served(v) ==
    versions[v].status = "promoted" /\ collection[v] = Kept(v[1]) \cap Textual

Inv ==
    /\ TypeOK
    /\ \A v \in Versions : Documented(v)
    /\ \A x \in Executions : Track(x)
    /\ \A i \in DOMAIN promoted : Served(promoted[i])

-----------------------------------------------------------------------------
(* De-duplication keeps one row of each key, and the first one. *)

LEMMA KeptOnce ==
    ASSUME NEW S \in SUBSET Rows
    PROVE  /\ Deduplicated(S) \in SUBSET S
           /\ Deduplicated(Deduplicated(S)) = Deduplicated(S)
           /\ \A r, q \in Deduplicated(S) : KeyOf[r] = KeyOf[q] => r = q
<1>1. \A r, q \in S : r < q \/ q < r \/ r = q
  BY RowsAssumption
<1> QED BY <1>1 DEF Deduplicated

\* A set of rows has a first one.
LEMMA FirstRow ==
    ASSUME NEW S \in SUBSET Rows, S # {}
    PROVE  \E r \in S : \A q \in S : ~(q < r)
<1> DEFINE less == {p \in Nat \X Nat : p[1] < p[2]}
<1>1. IsWellFoundedOn(less, Nat)
  BY NatLessThanWellFounded DEF OpToRel
<1>2. S \subseteq Nat
  BY RowsAssumption
<1> HIDE DEF less
<1>3. PICK r \in S : \A q \in S : <<q, r>> \notin less
  BY <1>1, <1>2, WFMin
<1> QED BY <1>2, <1>3 DEF less

LEMMA KeysKept ==
    ASSUME NEW S \in SUBSET Rows
    PROVE  {KeyOf[r] : r \in Deduplicated(S)} = {KeyOf[r] : r \in S}
<1>1. ASSUME NEW r \in S PROVE \E q \in Deduplicated(S) : KeyOf[q] = KeyOf[r]
  <2> DEFINE same == {q \in S : KeyOf[q] = KeyOf[r]}
  <2>1. same \in SUBSET Rows /\ same # {}
    OBVIOUS
  <2>2. PICK q \in same : \A p \in same : ~(p < q)
    <3> HIDE DEF same
    <3> QED BY <2>1, FirstRow
  <2>3. q \in Deduplicated(S)
    BY <2>2 DEF Deduplicated
  <2> QED BY <2>2, <2>3
<1>2. Deduplicated(S) \subseteq S
  BY KeptOnce
<1> QED BY <1>1, <1>2

-----------------------------------------------------------------------------
(* What every step starts from. *)

Exec == [stage : Stages, step : Steps, attempt : 1..MaxAttempts,
         version : 1..MaxAttempts, rows : SUBSET Rows,
         drifted : BOOLEAN, profile : {"waiting", "read", "written", "failed"},
         seen : SUBSET Rows]

LEMMA Facts ==
    ASSUME TypeOK, NEW x \in Executions
    PROVE  /\ exec[x] \in Exec /\ Version(x) \in Versions /\ Version(x)[1] = x
           /\ object[x] \in SUBSET Rows /\ Accepted(x) \in SUBSET Rows
           /\ Kept(x) \in SUBSET Accepted(x) /\ Deduplicated(Kept(x)) = Kept(x)
           /\ staged[Version(x)].rows \in SUBSET Rows
           /\ \A v \in Versions : v # Version(x) => v[1] # x \/ v[2] # exec[x].version
<1>1. exec[x] \in Exec /\ object[x] \in SUBSET Rows
  BY RowsAssumption DEF TypeOK, Exec
<1>2. Version(x) \in Versions /\ Version(x)[1] = x
  BY <1>1 DEF Version, Versions, Exec
<1>3. Accepted(x) \in SUBSET Rows
  BY <1>1 DEF Accepted
<1>4. Kept(x) \in SUBSET Accepted(x) /\ Deduplicated(Kept(x)) = Kept(x)
  BY <1>3, KeptOnce DEF Kept
<1>5. staged[Version(x)].rows \in SUBSET Rows
  BY <1>2 DEF TypeOK
<1>6. \A v \in Versions : v # Version(x) => v[1] # x \/ v[2] # exec[x].version
  BY DEF Version, Versions
<1> QED BY <1>1, <1>2, <1>3, <1>4, <1>5, <1>6

\* Sets of rows can be counted.
LEMMA RowCounts == ASSUME NEW S \in SUBSET Rows PROVE Cardinality(S) \in Nat
BY RowsAssumption, FS_Subset, FS_CardinalityType

\* A step of x leaves other executions and other versions alone.
Frame(x) ==
    /\ object' = object
    /\ \A y \in Executions \ {x} : exec'[y] = exec[y]
    /\ \A v \in Versions \ {Version(x)} :
         /\ staged'[v] = staged[v] /\ versions'[v] = versions[v] /\ reports'[v] = reports[v]
         /\ checks'[v] = checks[v] /\ collection'[v] = collection[v]

LEMMA Elsewhere ==
    ASSUME Inv, NEW x \in Executions, Frame(x)
    PROVE  /\ \A v \in Versions \ {Version(x)} : Documented(v)'
           /\ \A y \in Executions \ {x} : Track(y)'
<1>1. ASSUME NEW y \in Executions
      PROVE  Accepted(y)' = Accepted(y) /\ Kept(y)' = Kept(y) /\ (Sane(y)' <=> Sane(y))
  BY DEF Frame, Accepted, Kept, Sane
<1>2. ASSUME NEW v \in Versions \ {Version(x)} PROVE Documented(v)'
  <2>1. v[1] \in Executions /\ Documented(v)
    BY DEF Versions, Inv
  <2> QED
    BY <1>1, <2>1 DEF Frame, Documented, Profiled, Counted, Judged
<1>3. ASSUME NEW y \in Executions \ {x} PROVE Track(y)'
  <2>1. Version(y) \in Versions \ {Version(x)} /\ Version(y)' = Version(y) /\ Version(y)[1] = y
    BY Facts DEF Inv, Frame, Version
  <2>2. exec'[y] = exec[y] /\ object'[y] = object[y] /\ Track(y)
    BY DEF Frame, Inv
  <2>3. /\ staged'[Version(y)] = staged[Version(y)] /\ versions'[Version(y)] = versions[Version(y)]
        /\ reports'[Version(y)] = reports[Version(y)] /\ checks'[Version(y)] = checks[Version(y)]
    BY <2>1 DEF Frame
  <2>4. IngestTrack(y)' /\ ValidateTrack(y)' /\ EnrichTrack(y)'
    BY <1>1, <2>1, <2>2, <2>3 DEF Track, IngestTrack, ValidateTrack, EnrichTrack
  <2>5. EmbedTrack(y)' /\ PromoteTrack(y)' /\ EndTrack(y)' /\ ProfileTrack(y)'
    BY <1>1, <2>1, <2>2, <2>3 DEF Track, EmbedTrack, PromoteTrack, EndTrack, ProfileTrack,
       Profiled, Counted, Judged, Decided
  <2>6. GateTrack(y)'
    BY <1>1, <2>1, <2>2, <2>3 DEF Track, GateTrack, Verdict, Counted, Judged
  <2>7. LeftBehind(y)'
    <3> SUFFICES ASSUME NEW v \in Versions, v[1] = y, v # Version(y) \/ exec[y].stage = "ingest"
                 PROVE  versions'[v].status \in Fresh
      BY <2>1, <2>2 DEF LeftBehind
    <3>1. versions[v].status \in Fresh
      BY <2>2 DEF Track, LeftBehind
    <3>2. Version(x)[1] = x
      BY Facts DEF Inv
    <3>3. versions'[v] = versions[v]
      BY <3>2 DEF Frame
    <3> QED BY <3>1, <3>3
  <2> QED BY <2>4, <2>5, <2>6, <2>7 DEF Track
<1> QED BY <1>2, <1>3

-----------------------------------------------------------------------------
(* Types, and what a step leaves alone. *)

LEMMA StepFrame ==
    ASSUME TypeOK, NEW x \in Executions,
           Task(x) \/ Profile(x) \/ Fault(x) \/ ProfileFault(x)
    PROVE  Frame(x)
<1>1. /\ exec \in [Executions -> Exec]
      /\ DOMAIN staged = Versions /\ DOMAIN versions = Versions /\ DOMAIN reports = Versions
      /\ DOMAIN checks = Versions /\ DOMAIN collection = Versions
  BY DEF TypeOK, Exec
<1>2. CASE IngestRead(x) \/ Register(x) \/ IngestStage(x)
  BY <1>1, <1>2 DEF IngestRead, Register, IngestStage, Goto, stores, Frame
<1>3. CASE \/ ValidateRead(x) \/ ValidateRaises(x) \/ ValidateStage(x) \/ WriteQuarantine(x)
           \/ QuarantineRecords(x) \/ ValidateStatus(x) \/ ValidateReport(x)
  BY <1>1, <1>3 DEF ValidateRead, ValidateRaises, ValidateStage, WriteQuarantine,
     QuarantineRecords, ValidateStatus, ValidateReport, Goto, stores, Frame
<1>4. CASE EnrichRead(x) \/ EnrichStage(x) \/ EnrichStatus(x)
  BY <1>1, <1>4 DEF EnrichRead, EnrichStage, EnrichStatus, Goto, stores, Frame
<1>5. CASE EmbedRead(x) \/ EmbedStage(x) \/ EmbedStatus(x) \/ EmbedReport(x)
  BY <1>1, <1>5 DEF EmbedRead, EmbedStage, EmbedStatus, EmbedReport, Goto, stores, Frame
<1>6. CASE GateRead(x) \/ RecordQualityReport(x) \/ GateStatus(x) \/ GateReport(x)
  BY <1>1, <1>6 DEF GateRead, RecordQualityReport, GateStatus, GateReport, Goto, stores, Frame
<1>7. CASE Promote(x) \/ Reject(x) \/ Emit(x) \/ Join(x)
  BY <1>1, <1>7 DEF Promote, Reject, Emit, Join, Goto, stores, Frame
<1>8. CASE Profile(x) \/ Fault(x) \/ ProfileFault(x)
  BY <1>1, <1>8 DEF Profile, ProfileRead, ProfileWrite, Fault, ProfileFault, stores, Frame
<1> QED BY <1>2, <1>3, <1>4, <1>5, <1>6, <1>7, <1>8 DEF Task

LEMMA InterruptedTypes ==
    ASSUME NEW x \in Executions, exec[x] \in Exec
    PROVE  Interrupted(x) \in Exec
<1>1. MaxAttempts \in Nat \ {0}
  BY ThresholdsAssumption
<1>2. Attempts(exec[x].stage) \in Nat /\ Attempts(exec[x].stage) <= MaxAttempts
  BY <1>1 DEF Attempts
<1>3. CASE exec[x].attempt < Attempts(exec[x].stage)
  <2>1. exec[x].attempt + 1 \in 1..MaxAttempts
    BY <1>1, <1>2, <1>3 DEF Exec
  <2>2. Interrupted(x) = [exec[x] EXCEPT !.step = "read", !.attempt = exec[x].attempt + 1]
    BY <1>3 DEF Interrupted
  <2> QED BY <2>1, <2>2 DEF Exec, Steps
<1>4. CASE ~(exec[x].attempt < Attempts(exec[x].stage))
  BY <1>4 DEF Interrupted, Exec, Stages, Steps
<1> QED BY <1>3, <1>4

LEMMA StepExec ==
    ASSUME TypeOK, NEW x \in Executions, Track(x),
           Task(x) \/ Profile(x) \/ Fault(x) \/ ProfileFault(x)
    PROVE  exec' \in [Executions -> Exec]
<1>1. /\ exec \in [Executions -> Exec] /\ exec[x] \in Exec
      /\ object[x] \in SUBSET Rows /\ staged[Version(x)].rows \in SUBSET Rows
  BY Facts DEF TypeOK, Exec
<1>2. CASE IngestRead(x) \/ Register(x) \/ IngestStage(x)
  BY <1>1, <1>2 DEF IngestRead, Register, IngestStage, Goto, Exec, Steps
<1>3. CASE ValidateRead(x)
  BY <1>1, <1>3 DEF ValidateRead, Exec, Steps, Drifted
<1>4. CASE \/ ValidateStage(x) \/ WriteQuarantine(x)
           \/ QuarantineRecords(x) \/ ValidateStatus(x) \/ ValidateReport(x)
  BY <1>1, <1>4 DEF ValidateStage, WriteQuarantine,
     QuarantineRecords, ValidateStatus, ValidateReport, Goto, Exec, Steps
<1>5. CASE EnrichRead(x) \/ EnrichStage(x) \/ EnrichStatus(x)
  BY <1>1, <1>5 DEF EnrichRead, EnrichStage, EnrichStatus, Goto, Exec, Steps
<1>6. CASE EmbedRead(x) \/ EmbedStage(x) \/ EmbedStatus(x) \/ EmbedReport(x)
  BY <1>1, <1>6 DEF EmbedRead, EmbedStage, EmbedStatus, EmbedReport, Goto, Exec, Steps
<1>7. CASE GateRead(x) \/ RecordQualityReport(x) \/ GateStatus(x) \/ GateReport(x)
  BY <1>1, <1>7 DEF GateRead, RecordQualityReport, GateStatus, GateReport, Goto, Exec, Steps
<1>8. CASE Promote(x) \/ Reject(x)
  <2>1. exec' = [exec EXCEPT ![x].step = "emit"]
    BY <1>8 DEF Promote, Reject, Goto
  <2> QED BY <1>1, <2>1 DEF Exec, Steps
<1>9. CASE Emit(x)
  <2>1. MaxAttempts \in Nat \ {0}
    BY ThresholdsAssumption
  <2>2. exec[x].stage \in {"ingest", "validate", "enrich", "embed", "gate", "promote"}
    BY <1>1, <1>9 DEF Emit, Track, EndTrack, Exec, Stages
  <2>3. exec[x].stage # "enrich" => StageAfter[exec[x].stage] \in Stages
    BY <2>2 DEF StageAfter, Stages
  <2>4. CASE exec[x].stage = "enrich"
    BY <1>1, <1>9, <2>4 DEF Emit, Exec, Steps
  <2>5. CASE exec[x].stage # "enrich"
    <3>1. exec' = [exec EXCEPT ![x] = [exec[x] EXCEPT !.stage = StageAfter[exec[x].stage],
                                                      !.step = "read", !.attempt = 1]]
      BY <1>9, <2>5 DEF Emit
    <3>2. 1 \in 1..MaxAttempts
      BY <2>1
    <3> QED BY <1>1, <2>3, <2>5, <3>1, <3>2 DEF Exec, Steps
  <2> QED BY <2>4, <2>5
<1>10. CASE Join(x)
  <2>1. MaxAttempts \in Nat \ {0}
    BY ThresholdsAssumption
  <2> QED BY <1>1, <1>10, <2>1 DEF Join, Exec, Stages, Steps
<1>11. CASE Profile(x) \/ ProfileFault(x)
  BY <1>1, <1>11 DEF Profile, ProfileRead, ProfileWrite, ProfileFault, Exec
<1>12. CASE ValidateRaises(x) \/ Fault(x)
  <2>1. Interrupted(x) \in Exec
    BY <1>1, InterruptedTypes
  <2> QED BY <1>1, <1>12, <2>1 DEF ValidateRaises, Fault
<1> QED BY <1>2, <1>3, <1>4, <1>5, <1>6, <1>7, <1>8, <1>9, <1>10, <1>11, <1>12 DEF Task

\* The stores, each with the requests that write it.
Staged == [rows : SUBSET Rows, form : Forms]
Quarantined == [file : SUBSET Rows, table : SUBSET Rows]
VersionRow == [status : Statuses, count : Nat, hash : {NoHash}]
Report == [validation : [valid : Nat, total : Nat, drifted : BOOLEAN],
           embedding : [embedded : Nat, total : Nat],
           profile : SUBSET Rows, quality : Verdicts]

StoresOK ==
    /\ staged \in [Versions -> Staged] /\ quarantine \in [Versions -> Quarantined]
    /\ versions \in [Versions -> VersionRow] /\ reports \in [Versions -> Report]
    /\ checks \in [Versions -> Verdicts] /\ promoted \in Seq(Versions)
    /\ collection \in [Versions -> SUBSET Rows]

LEMMA StepStores ==
    ASSUME TypeOK, NEW x \in Executions,
           Task(x) \/ Profile(x) \/ Fault(x) \/ ProfileFault(x)
    PROVE  StoresOK'
<1>1. /\ exec[x] \in Exec /\ Version(x) \in Versions
      /\ staged[Version(x)].rows \in SUBSET Rows
      /\ exec[x].rows \in SUBSET Rows /\ exec[x].seen \in SUBSET Rows
      /\ exec[x].drifted \in BOOLEAN /\ Verdict(x) \in {"passed", "failed"}
  BY Facts DEF Exec, Verdict
<1>2. \A S \in SUBSET Rows : /\ Deduplicated(S) \in SUBSET Rows
                             /\ Cardinality(S) \in Nat /\ Cardinality(Deduplicated(S)) \in Nat
                             /\ S \cap Valid \in SUBSET Rows /\ S \cap Textual \in SUBSET Rows
                             /\ Cardinality(S \cap Valid) \in Nat
                             /\ Cardinality(S \cap Textual) \in Nat
  <2>1. \A S \in SUBSET Rows : /\ S \cap Valid \in SUBSET Rows /\ S \cap Textual \in SUBSET Rows
                               /\ Deduplicated(S) \in SUBSET Rows
    BY KeptOnce
  <2> QED BY <2>1, RowCounts
<1>3. Bad(x) \in SUBSET Rows
  BY <1>1 DEF Bad
<1>4. /\ staged \in [Versions -> Staged] /\ quarantine \in [Versions -> Quarantined]
      /\ versions \in [Versions -> VersionRow] /\ reports \in [Versions -> Report]
      /\ checks \in [Versions -> Verdicts] /\ promoted \in Seq(Versions)
      /\ collection \in [Versions -> SUBSET Rows]
  BY DEF TypeOK, Staged, Quarantined, VersionRow, Report
<1>5. CASE IngestStage(x) \/ ValidateStage(x) \/ EnrichStage(x) \/ EmbedStage(x)
  <2>1. \A S \in SUBSET Rows, f \in {"raw", "valid", "enriched", "embedded"} :
          [rows |-> S, form |-> f] \in Staged
    BY DEF Forms, Staged
  <2>2. /\ exec[x].rows \cap Valid \in SUBSET Rows
        /\ Deduplicated(exec[x].rows) \in SUBSET Rows
    BY <1>1, <1>2
  <2>3. PICK e \in Staged : staged' = [staged EXCEPT ![Version(x)] = e]
    BY <1>1, <1>5, <2>1, <2>2 DEF IngestStage, ValidateStage, EnrichStage, EmbedStage
  <2>4. staged' \in [Versions -> Staged]
    BY <1>1, <1>4, <2>3
  <2>5. UNCHANGED <<quarantine, versions, reports, checks, promoted, collection>>
    BY <1>5 DEF IngestStage, ValidateStage, EnrichStage, EmbedStage
  <2> QED BY <1>4, <2>4, <2>5 DEF StoresOK
<1>6. CASE WriteQuarantine(x) \/ QuarantineRecords(x)
  <2>1. quarantine[Version(x)] \in Quarantined
    BY <1>1, <1>4
  <2>2. quarantine' \in [Versions -> Quarantined]
    <3>1. PICK e \in Quarantined : quarantine' = [quarantine EXCEPT ![Version(x)] = e]
      <4>1. CASE WriteQuarantine(x)
        <5>1. [quarantine[Version(x)] EXCEPT !.file = Bad(x)] \in Quarantined
          BY <1>3, <2>1 DEF Quarantined
        <5> QED BY <4>1, <5>1 DEF WriteQuarantine
      <4>2. CASE QuarantineRecords(x)
        <5>1. [quarantine[Version(x)] EXCEPT !.table = @ \cup Bad(x)] \in Quarantined
          BY <1>3, <2>1 DEF Quarantined
        <5> QED BY <4>2, <5>1 DEF QuarantineRecords
      <4> QED BY <1>6, <4>1, <4>2
    <3> QED BY <1>1, <1>4, <3>1
  <2>3. UNCHANGED <<staged, versions, reports, checks, promoted, collection>>
    BY <1>6 DEF WriteQuarantine, QuarantineRecords
  <2> QED BY <1>4, <2>2, <2>3 DEF StoresOK
<1>7. CASE \/ Register(x) \/ ValidateStatus(x) \/ EnrichStatus(x) \/ EmbedStatus(x)
           \/ GateStatus(x) \/ Reject(x)
  <2>1. versions[Version(x)] \in VersionRow
    BY <1>1, <1>4
  <2>2. PICK e \in VersionRow : versions' = [versions EXCEPT ![Version(x)] = e]
    <3>1. CASE Register(x)
      <4>1. [status |-> "ingested", count |-> Cardinality(exec[x].rows), hash |-> NoHash]
              \in VersionRow
        BY <1>1, <1>2 DEF VersionRow, Statuses
      <4> QED BY <3>1, <4>1 DEF Register
    <3>2. CASE ValidateStatus(x)
      <4> DEFINE e == [versions[Version(x)] EXCEPT !.status = "validated",
                         !.count = Cardinality(exec[x].rows \cap Valid)]
      <4>1. e \in VersionRow
        BY <1>1, <1>2, <2>1 DEF VersionRow, Statuses
      <4>2. versions' = [versions EXCEPT ![Version(x)] = e]
        BY <1>1, <1>4, <3>2 DEF ValidateStatus
      <4> QED BY <4>1, <4>2
    <3>3. CASE EnrichStatus(x)
      <4> DEFINE e == [versions[Version(x)] EXCEPT !.status = "enriched",
                         !.count = Cardinality(Deduplicated(exec[x].rows))]
      <4>1. e \in VersionRow
        BY <1>1, <1>2, <2>1 DEF VersionRow, Statuses
      <4>2. versions' = [versions EXCEPT ![Version(x)] = e]
        BY <1>1, <1>4, <3>3 DEF EnrichStatus
      <4> QED BY <4>1, <4>2
    <3>4. CASE EmbedStatus(x) \/ GateStatus(x) \/ Reject(x)
      <4>1. \A st \in Statuses : [versions[Version(x)] EXCEPT !.status = st] \in VersionRow
        BY <2>1 DEF VersionRow
      <4>2. PICK st \in Statuses : versions' = [versions EXCEPT ![Version(x)].status = st]
        BY <3>4 DEF EmbedStatus, GateStatus, Reject, Statuses
      <4> QED BY <4>1, <4>2
    <3> QED BY <1>7, <3>1, <3>2, <3>3, <3>4
  <2>3. versions' \in [Versions -> VersionRow]
    BY <1>1, <1>4, <2>2
  <2>4. UNCHANGED <<staged, quarantine, reports, checks, promoted, collection>>
    BY <1>7 DEF Register, ValidateStatus, EnrichStatus, EmbedStatus, GateStatus, Reject
  <2> QED BY <1>4, <2>3, <2>4 DEF StoresOK
<1>8. CASE ValidateReport(x) \/ EmbedReport(x) \/ ProfileWrite(x) \/ GateReport(x)
  <2>1. reports[Version(x)] \in Report
    BY <1>1, <1>4
  <2>2. PICK e \in Report : reports' = [reports EXCEPT ![Version(x)] = e]
    <3>1. CASE ValidateReport(x)
      <4> DEFINE e == [reports[Version(x)] EXCEPT !.validation =
                         [valid |-> Cardinality(exec[x].rows \cap Valid),
                          total |-> Cardinality(exec[x].rows), drifted |-> exec[x].drifted]]
      <4>1. e \in Report
        BY <1>1, <1>2, <2>1 DEF Report
      <4>2. reports' = [reports EXCEPT ![Version(x)] = e]
        BY <3>1 DEF ValidateReport
      <4> QED BY <4>1, <4>2
    <3>2. CASE EmbedReport(x)
      <4> DEFINE e == [reports[Version(x)] EXCEPT !.embedding =
                         [embedded |-> Cardinality(exec[x].rows \cap Textual),
                          total |-> Cardinality(exec[x].rows)]]
      <4>1. e \in Report
        BY <1>1, <1>2, <2>1 DEF Report
      <4>2. reports' = [reports EXCEPT ![Version(x)] = e]
        BY <3>2 DEF EmbedReport
      <4> QED BY <4>1, <4>2
    <3>3. CASE ProfileWrite(x)
      <4>1. [reports[Version(x)] EXCEPT !.profile = exec[x].seen] \in Report
        BY <1>1, <2>1 DEF Report
      <4>2. reports' = [reports EXCEPT ![Version(x)].profile = exec[x].seen]
        BY <3>3 DEF ProfileWrite
      <4> QED BY <4>1, <4>2
    <3>4. CASE GateReport(x)
      <4>1. [reports[Version(x)] EXCEPT !.quality = Verdict(x)] \in Report
        BY <1>1, <2>1 DEF Report, Verdicts
      <4>2. reports' = [reports EXCEPT ![Version(x)].quality = Verdict(x)]
        BY <3>4 DEF GateReport
      <4> QED BY <4>1, <4>2
    <3> QED BY <1>8, <3>1, <3>2, <3>3, <3>4
  <2>3. reports' \in [Versions -> Report]
    BY <1>1, <1>4, <2>2
  <2>4. UNCHANGED <<staged, quarantine, versions, checks, promoted, collection>>
    BY <1>8 DEF ValidateReport, EmbedReport, ProfileWrite, GateReport
  <2> QED BY <1>4, <2>3, <2>4 DEF StoresOK
<1>9. CASE RecordQualityReport(x)
  <2>1. checks' \in [Versions -> Verdicts]
    BY <1>1, <1>4, <1>9 DEF RecordQualityReport, Verdicts
  <2> QED BY <1>4, <1>9, <2>1 DEF RecordQualityReport, StoresOK
<1>10. CASE Promote(x)
  <2>1. versions[Version(x)] \in VersionRow /\ staged[Version(x)].rows \cap Textual \in SUBSET Rows
    BY <1>1, <1>2, <1>4
  <2>2. [versions[Version(x)] EXCEPT !.status = "promoted"] \in VersionRow
    BY <2>1 DEF VersionRow, Statuses
  <2>3. versions' = [versions EXCEPT ![Version(x)].status = "promoted"]
    BY <1>10 DEF Promote
  <2>4. versions' \in [Versions -> VersionRow]
    BY <1>1, <1>4, <2>2, <2>3
  <2>5. collection' \in [Versions -> SUBSET Rows]
    BY <1>1, <1>4, <1>10, <2>1 DEF Promote
  <2>6. promoted' \in Seq(Versions)
    BY <1>1, <1>4, <1>10 DEF Promote
  <2>7. UNCHANGED <<staged, quarantine, reports, checks>>
    BY <1>10 DEF Promote
  <2> QED BY <1>4, <2>4, <2>5, <2>6, <2>7 DEF StoresOK
<1>11. CASE \/ IngestRead(x) \/ ValidateRead(x) \/ ValidateRaises(x) \/ EnrichRead(x)
            \/ EmbedRead(x) \/ GateRead(x) \/ Emit(x) \/ Join(x) \/ ProfileRead(x)
            \/ Fault(x) \/ ProfileFault(x)
  <2>1. UNCHANGED stores
    BY <1>11 DEF IngestRead, ValidateRead, ValidateRaises, EnrichRead, EmbedRead, GateRead,
       Emit, Join, ProfileRead, Fault, ProfileFault
  <2> QED BY <1>4, <2>1 DEF StoresOK, stores
<1> QED
  BY <1>5, <1>6, <1>7, <1>8, <1>9, <1>10, <1>11 DEF Task, Profile

LEMMA StepTypeOK ==
    ASSUME TypeOK, NEW x \in Executions, Track(x),
           Task(x) \/ Profile(x) \/ Fault(x) \/ ProfileFault(x)
    PROVE  TypeOK'
<1>1. object' = object
  BY StepFrame DEF Frame
<1>2. exec' \in [Executions -> Exec]
  BY StepExec
<1> QED BY <1>1, <1>2, StepStores DEF TypeOK, StoresOK, Staged, Quarantined, VersionRow, Report, Exec

-----------------------------------------------------------------------------
(* Steps that write no store: reads, Kestra taking an output, faults. *)

Quiet(x) ==
    \/ IngestRead(x) \/ ValidateRead(x) \/ ValidateRaises(x) \/ EnrichRead(x)
    \/ EmbedRead(x) \/ GateRead(x) \/ Emit(x) \/ Join(x) \/ ProfileRead(x)
    \/ Fault(x) \/ ProfileFault(x)

LEMMA QuietStores ==
    ASSUME NEW x \in Executions, Quiet(x) PROVE UNCHANGED <<object, stores>>
BY DEF Quiet, IngestRead, ValidateRead, ValidateRaises, EnrichRead, EmbedRead, GateRead,
   Emit, Join, ProfileRead, Fault, ProfileFault

\* Nothing is said of the raw objects' rows in a step that changes none.
LEMMA SameRows ==
    ASSUME object' = object, NEW x \in Executions
    PROVE  Accepted(x)' = Accepted(x) /\ Kept(x)' = Kept(x) /\ (Sane(x)' <=> Sane(x))
BY DEF Accepted, Kept, Sane

LEMMA QuietDocumented ==
    ASSUME Inv, UNCHANGED <<object, stores>>, NEW v \in Versions
    PROVE  Documented(v)'
<1>1. v[1] \in Executions /\ Documented(v)
  BY DEF Versions, Inv
<1> QED BY <1>1, SameRows DEF stores, Documented, Profiled, Counted, Judged

\* A new attempt starts its task over; gate and promote have only one.
LEMMA StartsOver ==
    ASSUME TypeOK, NEW x \in Executions, exec' = [exec EXCEPT ![x] = Interrupted(x)]
    PROVE  /\ exec'[x].step = "read" /\ exec'[x].version = exec[x].version
           /\ exec'[x].profile = exec[x].profile /\ exec'[x].seen = exec[x].seen
           /\ exec'[x].stage \in {exec[x].stage, "failed"}
           /\ exec[x].stage \in {"gate", "promote"} => exec'[x].stage = "failed"
<1>1. exec \in [Executions -> Exec] /\ exec[x] \in Exec
  BY Facts DEF TypeOK, Exec
<1>2. exec'[x] = Interrupted(x)
  BY <1>1
<1>3. exec[x].stage \in {"gate", "promote"} => ~(exec[x].attempt < Attempts(exec[x].stage))
  BY <1>1, ThresholdsAssumption DEF Attempts, Exec
<1> QED BY <1>1, <1>2, <1>3 DEF Interrupted, Exec

LEMMA QuietBehind ==
    ASSUME Inv, NEW x \in Executions, Quiet(x)
    PROVE  LeftBehind(x)'
<1>1. exec \in [Executions -> Exec] /\ exec[x] \in Exec /\ LeftBehind(x)
      /\ ValidateTrack(x) /\ EndTrack(x)
  BY Facts DEF Inv, TypeOK, Exec, Track
<1>2. versions' = versions
  BY QuietStores DEF stores
<1>3. CASE IngestRead(x)
  <2>1. \A v \in Versions : v[1] = x => versions[v].status \in Fresh
    BY <1>1, <1>3 DEF IngestRead, At, LeftBehind
  <2> QED BY <1>2, <2>1 DEF LeftBehind
<1>4. ASSUME exec'[x].version = exec[x].version,
             exec'[x].stage = "ingest" => exec[x].stage = "ingest"
      PROVE  LeftBehind(x)'
  BY <1>1, <1>2, <1>4 DEF LeftBehind, Version
<1>5. CASE \/ ValidateRead(x) \/ EnrichRead(x) \/ EmbedRead(x) \/ GateRead(x)
           \/ ProfileRead(x) \/ ProfileFault(x)
  BY <1>1, <1>4, <1>5 DEF ValidateRead, EnrichRead, EmbedRead, GateRead, ProfileRead, ProfileFault, Exec
<1>6. CASE ValidateRaises(x) \/ Fault(x)
  BY <1>4, <1>6, StartsOver DEF Inv, ValidateRaises, Fault
<1>7. CASE Join(x)
  BY <1>1, <1>4, <1>7 DEF Join, Exec
<1>8. CASE Emit(x)
  <2>1. exec[x].stage \in {"ingest", "validate", "enrich", "embed", "gate", "promote"}
    BY <1>1, <1>8 DEF Emit, EndTrack, Exec, Stages
  <2>2. CASE exec[x].stage = "enrich"
    BY <1>1, <1>4, <1>8, <2>2 DEF Emit, Exec
  <2>3. CASE exec[x].stage # "enrich"
    <3>1. exec'[x] = [exec[x] EXCEPT !.stage = StageAfter[exec[x].stage],
                                     !.step = "read", !.attempt = 1]
      BY <1>1, <1>8, <2>3 DEF Emit
    <3>2. StageAfter[exec[x].stage] # "ingest"
      BY <2>1, <2>3 DEF StageAfter
    <3> QED BY <1>1, <1>4, <3>1, <3>2 DEF Exec
  <2> QED BY <2>2, <2>3
<1> QED BY <1>3, <1>5, <1>6, <1>7, <1>8 DEF Quiet

\* Every track but LeftBehind says something of one stage and of the profile task.
Tracks(x) ==
    /\ IngestTrack(x) /\ ValidateTrack(x) /\ EnrichTrack(x) /\ EmbedTrack(x)
    /\ GateTrack(x) /\ PromoteTrack(x) /\ EndTrack(x) /\ ProfileTrack(x)

LEMMA QuietTracks ==
    ASSUME Inv, NEW x \in Executions, Quiet(x)
    PROVE  Tracks(x)'
<1> DEFINE v == Version(x)
<1>1. /\ exec \in [Executions -> Exec] /\ exec[x] \in Exec /\ v \in Versions
      /\ v[1] = x /\ Documented(v) /\ ProfileTrack(x) /\ EndTrack(x)
      /\ Kept(x) = Deduplicated(Accepted(x)) /\ Accepted(x) = object[x] \cap Valid
  BY Facts DEF Inv, TypeOK, Exec, Track, Kept, Accepted
<1>2. /\ UNCHANGED <<object, stores>> /\ Accepted(x)' = Accepted(x) /\ Kept(x)' = Kept(x)
      /\ (Sane(x)' <=> Sane(x))
  BY QuietStores, SameRows
<1>3. /\ versions' = versions /\ staged' = staged /\ reports' = reports /\ checks' = checks
  BY <1>2 DEF stores
<1>4. ASSUME exec'[x].version = exec[x].version
      PROVE  /\ Version(x)' = v /\ (Profiled(Version(x))' <=> Profiled(v))
             /\ (Counted(Version(x))' <=> Counted(v)) /\ (Judged(Version(x))' <=> Judged(v))
             /\ (Decided(Version(x))' <=> Decided(v))
  <2>1. Version(x)' = v
    BY <1>4 DEF Version
  <2> QED BY <1>1, <1>2, <1>3, <2>1 DEF Profiled, Counted, Judged, Decided
<1>5. CASE IngestRead(x)
  <2>1. /\ exec'[x].stage = "ingest" /\ exec'[x].step = "register" /\ exec'[x].rows = object[x]
        /\ exec'[x].profile = exec[x].profile /\ exec[x].stage = "ingest"
    BY <1>1, <1>5 DEF IngestRead, At, Exec
  <2>2. object'[x] = object[x]
    BY <1>2
  <2>3. exec[x].profile = "waiting"
    BY <1>1, <2>1 DEF ProfileTrack
  <2> QED
    BY <2>1, <2>2, <2>3 DEF Tracks, IngestTrack, ValidateTrack, EnrichTrack, EmbedTrack,
       GateTrack, PromoteTrack, EndTrack, ProfileTrack
<1>6. CASE ValidateRead(x)
  <2>1. /\ exec'[x].stage = "validate" /\ exec'[x].step = "stage" /\ exec'[x].version = exec[x].version
        /\ exec'[x].rows = staged[v].rows /\ Sample(staged[v].rows) \cap NonObjects = {}
        /\ exec'[x].profile = exec[x].profile /\ exec[x].stage = "validate"
    BY <1>1, <1>6 DEF ValidateRead, At, Exec
  <2>2. ValidateTrack(x)
    BY DEF Inv, Track
  <2>3. Sane(x) /\ staged[v].rows \cap Valid = Accepted(x)
    BY <2>1, <2>2 DEF ValidateTrack, Sane, Accepted
  <2>4. object'[x] = object[x]
    BY <1>2
  <2>5. ValidateTrack(x)'
    BY <1>2, <1>3, <1>4, <2>1, <2>2, <2>3, <2>4 DEF ValidateTrack
  <2>6. ProfileTrack(x)'
    BY <1>1, <2>1 DEF ProfileTrack
  <2> QED
    BY <2>1, <2>5, <2>6 DEF Tracks, IngestTrack, EnrichTrack, EmbedTrack,
       GateTrack, PromoteTrack, EndTrack
<1>7. CASE EnrichRead(x)
  <2>1. /\ exec'[x].stage = "enrich" /\ exec'[x].step = "stage" /\ exec'[x].version = exec[x].version
        /\ exec'[x].rows = staged[v].rows /\ exec[x].stage = "enrich"
        /\ exec'[x].profile = exec[x].profile /\ exec'[x].seen = exec[x].seen
    BY <1>1, <1>7 DEF EnrichRead, At, Exec
  <2>2. EnrichTrack(x)
    BY DEF Inv, Track
  <2>3. staged[v].rows \in {Accepted(x), Kept(x)}
    BY <1>1, <2>1, <2>2 DEF EnrichTrack, Documented, Fresh
  <2>4. EnrichTrack(x)'
    BY <1>2, <1>3, <1>4, <2>1, <2>2, <2>3 DEF EnrichTrack
  <2>5. ProfileTrack(x)'
    BY <1>1, <1>2, <1>3, <1>4, <2>1 DEF ProfileTrack
  <2> QED
    BY <2>1, <2>4, <2>5 DEF Tracks, IngestTrack, ValidateTrack, EmbedTrack,
       GateTrack, PromoteTrack, EndTrack
<1>8. CASE EmbedRead(x)
  <2>1. /\ exec'[x].stage = "embed" /\ exec'[x].step = "stage" /\ exec'[x].version = exec[x].version
        /\ exec'[x].rows = staged[v].rows /\ exec[x].stage = "embed"
        /\ exec'[x].profile = exec[x].profile
    BY <1>1, <1>8 DEF EmbedRead, At, Exec
  <2>2. EmbedTrack(x)
    BY DEF Inv, Track
  <2>3. staged[v].rows = Kept(x)
    BY <1>1, <2>1, <2>2 DEF EmbedTrack, Documented
  <2>4. EmbedTrack(x)'
    BY <1>2, <1>3, <1>4, <2>1, <2>2, <2>3 DEF EmbedTrack
  <2>5. ProfileTrack(x)'
    BY <1>1, <1>2, <1>3, <1>4, <2>1 DEF ProfileTrack
  <2> QED
    BY <2>1, <2>4, <2>5 DEF Tracks, IngestTrack, ValidateTrack, EnrichTrack,
       GateTrack, PromoteTrack, EndTrack
<1>9. CASE GateRead(x)
  <2>1. /\ exec'[x].stage = "gate" /\ exec'[x].step = "table" /\ exec'[x].version = exec[x].version
        /\ exec'[x].rows = staged[v].rows /\ exec[x].stage = "gate"
        /\ exec'[x].profile = exec[x].profile
    BY <1>1, <1>9 DEF GateRead, At, Exec
  <2>2. GateTrack(x)
    BY DEF Inv, Track
  <2>3. staged[v].rows = Kept(x)
    BY <1>1, <2>1, <2>2 DEF GateTrack, Documented
  <2>4. GateTrack(x)'
    BY <1>2, <1>3, <1>4, <2>1, <2>2, <2>3 DEF GateTrack
  <2>5. ProfileTrack(x)'
    BY <1>1, <1>2, <1>3, <1>4, <2>1 DEF ProfileTrack
  <2> QED
    BY <2>1, <2>4, <2>5 DEF Tracks, IngestTrack, ValidateTrack, EnrichTrack,
       EmbedTrack, PromoteTrack, EndTrack
<1>10. CASE ProfileRead(x) \/ ProfileFault(x)
  <2>1. /\ exec'[x].stage = "enrich" /\ exec'[x].version = exec[x].version
        /\ exec'[x].step = exec[x].step /\ exec'[x].rows = exec[x].rows /\ exec[x].stage = "enrich"
        /\ exec'[x].profile \in {"read", "failed"}
        /\ exec'[x].profile = "read" => exec'[x].seen = staged[v].rows
    BY <1>1, <1>10 DEF ProfileRead, ProfileFault, Exec
  <2>2. EnrichTrack(x)
    BY DEF Inv, Track
  <2>3. staged[v].rows \in {Accepted(x), Kept(x)} /\ versions[v].status \in {"validated", "enriched"}
    BY <1>1, <2>1, <2>2 DEF EnrichTrack, Documented, Fresh
  <2>4. EnrichTrack(x)'
    BY <1>2, <1>3, <1>4, <2>1, <2>2 DEF EnrichTrack
  <2>5. ProfileTrack(x)'
    BY <1>2, <1>3, <1>4, <2>1, <2>3 DEF ProfileTrack
  <2> QED
    BY <2>1, <2>4, <2>5 DEF Tracks, IngestTrack, ValidateTrack, EmbedTrack,
       GateTrack, PromoteTrack, EndTrack
<1>11. CASE ValidateRaises(x) \/ Fault(x)
  <2>1. /\ exec'[x].step = "read" /\ exec'[x].version = exec[x].version
        /\ exec'[x].profile = exec[x].profile /\ exec'[x].seen = exec[x].seen
        /\ exec'[x].stage \in {exec[x].stage, "failed"}
        /\ exec[x].stage \in {"gate", "promote"} => exec'[x].stage = "failed"
    BY <1>11, StartsOver DEF Inv, ValidateRaises, Fault
  <2>2. exec[x].stage \in {"ingest", "validate", "enrich", "embed", "gate", "promote"}
    BY <1>1, <1>11 DEF ValidateRaises, Fault, At, Exec, Stages
  <2>3. ValidateTrack(x) /\ EnrichTrack(x) /\ EmbedTrack(x)
    BY DEF Inv, Track
  <2>4. object'[x] = object[x]
    BY <1>2
  <2>5. ValidateTrack(x)' /\ EnrichTrack(x)' /\ EmbedTrack(x)'
    BY <1>2, <1>3, <1>4, <2>1, <2>2, <2>3, <2>4 DEF ValidateTrack, EnrichTrack, EmbedTrack
  <2>6. ProfileTrack(x)'
    BY <1>1, <1>2, <1>3, <1>4, <2>1, <2>2 DEF ProfileTrack
  <2> QED
    BY <2>1, <2>2, <2>5, <2>6 DEF Tracks, IngestTrack, GateTrack, PromoteTrack, EndTrack
<1>12. CASE Join(x)
  <2>1. exec[x].stage = "enrich" /\ exec[x].step = "join" /\ exec[x].profile \in {"written", "failed"}
    BY <1>1, <1>12 DEF Join, Inv, Track, IngestTrack, ValidateTrack, EmbedTrack, GateTrack,
       PromoteTrack, EndTrack, Exec, Stages
  <2>2. /\ exec'[x].step = "read" /\ exec'[x].version = exec[x].version
        /\ exec'[x].profile = exec[x].profile
        /\ exec'[x].stage = IF exec[x].profile = "written" THEN "embed" ELSE "failed"
    BY <1>1, <1>12 DEF Join, Exec
  <2>3. versions[v].status = "enriched"
    BY <2>1 DEF Inv, Track, EnrichTrack
  <2>4. EmbedTrack(x)' /\ ProfileTrack(x)'
    BY <1>1, <1>2, <1>3, <1>4, <2>1, <2>2, <2>3 DEF EmbedTrack, ProfileTrack
  <2> QED
    BY <2>1, <2>2, <2>4 DEF Tracks, IngestTrack, ValidateTrack, EnrichTrack,
       GateTrack, PromoteTrack, EndTrack
<1>13. CASE Emit(x)
  <2>1. exec[x].stage \in {"ingest", "validate", "enrich", "embed", "gate", "promote"}
        /\ exec[x].step = "emit"
    BY <1>1, <1>13 DEF Emit, EndTrack, Exec, Stages
  <2>2. /\ exec'[x].version = exec[x].version /\ exec'[x].profile = exec[x].profile
        /\ exec'[x].seen = exec[x].seen /\ exec'[x].rows = exec[x].rows
        /\ exec[x].stage = "enrich" => exec'[x].stage = "enrich" /\ exec'[x].step = "join"
        /\ exec[x].stage # "enrich" =>
             exec'[x].stage = StageAfter[exec[x].stage] /\ exec'[x].step = "read"
    BY <1>1, <1>13 DEF Emit, Exec
  <2>3. object'[x] = object[x]
    BY <1>2
  <2>4. CASE exec[x].stage = "ingest"
    <3>1. exec'[x].stage = "validate" /\ exec'[x].step = "read"
      BY <2>2, <2>4 DEF StageAfter
    <3>2. versions[v].status = "ingested" /\ staged[v].rows = object[x]
      BY <2>1, <2>4 DEF Inv, Track, IngestTrack
    <3>3. ValidateTrack(x)'
      BY <1>3, <1>4, <2>2, <2>3, <3>1, <3>2 DEF ValidateTrack
    <3>4. ProfileTrack(x)'
      BY <1>1, <2>2, <2>4, <3>1 DEF ProfileTrack
    <3> QED BY <3>1, <3>3, <3>4 DEF Tracks, IngestTrack, EnrichTrack, EmbedTrack, GateTrack,
               PromoteTrack, EndTrack
  <2>5. CASE exec[x].stage = "validate"
    <3>1. exec'[x].stage = "enrich" /\ exec'[x].step = "read"
      BY <2>2, <2>5 DEF StageAfter
    <3>2. versions[v].status = "validated"
      BY <2>1, <2>5 DEF Inv, Track, ValidateTrack
    <3>3. EnrichTrack(x)'
      BY <1>3, <1>4, <2>2, <3>1, <3>2 DEF EnrichTrack
    <3>4. ProfileTrack(x)'
      BY <1>1, <2>2, <2>5, <3>1 DEF ProfileTrack
    <3> QED BY <3>1, <3>3, <3>4 DEF Tracks, IngestTrack, ValidateTrack, EmbedTrack, GateTrack,
               PromoteTrack, EndTrack
  <2>6. CASE exec[x].stage = "enrich"
    <3>1. exec'[x].stage = "enrich" /\ exec'[x].step = "join"
      BY <2>2, <2>6
    <3>2. EnrichTrack(x)'
      BY <1>2, <1>3, <1>4, <2>1, <2>2, <2>6, <3>1 DEF EnrichTrack, Inv, Track
    <3>3. ProfileTrack(x)'
      BY <1>1, <1>2, <1>3, <1>4, <2>2, <2>6, <3>1 DEF ProfileTrack
    <3> QED BY <3>1, <3>2, <3>3 DEF Tracks, IngestTrack, ValidateTrack, EmbedTrack, GateTrack,
               PromoteTrack, EndTrack
  <2>7. CASE exec[x].stage = "embed"
    <3>1. exec'[x].stage = "gate" /\ exec'[x].step = "read"
      BY <2>2, <2>7 DEF StageAfter
    <3>2. versions[v].status = "embedded" /\ Counted(v)
      BY <2>1, <2>7 DEF Inv, Track, EmbedTrack
    <3>3. GateTrack(x)'
      BY <1>3, <1>4, <2>2, <3>1, <3>2 DEF GateTrack
    <3>4. ProfileTrack(x)'
      BY <1>1, <1>4, <2>2, <2>7, <3>1 DEF ProfileTrack
    <3> QED BY <3>1, <3>3, <3>4 DEF Tracks, IngestTrack, ValidateTrack, EnrichTrack, EmbedTrack,
               PromoteTrack, EndTrack
  <2>8. CASE exec[x].stage = "gate"
    <3>1. exec'[x].stage = "promote" /\ exec'[x].step = "read"
      BY <2>2, <2>8 DEF StageAfter
    <3>2. versions[v].status = "gated" /\ Judged(v)
      BY <2>1, <2>8 DEF Inv, Track, GateTrack
    <3>3. PromoteTrack(x)'
      BY <1>3, <1>4, <2>2, <3>1, <3>2 DEF PromoteTrack
    <3>4. ProfileTrack(x)'
      BY <1>1, <2>2, <2>8, <3>1 DEF ProfileTrack
    <3> QED BY <3>1, <3>3, <3>4 DEF Tracks, IngestTrack, ValidateTrack, EnrichTrack, EmbedTrack,
               GateTrack, EndTrack
  <2>9. CASE exec[x].stage = "promote"
    <3>1. exec'[x].stage = "done" /\ exec'[x].step = "read"
      BY <2>2, <2>9 DEF StageAfter
    <3>2. Decided(v)
      BY <2>1, <2>9 DEF Inv, Track, PromoteTrack
    <3>3. EndTrack(x)'
      BY <1>4, <2>2, <3>1, <3>2 DEF EndTrack
    <3>4. ProfileTrack(x)'
      BY <1>1, <2>2, <2>9, <3>1 DEF ProfileTrack
    <3> QED BY <3>1, <3>3, <3>4 DEF Tracks, IngestTrack, ValidateTrack, EnrichTrack, EmbedTrack,
               GateTrack, PromoteTrack
  <2> QED BY <2>1, <2>4, <2>5, <2>6, <2>7, <2>8, <2>9
<1> QED BY <1>5, <1>6, <1>7, <1>8, <1>9, <1>10, <1>11, <1>12, <1>13 DEF Quiet

-----------------------------------------------------------------------------
(* Steps that write a store. *)

Writing(x) ==
    \/ Register(x) \/ IngestStage(x)
    \/ ValidateStage(x) \/ WriteQuarantine(x) \/ QuarantineRecords(x)
    \/ ValidateStatus(x) \/ ValidateReport(x)
    \/ EnrichStage(x) \/ EnrichStatus(x) \/ ProfileWrite(x)
    \/ EmbedStage(x) \/ EmbedStatus(x) \/ EmbedReport(x)
    \/ RecordQualityReport(x) \/ GateStatus(x) \/ GateReport(x)
    \/ Promote(x) \/ Reject(x)

\* What a task knows when it writes, and that it stays in its stage.
LEMMA Writes ==
    ASSUME Inv, NEW x \in Executions, Writing(x)
    PROVE  /\ exec \in [Executions -> Exec] /\ exec[x] \in Exec /\ Version(x) \in Versions
           /\ Version(x)[1] = x /\ Documented(Version(x)) /\ Track(x)
           /\ Version(x) \in DOMAIN staged /\ Version(x) \in DOMAIN versions
           /\ Version(x) \in DOMAIN reports /\ Version(x) \in DOMAIN checks
           /\ versions[Version(x)] \in VersionRow /\ reports[Version(x)] \in Report
           /\ Kept(x) = Deduplicated(Accepted(x)) /\ Kept(x) \subseteq Accepted(x)
           /\ Deduplicated(Kept(x)) = Kept(x)
           /\ exec[x].rows \in SUBSET Rows
           /\ Accepted(x)' = Accepted(x) /\ Kept(x)' = Kept(x) /\ (Sane(x)' <=> Sane(x))
           /\ object'[x] = object[x] /\ Version(x)' = Version(x)
           /\ exec'[x].stage = exec[x].stage /\ exec'[x].rows = exec[x].rows
           /\ exec'[x].seen = exec[x].seen
           /\ ~ProfileWrite(x) => exec'[x].profile = exec[x].profile
<1>1. /\ exec \in [Executions -> Exec] /\ exec[x] \in Exec /\ Version(x) \in Versions
      /\ Version(x)[1] = x /\ Documented(Version(x)) /\ Track(x)
      /\ Kept(x) \subseteq Accepted(x) /\ Deduplicated(Kept(x)) = Kept(x)
  BY Facts DEF Inv, TypeOK, Exec
<1>2. /\ Version(x) \in DOMAIN staged /\ Version(x) \in DOMAIN versions
      /\ Version(x) \in DOMAIN reports /\ Version(x) \in DOMAIN checks
      /\ versions[Version(x)] \in VersionRow /\ reports[Version(x)] \in Report
  BY <1>1 DEF Inv, TypeOK, VersionRow, Report
<1>3. /\ exec'[x].stage = exec[x].stage /\ exec'[x].rows = exec[x].rows
      /\ exec'[x].seen = exec[x].seen /\ exec'[x].version = exec[x].version
      /\ ~ProfileWrite(x) => exec'[x].profile = exec[x].profile
  <2>1. CASE ProfileWrite(x)
    BY <1>1, <2>1 DEF ProfileWrite, Exec
  <2>2. CASE ~ProfileWrite(x)
    <3>1. CASE \/ Register(x) \/ IngestStage(x) \/ ValidateStage(x) \/ WriteQuarantine(x)
               \/ QuarantineRecords(x) \/ ValidateStatus(x) \/ ValidateReport(x)
      BY <1>1, <3>1 DEF Register, IngestStage, ValidateStage, WriteQuarantine,
         QuarantineRecords, ValidateStatus, ValidateReport, Goto, Exec
    <3>2. CASE \/ EnrichStage(x) \/ EnrichStatus(x)
               \/ EmbedStage(x) \/ EmbedStatus(x) \/ EmbedReport(x)
      BY <1>1, <3>2 DEF EnrichStage, EnrichStatus, EmbedStage, EmbedStatus, EmbedReport, Goto, Exec
    <3>3. CASE \/ RecordQualityReport(x) \/ GateStatus(x) \/ GateReport(x)
               \/ Promote(x) \/ Reject(x)
      BY <1>1, <3>3 DEF RecordQualityReport, GateStatus, GateReport, Promote, Reject, Goto, Exec
    <3> QED BY <2>2, <3>1, <3>2, <3>3 DEF Writing
  <2> QED BY <2>1, <2>2
<1>4. Version(x)' = Version(x)
  BY <1>3 DEF Version
<1>5. object' = object
  BY StepFrame DEF Inv, Writing, Task, Profile, Frame
<1>6. exec[x].rows \in SUBSET Rows
  BY <1>1 DEF Exec
<1> QED BY <1>1, <1>2, <1>3, <1>4, <1>5, <1>6, SameRows DEF Kept

LEMMA WritesBehind ==
    ASSUME Inv, NEW x \in Executions, Writing(x)
    PROVE  LeftBehind(x)'
<1>1. /\ exec'[x].stage = exec[x].stage /\ Version(x)' = Version(x) /\ LeftBehind(x)
      /\ Version(x) \in DOMAIN versions /\ Version(x) \in Versions /\ Version(x)[1] = x
  BY Writes DEF Track
<1>2. \A v \in Versions \ {Version(x)} : versions'[v] = versions[v]
  BY StepFrame DEF Inv, Writing, Task, Profile, Frame
<1>3. exec[x].stage = "ingest" => versions'[Version(x)].status \in Fresh
  <2>1. ASSUME exec[x].stage = "ingest" PROVE Register(x) \/ versions' = versions
    BY <2>1, Writes DEF Writing, IngestStage, ValidateStage, WriteQuarantine, QuarantineRecords,
       ValidateStatus, ValidateReport, EnrichStage, EnrichStatus, ProfileWrite, EmbedStage,
       EmbedStatus, EmbedReport, RecordQualityReport, GateStatus, GateReport, Promote, Reject, At
  <2>2. Register(x) => versions'[Version(x)].status \in Fresh
    BY <1>1 DEF Register, Fresh
  <2> QED BY <1>1, <2>1, <2>2 DEF LeftBehind
<1> QED BY <1>1, <1>2, <1>3 DEF LeftBehind

\* The tracks of the other stages say nothing.
LEMMA OnlyTrack ==
    ASSUME NEW x \in Executions
    PROVE  /\ exec'[x].stage = "ingest" /\ IngestTrack(x)' /\ ProfileTrack(x)' => Tracks(x)'
           /\ exec'[x].stage = "validate" /\ ValidateTrack(x)' /\ ProfileTrack(x)' => Tracks(x)'
           /\ exec'[x].stage = "enrich" /\ EnrichTrack(x)' /\ ProfileTrack(x)' => Tracks(x)'
           /\ exec'[x].stage = "embed" /\ EmbedTrack(x)' /\ ProfileTrack(x)' => Tracks(x)'
           /\ exec'[x].stage = "gate" /\ GateTrack(x)' /\ ProfileTrack(x)' => Tracks(x)'
           /\ exec'[x].stage = "promote" /\ PromoteTrack(x)' /\ ProfileTrack(x)' => Tracks(x)'
           /\ exec'[x].stage \in {"done", "failed"} /\ EndTrack(x)' /\ ProfileTrack(x)' => Tracks(x)'
BY DEF Tracks, IngestTrack, ValidateTrack, EnrichTrack, EmbedTrack, GateTrack, PromoteTrack,
   EndTrack

LEMMA IngestWrites ==
    ASSUME Inv, NEW x \in Executions, Register(x) \/ IngestStage(x)
    PROVE  Tracks(x)' /\ Documented(Version(x))'
<1> DEFINE v == Version(x)
<1>0. Writing(x) /\ ~ProfileWrite(x)
  BY Facts DEF Inv, Writing, Register, IngestStage, ProfileWrite, Track, ProfileTrack, At
<1>1. /\ exec[x].stage = "ingest" /\ exec'[x].stage = "ingest" /\ exec[x].step # "read"
      /\ exec'[x].profile = "waiting"
      /\ exec'[x].rows = object'[x] /\ v' = v /\ v[1] = x
  BY <1>0, Writes DEF Register, IngestStage, At, Track, IngestTrack, ProfileTrack
<1>2. versions'[v].status = "ingested"
  BY <1>0, Writes DEF Register, IngestStage, At, Track, IngestTrack
<1>3. exec'[x].step = IF Register(x) THEN "stage" ELSE "emit"
  BY <1>0, Writes DEF Register, IngestStage, Goto, At, Exec
<1>4. exec'[x].step = "emit" => staged'[v].rows = object'[x]
  BY <1>0, <1>1, <1>3, Writes DEF IngestStage, Track, IngestTrack
<1>5. IngestTrack(x)'
  BY <1>1, <1>2, <1>3, <1>4 DEF IngestTrack
<1>6. ProfileTrack(x)'
  BY <1>1 DEF ProfileTrack
<1>7. Documented(v)'
  BY <1>1, <1>2 DEF Documented, Fresh
<1> QED BY <1>1, <1>5, <1>6, <1>7, OnlyTrack

\* Only the profile task writes a profile, and the other tasks leave it its place.
LEMMA WritesProfile ==
    ASSUME Inv, NEW x \in Executions, Writing(x), ~ProfileWrite(x)
    PROVE  reports'[Version(x)].profile = reports[Version(x)].profile /\ ProfileTrack(x)'
<1> DEFINE v == Version(x)
<1>1. /\ exec[x] \in Exec /\ ProfileTrack(x) /\ v' = v /\ v[1] = x
      /\ exec'[x].stage = exec[x].stage /\ exec'[x].seen = exec[x].seen
      /\ exec'[x].profile = exec[x].profile
      /\ Accepted(x)' = Accepted(x) /\ Kept(x)' = Kept(x)
      /\ v \in DOMAIN versions /\ v \in DOMAIN reports
      /\ versions[v] \in VersionRow /\ reports[v] \in Report
  BY Writes DEF Track
<1>2. reports'[v].profile = reports[v].profile
  <2>1. CASE ValidateReport(x)
    BY <1>1, <2>1 DEF ValidateReport, Report
  <2>2. CASE EmbedReport(x)
    BY <1>1, <2>2 DEF EmbedReport, Report
  <2>3. CASE GateReport(x)
    BY <1>1, <2>3 DEF GateReport, Report
  <2>4. CASE ~(ValidateReport(x) \/ EmbedReport(x) \/ GateReport(x))
    BY <2>4 DEF Writing, Register, IngestStage, ValidateStage, WriteQuarantine, QuarantineRecords,
       ValidateStatus, EnrichStage, EnrichStatus, EmbedStage, EmbedStatus, RecordQualityReport,
       GateStatus, Promote, Reject
  <2> QED BY <2>1, <2>2, <2>3, <2>4
<1>3. exec[x].stage # "failed"
  BY <1>1 DEF Writing, Register, IngestStage, ValidateStage, WriteQuarantine, QuarantineRecords,
     ValidateStatus, ValidateReport, EnrichStage, EnrichStatus, EmbedStage, EmbedStatus,
     EmbedReport, RecordQualityReport, GateStatus, GateReport, Promote, Reject, At
<1>4. exec[x].stage = "enrich" =>
        versions'[v].status \in {versions[v].status, "enriched"}
  <2>1. CASE EnrichStatus(x)
    BY <1>1, <2>1 DEF EnrichStatus, VersionRow
  <2>2. CASE exec[x].stage = "enrich" /\ ~EnrichStatus(x)
    BY <2>2 DEF Writing, Register, IngestStage, ValidateStage, WriteQuarantine, QuarantineRecords,
       ValidateStatus, ValidateReport, EnrichStage, EmbedStage, EmbedStatus,
       EmbedReport, RecordQualityReport, GateStatus, GateReport, Promote, Reject, At
  <2> QED BY <2>1, <2>2
<1>5. Profiled(v)' <=> Profiled(v)
  BY <1>1, <1>2 DEF Profiled
<1>6. ProfileTrack(x)'
  BY <1>1, <1>3, <1>4, <1>5 DEF ProfileTrack
<1> QED BY <1>2, <1>6

LEMMA ValidateWrites ==
    ASSUME Inv, NEW x \in Executions,
           \/ ValidateStage(x) \/ WriteQuarantine(x) \/ QuarantineRecords(x)
           \/ ValidateStatus(x) \/ ValidateReport(x)
    PROVE  Tracks(x)' /\ Documented(Version(x))'
<1> DEFINE v == Version(x)
<1>0. Writing(x) /\ exec[x].stage = "validate" /\ exec[x].step # "read"
  BY DEF Writing, ValidateStage, WriteQuarantine, QuarantineRecords, ValidateStatus,
     ValidateReport, At
<1>1. ~ProfileWrite(x)
  BY <1>0, Writes DEF ProfileWrite, Track, ProfileTrack
<1>2. /\ exec \in [Executions -> Exec] /\ exec[x] \in Exec
      /\ exec'[x].stage = "validate" /\ exec'[x].rows = exec[x].rows /\ v' = v /\ v[1] = x
      /\ Accepted(x)' = Accepted(x) /\ Kept(x)' = Kept(x) /\ (Sane(x)' <=> Sane(x))
      /\ ValidateTrack(x) /\ Documented(v) /\ object'[x] = object[x]
      /\ v \in DOMAIN versions /\ v \in DOMAIN staged /\ versions[v] \in VersionRow
  BY <1>0, Writes DEF Track
<1>3. Sane(x) /\ exec[x].rows \cap Valid = Accepted(x) /\ versions[v].status \in {"ingested", "validated"}
  BY <1>0, <1>2 DEF ValidateTrack
<1>4. ProfileTrack(x)'
  BY <1>0, <1>1, WritesProfile
<1>5. staged'[v].rows = Accepted(x)
  <2>1. CASE ValidateStage(x)
    BY <1>2, <1>3, <2>1 DEF ValidateStage
  <2>2. CASE ~ValidateStage(x)
    BY <1>2, <2>2 DEF WriteQuarantine, QuarantineRecords, ValidateStatus, ValidateReport,
       ValidateTrack, At
  <2> QED BY <2>1, <2>2
<1>6. /\ versions'[v].status \in {"ingested", "validated"}
      /\ exec'[x].step \in {"quarantine", "table", "status", "report", "emit"}
      /\ exec'[x].step \in {"report", "emit"} => versions'[v].status = "validated"
  <2>1. CASE ValidateStatus(x)
    BY <1>2, <2>1 DEF ValidateStatus, Goto, VersionRow, Exec
  <2>2. CASE ValidateReport(x)
    BY <1>2, <1>3, <2>2 DEF ValidateReport, ValidateTrack, Goto, At, Exec
  <2>3. CASE ValidateStage(x) \/ WriteQuarantine(x) \/ QuarantineRecords(x)
    BY <1>2, <1>3, <2>3 DEF ValidateStage, WriteQuarantine, QuarantineRecords, Goto, Exec
  <2> QED BY <2>1, <2>2, <2>3
<1>7. ValidateTrack(x)'
  BY <1>2, <1>3, <1>5, <1>6 DEF ValidateTrack
<1>8. Documented(v)'
  BY <1>2, <1>3, <1>5, <1>6 DEF Documented
<1> QED BY <1>2, <1>4, <1>7, <1>8, OnlyTrack

LEMMA EnrichWrites ==
    ASSUME Inv, NEW x \in Executions, EnrichStage(x) \/ EnrichStatus(x)
    PROVE  Tracks(x)' /\ Documented(Version(x))'
<1> DEFINE v == Version(x)
<1>0. Writing(x) /\ exec[x].stage = "enrich" /\ exec[x].step \in {"stage", "status"}
  BY DEF Writing, EnrichStage, EnrichStatus, At
<1>1. /\ exec \in [Executions -> Exec] /\ exec[x] \in Exec
      /\ exec'[x].stage = "enrich" /\ exec'[x].rows = exec[x].rows /\ v' = v /\ v[1] = x
      /\ Accepted(x)' = Accepted(x) /\ Kept(x)' = Kept(x) /\ (Sane(x)' <=> Sane(x))
      /\ Kept(x) = Deduplicated(Accepted(x)) /\ Deduplicated(Kept(x)) = Kept(x)
      /\ EnrichTrack(x) /\ Documented(v)
      /\ v \in DOMAIN versions /\ v \in DOMAIN staged /\ versions[v] \in VersionRow
  BY <1>0, Writes DEF Track
<1>2. /\ Deduplicated(exec[x].rows) = Kept(x) /\ exec[x].rows \in {Accepted(x), Kept(x)}
      /\ versions[v].status \in {"validated", "enriched"} /\ Sane(x)
  BY <1>0, <1>1 DEF EnrichTrack, Documented, Fresh
<1>3. ~ProfileWrite(x)
  <2>1. ProfileWrite(x) => exec' = [exec EXCEPT ![x].profile = "written"]
    BY DEF ProfileWrite
  <2>2. exec'[x].step # exec[x].step
    BY <1>1 DEF EnrichStage, EnrichStatus, Goto, At, Exec
  <2> QED BY <1>1, <2>1, <2>2 DEF Exec
<1>4. ProfileTrack(x)'
  BY <1>0, <1>3, WritesProfile
<1>5. CASE EnrichStage(x)
  <2>1. staged'[v].rows = Kept(x) /\ versions'[v] = versions[v] /\ exec'[x].step = "status"
    BY <1>1, <1>2, <1>5 DEF EnrichStage, Goto, Exec
  <2>2. EnrichTrack(x)'
    BY <1>1, <1>2, <2>1 DEF EnrichTrack
  <2>3. versions[v].count = versions'[v].count
    BY <2>1
  <2>4. Documented(v)'
    BY <1>1, <1>2, <2>1 DEF Documented
  <2> QED BY <1>1, <1>4, <2>2, <2>4, OnlyTrack
<1>6. CASE EnrichStatus(x)
  <2>1. staged[v].rows = Kept(x)
    BY <1>0, <1>1, <1>6 DEF EnrichTrack, EnrichStatus, At
  <2>2. staged' = staged /\ exec'[x].step = "emit"
    BY <1>1, <1>6 DEF EnrichStatus, Goto, Exec
  <2>3. versions'[v].status = "enriched" /\ versions'[v].count = Cardinality(Kept(x))
    BY <1>1, <1>2, <1>6 DEF EnrichStatus, VersionRow
  <2>4. EnrichTrack(x)'
    BY <1>1, <1>2, <2>1, <2>2, <2>3 DEF EnrichTrack
  <2>5. Documented(v)'
    BY <1>1, <1>2, <2>1, <2>2, <2>3 DEF Documented
  <2> QED BY <1>1, <1>4, <2>4, <2>5, OnlyTrack
<1> QED BY <1>5, <1>6

\* The profile is of rows before or after de-duplication, and is written while
\* the version is being enriched or after its execution failed there.
LEMMA ProfileWrites ==
    ASSUME Inv, NEW x \in Executions, ProfileWrite(x)
    PROVE  Tracks(x)' /\ Documented(Version(x))'
<1> DEFINE v == Version(x)
<1>0. Writing(x) /\ exec[x].profile = "read"
  BY DEF Writing, ProfileWrite
<1>1. /\ exec \in [Executions -> Exec] /\ exec[x] \in Exec
      /\ exec'[x].stage = exec[x].stage /\ exec'[x].rows = exec[x].rows /\ v' = v /\ v[1] = x
      /\ Accepted(x)' = Accepted(x) /\ Kept(x)' = Kept(x) /\ (Sane(x)' <=> Sane(x))
      /\ Kept(x) \subseteq Accepted(x)
      /\ EnrichTrack(x) /\ EndTrack(x) /\ ProfileTrack(x) /\ Documented(v)
      /\ v \in DOMAIN reports /\ reports[v] \in Report
  BY <1>0, Writes DEF Track
<1>2. /\ exec[x].stage \in {"enrich", "failed"} /\ exec[x].seen \in {Accepted(x), Kept(x)}
      /\ versions[v].status \in {"validated", "enriched"}
  BY <1>0, <1>1 DEF ProfileTrack
<1>3. /\ exec'[x].step = exec[x].step /\ exec'[x].profile = "written"
      /\ versions' = versions /\ staged' = staged /\ reports'[v].profile = exec[x].seen
  BY <1>1 DEF ProfileWrite, Exec, Report
<1>4. Profiled(v)'
  BY <1>1, <1>2, <1>3 DEF Profiled
<1>5. ProfileTrack(x)'
  BY <1>1, <1>2, <1>3, <1>4 DEF ProfileTrack
<1>6. EnrichTrack(x)' /\ EndTrack(x)'
  BY <1>1, <1>2, <1>3 DEF EnrichTrack, EndTrack
<1>7. Documented(v)'
  BY <1>1, <1>2, <1>3 DEF Documented
<1> QED BY <1>1, <1>2, <1>5, <1>6, <1>7, OnlyTrack

\* Counting the rows with a vector, and the rows.
LEMMA EmbedWrites ==
    ASSUME Inv, NEW x \in Executions, EmbedStage(x) \/ EmbedStatus(x) \/ EmbedReport(x)
    PROVE  Tracks(x)' /\ Documented(Version(x))'
<1> DEFINE v == Version(x)
<1>0. Writing(x) /\ exec[x].stage = "embed" /\ exec[x].step \in {"stage", "status", "report"}
  BY DEF Writing, EmbedStage, EmbedStatus, EmbedReport, At
<1>1. /\ exec \in [Executions -> Exec] /\ exec[x] \in Exec
      /\ exec'[x].stage = "embed" /\ exec'[x].rows = exec[x].rows /\ v' = v /\ v[1] = x
      /\ Accepted(x)' = Accepted(x) /\ Kept(x)' = Kept(x) /\ (Sane(x)' <=> Sane(x))
      /\ EmbedTrack(x) /\ Documented(v) /\ ProfileTrack(x)
      /\ v \in DOMAIN versions /\ v \in DOMAIN staged /\ v \in DOMAIN reports
      /\ versions[v] \in VersionRow /\ reports[v] \in Report
  BY <1>0, Writes DEF Track
<1>2. /\ exec[x].rows = Kept(x) /\ versions[v].status \in {"enriched", "embedded"} /\ Sane(x)
      /\ staged[v].rows = Kept(x) /\ versions[v].count = Cardinality(Kept(x))
  BY <1>0, <1>1 DEF EmbedTrack, Documented, Fresh
<1>3. ~ProfileWrite(x)
  BY <1>0, <1>1 DEF ProfileWrite, ProfileTrack
<1>4. ProfileTrack(x)'
  BY <1>0, <1>3, WritesProfile
<1>5. CASE EmbedStage(x)
  <2>1. staged'[v].rows = Kept(x) /\ versions' = versions /\ exec'[x].step = "status"
    BY <1>1, <1>2, <1>5 DEF EmbedStage, Goto, Exec
  <2>2. EmbedTrack(x)'
    BY <1>1, <1>2, <2>1 DEF EmbedTrack
  <2>3. Documented(v)'
    BY <1>1, <1>2, <2>1 DEF Documented
  <2> QED BY <1>1, <1>4, <2>2, <2>3, OnlyTrack
<1>6. CASE EmbedStatus(x)
  <2>1. /\ versions'[v].status = "embedded" /\ versions'[v].count = versions[v].count
    BY <1>1, <1>6 DEF EmbedStatus, VersionRow
  <2>2. staged' = staged /\ exec'[x].step = "report"
    BY <1>1, <1>6 DEF EmbedStatus, Goto, Exec
  <2>3. EmbedTrack(x)'
    BY <1>1, <1>2, <2>1, <2>2 DEF EmbedTrack
  <2>4. Documented(v)'
    BY <1>1, <1>2, <2>1, <2>2 DEF Documented
  <2> QED BY <1>1, <1>4, <2>3, <2>4, OnlyTrack
<1>7. CASE EmbedReport(x)
  <2>1. versions[v].status = "embedded"
    BY <1>0, <1>1, <1>7 DEF EmbedTrack, EmbedReport, At
  <2>2. staged' = staged /\ versions' = versions /\ exec'[x].step = "emit"
    BY <1>1, <1>7 DEF EmbedReport, Goto, Exec
  <2>3. reports'[v].embedding = [embedded |-> Cardinality(Kept(x) \cap Textual),
                                 total |-> Cardinality(Kept(x))]
    BY <1>1, <1>2, <1>7 DEF EmbedReport, Report
  <2>4. EmbedTrack(x)'
    BY <1>1, <1>2, <2>1, <2>2, <2>3 DEF EmbedTrack, Counted
  <2>5. Documented(v)'
    BY <1>1, <1>2, <2>1, <2>2 DEF Documented
  <2> QED BY <1>1, <1>4, <2>4, <2>5, OnlyTrack
<1> QED BY <1>5, <1>6, <1>7

\* Every check of the gate is of the kept rows and of the reports as they are then.
LEMMA GateWrites ==
    ASSUME Inv, NEW x \in Executions,
           RecordQualityReport(x) \/ GateStatus(x) \/ GateReport(x)
    PROVE  Tracks(x)' /\ Documented(Version(x))'
<1> DEFINE v == Version(x)
<1>0. Writing(x) /\ exec[x].stage = "gate" /\ exec[x].step \in {"table", "status", "report"}
  BY DEF Writing, RecordQualityReport, GateStatus, GateReport, At
<1>1. /\ exec \in [Executions -> Exec] /\ exec[x] \in Exec
      /\ exec'[x].stage = "gate" /\ exec'[x].rows = exec[x].rows /\ v' = v /\ v[1] = x
      /\ Accepted(x)' = Accepted(x) /\ Kept(x)' = Kept(x) /\ (Sane(x)' <=> Sane(x))
      /\ GateTrack(x) /\ Documented(v) /\ ProfileTrack(x)
      /\ v \in DOMAIN versions /\ v \in DOMAIN checks /\ v \in DOMAIN reports
      /\ versions[v] \in VersionRow /\ reports[v] \in Report
  BY <1>0, Writes DEF Track
<1>2. /\ exec[x].rows = Kept(x) /\ versions[v].status \in {"embedded", "gated"} /\ Sane(x)
      /\ staged[v].rows = Kept(x) /\ versions[v].count = Cardinality(Kept(x))
      /\ Counted(v) /\ Profiled(v)
  BY <1>0, <1>1 DEF GateTrack, ProfileTrack, Documented, Fresh
<1>3. ~ProfileWrite(x)
  BY <1>0, <1>1 DEF ProfileWrite, ProfileTrack
<1>4. ProfileTrack(x)'
  BY <1>0, <1>3, WritesProfile
<1>5. staged' = staged
  BY DEF RecordQualityReport, GateStatus, GateReport
<1>6. CASE RecordQualityReport(x)
  <2>1. reports' = reports /\ versions' = versions /\ exec'[x].step = "status"
    BY <1>1, <1>6 DEF RecordQualityReport, Goto, Exec
  <2>2. checks'[v] = Verdict(x) /\ Verdict(x)' = Verdict(x)
    BY <1>1, <1>6, <2>1 DEF RecordQualityReport, Verdict
  <2>3. Counted(v)' /\ Profiled(v)'
    BY <1>1, <1>2, <2>1 DEF Counted, Profiled
  <2>4. GateTrack(x)'
    BY <1>1, <1>2, <2>1, <2>2, <2>3 DEF GateTrack
  <2>5. Documented(v)'
    BY <1>1, <1>2, <1>5, <2>1, <2>3 DEF Documented
  <2> QED BY <1>1, <1>4, <2>4, <2>5, OnlyTrack
<1>7. CASE GateStatus(x)
  <2>1. /\ reports' = reports /\ checks' = checks /\ exec'[x].step = "report"
        /\ exec[x].step = "status"
    BY <1>1, <1>7 DEF GateStatus, Goto, At, Exec
  <2>2. versions'[v].status = "gated" /\ versions'[v].count = versions[v].count
    BY <1>1, <1>7 DEF GateStatus, VersionRow
  <2>3. checks[v] = Verdict(x) /\ Verdict(x)' = Verdict(x)
    BY <1>0, <1>1, <2>1 DEF GateTrack, Verdict
  <2>4. Counted(v)' /\ Profiled(v)'
    BY <1>1, <1>2, <2>1 DEF Counted, Profiled
  <2>5. GateTrack(x)'
    BY <1>1, <1>2, <2>1, <2>2, <2>3, <2>4 DEF GateTrack
  <2>6. Documented(v)'
    BY <1>1, <1>2, <1>5, <2>2, <2>4 DEF Documented
  <2> QED BY <1>1, <1>4, <2>5, <2>6, OnlyTrack
<1>8. CASE GateReport(x)
  <2>1. /\ versions' = versions /\ checks' = checks /\ exec'[x].step = "emit"
        /\ exec[x].step = "report"
    BY <1>1, <1>8 DEF GateReport, Goto, At, Exec
  <2>2. /\ reports'[v].quality = Verdict(x) /\ reports'[v].embedding = reports[v].embedding
        /\ reports'[v].profile = reports[v].profile
    BY <1>1, <1>8 DEF GateReport, Report
  <2>3. checks[v] = Verdict(x) /\ versions[v].status = "gated"
    BY <1>0, <1>1, <2>1 DEF GateTrack
  <2>4. Counted(v)' /\ Profiled(v)'
    BY <1>1, <1>2, <2>2 DEF Counted, Profiled
  <2>5. Judged(v)'
    BY <1>1, <2>1, <2>2, <2>3 DEF Judged, Verdict, Passes
  <2>6. GateTrack(x)'
    BY <1>1, <1>2, <2>1, <2>3, <2>4, <2>5 DEF GateTrack
  <2>7. Documented(v)'
    BY <1>1, <1>2, <1>5, <2>1, <2>3, <2>4 DEF Documented
  <2> QED BY <1>1, <1>4, <2>6, <2>7, OnlyTrack
<1> QED BY <1>6, <1>7, <1>8

LEMMA PromoteWrites ==
    ASSUME Inv, NEW x \in Executions, Promote(x) \/ Reject(x)
    PROVE  Tracks(x)' /\ Documented(Version(x))'
<1> DEFINE v == Version(x)
<1>0. Writing(x) /\ exec[x].stage = "promote" /\ exec[x].step = "read"
  BY DEF Writing, Promote, Reject, At
<1>1. /\ exec \in [Executions -> Exec] /\ exec[x] \in Exec
      /\ exec'[x].stage = "promote" /\ v' = v /\ v[1] = x
      /\ Accepted(x)' = Accepted(x) /\ Kept(x)' = Kept(x) /\ (Sane(x)' <=> Sane(x))
      /\ PromoteTrack(x) /\ Documented(v) /\ ProfileTrack(x)
      /\ v \in DOMAIN versions /\ versions[v] \in VersionRow
  BY <1>0, Writes DEF Track
<1>2. versions[v].status = "gated" /\ Judged(v) /\ Counted(v) /\ Profiled(v)
  BY <1>0, <1>1 DEF PromoteTrack, Documented
<1>3. ~ProfileWrite(x)
  BY <1>0, <1>1 DEF ProfileWrite, ProfileTrack
<1>4. ProfileTrack(x)'
  BY <1>0, <1>3, WritesProfile
<1>5. staged' = staged /\ reports' = reports /\ checks' = checks /\ exec'[x].step = "emit"
  BY <1>1 DEF Promote, Reject, Goto, Exec
<1>6. /\ versions'[v].count = versions[v].count
      /\ versions'[v].status = IF reports[v].quality = "passed" THEN "promoted" ELSE "rejected"
  <2>1. CASE Promote(x)
    BY <1>1, <2>1 DEF Promote, VersionRow
  <2>2. CASE Reject(x)
    BY <1>1, <2>2 DEF Reject, VersionRow
  <2> QED BY <2>1, <2>2
<1>7. Counted(v)' /\ Profiled(v)' /\ Judged(v)'
  BY <1>1, <1>2, <1>5 DEF Counted, Profiled, Judged
<1>8. versions'[v].status = "promoted" <=> checks[v] = "passed"
  BY <1>2, <1>6 DEF Judged
<1>9. PromoteTrack(x)'
  BY <1>1, <1>5, <1>6 DEF PromoteTrack, Decided
<1>10. Documented(v)'
  BY <1>1, <1>2, <1>5, <1>6, <1>7, <1>8 DEF Documented, Fresh
<1> QED BY <1>1, <1>4, <1>9, <1>10, OnlyTrack

-----------------------------------------------------------------------------
(* Production: a version is served once its status is "promoted", and from then on. *)

\* Nothing is written to a promoted version.
LEMMA PromotedRests ==
    ASSUME Inv, NEW x \in Executions, Task(x) \/ Profile(x) \/ Fault(x) \/ ProfileFault(x),
           versions[Version(x)].status = "promoted"
    PROVE  versions' = versions /\ collection' = collection /\ promoted' = promoted
<1>1. CASE Quiet(x)
  BY <1>1, QuietStores DEF stores
<1>2. CASE Writing(x)
  <2>1. Track(x) /\ exec[x] \in Exec
    BY <1>2, Writes
  <2>2. exec[x].stage \notin {"validate", "enrich", "embed", "gate"}
    BY <2>1 DEF Track, ValidateTrack, EnrichTrack, EmbedTrack, GateTrack
  <2>3. ~(exec[x].stage = "promote" /\ exec[x].step = "read")
    BY <2>1 DEF Track, PromoteTrack
  <2>4. exec[x].stage # "ingest"
    BY <2>1, Facts DEF Track, LeftBehind, Fresh, Inv
  <2>5. ProfileWrite(x)
    BY <1>2, <2>2, <2>3, <2>4 DEF Writing, Register, IngestStage, ValidateStage, WriteQuarantine,
       QuarantineRecords, ValidateStatus, ValidateReport, EnrichStage, EnrichStatus, EmbedStage,
       EmbedStatus, EmbedReport, RecordQualityReport, GateStatus, GateReport, Promote, Reject, At
  <2> QED BY <2>5 DEF ProfileWrite
<1> QED BY <1>1, <1>2 DEF Quiet, Writing, Task, Profile

LEMMA StepServed ==
    ASSUME Inv, NEW x \in Executions, Task(x) \/ Profile(x) \/ Fault(x) \/ ProfileFault(x)
    PROVE  \A i \in DOMAIN promoted' : Served(promoted[i])'
<1> DEFINE v == Version(x)
<1>1. /\ Frame(x) /\ v \in Versions /\ v[1] = x /\ promoted \in Seq(Versions)
      /\ \A y \in Executions : Kept(y)' = Kept(y)
  BY StepFrame, Facts, SameRows DEF Inv, TypeOK, Frame
<1>2. ASSUME NEW w \in Versions, Served(w) PROVE Served(w)'
  <2>1. versions'[w] = versions[w] /\ collection'[w] = collection[w]
    BY <1>1, <1>2, PromotedRests DEF Frame, Served
  <2>2. w[1] \in Executions
    BY DEF Versions
  <2> QED BY <1>1, <1>2, <2>1, <2>2 DEF Served
<1>3. \A i \in DOMAIN promoted : promoted[i] \in Versions /\ Served(promoted[i])
  BY <1>1 DEF Inv
<1>4. CASE promoted' = promoted
  <2> SUFFICES ASSUME NEW i \in DOMAIN promoted PROVE Served(promoted[i])'
    BY <1>4
  <2>1. PICK w \in Versions : w = promoted[i] /\ Served(w)
    BY <1>3
  <2>2. Served(w)'
    BY <1>2, <2>1
  <2> QED BY <1>4, <2>1, <2>2 DEF Served
<1>5. CASE promoted' # promoted
  <2>1. Promote(x)
    BY <1>5 DEF Task, Profile, Fault, ProfileFault, ProfileRead, ProfileWrite, IngestRead, Register,
       IngestStage, ValidateRead, ValidateRaises, ValidateStage, WriteQuarantine, QuarantineRecords,
       ValidateStatus, ValidateReport, EnrichRead, EnrichStage, EnrichStatus, EmbedRead, EmbedStage,
       EmbedStatus, EmbedReport, GateRead, RecordQualityReport, GateStatus, GateReport, Reject,
       Emit, Join, stores
  <2>2. promoted' = Append(promoted, v)
    BY <2>1 DEF Promote
  <2>3. v \in DOMAIN versions /\ v \in DOMAIN collection /\ versions[v] \in VersionRow
        /\ Documented(v) /\ PromoteTrack(x)
    BY <1>1 DEF Inv, TypeOK, VersionRow, Track
  <2>4. staged[v].rows = Kept(x)
    BY <1>1, <2>1, <2>3 DEF Promote, At, PromoteTrack, Documented
  <2>5. versions'[v].status = "promoted" /\ collection'[v] = Kept(x) \cap Textual
    BY <2>1, <2>3, <2>4 DEF Promote, VersionRow
  <2>6. ASSUME NEW w \in Versions, w = v PROVE Served(w)'
    BY <1>1, <2>5, <2>6 DEF Served
  <2> SUFFICES ASSUME NEW i \in DOMAIN promoted' PROVE Served(promoted[i])'
    OBVIOUS
  <2>7. PICK w \in Versions : w = promoted'[i] /\ (w = v \/ Served(w))
    BY <1>1, <1>3, <2>2
  <2>8. Served(w)'
    BY <1>2, <2>6, <2>7
  <2> QED BY <2>7, <2>8 DEF Served
<1> QED BY <1>4, <1>5

-----------------------------------------------------------------------------
(* The invariant holds in every behaviour. *)

LEMMA InitInv == Init => Inv
<1> SUFFICES ASSUME Init PROVE Inv
  OBVIOUS
<1>1. MaxAttempts \in Nat \ {0} /\ 1 \in 1..MaxAttempts
  BY ThresholdsAssumption
<1>2. TypeOK
  BY <1>1 DEF Init, TypeOK, Forms, Statuses, Stages, Steps, Verdicts, NoReport
<1>3. ASSUME NEW v \in Versions PROVE versions[v].status = "none"
  BY DEF Init
<1>4. \A v \in Versions : Documented(v)
  BY <1>3 DEF Documented, Fresh
<1>5. ASSUME NEW x \in Executions PROVE Track(x)
  <2>1. exec[x].stage = "ingest" /\ exec[x].step = "read" /\ exec[x].profile = "waiting"
    BY DEF Init
  <2> QED
    BY <1>3, <2>1 DEF Track, IngestTrack, ValidateTrack, EnrichTrack, EmbedTrack, GateTrack,
       PromoteTrack, EndTrack, ProfileTrack, LeftBehind, Fresh
<1>6. \A i \in DOMAIN promoted : Served(promoted[i])
  BY DEF Init
<1> QED BY <1>2, <1>4, <1>5, <1>6 DEF Inv

LEMMA StepOfOne ==
    ASSUME Inv, NEW x \in Executions, Task(x) \/ Profile(x) \/ Fault(x) \/ ProfileFault(x)
    PROVE  Inv'
<1>1. TypeOK /\ Track(x)
  BY DEF Inv
<1>2. TypeOK'
  BY <1>1, StepTypeOK
<1>3. Quiet(x) \/ Writing(x)
  BY DEF Task, Profile, Quiet, Writing
<1>4. Tracks(x)' /\ LeftBehind(x)' /\ \A v \in Versions : v = Version(x) => Documented(v)'
  <2>1. CASE Quiet(x)
    BY <2>1, QuietTracks, QuietBehind, QuietStores, QuietDocumented
  <2>2. CASE Writing(x)
    <3>1. Tracks(x)' /\ Documented(Version(x))'
      BY <2>2, IngestWrites, ValidateWrites, EnrichWrites, ProfileWrites, EmbedWrites,
         GateWrites, PromoteWrites DEF Writing
    <3>2. Version(x)' = Version(x) /\ LeftBehind(x)'
      BY <2>2, Writes, WritesBehind
    <3> QED BY <3>1, <3>2 DEF Documented, Profiled, Counted, Judged
  <2> QED BY <1>3, <2>1, <2>2
<1>5. Frame(x)
  BY <1>1, StepFrame
<1>6. \A v \in Versions : Documented(v)'
  BY <1>4, <1>5, Elsewhere
<1>7. \A y \in Executions : Track(y)'
  BY <1>4, <1>5, Elsewhere DEF Track, Tracks
<1> QED BY <1>2, <1>6, <1>7, StepServed DEF Inv

LEMMA StepInv == Inv /\ [Next]_vars => Inv'
<1> SUFFICES ASSUME Inv, [Next]_vars PROVE Inv'
  OBVIOUS
<1>1. CASE Next
  BY <1>1, StepOfOne DEF Next
<1>2. CASE UNCHANGED vars
  <2>1. TypeOK'
    BY <1>2 DEF vars, stores, Inv, TypeOK
  <2>2. UNCHANGED <<object, stores>> /\ exec' = exec
    BY <1>2 DEF vars, stores
  <2>3. \A v \in Versions : Documented(v)'
    BY <2>2, QuietDocumented
  <2>4. ASSUME NEW x \in Executions PROVE Track(x)'
    <3>1. Track(x) /\ Accepted(x)' = Accepted(x) /\ Kept(x)' = Kept(x) /\ (Sane(x)' <=> Sane(x))
          /\ Version(x)' = Version(x) /\ Version(x)[1] = x
      BY <2>2, SameRows DEF Inv, Version
    <3>2. object' = object /\ versions' = versions /\ staged' = staged /\ reports' = reports
          /\ checks' = checks /\ exec' = exec
      BY <2>2 DEF stores
    <3>3. IngestTrack(x)' /\ ValidateTrack(x)' /\ EnrichTrack(x)'
      BY <3>1, <3>2 DEF Track, IngestTrack, ValidateTrack, EnrichTrack
    <3>4. EmbedTrack(x)' /\ PromoteTrack(x)' /\ EndTrack(x)' /\ ProfileTrack(x)'
      BY <3>1, <3>2 DEF Track, EmbedTrack, PromoteTrack, EndTrack, ProfileTrack,
         Profiled, Counted, Judged, Decided
    <3>5. GateTrack(x)' /\ LeftBehind(x)'
      BY <3>1, <3>2 DEF Track, GateTrack, LeftBehind, Verdict, Counted, Judged
    <3> QED BY <3>3, <3>4, <3>5 DEF Track
  <2>5. \A i \in DOMAIN promoted' : Served(promoted[i])'
    <3>1. promoted' = promoted /\ versions' = versions /\ collection' = collection
          /\ \A y \in Executions : Kept(y)' = Kept(y)
      BY <2>2, SameRows DEF stores
    <3>2. \A i \in DOMAIN promoted : promoted[i] \in Versions /\ promoted[i][1] \in Executions
                                     /\ Served(promoted[i])
      BY DEF Inv, TypeOK, Versions
    <3> QED BY <3>1, <3>2 DEF Served
  <2> QED BY <2>1, <2>3, <2>4, <2>5 DEF Inv
<1> QED BY <1>1, <1>2

LEMMA AlwaysInv == Spec => []Inv
<1> QED BY InitInv, StepInv, PTL DEF Spec

-----------------------------------------------------------------------------
(* Theorems. *)

\* Every store and every task holds what the code puts there: a stage never
\* finds rows, counts or verdicts of another shape than the one it reads.
\* (controlplane/runner.py)
THEOREM TypeCorrect == Spec => []TypeOK
<1>1. Inv => TypeOK
  BY DEF Inv
<1> QED BY <1>1, AlwaysInv, PTL

\* From validation on, the staged file of a version has every key of the valid
\* rows of its raw object, whichever stage wrote it and however often.
\* (runner.py lines 14-17)
THEOREM KeysAreKept == Spec => []NoKeyLost
<1>1. Inv => NoKeyLost
  <2> SUFFICES ASSUME Inv, NEW v \in Versions, versions[v].status \notin {"none", "ingested"}
               PROVE  {KeyOf[r] : r \in staged[v].rows} = {KeyOf[r] : r \in ValidRows(v)}
    BY DEF NoKeyLost
  <2>1. v[1] \in Executions
    BY DEF Versions
  <2>2. staged[v].rows \in {Accepted(v[1]), Kept(v[1])}
    BY DEF Inv, Documented, Fresh
  <2>3. Accepted(v[1]) \in SUBSET Rows /\ ValidRows(v) = Accepted(v[1])
    BY <2>1, Facts DEF Inv, ValidRows, Accepted
  <2> QED BY <2>2, <2>3, KeysKept DEF Kept
<1> QED BY <1>1, AlwaysInv, PTL

\* What the registry, the reports and the quality table say of a decided version
\* is true of the rows staged for it, and a version is promoted exactly if its
\* checks passed.  (runner.py lines 117-188)
THEOREM ReportsAreTrue == Spec => []ReportsAgree
<1>1. Inv => ReportsAgree
  <2> SUFFICES ASSUME Inv, NEW v \in Versions, Decided(v)
               PROVE  /\ versions[v].count = Cardinality(staged[v].rows)
                      /\ reports[v].embedding =
                           [embedded |-> Cardinality(staged[v].rows \cap Textual),
                            total |-> Cardinality(staged[v].rows)]
                      /\ staged[v].rows \subseteq reports[v].profile
                      /\ reports[v].profile \subseteq ValidRows(v)
                      /\ checks[v] = reports[v].quality
                      /\ (versions[v].status = "promoted") <=> (checks[v] = "passed")
    BY DEF ReportsAgree
  <2>1. Documented(v) /\ versions[v].status \in {"promoted", "rejected"}
    BY DEF Inv, Decided
  <2>2. /\ staged[v].rows = Kept(v[1]) /\ versions[v].count = Cardinality(Kept(v[1]))
        /\ Profiled(v) /\ Counted(v) /\ Judged(v)
        /\ versions[v].status = "promoted" <=> checks[v] = "passed"
    BY <2>1 DEF Documented
  <2> QED BY <2>2 DEF Profiled, Counted, Judged, Accepted, ValidRows
<1> QED BY <1>1, AlwaysInv, PTL

\* The daily audit's list of stuck versions has every version that an earlier
\* attempt at ingest of an ended execution left behind, and none that it completed.
\* (quality-audit.yaml lines 57-61, runner.py lines 73-84)
THEOREM AuditIsRight == Spec => []AuditFindsFailures
<1>1. Inv => AuditFindsFailures
  <2> SUFFICES ASSUME Inv, NEW x \in Executions, exec[x].stage \in {"done", "failed"}
               PROVE  /\ exec[x].stage = "done" => Version(x) \notin Stuck
                      /\ \A v \in Versions :
                           v[1] = x /\ v # Version(x) /\ versions[v].status # "none" => v \in Stuck
    BY DEF AuditFindsFailures
  <2>1. EndTrack(x) /\ LeftBehind(x)
    BY DEF Inv, Track
  <2>2. exec[x].stage = "done" => Version(x) \notin Stuck
    BY <2>1 DEF EndTrack, Decided, Stuck
  <2>3. ASSUME NEW v \in Versions, v[1] = x, v # Version(x), versions[v].status # "none"
        PROVE  v \in Stuck
    BY <2>1, <2>3 DEF LeftBehind, Fresh, Stuck
  <2> QED BY <2>2, <2>3
<1> QED BY <1>1, AlwaysInv, PTL

\* An object whose first rows, as many as the fingerprint looks at, have one that
\* is no JSON object.
OneBadRow(x) == ~Sane(x)

\* None of its versions gets past ingest, and nothing of it is quarantined.
BatchDies ==
    \A v \in Versions : OneBadRow(v[1]) =>
      versions[v].status \in Fresh /\ quarantine[v] = [file |-> {}, table |-> {}]

LEMMA StepBatchDies == Inv /\ Inv' /\ BatchDies /\ [Next]_vars => BatchDies'
<1> SUFFICES ASSUME Inv, Inv', BatchDies, [Next]_vars, NEW v \in Versions, OneBadRow(v[1])'
             PROVE  versions'[v].status \in Fresh /\ quarantine'[v] = [file |-> {}, table |-> {}]
  BY DEF BatchDies
<1>1. versions'[v].status \in Fresh
  BY DEF Inv, Documented, OneBadRow
<1>2. object' = object
  BY StepFrame DEF Next, Inv, Frame, vars
<1>3. quarantine[v] = [file |-> {}, table |-> {}] /\ ~Sane(v[1])
  BY <1>2 DEF BatchDies, OneBadRow, Sane
<1>4. ASSUME NEW x \in Executions, WriteQuarantine(x) \/ QuarantineRecords(x)
      PROVE  quarantine'[v] = quarantine[v]
  <2>1. Sane(x) /\ Version(x)[1] = x
    BY <1>4, Facts DEF WriteQuarantine, QuarantineRecords, At, Inv, Track, ValidateTrack
  <2>2. v # Version(x)
    BY <1>3, <2>1
  <2> QED BY <1>4, <2>2 DEF WriteQuarantine, QuarantineRecords, Inv, TypeOK
<1>5. CASE \A x \in Executions : ~(WriteQuarantine(x) \/ QuarantineRecords(x))
  <2>1. quarantine' = quarantine
    BY <1>5, QuietStores DEF Next, Task, Profile, Quiet, stores, vars, Register, IngestStage, ValidateStage,
       ValidateStatus, ValidateReport, EnrichStage, EnrichStatus, ProfileWrite, EmbedStage, EmbedStatus,
       EmbedReport, RecordQualityReport, GateStatus, GateReport, Promote, Reject
  <2> QED BY <1>1, <1>3, <2>1
<1>6. CASE \E x \in Executions : WriteQuarantine(x) \/ QuarantineRecords(x)
  <2>1. quarantine'[v] = quarantine[v]
    BY <1>4, <1>6
  <2> QED BY <1>1, <1>3, <2>1
<1> QED BY <1>1, <1>5, <1>6

\* One row that is no JSON object, among the first SampleSize of a raw object, ends
\* the whole batch: no version of it is ever validated and none of its rows reaches
\* the quarantine, however often validation is retried.  docs/architecture.md line
\* 124 says the opposite ("one bad row doesn't kill the batch").
\* (validator.py lines 49-62, models.py lines 44-51)
THEOREM OneBadRowKillsTheBatch == Spec => []BatchDies
<1>1. Init => BatchDies
  BY DEF Init, BatchDies, Fresh
<1> QED BY <1>1, StepBatchDies, AlwaysInv, PTL DEF Spec

\* A part that passes a positive coverage threshold is not empty.
LEMMA CoveredIsSome ==
    ASSUME NEW part \in Nat, NEW whole \in Nat, AtLeast(part, whole, CoverageMin), CoverageMin > 0
    PROVE  part # 0
<1>1. CoverageMin \in Nat
  BY ThresholdsAssumption
<1>2. whole # 0
  BY <1>1 DEF AtLeast
<1>3. part * 100 >= CoverageMin * whole
  BY <1>2 DEF AtLeast
<1>4. CoverageMin * whole > 0
  BY <1>1, <1>2
<1> QED BY <1>1, <1>3, <1>4

\* Under a gate that asks for some embedding coverage, production is never given
\* an empty version, a row its contract refuses, or two rows of one key.
\* (runner.py lines 178-185 and 219-221, quality/gates.py)
THEOREM ServedIsSound == CoverageMin > 0 => (Spec => []ServedRowsAreSound)
<1> SUFFICES ASSUME CoverageMin > 0 PROVE Spec => []ServedRowsAreSound
  OBVIOUS
<1>1. Inv => ServedRowsAreSound
  <2> SUFFICES ASSUME Inv, NEW i \in DOMAIN promoted
               PROVE  LET rows == collection[promoted[i]]
                      IN  /\ rows # {} /\ rows \subseteq ValidRows(promoted[i])
                          /\ \A r, q \in rows : KeyOf[r] = KeyOf[q] => r = q
    BY DEF ServedRowsAreSound
  <2>1. PICK v \in Versions : v = promoted[i]
    BY DEF Inv, TypeOK
  <2> DEFINE x == v[1]
  <2>2. x \in Executions /\ Documented(v) /\ Served(v)
    BY <2>1 DEF Inv, Versions
  <2>3. /\ versions[v].status = "promoted" /\ collection[v] = Kept(x) \cap Textual
        /\ Counted(v) /\ Judged(v) /\ checks[v] = "passed"
    BY <2>2 DEF Documented, Served
  <2>4. /\ Accepted(x) \in SUBSET Rows /\ Kept(x) = Deduplicated(Accepted(x))
        /\ Kept(x) \in SUBSET Rows /\ Kept(x) \cap Textual \in SUBSET Rows
    BY <2>2, Facts DEF Inv, Kept
  <2>5. AtLeast(Cardinality(Kept(x) \cap Textual), Cardinality(Kept(x)), CoverageMin)
    BY <2>3 DEF Counted, Judged
  <2>6. Cardinality(Kept(x) \cap Textual) # 0
    BY <2>4, <2>5, RowCounts, CoveredIsSome
  <2>7. Kept(x) \cap Textual # {}
    BY <2>6, FS_EmptySet
  <2>8. /\ Kept(x) \subseteq ValidRows(v)
        /\ \A r, q \in Kept(x) : KeyOf[r] = KeyOf[q] => r = q
    BY <2>4, KeptOnce DEF ValidRows, Accepted
  <2> QED BY <2>1, <2>3, <2>7, <2>8
<1> QED BY <1>1, AlwaysInv, PTL

\* A step moves one version at most, to the next status of its life.
LEMMA StepAdvances ==
    ASSUME Inv, NEW x \in Executions, Task(x) \/ Profile(x) \/ Fault(x) \/ ProfileFault(x),
           NEW v \in Versions
    PROVE  versions'[v].status \in Successors[versions[v].status] \cup {versions[v].status}
<1>1. CASE v # Version(x)
  <2>1. versions'[v] = versions[v]
    BY <1>1, StepFrame DEF Inv, Frame
  <2> QED BY <2>1
<1>2. CASE Quiet(x)
  BY <1>2, QuietStores DEF stores
<1>3. CASE v = Version(x) /\ Writing(x)
  <2>1. /\ Track(x) /\ exec[x] \in Exec /\ v[1] = x /\ v \in DOMAIN versions
        /\ versions[v] \in VersionRow
    BY <1>3, Writes
  <2>2. CASE Register(x)
    <3>1. versions[v].status \in Fresh
      BY <1>3, <2>1, <2>2 DEF Register, At, Track, LeftBehind
    <3>2. versions'[v].status = "ingested"
      BY <1>3, <2>1, <2>2 DEF Register
    <3> QED BY <3>1, <3>2 DEF Successors, Fresh
  <2>3. CASE ValidateStatus(x)
    <3>1. versions[v].status \in {"ingested", "validated"}
      BY <1>3, <2>1, <2>3 DEF ValidateStatus, At, Track, ValidateTrack
    <3>2. versions'[v].status = "validated"
      BY <1>3, <2>1, <2>3 DEF ValidateStatus, VersionRow
    <3> QED BY <3>1, <3>2 DEF Successors
  <2>4. CASE EnrichStatus(x)
    <3>1. versions[v].status \in {"validated", "enriched"}
      BY <1>3, <2>1, <2>4 DEF EnrichStatus, At, Track, EnrichTrack
    <3>2. versions'[v].status = "enriched"
      BY <1>3, <2>1, <2>4 DEF EnrichStatus, VersionRow
    <3> QED BY <3>1, <3>2 DEF Successors
  <2>5. CASE EmbedStatus(x)
    <3>1. versions[v].status \in {"enriched", "embedded"}
      BY <1>3, <2>1, <2>5 DEF EmbedStatus, At, Track, EmbedTrack
    <3>2. versions'[v].status = "embedded"
      BY <1>3, <2>1, <2>5 DEF EmbedStatus, VersionRow
    <3> QED BY <3>1, <3>2 DEF Successors
  <2>6. CASE GateStatus(x)
    <3>1. versions[v].status \in {"embedded", "gated"}
      BY <1>3, <2>1, <2>6 DEF GateStatus, At, Track, GateTrack
    <3>2. versions'[v].status = "gated"
      BY <1>3, <2>1, <2>6 DEF GateStatus, VersionRow
    <3> QED BY <3>1, <3>2 DEF Successors
  <2>7. CASE Promote(x) \/ Reject(x)
    <3>1. versions[v].status = "gated"
      BY <1>3, <2>1, <2>7 DEF Promote, Reject, At, Track, PromoteTrack
    <3>2. versions'[v].status \in {"promoted", "rejected"}
      BY <1>3, <2>1, <2>7 DEF Promote, Reject, VersionRow
    <3> QED BY <3>1, <3>2 DEF Successors
  <2>8. CASE versions' = versions
    BY <2>8
  <2> QED BY <1>3, <2>2, <2>3, <2>4, <2>5, <2>6, <2>7, <2>8 DEF Writing, IngestStage, ValidateStage,
             WriteQuarantine, QuarantineRecords, ValidateReport, EnrichStage, ProfileWrite,
             EmbedStage, EmbedReport, RecordQualityReport, GateReport
<1> QED BY <1>1, <1>2, <1>3 DEF Task, Profile, Quiet, Writing

\* A version's status only ever moves to the next one of its life, whatever is
\* retried, by whichever attempt.  (README.md lines 227-235, runner.py)
THEOREM StatusesAdvance == Spec => StatusAdvances
<1>1. Inv /\ [Next]_vars =>
        [\A v \in Versions :
           versions'[v].status \in Successors[versions[v].status] \cup {versions[v].status}]_vars
  BY StepAdvances DEF Next
<1> QED BY <1>1, AlwaysInv, PTL DEF Spec, StatusAdvances

=============================================================================

-------------------- MODULE DatasetPipeline_refinement_proofs --------------------
(***************************************************************************)
(* When DatasetPipeline implements DatasetRelease and what its decisions   *)
(* keep to always, for any executions, rows, raw objects, contracts,       *)
(* thresholds and numbers of attempts, and a fault at any request; where   *)
(* rows can vanish, and what the drift gate sees.                          *)
(***************************************************************************)
EXTENDS DatasetPipeline_proofs

-----------------------------------------------------------------------------
(* What the stages compute against what the abstract specification does. *)

\* Validation and enrichment together make the offer.
LEMMA OfferIsKept ==
    ASSUME NEW x \in Executions
    PROVE  Release!Good(object[x]) = Accepted(x) /\ Release!Offer(object[x]) = Kept(x)
BY DEF Release!Good, Release!Offer, Accepted, Kept, Deduplicated

\* DatasetRelease counts as FiniteSets does.
LEMMA SameCount == \A S : Release!Cardinality(S) = Cardinality(S)
BY DEF Release!Cardinality, Cardinality

\* The code's ratio of nothing is 0.
LEMMA ShareIs ==
    ASSUME NEW part \in Nat, NEW whole \in Nat, NEW min \in Nat, part <= whole
    PROVE  AtLeast(part, whole, min) <=> Release!Share(part, whole, min)
<1>1. CASE whole = 0
  BY <1>1 DEF AtLeast, Release!Share
<1>2. CASE whole # 0
  BY <1>2 DEF AtLeast, Release!Share
<1> QED BY <1>1, <1>2

\* Everything passes every threshold, when there is anything.
LEMMA AllPass ==
    ASSUME NEW n \in Nat \ {0}, NEW min \in 0..100
    PROVE  AtLeast(n, n, min)
<1>1. min \in Nat /\ min <= 100
  OBVIOUS
<1>2. (100 - min) * n >= 0
  BY <1>1
<1>3. n * 100 >= min * n
  BY <1>1, <1>2
<1> QED BY <1>3 DEF AtLeast

\* De-duplicated rows have as many keys as rows.
LEMMA KeysOfKept ==
    ASSUME NEW S \in SUBSET Rows
    PROVE  Cardinality({KeyOf[r] : r \in Deduplicated(S)}) = Cardinality(Deduplicated(S))
<1> DEFINE T == Deduplicated(S)
           keys == {KeyOf[r] : r \in T}
           f == [r \in T |-> KeyOf[r]]
<1>1. T \in SUBSET Rows /\ \A r, q \in T : KeyOf[r] = KeyOf[q] => r = q
  BY KeptOnce
<1>2. IsFiniteSet(T)
  BY <1>1, RowsAssumption, FS_Subset
<1> HIDE DEF T
<1>3. f \in Bijection(T, keys)
  <2>1. f \in [T -> keys] /\ \A t \in keys : \E s \in T : f[s] = t
    OBVIOUS
  <2>2. IsInjective(f)
    BY <1>1 DEF IsInjective
  <2> QED BY <2>1, <2>2 DEF Bijection, Injection, Surjection
<1>4. ExistsBijection(T, keys)
  <2> HIDE DEF f
  <2> QED BY <1>3 DEF ExistsBijection
<1>5. Cardinality(keys) = Cardinality(T)
  <2> HIDE DEF keys
  <2> QED BY <1>2, <1>4, FS_Bijection
<1> QED BY <1>5 DEF T

\* The thresholds are natural numbers of at most 100 percent.
LEMMA Percentages ==
    /\ CompletenessMin \in 0..100 /\ UniquenessMin \in 0..100
    /\ PassRateMin \in 0..100 /\ CoverageMin \in 0..100
    /\ MinRecords \in Nat /\ MaxAttempts \in Nat \ {0}
BY ThresholdsAssumption

\* The gate over the kept rows asks for the pass rate of the report and, of the
\* rows, what Fit asks for: its check of uniqueness refuses nothing more.
LEMMA GateIsFit ==
    ASSUME TypeOK, NEW x \in Executions, NEW report \in Report,
           report.embedding = [embedded |-> Cardinality(Kept(x) \cap Textual),
                               total |-> Cardinality(Kept(x))],
           ~report.validation.drifted
    PROVE  Passes(Kept(x), report) <=>
             /\ Release!Fit(object[x])
             /\ AtLeast(report.validation.valid, report.validation.total, PassRateMin)
<1> DEFINE K == Kept(x)
           n == Cardinality(K)
           rated == AtLeast(report.validation.valid, report.validation.total, PassRateMin)
<1>1. K \in SUBSET Rows /\ Release!Offer(object[x]) = K
  BY Facts, OfferIsKept
<1>2. /\ n \in Nat /\ IsFiniteSet(K) /\ Cardinality(K \cap Filled) \in Nat
      /\ Cardinality(K \cap Textual) \in Nat
      /\ Cardinality(K \cap Filled) <= n /\ Cardinality(K \cap Textual) <= n
      /\ K \cap Filled \in SUBSET K /\ (n = 0 <=> K = {})
  BY <1>1, RowCounts, RowsAssumption, FS_Subset, FS_EmptySet
<1>3. Cardinality({KeyOf[r] : r \in K}) = n
  BY Facts, KeysOfKept DEF Kept
<1>4. K # {} => AtLeast(n, n, UniquenessMin)
  BY <1>2, AllPass, Percentages
<1>5. (K # {} => AtLeast(Cardinality(K \cap Filled), n, CompletenessMin)) <=>
         Cardinality(K \cap Filled) * 100 >= CompletenessMin * n
  <2>1. CASE K = {}
    <3>1. Cardinality(K \cap Filled) = 0 /\ n = 0
      BY <1>2, <2>1
    <3> QED BY <2>1, <3>1, Percentages
  <2>2. CASE K # {}
    BY <1>2, <2>2 DEF AtLeast
  <2> QED BY <2>1, <2>2
<1>6. AtLeast(Cardinality(K \cap Textual), n, CoverageMin) <=>
         Release!Share(Cardinality(K \cap Textual), n, CoverageMin)
  BY <1>2, ShareIs, Percentages
<1>7. Release!Fit(object[x]) <=>
         /\ n >= MinRecords
         /\ Cardinality(K \cap Filled) * 100 >= CompletenessMin * n
         /\ Release!Share(Cardinality(K \cap Textual), n, CoverageMin)
  BY <1>1, SameCount DEF Release!Fit
<1>8. Passes(K, report) <=>
         /\ n >= MinRecords
         /\ K # {} => AtLeast(Cardinality(K \cap Filled), n, CompletenessMin)
         /\ K # {} => AtLeast(n, n, UniquenessMin)
         /\ rated
         /\ AtLeast(Cardinality(K \cap Textual), n, CoverageMin)
  BY <1>3 DEF Passes
<1> QED BY <1>4, <1>5, <1>6, <1>7, <1>8

\* The rate over all rows is the abstract one.  Over the rows that passed it says
\* no more than that there are some, which a clean object has.
LEMMA RateIs ==
    ASSUME TypeOK, NEW x \in Executions
    PROVE  /\ AtLeast(Cardinality(Accepted(x)), Cardinality(object[x]), PassRateMin)
                <=> Release!Clean(object[x])
           /\ Release!Clean(object[x]) =>
                AtLeast(Cardinality(Accepted(x)), Cardinality(Accepted(x)), PassRateMin)
           /\ Cardinality(object[x]) = Cardinality(Accepted(x)) <=> object[x] = Accepted(x)
<1> DEFINE good == Cardinality(Accepted(x))
           all == Cardinality(object[x])
<1>1. /\ object[x] \in SUBSET Rows /\ IsFiniteSet(object[x]) /\ Accepted(x) \in SUBSET object[x]
      /\ Release!Good(object[x]) = Accepted(x)
  BY Facts, OfferIsKept, RowsAssumption, FS_Subset DEF Accepted
<1>2. all \in Nat /\ good \in Nat /\ good <= all /\ (all = good => object[x] = Accepted(x))
  BY <1>1, RowCounts, Facts, FS_Subset
<1>3. AtLeast(good, all, PassRateMin) <=> Release!Clean(object[x])
  <2>1. Release!Clean(object[x]) <=> Release!Share(good, all, PassRateMin)
    BY <1>1, SameCount DEF Release!Clean
  <2>2. PassRateMin \in Nat
    BY Percentages
  <2> QED BY <1>2, <2>1, <2>2, ShareIs
<1>4. ASSUME Release!Clean(object[x]) PROVE AtLeast(good, good, PassRateMin)
  <2>1. CASE good # 0
    BY <1>2, <2>1, AllPass, Percentages
  <2>2. CASE good = 0
    <3>1. (all = 0 => PassRateMin = 0) /\ 0 >= PassRateMin * all
      BY <1>1, <1>4, <2>2, SameCount DEF Release!Clean, Release!Share
    <3>2. PassRateMin = 0
      BY <1>2, <3>1, Percentages
    <3> QED BY <2>2, <3>2 DEF AtLeast
  <2> QED BY <2>1, <2>2
<1> QED BY <1>2, <1>3, <1>4

-----------------------------------------------------------------------------
(* The strengthening: what is known of the rows validation reads, of its report *)
(* and of the verdict on the way to promotion.                                  *)

Later == {"enrich", "embed", "gate", "promote"}

RateOver(x, S) == [valid |-> Cardinality(Accepted(x)), total |-> Cardinality(S), drifted |-> FALSE]

\* The report is over the raw object, or over the rows of it that are valid.
Rated(x) ==
    reports[Version(x)].validation \in {RateOver(x, object[x]), RateOver(x, Accepted(x))}
RatedNow(x) == reports[Version(x)].validation = RateOver(x, exec[x].rows)

Answered(x) ==
    checks[Version(x)] = IF Passes(Kept(x), reports[Version(x)]) THEN "passed" ELSE "failed"

\* No version has a schema hash, so nothing ever drifts.
SightTrack(x) ==
    /\ ~exec[x].drifted
    /\ exec[x].stage = "validate" /\ exec[x].step # "read" =>
         exec[x].rows \in {object[x], Accepted(x)}
    /\ At(x, "validate", "stage") => exec[x].rows = staged[Version(x)].rows
    /\ exec[x].stage = "validate" /\ exec[x].step = "emit" => RatedNow(x)
    /\ exec[x].stage \in Later => Rated(x)
    /\ At(x, "gate", "emit") \/ exec[x].stage = "promote" => Answered(x)

RelInv == Inv /\ \A x \in Executions : SightTrack(x)

LEMMA SightElsewhere ==
    ASSUME Inv, NEW x \in Executions, Frame(x), NEW y \in Executions \ {x}, SightTrack(y)
    PROVE  SightTrack(y)'
<1>1. /\ Accepted(y)' = Accepted(y) /\ Kept(y)' = Kept(y) /\ object'[y] = object[y]
      /\ exec'[y] = exec[y]
  BY SameRows DEF Frame
<1>2. Version(y) \in Versions \ {Version(x)} /\ Version(y)' = Version(y)
  BY <1>1, Facts DEF Inv, Version
<1>3. /\ reports'[Version(y)] = reports[Version(y)] /\ checks'[Version(y)] = checks[Version(y)]
      /\ staged'[Version(y)] = staged[Version(y)]
  BY <1>2 DEF Frame
<1>4. /\ Rated(y)' <=> Rated(y)
      /\ RatedNow(y)' <=> RatedNow(y)
      /\ Answered(y)' <=> Answered(y)
  BY <1>1, <1>2, <1>3 DEF Rated, RatedNow, RateOver, Answered, Passes
<1> QED BY <1>1, <1>2, <1>3, <1>4 DEF SightTrack, At

\* The validation report has one writer, and so has the verdict.
LEMMA ReportRests ==
    ASSUME Inv, NEW x \in Executions, Quiet(x) \/ (Writing(x) /\ ~ValidateReport(x))
    PROVE  reports'[Version(x)].validation = reports[Version(x)].validation
<1> DEFINE v == Version(x)
<1>1. CASE Quiet(x)
  BY <1>1, QuietStores DEF stores
<1>2. CASE Writing(x) /\ ~ValidateReport(x)
  <2>1. v \in DOMAIN reports /\ reports[v] \in Report
    BY <1>2, Writes
  <2>2. CASE EmbedReport(x)
    BY <2>1, <2>2 DEF EmbedReport, Report
  <2>3. CASE GateReport(x)
    BY <2>1, <2>3 DEF GateReport, Report
  <2>4. CASE ProfileWrite(x)
    BY <2>1, <2>4 DEF ProfileWrite, Report
  <2>5. CASE ~(EmbedReport(x) \/ GateReport(x) \/ ProfileWrite(x))
    BY <1>2, <2>5 DEF Writing, Register, IngestStage, ValidateStage, WriteQuarantine,
       QuarantineRecords, ValidateStatus, EnrichStage, EnrichStatus, EmbedStage, EmbedStatus,
       RecordQualityReport, GateStatus, Promote, Reject
  <2> QED BY <2>2, <2>3, <2>4, <2>5
<1> QED BY <1>1, <1>2

\* A step that stays on the execution's version, and leaves the report, keeps what
\* the report was known to say.
LEMMA RatedRests ==
    ASSUME Inv, NEW x \in Executions, Quiet(x) \/ (Writing(x) /\ ~ValidateReport(x)),
           exec'[x].version = exec[x].version
    PROVE  /\ Version(x)' = Version(x) /\ object'[x] = object[x]
           /\ Accepted(x)' = Accepted(x) /\ Kept(x)' = Kept(x)
           /\ Rated(x)' <=> Rated(x)
           /\ exec'[x].rows = exec[x].rows => (RatedNow(x)' <=> RatedNow(x))
<1>1. object' = object
  BY StepFrame DEF Inv, Quiet, Writing, Task, Profile, Frame
<1>2. Version(x)' = Version(x) /\ Accepted(x)' = Accepted(x) /\ Kept(x)' = Kept(x)
  BY <1>1, SameRows DEF Version
<1> QED BY <1>1, <1>2, ReportRests DEF Rated, RatedNow, RateOver

LEMMA NothingDrifts ==
    ASSUME TypeOK, NEW S
    PROVE  ~Drifted(S)
<1>1. CASE promoted = <<>>
  BY <1>1 DEF Drifted, LastPromotedHash
<1>2. CASE promoted # <<>>
  <2>1. promoted[Len(promoted)] \in Versions
    BY <1>2 DEF TypeOK
  <2>2. versions[promoted[Len(promoted)]].hash = NoHash
    BY <2>1 DEF TypeOK
  <2> QED BY <1>2, <2>2 DEF Drifted, LastPromotedHash
<1> QED BY <1>1, <1>2

\* A step within a stage, on the same rows, that writes neither report nor verdict.
LEMMA SightRests ==
    ASSUME Inv, NEW x \in Executions, SightTrack(x), Quiet(x) \/ (Writing(x) /\ ~ValidateReport(x)),
           exec'[x].version = exec[x].version, exec'[x].drifted = exec[x].drifted,
           exec'[x].stage = exec[x].stage, exec'[x].rows = exec[x].rows,
           exec'[x].stage = "validate" => exec'[x].step \notin {"read", "stage", "emit"} /\ exec[x].step # "read",
           exec'[x].stage = "gate" => exec'[x].step # "emit",
           exec'[x].stage # "promote"
    PROVE  SightTrack(x)'
BY RatedRests DEF SightTrack, At

LEMMA QuietSight ==
    ASSUME Inv, NEW x \in Executions, SightTrack(x), Quiet(x)
    PROVE  SightTrack(x)'
<1>1. /\ exec \in [Executions -> Exec] /\ exec[x] \in Exec
      /\ ValidateTrack(x) /\ EnrichTrack(x) /\ GateTrack(x) /\ EndTrack(x) /\ ProfileTrack(x)
  BY Facts DEF Inv, TypeOK, Exec, Track
<1>2. UNCHANGED <<object, stores>>
  BY QuietStores
<1>3. ASSUME exec'[x].version = exec[x].version
      PROVE  Answered(x)' <=> Answered(x)
  BY <1>2, <1>3, RatedRests DEF Answered, Passes, stores
<1>4. CASE IngestRead(x)
  BY <1>1, <1>4 DEF IngestRead, At, Exec, SightTrack, Later
<1>5. CASE ValidateRead(x)
  <2>1. /\ exec'[x].stage = "validate" /\ exec'[x].step = "stage"
        /\ exec'[x].rows = staged[Version(x)].rows /\ exec'[x].drifted = FALSE
        /\ exec'[x].version = exec[x].version /\ staged' = staged
    BY <1>1, <1>5, NothingDrifts DEF ValidateRead, At, Exec, Inv, stores
  <2>2. exec'[x].rows \in {object[x], Accepted(x)}
    BY <1>1, <1>5, <2>1 DEF ValidateTrack, ValidateRead, At
  <2> QED BY <2>1, <2>2, RatedRests DEF SightTrack, At, Later
<1>6. CASE EnrichRead(x) \/ EmbedRead(x) \/ GateRead(x)
  <2>1. /\ exec'[x].stage = exec[x].stage /\ exec[x].stage \in {"enrich", "embed", "gate"}
        /\ exec'[x].step # "emit" /\ exec'[x].drifted = exec[x].drifted
        /\ exec'[x].version = exec[x].version
    BY <1>1, <1>6 DEF EnrichRead, EmbedRead, GateRead, At, Exec
  <2> QED BY <2>1, RatedRests DEF SightTrack, At, Later
<1>7. CASE ProfileRead(x) \/ ProfileFault(x)
  <2>1. /\ exec'[x].stage = "enrich" /\ exec[x].stage = "enrich" /\ exec'[x].rows = exec[x].rows
        /\ exec'[x].drifted = exec[x].drifted /\ exec'[x].version = exec[x].version
    BY <1>1, <1>7 DEF ProfileRead, ProfileFault, Exec
  <2> QED BY <2>1, RatedRests DEF SightTrack, At, Later
<1>8. CASE ValidateRaises(x) \/ Fault(x)
  <2>1. /\ exec'[x].step = "read" /\ exec'[x].version = exec[x].version
        /\ exec'[x].stage \in {exec[x].stage, "failed"}
        /\ exec[x].stage \in {"gate", "promote"} => exec'[x].stage = "failed"
    BY <1>8, StartsOver DEF Inv, ValidateRaises, Fault
  <2>2. exec'[x].drifted = exec[x].drifted
    <3>1. exec'[x] = Interrupted(x)
      BY <1>1, <1>8 DEF ValidateRaises, Fault
    <3> QED BY <1>1, <3>1 DEF Interrupted, Exec
  <2> QED BY <1>1, <2>1, <2>2, RatedRests DEF SightTrack, At, Later
<1>9. CASE Join(x)
  <2>1. /\ exec[x].stage = "enrich" /\ exec'[x].stage \in {"embed", "failed"}
        /\ exec'[x].drifted = exec[x].drifted /\ exec'[x].version = exec[x].version
    BY <1>1, <1>9 DEF Join, Exec, Stages, Steps, IngestTrack, ValidateTrack, EmbedTrack, GateTrack,
       PromoteTrack, EndTrack, Inv, Track
  <2> QED BY <2>1, RatedRests DEF SightTrack, At, Later
<1>10. CASE Emit(x)
  <2>1. /\ exec'[x].drifted = exec[x].drifted /\ exec'[x].version = exec[x].version
        /\ exec[x].step = "emit"
        /\ exec[x].stage \in {"ingest", "validate", "enrich", "embed", "gate", "promote"}
        /\ exec'[x].stage = IF exec[x].stage = "enrich" THEN "enrich" ELSE StageAfter[exec[x].stage]
        /\ exec'[x].step = IF exec[x].stage = "enrich" THEN "join" ELSE "read"
    BY <1>1, <1>10 DEF Emit, EndTrack, Exec, Stages, StageAfter
  <2>2. /\ exec[x].stage = "ingest" => exec'[x].stage = "validate"
        /\ exec[x].stage = "validate" => exec'[x].stage = "enrich"
        /\ exec[x].stage = "embed" => exec'[x].stage = "gate"
        /\ exec[x].stage = "gate" => exec'[x].stage = "promote"
        /\ exec[x].stage = "promote" => exec'[x].stage = "done"
    BY <2>1 DEF StageAfter
  <2>3. exec[x].stage = "validate" => Rated(x)
    BY <2>1 DEF SightTrack, At, Rated, RatedNow
  <2>4. exec'[x].stage \in Later => exec[x].stage \in Later \cup {"validate"}
    BY <2>1, <2>2 DEF Later
  <2>5. exec'[x].stage = "promote" => exec[x].stage = "gate"
    BY <2>1, <2>2
  <2>6. exec'[x].stage \in Later => Rated(x)'
    BY <2>1, <2>3, <2>4, RatedRests DEF SightTrack, At
  <2>7. exec'[x].stage = "promote" => Answered(x)'
    BY <1>3, <2>1, <2>5 DEF SightTrack, At
  <2> QED BY <2>1, <2>2, <2>6, <2>7 DEF SightTrack, At
<1> QED BY <1>4, <1>5, <1>6, <1>7, <1>8, <1>9, <1>10 DEF Quiet

\* A write moves its task to another step and changes nothing else in it.
LEMMA WritesStep ==
    ASSUME Inv, NEW x \in Executions, Writing(x)
    PROVE  exec'[x].drifted = exec[x].drifted /\ exec'[x].version = exec[x].version
<1>1. exec \in [Executions -> Exec] /\ exec[x] \in Exec
  BY Writes
<1>2. CASE ProfileWrite(x)
  BY <1>1, <1>2 DEF ProfileWrite, Exec
<1>3. CASE ~ProfileWrite(x)
  <2>1. \E step \in Steps : Goto(x, step)
    BY <1>3 DEF Writing, Register, IngestStage, ValidateStage, WriteQuarantine, QuarantineRecords,
       ValidateStatus, ValidateReport, EnrichStage, EnrichStatus, EmbedStage, EmbedStatus,
       EmbedReport, RecordQualityReport, GateStatus, GateReport, Promote, Reject, Steps
  <2> QED BY <1>1, <2>1 DEF Goto, Exec
<1> QED BY <1>2, <1>3

LEMMA WritesSight ==
    ASSUME Inv, NEW x \in Executions, SightTrack(x), Writing(x)
    PROVE  SightTrack(x)'
<1> DEFINE v == Version(x)
<1>1. /\ exec \in [Executions -> Exec] /\ exec[x] \in Exec /\ exec'[x].stage = exec[x].stage
      /\ exec'[x].rows = exec[x].rows /\ v' = v /\ Accepted(x)' = Accepted(x) /\ Kept(x)' = Kept(x)
      /\ object'[x] = object[x] /\ v \in DOMAIN reports /\ reports[v] \in Report
      /\ exec'[x].drifted = exec[x].drifted /\ exec'[x].version = exec[x].version
      /\ ValidateTrack(x) /\ EnrichTrack(x) /\ GateTrack(x) /\ ProfileTrack(x)
  BY Writes, WritesStep DEF Track
<1>2. CASE Register(x) \/ IngestStage(x)
  <2>1. exec[x].stage = "ingest"
    BY <1>2 DEF Register, IngestStage, At
  <2> QED BY <1>1, <2>1 DEF SightTrack, At, Later
<1>3. CASE ValidateStage(x) \/ WriteQuarantine(x) \/ QuarantineRecords(x) \/ ValidateStatus(x)
  <2>1. /\ exec[x].stage = "validate" /\ exec[x].step # "read"
        /\ exec'[x].step \in {"quarantine", "table", "status", "report"}
    BY <1>1, <1>3 DEF ValidateStage, WriteQuarantine, QuarantineRecords, ValidateStatus, Goto, At, Exec
  <2>2. ~ValidateReport(x)
    BY <1>1, <2>1 DEF ValidateReport, Goto, Exec
  <2> QED BY <1>1, <2>1, <2>2, SightRests
<1>4. CASE ValidateReport(x)
  <2>1. /\ exec[x].stage = "validate" /\ exec[x].step = "report" /\ exec'[x].step = "emit"
        /\ reports'[v].validation = [valid |-> Cardinality(exec[x].rows \cap Valid),
                                     total |-> Cardinality(exec[x].rows), drifted |-> exec[x].drifted]
    BY <1>1, <1>4 DEF ValidateReport, Goto, At, Exec, Report
  <2>2. /\ exec[x].rows \cap Valid = Accepted(x) /\ exec[x].drifted = FALSE
        /\ exec[x].rows \in {object[x], Accepted(x)}
    BY <1>1, <2>1 DEF ValidateTrack, SightTrack, Exec
  <2>3. RatedNow(x)'
    BY <1>1, <2>1, <2>2 DEF RatedNow, RateOver
  <2> QED BY <1>1, <2>1, <2>2, <2>3 DEF SightTrack, At, Later
<1>5. CASE EnrichStage(x) \/ EnrichStatus(x) \/ EmbedStage(x) \/ EmbedStatus(x) \/ EmbedReport(x)
  <2>1. exec[x].stage \in {"enrich", "embed"} /\ ~ValidateReport(x)
    BY <1>5 DEF EnrichStage, EnrichStatus, EmbedStage, EmbedStatus, EmbedReport, ValidateReport, At
  <2> QED BY <1>1, <2>1, SightRests
<1>6. CASE RecordQualityReport(x) \/ GateStatus(x)
  <2>1. exec[x].stage = "gate" /\ ~ValidateReport(x) /\ exec'[x].step # "emit"
    BY <1>1, <1>6 DEF RecordQualityReport, GateStatus, ValidateReport, Goto, At, Exec
  <2> QED BY <1>1, <2>1, SightRests
<1>7. CASE GateReport(x)
  <2>1. /\ exec[x].stage = "gate" /\ exec[x].step = "report" /\ ~ValidateReport(x) /\ checks' = checks
        /\ reports'[v].validation = reports[v].validation
        /\ reports'[v].embedding = reports[v].embedding
    BY <1>1, <1>7 DEF GateReport, ValidateReport, At, Report
  <2>2. checks[v] = Verdict(x) /\ exec[x].rows = Kept(x)
    BY <1>1, <2>1 DEF GateTrack
  <2>3. Answered(x)'
    BY <1>1, <2>1, <2>2 DEF Answered, Verdict, Passes
  <2>4. Rated(x)'
    BY <1>1, <2>1, RatedRests DEF SightTrack, Later
  <2> QED BY <1>1, <2>1, <2>3, <2>4 DEF SightTrack, At
<1>8. CASE Promote(x) \/ Reject(x)
  <2>1. /\ exec[x].stage = "promote" /\ ~ValidateReport(x) /\ checks' = checks /\ reports' = reports
    BY <1>8 DEF Promote, Reject, ValidateReport, At
  <2>2. Answered(x)'
    BY <1>1, <2>1 DEF Answered, Passes, SightTrack
  <2>3. Rated(x)'
    BY <1>1, <2>1, RatedRests DEF SightTrack, Later
  <2> QED BY <1>1, <2>1, <2>2, <2>3 DEF SightTrack, At
<1>9. CASE ProfileWrite(x)
  <2>1. exec[x].stage \in {"enrich", "failed"} /\ ~ValidateReport(x)
    BY <1>1, <1>9 DEF ProfileWrite, ProfileTrack, ValidateReport, At
  <2> QED BY <1>1, <2>1, SightRests
<1> QED BY <1>2, <1>3, <1>4, <1>5, <1>6, <1>7, <1>8, <1>9 DEF Writing

LEMMA StepRelInv == RelInv /\ [Next]_vars => RelInv'
<1> SUFFICES ASSUME RelInv, [Next]_vars PROVE RelInv'
  OBVIOUS
<1>1. Inv'
  BY StepInv DEF RelInv
<1>2. ASSUME NEW x \in Executions, Task(x) \/ Profile(x) \/ Fault(x) \/ ProfileFault(x),
             NEW y \in Executions
      PROVE  SightTrack(y)'
  <2>1. CASE y = x
    BY <1>2, <2>1, QuietSight, WritesSight DEF RelInv, Task, Profile, Quiet, Writing
  <2>2. CASE y # x
    BY <1>2, <2>2, StepFrame, SightElsewhere DEF RelInv, Inv
  <2> QED BY <2>1, <2>2
<1>3. CASE UNCHANGED vars
  <2>1. ASSUME NEW y \in Executions PROVE SightTrack(y)'
    <3>1. /\ Accepted(y)' = Accepted(y) /\ Kept(y)' = Kept(y) /\ object' = object /\ exec' = exec
          /\ Version(y)' = Version(y) /\ reports' = reports /\ checks' = checks /\ staged' = staged
      BY <1>3, SameRows DEF vars, stores, Version
    <3>2. Rated(y)' <=> Rated(y)
      BY <3>1 DEF Rated, RateOver
    <3>3. RatedNow(y)' <=> RatedNow(y)
      BY <3>1 DEF RatedNow, RateOver
    <3>4. Answered(y)' <=> Answered(y)
      BY <3>1 DEF Answered, Passes
    <3> QED BY <3>1, <3>2, <3>3, <3>4 DEF RelInv, SightTrack, At
  <2> QED BY <1>1, <2>1 DEF RelInv
<1> QED BY <1>1, <1>2, <1>3 DEF Next, RelInv

LEMMA InitRelInv == Init => RelInv
<1> SUFFICES ASSUME Init PROVE RelInv
  OBVIOUS
<1>1. ASSUME NEW x \in Executions PROVE SightTrack(x)
  BY DEF Init, SightTrack, At, Later
<1> QED BY <1>1, InitInv DEF RelInv

-----------------------------------------------------------------------------
(* The mapping, execution by execution. *)

\* The version of the last attempt at ingest is the only one that gets decided.
Outcome(x) ==
    LET status == versions[Version(x)].status
    IN  IF status = "promoted" THEN "released"
        ELSE IF status = "rejected" THEN "refused"
        ELSE IF exec[x].stage = "failed" THEN "failed" ELSE "open"

LEMMA DecisionIs == Inv => \A x \in Executions : Decision(x) = Outcome(x)
<1> SUFFICES ASSUME Inv, NEW x \in Executions PROVE Decision(x) = Outcome(x)
  OBVIOUS
<1> DEFINE statuses == {versions[<<x, n>>].status : n \in 1..MaxAttempts}
<1>1. exec[x] \in Exec /\ LeftBehind(x) /\ Version(x) = <<x, exec[x].version>>
      /\ exec[x].version \in 1..MaxAttempts
  BY Facts DEF Inv, Track, Version, Exec
<1>2. versions[Version(x)].status \in statuses
  BY <1>1
<1>3. ASSUME NEW n \in 1..MaxAttempts, n # exec[x].version
      PROVE  versions[<<x, n>>].status \in Fresh
  <2>1. <<x, n>> \in Versions /\ <<x, n>>[1] = x /\ <<x, n>> # Version(x)
    BY <1>1, <1>3 DEF Versions
  <2> QED BY <1>1, <2>1 DEF LeftBehind
<1>4. \A s \in statuses : s \in Fresh \/ s = versions[Version(x)].status
  BY <1>1, <1>3
<1> HIDE DEF statuses
<1>5. /\ "promoted" \in statuses <=> versions[Version(x)].status = "promoted"
      /\ "rejected" \in statuses <=> versions[Version(x)].status = "rejected"
  BY <1>2, <1>4 DEF Fresh
<1> QED BY <1>5 DEF Decision, Outcome, statuses

LEMMA DecisionIsNext == (Inv => \A x \in Executions : Decision(x) = Outcome(x))'
BY DecisionIs, PTL

\* A step of x decides nothing of the other executions.
Others(x) == \A y \in Executions \ {x} : Decision(y)' = Decision(y)

LEMMA MappedElsewhere ==
    ASSUME Inv, NEW x \in Executions, Frame(x)
    PROVE  Others(x)
<1> SUFFICES ASSUME NEW y \in Executions \ {x} PROVE Decision(y)' = Decision(y)
  BY DEF Others
<1>1. exec'[y] = exec[y]
  BY DEF Frame
<1>2. \A n \in 1..MaxAttempts : versions'[<<y, n>>] = versions[<<y, n>>]
  <2>1. \A n \in 1..MaxAttempts : <<y, n>> \in Versions \ {Version(x)}
    BY DEF Versions, Version
  <2> QED BY <2>1 DEF Frame
<1>3. {versions[<<y, n>>].status : n \in 1..MaxAttempts}'
        = {versions[<<y, n>>].status : n \in 1..MaxAttempts}
  BY <1>2
<1> QED BY <1>1, <1>3 DEF Decision

\* The quarantine table has one writer.
TablesRest == \A v \in Versions : quarantine'[v].table = quarantine[v].table

LEMMA TablesRestElse ==
    ASSUME Inv, NEW x \in Executions, Quiet(x) \/ (Writing(x) /\ ~QuarantineRecords(x))
    PROVE  TablesRest
<1> SUFFICES ASSUME NEW v \in Versions PROVE quarantine'[v].table = quarantine[v].table
  BY DEF TablesRest
<1>1. v \in DOMAIN quarantine /\ quarantine[v] \in Quarantined
  BY DEF Inv, TypeOK, Quarantined
<1>2. CASE WriteQuarantine(x)
  BY <1>1, <1>2 DEF WriteQuarantine, Quarantined
<1>3. CASE ~WriteQuarantine(x)
  BY <1>3, QuietStores DEF stores, Writing, Register, IngestStage, ValidateStage, ValidateStatus,
     ValidateReport, EnrichStage, EnrichStatus, ProfileWrite, EmbedStage, EmbedStatus, EmbedReport,
     RecordQualityReport, GateStatus, GateReport, Promote, Reject
<1> QED BY <1>2, <1>3

LEMMA AsideRests == ASSUME TablesRest, NEW x \in Executions PROVE Aside(x)' = Aside(x)
<1>1. {quarantine[<<x, n>>].table : n \in 1..MaxAttempts}'
        = {quarantine[<<x, n>>].table : n \in 1..MaxAttempts}
  BY DEF TablesRest, Versions
<1> QED BY <1>1 DEF Aside

\* The abstract steps, from what happens to the decision and the quarantine of x.
LEMMA Decides ==
    ASSUME NEW x \in Executions, NEW what, Others(x), TablesRest, object' = object,
           Decision(x) = "open", Decision(x)' = what
    PROVE  Release!Decide(x, what)
<1>1. [y \in Executions |-> Decision(y)][x] = "open"
  OBVIOUS
<1>2. [y \in Executions |-> Decision(y)]' = [[y \in Executions |-> Decision(y)] EXCEPT ![x] = what]
  <2>1. \A y \in Executions : Decision(y)' = IF y = x THEN what ELSE Decision(y)
    BY DEF Others
  <2> QED BY <2>1
<1>3. [y \in Executions |-> Aside(y)]' = [y \in Executions |-> Aside(y)]
  BY AsideRests
<1> QED BY <1>1, <1>2, <1>3 DEF Release!Decide

LEMMA Stutters ==
    ASSUME NEW x \in Executions, Others(x), TablesRest, UNCHANGED <<object, promoted, collection>>,
           Decision(x)' = Decision(x)
    PROVE  UNCHANGED Release!rvars
<1>1. [y \in Executions |-> Decision(y)]' = [y \in Executions |-> Decision(y)]
  BY DEF Others
<1>2. [y \in Executions |-> Aside(y)]' = [y \in Executions |-> Aside(y)]
  BY AsideRests
<1> QED BY <1>1, <1>2 DEF Release!rvars

-----------------------------------------------------------------------------
(* Every step but promotion is a step of DatasetRelease or none, whatever fails. *)

\* An execution that has not come to its promotion is open.
LEMMA OpenUntil ==
    ASSUME Inv, NEW x \in Executions,
           exec[x].stage \in {"ingest", "validate", "enrich", "embed", "gate"} \/ At(x, "promote", "read")
    PROVE  Decision(x) = "open" /\ versions[Version(x)].status \notin {"promoted", "rejected"}
<1>1. Track(x) /\ Version(x) \in Versions /\ Version(x)[1] = x
  BY Facts DEF Inv
<1>2. versions[Version(x)].status \notin {"promoted", "rejected"}
  BY <1>1 DEF Track, LeftBehind, ValidateTrack, EnrichTrack, EmbedTrack, GateTrack, PromoteTrack, At, Fresh
<1> QED BY <1>2, DecisionIs DEF Outcome, At

\* What goes on within a stage decides nothing, and only promotion serves.
LEMMA OnlyPromotionServes ==
    ASSUME NEW x \in Executions, Quiet(x) \/ Writing(x), ~Promote(x)
    PROVE  UNCHANGED <<promoted, collection>>
BY QuietStores DEF stores, Writing, Register, IngestStage, ValidateStage, WriteQuarantine,
   QuarantineRecords, ValidateStatus, ValidateReport, EnrichStage, EnrichStatus, ProfileWrite,
   EmbedStage, EmbedStatus, EmbedReport, RecordQualityReport, GateStatus, GateReport, Reject

LEMMA AfterStep ==
    ASSUME Inv, Inv', NEW x \in Executions, Quiet(x) \/ Writing(x)
    PROVE  /\ Others(x) /\ object' = object
           /\ Decision(x)' = Outcome(x)'
           /\ exec \in [Executions -> Exec] /\ exec[x] \in Exec /\ Version(x) \in Versions
           /\ Version(x)[1] = x /\ Track(x) /\ Documented(Version(x))
<1>1. Frame(x)
  BY StepFrame DEF Inv, Quiet, Writing, Task, Profile
<1>2. Decision(x)' = Outcome(x)'
  BY DecisionIsNext
<1> QED BY <1>1, <1>2, MappedElsewhere, Facts DEF Frame, Inv, TypeOK, Exec

\* The last attempt of a task fails its execution, unless it had been decided.
LEMMA FailureMaps ==
    ASSUME RelInv, RelInv', NEW x \in Executions, Quiet(x),
           exec[x].stage \notin {"done", "failed"}, exec'[x].stage = "failed",
           exec'[x].version = exec[x].version
    PROVE  Release!Fail(x) \/ UNCHANGED Release!rvars
<1>1. /\ Others(x) /\ object' = object /\ Decision(x)' = Outcome(x)' /\ Track(x)
      /\ UNCHANGED stores /\ exec[x] \in Exec /\ TablesRest
  BY AfterStep, QuietStores, TablesRestElse DEF RelInv
<1>2. Version(x)' = Version(x) /\ versions' = versions /\ promoted' = promoted /\ collection' = collection
  BY <1>1 DEF Version, stores
<1>3. Decision(x) = Outcome(x)
  BY DecisionIs DEF RelInv
<1>4. CASE versions[Version(x)].status \in {"promoted", "rejected"}
  <2>1. Decision(x)' = Decision(x) /\ Decision(x) # "open"
    BY <1>1, <1>2, <1>3, <1>4 DEF Outcome
  <2> QED BY <1>1, <1>2, <2>1, Stutters
<1>5. CASE versions[Version(x)].status \notin {"promoted", "rejected"}
  <2>1. Decision(x) = "open" /\ Decision(x)' = "failed"
    BY <1>1, <1>2, <1>3, <1>5 DEF Outcome
  <2>2. Release!Decide(x, "failed")
    BY <1>1, <2>1, Decides
  <2> QED BY <1>2, <2>2 DEF Release!Fail
<1> QED BY <1>4, <1>5

\* In a stage that comes after validation only promotion is seen.
LEMMA LaterMaps ==
    ASSUME RelInv, RelInv', NEW x \in Executions, Quiet(x) \/ Writing(x),
           exec[x].stage \in Later, exec'[x].stage \in Later,
           exec'[x].version = exec[x].version,
           versions'[Version(x)].status \in {"promoted", "rejected"} =>
             versions'[Version(x)].status = versions[Version(x)].status,
           versions[Version(x)].status \in {"promoted", "rejected"} =>
             versions'[Version(x)].status = versions[Version(x)].status,
           ~Promote(x)
    PROVE  UNCHANGED Release!rvars
<1>1. /\ Others(x) /\ object' = object /\ Decision(x)' = Outcome(x)' /\ Decision(x) = Outcome(x)
      /\ UNCHANGED <<promoted, collection>>
  BY AfterStep, DecisionIs, OnlyPromotionServes DEF RelInv
<1>2. Version(x)' = Version(x)
  BY DEF Version
<1>3. TablesRest
  BY TablesRestElse DEF RelInv, QuarantineRecords, At, Later
<1>4. Decision(x)' = Decision(x)
  BY <1>1, <1>2 DEF Outcome, Later
<1> QED BY <1>1, <1>3, <1>4, Stutters

\* Until validation starts, nothing happens.
LEMMA IngestMaps ==
    ASSUME RelInv, RelInv', NEW x \in Executions, exec[x].stage = "ingest",
           \/ IngestRead(x) \/ Register(x) \/ IngestStage(x) \/ Emit(x)
           \/ Fault(x) /\ exec'[x].stage = "ingest"
    PROVE  UNCHANGED Release!rvars
<1>0. Quiet(x) \/ Writing(x)
  BY DEF Quiet, Writing
<1>1. /\ Others(x) /\ object' = object /\ exec \in [Executions -> Exec] /\ exec[x] \in Exec
      /\ IngestTrack(x) /\ Version(x) \in Versions
  BY <1>0, AfterStep DEF RelInv, Track
<1>2. ~Promote(x)
  BY DEF Promote, At
<1>3. /\ exec'[x].stage \in {"ingest", "validate"}
      /\ exec'[x].stage = "validate" =>
           exec'[x].step = "read" /\ exec'[x].version = exec[x].version /\ Emit(x)
  <2>1. CASE IngestRead(x) \/ Register(x) \/ IngestStage(x)
    BY <1>1, <2>1 DEF IngestRead, Register, IngestStage, Goto, Exec
  <2>2. CASE Emit(x)
    BY <1>1, <2>2 DEF Emit, StageAfter, Exec
  <2>3. CASE Fault(x) /\ exec'[x].stage = "ingest"
    BY <2>3
  <2> QED BY <2>1, <2>2, <2>3
<1>4. Decision(x) = "open" /\ Decision(x)' = "open"
  <2>1. Decision(x) = "open"
    BY OpenUntil DEF RelInv
  <2>2. Track(x)'
    BY DEF RelInv, Inv
  <2>3. Version(x)' \in Versions /\ Version(x)'[1] = x
    <3>1. exec'[x] \in Exec
      BY DEF RelInv, Inv, TypeOK, Exec
    <3> QED BY <3>1 DEF Version, Versions, Exec
  <2>4. versions'[Version(x)'].status \notin {"promoted", "rejected"}
    BY <1>3, <2>2, <2>3 DEF Track, LeftBehind, ValidateTrack, Fresh
  <2> QED BY <1>0, <1>3, <2>1, <2>4, AfterStep DEF Outcome, RelInv
<1>5. TablesRest
  BY <1>0, TablesRestElse DEF RelInv, QuarantineRecords, At
<1> QED BY <1>0, <1>1, <1>2, <1>4, <1>5, OnlyPromotionServes, Stutters

\* What a step of validation, or out of it, starts from.
LEMMA ValidateFacts ==
    ASSUME RelInv, RelInv', NEW x \in Executions, exec[x].stage = "validate",
           Quiet(x) \/ Writing(x), exec'[x].stage \in {"validate", "enrich"},
           exec'[x].version = exec[x].version
    PROVE  /\ Others(x) /\ UNCHANGED <<object, promoted, collection>>
           /\ Decision(x) = "open" /\ Decision(x)' = "open"
           /\ Version(x)' = Version(x) /\ Accepted(x)' = Accepted(x)
<1>1. /\ Others(x) /\ object' = object /\ Decision(x)' = Outcome(x)' /\ Track(x)'
      /\ Version(x)' = Version(x)
  BY AfterStep DEF RelInv, Inv, Version
<1>2. ~Promote(x)
  BY DEF Promote, At
<1>3. Decision(x) = "open"
  BY OpenUntil DEF RelInv
<1>4. versions'[Version(x)'].status \notin {"promoted", "rejected"}
  BY <1>1 DEF Track, ValidateTrack, EnrichTrack
<1> QED BY <1>1, <1>2, <1>3, <1>4, OnlyPromotionServes, SameRows DEF Outcome

LEMMA ValidateMaps ==
    ASSUME RelInv, RelInv', NEW x \in Executions, exec[x].stage = "validate",
           \/ ValidateRead(x) \/ ValidateStage(x) \/ WriteQuarantine(x)
           \/ ValidateStatus(x) \/ ValidateReport(x) \/ Emit(x)
           \/ (ValidateRaises(x) \/ Fault(x)) /\ exec'[x].stage = "validate"
    PROVE  UNCHANGED Release!rvars
<1>0. Quiet(x) \/ Writing(x)
  BY DEF Quiet, Writing
<1>1. /\ exec \in [Executions -> Exec] /\ exec[x] \in Exec
  BY <1>0, AfterStep DEF RelInv
<1>2. exec'[x].stage \in {"validate", "enrich"} /\ exec'[x].version = exec[x].version
  <2>1. CASE \/ ValidateRead(x) \/ ValidateStage(x) \/ WriteQuarantine(x)
             \/ ValidateStatus(x) \/ ValidateReport(x)
    BY <1>1, <2>1 DEF ValidateRead, ValidateStage, WriteQuarantine, ValidateStatus,
       ValidateReport, Goto, At, Exec
  <2>2. CASE Emit(x)
    BY <1>1, <2>2 DEF Emit, StageAfter, Exec
  <2>3. CASE (ValidateRaises(x) \/ Fault(x)) /\ exec'[x].stage = "validate"
    BY <2>3, StartsOver DEF RelInv, Inv, ValidateRaises, Fault
  <2> QED BY <2>1, <2>2, <2>3
<1>3. Quiet(x) \/ (Writing(x) /\ ~QuarantineRecords(x))
  <2>1. CASE WriteQuarantine(x) \/ ValidateStage(x) \/ ValidateStatus(x) \/ ValidateReport(x)
    BY <2>1 DEF Writing, WriteQuarantine, ValidateStage, ValidateStatus, ValidateReport,
       QuarantineRecords, At
  <2>2. CASE ValidateRead(x) \/ Emit(x) \/ ValidateRaises(x) \/ Fault(x)
    BY <2>2 DEF Quiet
  <2> QED BY <2>1, <2>2
<1>4. TablesRest
  BY <1>3, TablesRestElse DEF RelInv
<1> QED BY <1>0, <1>2, <1>4, ValidateFacts, Stutters

\* What validation quarantines is all that its contract refuses, or nothing.
LEMMA RecordsMap ==
    ASSUME RelInv, RelInv', NEW x \in Executions, QuarantineRecords(x)
    PROVE  Release!SetAside(x) \/ UNCHANGED Release!rvars
<1> DEFINE v == Version(x)
           n == exec[x].version
<1>0. exec[x].stage = "validate" /\ exec[x].step = "table" /\ Writing(x)
  BY DEF QuarantineRecords, At, Writing
<1>1. /\ exec \in [Executions -> Exec] /\ exec[x] \in Exec /\ v \in Versions
      /\ quarantine \in [Versions -> Quarantined] /\ SightTrack(x)
      /\ v = <<x, n>> /\ n \in 1..MaxAttempts
  BY Facts DEF RelInv, Inv, TypeOK, Exec, Quarantined, Version
<1>2. exec'[x].stage = "validate" /\ exec'[x].version = exec[x].version
  BY <1>0, <1>1 DEF QuarantineRecords, Goto, Exec
<1>3. /\ Others(x) /\ UNCHANGED <<object, promoted, collection>>
      /\ Decision(x) = "open" /\ Decision(x)' = "open"
  BY <1>0, <1>2, ValidateFacts
<1>4. /\ \A w \in Versions \ {v} : quarantine'[w].table = quarantine[w].table
      /\ quarantine'[v].table = quarantine[v].table \cup Bad(x)
  BY <1>1 DEF QuarantineRecords, Quarantined
<1>5. CASE Bad(x) = {}
  <2>1. TablesRest
    BY <1>4, <1>5 DEF TablesRest
  <2> QED BY <1>3, <2>1, Stutters
<1>6. CASE Bad(x) # {}
  <2>1. exec[x].rows = object[x] /\ Bad(x) = Release!Bad(x)
    BY <1>0, <1>1, <1>6 DEF SightTrack, Bad, Accepted, Release!Bad
  <2>2. Aside(x)' = Aside(x) \cup Bad(x)
    <3>1. \A m \in 1..MaxAttempts :
             quarantine'[<<x, m>>].table
               = quarantine[<<x, m>>].table \cup IF m = n THEN Bad(x) ELSE {}
      BY <1>1, <1>4 DEF Versions
    <3>2. ASSUME NEW r
          PROVE  /\ r \in Aside(x) <=> \E m \in 1..MaxAttempts : r \in quarantine[<<x, m>>].table
                 /\ r \in Aside(x)' <=> \E m \in 1..MaxAttempts : r \in quarantine'[<<x, m>>].table
      BY DEF Aside
    <3>3. ASSUME NEW r PROVE r \in Aside(x)' <=> r \in Aside(x) \cup Bad(x)
      BY <1>1, <3>1, <3>2
    <3> QED BY <3>3
  <2>3. \A y \in Executions \ {x} : Aside(y)' = Aside(y)
    <3> SUFFICES ASSUME NEW y \in Executions \ {x} PROVE Aside(y)' = Aside(y)
      OBVIOUS
    <3>1. \A m \in 1..MaxAttempts : <<y, m>> \in Versions \ {v}
      BY <1>1 DEF Versions
    <3>2. {quarantine[<<y, m>>].table : m \in 1..MaxAttempts}'
            = {quarantine[<<y, m>>].table : m \in 1..MaxAttempts}
      BY <1>4, <3>1
    <3> QED BY <3>2 DEF Aside
  <2> DEFINE aside == [y \in Executions |-> Aside(y)]
  <2>4. aside' = [aside EXCEPT ![x] = @ \cup Release!Bad(x)]
    <3>1. \A y \in Executions : Aside(y)' = IF y = x THEN Aside(x) \cup Release!Bad(x) ELSE Aside(y)
      BY <2>1, <2>2, <2>3
    <3> QED BY <3>1
  <2>5. [y \in Executions |-> Decision(y)]' = [y \in Executions |-> Decision(y)]
    BY <1>3 DEF Others
  <2>6. [y \in Executions |-> Decision(y)][x] = "open"
    BY <1>3
  <2> HIDE DEF aside
  <2> QED BY <1>3, <2>4, <2>5, <2>6 DEF Release!SetAside, aside
<1> QED BY <1>5, <1>6

\* An execution that was decided, or failed, stays so.
LEMMA EndedMaps ==
    ASSUME RelInv, RelInv', NEW x \in Executions, Quiet(x) \/ Writing(x),
           ~Promote(x), ~QuarantineRecords(x), Decided(Version(x)) \/ exec[x].stage = "failed",
           versions' = versions, exec'[x].version = exec[x].version,
           exec[x].stage = "failed" => exec'[x].stage = "failed"
    PROVE  UNCHANGED Release!rvars
<1>1. /\ Others(x) /\ object' = object /\ Decision(x)' = Outcome(x)' /\ Decision(x) = Outcome(x)
      /\ UNCHANGED <<promoted, collection>> /\ Version(x)' = Version(x)
  BY AfterStep, DecisionIs, OnlyPromotionServes DEF RelInv, Version
<1>2. Decision(x)' = Decision(x)
  BY <1>1 DEF Outcome, Decided
<1>3. TablesRest
  BY TablesRestElse DEF RelInv
<1> QED BY <1>1, <1>2, <1>3, Stutters

\* The rows that the contract refuses are in the version's quarantine.
Recorded(v) == object[v[1]] \ Valid \subseteq quarantine[v].table

\* The report counts every raw row.
AllCounted(v) == reports[v].validation.total = Cardinality(object[v[1]])

\* The verdict follows from the raw object, or, if the report lost count, from its
\* valid rows.
LEMMA VerdictIs ==
    ASSUME RelInv, NEW x \in Executions, At(x, "promote", "read")
    PROVE  /\ reports[Version(x)].quality = "passed" =>
                Release!Fit(object[x]) /\ (AllCounted(Version(x)) => Release!Clean(object[x]))
           /\ reports[Version(x)].quality # "passed" =>
                ~(Release!Fit(object[x]) /\ Release!Clean(object[x]))
<1> DEFINE v == Version(x)
           rate == reports[v].validation
<1>1. /\ SightTrack(x) /\ PromoteTrack(x) /\ Documented(v) /\ v \in Versions /\ v[1] = x
      /\ TypeOK /\ reports[v] \in Report
  BY Facts DEF RelInv, Inv, Track, TypeOK, Report
<1>2. Counted(v) /\ Judged(v)
  BY <1>1 DEF At, PromoteTrack, Documented
<1>3. Answered(x) /\ rate \in {RateOver(x, object[x]), RateOver(x, Accepted(x))}
  BY <1>1 DEF At, SightTrack, Later, Rated
<1>4. reports[v].quality = "passed" <=> Passes(Kept(x), reports[v])
  BY <1>2, <1>3 DEF Judged, Answered
<1>5. /\ rate.valid = Cardinality(Accepted(x)) /\ ~rate.drifted
      /\ rate.total \in {Cardinality(object[x]), Cardinality(Accepted(x))}
  BY <1>3 DEF RateOver
<1>6. Passes(Kept(x), reports[v]) <=>
        Release!Fit(object[x]) /\ AtLeast(rate.valid, rate.total, PassRateMin)
  BY <1>1, <1>2, <1>5, GateIsFit DEF Counted
<1>7. CASE rate.total = Cardinality(object[x])
  BY <1>1, <1>4, <1>5, <1>6, <1>7, RateIs DEF AllCounted
<1>8. CASE rate.total # Cardinality(object[x])
  <2>1. ~AllCounted(v)
    BY <1>1, <1>8 DEF AllCounted
  <2>2. Release!Clean(object[x]) => AtLeast(rate.valid, rate.total, PassRateMin)
    BY <1>1, <1>5, <1>8, RateIs
  <2> QED BY <1>4, <1>6, <2>1, <2>2
<1> QED BY <1>7, <1>8

\* The abstract history grows by the version's kept rows that have text.
LEMMA ServedGrows ==
    ASSUME RelInv, NEW x \in Executions, Promote(x)
    PROVE  [i \in DOMAIN promoted |-> [by |-> promoted[i][1], rows |-> collection[promoted[i]]]]'
             = Append([i \in DOMAIN promoted |-> [by |-> promoted[i][1], rows |-> collection[promoted[i]]]],
                      [by |-> x, rows |-> Kept(x) \cap Textual])
<1> DEFINE v == Version(x)
           one(w) == [by |-> w[1], rows |-> collection[w]]
           n == Len(promoted)
<1>1. /\ v \in Versions /\ v[1] = x /\ PromoteTrack(x) /\ Documented(v)
      /\ promoted \in Seq(Versions) /\ n \in Nat /\ DOMAIN promoted = 1..n
      /\ v \in DOMAIN collection
  BY Facts DEF RelInv, Inv, Track, TypeOK
<1>2. versions[v].status = "gated" /\ staged[v].rows = Kept(x)
  BY <1>1 DEF Promote, At, PromoteTrack, Documented
<1>3. /\ promoted' = Append(promoted, v)
      /\ collection' = [collection EXCEPT ![v] = Kept(x) \cap Textual]
  BY <1>2 DEF Promote
<1>4. \A i \in 1..n : promoted[i] \in Versions /\ promoted[i] # v
  BY <1>1, <1>2 DEF RelInv, Inv, Served
<1>5. \A i \in 1..n : promoted'[i] = promoted[i] /\ collection'[promoted[i]] = collection[promoted[i]]
  BY <1>1, <1>3, <1>4
<1>6. /\ promoted'[n + 1] = v /\ collection'[v] = Kept(x) \cap Textual
      /\ DOMAIN promoted' = 1..(n + 1)
  BY <1>1, <1>3
<1> DEFINE old == [i \in DOMAIN promoted |-> one(promoted[i])]
<1>7. old \in Seq([by : Executions, rows : SUBSET Rows]) /\ Len(old) = n
  <2>1. \A w \in Versions : one(w) \in [by : Executions, rows : SUBSET Rows]
    BY DEF Versions, RelInv, Inv, TypeOK
  <2>2. old \in [1..n -> [by : Executions, rows : SUBSET Rows]]
    BY <1>1, <1>4, <2>1
  <2> QED BY <1>1, <2>2
<1>8. Append(old, [by |-> x, rows |-> Kept(x) \cap Textual])
        = [i \in 1..(n + 1) |-> IF i <= n THEN one(promoted[i]) ELSE [by |-> x, rows |-> Kept(x) \cap Textual]]
  BY <1>1, <1>7
<1>9. old' = [i \in 1..(n + 1) |-> [by |-> promoted'[i][1], rows |-> collection'[promoted'[i]]]]
  BY <1>6
<1>10. ASSUME NEW i \in 1..(n + 1)
       PROVE  [by |-> promoted'[i][1], rows |-> collection'[promoted'[i]]]
                = IF i <= n THEN one(promoted[i]) ELSE [by |-> x, rows |-> Kept(x) \cap Textual]
  <2>1. CASE i <= n
    <3>1. promoted'[i] = promoted[i] /\ collection'[promoted[i]] = collection[promoted[i]]
      BY <1>1, <1>5, <2>1
    <3> QED BY <2>1, <3>1
  <2>2. CASE ~(i <= n)
    <3>1. i = n + 1
      BY <1>1, <2>2
    <3> QED BY <1>1, <1>6, <2>2, <3>1
  <2> QED BY <2>1, <2>2
<1> QED BY <1>8, <1>9, <1>10

\* A decision is the abstract one if the report counts every row and the bad ones
\* are in the quarantine.
LEMMA PromotionMaps ==
    ASSUME RelInv, RelInv', NEW x \in Executions, Promote(x) \/ Reject(x),
           AllCounted(Version(x)), Recorded(Version(x))
    PROVE  Release!Release(x) \/ Release!Refuse(x)
<1> DEFINE v == Version(x)
<1>0. Writing(x) /\ ~QuarantineRecords(x) /\ At(x, "promote", "read")
  BY DEF Writing, Promote, Reject, QuarantineRecords, At
<1>1. /\ Others(x) /\ object' = object /\ Decision(x)' = Outcome(x)' /\ v' = v
      /\ v \in DOMAIN versions /\ versions[v] \in VersionRow /\ Documented(v) /\ v[1] = x
      /\ Track(x) /\ TablesRest /\ v = <<x, exec[x].version>> /\ exec[x].version \in 1..MaxAttempts
  BY <1>0, AfterStep, Writes, TablesRestElse DEF RelInv, Version, Exec
<1>2. Decision(x) = "open" /\ versions[v].status = "gated"
  BY <1>0, <1>1, OpenUntil DEF RelInv, Track, PromoteTrack, At
<1>3. Release!Bad(x) \subseteq [y \in Executions |-> Aside(y)][x]
  <2>1. quarantine[v].table \subseteq Aside(x)
    BY <1>1 DEF Aside
  <2> QED BY <1>1, <2>1 DEF Recorded, Release!Bad
<1>4. CASE Promote(x)
  <2>1. versions'[v].status = "promoted"
    BY <1>1, <1>4 DEF Promote, VersionRow
  <2>2. Decision(x)' = "released"
    BY <1>1, <2>1 DEF Outcome
  <2>3. Release!Decide(x, "released")
    BY <1>1, <1>2, <2>2, Decides
  <2>4. Release!Fit(object[x]) /\ Release!Clean(object[x])
    BY <1>0, <1>4, VerdictIs DEF Promote
  <2> QED BY <1>3, <1>4, <2>3, <2>4, ServedGrows, OfferIsKept DEF Release!Release
<1>5. CASE Reject(x)
  <2>1. versions'[v].status = "rejected" /\ UNCHANGED <<promoted, collection>>
    BY <1>1, <1>5 DEF Reject, VersionRow
  <2>2. Decision(x)' = "refused"
    BY <1>1, <2>1 DEF Outcome
  <2>3. Release!Decide(x, "refused")
    BY <1>1, <1>2, <2>2, Decides
  <2>4. ~(Release!Fit(object[x]) /\ Release!Clean(object[x]))
    BY <1>0, <1>5, VerdictIs DEF Reject
  <2> QED BY <1>3, <2>1, <2>3, <2>4 DEF Release!Refuse
<1> QED BY <1>4, <1>5

\* The stages after validation, and the profile task.
LEMMA LaterStagesMap ==
    ASSUME RelInv, RelInv', NEW x \in Executions,
           \/ EnrichRead(x) \/ EnrichStage(x) \/ EnrichStatus(x)
           \/ EmbedRead(x) \/ EmbedStage(x) \/ EmbedStatus(x) \/ EmbedReport(x)
           \/ GateRead(x) \/ RecordQualityReport(x) \/ GateStatus(x) \/ GateReport(x)
    PROVE  UNCHANGED Release!rvars
<1>0. /\ Quiet(x) \/ Writing(x)
      /\ exec[x].stage \in {"enrich", "embed", "gate"}
      /\ ~Promote(x)
  BY DEF Quiet, Writing, EnrichRead, EnrichStage, EnrichStatus, EmbedRead, EmbedStage, EmbedStatus,
     EmbedReport, GateRead, RecordQualityReport, GateStatus, GateReport, Promote, At
<1>1. /\ exec \in [Executions -> Exec] /\ exec[x] \in Exec /\ Version(x) \in Versions
      /\ versions[Version(x)].status \notin {"promoted", "rejected"}
  BY <1>0, AfterStep, OpenUntil DEF RelInv
<1>2. exec'[x].stage = exec[x].stage /\ exec'[x].version = exec[x].version
  BY <1>1 DEF EnrichRead, EnrichStage, EnrichStatus, EmbedRead, EmbedStage, EmbedStatus,
     EmbedReport, GateRead, RecordQualityReport, GateStatus, GateReport, Goto, Exec
<1>3. versions'[Version(x)].status \notin {"promoted", "rejected"}
  <2>1. Track(x)' /\ Version(x)' = Version(x)
    BY <1>2 DEF RelInv, Inv, Version
  <2> QED BY <1>0, <1>2, <2>1 DEF Track, EnrichTrack, EmbedTrack, GateTrack
<1> QED BY <1>0, <1>1, <1>2, <1>3, LaterMaps DEF Later

LEMMA ProfileMaps ==
    ASSUME RelInv, RelInv', NEW x \in Executions, Profile(x) \/ ProfileFault(x)
    PROVE  UNCHANGED Release!rvars
<1>0. Quiet(x) \/ (Writing(x) /\ ProfileWrite(x))
  BY DEF Quiet, Writing, Profile
<1>1. /\ exec \in [Executions -> Exec] /\ exec[x] \in Exec /\ ProfileTrack(x)
  BY <1>0, AfterStep DEF RelInv, Track
<1>2. /\ exec[x].stage \in {"enrich", "failed"} /\ versions' = versions
      /\ exec'[x].stage = exec[x].stage /\ exec'[x].version = exec[x].version
  BY <1>1 DEF Profile, ProfileRead, ProfileWrite, ProfileFault, ProfileTrack, stores, Exec
<1>3. ~Promote(x) /\ ~QuarantineRecords(x)
  BY <1>2 DEF Promote, QuarantineRecords, At
<1> QED BY <1>0, <1>2, <1>3, LaterMaps, EndedMaps DEF Later

\* Kestra takes an output, starts a task over or gives up.
LEMMA KestraMaps ==
    ASSUME RelInv, RelInv', NEW x \in Executions,
           Emit(x) \/ Join(x) \/ Fault(x) \/ ValidateRaises(x)
    PROVE  Release!Fail(x) \/ UNCHANGED Release!rvars
<1>0. Quiet(x) /\ Inv
  BY DEF Quiet, RelInv
<1>1. /\ exec \in [Executions -> Exec] /\ exec[x] \in Exec /\ Track(x) /\ versions' = versions
      /\ exec'[x].version = exec[x].version
  <2>1. /\ exec \in [Executions -> Exec] /\ exec[x] \in Exec /\ Track(x) /\ versions' = versions
    BY <1>0, AfterStep, QuietStores DEF RelInv, stores
  <2>2. CASE Fault(x) \/ ValidateRaises(x)
    BY <1>0, <2>1, <2>2, StartsOver DEF Inv, Fault, ValidateRaises
  <2>3. CASE Emit(x)
    BY <2>1, <2>3 DEF Emit, Exec
  <2>4. CASE Join(x)
    BY <2>1, <2>4 DEF Join, Exec
  <2> QED BY <2>2, <2>3, <2>4
<1>2. ~Promote(x) /\ ~QuarantineRecords(x)
  <2>0. ~QuarantineRecords(x)
    <3>1. QuarantineRecords(x) => exec[x].step = "table" /\ exec'[x].step = "status"
      BY <1>1 DEF QuarantineRecords, Goto, At, Exec
    <3>2. CASE Fault(x) \/ ValidateRaises(x)
      BY <1>0, <3>1, <3>2, StartsOver DEF Inv, Fault, ValidateRaises
    <3>3. CASE Emit(x) \/ Join(x)
      BY <3>1, <3>3 DEF Emit, Join
    <3> QED BY <3>2, <3>3
  <2>1. Promote(x) => exec[x].step = "read" /\ exec'[x].step = "emit"
    BY <1>1 DEF Promote, Goto, At, Exec
  <2>2. exec[x].step = "read" => exec'[x].step # "emit"
    <3>1. CASE Fault(x) \/ ValidateRaises(x)
      BY <1>0, <3>1, StartsOver DEF Inv, Fault, ValidateRaises
    <3>2. CASE Emit(x) \/ Join(x)
      BY <3>2 DEF Emit, Join
    <3> QED BY <3>1, <3>2
  <2> QED BY <2>0, <2>1, <2>2
<1>3. CASE Join(x)
  <2>1. exec[x].stage = "enrich" /\ exec'[x].stage \in {"embed", "failed"}
    BY <1>1, <1>3 DEF Join, Exec, Stages, Steps, Track, IngestTrack, ValidateTrack, EmbedTrack, GateTrack,
       PromoteTrack, EndTrack
  <2> QED BY <1>0, <1>1, <1>2, <2>1, LaterMaps, FailureMaps DEF Later
<1>4. CASE Emit(x)
  <2>1. exec[x].stage \in {"ingest", "validate", "enrich", "embed", "gate", "promote"}
    BY <1>1, <1>4 DEF Emit, Track, EndTrack, Exec, Stages
  <2>2. CASE exec[x].stage = "ingest"
    BY <1>4, <2>2, IngestMaps
  <2>3. CASE exec[x].stage = "validate"
    BY <1>4, <2>3, ValidateMaps
  <2>4. CASE exec[x].stage \in {"enrich", "embed", "gate"}
    <3>1. exec'[x].stage \in Later
      BY <1>1, <1>4, <2>4 DEF Emit, StageAfter, Later, Exec
    <3> QED BY <1>0, <1>1, <1>2, <2>4, <3>1, LaterMaps DEF Later
  <2>5. CASE exec[x].stage = "promote"
    <3>1. Decided(Version(x))
      BY <1>1, <1>4, <2>5 DEF Emit, Track, PromoteTrack
    <3> QED BY <1>0, <1>1, <1>2, <2>5, <3>1, EndedMaps
  <2> QED BY <2>1, <2>2, <2>3, <2>4, <2>5
<1>5. CASE Fault(x) \/ ValidateRaises(x)
  <2>1. /\ exec[x].stage \in {"ingest", "validate", "enrich", "embed", "gate", "promote"}
        /\ exec'[x].stage \in {exec[x].stage, "failed"}
        /\ exec[x].stage \in {"gate", "promote"} => exec'[x].stage = "failed"
        /\ exec[x].stage = "ingest" => Fault(x)
    BY <1>0, <1>1, <1>5, StartsOver DEF Inv, Fault, ValidateRaises, At, Exec, Stages
  <2>2. CASE exec'[x].stage = "failed"
    BY <1>0, <1>1, <2>1, <2>2, FailureMaps
  <2>3. CASE exec'[x].stage = "ingest"
    BY <2>1, <2>3, IngestMaps
  <2>4. CASE exec'[x].stage = "validate"
    BY <1>5, <2>1, <2>4, ValidateMaps
  <2>5. CASE exec'[x].stage \in {"enrich", "embed"}
    BY <1>0, <1>1, <1>2, <2>1, <2>5, LaterMaps DEF Later
  <2> QED BY <2>1, <2>2, <2>3, <2>4, <2>5
<1> QED BY <1>3, <1>4, <1>5

-----------------------------------------------------------------------------
(* Rows vanish through one window only. *)

\* No validation is interrupted between staging the valid rows and recording the others.
NotWhileQuarantining ==
    \A x \in Executions :
      Fault(x) => ~(exec[x].stage = "validate" /\ exec[x].step \in {"quarantine", "table"})

\* Failed rows are never silently dropped: a validated version has them in the
\* quarantine.  (docs/architecture.md line 42)
NoRowVanishes ==
    \A v \in Versions : versions[v].status \notin Fresh => Recorded(v)

\* A row that is not recorded yet is still in the hands of validation.
VanishTrack(x) ==
    exec[x].stage = "validate" /\ ~Recorded(Version(x)) =>
      /\ exec[x].step \in {"read", "stage"} => staged[Version(x)].rows = object[x]
      /\ exec[x].step # "read" => exec[x].rows = object[x]
      /\ exec[x].step \notin {"status", "report", "emit"}

VanishInv == RelInv /\ NoRowVanishes /\ \A x \in Executions : VanishTrack(x)

\* The table is only ever added to.
LEMMA TableGrows ==
    ASSUME Inv, NEW x \in Executions, Quiet(x) \/ Writing(x), NEW v \in Versions
    PROVE  Recorded(v) => Recorded(v)'
<1>1. v \in DOMAIN quarantine /\ quarantine[v] \in Quarantined /\ object' = object
  BY StepFrame DEF Inv, TypeOK, Quarantined, Quiet, Writing, Task, Profile, Frame
<1>2. quarantine[v].table \subseteq quarantine'[v].table
  <2>1. CASE WriteQuarantine(x)
    BY <1>1, <2>1 DEF WriteQuarantine, Quarantined
  <2>2. CASE QuarantineRecords(x)
    BY <1>1, <2>2 DEF QuarantineRecords, Quarantined
  <2>3. CASE Quiet(x) \/ (Writing(x) /\ ~WriteQuarantine(x) /\ ~QuarantineRecords(x))
    BY <2>3, QuietStores DEF stores, Writing, Register, IngestStage, ValidateStage, ValidateStatus,
       ValidateReport, EnrichStage, EnrichStatus, ProfileWrite, EmbedStage, EmbedStatus, EmbedReport,
       RecordQualityReport, GateStatus, GateReport, Promote, Reject
  <2> QED BY <2>1, <2>2, <2>3
<1> QED BY <1>1, <1>2 DEF Recorded

\* The steps of a validation, the last of ingest included.
LEMMA ValidationRecords ==
    ASSUME RelInv, NEW x \in Executions, VanishTrack(x), Quiet(x) \/ Writing(x),
           NotWhileQuarantining, exec'[x].stage = "validate"
    PROVE  VanishTrack(x)'
<1> DEFINE v == Version(x)
<1>1. /\ exec \in [Executions -> Exec] /\ exec[x] \in Exec /\ v \in Versions /\ v[1] = x
      /\ Track(x) /\ SightTrack(x) /\ object' = object
      /\ v \in DOMAIN quarantine /\ quarantine[v] \in Quarantined
  BY Facts, StepFrame DEF RelInv, Inv, TypeOK, Exec, Quarantined, Quiet, Writing, Task, Profile, Frame
<1>2. ASSUME v' = v, ~Recorded(v)' PROVE ~Recorded(v)
  BY <1>1, <1>2, TableGrows DEF RelInv
<1>3. CASE Emit(x)
  <2>1. exec[x].stage = "ingest" /\ exec[x].step = "emit" /\ exec'[x].step = "read"
        /\ v' = v /\ staged' = staged
    BY <1>1, <1>3 DEF Emit, StageAfter, stores, Version, Exec, Stages, Track, EndTrack
  <2>2. staged[v].rows = object[x]
    BY <1>1, <2>1 DEF Track, IngestTrack
  <2> QED BY <1>1, <2>1, <2>2 DEF VanishTrack
<1>4. CASE ValidateRead(x)
  <2>1. /\ exec[x].stage = "validate" /\ exec[x].step = "read" /\ exec'[x].step = "stage"
        /\ exec'[x].rows = staged[v].rows /\ v' = v /\ staged' = staged
    BY <1>1, <1>4 DEF ValidateRead, At, stores, Version, Exec
  <2> QED BY <1>1, <1>2, <2>1 DEF VanishTrack
<1>5. CASE Fault(x) \/ ValidateRaises(x)
  <2>1. exec'[x].step = "read" /\ v' = v /\ staged' = staged /\ exec[x].stage = "validate"
    BY <1>1, <1>5, StartsOver DEF RelInv, Inv, Fault, ValidateRaises, stores, Version, At
  <2>2. exec[x].step \notin {"quarantine", "table"}
    BY <1>5, <2>1 DEF NotWhileQuarantining, ValidateRaises, At
  <2>3. exec[x].step \in {"read", "stage", "status", "report", "emit"}
    BY <1>1, <2>1, <2>2 DEF Track, ValidateTrack
  <2> QED BY <1>1, <1>2, <2>1, <2>3 DEF VanishTrack
<1>6. CASE ValidateStage(x)
  <2>1. /\ exec[x].stage = "validate" /\ exec[x].step = "stage" /\ exec'[x].rows = exec[x].rows /\ v' = v
        /\ exec'[x].step = IF Bad(x) = {} THEN "status" ELSE "quarantine"
        /\ quarantine' = quarantine
    BY <1>1, <1>6 DEF ValidateStage, At, Goto, Version, Exec
  <2>2. ~Recorded(v) => exec[x].rows = object[x]
    BY <2>1 DEF VanishTrack
  <2>3. ~Recorded(v) => Bad(x) # {}
    BY <1>1, <2>2 DEF Recorded, Bad
  <2> QED BY <1>1, <1>2, <2>1, <2>2, <2>3 DEF VanishTrack
<1>7. CASE WriteQuarantine(x)
  <2>1. /\ exec[x].stage = "validate" /\ exec[x].step = "quarantine" /\ exec'[x].step = "table"
        /\ exec'[x].rows = exec[x].rows /\ v' = v
    BY <1>1, <1>7 DEF WriteQuarantine, At, Goto, Version, Exec
  <2> QED BY <1>1, <1>2, <2>1 DEF VanishTrack
<1>8. CASE QuarantineRecords(x)
  <2>1. /\ exec[x].stage = "validate" /\ exec[x].step = "table" /\ v' = v
        /\ quarantine'[v].table = quarantine[v].table \cup Bad(x)
    BY <1>1, <1>8 DEF QuarantineRecords, At, Goto, Version, Exec, Quarantined
  <2>2. Recorded(v)'
    <3>1. CASE Recorded(v)
      BY <1>1, <2>1, <3>1, TableGrows DEF RelInv
    <3>2. CASE ~Recorded(v)
      <4>1. Bad(x) = object[x] \ Valid
        BY <2>1, <3>2 DEF VanishTrack, Bad
      <4>2. Bad(x) \subseteq quarantine'[v].table
        BY <2>1
      <4>3. v'[1] = x /\ quarantine'[v'].table = quarantine'[v].table
        BY <1>1, <2>1
      <4> QED BY <1>1, <4>1, <4>2, <4>3 DEF Recorded
    <3> QED BY <3>1, <3>2
  <2> QED BY <2>1, <2>2 DEF VanishTrack
<1>9. CASE ValidateStatus(x) \/ ValidateReport(x)
  <2>1. exec[x].stage = "validate" /\ exec[x].step \in {"status", "report"} /\ v' = v
    BY <1>1, <1>9 DEF ValidateStatus, ValidateReport, At, Goto, Version, Exec
  <2> QED BY <1>2, <2>1 DEF VanishTrack
<1>10. CASE ~(Emit(x) \/ Fault(x) \/ ValidateRaises(x)) /\ exec[x].stage # "validate"
  <2>1. exec[x].stage # "validate" => exec'[x].stage # "validate"
    BY <1>1, <1>10 DEF Quiet, Writing, IngestRead, Register, IngestStage, EnrichRead, EnrichStage, EnrichStatus,
       EmbedRead, EmbedStage, EmbedStatus, EmbedReport, GateRead, RecordQualityReport, GateStatus,
       GateReport, Promote, Reject, Join, ProfileRead, ProfileWrite, ProfileFault, Goto, At, Exec,
       ValidateRead, ValidateStage, WriteQuarantine, QuarantineRecords, ValidateStatus, ValidateReport
  <2> QED BY <1>10, <2>1
<1>11. exec[x].stage = "validate" =>
          \/ Emit(x) \/ Fault(x) \/ ValidateRaises(x) \/ ValidateRead(x) \/ ValidateStage(x)
          \/ WriteQuarantine(x) \/ QuarantineRecords(x) \/ ValidateStatus(x) \/ ValidateReport(x)
  BY <1>1 DEF Quiet, Writing, IngestRead, Register, IngestStage, EnrichRead, EnrichStage, EnrichStatus,
     EmbedRead, EmbedStage, EmbedStatus, EmbedReport, GateRead, RecordQualityReport, GateStatus,
     GateReport, Promote, Reject, Join, ProfileRead, ProfileWrite, ProfileFault, At,
     Track, ValidateTrack, ProfileTrack
<1> QED BY <1>3, <1>4, <1>5, <1>6, <1>7, <1>8, <1>9, <1>10, <1>11

LEMMA StepVanishInv == VanishInv /\ [Next]_vars /\ [NotWhileQuarantining]_vars => VanishInv'
<1> SUFFICES ASSUME VanishInv, [Next]_vars, [NotWhileQuarantining]_vars PROVE VanishInv'
  OBVIOUS
<1>1. RelInv'
  BY StepRelInv DEF VanishInv
<1>2. CASE UNCHANGED vars
  <2>1. NoRowVanishes'
    BY <1>2 DEF VanishInv, NoRowVanishes, Recorded, vars, stores
  <2>2. \A x \in Executions : VanishTrack(x)'
    BY <1>2 DEF VanishInv, VanishTrack, Recorded, Version, vars, stores
  <2> QED BY <1>1, <2>1, <2>2 DEF VanishInv
<1>3. ASSUME NEW x \in Executions, Quiet(x) \/ Writing(x), NotWhileQuarantining
      PROVE  VanishInv'
  <2>1. /\ Frame(x) /\ TypeOK /\ Version(x) \in Versions /\ Version(x)[1] = x
        /\ VanishTrack(x) /\ Track(x) /\ exec \in [Executions -> Exec]
    BY <1>3, StepFrame, Facts DEF VanishInv, RelInv, Inv, Quiet, Writing, Task, Profile, TypeOK, Exec
  <2>2. ASSUME NEW v \in Versions, versions'[v].status \notin Fresh PROVE Recorded(v)'
    <3>1. Recorded(v)
      <4>1. CASE versions[v].status \notin Fresh
        BY <4>1 DEF VanishInv, NoRowVanishes, Recorded, Fresh
      <4>2. CASE versions[v].status \in Fresh
        <5>1. v = Version(x) /\ Writing(x)
          BY <1>3, <2>1, <2>2, <4>2, QuietStores DEF Frame, stores
        <5>2. versions'[v].status \in Successors[versions[v].status] \cup {versions[v].status}
          BY <1>3, StepAdvances DEF VanishInv, RelInv, Quiet, Writing, Task, Profile
        <5>3. versions'[v].status = "validated"
          BY <2>2, <4>2, <5>2 DEF Successors, Fresh
        <5>4. ValidateStatus(x)
          BY <2>1, <4>2, <5>1, <5>3 DEF Writing, Register, IngestStage, ValidateStage, WriteQuarantine,
             QuarantineRecords, ValidateReport, EnrichStage, EnrichStatus, ProfileWrite, EmbedStage,
             EmbedStatus, EmbedReport, RecordQualityReport, GateStatus, GateReport, Promote, Reject,
             VersionRow, TypeOK, Fresh
        <5> QED BY <2>1, <5>1, <5>4 DEF ValidateStatus, At, VanishTrack
      <4> QED BY <4>1, <4>2
    <3> QED BY <1>3, <3>1, TableGrows DEF VanishInv, RelInv
  <2>3. NoRowVanishes'
    BY <2>2 DEF NoRowVanishes, Recorded, Fresh
  <2>4. ASSUME NEW y \in Executions PROVE VanishTrack(y)'
    <3>1. CASE y # x
      <4>1. Version(y) \in Versions \ {Version(x)} /\ Version(y)' = Version(y) /\ exec'[y] = exec[y]
        BY <2>1, <3>1, Facts DEF Frame, Version
      <4>2. staged'[Version(y)] = staged[Version(y)] /\ object' = object
        BY <2>1, <4>1 DEF Frame
      <4>3. Recorded(Version(y)) => Recorded(Version(y))'
        BY <1>3, <4>1, TableGrows DEF VanishInv, RelInv
      <4> QED BY <4>1, <4>2, <4>3 DEF VanishInv, VanishTrack
    <3>2. CASE y = x
      <4>1. CASE exec'[x].stage = "validate"
        BY <1>3, <2>1, <3>2, <4>1, ValidationRecords DEF VanishInv
      <4>2. CASE exec'[x].stage # "validate"
        BY <3>2, <4>2 DEF VanishTrack
      <4> QED BY <4>1, <4>2
    <3> QED BY <3>1, <3>2
  <2> QED BY <1>1, <2>3, <2>4 DEF VanishInv
<1> QED BY <1>2, <1>3 DEF Next, Task, Profile, Quiet, Writing

LEMMA InitVanishInv == Init => VanishInv
<1> SUFFICES ASSUME Init PROVE VanishInv
  OBVIOUS
<1>1. NoRowVanishes /\ \A x \in Executions : VanishTrack(x)
  BY DEF Init, NoRowVanishes, VanishTrack, Fresh
<1> QED BY <1>1, InitRelInv DEF VanishInv

\* A row its contract refuses is in the quarantine once its version is validated,
\* whatever fails and is retried, unless a validation is interrupted between the
\* write of the valid rows and the insert of the others.
\* (docs/architecture.md line 42, runner.py lines 111-116)
THEOREM RowsVanishOnlyThere ==
    Spec /\ [][NotWhileQuarantining]_vars => []NoRowVanishes
<1>1. VanishInv => NoRowVanishes
  BY DEF VanishInv
<1> QED BY <1>1, InitVanishInv, StepVanishInv, PTL DEF Spec

-----------------------------------------------------------------------------
(* Decisions and raw objects, whatever fails. *)

\* What a decided version's status says of its raw object.
Settled(v) ==
    /\ versions[v].status = "promoted" =>
         /\ Release!Fit(object[v[1]])
         /\ AllCounted(v) => Release!Clean(object[v[1]])
    /\ versions[v].status = "rejected" =>
         ~(Release!Fit(object[v[1]]) /\ Release!Clean(object[v[1]]))

SettledInv == RelInv /\ \A v \in Versions : Settled(v)

\* A version is settled by the step that decides it, and neither its status nor
\* its validation report changes after that.
LEMMA StepSettles ==
    ASSUME RelInv, NEW x \in Executions, Quiet(x) \/ Writing(x), NEW v \in Versions, Settled(v)
    PROVE  Settled(v)'
<1>1. /\ Frame(x) /\ TypeOK /\ Version(x) \in Versions /\ Version(x)[1] = x /\ Track(x)
      /\ object' = object
  BY StepFrame, Facts DEF RelInv, Inv, Quiet, Writing, Task, Profile, Frame
<1>2. CASE v # Version(x)
  BY <1>1, <1>2 DEF Frame, Settled, AllCounted
<1>3. CASE v = Version(x) /\ (Promote(x) \/ Reject(x))
  <2>1. /\ At(x, "promote", "read") /\ reports' = reports
        /\ v \in DOMAIN versions /\ versions[v] \in VersionRow
    BY <1>1, <1>3 DEF Promote, Reject, TypeOK, VersionRow
  <2>2. CASE Promote(x)
    <3>1. versions'[v].status = "promoted" /\ reports[v].quality = "passed"
      BY <1>3, <2>1, <2>2 DEF Promote, VersionRow
    <3> QED BY <1>1, <1>3, <2>1, <3>1, VerdictIs DEF Settled, AllCounted
  <2>3. CASE Reject(x)
    <3>1. versions'[v].status = "rejected" /\ reports[v].quality # "passed"
      BY <1>3, <2>1, <2>3 DEF Reject, VersionRow
    <3> QED BY <1>1, <1>3, <2>1, <3>1, VerdictIs DEF Settled
  <2> QED BY <1>3, <2>2, <2>3
<1>4. CASE v = Version(x) /\ ~(Promote(x) \/ Reject(x))
  <2>1. versions'[v].status \in {"promoted", "rejected"} => versions'[v].status = versions[v].status
    BY <1>1, <1>4, QuietStores DEF stores, Writing, Register, IngestStage, ValidateStage, WriteQuarantine,
       QuarantineRecords, ValidateStatus, ValidateReport, EnrichStage, EnrichStatus, ProfileWrite,
       EmbedStage, EmbedStatus, EmbedReport, RecordQualityReport, GateStatus, GateReport,
       TypeOK, VersionRow
  <2>2. CASE versions'[v].status \notin {"promoted", "rejected"}
    BY <2>2 DEF Settled
  <2>3. CASE versions'[v].status \in {"promoted", "rejected"}
    <3>1. ~ValidateReport(x)
      BY <1>1, <1>4, <2>1, <2>3 DEF ValidateReport, At, Track, ValidateTrack
    <3>2. reports'[v].validation = reports[v].validation
      BY <1>4, <3>1, ReportRests DEF RelInv
    <3> QED BY <1>1, <2>1, <2>3, <3>2 DEF Settled, AllCounted
  <2> QED BY <2>2, <2>3
<1> QED BY <1>2, <1>3, <1>4

LEMMA StepSettledInv == SettledInv /\ [Next]_vars => SettledInv'
<1> SUFFICES ASSUME SettledInv, [Next]_vars PROVE SettledInv'
  OBVIOUS
<1>1. RelInv'
  BY StepRelInv DEF SettledInv
<1>2. CASE UNCHANGED vars
  <2>1. \A v \in Versions : Settled(v)'
    BY <1>2 DEF SettledInv, Settled, AllCounted, vars, stores
  <2> QED BY <1>1, <2>1 DEF SettledInv
<1>3. CASE \E x \in Executions : Quiet(x) \/ Writing(x)
  BY <1>1, <1>3, StepSettles DEF SettledInv
<1> QED BY <1>2, <1>3 DEF Next, Task, Profile, Quiet, Writing

\* No retry makes the pipeline promote what its gates on the rows would refuse, serve
\* other rows than the first good one of each key, or reject what is good; and where
\* the report still counts every row, a promoted version has its pass rate.
\* (runner.py lines 95-224, quality/gates.py lines 42-165)
THEOREM DecisionsAreRight == Spec => []DecisionsFollowContents
<1>1. Init => SettledInv
  <2> SUFFICES ASSUME Init PROVE SettledInv
    OBVIOUS
  <2>1. \A v \in Versions : Settled(v)
    BY DEF Init, Settled
  <2> QED BY <2>1, InitRelInv DEF SettledInv
<1>2. SettledInv => DecisionsFollowContents
  <2> SUFFICES ASSUME SettledInv PROVE DecisionsFollowContents
    OBVIOUS
  <2>1. ASSUME NEW i \in DOMAIN promoted
        PROVE  /\ Release!Fit(object[promoted[i][1]])
               /\ collection[promoted[i]] = Release!Offer(object[promoted[i][1]]) \cap Textual
               /\ reports[promoted[i]].validation.total = Cardinality(object[promoted[i][1]])
                    => Release!Clean(object[promoted[i][1]])
    <3>1. PICK v \in Versions : v = promoted[i]
      BY DEF SettledInv, RelInv, Inv, TypeOK
    <3>2. Settled(v) /\ Served(v) /\ v[1] \in Executions
      BY <3>1 DEF SettledInv, RelInv, Inv, Versions
    <3>3. collection[v] = Release!Offer(object[v[1]]) \cap Textual
      BY <3>2, OfferIsKept DEF Served
    <3> QED BY <3>1, <3>2, <3>3 DEF Settled, Served, AllCounted
  <2>2. ASSUME NEW v \in Versions, versions[v].status = "rejected"
        PROVE  ~(Release!Fit(object[v[1]]) /\ Release!Clean(object[v[1]]))
    BY <2>2 DEF SettledInv, Settled
  <2> QED BY <2>1, <2>2 DEF DecisionsFollowContents
<1> QED BY <1>1, <1>2, StepSettledInv, PTL DEF Spec

-----------------------------------------------------------------------------
(* The promise, unless a validation is interrupted after it overwrote its input. *)

\* No task dies that has set the valid rows in the place of rows with bad ones.
ValidateUnbroken ==
    \A x \in Executions :
      Fault(x) /\ exec[x].stage = "validate" =>
        \/ exec[x].step \in {"read", "stage"}
        \/ exec[x].step \in {"status", "report", "emit"} /\ Bad(x) = {}

\* What validation works on, and later what it reported, is every row of the object.
InSight(x) ==
    /\ exec[x].stage = "validate" =>
         object[x] = IF exec[x].step = "read" THEN staged[Version(x)].rows ELSE exec[x].rows
    /\ exec[x].stage \in Later => AllCounted(Version(x))

LEMMA StaysInSight ==
    ASSUME RelInv, NEW x \in Executions, InSight(x), Quiet(x) \/ Writing(x), ValidateUnbroken
    PROVE  InSight(x)'
<1> DEFINE v == Version(x)
<1>1. /\ exec \in [Executions -> Exec] /\ exec[x] \in Exec /\ v \in Versions /\ v[1] = x
      /\ Track(x) /\ SightTrack(x) /\ object' = object /\ object[x] \in SUBSET Rows
  BY Facts, StepFrame DEF RelInv, Inv, TypeOK, Exec, Quiet, Writing, Task, Profile, Frame
<1>2. CASE Emit(x) /\ exec[x].stage \in {"ingest", "validate"}
  <2>1. /\ exec[x].step = "emit" /\ exec'[x].step = "read" /\ v' = v
        /\ staged' = staged /\ reports' = reports
        /\ exec'[x].stage = IF exec[x].stage = "ingest" THEN "validate" ELSE "enrich"
    BY <1>1, <1>2 DEF Emit, StageAfter, stores, Version, Exec
  <2>2. CASE exec[x].stage = "ingest"
    BY <1>1, <2>1, <2>2 DEF InSight, Later, Track, IngestTrack
  <2>3. CASE exec[x].stage = "validate"
    <3>1. RatedNow(x) /\ exec[x].rows = object[x]
      BY <1>1, <2>1, <2>3 DEF InSight, SightTrack
    <3>2. AllCounted(v)
      BY <1>1, <3>1 DEF RatedNow, RateOver, AllCounted
    <3> QED BY <1>1, <2>1, <2>3, <3>2 DEF InSight, AllCounted
  <2> QED BY <1>2, <2>2, <2>3
<1>3. CASE ValidateRead(x)
  <2>1. /\ exec[x].stage = "validate" /\ exec[x].step = "read" /\ exec'[x].stage = "validate"
        /\ exec'[x].step = "stage" /\ exec'[x].rows = staged[v].rows
    BY <1>1, <1>3 DEF ValidateRead, At, Exec
  <2> QED BY <1>1, <2>1 DEF InSight, Later
<1>4. CASE (Fault(x) \/ ValidateRaises(x)) /\ exec[x].stage = "validate"
  <2>1. /\ exec'[x].step = "read" /\ v' = v /\ staged' = staged
        /\ exec'[x].stage \in {"validate", "failed"}
    BY <1>1, <1>4, StartsOver DEF RelInv, Inv, Fault, ValidateRaises, stores, Version
  <2>2. staged[v].rows = object[x]
    <3>1. CASE exec[x].step \in {"read", "stage"}
      BY <1>1, <1>4, <3>1 DEF InSight, SightTrack, At
    <3>2. CASE exec[x].step \notin {"read", "stage"}
      <4>1. Bad(x) = {}
        BY <1>4, <3>2 DEF ValidateUnbroken, ValidateRaises, At
      <4>2. exec[x].rows = object[x] /\ staged[v].rows = Accepted(x)
        BY <1>1, <1>4, <3>2 DEF InSight, Track, ValidateTrack
      <4> QED BY <4>1, <4>2 DEF Bad, Accepted
    <3> QED BY <3>1, <3>2
  <2> QED BY <1>1, <2>1, <2>2 DEF InSight, Later
<1>5. CASE \/ ValidateStage(x) \/ WriteQuarantine(x) \/ QuarantineRecords(x)
           \/ ValidateStatus(x) \/ ValidateReport(x)
  <2>1. /\ exec[x].stage = "validate" /\ exec[x].step # "read" /\ exec'[x].stage = "validate"
        /\ exec'[x].step # "read" /\ exec'[x].rows = exec[x].rows
    BY <1>1, <1>5 DEF ValidateStage, WriteQuarantine, QuarantineRecords, ValidateStatus,
       ValidateReport, Goto, At, Exec
  <2> QED BY <1>1, <2>1 DEF InSight, Later
<1>6. CASE exec[x].stage \in Later
  <2>1. ~ValidateReport(x) /\ ~IngestRead(x)
    BY <1>6 DEF ValidateReport, IngestRead, At, Later
  <2>2. exec'[x].stage # "validate" /\ exec'[x].version = exec[x].version
    <3>1. CASE Writing(x)
      BY <1>6, <3>1, Writes, WritesStep DEF RelInv, Later
    <3>2. CASE Fault(x) \/ ValidateRaises(x)
      BY <1>6, <3>2, StartsOver DEF RelInv, Inv, Fault, ValidateRaises, Later
    <3>3. CASE Emit(x)
      BY <1>1, <1>6, <3>3 DEF Emit, StageAfter, Later, Exec
    <3>4. CASE \/ ValidateRead(x) \/ EnrichRead(x) \/ EmbedRead(x) \/ GateRead(x) \/ Join(x)
               \/ ProfileRead(x) \/ ProfileFault(x)
      BY <1>1, <1>6, <3>4 DEF ValidateRead, EnrichRead, EmbedRead, GateRead, Join, ProfileRead,
         ProfileFault, At, Later, Exec
    <3> QED BY <2>1, <3>1, <3>2, <3>3, <3>4 DEF Quiet
  <2>3. reports'[v].validation = reports[v].validation /\ v' = v
    BY <2>1, <2>2, ReportRests DEF RelInv, Version
  <2> QED BY <1>1, <1>6, <2>2, <2>3 DEF InSight, AllCounted
<1>7. CASE exec[x].stage \notin Later \cup {"validate"} /\ ~(Emit(x) /\ exec[x].stage = "ingest")
  <2>1. exec'[x].stage \notin Later \cup {"validate"}
    <3>1. CASE Writing(x)
      BY <1>7, <3>1, Writes DEF RelInv
    <3>2. CASE Fault(x) \/ ValidateRaises(x)
      BY <1>7, <3>2, StartsOver DEF RelInv, Inv, Fault, ValidateRaises, Later
    <3>3. ~Emit(x) /\ ~Join(x)
      BY <1>1, <1>7 DEF Emit, Join, Later, Exec, Stages, Track, IngestTrack, EndTrack
    <3>4. CASE IngestRead(x) \/ ProfileFault(x)
      BY <1>1, <1>7, <3>4 DEF IngestRead, ProfileFault, At, Later, Exec
    <3>5. ~(ValidateRead(x) \/ EnrichRead(x) \/ EmbedRead(x) \/ GateRead(x) \/ ProfileRead(x))
      BY <1>7 DEF ValidateRead, EnrichRead, EmbedRead, GateRead, ProfileRead, At, Later
    <3> QED BY <3>1, <3>2, <3>3, <3>4, <3>5 DEF Quiet
  <2> QED BY <2>1 DEF InSight
<1>8. exec[x].stage = "validate" =>
         \/ Emit(x) \/ Fault(x) \/ ValidateRaises(x) \/ ValidateRead(x) \/ ValidateStage(x)
         \/ WriteQuarantine(x) \/ QuarantineRecords(x) \/ ValidateStatus(x) \/ ValidateReport(x)
  BY <1>1 DEF Quiet, Writing, IngestRead, Register, IngestStage, EnrichRead, EnrichStage, EnrichStatus,
     EmbedRead, EmbedStage, EmbedStatus, EmbedReport, GateRead, RecordQualityReport, GateStatus,
     GateReport, Promote, Reject, Join, ProfileRead, ProfileWrite, ProfileFault, At,
     Track, ValidateTrack, ProfileTrack
<1> QED BY <1>2, <1>3, <1>4, <1>5, <1>6, <1>7, <1>8

LEMMA SightElsewhereRests ==
    ASSUME Inv, NEW x \in Executions, Frame(x), NEW y \in Executions \ {x}, InSight(y)
    PROVE  InSight(y)'
<1>1. /\ Version(y) \in Versions \ {Version(x)} /\ Version(y)' = Version(y)
      /\ exec'[y] = exec[y] /\ object' = object
  BY Facts DEF Inv, Frame, Version
<1>2. reports'[Version(y)] = reports[Version(y)] /\ staged'[Version(y)] = staged[Version(y)]
  BY <1>1 DEF Frame
<1> QED BY <1>1, <1>2 DEF InSight, AllCounted

PromiseInv == VanishInv /\ \A x \in Executions : InSight(x)

LEMMA StepPromiseInv == PromiseInv /\ [Next]_vars /\ [ValidateUnbroken]_vars => PromiseInv'
<1> SUFFICES ASSUME PromiseInv, [Next]_vars, [ValidateUnbroken]_vars PROVE PromiseInv'
  OBVIOUS
<1>1. [NotWhileQuarantining]_vars
  BY DEF ValidateUnbroken, NotWhileQuarantining
<1>2. VanishInv'
  BY <1>1, StepVanishInv DEF PromiseInv
<1>3. CASE UNCHANGED vars
  <2>1. \A x \in Executions : InSight(x)'
    BY <1>3 DEF PromiseInv, InSight, AllCounted, Version, vars, stores
  <2> QED BY <1>2, <2>1 DEF PromiseInv
<1>4. ASSUME NEW x \in Executions, Quiet(x) \/ Writing(x), ValidateUnbroken
      PROVE  PromiseInv'
  <2>1. RelInv /\ Inv /\ Frame(x)
    BY <1>4, StepFrame DEF PromiseInv, VanishInv, RelInv, Inv, Quiet, Writing, Task, Profile
  <2>2. \A y \in Executions : InSight(y)'
    BY <1>4, <2>1, StaysInSight, SightElsewhereRests DEF PromiseInv
  <2> QED BY <1>2, <2>2 DEF PromiseInv
<1> QED BY <1>3, <1>4 DEF Next, Task, Profile, Quiet, Writing

LEMMA StepImplementsRelease ==
    PromiseInv /\ PromiseInv' /\ [Next]_vars => [Release!Next]_(Release!rvars)
<1> SUFFICES ASSUME PromiseInv, PromiseInv', [Next]_vars
             PROVE  Release!Next \/ UNCHANGED Release!rvars
  OBVIOUS
<1>0. RelInv /\ RelInv'
  BY DEF PromiseInv, VanishInv
<1>1. ASSUME NEW x \in Executions, Task(x) \/ Profile(x) \/ Fault(x) \/ ProfileFault(x)
      PROVE  Release!Next \/ UNCHANGED Release!rvars
  <2>1. CASE Profile(x) \/ ProfileFault(x)
    BY <1>0, <2>1, ProfileMaps
  <2>2. CASE Emit(x) \/ Join(x) \/ Fault(x) \/ ValidateRaises(x)
    BY <1>0, <2>2, KestraMaps DEF Release!Next
  <2>3. CASE Promote(x) \/ Reject(x)
    <3>1. /\ Version(x) \in Versions /\ Track(x) /\ At(x, "promote", "read")
      BY <1>0, <2>3, Facts DEF RelInv, Inv, Promote, Reject
    <3>2. versions[Version(x)].status \notin Fresh
      BY <3>1 DEF Track, PromoteTrack, At, Fresh
    <3>3. AllCounted(Version(x)) /\ Recorded(Version(x))
      BY <3>1, <3>2 DEF PromiseInv, VanishInv, NoRowVanishes, InSight, Later, At
    <3> QED BY <1>0, <2>3, <3>3, PromotionMaps DEF Release!Next
  <2>4. CASE IngestRead(x) \/ Register(x) \/ IngestStage(x)
    BY <1>0, <2>4, IngestMaps DEF IngestRead, Register, IngestStage, At
  <2>5. CASE \/ ValidateRead(x) \/ ValidateStage(x) \/ WriteQuarantine(x)
             \/ ValidateStatus(x) \/ ValidateReport(x)
    BY <1>0, <2>5, ValidateMaps DEF ValidateRead, ValidateStage, WriteQuarantine, ValidateStatus,
       ValidateReport, At
  <2>7. CASE QuarantineRecords(x)
    BY <1>0, <2>7, RecordsMap DEF Release!Next
  <2>6. CASE \/ EnrichRead(x) \/ EnrichStage(x) \/ EnrichStatus(x)
             \/ EmbedRead(x) \/ EmbedStage(x) \/ EmbedStatus(x) \/ EmbedReport(x)
             \/ GateRead(x) \/ RecordQualityReport(x) \/ GateStatus(x) \/ GateReport(x)
    BY <1>0, <2>6, LaterStagesMap
  <2> QED BY <1>1, <2>1, <2>2, <2>3, <2>4, <2>5, <2>6, <2>7 DEF Task
<1>2. CASE UNCHANGED vars
  <2>1. \A x \in Executions : Decision(x)' = Decision(x) /\ Aside(x)' = Aside(x)
    BY <1>2 DEF vars, stores, Decision, Aside
  <2> QED BY <1>2, <2>1 DEF Release!rvars, vars, stores
<1> QED BY <1>1, <1>2 DEF Next

\* Six stages, their retries, the files and reports between them and Kestra
\* together keep the promise of DatasetRelease, the pass rate over the raw rows and
\* the quarantine of the refused ones included, whatever fails and is retried,
\* unless a validation is interrupted after it wrote the valid rows over rows of
\* which some were bad: the counterexample to ImplementsRelease is the only kind
\* there is.  (runner.py lines 8-18 and 95-130, quality/gates.py lines 1-7)
THEOREM ReleaseUnlessInterrupted ==
    Spec /\ [][ValidateUnbroken]_vars => ImplementsRelease
<1>1. Init => Release!Init
  <2> SUFFICES ASSUME Init PROVE Release!Init
    OBVIOUS
  <2>1. \A x \in Executions : Decision(x) = "open" /\ Aside(x) = {}
    <3>1. \A x \in Executions : Decision(x) = Outcome(x)
      BY InitInv, DecisionIs
    <3>2. \A x \in Executions : Version(x) \in Versions
      BY InitInv, Facts DEF Inv
    <3>3. \A x \in Executions : Aside(x) = {}
      BY DEF Init, Aside, Versions
    <3> QED BY <3>1, <3>2, <3>3 DEF Init, Outcome
  <2> QED BY <2>1 DEF Init, Release!Init
<1>2. Init => PromiseInv
  <2> SUFFICES ASSUME Init PROVE PromiseInv
    OBVIOUS
  <2>1. \A x \in Executions : InSight(x)
    BY DEF Init, InSight, Later
  <2> QED BY <2>1, InitVanishInv DEF PromiseInv
<1>3. Spec /\ [][ValidateUnbroken]_vars => [][Release!Next]_(Release!rvars)
  BY <1>2, StepPromiseInv, StepImplementsRelease, PTL DEF Spec
<1> QED BY <1>1, <1>3, PTL DEF Spec, ImplementsRelease, Release!Spec

-----------------------------------------------------------------------------
(* The drift gate. *)

DriftGatePasses ==
    \A x \in Executions : exec[x].stage = "gate" => ~reports[Version(x)].validation.drifted

\* No version ever fails the drift gate, whatever fields its rows have: ingest
\* registers no schema hash, and no later stage writes one.  The counterexample to
\* DriftBlocksPromotion is one of a check that cannot fail.
\* (runner.py lines 73-84 and 107-109, gates.py)
THEOREM DriftIsNeverSeen == Spec => []DriftGatePasses
<1>1. RelInv => DriftGatePasses
  <2> SUFFICES ASSUME RelInv, NEW x \in Executions, exec[x].stage = "gate"
               PROVE  ~reports[Version(x)].validation.drifted
    BY DEF DriftGatePasses
  <2>1. Rated(x)
    BY DEF RelInv, SightTrack, Later
  <2> QED BY <2>1 DEF Rated, RateOver
<1> QED BY <1>1, InitRelInv, StepRelInv, PTL DEF Spec

===============================================================================

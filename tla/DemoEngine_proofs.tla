--------------------------- MODULE DemoEngine_proofs ---------------------------
(***************************************************************************)
(* What the in-memory control plane keeps true for any threads, datasets,  *)
(* schemas, retention and history limit, and any number of requests.       *)
(***************************************************************************)
EXTENDS DemoEngine, FiniteSetTheorems, WellFoundedInduction, TLAPS

-----------------------------------------------------------------------------
(* The invariant, part by part. *)

\* The lock's holder is the only thread inside a run or a search; a run works on
\* the newest version, which no ledger row mentions yet.
OnTrack(t) ==
    /\ call[t].at \in RunStep \cup {"scan"} => lock = t
    /\ call[t].at \in RunStep =>
         /\ call[t].ver = minted /\ minted \in Versions /\ call[t].batch \in Batch
         /\ versions[minted].dataset = call[t].ds
         /\ \A i \in DOMAIN ledger : ledger[i].version # minted
    /\ call[t].at \in RunStep \ {"validate"} => versions[minted].schema = call[t].batch.schema

\* A version is promoted at most once, under an id minted before, and its status
\* says "promoted" only if there is a row for it.
RowsInv ==
    /\ \A i \in DOMAIN ledger :
         /\ ledger[i].version <= minted
         /\ ledger[i].decision # "rejected" => ledger[i].to = ledger[i].version
    /\ \A i, k \in DOMAIN ledger :
         /\ ledger[i].decision = "promoted" /\ ledger[k].decision = "promoted"
         /\ ledger[i].version = ledger[k].version
         => i = k
    /\ \A v \in Versions : versions[v].status = "promoted" =>
         \E i \in DOMAIN ledger : ledger[i].decision = "promoted" /\ ledger[i].version = v
    /\ \A v \in collections : v <= minted

TypeInv == TypeOK /\ (\A t \in Threads : OnTrack(t)) /\ RowsInv

\* What serves was promoted, is within the history limit and has its collection.
ServingInv ==
    \A d \in Datasets :
        /\ alias[d] = NoVersion => PromotionRows(d) = {}
        /\ alias[d] # NoVersion =>
             /\ alias[d] \in collections
             /\ \E k \in History(d) : ledger[k].version = alias[d]

\* The first promotion of a dataset keeps its status; a run that has not drifted
\* has the schema of all promotions so far.
FirstKept(d) ==
    \E i \in PromotionRows(d) : /\ \A k \in PromotionRows(d) : i <= k
                                /\ versions[ledger[i].version].status = "promoted"
SameSchema(t) ==
    /\ call[t].at \in RunStep \ {"validate"} /\ ~call[t].drifted =>
         \A i \in PromotionRows(call[t].ds) :
            versions[ledger[i].version].schema = call[t].batch.schema
    /\ call[t].at = "decide" /\ call[t].passed => ~call[t].drifted

FirstsKept == \A d \in Datasets : PromotionRows(d) # {} => FirstKept(d)

\* The version the newest switch, a promotion, replaced is still stored.
PreviousKept ==
    \A d \in Datasets : \A i \in PromotionRows(d) :
        (\A k \in SwitchRows(d) : k <= i) =>
            /\ ledger[i].from # ledger[i].version
            /\ ledger[i].from # NoVersion => /\ ledger[i].from \in collections
                                             /\ versions[ledger[i].from].dataset = d

\* A search still names what serves.
AnswerInv ==
    \A t \in Threads :
        /\ call[t].at = "scan" => /\ call[t].named = alias[call[t].ds]
                                  /\ call[t].named # NoVersion
        /\ call[t].at = "answered" => call[t].hits = call[t].named

\* What the rows and production keep true, and the whole invariant.
RowsAgree ==
    /\ ServingInv /\ OneSchemaPromoted /\ FirstsKept
    /\ AheadWereRolledBack /\ PreviousKept /\ LedgerTellsServing

Inv == TypeInv /\ RowsAgree /\ (\A t \in Threads : SameSchema(t)) /\ AnswerInv

-----------------------------------------------------------------------------
(* Types. *)

LEMMA CallTypes ==
    /\ NoCall \in Call /\ NoCall.at = "idle" /\ NoRow \in Row
    /\ \A d \in Datasets : [NoCall EXCEPT !.ds = d] \in Call
    /\ NoVersion \notin Versions
<1>1. AnyDataset \in Datasets
  BY DatasetsAssumption DEF AnyDataset
<1>2. NoVersion \notin Versions
  BY NoVersionAssumption, BoundsAssumption DEF Versions
<1> QED
  BY <1>1, <1>2 DEF NoCall, Call, NoRow, Row, Step, RunStep, Status, Target, NoBatch

LEMMA InitTypeInv == Init => TypeInv
<1> SUFFICES ASSUME Init PROVE TypeInv
  OBVIOUS
<1>1. TypeOK
  BY CallTypes, BoundsAssumption DEF Init, TypeOK, Target
<1>2. \A t \in Threads : OnTrack(t)
  BY CallTypes DEF Init, OnTrack, RunStep
<1>3. RowsInv
  BY DEF Init, RowsInv, NoRow
<1> QED BY <1>1, <1>2, <1>3 DEF TypeInv

\* What a step of a run starts from.
LEMMA InRun ==
    ASSUME TypeInv, NEW t \in Threads, NEW step \in RunStep, Holds(t, step)
    PROVE  /\ call[t] \in Call /\ call[t].ver = minted /\ minted \in Versions
           /\ call[t].ds \in Datasets /\ call[t].batch \in Batch
           /\ versions[minted] \in Row /\ versions[minted].dataset = call[t].ds
           /\ \A i \in DOMAIN ledger : ledger[i].version # minted
           /\ \A q \in Threads \ {t} : call[q].at \notin RunStep \cup {"scan"}
<1>1. call[t] \in Call /\ versions \in [Versions -> Row]
  BY DEF TypeInv, TypeOK
<1>2. \A q \in Threads \ {t} : call[q].at \notin RunStep \cup {"scan"}
  BY DEF TypeInv, OnTrack, Holds
<1> QED BY <1>1, <1>2 DEF TypeInv, OnTrack, Holds, Call

\* Nobody is inside when the lock is free.
LEMMA NobodyIn ==
    ASSUME TypeInv, lock = NoThread
    PROVE  \A q \in Threads : call[q].at \notin RunStep \cup {"scan"}
BY NoThreadAssumption DEF TypeInv, OnTrack

\* The stages of a run before its decision touch the run's own call and the row
\* of its version only.
Stage(t) == Validate(t) \/ Enrich(t) \/ Embed(t) \/ Gate(t)

StageTo(t, c, row) ==
    /\ lock = t /\ call[t].at \in RunStep
    /\ call' = [call EXCEPT ![t] = c]
    /\ versions' = [versions EXCEPT ![minted] = row]
    /\ UNCHANGED <<lock, minted, ledger, vectors>>
    /\ c.at \in RunStep \ {"validate"}
    /\ c.ds = call[t].ds /\ c.ver = call[t].ver /\ c.batch = call[t].batch
    /\ row.dataset = versions[minted].dataset /\ row.schema = call[t].batch.schema
    /\ row.status \notin Decision
    /\ call[t].at = "validate" =>
         c.drifted = Drifted(call[t].ds, call[t].batch.schema)
    /\ call[t].at # "validate" => c.drifted = call[t].drifted
    /\ c.at = "decide" => (call[t].at = "gate" /\ (c.passed => ~call[t].drifted))

LEMMA StageSteps ==
    ASSUME TypeInv, NEW t \in Threads, Stage(t)
    PROVE  \E c \in Call, row \in Row : StageTo(t, c, row)
<1>0. ASSUME NEW step \in RunStep, Holds(t, step)
      PROVE  /\ lock = t /\ call[t].at = step
             /\ call[t] \in Call /\ call \in [Threads -> Call] /\ versions \in [Versions -> Row]
             /\ call[t].ver = minted /\ minted \in Versions /\ versions[minted] \in Row
             /\ call[t].batch \in Batch /\ call[t].batch.schema \in Schemas
             /\ step # "validate" => versions[minted].schema = call[t].batch.schema
  BY <1>0, InRun DEF TypeInv, TypeOK, OnTrack, Batch, Holds
<1>1. CASE Validate(t)
  <2> DEFINE drifted == Drifted(call[t].ds, call[t].batch.schema)
             c == [call[t] EXCEPT !.at = "enrich", !.drifted = drifted]
             row == [versions[minted] EXCEPT !.status = "validated",
                                             !.schema = call[t].batch.schema]
  <2>1. Holds(t, "validate") /\ "validate" \in RunStep
    BY <1>1 DEF Validate, RunStep
  <2>2. drifted \in BOOLEAN
    BY DEF Drifted
  <2>3. c \in Call /\ c.at = "enrich" /\ c.drifted = drifted /\ c.ds = call[t].ds
        /\ c.ver = call[t].ver /\ c.batch = call[t].batch
    <3> HIDE DEF drifted
    <3> QED BY <1>0, <2>1, <2>2 DEF Call, Step, RunStep
  <2>4. row \in Row /\ row.status = "validated" /\ row.schema = call[t].batch.schema
        /\ row.dataset = versions[minted].dataset
    BY <1>0, <2>1 DEF Row, Status
  <2>5. call' = [call EXCEPT ![t] = c]
    BY <1>1 DEF Validate
  <2>6. versions' = [versions EXCEPT ![minted] = row]
    BY <1>0, <1>1, <2>1 DEF Validate
  <2>7. UNCHANGED <<lock, minted, ledger, vectors>>
    BY <1>1 DEF Validate
  <2>8. drifted = Drifted(call[t].ds, call[t].batch.schema)
    OBVIOUS
  <2> HIDE DEF drifted, c, row
  <2>9. StageTo(t, c, row)
    BY <1>0, <2>1, <2>3, <2>4, <2>5, <2>6, <2>7, <2>8 DEF StageTo, RunStep, Decision
  <2> QED BY <2>3, <2>4, <2>9
<1>2. CASE Enrich(t)
  <2> DEFINE c == [call[t] EXCEPT !.at = "embed"]
             row == [versions[minted] EXCEPT !.status = "enriched"]
  <2>1. Holds(t, "enrich") /\ "enrich" \in RunStep
    BY <1>2 DEF Enrich, RunStep
  <2>2. c \in Call /\ c.at = "embed" /\ c.drifted = call[t].drifted /\ c.ds = call[t].ds
        /\ c.ver = call[t].ver /\ c.batch = call[t].batch
    BY <1>0, <2>1 DEF Call, Step, RunStep
  <2>3. row \in Row /\ row.status = "enriched" /\ row.schema = call[t].batch.schema
        /\ row.dataset = versions[minted].dataset
    BY <1>0, <2>1 DEF Row, Status
  <2>4. /\ call' = [call EXCEPT ![t] = c]
        /\ versions' = [versions EXCEPT ![minted] = row]
        /\ UNCHANGED <<lock, minted, ledger, vectors>>
    BY <1>0, <1>2, <2>1 DEF Enrich
  <2> HIDE DEF c, row
  <2>5. StageTo(t, c, row)
    BY <1>0, <2>1, <2>2, <2>3, <2>4 DEF StageTo, RunStep, Decision
  <2> QED BY <2>2, <2>3, <2>5
<1>3. CASE Embed(t)
  <2> DEFINE c == [call[t] EXCEPT !.at = "gate"]
             row == [versions[minted] EXCEPT !.status = "embedded"]
  <2>1. Holds(t, "embed") /\ "embed" \in RunStep
    BY <1>3 DEF Embed, RunStep
  <2>2. c \in Call /\ c.at = "gate" /\ c.drifted = call[t].drifted /\ c.ds = call[t].ds
        /\ c.ver = call[t].ver /\ c.batch = call[t].batch
    BY <1>0, <2>1 DEF Call, Step, RunStep
  <2>3. row \in Row /\ row.status = "embedded" /\ row.schema = call[t].batch.schema
        /\ row.dataset = versions[minted].dataset
    BY <1>0, <2>1 DEF Row, Status
  <2>4. /\ call' = [call EXCEPT ![t] = c]
        /\ versions' = [versions EXCEPT ![minted] = row]
        /\ UNCHANGED <<lock, minted, ledger, vectors>>
    BY <1>0, <1>3, <2>1 DEF Embed
  <2> HIDE DEF c, row
  <2>5. StageTo(t, c, row)
    BY <1>0, <2>1, <2>2, <2>3, <2>4 DEF StageTo, RunStep, Decision
  <2> QED BY <2>2, <2>3, <2>5
<1>4. CASE Gate(t)
  <2> DEFINE passed == call[t].batch.sound /\ ~call[t].drifted
             c == [call[t] EXCEPT !.at = "decide", !.passed = passed]
             row == [versions[minted] EXCEPT !.status = "gated"]
  <2>1. Holds(t, "gate") /\ "gate" \in RunStep
    BY <1>4 DEF Gate, RunStep
  <2>2. passed \in BOOLEAN /\ (passed => ~call[t].drifted)
    OBVIOUS
  <2>3. c \in Call /\ c.at = "decide" /\ c.drifted = call[t].drifted /\ c.ds = call[t].ds
        /\ c.ver = call[t].ver /\ c.batch = call[t].batch /\ c.passed = passed
    <3> HIDE DEF passed
    <3> QED BY <1>0, <2>1, <2>2 DEF Call, Step, RunStep
  <2>4. row \in Row /\ row.status = "gated" /\ row.schema = call[t].batch.schema
        /\ row.dataset = versions[minted].dataset
    BY <1>0, <2>1 DEF Row, Status
  <2>5. call' = [call EXCEPT ![t] = c]
    BY <1>4 DEF Gate
  <2>6. /\ versions' = [versions EXCEPT ![minted] = row]
        /\ UNCHANGED <<lock, minted, ledger, vectors>>
    BY <1>0, <1>4, <2>1 DEF Gate
  <2> HIDE DEF passed, c, row
  <2>7. StageTo(t, c, row)
    BY <1>0, <2>1, <2>2, <2>3, <2>4, <2>5, <2>6 DEF StageTo, RunStep, Decision
  <2> QED BY <2>3, <2>4, <2>7
<1> QED BY <1>1, <1>2, <1>3, <1>4 DEF Stage

\* Every step is one of these.
LEMMA NextSteps ==
    ASSUME [Next]_vars
    PROVE  \/ UNCHANGED vars
           \/ \E t \in Threads :
                \/ \E d \in Datasets, b \in Batch : Ingest(t, d, b)
                \/ Stage(t) \/ Promote(t) \/ Reject(t)
                \/ \E d \in Datasets : Rollback(t, d)
                \/ \E d \in Datasets : SearchAlias(t, d)
                \/ SearchScan(t) \/ Answer(t) \/ Reset(t)
<1>1. CASE UNCHANGED vars
  BY <1>1
<1>2. ASSUME NEW t \in Threads,
             Run(t) \/ Search(t) \/ Reset(t) \/ (\E d \in Datasets : Rollback(t, d))
      PROVE  \/ \E d \in Datasets, b \in Batch : Ingest(t, d, b)
             \/ Stage(t) \/ Promote(t) \/ Reject(t)
             \/ \E d \in Datasets : Rollback(t, d)
             \/ \E d \in Datasets : SearchAlias(t, d)
             \/ SearchScan(t) \/ Answer(t) \/ Reset(t)
  BY <1>2 DEF Run, Search, Stage
<1> QED BY <1>1, <1>2 DEF Next

LEMMA StepTypeOK == TypeInv /\ [Next]_vars => TypeOK'
<1> SUFFICES ASSUME TypeInv, [Next]_vars PROVE TypeOK'
  OBVIOUS
<1> USE CallTypes
<1>0. TypeOK /\ MaxRuns \in Nat
  BY BoundsAssumption DEF TypeInv
<1>1. ASSUME NEW t \in Threads, NEW d \in Datasets, NEW b \in Batch, Ingest(t, d, b)
      PROVE  TypeOK'
  <2>1. minted + 1 \in Versions /\ minted' \in 0..MaxRuns
    BY <1>0, <1>1 DEF Ingest, TypeOK, Versions
  <2>2. [NoCall EXCEPT !.at = "validate", !.ds = d, !.ver = minted + 1, !.batch = b] \in Call
    BY <2>1 DEF Call, NoCall, Step, RunStep, Target
  <2>3. [dataset |-> d, status |-> "ingested", schema |-> NoSchema] \in Row
    BY DEF Row, Status
  <2> QED BY <1>0, <1>1, <2>1, <2>2, <2>3 DEF Ingest, TypeOK, vectors
<1>2. ASSUME NEW t \in Threads, Stage(t) PROVE TypeOK'
  BY <1>0, <1>2, StageSteps DEF StageTo, TypeOK, vectors
<1>3. ASSUME NEW t \in Threads, Promote(t) PROVE TypeOK'
  <2>1. Holds(t, "decide") /\ "decide" \in RunStep
    BY <1>3 DEF Promote, RunStep
  <2>2. call[t].ver \in Versions /\ versions[call[t].ver] \in Row /\ call[t].ds \in Datasets
    BY <2>1, InRun
  <2>3. [version |-> call[t].ver, decision |-> "promoted", from |-> alias[call[t].ds],
         to |-> call[t].ver] \in LedgerRow
    BY <1>0, <2>2 DEF TypeOK, LedgerRow, Decision, Target
  <2>4. ledger' \in Seq(LedgerRow)
    BY <1>0, <1>3, <2>3 DEF Promote, TypeOK
  <2>5. versions' \in [Versions -> Row]
    BY <1>0, <1>3, <2>2 DEF Promote, TypeOK, Row, Status, Decision
  <2>6. collections' \subseteq Versions /\ alias' \in [Datasets -> Target]
    BY <1>0, <1>3, <2>2 DEF Promote, TypeOK, Target
  <2>7. lock' \in Threads \cup {NoThread} /\ call' \in [Threads -> Call] /\ minted' = minted
    BY <1>0, <1>3 DEF Promote, TypeOK
  <2> QED BY <1>0, <2>4, <2>5, <2>6, <2>7 DEF TypeOK
<1>4. ASSUME NEW t \in Threads, Reject(t) PROVE TypeOK'
  <2>1. Holds(t, "decide") /\ "decide" \in RunStep
    BY <1>4 DEF Reject, RunStep
  <2>2. call[t].ver \in Versions /\ versions[call[t].ver] \in Row /\ call[t].ds \in Datasets
    BY <2>1, InRun
  <2>3. [version |-> call[t].ver, decision |-> "rejected", from |-> alias[call[t].ds],
         to |-> NoVersion] \in LedgerRow
    BY <1>0, <2>2 DEF TypeOK, LedgerRow, Decision, Target
  <2>4. ledger' \in Seq(LedgerRow)
    BY <1>0, <1>4, <2>3 DEF Reject, TypeOK
  <2>5. versions' \in [Versions -> Row]
    BY <1>0, <1>4, <2>2 DEF Reject, TypeOK, Row, Status, Decision
  <2>6. /\ lock' \in Threads \cup {NoThread} /\ call' \in [Threads -> Call]
        /\ UNCHANGED <<minted, vectors>>
    BY <1>0, <1>4 DEF Reject, TypeOK
  <2> QED BY <1>0, <2>4, <2>5, <2>6 DEF TypeOK, vectors
<1>5. ASSUME NEW t \in Threads, NEW d \in Datasets, Rollback(t, d) PROVE TypeOK'
  <2>1. PICK i \in Candidates(d) :
          /\ alias' = [alias EXCEPT ![d] = ledger[i].version]
          /\ ledger' = Append(ledger, [version |-> ledger[i].version, decision |-> "rolled_back",
                                       from |-> alias[d], to |-> ledger[i].version])
    BY <1>5 DEF Rollback
  <2>2. ledger[i].version \in Versions
    BY <1>0 DEF TypeOK, Candidates, History, NewestRows, PromotionRows, LedgerRow
  <2>3. [version |-> ledger[i].version, decision |-> "rolled_back", from |-> alias[d],
         to |-> ledger[i].version] \in LedgerRow
    BY <1>0, <2>2 DEF TypeOK, LedgerRow, Decision, Target
  <2>4. ledger' \in Seq(LedgerRow) /\ alias' \in [Datasets -> Target]
    BY <1>0, <2>1, <2>2, <2>3 DEF TypeOK, Target
  <2>5. versions' \in [Versions -> Row]
    BY <1>0, <1>5 DEF Rollback, TypeOK, Row, Status, Decision
  <2> QED BY <1>0, <1>5, <2>4, <2>5 DEF Rollback, TypeOK
<1>6. ASSUME NEW t \in Threads, NEW d \in Datasets, SearchAlias(t, d) PROVE TypeOK'
  <2>1. alias[d] \in Target
    BY <1>0 DEF TypeOK
  <2>2. ASSUME NEW at \in {"answered", "scan"}
        PROVE  [NoCall EXCEPT !.ds = d, !.named = alias[d], !.at = at] \in Call
    BY <2>1 DEF Call, NoCall, Step
  <2>3. call' \in [Threads -> Call]
    <3>1. CASE alias[d] = NoVersion
      BY <1>0, <1>6, <2>2, <3>1 DEF SearchAlias, TypeOK
    <3>2. CASE alias[d] # NoVersion
      BY <1>0, <1>6, <2>2, <3>2 DEF SearchAlias, TypeOK
    <3> QED BY <3>1, <3>2
  <2> QED BY <1>0, <1>6, <2>3 DEF SearchAlias, TypeOK, registry, vectors
<1>7. ASSUME NEW t \in Threads, SearchScan(t) PROVE TypeOK'
  <2> DEFINE target == alias[call[t].ds]
             hits == IF target \in collections THEN target ELSE NoVersion
  <2>1. call' = [call EXCEPT ![t] = [@ EXCEPT !.at = "answered", !.hits = hits]]
    BY <1>0, <1>7 DEF SearchScan, TypeOK
  <2>2. hits \in Target
    BY <1>0 DEF TypeOK, Target
  <2> HIDE DEF hits
  <2>3. call[t] \in Call /\ [call[t] EXCEPT !.at = "answered", !.hits = hits] \in Call
    BY <1>0, <2>2 DEF TypeOK, Call, Step
  <2> QED BY <1>0, <1>7, <2>1, <2>3 DEF SearchScan, TypeOK, registry, vectors
<1>10. ASSUME NEW t \in Threads, Answer(t) PROVE TypeOK'
  BY <1>0, <1>10 DEF Answer, TypeOK, registry, vectors
<1>8. ASSUME NEW t \in Threads, Reset(t) PROVE TypeOK'
  BY <1>0, <1>8 DEF Reset, Cleared, TypeOK, Target
<1>9. CASE UNCHANGED vars
  BY <1>0, <1>9 DEF vars, registry, vectors, TypeOK
<1> QED
  BY <1>1, <1>2, <1>3, <1>4, <1>5, <1>6, <1>7, <1>8, <1>9, <1>10, NextSteps

\* What every step comes to.  Quiet: no row is written and nothing that a row or a
\* collection is about changes.
Quiet ==
    /\ UNCHANGED <<ledger, alias, collections>>
    /\ \A i \in DOMAIN ledger : versions'[ledger[i].version] = versions[ledger[i].version]
    /\ \A v \in Versions : v <= minted => versions'[v].dataset = versions[v].dataset

LEMMA Rows ==
    ASSUME TypeInv
    PROVE  /\ versions \in [Versions -> Row] /\ minted \in Nat
           /\ ledger \in Seq(LedgerRow) /\ Len(ledger) \in Nat /\ DOMAIN ledger = 1..Len(ledger)
           /\ \A i \in DOMAIN ledger :
                ledger[i] \in LedgerRow /\ ledger[i].version \in Versions
           /\ \A v \in Versions : v \in Nat
           /\ collections \subseteq Versions /\ alias \in [Datasets -> Target]
<1>1. MaxRuns \in Nat
  BY BoundsAssumption
<1>2. minted \in Nat /\ \A v \in Versions : v \in Nat
  BY <1>1 DEF TypeInv, TypeOK, Versions
<1>3. ledger \in Seq(LedgerRow)
  BY DEF TypeInv, TypeOK
<1>4. Len(ledger) \in Nat /\ DOMAIN ledger = 1..Len(ledger)
      /\ \A i \in DOMAIN ledger : ledger[i] \in LedgerRow
  BY <1>3
<1>5. \A r \in LedgerRow : r.version \in Versions
  BY DEF LedgerRow
<1> QED BY <1>2, <1>3, <1>4, <1>5 DEF TypeInv, TypeOK

LEMMA QuietSteps ==
    ASSUME TypeInv, NEW t \in Threads,
           \/ UNCHANGED vars
           \/ \E d \in Datasets, b \in Batch : Ingest(t, d, b)
           \/ Stage(t)
           \/ \E d \in Datasets : SearchAlias(t, d)
           \/ SearchScan(t) \/ Answer(t)
    PROVE  Quiet
<1>0. /\ \A i \in DOMAIN ledger : ledger[i].version \in Versions /\ ledger[i].version <= minted
      /\ versions \in [Versions -> Row] /\ minted \in Nat
      /\ \A v \in Versions : v \in Nat
  BY Rows DEF TypeInv, RowsInv
<1>1. ASSUME NEW d \in Datasets, NEW b \in Batch, Ingest(t, d, b) PROVE Quiet
  <2>1. \A v \in Versions : v <= minted => versions'[v] = versions[v]
    <3>1. \A v \in Versions : v # minted + 1 => versions'[v] = versions[v]
      BY <1>0, <1>1 DEF Ingest
    <3> QED BY <1>0, <3>1
  <2> QED BY <1>0, <1>1, <2>1 DEF Ingest, Quiet, vectors
<1>2. CASE Stage(t)
  <2>1. PICK c \in Call, row \in Row : StageTo(t, c, row)
    BY <1>2, StageSteps
  <2>2. minted \in Versions /\ \A i \in DOMAIN ledger : ledger[i].version # minted
    BY <2>1 DEF StageTo, TypeInv, OnTrack
  <2>3. \A v \in Versions : versions'[v] = IF v = minted THEN row ELSE versions[v]
    BY <1>0, <2>1 DEF StageTo
  <2>4. row.dataset = versions[minted].dataset /\ UNCHANGED <<ledger, vectors>>
    BY <2>1 DEF StageTo
  <2> QED BY <1>0, <2>2, <2>3, <2>4 DEF Quiet, vectors
<1>3. CASE UNCHANGED <<registry, vectors>>
  BY <1>3 DEF registry, vectors, Quiet
<1>4. ASSUME \/ UNCHANGED vars \/ SearchScan(t) \/ Answer(t)
             \/ \E d \in Datasets : SearchAlias(t, d)
      PROVE  UNCHANGED <<registry, vectors>>
  BY <1>4 DEF vars, SearchAlias, SearchScan, Answer
<1> QED BY <1>1, <1>2, <1>3, <1>4

LEMMA StepOnTrack == TypeInv /\ [Next]_vars => \A q \in Threads : OnTrack(q)'
<1> SUFFICES ASSUME TypeInv, [Next]_vars, NEW q \in Threads PROVE OnTrack(q)'
  OBVIOUS
<1>0. /\ call \in [Threads -> Call] /\ versions \in [Versions -> Row] /\ minted \in Nat
      /\ \A i \in DOMAIN ledger : ledger[i].version <= minted
      /\ OnTrack(q) /\ lock \in Threads \cup {NoThread}
  BY BoundsAssumption DEF TypeInv, TypeOK, RowsInv
<1>1. ASSUME NEW t \in Threads, NEW d \in Datasets, NEW b \in Batch, Ingest(t, d, b)
      PROVE  OnTrack(q)'
  <2> DEFINE c == [NoCall EXCEPT !.at = "validate", !.ds = d, !.ver = minted + 1, !.batch = b]
             row == [dataset |-> d, status |-> "ingested", schema |-> NoSchema]
  <2>1. c.at = "validate" /\ c.ds = d /\ c.ver = minted + 1 /\ c.batch = b /\ row.dataset = d
    BY DEF NoCall
  <2>2. minted + 1 \in Versions /\ minted' = minted + 1 /\ lock' = t /\ lock = NoThread
        /\ call' = [call EXCEPT ![t] = c] /\ versions' = [versions EXCEPT ![minted + 1] = row]
        /\ ledger' = ledger
    BY <1>0, <1>1, BoundsAssumption DEF Ingest, Free, Versions
  <2> HIDE DEF c, row
  <2>3. CASE q = t
    <3>1. call'[q] = c /\ versions'[minted'].dataset = d
      BY <1>0, <2>1, <2>2, <2>3
    <3>2. \A i \in DOMAIN ledger' : ledger'[i].version # minted'
      BY <1>0, <2>2
    <3> QED BY <2>1, <2>2, <2>3, <3>1, <3>2 DEF OnTrack
  <2>4. CASE q # t
    BY <1>0, <2>2, <2>4, NobodyIn DEF OnTrack
  <2> QED BY <2>3, <2>4
<1>2. ASSUME NEW t \in Threads, Stage(t) PROVE OnTrack(q)'
  <2>1. PICK c \in Call, row \in Row : StageTo(t, c, row)
    BY <1>2, StageSteps
  <2>2. lock = t /\ call[t].at \in RunStep /\ OnTrack(t)
    BY <2>1 DEF StageTo, TypeInv
  <2>3. CASE q = t
    <3>1. call'[q] = c /\ lock' = lock /\ minted' = minted /\ ledger' = ledger
          /\ versions'[minted] = row
      BY <1>0, <2>1, <2>2, <2>3 DEF StageTo, OnTrack
    <3>2. /\ c.at \in RunStep /\ c.ver = call[t].ver /\ c.ds = call[t].ds /\ c.batch = call[t].batch
          /\ row.dataset = versions[minted].dataset /\ row.schema = call[t].batch.schema
      BY <2>1 DEF StageTo
    <3> QED BY <2>2, <2>3, <3>1, <3>2 DEF OnTrack
  <2>4. CASE q # t
    <3>1. call'[q] = call[q]
      BY <1>0, <2>1, <2>4 DEF StageTo
    <3>2. call[q].at \notin RunStep \cup {"scan"}
      BY <1>0, <2>2, <2>4 DEF OnTrack
    <3> QED BY <3>1, <3>2 DEF OnTrack
  <2> QED BY <2>3, <2>4
<1>3. ASSUME NEW t \in Threads, Promote(t) \/ Reject(t) PROVE OnTrack(q)'
  <2>1. lock = t /\ call' = [call EXCEPT ![t] = NoCall]
    BY <1>3 DEF Promote, Reject, Holds
  <2>2. call'[q].at \notin RunStep \cup {"scan"}
    <3>1. CASE q = t
      BY <1>0, <2>1, <3>1, CallTypes DEF RunStep
    <3>2. CASE q # t
      BY <1>0, <2>1, <3>2 DEF OnTrack
    <3> QED BY <3>1, <3>2
  <2> QED BY <2>2 DEF OnTrack
<1>4. ASSUME NEW t \in Threads, Free(t), call' = call PROVE OnTrack(q)'
  <2>1. call'[q].at \notin RunStep \cup {"scan"}
    BY <1>4, NobodyIn DEF Free
  <2> QED BY <2>1 DEF OnTrack
<1>5. ASSUME NEW t \in Threads, Reset(t) \/ \E d \in Datasets : Rollback(t, d)
      PROVE  OnTrack(q)'
  BY <1>4, <1>5 DEF Reset, Rollback
<1>6. ASSUME NEW t \in Threads, NEW d \in Datasets, SearchAlias(t, d) PROVE OnTrack(q)'
  <2> DEFINE c == [NoCall EXCEPT !.ds = d, !.named = alias[d],
                      !.at = IF alias[d] = NoVersion THEN "answered" ELSE "scan"]
  <2>1. /\ lock = NoThread /\ call' = [call EXCEPT ![t] = c]
        /\ lock' = IF alias[d] = NoVersion THEN NoThread ELSE t
    BY <1>6 DEF SearchAlias, Free
  <2>2. c.at = IF alias[d] = NoVersion THEN "answered" ELSE "scan"
    BY DEF NoCall
  <2> HIDE DEF c
  <2>3. CASE q = t
    BY <1>0, <2>1, <2>2, <2>3 DEF OnTrack, RunStep
  <2>4. CASE q # t
    BY <1>0, <2>1, <2>4, NobodyIn DEF OnTrack
  <2> QED BY <2>3, <2>4
<1>7. ASSUME NEW t \in Threads, SearchScan(t) PROVE OnTrack(q)'
  <2>1. lock = t /\ call'[t].at = "answered" /\ (q # t => call'[q] = call[q])
    BY <1>0, <1>7 DEF SearchScan, Holds, Call
  <2>2. call'[q].at \notin RunStep \cup {"scan"}
    BY <1>0, <2>1 DEF OnTrack, RunStep
  <2> QED BY <2>2 DEF OnTrack
<1>8. ASSUME NEW t \in Threads, Answer(t) PROVE OnTrack(q)'
  <2>1. UNCHANGED <<lock, minted, registry, vectors>>
    BY <1>8 DEF Answer
  <2>2. CASE q = t
    BY <1>0, <1>8, <2>2, CallTypes DEF Answer, OnTrack, RunStep
  <2>3. CASE q # t
    <3>1. call'[q] = call[q]
      BY <1>0, <1>8, <2>3 DEF Answer
    <3> QED BY <1>0, <2>1, <3>1 DEF OnTrack, registry
  <2> QED BY <2>2, <2>3
<1>9. CASE UNCHANGED vars
  BY <1>0, <1>9 DEF vars, registry, OnTrack
<1> QED BY <1>1, <1>2, <1>3, <1>5, <1>6, <1>7, <1>8, <1>9, NextSteps

LEMMA StepRowsInv == TypeInv /\ [Next]_vars => RowsInv'
<1> SUFFICES ASSUME TypeInv, [Next]_vars PROVE RowsInv'
  OBVIOUS
<1>0. /\ versions \in [Versions -> Row] /\ minted \in Nat /\ RowsInv
      /\ ledger \in Seq(LedgerRow) /\ Len(ledger) \in Nat /\ DOMAIN ledger = 1..Len(ledger)
      /\ \A i \in DOMAIN ledger : ledger[i].version \in Versions
      /\ collections \subseteq Versions /\ \A v \in Versions : v \in Nat
  BY Rows DEF TypeInv
\* Nothing is promoted.
<1>1. ASSUME Quiet, minted' \in Nat, minted <= minted',
             \A v \in Versions : versions'[v].status = "promoted" =>
                                   versions[v].status = "promoted"
      PROVE  RowsInv'
  BY <1>0, <1>1 DEF RowsInv, Quiet
<1>2. ASSUME NEW t \in Threads, NEW d \in Datasets, NEW b \in Batch, Ingest(t, d, b)
      PROVE  RowsInv'
  <2>1. minted' = minted + 1
    BY <1>2 DEF Ingest
  <2>2. \A v \in Versions : versions'[v].status = "promoted" => versions[v].status = "promoted"
    BY <1>0, <1>2 DEF Ingest
  <2>3. Quiet
    BY <1>2, QuietSteps
  <2> QED BY <1>0, <1>1, <2>1, <2>2, <2>3
<1>3. ASSUME NEW t \in Threads, Stage(t) PROVE RowsInv'
  <2>1. PICK c \in Call, row \in Row : StageTo(t, c, row)
    BY <1>3, StageSteps
  <2>2. \A v \in Versions : versions'[v].status = "promoted" => versions[v].status = "promoted"
    BY <1>0, <2>1 DEF StageTo, Decision
  <2>3. minted' = minted
    BY <2>1 DEF StageTo
  <2> QED BY <1>0, <1>1, <1>3, <2>2, <2>3, QuietSteps
<1>4. ASSUME NEW r \in LedgerRow, ledger' = Append(ledger, r), minted' = minted,
             r.version <= minted, r.decision # "rejected" => r.to = r.version
      PROVE  /\ DOMAIN ledger' = 1..(Len(ledger) + 1)
             /\ \A i \in DOMAIN ledger : ledger'[i] = ledger[i]
             /\ ledger'[Len(ledger) + 1] = r
             /\ \A i \in DOMAIN ledger' :
                  /\ ledger'[i].version <= minted'
                  /\ ledger'[i].decision # "rejected" => ledger'[i].to = ledger'[i].version
  <2>1. /\ DOMAIN ledger' = 1..(Len(ledger) + 1)
        /\ \A i \in DOMAIN ledger : ledger'[i] = ledger[i]
        /\ ledger'[Len(ledger) + 1] = r
    BY <1>0, <1>4
  <2>2. \A i \in DOMAIN ledger' : i \in DOMAIN ledger \/ i = Len(ledger) + 1
    BY <1>0, <2>1
  <2> QED BY <1>0, <1>4, <2>1, <2>2 DEF RowsInv
<1>5. ASSUME NEW t \in Threads, Promote(t) PROVE RowsInv'
  <2> DEFINE r == [version |-> call[t].ver, decision |-> "promoted",
                   from |-> alias[call[t].ds], to |-> call[t].ver]
  <2>1. Holds(t, "decide") /\ "decide" \in RunStep
    BY <1>5 DEF Promote, RunStep
  <2>2. /\ call[t].ver = minted /\ minted \in Versions /\ call[t].ds \in Datasets
        /\ \A i \in DOMAIN ledger : ledger[i].version # minted
    BY <2>1, InRun
  <2>3. r \in LedgerRow /\ r.version = minted /\ r.decision = "promoted" /\ r.to = r.version
    BY <2>2 DEF LedgerRow, Decision, Target, TypeInv, TypeOK
  <2>4. /\ ledger' = Append(ledger, r) /\ minted' = minted
        /\ versions' = [versions EXCEPT ![minted].status = "promoted"]
        /\ collections' \subseteq collections \cup {minted}
    BY <1>5, <2>2 DEF Promote
  <2> HIDE DEF r
  <2>5. minted <= minted
    BY <1>0
  <2>6. /\ DOMAIN ledger' = 1..(Len(ledger) + 1)
        /\ \A i \in DOMAIN ledger : ledger'[i] = ledger[i]
        /\ ledger'[Len(ledger) + 1] = r
        /\ \A i \in DOMAIN ledger' :
             /\ ledger'[i].version <= minted'
             /\ ledger'[i].decision # "rejected" => ledger'[i].to = ledger'[i].version
    BY <1>4, <2>3, <2>4, <2>5
  <2>7. \A i \in DOMAIN ledger' : i \in DOMAIN ledger \/ i = Len(ledger) + 1
    BY <1>0, <2>6
  <2>8. \A i, k \in DOMAIN ledger' :
          /\ ledger'[i].decision = "promoted" /\ ledger'[k].decision = "promoted"
          /\ ledger'[i].version = ledger'[k].version
          => i = k
    BY <1>0, <2>2, <2>3, <2>6, <2>7 DEF RowsInv
  <2>9. ASSUME NEW v \in Versions, versions'[v].status = "promoted"
        PROVE  \E i \in DOMAIN ledger' : ledger'[i].decision = "promoted" /\ ledger'[i].version = v
    <3>1. CASE v = minted
      BY <1>0, <2>3, <2>6, <3>1
    <3>2. CASE v # minted
      <4>1. versions[v].status = "promoted"
        BY <1>0, <2>2, <2>4, <2>9, <3>2
      <4>2. PICK i \in DOMAIN ledger : ledger[i].decision = "promoted" /\ ledger[i].version = v
        BY <1>0, <4>1 DEF RowsInv
      <4> QED BY <1>0, <2>6, <4>2
    <3> QED BY <3>1, <3>2
  <2>10. \A v \in collections' : v <= minted'
    BY <1>0, <2>4, <2>5 DEF RowsInv
  <2> QED BY <2>6, <2>8, <2>9, <2>10 DEF RowsInv
<1>6. ASSUME NEW r \in LedgerRow, ledger' = Append(ledger, r), minted' = minted,
             r.version <= minted, r.decision # "rejected" => r.to = r.version,
             r.decision # "promoted", collections' = collections,
             \A v \in Versions : versions'[v].status = "promoted" =>
                                   versions[v].status = "promoted"
      PROVE  RowsInv'
  <2>1. /\ DOMAIN ledger' = 1..(Len(ledger) + 1)
        /\ \A i \in DOMAIN ledger : ledger'[i] = ledger[i]
        /\ ledger'[Len(ledger) + 1] = r
        /\ \A i \in DOMAIN ledger' :
             /\ ledger'[i].version <= minted'
             /\ ledger'[i].decision # "rejected" => ledger'[i].to = ledger'[i].version
    BY <1>4, <1>6
  <2>2. \A i \in DOMAIN ledger' : i \in DOMAIN ledger \/ i = Len(ledger) + 1
    BY <1>0, <2>1
  <2>3. \A i, k \in DOMAIN ledger' :
          /\ ledger'[i].decision = "promoted" /\ ledger'[k].decision = "promoted"
          /\ ledger'[i].version = ledger'[k].version
          => i = k
    BY <1>0, <1>6, <2>1, <2>2 DEF RowsInv
  <2>4. ASSUME NEW v \in Versions, versions'[v].status = "promoted"
        PROVE  \E i \in DOMAIN ledger' : ledger'[i].decision = "promoted" /\ ledger'[i].version = v
    <3>1. PICK i \in DOMAIN ledger : ledger[i].decision = "promoted" /\ ledger[i].version = v
      BY <1>0, <1>6, <2>4 DEF RowsInv
    <3> QED BY <1>0, <2>1, <3>1
  <2> QED BY <1>0, <1>6, <2>1, <2>3, <2>4 DEF RowsInv
<1>7. ASSUME NEW t \in Threads, Reject(t) PROVE RowsInv'
  <2> DEFINE r == [version |-> call[t].ver, decision |-> "rejected",
                   from |-> alias[call[t].ds], to |-> NoVersion]
  <2>1. Holds(t, "decide") /\ "decide" \in RunStep
    BY <1>7 DEF Reject, RunStep
  <2>2. call[t].ver = minted /\ minted \in Versions /\ call[t].ds \in Datasets
    BY <2>1, InRun
  <2>3. r \in LedgerRow /\ r.version = minted /\ r.decision = "rejected"
    BY <2>2 DEF LedgerRow, Decision, Target, TypeInv, TypeOK
  <2>4. ledger' = Append(ledger, r) /\ minted' = minted /\ collections' = collections
    BY <1>7 DEF Reject, vectors
  <2>5. \A v \in Versions : versions'[v].status = "promoted" => versions[v].status = "promoted"
    BY <1>0, <1>7, <2>2 DEF Reject
  <2> HIDE DEF r
  <2> QED BY <1>0, <1>6, <2>3, <2>4, <2>5
<1>8. ASSUME NEW t \in Threads, NEW d \in Datasets, Rollback(t, d) PROVE RowsInv'
  <2>1. PICK i \in Candidates(d) :
          ledger' = Append(ledger, [version |-> ledger[i].version, decision |-> "rolled_back",
                                    from |-> alias[d], to |-> ledger[i].version])
    BY <1>8 DEF Rollback
  <2> DEFINE r == [version |-> ledger[i].version, decision |-> "rolled_back",
                   from |-> alias[d], to |-> ledger[i].version]
  <2>2. ledger[i].version \in Versions /\ ledger[i].version <= minted
    BY <1>0 DEF Candidates, History, NewestRows, PromotionRows, RowsInv
  <2>3. r \in LedgerRow /\ r.version <= minted /\ r.to = r.version /\ r.decision = "rolled_back"
    BY <2>2 DEF LedgerRow, Decision, Target, TypeInv, TypeOK
  <2>4. ledger' = Append(ledger, r) /\ minted' = minted /\ collections' = collections
    BY <1>8, <2>1 DEF Rollback
  <2>5. \A v \in Versions : versions'[v].status = "promoted" => versions[v].status = "promoted"
    BY <1>0, <1>8 DEF Rollback
  <2> HIDE DEF r
  <2> QED BY <1>6, <2>3, <2>4, <2>5
<1>9. ASSUME NEW t \in Threads, Reset(t) PROVE RowsInv'
  BY <1>9 DEF Reset, Cleared, NoRow, RowsInv
<1>10. ASSUME NEW t \in Threads,
              \/ UNCHANGED vars \/ SearchScan(t) \/ Answer(t)
              \/ \E d \in Datasets : SearchAlias(t, d)
       PROVE  RowsInv'
  <2>1. UNCHANGED <<minted, registry, vectors>>
    BY <1>10 DEF vars, SearchAlias, SearchScan, Answer
  <2> QED BY <1>0, <2>1 DEF registry, vectors, RowsInv
<1>11. CASE UNCHANGED vars
  BY <1>0, <1>11 DEF vars, registry, vectors, RowsInv
<1> QED BY <1>2, <1>3, <1>5, <1>7, <1>8, <1>9, <1>10, <1>11, NextSteps

LEMMA StepTypeInv == TypeInv /\ [Next]_vars => TypeInv'
BY StepTypeOK, StepOnTrack, StepRowsInv DEF TypeInv

-----------------------------------------------------------------------------
(* Rows and history. *)

\* The positions of P that a history of the HistoryLimit newest shows.
Recent(P) == {i \in P : Cardinality({k \in P : k > i}) < HistoryLimit}

\* A version is promoted once, so the history is made of promotion rows.
LEMMA RowSets ==
    ASSUME TypeInv, NEW d \in Datasets
    PROVE  /\ NewestRows(d) = PromotionRows(d)
           /\ History(d) = Recent(PromotionRows(d))
           /\ History(d) \subseteq PromotionRows(d)
           /\ PromotionRows(d) \subseteq SwitchRows(d) /\ SwitchRows(d) \subseteq DOMAIN ledger
           /\ IsFiniteSet(PromotionRows(d))
           /\ PromotionRows(d) \subseteq Nat /\ SwitchRows(d) \subseteq Nat
           /\ \A i, k \in PromotionRows(d) : ledger[i].version = ledger[k].version => i = k
           /\ \A i \in PromotionRows(d) :
                /\ ledger[i].version \in Versions /\ ledger[i].to = ledger[i].version
                /\ versions[ledger[i].version].dataset = d
<1>1. PromotionRows(d) \subseteq SwitchRows(d) /\ SwitchRows(d) \subseteq DOMAIN ledger
  BY DEF PromotionRows, SwitchRows
<1>2. /\ \A i, k \in PromotionRows(d) : ledger[i].version = ledger[k].version => i = k
      /\ \A i \in PromotionRows(d) :
                /\ ledger[i].version \in Versions /\ ledger[i].to = ledger[i].version
                /\ versions[ledger[i].version].dataset = d
  BY Rows DEF TypeInv, RowsInv, PromotionRows
<1>3. SwitchRows(d) \subseteq Nat /\ PromotionRows(d) \subseteq Nat
  BY <1>1, Rows
<1>4. NewestRows(d) = PromotionRows(d)
  <2>1. \A i \in PromotionRows(d) : i <= i
    BY <1>3
  <2> QED BY <1>2, <2>1 DEF NewestRows
<1>5. History(d) = Recent(PromotionRows(d)) /\ History(d) \subseteq PromotionRows(d)
  BY <1>4 DEF History, Recent
<1>6. IsFiniteSet(PromotionRows(d))
  <2>1. IsFiniteSet(1..Len(ledger))
    BY Rows, FS_Interval
  <2>2. PromotionRows(d) \subseteq 1..Len(ledger)
    BY <1>1, Rows
  <2> QED BY <2>1, <2>2, FS_Subset
<1> QED BY <1>1, <1>2, <1>3, <1>4, <1>5, <1>6

\* The same in the next state.
LEMMA RowSetsNext ==
    ASSUME TypeInv', NEW d \in Datasets
    PROVE  /\ NewestRows(d)' = PromotionRows(d)'
           /\ History(d)' = Recent(PromotionRows(d)')
<1>1. \A i, k \in PromotionRows(d)' : ledger'[i].version = ledger'[k].version => i = k
  BY DEF TypeInv, RowsInv, PromotionRows
<1>2. ledger' \in Seq(LedgerRow)
  BY DEF TypeInv, TypeOK
<1>3. DOMAIN ledger' \subseteq Nat
  BY <1>2
<1>4. \A i \in PromotionRows(d)' : i <= i
  BY <1>3 DEF PromotionRows
<1>5. NewestRows(d)' = PromotionRows(d)'
  BY <1>1, <1>4 DEF NewestRows
<1> DEFINE P == PromotionRows(d)'
<1>6. NewestRows(d)' = P
  BY <1>5
<1>7. History(d)' = {i \in NewestRows(d)' : Cardinality({k \in NewestRows(d)' : k > i}) < HistoryLimit}
  BY DEF History
<1> HIDE DEF P
<1>8. History(d)' = Recent(P)
  BY <1>6, <1>7 DEF Recent
<1> QED BY <1>6, <1>8 DEF P

\* The newest rows are in the history, and what is newer than a row of it.
LEMMA InHistory ==
    ASSUME NEW P \in SUBSET Nat, IsFiniteSet(P), NEW i \in P
    PROVE  /\ (\A k \in P : k <= i) => i \in Recent(P)
           /\ \A k \in Recent(P) : k < i => i \in Recent(P)
<1> DEFINE Above(k) == {j \in P : j > k}
<1>0. i \in Nat /\ \A j \in P : j \in Nat
  OBVIOUS
<1>1. ASSUME \A k \in P : k <= i PROVE i \in Recent(P)
  <2>1. \A j \in P : ~(j > i)
    BY <1>0, <1>1
  <2>2. Above(i) = {}
    BY <2>1
  <2>3. Cardinality(Above(i)) = 0
    BY <2>2, FS_EmptySet
  <2>4. HistoryLimit > 0
    BY BoundsAssumption
  <2> QED BY <2>3, <2>4 DEF Recent
<1>2. ASSUME NEW k \in Recent(P), k < i PROVE i \in Recent(P)
  <2>1. k \in P /\ Cardinality(Above(k)) < HistoryLimit
    BY DEF Recent
  <2>2. \A j \in P : j > i => j > k
    BY <1>0, <1>2, <2>1
  <2>3. Above(i) \subseteq Above(k) /\ Above(k) \subseteq P
    BY <2>2
  <2> DEFINE A == Above(i)
             B == Above(k)
  <2>4. A \subseteq B /\ B \subseteq P /\ Cardinality(B) < HistoryLimit
    BY <2>1, <2>3
  <2> HIDE DEF A, B
  <2>5. IsFiniteSet(B)
    BY <2>4, FS_Subset
  <2>6. /\ Cardinality(A) <= Cardinality(B) /\ IsFiniteSet(A)
    BY <2>4, <2>5, FS_Subset
  <2>7. Cardinality(A) \in Nat /\ Cardinality(B) \in Nat
    BY <2>5, <2>6, FS_CardinalityType
  <2>8. Cardinality(A) < HistoryLimit
    BY <2>4, <2>6, <2>7, BoundsAssumption
  <2> QED BY <2>8 DEF A, Recent
<1> QED BY <1>1, <1>2

\* Steps that leave the rows and what they are about.
LEMMA QuietRows ==
    ASSUME TypeInv, TypeInv', ledger' = ledger, NEW d \in Datasets,
           \A i \in DOMAIN ledger :
              versions'[ledger[i].version].dataset = versions[ledger[i].version].dataset
    PROVE  /\ PromotionRows(d)' = PromotionRows(d) /\ SwitchRows(d)' = SwitchRows(d)
           /\ NewestRows(d)' = NewestRows(d) /\ History(d)' = History(d)
<1>1. PromotionRows(d)' = PromotionRows(d) /\ SwitchRows(d)' = SwitchRows(d)
  BY DEF PromotionRows, SwitchRows
<1> QED BY <1>1, RowSets, RowSetsNext

\* Steps that write one row.
LEMMA RowWritten ==
    ASSUME TypeInv, TypeInv', NEW r \in LedgerRow, ledger' = Append(ledger, r),
           \A v \in Versions : versions'[v].dataset = versions[v].dataset
    PROVE  /\ Len(ledger) \in Nat /\ Len(ledger) + 1 \in DOMAIN ledger'
           /\ \A i \in DOMAIN ledger :
                i \in DOMAIN ledger' /\ ledger'[i] = ledger[i] /\ i < Len(ledger) + 1
           /\ ledger'[Len(ledger) + 1] = r
           /\ \A d \in Datasets :
                /\ r.decision = "promoted" /\ versions[r.version].dataset = d =>
                     PromotionRows(d)' = PromotionRows(d) \cup {Len(ledger) + 1}
                /\ r.decision # "promoted" \/ versions[r.version].dataset # d =>
                     PromotionRows(d)' = PromotionRows(d)
                /\ r.decision # "rejected" /\ versions[r.version].dataset = d =>
                     SwitchRows(d)' = SwitchRows(d) \cup {Len(ledger) + 1}
                /\ r.decision = "rejected" \/ versions[r.version].dataset # d =>
                     SwitchRows(d)' = SwitchRows(d)
<1> DEFINE n == Len(ledger) + 1
<1>1. /\ Len(ledger) \in Nat /\ DOMAIN ledger = 1..Len(ledger)
      /\ \A i \in DOMAIN ledger : ledger[i].version \in Versions
      /\ r.version \in Versions
  BY Rows DEF LedgerRow
<1>2. /\ DOMAIN ledger' = 1..n /\ ledger'[n] = r
      /\ \A i \in DOMAIN ledger : ledger'[i] = ledger[i]
  BY Rows
<1>3. /\ DOMAIN ledger' = DOMAIN ledger \cup {n} /\ n \notin DOMAIN ledger
      /\ \A i \in DOMAIN ledger : i < n
  BY <1>1, <1>2
<1> HIDE DEF n
<1>4. ASSUME NEW d \in Datasets
      PROVE  /\ r.decision = "promoted" /\ versions[r.version].dataset = d =>
                  PromotionRows(d)' = PromotionRows(d) \cup {n}
             /\ r.decision # "promoted" \/ versions[r.version].dataset # d =>
                  PromotionRows(d)' = PromotionRows(d)
             /\ r.decision # "rejected" /\ versions[r.version].dataset = d =>
                  SwitchRows(d)' = SwitchRows(d) \cup {n}
             /\ r.decision = "rejected" \/ versions[r.version].dataset # d =>
                  SwitchRows(d)' = SwitchRows(d)
  BY <1>1, <1>2, <1>3 DEF PromotionRows, SwitchRows
<1> QED BY <1>1, <1>2, <1>3, <1>4 DEF n

-----------------------------------------------------------------------------
(* What the steps come to for the rows. *)

\* Nothing about rows, production or collections changes.
Settled ==
    /\ UNCHANGED <<alias, collections>>
    /\ \A d \in Datasets : /\ PromotionRows(d)' = PromotionRows(d)
                           /\ SwitchRows(d)' = SwitchRows(d)
    /\ \A i \in DOMAIN ledger :
         /\ ledger'[i] = ledger[i]
         /\ versions'[ledger[i].version] = versions[ledger[i].version]
    /\ \A v \in Versions : v <= minted => versions'[v].dataset = versions[v].dataset

LEMMA QuietSettled ==
    ASSUME TypeInv, TypeInv', Quiet
    PROVE  Settled
BY QuietRows DEF Quiet, Settled

LEMMA RejectSettled ==
    ASSUME TypeInv, TypeInv', NEW t \in Threads, Reject(t)
    PROVE  Settled
<1> DEFINE r == [version |-> call[t].ver, decision |-> "rejected",
                 from |-> alias[call[t].ds], to |-> NoVersion]
<1>1. Holds(t, "decide") /\ "decide" \in RunStep
  BY DEF Reject, RunStep
<1>2. /\ call[t].ver = minted /\ minted \in Versions /\ call[t].ds \in Datasets
      /\ \A i \in DOMAIN ledger : ledger[i].version # minted
  BY <1>1, InRun
<1>3. r \in LedgerRow /\ r.decision = "rejected"
  BY <1>2 DEF LedgerRow, Decision, Target, TypeInv, TypeOK
<1>4. /\ ledger' = Append(ledger, r) /\ UNCHANGED <<alias, collections>>
      /\ versions' = [versions EXCEPT ![minted].status = "rejected"]
  BY <1>2 DEF Reject, vectors
<1>5. \A v \in Versions : /\ versions'[v].dataset = versions[v].dataset
                          /\ v # minted => versions'[v] = versions[v]
  BY <1>4, Rows DEF Row
<1> HIDE DEF r
<1>6. \A d \in Datasets : /\ PromotionRows(d)' = PromotionRows(d)
                          /\ SwitchRows(d)' = SwitchRows(d)
  BY <1>3, <1>4, <1>5, RowWritten
<1>7. \A i \in DOMAIN ledger : ledger'[i] = ledger[i]
  BY <1>3, <1>4, <1>5, RowWritten
<1> QED BY <1>2, <1>4, <1>5, <1>6, <1>7, Rows DEF Settled

\* Dataset d is promoted to v, which no row mentioned, by row n.
Promoted(d, v, n) ==
    /\ \A i \in DOMAIN ledger : ledger[i].version # v /\ ledger'[i] = ledger[i] /\ i < n
    /\ versions[v].dataset = d
    /\ ledger'[n].version = v /\ ledger'[n].to = v /\ ledger'[n].from = alias[d]
    /\ PromotionRows(d)' = PromotionRows(d) \cup {n}
    /\ SwitchRows(d)' = SwitchRows(d) \cup {n}
    /\ \A e \in Datasets \ {d} : /\ PromotionRows(e)' = PromotionRows(e)
                                 /\ SwitchRows(e)' = SwitchRows(e)
    /\ alias' = [alias EXCEPT ![d] = v]
    /\ versions'[v].status = "promoted"
    /\ \A w \in Versions : /\ versions'[w].dataset = versions[w].dataset
                           /\ versions'[w].schema = versions[w].schema
                           /\ w # v => versions'[w] = versions[w]
    /\ v \in collections' /\ collections' \subseteq collections \cup {v}
    /\ \A w \in collections :
         versions[w].dataset # d \/ (w = alias[d] /\ w # NoVersion) => w \in collections'

LEMMA PromoteSteps ==
    ASSUME TypeInv, TypeInv', NEW t \in Threads, Promote(t)
    PROVE  \E d \in Datasets, v \in Versions, n \in Nat :
              v = minted /\ d = call[t].ds /\ Promoted(d, v, n)
<1>0. PICK d \in Datasets : d = call[t].ds
  <2>1. Holds(t, "decide") /\ "decide" \in RunStep
    BY DEF Promote, RunStep
  <2> QED BY <2>1, InRun
<1> DEFINE n == Len(ledger) + 1
           r == [version |-> minted, decision |-> "promoted", from |-> alias[d], to |-> minted]
<1>1. Holds(t, "decide") /\ "decide" \in RunStep
  BY DEF Promote, RunStep
<1>2. /\ call[t].ver = minted /\ minted \in Versions /\ versions[minted].dataset = d
      /\ \A i \in DOMAIN ledger : ledger[i].version # minted
  BY <1>0, <1>1, InRun
<1>3. r \in LedgerRow /\ r.version = minted /\ r.decision = "promoted" /\ r.to = minted
      /\ r.from = alias[d]
  BY <1>2 DEF LedgerRow, Decision, Target, TypeInv, TypeOK
<1>4. /\ ledger' = Append(ledger, r)
      /\ alias' = [alias EXCEPT ![d] = minted]
      /\ versions' = [versions EXCEPT ![minted].status = "promoted"]
  BY <1>0, <1>2 DEF Promote
<1>5. PICK gone \in Expired(d, minted, alias[d], collections \cup {minted}) :
        collections' = (collections \cup {minted}) \ gone
  BY <1>0, <1>2 DEF Promote
<1>6. \A w \in gone : w # minted /\ versions[w].dataset = d /\ (w = alias[d] => w = NoVersion)
  <2> DEFINE keep == {minted, alias[d]} \ {NoVersion}
             candidates == {w \in collections \cup {minted} : versions[w].dataset = d} \ keep
  <2>1. gone \subseteq candidates
    BY <1>5 DEF Expired
  <2>2. minted # NoVersion
    BY <1>2, CallTypes
  <2> QED BY <2>1, <2>2
<1>7. \A w \in Versions : /\ versions'[w].dataset = versions[w].dataset
                          /\ versions'[w].schema = versions[w].schema
                          /\ w # minted => versions'[w] = versions[w]
  BY <1>4, Rows DEF Row
<1>8. versions'[minted].status = "promoted"
  BY <1>2, <1>4, Rows DEF Row
<1> HIDE DEF r
<1>9. /\ n \in Nat
      /\ \A i \in DOMAIN ledger : ledger'[i] = ledger[i] /\ i < n
      /\ ledger'[n] = r
      /\ \A e \in Datasets :
           /\ r.decision = "promoted" /\ versions[r.version].dataset = e =>
                PromotionRows(e)' = PromotionRows(e) \cup {n}
           /\ r.decision # "promoted" \/ versions[r.version].dataset # e =>
                PromotionRows(e)' = PromotionRows(e)
           /\ r.decision # "rejected" /\ versions[r.version].dataset = e =>
                SwitchRows(e)' = SwitchRows(e) \cup {n}
           /\ r.decision = "rejected" \/ versions[r.version].dataset # e =>
                SwitchRows(e)' = SwitchRows(e)
  BY <1>3, <1>4, <1>7, RowWritten
<1> HIDE DEF n
<1>10. /\ PromotionRows(d)' = PromotionRows(d) \cup {n} /\ SwitchRows(d)' = SwitchRows(d) \cup {n}
       /\ \A e \in Datasets \ {d} : /\ PromotionRows(e)' = PromotionRows(e)
                                    /\ SwitchRows(e)' = SwitchRows(e)
  <2>1. versions[r.version].dataset = d /\ r.decision = "promoted" /\ d \in Datasets
    BY <1>2, <1>3
  <2>2. PromotionRows(d)' = PromotionRows(d) \cup {n} /\ SwitchRows(d)' = SwitchRows(d) \cup {n}
    BY <1>9, <2>1
  <2>3. ASSUME NEW e \in Datasets \ {d}
        PROVE  PromotionRows(e)' = PromotionRows(e) /\ SwitchRows(e)' = SwitchRows(e)
    BY <1>9, <2>1
  <2> QED BY <2>2, <2>3
<1>11. /\ minted \in collections' /\ collections' \subseteq collections \cup {minted}
       /\ \A w \in collections :
            versions[w].dataset # d \/ (w = alias[d] /\ w # NoVersion) => w \in collections'
  BY <1>5, <1>6
<1>12. PICK v \in Versions : v = minted
  BY <1>2
<1>13. Promoted(d, v, n)
  BY <1>2, <1>3, <1>4, <1>7, <1>8, <1>9, <1>10, <1>11, <1>12 DEF Promoted
<1> QED BY <1>0, <1>9, <1>12, <1>13

\* Dataset d, served by the version of row k, is rolled back to that of row i by row n.
RolledBack(d, i, k, n) ==
    /\ i \in Candidates(d) /\ \A j \in Candidates(d) : j <= i
    /\ i \in History(d) /\ k \in History(d) /\ i < k
    /\ ledger[k].version = alias[d] /\ ledger[i].version \in collections
    /\ \A j \in DOMAIN ledger : ledger'[j] = ledger[j] /\ j < n
    /\ ledger'[n].to = ledger[i].version
    /\ \A e \in Datasets : /\ PromotionRows(e)' = PromotionRows(e)
                           /\ e # d => SwitchRows(e)' = SwitchRows(e)
    /\ SwitchRows(d)' = SwitchRows(d) \cup {n}
    /\ alias' = [alias EXCEPT ![d] = ledger[i].version]
    /\ collections' = collections
    /\ \A w \in Versions : /\ versions'[w].dataset = versions[w].dataset
                           /\ versions'[w].schema = versions[w].schema
                           /\ w # alias[d] => versions'[w] = versions[w]
                           /\ w = alias[d] => versions'[w].status = "rolled_back"

LEMMA RollbackSteps ==
    ASSUME TypeInv, TypeInv', ServingInv, NEW t \in Threads, NEW d \in Datasets, Rollback(t, d)
    PROVE  \E i, k, n \in Nat : RolledBack(d, i, k, n)
<1> DEFINE n == Len(ledger) + 1
<1>1. PICK i \in Candidates(d) :
        /\ \A j \in Candidates(d) : j <= i
        /\ alias' = [alias EXCEPT ![d] = ledger[i].version]
        /\ ledger' = Append(ledger, [version |-> ledger[i].version, decision |-> "rolled_back",
                                     from |-> alias[d], to |-> ledger[i].version])
  BY DEF Rollback
<1>2. /\ i \in History(d) /\ ledger[i].version # alias[d] /\ ledger[i].version \in collections
      /\ \A k \in History(d) : ledger[k].version = alias[d] => i < k
  BY <1>1 DEF Candidates
<1>3. i \in PromotionRows(d) /\ i \in Nat
  BY <1>2, RowSets
<1>4. alias[d] # NoVersion
  BY <1>3 DEF ServingInv
<1>5. PICK k \in History(d) : ledger[k].version = alias[d]
  BY <1>4 DEF ServingInv
<1>6. k \in Nat /\ i < k
  BY <1>2, <1>5, RowSets
<1> DEFINE r == [version |-> ledger[i].version, decision |-> "rolled_back",
                 from |-> alias[d], to |-> ledger[i].version]
<1>7. ledger[i].version \in Versions /\ versions[ledger[i].version].dataset = d
  BY <1>3, RowSets
<1>8. r \in LedgerRow /\ r.version = ledger[i].version /\ r.decision = "rolled_back"
      /\ r.to = ledger[i].version
  BY <1>7 DEF LedgerRow, Decision, Target, TypeInv, TypeOK
<1>9. ledger' = Append(ledger, r) /\ collections' = collections
  BY <1>1 DEF Rollback
<1>10. \A w \in Versions : /\ versions'[w].dataset = versions[w].dataset
                           /\ versions'[w].schema = versions[w].schema
                           /\ w # alias[d] => versions'[w] = versions[w]
                           /\ w = alias[d] => versions'[w].status = "rolled_back"
  BY Rows DEF Rollback, Row
<1> HIDE DEF r
<1>11. /\ n \in Nat
       /\ \A j \in DOMAIN ledger : ledger'[j] = ledger[j] /\ j < n
       /\ ledger'[n] = r
       /\ \A e \in Datasets :
            /\ r.decision = "promoted" /\ versions[r.version].dataset = e =>
                 PromotionRows(e)' = PromotionRows(e) \cup {n}
            /\ r.decision # "promoted" \/ versions[r.version].dataset # e =>
                 PromotionRows(e)' = PromotionRows(e)
            /\ r.decision # "rejected" /\ versions[r.version].dataset = e =>
                 SwitchRows(e)' = SwitchRows(e) \cup {n}
            /\ r.decision = "rejected" \/ versions[r.version].dataset # e =>
                 SwitchRows(e)' = SwitchRows(e)
  <2>1. \A w \in Versions : versions'[w].dataset = versions[w].dataset
    BY <1>10
  <2> QED BY <1>8, <1>9, <2>1, RowWritten
<1> HIDE DEF n
<1>12. /\ SwitchRows(d)' = SwitchRows(d) \cup {n}
       /\ \A e \in Datasets : /\ PromotionRows(e)' = PromotionRows(e)
                              /\ e # d => SwitchRows(e)' = SwitchRows(e)
  BY <1>7, <1>8, <1>11
<1>13. RolledBack(d, i, k, n)
  BY <1>1, <1>2, <1>5, <1>6, <1>8, <1>9, <1>10, <1>11, <1>12 DEF RolledBack
<1> QED BY <1>3, <1>6, <1>11, <1>13

-----------------------------------------------------------------------------
(* Rows and production, step by step. *)

LEMMA SettledKeeps ==
    ASSUME TypeInv, TypeInv', RowsAgree, Settled
    PROVE  RowsAgree'
<1>0. /\ ServingInv /\ OneSchemaPromoted /\ FirstsKept
      /\ AheadWereRolledBack /\ PreviousKept /\ LedgerTellsServing
  BY DEF RowsAgree
<1>1. alias' = alias /\ collections' = collections
  BY DEF Settled
<1>2. ASSUME NEW d \in Datasets
      PROVE  /\ PromotionRows(d)' = PromotionRows(d) /\ SwitchRows(d)' = SwitchRows(d)
             /\ NewestRows(d)' = NewestRows(d) /\ History(d)' = History(d)
             /\ PromotionRows(d) \subseteq SwitchRows(d) /\ NewestRows(d) = PromotionRows(d)
             /\ History(d) \subseteq PromotionRows(d)
             /\ \A i \in SwitchRows(d) :
                  /\ ledger'[i] = ledger[i]
                  /\ versions'[ledger[i].version] = versions[ledger[i].version]
  BY RowSets, RowSetsNext DEF Settled
<1>3. ServingInv'
  BY <1>0, <1>1, <1>2 DEF ServingInv
<1>4. OneSchemaPromoted'
  BY <1>0, <1>2 DEF OneSchemaPromoted
<1>5. FirstsKept'
  BY <1>0, <1>2 DEF FirstsKept, FirstKept
<1>6. AheadWereRolledBack'
  BY <1>0, <1>1, <1>2 DEF AheadWereRolledBack
<1>7. PreviousKept'
  <2>1. \A v \in collections : versions'[v].dataset = versions[v].dataset
    BY Rows DEF Settled, TypeInv, RowsInv
  <2> QED BY <1>0, <1>1, <1>2, <2>1 DEF PreviousKept
<1>8. LedgerTellsServing'
  BY <1>0, <1>1, <1>2 DEF LedgerTellsServing
<1> QED BY <1>3, <1>4, <1>5, <1>6, <1>7, <1>8 DEF RowsAgree

LEMMA ResetKeeps ==
    ASSUME TypeInv', NEW t \in Threads, Reset(t)
    PROVE  RowsAgree'
<1>1. ledger' = <<>> /\ alias' = [d \in Datasets |-> NoVersion]
  BY DEF Reset, Cleared
<1>2. \A d \in Datasets : /\ PromotionRows(d)' = {} /\ SwitchRows(d)' = {}
                          /\ NewestRows(d)' = {} /\ alias'[d] = NoVersion
  BY <1>1 DEF PromotionRows, SwitchRows, NewestRows
<1>3. ServingInv' /\ OneSchemaPromoted' /\ FirstsKept'
  BY <1>2 DEF ServingInv, OneSchemaPromoted, FirstsKept
<1>4. AheadWereRolledBack' /\ PreviousKept' /\ LedgerTellsServing'
  BY <1>2 DEF AheadWereRolledBack, PreviousKept, LedgerTellsServing
<1> QED BY <1>3, <1>4 DEF RowsAgree

LEMMA PromoteKeeps ==
    ASSUME TypeInv, TypeInv', RowsAgree,
           NEW d \in Datasets, NEW v \in Versions, NEW n \in Nat, Promoted(d, v, n),
           \A i \in PromotionRows(d) :
              versions[ledger[i].version].schema = versions[v].schema
    PROVE  RowsAgree'
<1>0. /\ ServingInv /\ OneSchemaPromoted /\ FirstsKept
      /\ AheadWereRolledBack /\ PreviousKept /\ LedgerTellsServing
  BY DEF RowsAgree
<1>1. /\ PromotionRows(d)' = PromotionRows(d) \cup {n}
      /\ SwitchRows(d)' = SwitchRows(d) \cup {n}
      /\ alias \in [Datasets -> Target] /\ alias' = [alias EXCEPT ![d] = v]
      /\ alias'[d] = v /\ \A e \in Datasets \ {d} : alias'[e] = alias[e]
      /\ ledger'[n].version = v /\ ledger'[n].to = v /\ ledger'[n].from = alias[d]
      /\ versions'[v].status = "promoted" /\ v # NoVersion /\ versions[v].dataset = d
      /\ v \in collections'
  BY Rows, CallTypes DEF Promoted
<1>2. \A e \in Datasets : \A i \in SwitchRows(e) :
        /\ i \in Nat /\ i < n /\ ledger'[i] = ledger[i] /\ ledger[i].version \in Versions
        /\ ledger[i].version # v
        /\ versions'[ledger[i].version] = versions[ledger[i].version]
  <2>1. \A i \in DOMAIN ledger : /\ ledger[i].version # v /\ ledger'[i] = ledger[i] /\ i < n
                                 /\ versions'[ledger[i].version] = versions[ledger[i].version]
    BY Rows DEF Promoted
  <2> QED BY <2>1, RowSets, Rows
<1>3. ASSUME NEW e \in Datasets
      PROVE  /\ NewestRows(e)' = PromotionRows(e)' /\ History(e)' = Recent(PromotionRows(e)')
             /\ NewestRows(e) = PromotionRows(e) /\ History(e) = Recent(PromotionRows(e))
             /\ PromotionRows(e) \subseteq SwitchRows(e) /\ History(e) \subseteq PromotionRows(e)
             /\ IsFiniteSet(PromotionRows(e)) /\ PromotionRows(e) \subseteq Nat
             /\ \A i \in PromotionRows(e) : versions[ledger[i].version].dataset = e
             /\ e # d => PromotionRows(e)' = PromotionRows(e) /\ SwitchRows(e)' = SwitchRows(e)
  BY RowSets, RowSetsNext DEF Promoted
<1>4. \A w \in Versions : versions'[w].dataset = versions[w].dataset
                          /\ versions'[w].schema = versions[w].schema
  BY DEF Promoted
<1>5. \A w \in collections : /\ w \in Versions
                             /\ versions[w].dataset # d => w \in collections'
                             /\ w = alias[d] => w \in collections'
  BY Rows, CallTypes DEF Promoted
<1>6. ASSUME NEW e \in Datasets \ {d}, alias[e] # NoVersion
      PROVE  /\ alias[e] \in collections'
             /\ \E k \in History(e)' : ledger'[k].version = alias[e]
  <2>1. PICK k \in History(e) : ledger[k].version = alias[e]
    BY <1>0, <1>6 DEF ServingInv
  <2>2. k \in SwitchRows(e) /\ versions[alias[e]].dataset = e /\ alias[e] \in collections
    BY <1>0, <1>3, <1>6, <2>1 DEF ServingInv
  <2>3. History(e)' = History(e)
    BY <1>3
  <2> QED BY <1>2, <1>5, <2>1, <2>2, <2>3
<1>7. alias[d] # NoVersion => /\ alias[d] \in collections' /\ alias[d] # v
                              /\ versions'[alias[d]].dataset = d
  <2> SUFFICES ASSUME alias[d] # NoVersion
               PROVE  /\ alias[d] \in collections' /\ alias[d] # v
                      /\ versions'[alias[d]].dataset = d
    OBVIOUS
  <2>1. PICK k \in History(d) : ledger[k].version = alias[d]
    BY <1>0 DEF ServingInv
  <2>2. k \in SwitchRows(d) /\ versions[alias[d]].dataset = d /\ alias[d] \in collections
    BY <1>0, <1>3, <2>1 DEF ServingInv
  <2> QED BY <1>2, <1>4, <1>5, <2>1, <2>2
<1>8. ServingInv'
  <2>1. n \in History(d)'
    <3> DEFINE P == PromotionRows(d) \cup {n}
    <3>1. P \in SUBSET Nat /\ IsFiniteSet(P) /\ n \in P
      BY <1>3, FS_AddElement
    <3>2. \A k \in P : k <= n
      BY <1>2, <1>3
    <3> HIDE DEF P
    <3>3. n \in Recent(P)
      BY <3>1, <3>2, InHistory
    <3> DEFINE Q == PromotionRows(d)'
    <3>4. Q = P /\ History(d)' = Recent(Q)
      BY <1>1, <1>3 DEF P
    <3> HIDE DEF Q
    <3> QED BY <3>3, <3>4
  <2>2. ASSUME NEW e \in Datasets
        PROVE  /\ alias'[e] = NoVersion => PromotionRows(e)' = {}
               /\ alias'[e] # NoVersion =>
                    /\ alias'[e] \in collections'
                    /\ \E k \in History(e)' : ledger'[k].version = alias'[e]
    <3>1. CASE e = d
      BY <1>1, <2>1, <3>1
    <3>2. CASE e # d
      <4>1. alias'[e] = alias[e] /\ PromotionRows(e)' = PromotionRows(e)
        BY <1>1, <1>3, <3>2
      <4>2. alias[e] = NoVersion => PromotionRows(e) = {}
        BY <1>0 DEF ServingInv
      <4> QED BY <1>6, <3>2, <4>1, <4>2
    <3> QED BY <3>1, <3>2
  <2> QED BY <2>2 DEF ServingInv
<1>9. OneSchemaPromoted'
  <2>1. ASSUME NEW e \in Datasets, NEW i \in PromotionRows(e)', NEW k \in PromotionRows(e)'
        PROVE  versions'[ledger'[i].version].schema = versions'[ledger'[k].version].schema
    <3>1. \A j \in PromotionRows(e) : versions'[ledger'[j].version].schema
                                        = versions[ledger[j].version].schema
      BY <1>2, <1>3
    <3>2. \A j, m \in PromotionRows(e) : versions[ledger[j].version].schema
                                           = versions[ledger[m].version].schema
      BY <1>0 DEF OneSchemaPromoted
    <3>3. CASE e = d
      <4>1. versions'[ledger'[n].version].schema = versions[v].schema
        BY <1>1, <1>4
      <4> QED BY <1>1, <3>1, <3>3, <4>1
    <3>4. CASE e # d
      BY <1>3, <3>1, <3>2, <3>4
    <3> QED BY <3>3, <3>4
  <2> QED BY <2>1 DEF OneSchemaPromoted
<1>10. FirstsKept'
  <2>1. ASSUME NEW e \in Datasets, PromotionRows(e)' # {}
        PROVE  \E i \in PromotionRows(e)' :
                  /\ \A k \in PromotionRows(e)' : i <= k
                  /\ versions'[ledger'[i].version].status = "promoted"
    <3>1. CASE PromotionRows(e) # {}
      <4>1. PICK i \in PromotionRows(e) :
              /\ \A k \in PromotionRows(e) : i <= k
              /\ versions[ledger[i].version].status = "promoted"
        BY <1>0, <3>1 DEF FirstsKept, FirstKept
      <4>2. i < n /\ i \in Nat /\ versions'[ledger'[i].version].status = "promoted"
        BY <1>2, <1>3, <4>1
      <4>3. PromotionRows(e)' \subseteq PromotionRows(e) \cup {n} /\ i \in PromotionRows(e)'
        BY <1>1, <1>3
      <4> QED BY <4>1, <4>2, <4>3
    <3>2. CASE PromotionRows(e) = {}
      <4>1. e = d /\ PromotionRows(e)' = {n}
        BY <1>1, <1>3, <2>1, <3>2
      <4> QED BY <1>1, <4>1
    <3> QED BY <3>1, <3>2
  <2> QED BY <2>1 DEF FirstsKept, FirstKept
<1>11. AheadWereRolledBack'
  <2>1. ASSUME NEW e \in Datasets, NEW i \in PromotionRows(e)', NEW k \in PromotionRows(e)',
               ledger'[i].version = alias'[e], i < k, ledger'[k].version \in collections'
        PROVE  versions'[ledger'[k].version].status = "rolled_back"
    <3>1. CASE e = d
      <4>1. i = n
        BY <1>1, <1>2, <1>3, <2>1, <3>1
      <4> QED BY <1>1, <1>2, <1>3, <2>1, <3>1, <4>1
    <3>2. CASE e # d
      <4>1. i \in PromotionRows(e) /\ k \in PromotionRows(e)
        BY <1>3, <3>2
      <4>2. /\ ledger'[i] = ledger[i] /\ ledger'[k] = ledger[k] /\ alias'[e] = alias[e]
            /\ ledger[k].version # v
            /\ versions'[ledger[k].version] = versions[ledger[k].version]
        BY <1>1, <1>2, <1>3, <3>2, <4>1
      <4>3. ledger[k].version \in collections
        BY <2>1, <4>2 DEF Promoted
      <4> QED BY <1>0, <1>3, <2>1, <4>1, <4>2, <4>3 DEF AheadWereRolledBack
    <3> QED BY <3>1, <3>2
  <2> QED BY <1>3, <2>1 DEF AheadWereRolledBack
<1>12. PreviousKept'
  <2>1. ASSUME NEW e \in Datasets, NEW i \in PromotionRows(e)',
               \A k \in SwitchRows(e)' : k <= i
        PROVE  /\ ledger'[i].from # ledger'[i].version
               /\ ledger'[i].from # NoVersion => /\ ledger'[i].from \in collections'
                                                 /\ versions'[ledger'[i].from].dataset = e
    <3>1. CASE e = d
      <4>1. i = n
        BY <1>1, <1>2, <1>3, <2>1, <3>1
      <4> QED BY <1>1, <1>7, <3>1, <4>1
    <3>2. CASE e # d
      <4>1. i \in PromotionRows(e) /\ ledger'[i] = ledger[i] /\ \A k \in SwitchRows(e) : k <= i
        BY <1>2, <1>3, <2>1, <3>2
      <4>2. /\ ledger[i].from # ledger[i].version
            /\ ledger[i].from # NoVersion => /\ ledger[i].from \in collections
                                             /\ versions[ledger[i].from].dataset = e
        BY <1>0, <4>1 DEF PreviousKept
      <4> QED BY <1>4, <1>5, <3>2, <4>1, <4>2
    <3> QED BY <3>1, <3>2
  <2> QED BY <2>1 DEF PreviousKept
<1>13. LedgerTellsServing'
  <2>1. ASSUME NEW e \in Datasets
        PROVE  /\ SwitchRows(e)' = {} => alias'[e] = NoVersion
               /\ \A i \in SwitchRows(e)' :
                    (\A k \in SwitchRows(e)' : k <= i) => alias'[e] = ledger'[i].to
    <3>1. CASE e = d
      BY <1>1, <1>2, <3>1
    <3>2. CASE e # d
      BY <1>0, <1>1, <1>2, <1>3, <3>2 DEF LedgerTellsServing
    <3> QED BY <3>1, <3>2
  <2>2. \A e \in Datasets : alias'[e] # NoVersion => alias'[e] \in collections'
    BY <1>8 DEF ServingInv
  <2> QED BY <2>1, <2>2 DEF LedgerTellsServing
<1> QED BY <1>8, <1>9, <1>10, <1>11, <1>12, <1>13 DEF RowsAgree

LEMMA RollbackKeeps ==
    ASSUME TypeInv, TypeInv', RowsAgree, NEW d \in Datasets,
           NEW i \in Nat, NEW k \in Nat, NEW n \in Nat, RolledBack(d, i, k, n)
    PROVE  RowsAgree'
<1>0. /\ ServingInv /\ OneSchemaPromoted /\ FirstsKept
      /\ AheadWereRolledBack /\ PreviousKept /\ LedgerTellsServing
  BY DEF RowsAgree
<1>1. /\ i \in History(d) /\ k \in History(d) /\ i < k
      /\ ledger[k].version = alias[d] /\ ledger[i].version \in collections
      /\ ledger'[n].to = ledger[i].version
      /\ SwitchRows(d)' = SwitchRows(d) \cup {n}
      /\ alias \in [Datasets -> Target] /\ alias' = [alias EXCEPT ![d] = ledger[i].version]
      /\ alias'[d] = ledger[i].version /\ \A e \in Datasets \ {d} : alias'[e] = alias[e]
      /\ collections' = collections
  BY Rows DEF RolledBack
<1>2. \A e \in Datasets : \A j \in SwitchRows(e) :
        /\ j \in Nat /\ j < n /\ ledger'[j] = ledger[j] /\ ledger[j].version \in Versions
  <2>1. \A j \in DOMAIN ledger : ledger'[j] = ledger[j] /\ j < n
    BY DEF RolledBack
  <2> QED BY <2>1, RowSets, Rows
<1>3. ASSUME NEW e \in Datasets
      PROVE  /\ PromotionRows(e)' = PromotionRows(e)
             /\ NewestRows(e)' = NewestRows(e) /\ History(e)' = History(e)
             /\ NewestRows(e) = PromotionRows(e) /\ History(e) = Recent(PromotionRows(e))
             /\ PromotionRows(e) \subseteq SwitchRows(e) /\ History(e) \subseteq PromotionRows(e)
             /\ IsFiniteSet(PromotionRows(e)) /\ PromotionRows(e) \subseteq Nat
             /\ \A j \in PromotionRows(e) : versions[ledger[j].version].dataset = e
             /\ \A j, m \in PromotionRows(e) : ledger[j].version = ledger[m].version => j = m
             /\ e # d => SwitchRows(e)' = SwitchRows(e)
  <2>1. PromotionRows(e)' = PromotionRows(e) /\ (e # d => SwitchRows(e)' = SwitchRows(e))
    BY DEF RolledBack
  <2> QED BY <2>1, RowSets, RowSetsNext
<1>4. \A w \in Versions : /\ versions'[w].dataset = versions[w].dataset
                          /\ versions'[w].schema = versions[w].schema
                          /\ w # alias[d] => versions'[w] = versions[w]
                          /\ w = alias[d] => versions'[w].status = "rolled_back"
  BY DEF RolledBack
<1>5. versions[alias[d]].dataset = d /\ ledger[i].version # alias[d]
      /\ ledger[i].version # NoVersion
  BY <1>1, <1>2, <1>3, CallTypes
<1>6. ServingInv'
  <2>1. ASSUME NEW e \in Datasets
        PROVE  /\ alias'[e] = NoVersion => PromotionRows(e)' = {}
               /\ alias'[e] # NoVersion =>
                    /\ alias'[e] \in collections'
                    /\ \E j \in History(e)' : ledger'[j].version = alias'[e]
    <3>1. CASE e = d
      BY <1>1, <1>2, <1>3, <1>5, <3>1
    <3>2. CASE e # d
      <4>1. alias'[e] = alias[e]
        BY <1>1, <3>2
      <4>2. \A j \in History(e) : ledger'[j] = ledger[j]
        BY <1>2, <1>3
      <4> QED BY <1>0, <1>1, <1>3, <4>1, <4>2 DEF ServingInv
    <3> QED BY <3>1, <3>2
  <2> QED BY <2>1 DEF ServingInv
<1>7. OneSchemaPromoted'
  BY <1>0, <1>2, <1>3, <1>4 DEF OneSchemaPromoted
<1>8. FirstsKept'
  <2>1. ASSUME NEW e \in Datasets, PromotionRows(e)' # {}
        PROVE  \E j \in PromotionRows(e)' :
                  /\ \A m \in PromotionRows(e)' : j <= m
                  /\ versions'[ledger'[j].version].status = "promoted"
    <3>1. PICK j \in PromotionRows(e) :
            /\ \A m \in PromotionRows(e) : j <= m
            /\ versions[ledger[j].version].status = "promoted"
      BY <1>0, <1>3, <2>1 DEF FirstsKept, FirstKept
    <3>2. ledger[j].version # alias[d]
      <4>1. CASE e = d
        <5>1. j <= i /\ j # k /\ j \in Nat
          BY <1>1, <1>3, <3>1, <4>1
        <5> QED BY <1>1, <1>3, <4>1, <5>1
      <4>2. CASE e # d
        BY <1>3, <1>5, <4>2
      <4> QED BY <4>1, <4>2
    <3>3. ledger'[j] = ledger[j] /\ versions'[ledger[j].version] = versions[ledger[j].version]
      BY <1>2, <1>3, <1>4, <3>2
    <3> QED BY <1>3, <3>1, <3>3
  <2> QED BY <2>1 DEF FirstsKept, FirstKept
<1>9. AheadWereRolledBack'
  <2>1. ASSUME NEW e \in Datasets, NEW j \in PromotionRows(e), NEW m \in PromotionRows(e),
               ledger[j].version = alias'[e], j < m, ledger[m].version \in collections
        PROVE  versions'[ledger[m].version].status = "rolled_back"
    <3>1. CASE ledger[m].version = alias[d]
      BY <1>2, <1>3, <1>4, <3>1
    <3>2. CASE ledger[m].version # alias[d] /\ e # d
      <4>1. versions[ledger[m].version].status = "rolled_back"
        BY <1>0, <1>1, <1>3, <2>1, <3>2 DEF AheadWereRolledBack
      <4> QED BY <1>2, <1>3, <1>4, <3>2, <4>1
    <3>3. CASE ledger[m].version # alias[d] /\ e = d
      <4>1. j = i
        BY <1>1, <1>3, <2>1, <3>3
      <4>2. m \in History(d)
        <5> DEFINE P == PromotionRows(d)
        <5>1. P \in SUBSET Nat /\ IsFiniteSet(P) /\ m \in P /\ History(d) = Recent(P)
              /\ i \in Recent(P)
          BY <1>1, <1>3, <3>3
        <5> HIDE DEF P
        <5> QED BY <2>1, <4>1, <5>1, InHistory
      <4>3. m \notin Candidates(d)
        <5>1. \A q \in Candidates(d) : q <= i
          BY DEF RolledBack
        <5>2. m \in Nat /\ i < m
          BY <1>3, <2>1, <4>1
        <5> QED BY <5>1, <5>2
      <4>4. PICK q \in History(d) : ledger[q].version = alias[d] /\ ~(m < q)
        BY <2>1, <3>3, <4>2, <4>3 DEF Candidates
      <4>5. q < m /\ q \in PromotionRows(d)
        BY <1>3, <3>3, <4>2, <4>4
      <4>6. versions[ledger[m].version].status = "rolled_back"
        BY <1>0, <1>3, <2>1, <3>3, <4>4, <4>5 DEF AheadWereRolledBack
      <4> QED BY <1>2, <1>3, <1>4, <3>3, <4>6
    <3> QED BY <3>1, <3>2, <3>3
  <2>2. \A e \in Datasets : \A j \in PromotionRows(e) : ledger'[j] = ledger[j]
    BY <1>2, <1>3
  <2> QED BY <1>1, <1>3, <2>1, <2>2 DEF AheadWereRolledBack
<1>10. PreviousKept'
  <2>1. ASSUME NEW e \in Datasets, NEW j \in PromotionRows(e),
               \A m \in SwitchRows(e)' : m <= j
        PROVE  /\ ledger[j].from # ledger[j].version
               /\ ledger[j].from # NoVersion => /\ ledger[j].from \in collections
                                                /\ versions'[ledger[j].from].dataset = e
    <3>1. CASE e = d
      BY <1>1, <1>2, <1>3, <2>1, <3>1
    <3>2. CASE e # d
      <4>1. /\ ledger[j].from # ledger[j].version
            /\ ledger[j].from # NoVersion => /\ ledger[j].from \in collections
                                             /\ versions[ledger[j].from].dataset = e
        BY <1>0, <1>3, <2>1, <3>2 DEF PreviousKept
      <4> QED BY <1>4, <4>1, Rows
    <3> QED BY <3>1, <3>2
  <2>2. \A e \in Datasets : \A j \in PromotionRows(e) : ledger'[j] = ledger[j]
    BY <1>2, <1>3
  <2> QED BY <1>1, <1>3, <2>1, <2>2 DEF PreviousKept
<1>11. LedgerTellsServing'
  <2>1. ASSUME NEW e \in Datasets
        PROVE  /\ SwitchRows(e)' = {} => alias'[e] = NoVersion
               /\ \A j \in SwitchRows(e)' :
                    (\A m \in SwitchRows(e)' : m <= j) => alias'[e] = ledger'[j].to
    <3>1. CASE e = d
      BY <1>1, <1>2, <3>1
    <3>2. CASE e # d
      BY <1>0, <1>1, <1>2, <1>3, <3>2 DEF LedgerTellsServing
    <3> QED BY <3>1, <3>2
  <2>2. \A e \in Datasets : alias'[e] # NoVersion => alias'[e] \in collections'
    BY <1>6 DEF ServingInv
  <2> QED BY <2>1, <2>2 DEF LedgerTellsServing
<1> QED BY <1>6, <1>7, <1>8, <1>9, <1>10, <1>11 DEF RowsAgree

-----------------------------------------------------------------------------
(* The calls. *)

\* A bounded set of numbers that has any has a greatest.
LEMMA GreatestOf ==
    ASSUME NEW S \in SUBSET Nat, S # {}, NEW m \in Nat, \A s \in S : s <= m
    PROVE  \E v \in S : \A w \in S : w <= v
<1> DEFINE less == {p \in Nat \X Nat : p[1] < p[2]}
           T == {m - s : s \in S}
<1>1. IsWellFoundedOn(less, Nat)
  BY NatLessThanWellFounded DEF OpToRel
<1>2. T \subseteq Nat /\ T # {}
  <2>1. \A s \in S : s \in Nat
    OBVIOUS
  <2>2. \A s \in S : m - s \in Nat
    BY <2>1
  <2>3. T # {}
    OBVIOUS
  <2> QED BY <2>2, <2>3
<1> HIDE DEF less
<1>3. PICK t \in T : \A u \in T : <<u, t>> \notin less
  <2> HIDE DEF T
  <2> QED BY <1>1, <1>2, WFMin
<1>4. PICK v \in S : t = m - v
  BY <1>3
<1>5. ASSUME NEW w \in S PROVE w <= v
  <2>1. m - w \in T /\ m - w \in Nat /\ t \in Nat /\ v \in Nat /\ w \in Nat
    BY <1>2, <1>3
  <2>2. ~(m - w < t)
    BY <1>3, <2>1 DEF less
  <2> QED BY <1>4, <2>1, <2>2
<1> QED BY <1>4, <1>5

\* Without drift, the batch has the schema of all versions promoted so far.
LEMMA NoDrift ==
    ASSUME TypeInv, OneSchemaPromoted, FirstsKept, NEW d \in Datasets,
           NEW schema, ~Drifted(d, schema)
    PROVE  \A i \in PromotionRows(d) : versions[ledger[i].version].schema = schema
<1> SUFFICES ASSUME NEW i \in PromotionRows(d)
             PROVE  versions[ledger[i].version].schema = schema
  OBVIOUS
<1> DEFINE S == {w \in Registered(d) : versions[w].status = "promoted"}
<1>1. S \in SUBSET Nat /\ S \subseteq Versions
  BY Rows DEF Registered
<1>2. MaxRuns \in Nat /\ \A s \in S : s <= MaxRuns
  BY <1>1, BoundsAssumption DEF Versions
<1>3. S # {}
  <2>1. PICK j \in PromotionRows(d) : versions[ledger[j].version].status = "promoted"
    BY DEF FirstsKept, FirstKept
  <2>2. ledger[j].version \in S
    BY <2>1, RowSets DEF Registered
  <2> QED BY <2>2
<1>4. PICK v \in S : \A w \in S : w <= v
  <2> HIDE DEF S
  <2> QED BY <1>1, <1>2, <1>3, GreatestOf
<1>5. v \in LastPromoted(d)
  BY <1>4 DEF LastPromoted
<1>6. versions[v].schema = schema
  BY <1>5 DEF Drifted
<1>7. PICK k \in DOMAIN ledger : ledger[k].decision = "promoted" /\ ledger[k].version = v
  BY <1>1, <1>4 DEF TypeInv, RowsInv
<1>8. k \in PromotionRows(d)
  BY <1>4, <1>7 DEF PromotionRows, Registered
<1> QED BY <1>6, <1>7, <1>8 DEF OneSchemaPromoted

\* Outside a run nothing is promised of the batch.
LEMMA StepSameSchema ==
    ASSUME TypeInv, TypeInv', OneSchemaPromoted, FirstsKept,
           \A q \in Threads : SameSchema(q), [Next]_vars, NEW q \in Threads
    PROVE  SameSchema(q)'
<1>0. call \in [Threads -> Call] /\ SameSchema(q)
  BY DEF TypeInv, TypeOK
<1>1. ASSUME call'[q].at \notin RunStep \ {"validate"} PROVE SameSchema(q)'
  BY <1>1 DEF SameSchema, RunStep
<1>2. ASSUME NEW t \in Threads, NEW d \in Datasets, NEW b \in Batch, Ingest(t, d, b)
      PROVE  SameSchema(q)'
  <2>1. lock = NoThread /\ call'[t].at = "validate" /\ (q # t => call'[q] = call[q])
    BY <1>0, <1>2 DEF Ingest, Free, NoCall
  <2>2. call'[q].at \notin RunStep \ {"validate"}
    BY <2>1, NobodyIn
  <2> QED BY <1>1, <2>2
<1>3. ASSUME NEW t \in Threads, Stage(t) PROVE SameSchema(q)'
  <2>1. PICK c \in Call, row \in Row : StageTo(t, c, row)
    BY <1>3, StageSteps
  <2>2. lock = t /\ call[t].at \in RunStep
    BY <2>1 DEF StageTo
  <2>3. CASE q # t
    <3>1. call'[q] = call[q] /\ call[q].at \notin RunStep
      BY <1>0, <2>1, <2>2, <2>3 DEF StageTo, TypeInv, OnTrack
    <3> QED BY <1>1, <3>1
  <2>4. CASE q = t
    <3>1. Settled
      BY <1>3, QuietSteps, QuietSettled
    <3>2. call'[q] = c /\ c.ds = call[q].ds /\ c.batch = call[q].batch /\ c.ds \in Datasets
      BY <1>0, <2>1, <2>4 DEF StageTo, Call
    <3>3. ASSUME ~c.drifted
          PROVE  \A i \in PromotionRows(c.ds) :
                    versions[ledger[i].version].schema = c.batch.schema
      <4>1. CASE call[t].at = "validate"
        BY <2>1, <2>4, <3>2, <3>3, <4>1, NoDrift DEF StageTo
      <4>2. CASE call[t].at # "validate"
        BY <1>0, <2>1, <2>2, <2>4, <3>2, <3>3, <4>2 DEF StageTo, SameSchema
      <4> QED BY <4>1, <4>2
    <3>4. PICK d \in Datasets : d = c.ds
      BY <3>2
    <3>5. PromotionRows(d)' = PromotionRows(d)
          /\ \A i \in PromotionRows(d) : versions'[ledger'[i].version] = versions[ledger[i].version]
      BY <3>1, RowSets DEF Settled
    <3>6. c.at = "decide" /\ c.passed => ~c.drifted
      BY <2>1 DEF StageTo
    <3> QED BY <3>2, <3>3, <3>4, <3>5, <3>6 DEF SameSchema, PromotionRows
  <2> QED BY <2>3, <2>4
<1>4. ASSUME NEW t \in Threads, Promote(t) \/ Reject(t) PROVE SameSchema(q)'
  <2>1. lock = t /\ call'[t] = NoCall /\ (q # t => call'[q] = call[q])
    BY <1>0, <1>4 DEF Promote, Reject, Holds
  <2>2. call'[q].at \notin RunStep
    BY <2>1, CallTypes DEF TypeInv, OnTrack, RunStep
  <2> QED BY <1>1, <2>2
<1>5. ASSUME NEW t \in Threads, Reset(t) \/ \E d \in Datasets : Rollback(t, d)
      PROVE  SameSchema(q)'
  <2>1. lock = NoThread /\ call' = call
    BY <1>5 DEF Reset, Rollback, Free
  <2> QED BY <1>1, <2>1, NobodyIn
<1>6. ASSUME NEW t \in Threads, UNCHANGED registry, call'[t].at \notin RunStep,
             q # t => call'[q] = call[q]
      PROVE  SameSchema(q)'
  <2>1. CASE q = t
    BY <1>1, <1>6, <2>1
  <2>2. CASE q # t
    BY <1>0, <1>6, <2>2 DEF SameSchema, PromotionRows, registry
  <2> QED BY <2>1, <2>2
<1>7. ASSUME NEW t \in Threads, NEW d \in Datasets, SearchAlias(t, d) PROVE SameSchema(q)'
  <2>1. /\ UNCHANGED registry /\ call'[t].at \notin RunStep
        /\ q # t => call'[q] = call[q]
    BY <1>0, <1>7 DEF SearchAlias, NoCall, RunStep
  <2> QED BY <1>6, <2>1
<1>8. ASSUME NEW t \in Threads, SearchScan(t) PROVE SameSchema(q)'
  <2>1. /\ UNCHANGED registry /\ call'[t].at \notin RunStep
        /\ q # t => call'[q] = call[q]
    BY <1>0, <1>8 DEF SearchScan, Call, RunStep
  <2> QED BY <1>6, <2>1
<1>9. ASSUME NEW t \in Threads, Answer(t) PROVE SameSchema(q)'
  <2>1. /\ UNCHANGED registry /\ call'[t].at \notin RunStep
        /\ q # t => call'[q] = call[q]
    BY <1>0, <1>9, CallTypes DEF Answer, RunStep
  <2> QED BY <1>6, <2>1
<1>10. CASE UNCHANGED vars
  BY <1>0, <1>10 DEF vars, registry, SameSchema, PromotionRows
<1> QED BY <1>2, <1>3, <1>4, <1>5, <1>7, <1>8, <1>9, <1>10, NextSteps

LEMMA StepAnswerInv ==
    ASSUME TypeInv, ServingInv, AnswerInv, [Next]_vars
    PROVE  AnswerInv'
<1> DEFINE Answered(q) ==
             /\ call[q].at = "scan" => /\ call[q].named = alias[call[q].ds]
                                       /\ call[q].named # NoVersion
             /\ call[q].at = "answered" => call[q].hits = call[q].named
<1> SUFFICES ASSUME NEW q \in Threads PROVE Answered(q)'
  BY DEF AnswerInv
<1>0. call \in [Threads -> Call] /\ Answered(q)
  BY DEF TypeInv, TypeOK, AnswerInv
<1>1. ASSUME call'[q].at \notin {"scan", "answered"} PROVE Answered(q)'
  BY <1>1
<1>2. ASSUME call'[q] = call[q], call[q].at # "scan" \/ alias' = alias PROVE Answered(q)'
  BY <1>0, <1>2
<1> HIDE DEF Answered
<1>3. ASSUME NEW t \in Threads, NEW d \in Datasets, NEW b \in Batch, Ingest(t, d, b)
      PROVE  Answered(q)'
  <2>1. call'[t].at = "validate" /\ (q # t => call'[q] = call[q]) /\ alias' = alias
    BY <1>0, <1>3 DEF Ingest, NoCall, vectors
  <2> QED BY <1>1, <1>2, <2>1
<1>4. ASSUME NEW t \in Threads, Stage(t) PROVE Answered(q)'
  <2>1. PICK c \in Call, row \in Row : StageTo(t, c, row)
    BY <1>4, StageSteps
  <2>2. call'[t].at \notin {"scan", "answered"} /\ (q # t => call'[q] = call[q]) /\ alias' = alias
    BY <1>0, <2>1 DEF StageTo, RunStep, vectors
  <2> QED BY <1>1, <1>2, <2>2
<1>5. ASSUME NEW t \in Threads, Promote(t) \/ Reject(t) PROVE Answered(q)'
  <2>1. lock = t /\ call'[t] = NoCall /\ (q # t => call'[q] = call[q])
    BY <1>0, <1>5 DEF Promote, Reject, Holds
  <2>2. q # t => call[q].at # "scan"
    BY <2>1 DEF TypeInv, OnTrack
  <2> QED BY <1>1, <1>2, <2>1, <2>2, CallTypes
<1>6. ASSUME NEW t \in Threads, Reset(t) \/ \E d \in Datasets : Rollback(t, d)
      PROVE  Answered(q)'
  <2>1. lock = NoThread /\ call' = call
    BY <1>6 DEF Reset, Rollback, Free
  <2> QED BY <1>2, <2>1, NobodyIn
<1>7. ASSUME NEW t \in Threads, NEW d \in Datasets, SearchAlias(t, d) PROVE Answered(q)'
  <2>1. /\ alias' = alias /\ (q # t => call'[q] = call[q])
        /\ call'[t].ds = d /\ call'[t].named = alias[d] /\ call'[t].hits = NoVersion
        /\ call'[t].at = IF alias[d] = NoVersion THEN "answered" ELSE "scan"
    BY <1>0, <1>7 DEF SearchAlias, NoCall, vectors
  <2>2. CASE q = t
    BY <2>1, <2>2 DEF Answered
  <2> QED BY <1>2, <2>1, <2>2
<1>8. ASSUME NEW t \in Threads, SearchScan(t) PROVE Answered(q)'
  <2>1. /\ alias' = alias /\ (q # t => call'[q] = call[q])
        /\ call[t].at = "scan" /\ call'[t].at = "answered" /\ call'[t].named = call[t].named
        /\ call'[t].hits = IF alias[call[t].ds] \in collections THEN alias[call[t].ds] ELSE NoVersion
    BY <1>0, <1>8 DEF SearchScan, Holds, Call, vectors
  <2>2. CASE q = t
    <3>1. call[t].ds \in Datasets /\ call[t].named = alias[call[t].ds] /\ call[t].named # NoVersion
      BY <1>0, <2>1, <2>2 DEF Answered, Call
    <3>2. alias[call[t].ds] \in collections
      BY <3>1 DEF ServingInv
    <3> QED BY <2>1, <2>2, <3>1, <3>2 DEF Answered
  <2> QED BY <1>2, <2>1, <2>2
<1>9. ASSUME NEW t \in Threads, Answer(t) PROVE Answered(q)'
  <2>1. call'[t] = NoCall /\ (q # t => call'[q] = call[q]) /\ alias' = alias
    BY <1>0, <1>9 DEF Answer, vectors
  <2> QED BY <1>1, <1>2, <2>1, CallTypes
<1>10. CASE UNCHANGED vars
  BY <1>2, <1>10 DEF vars, vectors
<1> QED BY <1>3, <1>4, <1>5, <1>6, <1>7, <1>8, <1>9, <1>10, NextSteps

-----------------------------------------------------------------------------
(* The theorems. *)

LEMMA InitInv == Init => Inv
<1> SUFFICES ASSUME Init PROVE Inv
  OBVIOUS
<1>1. TypeInv
  BY InitTypeInv
<1>2. \A d \in Datasets : /\ PromotionRows(d) = {} /\ SwitchRows(d) = {}
                          /\ NewestRows(d) = {} /\ alias[d] = NoVersion
  BY DEF Init, PromotionRows, SwitchRows, NewestRows
<1>3. ServingInv /\ OneSchemaPromoted /\ FirstsKept
  BY <1>2 DEF ServingInv, OneSchemaPromoted, FirstsKept
<1>4. AheadWereRolledBack /\ PreviousKept /\ LedgerTellsServing
  BY <1>2 DEF AheadWereRolledBack, PreviousKept, LedgerTellsServing
<1>5. \A t \in Threads : call[t].at = "idle"
  BY CallTypes DEF Init
<1>6. (\A t \in Threads : SameSchema(t)) /\ AnswerInv
  BY <1>5 DEF SameSchema, AnswerInv, RunStep
<1> QED BY <1>1, <1>3, <1>4, <1>6 DEF Inv, RowsAgree

LEMMA StepRowsAgree ==
    ASSUME TypeInv, TypeInv', RowsAgree, \A t \in Threads : SameSchema(t), [Next]_vars
    PROVE  RowsAgree'
<1>1. ASSUME NEW t \in Threads,
             \/ UNCHANGED vars
             \/ \E d \in Datasets, b \in Batch : Ingest(t, d, b)
             \/ Stage(t)
             \/ \E d \in Datasets : SearchAlias(t, d)
             \/ SearchScan(t) \/ Answer(t)
      PROVE  RowsAgree'
  BY <1>1, QuietSteps, QuietSettled, SettledKeeps
<1>2. ASSUME NEW t \in Threads, Promote(t) PROVE RowsAgree'
  <2>1. PICK d \in Datasets, v \in Versions, n \in Nat :
          v = minted /\ d = call[t].ds /\ Promoted(d, v, n)
    BY <1>2, PromoteSteps
  <2>2. Holds(t, "decide") /\ call[t].passed
    BY <1>2 DEF Promote
  <2>3. \A i \in PromotionRows(d) : versions[ledger[i].version].schema = call[t].batch.schema
    BY <2>1, <2>2 DEF Holds, SameSchema, RunStep
  <2>4. versions[v].schema = call[t].batch.schema
    BY <2>1, <2>2 DEF Holds, TypeInv, OnTrack, RunStep
  <2> QED BY <2>1, <2>3, <2>4, PromoteKeeps
<1>3. ASSUME NEW t \in Threads, Reject(t) PROVE RowsAgree'
  BY <1>3, RejectSettled, SettledKeeps
<1>4. ASSUME NEW t \in Threads, NEW d \in Datasets, Rollback(t, d) PROVE RowsAgree'
  <2>1. PICK i \in Nat, k \in Nat, n \in Nat : RolledBack(d, i, k, n)
    BY <1>4, RollbackSteps DEF RowsAgree
  <2> QED BY <2>1, RollbackKeeps
<1>5. ASSUME NEW t \in Threads, Reset(t) PROVE RowsAgree'
  BY <1>5, ResetKeeps
<1>6. CASE UNCHANGED vars
  <2>1. Quiet
    BY <1>6 DEF vars, registry, vectors, Quiet
  <2> QED BY <2>1, QuietSettled, SettledKeeps
<1> QED BY <1>1, <1>2, <1>3, <1>4, <1>5, <1>6, NextSteps

LEMMA StepInv == Inv /\ [Next]_vars => Inv'
<1> SUFFICES ASSUME Inv, [Next]_vars PROVE Inv'
  OBVIOUS
<1>1. /\ TypeInv /\ RowsAgree /\ (\A t \in Threads : SameSchema(t)) /\ AnswerInv
      /\ ServingInv /\ OneSchemaPromoted /\ FirstsKept
  BY DEF Inv, RowsAgree
<1>2. TypeInv'
  BY <1>1, StepTypeInv
<1>3. RowsAgree'
  BY <1>1, <1>2, StepRowsAgree
<1>4. \A t \in Threads : SameSchema(t)'
  BY <1>1, <1>2, StepSameSchema
<1>5. AnswerInv'
  BY <1>1, StepAnswerInv
<1> QED BY <1>2, <1>3, <1>4, <1>5 DEF Inv

LEMMA AlwaysInv == Spec => []Inv
BY InitInv, StepInv, PTL DEF Spec

\* Every variable of the console's control plane keeps its type, and every row its
\* vocabulary.
THEOREM TypeCorrect == Spec => []TypeOK
<1>1. Inv => TypeOK
  BY DEF Inv, TypeInv
<1> QED BY <1>1, AlwaysInv, PTL

\* Versions of one dataset that were ever promoted share a schema, however runs,
\* rollbacks and resets interleave.
THEOREM PromotionsShareASchema == Spec => []OneSchemaPromoted
<1>1. Inv => OneSchemaPromoted
  BY DEF Inv, RowsAgree
<1> QED BY <1>1, AlwaysInv, PTL

\* A stored version promoted after the serving one was taken out by a rollback.
THEOREM ProductionLagsOnPurpose == Spec => []AheadWereRolledBack
<1>1. Inv => AheadWereRolledBack
  BY DEF Inv, RowsAgree
<1> QED BY <1>1, AlwaysInv, PTL

\* The alias is where the newest switch in the ledger went, and it exists.
THEOREM LedgerIsTrue == Spec => []LedgerTellsServing
<1>1. Inv => LedgerTellsServing
  BY DEF Inv, RowsAgree
<1> QED BY <1>1, AlwaysInv, PTL

\* A search names the collection its hits come from.
THEOREM SearchesAgree == Spec => []AnswersAgree
<1>1. Inv => AnswersAgree
  BY DEF Inv, AnswerInv, AnswersAgree
<1> QED BY <1>1, AlwaysInv, PTL

\* The version that the newest switch, a promotion, replaced can be rolled back to
\* for as long as the history shows it, whatever RETAIN_VERSIONS is.
THEOREM PreviousIsReady == Spec => []RollbackReady
<1>1. Inv => RollbackReady
  <2> SUFFICES ASSUME Inv, NEW d \in Datasets, NEW i \in PromotionRows(d),
                      \A k \in SwitchRows(d) : k <= i,
                      NEW k \in History(d), ledger[k].version = ledger[i].from
               PROVE  k \in Candidates(d)
    BY DEF RollbackReady
  <2>1. TypeInv /\ PreviousKept /\ LedgerTellsServing
    BY DEF Inv, RowsAgree
  <2>2. /\ i \in SwitchRows(d) /\ k \in PromotionRows(d) /\ k \in SwitchRows(d)
        /\ i \in Nat /\ k \in Nat
        /\ ledger[i].to = ledger[i].version /\ ledger[k].version \in Versions
        /\ History(d) \subseteq PromotionRows(d)
        /\ \A j, m \in PromotionRows(d) : ledger[j].version = ledger[m].version => j = m
    BY <2>1, RowSets
  <2>3. alias[d] = ledger[i].version
    BY <2>1, <2>2 DEF LedgerTellsServing
  <2>4. ledger[k].version # alias[d] /\ ledger[k].version \in collections
    BY <2>1, <2>2, <2>3, CallTypes DEF PreviousKept
  <2>5. k < i
    BY <2>2, <2>3, <2>4
  <2>6. \A j \in History(d) : ledger[j].version = alias[d] => k < j
    BY <2>2, <2>3, <2>5
  <2> QED BY <2>4, <2>6 DEF Candidates
<1> QED BY <1>1, AlwaysInv, PTL

\* A rollback goes to a version whose promotion is older than that of the version
\* it leaves.
THEOREM RollbacksGoOlder == Spec => RollbackGoesOlder
<1> DEFINE Older == \A t \in Threads, d \in Datasets : Rollback(t, d) =>
                      \E i, k \in NewestRows(d) :
                         /\ ledger[i].version = alias'[d] /\ ledger[k].version = alias[d] /\ i < k
<1>1. Inv /\ Inv' /\ [Next]_vars => [Older]_vars
  <2> SUFFICES ASSUME Inv, Inv', NEW t \in Threads, NEW d \in Datasets, Rollback(t, d)
               PROVE  \E i, k \in NewestRows(d) :
                         /\ ledger[i].version = alias'[d] /\ ledger[k].version = alias[d] /\ i < k
    OBVIOUS
  <2>1. TypeInv /\ TypeInv' /\ ServingInv
    BY DEF Inv, RowsAgree
  <2>2. PICK i \in Nat, k \in Nat, n \in Nat : RolledBack(d, i, k, n)
    BY <2>1, RollbackSteps
  <2>3. alias'[d] = ledger[i].version
    BY <2>1, <2>2, Rows DEF RolledBack
  <2>4. i \in NewestRows(d) /\ k \in NewestRows(d)
    BY <2>2 DEF RolledBack, History
  <2> QED BY <2>2, <2>3, <2>4 DEF RolledBack
<1> HIDE DEF Older
<1>2. Spec => [][Older]_vars
  BY <1>1, AlwaysInv, PTL DEF Spec
<1> QED BY <1>2 DEF RollbackGoesOlder, Older

=============================================================================

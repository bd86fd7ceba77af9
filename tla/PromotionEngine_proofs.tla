------------------------ MODULE PromotionEngine_proofs ------------------------
(***************************************************************************)
(* Proofs about PromotionEngine, for any number of jobs, datasets and      *)
(* versions, any interleaving of their requests and any crash.             *)
(***************************************************************************)
EXTENDS PromotionEngine, TLAPS

\* A job r that has its version: a rollback gets one only when it has chosen.
HasVersion(r) ==
    /\ r.at # "idle"
    /\ ~(r.makes = "rolled_back" /\ r.at \in {"read", "list", "choose"})

\* Which steps belong to which kind of job, and what its version is then known
\* to be.
OnTrack(r) ==
    /\ r.at \in {"create", "upsert", "expire", "drop"} => r.makes = "promoted"
    /\ r.at \in {"list", "choose"} => r.makes = "rolled_back"
    /\ r.at \in {"probe", "switch"} => r.makes # "rejected"
    /\ HasVersion(r) => r.ver \in Versions /\ DatasetOf[r.ver] = r.ds

JobsOnTrack == \A j \in Jobs : OnTrack(job[j])

\* A job that may switch the alias holds a version that passed.
Gated(r) == HasVersion(r) /\ r.makes # "rejected" => r.ver \in Passing

JobsGated == \A j \in Jobs : Gated(job[j])

\* Only passed versions have a promotion row.
LedgerGated ==
    \A i \in DOMAIN ledger : ledger[i].decision = "promoted" => ledger[i].version \in Passing

TypeInv == TypeOK /\ JobsOnTrack

GateInv == JobsGated /\ LedgerGated /\ GatedServing

-----------------------------------------------------------------------------

LEMMA NoJobType == NoJob \in Job /\ OnTrack(NoJob) /\ Gated(NoJob)
  BY DatasetsAssumption DEF NoJob, Job, Step, Decision, Target, OnTrack, HasVersion, Gated

LEMMA InitTypeInv == Init => TypeInv
<1> SUFFICES ASSUME Init PROVE TypeInv
  OBVIOUS
<1>1. job \in [Jobs -> Job] /\ JobsOnTrack
  BY NoJobType DEF Init, JobsOnTrack
<1>2. ledger \in Seq(Row)
  BY DEF Init
<1> QED
  BY <1>1, <1>2 DEF Init, TypeInv, TypeOK, Target, CollectionState, Status

\* Every action replaces one job's record; it is enough that the new one is fine.
LEMMA JobReplaced ==
  ASSUME TypeInv, NEW j \in Jobs, NEW r \in Job, OnTrack(r), job' = [job EXCEPT ![j] = r]
  PROVE  job' \in [Jobs -> Job] /\ JobsOnTrack'
  BY DEF TypeInv, TypeOK, JobsOnTrack

LEMMA StepTypeInv == TypeInv /\ [Next]_vars => TypeInv'
<1> SUFFICES ASSUME TypeInv, [Next]_vars PROVE TypeInv'
  OBVIOUS
<1>0. /\ alias \in [Datasets -> Target]
      /\ coll \in [Versions -> CollectionState]
      /\ status \in [Versions -> Status]
      /\ ledger \in Seq(Row)
      /\ \A j \in Jobs : job[j] \in Job /\ OnTrack(job[j])
  BY DEF TypeInv, TypeOK, JobsOnTrack
<1> USE DEF Job, Step, Decision, Target, OnTrack, HasVersion
<1>1. ASSUME NEW j \in Jobs, NEW v \in Versions, StartPromote(j, v) PROVE TypeInv'
  <2> DEFINE r == [NoJob EXCEPT !.at = IF v \in Passing THEN "create" ELSE "read",
                       !.makes = IF v \in Passing THEN "promoted" ELSE "rejected",
                       !.ds = DatasetOf[v], !.ver = v]
  <2>1. r \in Job /\ OnTrack(r)
    BY <1>0, <1>1, NoJobType, DatasetOfAssumption DEF StartPromote, NoJob
  <2>2. job' = [job EXCEPT ![j] = r]
    BY <1>1 DEF StartPromote
  <2>3. job' \in [Jobs -> Job] /\ JobsOnTrack'
    BY <2>1, <2>2, JobReplaced
  <2> QED
    BY <1>0, <1>1, <2>3 DEF StartPromote, TypeInv, TypeOK
<1>2. ASSUME NEW j \in Jobs, NEW d \in Datasets, StartRollback(j, d) PROVE TypeInv'
  <2> DEFINE r == [NoJob EXCEPT !.at = "read", !.makes = "rolled_back", !.ds = d]
  <2>1. r \in Job /\ OnTrack(r)
    BY <1>0, <1>2, NoJobType, DatasetOfAssumption DEF StartRollback, NoJob
  <2>2. job' = [job EXCEPT ![j] = r]
    BY <1>2 DEF StartRollback
  <2>3. job' \in [Jobs -> Job] /\ JobsOnTrack'
    BY <2>1, <2>2, JobReplaced
  <2> QED
    BY <1>0, <1>2, <2>3 DEF StartRollback, TypeInv, TypeOK
<1>3. ASSUME NEW j \in Jobs, Crash(j) PROVE TypeInv'
  <2> DEFINE r == NoJob
  <2>1. r \in Job /\ OnTrack(r)
    BY <1>0, <1>3, NoJobType
  <2>2. job' = [job EXCEPT ![j] = r]
    BY <1>3 DEF Crash
  <2>3. job' \in [Jobs -> Job] /\ JobsOnTrack'
    BY <2>1, <2>2, JobReplaced
  <2> QED
    BY <1>0, <1>3, <2>3 DEF Crash, TypeInv, TypeOK
<1>4. ASSUME NEW j \in Jobs, CreateCollection(j) PROVE TypeInv'
  <2> DEFINE r == [job[j] EXCEPT !.at = "upsert"]
  <2>1. r \in Job /\ OnTrack(r)
    BY <1>0, <1>4 DEF CreateCollection
  <2>2. job' = [job EXCEPT ![j] = r]
    BY <1>4 DEF CreateCollection
  <2>3. job' \in [Jobs -> Job] /\ JobsOnTrack'
    BY <2>1, <2>2, JobReplaced
  <2> QED
    BY <1>0, <1>4, <2>3 DEF CreateCollection, TypeInv, TypeOK, CollectionState
<1>5. ASSUME NEW j \in Jobs, Upsert(j) PROVE TypeInv'
  <2> DEFINE r == [job[j] EXCEPT !.at = "read"]
  <2>1. r \in Job /\ OnTrack(r)
    BY <1>0, <1>5 DEF Upsert
  <2>2. job' = [job EXCEPT ![j] = r]
    BY <1>5 DEF Upsert
  <2>3. job' \in [Jobs -> Job] /\ JobsOnTrack'
    BY <2>1, <2>2, JobReplaced
  <2> QED
    BY <1>0, <1>5, <2>3 DEF Upsert, TypeInv, TypeOK, CollectionState
<1>6. ASSUME NEW j \in Jobs, ReadAlias(j) PROVE TypeInv'
  <2> DEFINE r == [job[j] EXCEPT !.prev = alias[job[j].ds],
                        !.at = CASE job[j].makes = "promoted" -> "probe"
                                 [] job[j].makes = "rejected" -> "record"
                                 [] job[j].makes = "rolled_back" -> "list"]
  <2>1. r \in Job /\ OnTrack(r)
    BY <1>0, <1>6 DEF ReadAlias
  <2>2. job' = [job EXCEPT ![j] = r]
    BY <1>6 DEF ReadAlias
  <2>3. job' \in [Jobs -> Job] /\ JobsOnTrack'
    BY <2>1, <2>2, JobReplaced
  <2> QED
    BY <1>0, <1>6, <2>3 DEF ReadAlias, TypeInv, TypeOK
<1>7. ASSUME NEW j \in Jobs, ListCollections(j) PROVE TypeInv'
  <2> DEFINE r == [job[j] EXCEPT !.names = Existing, !.at = "choose"]
  <2>1. r \in Job /\ OnTrack(r)
    BY <1>0, <1>7 DEF ListCollections, Existing
  <2>2. job' = [job EXCEPT ![j] = r]
    BY <1>7 DEF ListCollections
  <2>3. job' \in [Jobs -> Job] /\ JobsOnTrack'
    BY <2>1, <2>2, JobReplaced
  <2> QED
    BY <1>0, <1>7, <2>3 DEF ListCollections, TypeInv, TypeOK
<1>8. ASSUME NEW j \in Jobs, ChooseTarget(j) PROVE TypeInv'
  <2> DEFINE r(v) == [job[j] EXCEPT !.ver = v, !.names = {}, !.at = "probe"]
  <2>1. PICK v \in Candidates(job[j].ds, job[j].prev, job[j].names) :
          job' = [job EXCEPT ![j] = r(v)]
    BY <1>8 DEF ChooseTarget
  <2>2. v \in Versions /\ DatasetOf[v] = job[j].ds
    BY <1>0 DEF Candidates, InHistory, Promotions, Window
  <2>3. r(v) \in Job /\ OnTrack(r(v))
    BY <1>0, <1>8, <2>2 DEF ChooseTarget
  <2>4. job' \in [Jobs -> Job] /\ JobsOnTrack'
    BY <2>1, <2>3, JobReplaced
  <2> QED
    BY <1>0, <1>8, <2>4 DEF ChooseTarget, TypeInv, TypeOK
<1>9. ASSUME NEW j \in Jobs, RollbackFailed(j) PROVE TypeInv'
  <2> DEFINE r == NoJob
  <2>1. r \in Job /\ OnTrack(r)
    BY <1>0, <1>9, NoJobType
  <2>2. job' = [job EXCEPT ![j] = r]
    BY <1>9 DEF RollbackFailed
  <2>3. job' \in [Jobs -> Job] /\ JobsOnTrack'
    BY <2>1, <2>2, JobReplaced
  <2> QED
    BY <1>0, <1>9, <2>3 DEF RollbackFailed, TypeInv, TypeOK
<1>10. ASSUME NEW j \in Jobs, ProbeAlias(j) PROVE TypeInv'
  <2> DEFINE r == [job[j] EXCEPT !.had = (alias[job[j].ds] # NoVersion), !.at = "switch"]
  <2>1. r \in Job /\ OnTrack(r)
    BY <1>0, <1>10 DEF ProbeAlias
  <2>2. job' = [job EXCEPT ![j] = r]
    BY <1>10 DEF ProbeAlias
  <2>3. job' \in [Jobs -> Job] /\ JobsOnTrack'
    BY <2>1, <2>2, JobReplaced
  <2> QED
    BY <1>0, <1>10, <2>3 DEF ProbeAlias, TypeInv, TypeOK
<1>11. ASSUME NEW j \in Jobs, SwitchAlias(j) PROVE TypeInv'
  <2> DEFINE r == [job[j] EXCEPT !.at = "record"]
  <2>1. r \in Job /\ OnTrack(r)
    BY <1>0, <1>11 DEF SwitchAlias
  <2>2. job' = [job EXCEPT ![j] = r]
    BY <1>11 DEF SwitchAlias
  <2>3. job' \in [Jobs -> Job] /\ JobsOnTrack'
    BY <2>1, <2>2, JobReplaced
  <2> QED
    BY <1>0, <1>11, <2>3 DEF SwitchAlias, TypeInv, TypeOK
<1>12. ASSUME NEW j \in Jobs, RecordPromotion(j) PROVE TypeInv'
  <2> DEFINE r == [job[j] EXCEPT !.at = "status"]
  <2>1. r \in Job /\ OnTrack(r)
    BY <1>0, <1>12 DEF RecordPromotion
  <2>2. job' = [job EXCEPT ![j] = r]
    BY <1>12 DEF RecordPromotion
  <2>3. job' \in [Jobs -> Job] /\ JobsOnTrack'
    BY <2>1, <2>2, JobReplaced
  <2>4. ledger' \in Seq(Row)
    BY <1>0, <1>12 DEF RecordPromotion, Row
  <2> QED
    BY <1>0, <1>12, <2>3, <2>4 DEF RecordPromotion, TypeInv, TypeOK
<1>13. ASSUME NEW j \in Jobs, UpdateStatus(j) PROVE TypeInv'
  <2> DEFINE r == IF job[j].makes = "promoted" THEN [job[j] EXCEPT !.at = "expire"] ELSE NoJob
  <2>1. r \in Job /\ OnTrack(r)
    BY <1>0, <1>13, NoJobType DEF UpdateStatus
  <2>2. job' = [job EXCEPT ![j] = r]
    BY <1>13 DEF UpdateStatus
  <2>3. job' \in [Jobs -> Job] /\ JobsOnTrack'
    BY <2>1, <2>2, JobReplaced
  <2>4. status' \in [Versions -> Status]
    BY <1>0, <1>13 DEF UpdateStatus, Status
  <2> QED
    BY <1>0, <1>13, <2>3, <2>4 DEF UpdateStatus, TypeInv, TypeOK
<1>14. ASSUME NEW j \in Jobs, ExpireCollections(j) PROVE TypeInv'
  <2> DEFINE gone == Expired(job[j].ds, job[j].ver, job[j].prev, Existing)
             r == IF gone = {} THEN NoJob ELSE [job[j] EXCEPT !.names = gone, !.at = "drop"]
  <2>1. gone \subseteq Versions
    BY DEF Expired, Existing
  <2>2. r \in Job /\ OnTrack(r)
    <3> HIDE DEF gone
    <3> QED
      BY <1>0, <1>14, <2>1, NoJobType DEF ExpireCollections
  <2>3. job' = [job EXCEPT ![j] = r]
    BY <1>14 DEF ExpireCollections
  <2>4. job' \in [Jobs -> Job] /\ JobsOnTrack'
    <3> HIDE DEF r
    <3> QED
      BY <2>2, <2>3, JobReplaced
  <2> QED
    BY <1>0, <1>14, <2>4 DEF ExpireCollections, TypeInv, TypeOK
<1>15. ASSUME NEW j \in Jobs, DropCollection(j) PROVE TypeInv'
  <2> DEFINE rest(v) == job[j].names \ {v}
             r(v) == IF rest(v) = {} THEN NoJob ELSE [job[j] EXCEPT !.names = rest(v)]
  <2>1. PICK v \in job[j].names : /\ coll' = [coll EXCEPT ![v] = "absent"]
                                  /\ job' = [job EXCEPT ![j] = r(v)]
    BY <1>15 DEF DropCollection
  <2>2. r(v) \in Job /\ OnTrack(r(v))
    <3>1. rest(v) \subseteq Versions /\ job[j].at = "drop"
      BY <1>0, <1>15 DEF DropCollection
    <3> HIDE DEF rest
    <3> QED
      BY <1>0, <3>1, NoJobType
  <2>3. job' \in [Jobs -> Job] /\ JobsOnTrack'
    <3> HIDE DEF r
    <3> QED
      BY <2>1, <2>2, JobReplaced
  <2>4. coll' \in [Versions -> CollectionState]
    BY <1>0, <2>1 DEF CollectionState
  <2>5. alias' \in [Datasets -> Target]
    BY <1>0, <1>15 DEF DropCollection
  <2> QED
    BY <1>0, <1>15, <2>3, <2>4, <2>5 DEF DropCollection, TypeInv, TypeOK
<1>16. CASE UNCHANGED vars
  BY <1>16 DEF vars, TypeInv, TypeOK, JobsOnTrack
<1> QED
  BY <1>1, <1>2, <1>3, <1>4, <1>5, <1>6, <1>7, <1>8, <1>9, <1>10, <1>11, <1>12, <1>13, <1>14, <1>15, <1>16 DEF Next, Promote, Rollback, Shared

\* The model's types, and the place of every step in its kind of job, hold in
\* every reachable state.
THEOREM TypeCorrect == Spec => [](TypeOK /\ JobsOnTrack)
  BY InitTypeInv, StepTypeInv, PTL DEF Spec, TypeInv

-----------------------------------------------------------------------------
(* Only versions that passed their gates are ever served. *)

\* What appending one row does to the ledger.
LEMMA LedgerAppended ==
  ASSUME ledger \in Seq(Row), NEW row \in Row, ledger' = Append(ledger, row)
  PROVE  /\ DOMAIN ledger' = 1..(Len(ledger) + 1)
         /\ DOMAIN ledger = 1..Len(ledger)
         /\ Len(ledger) \in Nat
         /\ \A i \in DOMAIN ledger : i \in DOMAIN ledger' /\ ledger'[i] = ledger[i]
         /\ ledger'[Len(ledger) + 1] = row
  OBVIOUS

\* A rollback's choice was promoted, hence passed.
LEMMA ChoiceRecorded ==
  ASSUME NEW d, NEW serving, NEW names, NEW v \in Candidates(d, serving, names)
  PROVE  \E i \in DOMAIN ledger : ledger[i].version = v /\ ledger[i].decision = "promoted"
  BY DEF Candidates, InHistory, Promotions, Window

LEMMA InitGateInv == Init => GateInv
  BY NoJobType DEF Init, GateInv, JobsGated, LedgerGated, GatedServing

LEMMA StepGateInv == TypeInv /\ GateInv /\ [Next]_vars => GateInv'
<1> SUFFICES ASSUME TypeInv, GateInv, [Next]_vars PROVE GateInv'
  OBVIOUS
<1>0. /\ job \in [Jobs -> Job]
      /\ \A j \in Jobs : job[j] \in Job /\ OnTrack(job[j]) /\ Gated(job[j])
  BY DEF TypeInv, TypeOK, JobsOnTrack, GateInv, JobsGated
<1>1. ASSUME NEW j \in Jobs, job' = [job EXCEPT ![j] = job'[j]], Gated(job'[j])
      PROVE  JobsGated'
  BY <1>0, <1>1 DEF JobsGated
<1>2. ASSUME UNCHANGED <<alias, ledger>> PROVE LedgerGated' /\ GatedServing'
  BY <1>2 DEF GateInv, LedgerGated, GatedServing
<1>3. ASSUME NEW j \in Jobs, NEW v \in Versions, StartPromote(j, v) PROVE GateInv'
  <2>1. job' = [job EXCEPT ![j] = job'[j]] /\ Gated(job'[j])
    BY <1>0, <1>3 DEF StartPromote, NoJob, Gated, HasVersion
  <2> QED
    BY <1>1, <1>2, <1>3, <2>1 DEF StartPromote, GateInv
<1>4. ASSUME NEW j \in Jobs, NEW d \in Datasets, StartRollback(j, d) PROVE GateInv'
  <2>1. job' = [job EXCEPT ![j] = job'[j]] /\ Gated(job'[j])
    BY <1>0, <1>4 DEF StartRollback, NoJob, Gated, HasVersion
  <2> QED
    BY <1>1, <1>2, <1>4, <2>1 DEF StartRollback, GateInv
<1>5. ASSUME NEW j \in Jobs, Crash(j) PROVE GateInv'
  <2>1. job' = [job EXCEPT ![j] = job'[j]] /\ Gated(job'[j])
    BY <1>0, <1>5 DEF Crash, Job, OnTrack, Gated, HasVersion, NoJob
  <2> QED
    BY <1>1, <1>2, <1>5, <2>1 DEF Crash, GateInv
<1>6. ASSUME NEW j \in Jobs, CreateCollection(j) PROVE GateInv'
  <2>1. job' = [job EXCEPT ![j] = job'[j]] /\ Gated(job'[j])
    BY <1>0, <1>6 DEF CreateCollection, Job, OnTrack, Gated, HasVersion
  <2> QED
    BY <1>1, <1>2, <1>6, <2>1 DEF CreateCollection, GateInv
<1>7. ASSUME NEW j \in Jobs, Upsert(j) PROVE GateInv'
  <2>1. job' = [job EXCEPT ![j] = job'[j]] /\ Gated(job'[j])
    BY <1>0, <1>7 DEF Upsert, Job, OnTrack, Gated, HasVersion
  <2> QED
    BY <1>1, <1>2, <1>7, <2>1 DEF Upsert, GateInv
<1>8. ASSUME NEW j \in Jobs, ReadAlias(j) PROVE GateInv'
  <2> DEFINE at == CASE job[j].makes = "promoted" -> "probe"
                     [] job[j].makes = "rejected" -> "record"
                     [] job[j].makes = "rolled_back" -> "list"
  <2>a. at = "list" \/ job[j].makes # "rolled_back"
    BY <1>0 DEF Job, Decision
  <2>b. job' = [job EXCEPT ![j] = [job[j] EXCEPT !.prev = alias[job[j].ds], !.at = at]]
    BY <1>8 DEF ReadAlias
  <2>1. job' = [job EXCEPT ![j] = job'[j]] /\ Gated(job'[j])
    <3> HIDE DEF at
    <3> QED
      BY <1>0, <1>8, <2>a, <2>b DEF ReadAlias, Job, Gated, HasVersion
  <2> QED
    BY <1>1, <1>2, <1>8, <2>1 DEF ReadAlias, GateInv
<1>9. ASSUME NEW j \in Jobs, ListCollections(j) PROVE GateInv'
  <2>1. job' = [job EXCEPT ![j] = job'[j]] /\ Gated(job'[j])
    BY <1>0, <1>9 DEF ListCollections, Job, OnTrack, Gated, HasVersion
  <2> QED
    BY <1>1, <1>2, <1>9, <2>1 DEF ListCollections, GateInv
<1>10. ASSUME NEW j \in Jobs, RollbackFailed(j) PROVE GateInv'
  <2>1. job' = [job EXCEPT ![j] = job'[j]] /\ Gated(job'[j])
    BY <1>0, <1>10 DEF RollbackFailed, Job, OnTrack, Gated, HasVersion, NoJob
  <2> QED
    BY <1>1, <1>2, <1>10, <2>1 DEF RollbackFailed, GateInv
<1>11. ASSUME NEW j \in Jobs, ProbeAlias(j) PROVE GateInv'
  <2>1. job' = [job EXCEPT ![j] = job'[j]] /\ Gated(job'[j])
    BY <1>0, <1>11 DEF ProbeAlias, Job, OnTrack, Gated, HasVersion
  <2> QED
    BY <1>1, <1>2, <1>11, <2>1 DEF ProbeAlias, GateInv
<1>12. ASSUME NEW j \in Jobs, UpdateStatus(j) PROVE GateInv'
  <2>1. job' = [job EXCEPT ![j] = job'[j]] /\ Gated(job'[j])
    BY <1>0, <1>12 DEF UpdateStatus, Job, OnTrack, Gated, HasVersion, NoJob
  <2> QED
    BY <1>1, <1>2, <1>12, <2>1 DEF UpdateStatus, GateInv
<1>13. ASSUME NEW j \in Jobs, ExpireCollections(j) PROVE GateInv'
  <2>1. job' = [job EXCEPT ![j] = job'[j]] /\ Gated(job'[j])
    BY <1>0, <1>13 DEF ExpireCollections, Job, OnTrack, Gated, HasVersion, NoJob
  <2> QED
    BY <1>1, <1>2, <1>13, <2>1 DEF ExpireCollections, GateInv
<1>14. ASSUME NEW j \in Jobs, ChooseTarget(j) PROVE GateInv'
  <2>1. PICK v \in Candidates(job[j].ds, job[j].prev, job[j].names) :
          job' = [job EXCEPT ![j] = [job[j] EXCEPT !.ver = v, !.names = {}, !.at = "probe"]]
    BY <1>14 DEF ChooseTarget
  <2>2. v \in Passing
    BY ChoiceRecorded DEF GateInv, LedgerGated
  <2>3. job' = [job EXCEPT ![j] = job'[j]] /\ Gated(job'[j])
    BY <1>0, <2>1, <2>2 DEF Job, Gated
  <2> QED
    BY <1>1, <1>2, <1>14, <2>3 DEF ChooseTarget, GateInv
<1>15. ASSUME NEW j \in Jobs, SwitchAlias(j) PROVE GateInv'
  <2>1. job' = [job EXCEPT ![j] = job'[j]] /\ Gated(job'[j])
    BY <1>0, <1>15 DEF SwitchAlias, Job, Gated, HasVersion
  <2>2. job[j].ver \in Passing /\ DatasetOf[job[j].ver] = job[j].ds
    BY <1>0, <1>15 DEF SwitchAlias, OnTrack, Gated, HasVersion
  <2>3. GatedServing'
    BY <1>15, <2>2 DEF SwitchAlias, GateInv, GatedServing, TypeInv, TypeOK
  <2>4. LedgerGated'
    BY <1>15 DEF SwitchAlias, GateInv, LedgerGated
  <2> QED
    BY <1>1, <2>1, <2>3, <2>4 DEF GateInv
<1>16. ASSUME NEW j \in Jobs, RecordPromotion(j) PROVE GateInv'
  <2> DEFINE row == [version |-> job[j].ver, decision |-> job[j].makes, from |-> job[j].prev,
                     to |-> IF job[j].makes = "rejected" THEN NoVersion ELSE job[j].ver]
  <2>1. job' = [job EXCEPT ![j] = job'[j]] /\ Gated(job'[j])
    BY <1>0, <1>16 DEF RecordPromotion, Job, Gated, HasVersion
  <2>2. row \in Row /\ (row.decision = "promoted" => row.version \in Passing)
    BY <1>0, <1>16 DEF RecordPromotion, Row, Job, Target, OnTrack, Gated, HasVersion
  <2>3. LedgerGated'
    <3>1. ledger \in Seq(Row) /\ ledger' = Append(ledger, row)
      BY <1>16 DEF RecordPromotion, TypeInv, TypeOK
    <3> HIDE DEF row
    <3>2. \A i \in DOMAIN ledger' : i \in DOMAIN ledger \/ i = Len(ledger) + 1
      BY <2>2, <3>1, LedgerAppended
    <3> QED
      BY <2>2, <3>1, <3>2, LedgerAppended DEF GateInv, LedgerGated
  <2>4. GatedServing'
    BY <1>16 DEF RecordPromotion, GateInv, GatedServing
  <2> QED
    BY <1>1, <2>1, <2>3, <2>4 DEF GateInv
<1>17. ASSUME NEW j \in Jobs, DropCollection(j) PROVE GateInv'
  <2>1. job' = [job EXCEPT ![j] = job'[j]] /\ Gated(job'[j])
    BY <1>0, <1>17 DEF DropCollection, Job, Gated, HasVersion, NoJob
  <2>2. GatedServing'
    BY <1>17 DEF DropCollection, GateInv, GatedServing
  <2>3. LedgerGated'
    BY <1>17 DEF DropCollection, GateInv, LedgerGated
  <2> QED
    BY <1>1, <2>1, <2>2, <2>3 DEF GateInv
<1>18. CASE UNCHANGED vars
  BY <1>2, <1>18 DEF vars, GateInv, JobsGated
<1> QED
  BY <1>3, <1>4, <1>5, <1>6, <1>7, <1>8, <1>9, <1>10, <1>11, <1>12, <1>13, <1>14, <1>15, <1>16, <1>17, <1>18 DEF Next, Promote, Rollback, Shared

\* Whatever jobs run at once and wherever they crash, a production alias only
\* ever points at a version of its dataset that passed the quality gates.
THEOREM OnlyGatedVersionsServe == Spec => []GatedServing
<1>1. Init => TypeInv /\ GateInv
  BY InitTypeInv, InitGateInv
<1>2. TypeInv /\ GateInv /\ [Next]_vars => (TypeInv /\ GateInv)'
  BY StepTypeInv, StepGateInv
<1>3. GateInv => GatedServing
  BY DEF GateInv
<1> QED
  BY <1>1, <1>2, <1>3, PTL DEF Spec

-----------------------------------------------------------------------------
(* The ledger explains every status and every rollback. *)

Decided(v, decision) ==
    \E i \in DOMAIN ledger : ledger[i].version = v /\ ledger[i].decision = decision

LeftByRollback(v) ==
    \E i \in DOMAIN ledger : ledger[i].from = v /\ ledger[i].decision = "rolled_back"

\* What the ledger holds for a job r: the row behind the status it is about to
\* write, and the promotion behind the version it rolls back to.
Audited(r) ==
    /\ r.at = "status" => IF r.makes = "rolled_back" THEN LeftByRollback(r.prev)
                                                     ELSE Decided(r.ver, r.makes)
    /\ HasVersion(r) /\ r.makes = "rolled_back" => Decided(r.ver, "promoted")

RowsFollowPromotions ==
    \A i \in DOMAIN ledger : ledger[i].decision = "rolled_back" =>
        /\ ledger[i].to = ledger[i].version
        /\ \E k \in 1..(i - 1) : /\ ledger[k].decision = "promoted"
                                 /\ ledger[k].version = ledger[i].version

AuditInv ==
    /\ \A j \in Jobs : Audited(job[j])
    /\ \A v \in Versions : /\ status[v] = "promoted" => Decided(v, "promoted")
                           /\ status[v] = "rejected" => Decided(v, "rejected")
                           /\ status[v] = "rolled_back" => LeftByRollback(v)
    /\ RowsFollowPromotions

LEMMA InitAuditInv == Init => AuditInv
  BY DEF Init, AuditInv, Audited, HasVersion, NoJob, RowsFollowPromotions

\* What the ledger says, it keeps saying.
LEMMA RowsKept ==
  ASSUME ledger \in Seq(Row), NEW row \in Row, ledger' = Append(ledger, row)
  PROVE  /\ \A v, decision : Decided(v, decision) => Decided(v, decision)'
         /\ \A v : LeftByRollback(v) => LeftByRollback(v)'
         /\ Decided(row.version, row.decision)'
         /\ row.decision = "rolled_back" => LeftByRollback(row.from)'
<1>1. /\ \A i \in DOMAIN ledger : i \in DOMAIN ledger' /\ ledger'[i] = ledger[i]
      /\ Len(ledger) + 1 \in DOMAIN ledger' /\ ledger'[Len(ledger) + 1] = row
  BY LedgerAppended
<1> QED
  BY <1>1 DEF Decided, LeftByRollback

LEMMA StepAuditInv == TypeInv /\ AuditInv /\ [Next]_vars => AuditInv'
<1> SUFFICES ASSUME TypeInv, AuditInv, [Next]_vars PROVE AuditInv'
  OBVIOUS
<1>0. /\ job \in [Jobs -> Job]
      /\ \A j \in Jobs : job[j] \in Job /\ OnTrack(job[j]) /\ Audited(job[j])
  BY DEF TypeInv, TypeOK, JobsOnTrack, AuditInv
\* Most actions leave ledger and status alone.
<1>1. ASSUME NEW j \in Jobs, job' = [job EXCEPT ![j] = job'[j]], Audited(job'[j]),
             UNCHANGED <<ledger, status>>
      PROVE  AuditInv'
  <2>1. \A r : Audited(r)' <=> Audited(r)
    BY <1>1 DEF Audited, Decided, LeftByRollback
  <2>2. \A i \in Jobs : Audited(job'[i])
    BY <1>0, <1>1
  <2> QED
    BY <1>1, <2>1, <2>2 DEF AuditInv, Audited, Decided, LeftByRollback, RowsFollowPromotions
<1>3. ASSUME NEW j \in Jobs, NEW v \in Versions, StartPromote(j, v) PROVE AuditInv'
  <2>1. job' = [job EXCEPT ![j] = job'[j]] /\ Audited(job'[j])
    BY <1>0, <1>3 DEF StartPromote, NoJob, Audited, HasVersion
  <2> QED
    BY <1>1, <1>3, <2>1 DEF StartPromote
<1>4. ASSUME NEW j \in Jobs, NEW d \in Datasets, StartRollback(j, d) PROVE AuditInv'
  <2>1. job' = [job EXCEPT ![j] = job'[j]] /\ Audited(job'[j])
    BY <1>0, <1>4 DEF StartRollback, NoJob, Audited, HasVersion
  <2> QED
    BY <1>1, <1>4, <2>1 DEF StartRollback
<1>5. ASSUME NEW j \in Jobs, Crash(j) PROVE AuditInv'
  <2>1. job' = [job EXCEPT ![j] = job'[j]] /\ Audited(job'[j])
    BY <1>0, <1>5 DEF Crash, Job, OnTrack, Audited, HasVersion, NoJob
  <2> QED
    BY <1>1, <1>5, <2>1 DEF Crash
<1>6. ASSUME NEW j \in Jobs, CreateCollection(j) PROVE AuditInv'
  <2>1. job' = [job EXCEPT ![j] = job'[j]] /\ Audited(job'[j])
    BY <1>0, <1>6 DEF CreateCollection, Job, OnTrack, Audited, HasVersion
  <2> QED
    BY <1>1, <1>6, <2>1 DEF CreateCollection
<1>7. ASSUME NEW j \in Jobs, Upsert(j) PROVE AuditInv'
  <2>1. job' = [job EXCEPT ![j] = job'[j]] /\ Audited(job'[j])
    BY <1>0, <1>7 DEF Upsert, Job, OnTrack, Audited, HasVersion
  <2> QED
    BY <1>1, <1>7, <2>1 DEF Upsert
<1>8. ASSUME NEW j \in Jobs, ListCollections(j) PROVE AuditInv'
  <2>1. job' = [job EXCEPT ![j] = job'[j]] /\ Audited(job'[j])
    BY <1>0, <1>8 DEF ListCollections, Job, OnTrack, Audited, HasVersion
  <2> QED
    BY <1>1, <1>8, <2>1 DEF ListCollections
<1>9. ASSUME NEW j \in Jobs, RollbackFailed(j) PROVE AuditInv'
  <2>1. job' = [job EXCEPT ![j] = job'[j]] /\ Audited(job'[j])
    BY <1>0, <1>9 DEF RollbackFailed, Job, OnTrack, Audited, HasVersion, NoJob
  <2> QED
    BY <1>1, <1>9, <2>1 DEF RollbackFailed
<1>10. ASSUME NEW j \in Jobs, ProbeAlias(j) PROVE AuditInv'
  <2>1. job' = [job EXCEPT ![j] = job'[j]] /\ Audited(job'[j])
    BY <1>0, <1>10 DEF ProbeAlias, Job, OnTrack, Audited, HasVersion
  <2> QED
    BY <1>1, <1>10, <2>1 DEF ProbeAlias
<1>11. ASSUME NEW j \in Jobs, SwitchAlias(j) PROVE AuditInv'
  <2>1. job' = [job EXCEPT ![j] = job'[j]] /\ Audited(job'[j])
    BY <1>0, <1>11 DEF SwitchAlias, Job, OnTrack, Audited, HasVersion
  <2> QED
    BY <1>1, <1>11, <2>1 DEF SwitchAlias
<1>12. ASSUME NEW j \in Jobs, ExpireCollections(j) PROVE AuditInv'
  <2>1. job' = [job EXCEPT ![j] = job'[j]] /\ Audited(job'[j])
    BY <1>0, <1>12 DEF ExpireCollections, Job, OnTrack, Audited, HasVersion, NoJob
  <2> QED
    BY <1>1, <1>12, <2>1 DEF ExpireCollections
<1>13. ASSUME NEW j \in Jobs, DropCollection(j) PROVE AuditInv'
  <2>1. job' = [job EXCEPT ![j] = job'[j]] /\ Audited(job'[j])
    BY <1>0, <1>13 DEF DropCollection, Job, OnTrack, Audited, HasVersion, NoJob
  <2> QED
    BY <1>1, <1>13, <2>1 DEF DropCollection
<1>14. ASSUME NEW j \in Jobs, ReadAlias(j) PROVE AuditInv'
  <2> DEFINE at == CASE job[j].makes = "promoted" -> "probe"
                     [] job[j].makes = "rejected" -> "record"
                     [] job[j].makes = "rolled_back" -> "list"
  <2>1. at # "status" /\ (job[j].makes = "rolled_back" => at = "list")
    BY <1>0 DEF Job, Decision
  <2>2. job' = [job EXCEPT ![j] = [job[j] EXCEPT !.prev = alias[job[j].ds], !.at = at]]
    BY <1>14 DEF ReadAlias
  <2>3. job' = [job EXCEPT ![j] = job'[j]] /\ Audited(job'[j])
    <3> HIDE DEF at
    <3> QED
      BY <1>0, <2>1, <2>2 DEF Job, Audited, HasVersion
  <2> QED
    BY <1>1, <1>14, <2>3 DEF ReadAlias
<1>15. ASSUME NEW j \in Jobs, ChooseTarget(j) PROVE AuditInv'
  <2>1. PICK v \in Candidates(job[j].ds, job[j].prev, job[j].names) :
          job' = [job EXCEPT ![j] = [job[j] EXCEPT !.ver = v, !.names = {}, !.at = "probe"]]
    BY <1>15 DEF ChooseTarget
  <2>2. Decided(v, "promoted")
    BY ChoiceRecorded DEF Decided
  <2>3. job' = [job EXCEPT ![j] = job'[j]] /\ Audited(job'[j])
    BY <1>0, <2>1, <2>2 DEF Job, Audited
  <2> QED
    BY <1>1, <1>15, <2>3 DEF ChooseTarget
<1>16. ASSUME NEW j \in Jobs, RecordPromotion(j) PROVE AuditInv'
  <2> DEFINE row == [version |-> job[j].ver, decision |-> job[j].makes, from |-> job[j].prev,
                     to |-> IF job[j].makes = "rejected" THEN NoVersion ELSE job[j].ver]
  <2>1. job' = [job EXCEPT ![j] = [job[j] EXCEPT !.at = "status"]]
    BY <1>16 DEF RecordPromotion
  <2>2. /\ row \in Row /\ row.version = job[j].ver /\ row.from = job[j].prev
        /\ row.decision = job[j].makes
        /\ row.decision = "rolled_back" =>
             row.to = row.version /\ Decided(row.version, "promoted")
    BY <1>0, <1>16 DEF RecordPromotion, Row, Job, Target, OnTrack, Audited, HasVersion
  <2>3. ledger \in Seq(Row) /\ ledger' = Append(ledger, row) /\ status' = status
    BY <1>16 DEF RecordPromotion, TypeInv, TypeOK
  <2> HIDE DEF row
  <2>4. \A i \in Jobs : Audited(job[i])'
    BY <1>0, <2>1, <2>2, <2>3, RowsKept DEF Job, Audited, HasVersion
  <2>5. RowsFollowPromotions'
    <3> SUFFICES ASSUME NEW i \in DOMAIN ledger', ledger'[i].decision = "rolled_back"
                 PROVE  /\ ledger'[i].to = ledger'[i].version
                        /\ \E k \in 1..(i - 1) : /\ ledger'[k].decision = "promoted"
                                                 /\ ledger'[k].version = ledger'[i].version
      BY DEF RowsFollowPromotions
    <3>1. CASE i \in DOMAIN ledger
      BY <2>2, <2>3, <3>1, LedgerAppended DEF AuditInv, RowsFollowPromotions
    <3>2. CASE i = Len(ledger) + 1
      BY <2>2, <2>3, <3>2, LedgerAppended DEF Decided
    <3> QED
      BY <2>2, <2>3, <3>1, <3>2, LedgerAppended
  <2> QED
    BY <2>2, <2>3, <2>4, <2>5, RowsKept DEF AuditInv
<1>17. ASSUME NEW j \in Jobs, UpdateStatus(j) PROVE AuditInv'
  <2> DEFINE marked == IF job[j].makes = "rolled_back" THEN job[j].prev ELSE job[j].ver
  <2>1. /\ \A v \in Versions : status'[v] = IF v = marked THEN job[j].makes ELSE status[v]
        /\ ledger' = ledger
    BY <1>17 DEF UpdateStatus
  <2>2. IF job[j].makes = "rolled_back" THEN LeftByRollback(marked)
                                       ELSE Decided(marked, job[j].makes)
    BY <1>0, <1>17 DEF UpdateStatus, Audited
  <2>3. \A i \in Jobs : Audited(job'[i])
    BY <1>0, <1>17 DEF UpdateStatus, Job, Audited, HasVersion, NoJob
  <2>4. \A i \in Jobs : Audited(job[i])'
    BY <2>1, <2>3 DEF Audited, Decided, LeftByRollback
  <2>5. RowsFollowPromotions'
    BY <2>1 DEF AuditInv, RowsFollowPromotions
  <2> HIDE DEF marked
  <2>6. \A v \in Versions : /\ status'[v] = "promoted" => Decided(v, "promoted")
                            /\ status'[v] = "rejected" => Decided(v, "rejected")
                            /\ status'[v] = "rolled_back" => LeftByRollback(v)
    BY <2>1, <2>2 DEF AuditInv
  <2> QED
    BY <2>1, <2>4, <2>5, <2>6 DEF AuditInv, Decided, LeftByRollback
<1>18. CASE UNCHANGED vars
  BY <1>18 DEF vars, AuditInv, Audited, Decided, LeftByRollback, RowsFollowPromotions
<1> QED
  BY <1>3, <1>4, <1>5, <1>6, <1>7, <1>8, <1>9, <1>10, <1>11, <1>12, <1>13, <1>14, <1>15, <1>16, <1>17, <1>18 DEF Next, Promote, Rollback, Shared

LEMMA AuditInvariant == Spec => []AuditInv
<1>1. Init => TypeInv /\ AuditInv
  BY InitTypeInv, InitAuditInv
<1>2. TypeInv /\ AuditInv /\ [Next]_vars => (TypeInv /\ AuditInv)'
  BY StepTypeInv, StepAuditInv
<1> QED
  BY <1>1, <1>2, PTL DEF Spec

\* No status runs ahead of the ledger, wherever a job crashes.
THEOREM StatusesAreJustified == Spec => []StatusJustified
<1>1. AuditInv => StatusJustified
  BY DEF AuditInv, StatusJustified, Decided, LeftByRollback
<1> QED
  BY <1>1, AuditInvariant, PTL

\* Every rollback in the ledger returns to a version an earlier row promoted,
\* however stale the state a concurrent rollback acted on.
THEOREM RollbacksReturnToPromoted == Spec => []RollbacksFollowPromotions
<1>1. AuditInv => RollbacksFollowPromotions
  BY DEF AuditInv, RowsFollowPromotions, RollbacksFollowPromotions
<1> QED
  BY <1>1, AuditInvariant, PTL

===============================================================================

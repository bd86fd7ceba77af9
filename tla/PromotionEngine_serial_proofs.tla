--------------------- MODULE PromotionEngine_serial_proofs ---------------------
(***************************************************************************)
(* Proofs about PromotionEngine when no two jobs work on one dataset at a  *)
(* time and no dataset's listing has another's collections, for any jobs,  *)
(* datasets, versions, retention and history limit, and a crash at any     *)
(* request.                                                                *)
(***************************************************************************)
EXTENDS PromotionEngine_proofs, FiniteSetTheorems

\* What a limit of one running job per dataset would give; the code sets none.
OneJobPerDataset ==
    \A i, j \in Jobs :
        i # j /\ job[i].at # "idle" /\ job[j].at # "idle" => job[i].ds # job[j].ds

\* Names that tell the datasets apart.
OwnListings == \A d \in Datasets : \A v \in Listed[d] : DatasetOf[v] = d

\* One slot is such a limit.
LEMMA OneSlot == (\A i, j \in Jobs : i = j) => OneJobPerDataset
BY DEF OneJobPerDataset

-----------------------------------------------------------------------------
(* The invariant. *)

\* A job that runs alone acts on what it has read.
ActsOnNow(r) ==
    /\ r.at \in {"list", "choose", "probe", "switch"} => r.prev = alias[r.ds]
    /\ r.at \in {"probe", "switch"} /\ r.makes = "rolled_back" =>
         /\ r.ver # r.prev
         /\ InHistory(r.ds, r.prev) => Newer(r.ds, r.prev, r.ver)
    /\ r.at \in {"record", "status", "expire", "drop"} /\ r.makes # "rejected" =>
         alias[r.ds] = r.ver

\* Row i promotes a version of dataset d; the newest such row promotes v.
PromotesFor(d, i) == ledger[i].decision = "promoted" /\ DatasetOf[ledger[i].version] = d

NewestIs(d, v) ==
    \E i \in DOMAIN ledger : /\ PromotesFor(d, i) /\ ledger[i].version = v
                             /\ \A k \in DOMAIN ledger : PromotesFor(d, k) => k <= i

\* What a job replaces stays, and its cleanup spares that and what serves.
KeepsPrevious(r) ==
    /\ r.at \notin {"idle", "create", "upsert", "read"} /\ r.prev # NoVersion =>
         r.prev \in Existing /\ DatasetOf[r.prev] = r.ds
    /\ r.at \in {"status", "expire", "drop"} /\ r.makes = "promoted" => NewestIs(r.ds, r.ver)
    /\ r.at = "drop" => r.names \subseteq Listed[r.ds] \ {r.ver, r.prev}

AliasesLive == \A d \in Datasets : alias[d] # NoVersion => alias[d] \in Existing

\* Once a dataset has a promotion on record, something serves.
PromotionsLast ==
    \A i \in DOMAIN ledger :
        ledger[i].decision = "promoted" => alias[DatasetOf[ledger[i].version]] # NoVersion

SerialInv ==
    /\ AliasesLive /\ PromotionsLast
    /\ \A j \in Jobs : ActsOnNow(job[j]) /\ KeepsPrevious(job[j])

Inv == TypeInv /\ GateInv /\ AuditInv /\ SerialInv

LEMMA InitSerialInv == Init => Inv
<1> SUFFICES ASSUME Init PROVE Inv
  OBVIOUS
<1>1. \A j \in Jobs : job[j].at = "idle"
  BY DEF Init, NoJob
<1>2. SerialInv
  BY <1>1 DEF Init, SerialInv, AliasesLive, PromotionsLast, ActsOnNow, KeepsPrevious
<1> QED BY <1>2, InitTypeInv, InitGateInv, InitAuditInv DEF Inv

-----------------------------------------------------------------------------
(* Steps. *)

\* What every step starts from.
LEMMA Facts ==
    ASSUME Inv, NEW j \in Jobs
    PROVE  /\ job \in [Jobs -> Job] /\ job[j] \in Job /\ OnTrack(job[j]) /\ Gated(job[j])
           /\ Audited(job[j]) /\ ActsOnNow(job[j]) /\ KeepsPrevious(job[j])
           /\ alias \in [Datasets -> Target] /\ coll \in [Versions -> CollectionState]
           /\ ledger \in Seq(Row) /\ Len(ledger) \in Nat /\ DOMAIN ledger = 1..Len(ledger)
           /\ job[j].ds \in Datasets /\ job[j].ver \in Target /\ job[j].prev \in Target
           /\ job[j].names \subseteq Versions
<1>1. /\ job \in [Jobs -> Job] /\ job[j] \in Job /\ alias \in [Datasets -> Target]
      /\ coll \in [Versions -> CollectionState] /\ ledger \in Seq(Row)
  BY DEF Inv, TypeInv, TypeOK
<1>2. /\ OnTrack(job[j]) /\ Gated(job[j])
      /\ Audited(job[j]) /\ ActsOnNow(job[j]) /\ KeepsPrevious(job[j])
  BY DEF Inv, TypeInv, GateInv, JobsOnTrack, JobsGated, AuditInv, SerialInv
<1> QED BY <1>1, <1>2 DEF Job

\* A step that leaves the aliases, the ledger and all collections in place keeps
\* what is said of them.
LEMMA NothingLost ==
    ASSUME Inv, UNCHANGED <<alias, ledger>>, Existing \subseteq Existing'
    PROVE  AliasesLive' /\ PromotionsLast'
BY DEF Inv, SerialInv, AliasesLive, PromotionsLast

LEMMA SameHistory ==
    ASSUME ledger' = ledger
    PROVE  /\ \A d, v : InHistory(d, v)' <=> InHistory(d, v)
           /\ \A d, v, w : Newer(d, v, w)' <=> Newer(d, v, w)
           /\ \A d, v : NewestIs(d, v)' <=> NewestIs(d, v)
BY DEF InHistory, Newer, Promotions, Window, NewestIs, PromotesFor

\* Reads, the staging of a collection, and jobs that begin, give up or fail.
Preparing(j) ==
    \/ \E v \in Versions : StartPromote(j, v)
    \/ \E d \in Datasets : StartRollback(j, d)
    \/ Crash(j) \/ RollbackFailed(j) \/ CreateCollection(j) \/ Upsert(j)
    \/ ReadAlias(j) \/ ListCollections(j) \/ ChooseTarget(j) \/ ProbeAlias(j)

LEMMA Prepared ==
    ASSUME Inv, NEW j \in Jobs, Preparing(j)
    PROVE  /\ UNCHANGED <<alias, ledger>> /\ Existing \subseteq Existing'
           /\ Existing' \subseteq Existing \cup {job[j].ver}
           /\ Existing' # Existing => HasVersion(job[j])
<1>1. coll \in [Versions -> CollectionState] /\ job[j].ver \in Target /\ OnTrack(job[j])
  BY Facts
<1>2. CASE CreateCollection(j)
  BY <1>1, <1>2 DEF CreateCollection, Existing, HasVersion
<1>3. CASE Upsert(j)
  BY <1>1, <1>3 DEF Upsert, Existing
<1>4. CASE ~(CreateCollection(j) \/ Upsert(j))
  BY <1>4 DEF Preparing, StartPromote, StartRollback, Crash, RollbackFailed, ReadAlias,
     ListCollections, ChooseTarget, ProbeAlias, Existing
<1> QED BY <1>2, <1>3, <1>4 DEF CreateCollection, Upsert

LEMMA PreparedJob ==
    ASSUME Inv, NEW j \in Jobs, Preparing(j)
    PROVE  ActsOnNow(job[j])' /\ KeepsPrevious(job[j])'
<1>1. /\ job \in [Jobs -> Job] /\ job[j] \in Job /\ OnTrack(job[j])
      /\ ActsOnNow(job[j]) /\ KeepsPrevious(job[j]) /\ job[j].ds \in Datasets
  BY Facts
<1>2. /\ alias' = alias /\ ledger' = ledger /\ Existing \subseteq Existing'
      /\ \A d, v : InHistory(d, v)' <=> InHistory(d, v)
      /\ \A d, v, w : Newer(d, v, w)' <=> Newer(d, v, w)
  BY Prepared, SameHistory
<1>3. CASE \/ \E v \in Versions : StartPromote(j, v)
           \/ \E d \in Datasets : StartRollback(j, d)
           \/ Crash(j) \/ RollbackFailed(j) \/ CreateCollection(j) \/ Upsert(j)
  <2>1. job'[j].at \in {"idle", "create", "upsert", "read"}
    <3>1. CASE \E v \in Versions : StartPromote(j, v)
      BY <1>1, <3>1 DEF StartPromote, NoJob
    <3>2. CASE \E d \in Datasets : StartRollback(j, d)
      BY <1>1, <3>2 DEF StartRollback, NoJob
    <3>3. CASE Crash(j) \/ RollbackFailed(j)
      BY <1>1, <3>3 DEF Crash, RollbackFailed, NoJob
    <3>4. CASE CreateCollection(j) \/ Upsert(j)
      BY <1>1, <3>4 DEF CreateCollection, Upsert, Job
    <3> QED BY <1>3, <3>1, <3>2, <3>3, <3>4
  <2> QED BY <2>1 DEF ActsOnNow, KeepsPrevious
<1>4. CASE ReadAlias(j)
  <2>1. /\ job'[j].prev = alias[job[j].ds] /\ job'[j].ds = job[j].ds
        /\ job'[j].at \in {"probe", "record", "list"}
        /\ job'[j].makes = job[j].makes
        /\ job'[j].at = "probe" => job[j].makes = "promoted"
        /\ job'[j].at = "record" => job[j].makes = "rejected"
    <3> DEFINE at == CASE job[j].makes = "promoted" -> "probe"
                       [] job[j].makes = "rejected" -> "record"
                       [] job[j].makes = "rolled_back" -> "list"
    <3>1. /\ at \in {"probe", "record", "list"}
          /\ at = "probe" => job[j].makes = "promoted"
          /\ at = "record" => job[j].makes = "rejected"
      BY <1>1 DEF Job, Decision
    <3>2. job' = [job EXCEPT ![j] = [job[j] EXCEPT !.prev = alias[job[j].ds], !.at = at]]
      BY <1>4 DEF ReadAlias
    <3> HIDE DEF at
    <3> QED BY <1>1, <3>1, <3>2 DEF Job
  <2>2. job'[j].prev # NoVersion =>
          job'[j].prev \in Existing' /\ DatasetOf[job'[j].prev] = job'[j].ds
    BY <1>1, <1>2, <2>1 DEF Inv, SerialInv, AliasesLive, GateInv, GatedServing
  <2> QED BY <1>2, <2>1, <2>2 DEF ActsOnNow, KeepsPrevious
<1>5. CASE ListCollections(j)
  <2>1. /\ job'[j].prev = job[j].prev /\ job'[j].ds = job[j].ds /\ job'[j].at = "choose"
        /\ job[j].at = "list"
    BY <1>1, <1>5 DEF ListCollections, Job
  <2> QED BY <1>1, <1>2, <2>1 DEF ActsOnNow, KeepsPrevious
<1>6. CASE ChooseTarget(j)
  <2>1. PICK v \in Candidates(job[j].ds, job[j].prev, job[j].names) :
          job' = [job EXCEPT ![j] = [job[j] EXCEPT !.ver = v, !.names = {}, !.at = "probe"]]
    BY <1>6 DEF ChooseTarget
  <2>2. /\ job'[j].prev = job[j].prev /\ job'[j].ds = job[j].ds /\ job'[j].at = "probe"
        /\ job[j].at = "choose" /\ job'[j].ver = v
    BY <1>1, <1>6, <2>1 DEF ChooseTarget, Job
  <2>3. /\ v # job[j].prev
        /\ InHistory(job[j].ds, job[j].prev) => Newer(job[j].ds, job[j].prev, v)
    BY DEF Candidates
  <2>4. /\ job[j].prev = alias[job[j].ds]
        /\ job[j].prev # NoVersion =>
             job[j].prev \in Existing /\ DatasetOf[job[j].prev] = job[j].ds
    BY <1>1, <2>2 DEF ActsOnNow, KeepsPrevious
  <2> QED BY <1>2, <2>2, <2>3, <2>4 DEF ActsOnNow, KeepsPrevious
<1>7. CASE ProbeAlias(j)
  <2>1. /\ job'[j].prev = job[j].prev /\ job'[j].ds = job[j].ds /\ job'[j].at = "switch"
        /\ job[j].at = "probe" /\ job'[j].ver = job[j].ver /\ job'[j].makes = job[j].makes
    BY <1>1, <1>7 DEF ProbeAlias, Job
  <2> QED BY <1>1, <1>2, <2>1 DEF ActsOnNow, KeepsPrevious
<1> QED BY <1>3, <1>4, <1>5, <1>6, <1>7 DEF Preparing

LEMMA Switched ==
    ASSUME Inv, NEW j \in Jobs, SwitchAlias(j)
    PROVE  /\ AliasesLive' /\ PromotionsLast' /\ ActsOnNow(job[j])' /\ KeepsPrevious(job[j])'
           /\ job[j].ver \in Existing /\ DatasetOf[job[j].ver] = job[j].ds
<1>1. /\ job \in [Jobs -> Job] /\ job[j] \in Job /\ OnTrack(job[j])
      /\ KeepsPrevious(job[j]) /\ job[j].ds \in Datasets
      /\ alias \in [Datasets -> Target] /\ ledger \in Seq(Row)
  BY Facts
<1>2. /\ job[j].at = "switch" /\ alias' = [alias EXCEPT ![job[j].ds] = job[j].ver]
      /\ coll' = coll /\ ledger' = ledger /\ Existing' = Existing
      /\ job'[j].at = "record" /\ job'[j].prev = job[j].prev /\ job'[j].ds = job[j].ds
      /\ job'[j].ver = job[j].ver
  BY <1>1 DEF SwitchAlias, Job, Existing
<1>3. job[j].ver \in Versions /\ DatasetOf[job[j].ver] = job[j].ds
  BY <1>1, <1>2 DEF OnTrack, HasVersion
<1>4. job[j].ver \in Existing /\ job[j].ver # NoVersion
  BY <1>3, NoVersionAssumption DEF SwitchAlias, Existing
<1>5. AliasesLive'
  BY <1>1, <1>2, <1>4 DEF Inv, SerialInv, AliasesLive
<1>6. PromotionsLast'
  <2> SUFFICES ASSUME NEW i \in DOMAIN ledger, ledger[i].decision = "promoted"
               PROVE  alias'[DatasetOf[ledger[i].version]] # NoVersion
    BY <1>2 DEF PromotionsLast
  <2>1. alias[DatasetOf[ledger[i].version]] # NoVersion
    BY DEF Inv, SerialInv, PromotionsLast
  <2>2. DatasetOf[ledger[i].version] \in Datasets
    <3>1. ledger[i] \in Row
      BY <1>1
    <3> QED BY <3>1, DatasetOfAssumption DEF Row
  <2> QED BY <1>1, <1>2, <1>4, <2>1, <2>2
<1>7. ActsOnNow(job[j])' /\ KeepsPrevious(job[j])'
  BY <1>1, <1>2 DEF ActsOnNow, KeepsPrevious
<1> QED BY <1>3, <1>4, <1>5, <1>6, <1>7

LEMMA Recorded ==
    ASSUME Inv, NEW j \in Jobs, RecordPromotion(j)
    PROVE  /\ AliasesLive' /\ PromotionsLast' /\ ActsOnNow(job[j])' /\ KeepsPrevious(job[j])'
           /\ \E row \in Row : /\ ledger' = Append(ledger, row)
                               /\ row.version = job[j].ver /\ row.decision = job[j].makes
<1>1. /\ job \in [Jobs -> Job] /\ job[j] \in Job /\ OnTrack(job[j])
      /\ ActsOnNow(job[j]) /\ KeepsPrevious(job[j]) /\ job[j].ds \in Datasets
      /\ ledger \in Seq(Row) /\ job[j].makes \in Decision /\ job[j].prev \in Target
  BY Facts DEF Job
<1>2. /\ job[j].at = "record" /\ alias' = alias /\ coll' = coll /\ Existing' = Existing
      /\ job'[j].at = "status" /\ job'[j].prev = job[j].prev /\ job'[j].ds = job[j].ds
      /\ job'[j].ver = job[j].ver /\ job'[j].makes = job[j].makes
  BY <1>1 DEF RecordPromotion, Job, Existing
<1>3. job[j].ver \in Versions /\ DatasetOf[job[j].ver] = job[j].ds
  BY <1>1, <1>2 DEF OnTrack, HasVersion
<1>4. PICK row \in Row : /\ ledger' = Append(ledger, row)
                         /\ row.version = job[j].ver /\ row.decision = job[j].makes
  BY <1>1, <1>3 DEF RecordPromotion, Row, Target
<1>5. job[j].makes # "rejected" => alias[job[j].ds] = job[j].ver
  BY <1>1, <1>2 DEF ActsOnNow
<1>6. AliasesLive'
  BY <1>2 DEF Inv, SerialInv, AliasesLive
<1>7. /\ DOMAIN ledger' = 1..(Len(ledger) + 1) /\ DOMAIN ledger = 1..Len(ledger)
      /\ Len(ledger) \in Nat /\ Len(ledger') = Len(ledger) + 1
      /\ \A i \in DOMAIN ledger : ledger'[i] = ledger[i]
      /\ ledger'[Len(ledger) + 1] = row
  BY <1>1, <1>4, LedgerAppended
<1>8. PromotionsLast'
  <2> SUFFICES ASSUME NEW i \in DOMAIN ledger', ledger'[i].decision = "promoted"
               PROVE  alias[DatasetOf[ledger'[i].version]] # NoVersion
    BY <1>2 DEF PromotionsLast
  <2>1. CASE i \in DOMAIN ledger
    BY <1>7, <2>1 DEF Inv, SerialInv, PromotionsLast
  <2>2. CASE i = Len(ledger) + 1
    BY <1>3, <1>4, <1>5, <1>7, <2>2, NoVersionAssumption
  <2> QED BY <1>7, <2>1, <2>2
<1>9. ActsOnNow(job[j])'
  BY <1>2, <1>5 DEF ActsOnNow
<1>10. job[j].makes = "promoted" => NewestIs(job[j].ds, job[j].ver)'
  BY <1>2, <1>3, <1>4, <1>7 DEF NewestIs, PromotesFor
<1>11. KeepsPrevious(job[j])'
  BY <1>1, <1>2, <1>10 DEF KeepsPrevious
<1> QED BY <1>4, <1>6, <1>8, <1>9, <1>11

LEMMA StatusWritten ==
    ASSUME Inv, NEW j \in Jobs, UpdateStatus(j)
    PROVE  AliasesLive' /\ PromotionsLast' /\ ActsOnNow(job[j])' /\ KeepsPrevious(job[j])'
<1>1. /\ job \in [Jobs -> Job] /\ job[j] \in Job
      /\ ActsOnNow(job[j]) /\ KeepsPrevious(job[j])
  BY Facts
<1>2. alias' = alias /\ ledger' = ledger /\ Existing' = Existing
  BY DEF UpdateStatus, Existing
<1>3. job[j].at = "status"
      /\ job'[j] = IF job[j].makes = "promoted" THEN [job[j] EXCEPT !.at = "expire"] ELSE NoJob
  BY <1>1 DEF UpdateStatus
<1>4. CASE job[j].makes = "promoted"
  <2>1. /\ job'[j].at = "expire" /\ job'[j].prev = job[j].prev /\ job'[j].ds = job[j].ds
        /\ job'[j].ver = job[j].ver
    BY <1>1, <1>3, <1>4 DEF Job
  <2> QED BY <1>1, <1>2, <1>3, <1>4, <2>1, NothingLost, SameHistory DEF ActsOnNow, KeepsPrevious
<1>5. CASE job[j].makes # "promoted"
  <2>1. job'[j].at = "idle"
    BY <1>3, <1>5 DEF NoJob
  <2> QED BY <1>2, <2>1, NothingLost DEF ActsOnNow, KeepsPrevious
<1> QED BY <1>4, <1>5

\* The cleanup never chooses what serves or what was replaced.
LEMMA Spared ==
    ASSUME NEW d, NEW current, NEW previous, NEW names
    PROVE  Expired(d, current, previous, names \cap Versions)
             \subseteq (Listed[d] \cap names \cap Versions) \ {current, previous}
BY NoVersionAssumption DEF Expired

LEMMA ExpiryChosen ==
    ASSUME Inv, NEW j \in Jobs, ExpireCollections(j)
    PROVE  AliasesLive' /\ PromotionsLast' /\ ActsOnNow(job[j])' /\ KeepsPrevious(job[j])'
<1> DEFINE gone == Expired(job[j].ds, job[j].ver, job[j].prev, Existing)
<1>1. /\ job \in [Jobs -> Job] /\ job[j] \in Job /\ OnTrack(job[j])
      /\ ActsOnNow(job[j]) /\ KeepsPrevious(job[j])
  BY Facts
<1>2. alias' = alias /\ ledger' = ledger /\ Existing' = Existing
  BY DEF ExpireCollections, Existing
<1>3. gone \subseteq Listed[job[j].ds] \ {job[j].ver, job[j].prev}
  <2>1. Existing \cap Versions = Existing
    BY DEF Existing
  <2> QED BY <2>1, Spared
<1>4. job[j].at = "expire" /\ job[j].makes = "promoted"
      /\ job'[j] = IF gone = {} THEN NoJob ELSE [job[j] EXCEPT !.names = gone, !.at = "drop"]
  BY <1>1 DEF ExpireCollections, OnTrack
<1> HIDE DEF gone
<1>5. CASE gone # {}
  <2>1. /\ job'[j].at = "drop" /\ job'[j].prev = job[j].prev /\ job'[j].ds = job[j].ds
        /\ job'[j].ver = job[j].ver /\ job'[j].names = gone /\ job'[j].makes = job[j].makes
    BY <1>1, <1>4, <1>5 DEF Job
  <2> QED
    BY <1>1, <1>2, <1>3, <1>4, <2>1, NothingLost, SameHistory DEF ActsOnNow, KeepsPrevious
<1>6. CASE gone = {}
  <2>1. job'[j].at = "idle"
    BY <1>4, <1>6 DEF NoJob
  <2> QED BY <1>2, <2>1, NothingLost DEF ActsOnNow, KeepsPrevious
<1> QED BY <1>5, <1>6

\* What is dropped serves nobody, this dataset or another, and so no alias goes.
LEMMA Dropped ==
    ASSUME Inv, OwnListings, NEW j \in Jobs, DropCollection(j)
    PROVE  /\ AliasesLive' /\ PromotionsLast' /\ ActsOnNow(job[j])' /\ KeepsPrevious(job[j])'
           /\ alias' = alias
           /\ \E v \in job[j].names :
                /\ \A d \in Datasets : alias[d] # v
                /\ v \in Versions /\ v # job[j].prev /\ DatasetOf[v] = job[j].ds
                /\ Existing' = Existing \ {v}
                /\ job'[j] = IF job[j].names \ {v} = {} THEN NoJob
                                 ELSE [job[j] EXCEPT !.names = job[j].names \ {v}]
<1>1. /\ job \in [Jobs -> Job] /\ job[j] \in Job /\ OnTrack(job[j])
      /\ ActsOnNow(job[j]) /\ KeepsPrevious(job[j])
      /\ alias \in [Datasets -> Target] /\ coll \in [Versions -> CollectionState]
      /\ job[j].ds \in Datasets /\ job[j].names \subseteq Versions
  BY Facts
<1>2. job[j].at = "drop" /\ job[j].makes = "promoted" /\ ledger' = ledger
  BY <1>1 DEF DropCollection, OnTrack
<1>3. PICK v \in job[j].names :
        /\ coll' = [coll EXCEPT ![v] = "absent"]
        /\ \/ alias' = alias
           \/ alias' = [d \in Datasets |-> IF alias[d] = v THEN NoVersion ELSE alias[d]]
        /\ job' = [job EXCEPT ![j] = IF job[j].names \ {v} = {} THEN NoJob
                                       ELSE [job[j] EXCEPT !.names = job[j].names \ {v}]]
  BY DEF DropCollection
<1>4. /\ v \in Versions /\ v \in Listed[job[j].ds] /\ v # job[j].ver /\ v # job[j].prev
      /\ alias[job[j].ds] = job[j].ver
  BY <1>1, <1>2, <1>3 DEF ActsOnNow, KeepsPrevious
<1>5. DatasetOf[v] = job[j].ds
  BY <1>1, <1>4 DEF OwnListings
<1>6. ASSUME NEW d \in Datasets PROVE alias[d] # v
  <2>1. alias[d] # NoVersion => DatasetOf[alias[d]] = d
    BY DEF Inv, GateInv, GatedServing
  <2> QED BY <1>4, <1>5, <2>1, NoVersionAssumption
<1>7. alias' = alias
  BY <1>1, <1>3, <1>6
<1>8. /\ Existing' = Existing \ {v}
      /\ job'[j] = IF job[j].names \ {v} = {} THEN NoJob
                       ELSE [job[j] EXCEPT !.names = job[j].names \ {v}]
  BY <1>1, <1>3, <1>4 DEF Existing
<1>9. AliasesLive' /\ PromotionsLast'
  BY <1>2, <1>6, <1>7, <1>8 DEF Inv, SerialInv, AliasesLive, PromotionsLast
<1>10. CASE job[j].names \ {v} = {}
  <2>1. job'[j].at = "idle"
    BY <1>1, <1>3, <1>10 DEF NoJob
  <2>2. ActsOnNow(job[j])' /\ KeepsPrevious(job[j])'
    BY <2>1 DEF ActsOnNow, KeepsPrevious
  <2> QED BY <1>4, <1>5, <1>6, <1>7, <1>8, <1>9, <2>2
<1>11. CASE job[j].names \ {v} # {}
  <2>1. /\ job'[j].at = "drop" /\ job'[j].prev = job[j].prev /\ job'[j].ds = job[j].ds
        /\ job'[j].ver = job[j].ver /\ job'[j].names = job[j].names \ {v}
        /\ job'[j].makes = job[j].makes
    BY <1>1, <1>2, <1>3, <1>11 DEF Job
  <2>2. ActsOnNow(job[j])'
    BY <1>1, <1>2, <1>7, <2>1 DEF ActsOnNow
  <2>3. KeepsPrevious(job[j])'
    BY <1>1, <1>2, <1>4, <1>8, <2>1, SameHistory DEF KeepsPrevious
  <2> QED BY <1>4, <1>5, <1>6, <1>7, <1>8, <1>9, <2>2, <2>3
<1> QED BY <1>10, <1>11

-----------------------------------------------------------------------------
(* What a job's step leaves of the other jobs and their datasets. *)

StepOf(j) == Promote(j) \/ Rollback(j) \/ Shared(j)

LEMMA OthersKept ==
    ASSUME Inv, NEW j \in Jobs, StepOf(j), NEW k \in Jobs, k # j
    PROVE  job'[k] = job[k]
<1>1. job \in [Jobs -> Job]
  BY Facts
<1>2. ASSUME NEW r, job' = [job EXCEPT ![j] = r] PROVE job'[k] = job[k]
  BY <1>1, <1>2
<1>3. \E r : job' = [job EXCEPT ![j] = r]
  <2>1. CASE Promote(j)
    <3>1. CASE \E v \in Versions : StartPromote(j, v)
      BY <3>1 DEF StartPromote
    <3>2. CASE CreateCollection(j) \/ Upsert(j)
      <4>1. CASE CreateCollection(j)
        BY <1>1, <4>1 DEF CreateCollection
      <4>2. CASE Upsert(j)
        BY <1>1, <4>2 DEF Upsert
      <4> QED BY <3>2, <4>1, <4>2
    <3>3. CASE ExpireCollections(j)
      BY <3>3 DEF ExpireCollections
    <3>4. CASE DropCollection(j)
      BY <3>4 DEF DropCollection
    <3> QED BY <2>1, <3>1, <3>2, <3>3, <3>4 DEF Promote
  <2>2. CASE Rollback(j)
    <3>1. CASE \E d \in Datasets : StartRollback(j, d)
      BY <3>1 DEF StartRollback
    <3>2. CASE ListCollections(j)
      BY <3>2 DEF ListCollections
    <3>3. CASE ChooseTarget(j) \/ RollbackFailed(j)
      BY <3>3 DEF ChooseTarget, RollbackFailed
    <3> QED BY <2>2, <3>1, <3>2, <3>3 DEF Rollback
  <2>3. CASE Shared(j)
    <3>1. CASE ReadAlias(j) \/ ProbeAlias(j)
      BY <3>1 DEF ReadAlias, ProbeAlias
    <3>2. CASE SwitchAlias(j) \/ RecordPromotion(j)
      BY <1>1, <3>2 DEF SwitchAlias, RecordPromotion
    <3>3. CASE UpdateStatus(j) \/ Crash(j)
      BY <3>3 DEF UpdateStatus, Crash
    <3> QED BY <2>3, <3>1, <3>2, <3>3 DEF Shared
  <2> QED BY <2>1, <2>2, <2>3 DEF StepOf
<1> QED BY <1>2, <1>3

\* Dataset e as the jobs that work on it see it.
LeavesAlone(e) ==
    /\ alias'[e] = alias[e]
    /\ \A v : InHistory(e, v)' <=> InHistory(e, v)
    /\ \A v, w : Newer(e, v, w)' <=> Newer(e, v, w)
    /\ \A v : NewestIs(e, v)' <=> NewestIs(e, v)
    /\ Existing' \cap Listed[e] = Existing \cap Listed[e]

\* A row of another dataset is not in the history of this one.
LEMMA HistoryElsewhere ==
    ASSUME ledger \in Seq(Row), NEW row \in Row, ledger' = Append(ledger, row),
           NEW e \in Datasets, DatasetOf[row.version] # e
    PROVE  /\ \A v : InHistory(e, v)' <=> InHistory(e, v)
           /\ \A v, w : Newer(e, v, w)' <=> Newer(e, v, w)
           /\ \A v : NewestIs(e, v)' <=> NewestIs(e, v)
<1> DEFINE promoted == {i \in DOMAIN ledger : PromotesFor(e, i)}
<1>1. /\ DOMAIN ledger' = DOMAIN ledger \cup {Len(ledger) + 1}
      /\ \A i \in DOMAIN ledger : ledger'[i] = ledger[i]
      /\ ledger'[Len(ledger) + 1] = row
  BY LedgerAppended
<1>2. \A i \in DOMAIN ledger' : PromotesFor(e, i)' <=> i \in promoted
  BY <1>1 DEF PromotesFor
<1>3. promoted' = promoted
  BY <1>1, <1>2
<1>4. /\ Window(e) = {i \in promoted : Cardinality({k \in promoted : k > i}) < HistoryLimit}
      /\ Window(e)' = {i \in promoted' : Cardinality({k \in promoted' : k > i}) < HistoryLimit}
  BY DEF Window, PromotesFor
<1>5. Window(e)' = Window(e) /\ Window(e) \subseteq DOMAIN ledger
  BY <1>3, <1>4
<1>6. \A v : Promotions(e, v)' = Promotions(e, v)
  BY <1>1, <1>5 DEF Promotions
<1>7. ASSUME NEW v PROVE NewestIs(e, v)' <=> NewestIs(e, v)
  <2>1. NewestIs(e, v) <=>
          \E i \in promoted : ledger[i].version = v /\ \A k \in promoted : k <= i
    BY DEF NewestIs
  <2>2. NewestIs(e, v)' <=>
          \E i \in promoted' : ledger'[i].version = v /\ \A k \in promoted' : k <= i
    BY DEF NewestIs
  <2>3. \A i \in promoted : ledger'[i] = ledger[i]
    BY <1>1
  <2> HIDE DEF promoted
  <2> QED BY <1>3, <2>1, <2>2, <2>3
<1> QED BY <1>6, <1>7 DEF InHistory, Newer

LEMMA Elsewhere ==
    ASSUME Inv, OwnListings, NEW j \in Jobs, StepOf(j), NEW e \in Datasets,
           job[j].at # "idle" => job[j].ds # e
    PROVE  LeavesAlone(e)
<1>1. /\ OnTrack(job[j]) /\ job[j].ds \in Datasets /\ alias \in [Datasets -> Target]
      /\ ledger \in Seq(Row)
  BY Facts
<1>2. HasVersion(job[j]) => job[j].ver \notin Listed[e]
  BY <1>1 DEF OnTrack, HasVersion, OwnListings
<1>3. CASE Preparing(j)
  BY <1>2, <1>3, Prepared, SameHistory DEF LeavesAlone
<1>4. CASE SwitchAlias(j)
  <2>1. /\ ledger' = ledger /\ Existing' = Existing /\ job[j].ds # e
        /\ alias' = [alias EXCEPT ![job[j].ds] = job[j].ver]
    BY <1>4 DEF SwitchAlias, Existing
  <2> QED BY <1>1, <2>1, SameHistory DEF LeavesAlone
<1>5. CASE RecordPromotion(j)
  <2>1. /\ alias' = alias /\ Existing' = Existing /\ job[j].at = "record"
    BY <1>5 DEF RecordPromotion, Existing
  <2>2. PICK row \in Row : /\ ledger' = Append(ledger, row)
                           /\ row.version = job[j].ver
    BY <1>5, Recorded
  <2>3. DatasetOf[row.version] # e
    BY <1>1, <2>1, <2>2 DEF OnTrack, HasVersion
  <2> QED BY <1>1, <2>1, <2>2, <2>3, HistoryElsewhere DEF LeavesAlone
<1>6. CASE UpdateStatus(j) \/ ExpireCollections(j)
  <2>1. alias' = alias /\ ledger' = ledger /\ Existing' = Existing
    BY <1>6 DEF UpdateStatus, ExpireCollections, Existing
  <2> QED BY <2>1, SameHistory DEF LeavesAlone
<1>7. CASE DropCollection(j)
  <2>1. PICK v \in Versions : DatasetOf[v] = job[j].ds /\ Existing' = Existing \ {v}
    BY <1>7, Dropped
  <2>2. alias' = alias /\ ledger' = ledger /\ job[j].at = "drop"
    BY <1>7, Dropped DEF DropCollection
  <2>3. v \notin Listed[e]
    BY <2>1, <2>2 DEF OwnListings
  <2> QED BY <2>1, <2>2, <2>3, SameHistory DEF LeavesAlone
<1> QED BY <1>3, <1>4, <1>5, <1>6, <1>7 DEF StepOf, Promote, Rollback, Shared, Preparing

\* So the jobs of the other datasets keep what they know.
LEMMA Bystander ==
    ASSUME Inv, OwnListings, OneJobPerDataset, NEW j \in Jobs, StepOf(j),
           NEW k \in Jobs, k # j
    PROVE  ActsOnNow(job[k])' /\ KeepsPrevious(job[k])'
<1>1. /\ job'[k] = job[k] /\ ActsOnNow(job[k]) /\ KeepsPrevious(job[k])
      /\ job[k].ds \in Datasets
  BY Facts, OthersKept
<1>2. CASE job[k].at = "idle"
  BY <1>1, <1>2 DEF ActsOnNow, KeepsPrevious
<1>3. CASE job[k].at # "idle"
  <2>1. LeavesAlone(job[k].ds)
    BY <1>1, <1>3, Elsewhere DEF OneJobPerDataset
  <2>2. ASSUME NEW v \in Existing, DatasetOf[v] = job[k].ds PROVE v \in Existing'
    <3>1. v \in Listed[job[k].ds]
      BY <2>2, ListedAssumption DEF Existing
    <3> QED BY <2>1, <3>1 DEF LeavesAlone
  <2>3. ActsOnNow(job[k])'
    BY <1>1, <2>1 DEF ActsOnNow, LeavesAlone
  <2>4. KeepsPrevious(job[k])'
    BY <1>1, <2>1, <2>2 DEF KeepsPrevious, LeavesAlone
  <2> QED BY <2>3, <2>4
<1> QED BY <1>2, <1>3

-----------------------------------------------------------------------------

LEMMA StepInv == Inv /\ OwnListings /\ OneJobPerDataset /\ [Next]_vars => Inv'
<1> SUFFICES ASSUME Inv, OwnListings, OneJobPerDataset, [Next]_vars PROVE Inv'
  OBVIOUS
<1>1. TypeInv' /\ GateInv' /\ AuditInv'
  BY StepTypeInv, StepGateInv, StepAuditInv DEF Inv
<1>2. CASE Next
  <2>1. PICK j \in Jobs : StepOf(j)
    BY <1>2 DEF Next, StepOf
  <2>2. AliasesLive' /\ PromotionsLast' /\ ActsOnNow(job[j])' /\ KeepsPrevious(job[j])'
    <3>1. CASE Preparing(j)
      BY <3>1, Prepared, PreparedJob, NothingLost
    <3>2. CASE SwitchAlias(j) \/ RecordPromotion(j) \/ UpdateStatus(j)
      BY <3>2, Switched, Recorded, StatusWritten
    <3>3. CASE ExpireCollections(j) \/ DropCollection(j)
      BY <3>3, ExpiryChosen, Dropped
    <3> QED BY <2>1, <3>1, <3>2, <3>3 DEF StepOf, Promote, Rollback, Shared, Preparing
  <2>3. \A k \in Jobs : ActsOnNow(job[k])' /\ KeepsPrevious(job[k])'
    BY <2>1, <2>2, Bystander
  <2> QED BY <1>1, <2>2, <2>3 DEF Inv, SerialInv
<1>3. CASE UNCHANGED vars
  <2>1. UNCHANGED <<alias, ledger, job>> /\ Existing' = Existing
    BY <1>3 DEF vars, Existing
  <2>2. \A k \in Jobs : ActsOnNow(job[k])' /\ KeepsPrevious(job[k])'
    BY <2>1, SameHistory DEF Inv, SerialInv, ActsOnNow, KeepsPrevious
  <2> QED BY <1>1, <2>1, <2>2, NothingLost DEF Inv, SerialInv
<1> QED BY <1>2, <1>3

LEMMA AlwaysInv == OwnListings => (Spec /\ []OneJobPerDataset => []Inv)
<1> SUFFICES ASSUME OwnListings PROVE Spec /\ []OneJobPerDataset => []Inv
  OBVIOUS
<1>1. Inv /\ OneJobPerDataset /\ [Next]_vars => Inv'
  BY StepInv
<1> QED BY <1>1, InitSerialInv, PTL DEF Spec

-----------------------------------------------------------------------------
(* Theorems. *)

\* A production alias, once promoted to, always points at a stored collection,
\* whatever crashed.  (engine.py lines 123-124)
THEOREM ProductionServes == OwnListings => (Spec /\ []OneJobPerDataset => []ProdServes)
<1> SUFFICES ASSUME OwnListings PROVE Spec /\ []OneJobPerDataset => []ProdServes
  OBVIOUS
<1>1. Inv => ProdServes
  BY DEF Inv, SerialInv, AliasesLive, PromotionsLast, ProdServes
<1> QED BY <1>1, AlwaysInv, PTL

\* A rollback always goes to a strictly older position of the ledger than the
\* version it takes out of production.  (engine.py lines 118-122)
THEOREM RollbacksWalkBack == OwnListings => (Spec /\ []OneJobPerDataset => RollbackStepsBack)
<1> SUFFICES ASSUME OwnListings PROVE Spec /\ []OneJobPerDataset => RollbackStepsBack
  OBVIOUS
<1>1. Inv /\ [Next]_vars =>
        [\A j \in Jobs :
           LET d == job[j].ds
           IN  SwitchAlias(j) /\ job[j].makes = "rolled_back" /\ InHistory(d, alias[d])
               => Newer(d, alias[d], alias'[d])]_vars
  <2> SUFFICES ASSUME Inv, NEW j \in Jobs, SwitchAlias(j), job[j].makes = "rolled_back",
                      InHistory(job[j].ds, alias[job[j].ds])
               PROVE  Newer(job[j].ds, alias[job[j].ds], alias'[job[j].ds])
    OBVIOUS
  <2>1. ActsOnNow(job[j]) /\ alias \in [Datasets -> Target] /\ job[j].ds \in Datasets
    BY Facts
  <2>2. alias'[job[j].ds] = job[j].ver /\ job[j].at = "switch"
    BY <2>1 DEF SwitchAlias
  <2> QED BY <2>1, <2>2 DEF ActsOnNow
<1> QED BY <1>1, AlwaysInv, PTL DEF Spec, RollbackStepsBack

\* What the newest promotion row of a dataset promotes is in its history, and
\* newer than every other version.
LEMMA NewestIsNewer ==
    ASSUME ledger \in Seq(Row), NEW d \in Datasets, NEW v, NewestIs(d, v), NEW w, w # v
    PROVE  InHistory(d, v) /\ Newer(d, v, w)
<1> DEFINE promoted == {i \in DOMAIN ledger : /\ ledger[i].decision = "promoted"
                                              /\ DatasetOf[ledger[i].version] = d}
<1>1. PICK i \in promoted : ledger[i].version = v /\ \A k \in promoted : k <= i
  BY DEF NewestIs, PromotesFor
<1>2. i \in Nat /\ \A k \in promoted : k \in Nat
  OBVIOUS
<1>3. {k \in promoted : k > i} = {}
  BY <1>1, <1>2
<1>4. Cardinality({k \in promoted : k > i}) < HistoryLimit
  <2>1. Cardinality({}) = 0 /\ 0 < HistoryLimit
    BY FS_EmptySet, BoundsAssumption
  <2> HIDE DEF promoted
  <2> QED BY <1>3, <2>1
<1>5. i \in Promotions(d, v)
  BY <1>1, <1>4 DEF Promotions, Window
<1>6. ASSUME NEW k \in Promotions(d, w) PROVE k < i
  <2>1. k \in promoted /\ ledger[k].version = w
    BY DEF Promotions, Window
  <2> QED BY <1>1, <1>2, <2>1
<1> QED BY <1>5, <1>6 DEF InHistory, Newer

\* A finished promotion leaves the version it replaced as a rollback's target.
\* (engine.py lines 77-84)
THEOREM RollbackIsAvailable == OwnListings => (Spec /\ []OneJobPerDataset => InstantRollback)
<1> SUFFICES ASSUME OwnListings PROVE Spec /\ []OneJobPerDataset => InstantRollback
  OBVIOUS
<1>1. Inv /\ [Next]_vars =>
        [\A j \in Jobs :
           LET d == job[j].ds
           IN  FinishesPromotion(j) /\ job[j].prev # job[j].ver /\ InHistory(d, job[j].prev)
               => /\ job[j].prev \in Existing'
                  /\ job[j].prev \in Candidates(d, job[j].ver, Existing')]_vars
  <2> SUFFICES ASSUME Inv, NEW j \in Jobs, FinishesPromotion(j), job[j].prev # job[j].ver,
                      InHistory(job[j].ds, job[j].prev)
               PROVE  /\ job[j].prev \in Existing'
                      /\ job[j].prev \in Candidates(job[j].ds, job[j].ver, Existing')
    OBVIOUS
  <2>1. /\ job[j] \in Job /\ OnTrack(job[j]) /\ KeepsPrevious(job[j]) /\ ledger \in Seq(Row)
        /\ job[j].ds \in Datasets /\ DOMAIN ledger = 1..Len(ledger)
    BY Facts
  <2>2. job[j].at \in {"expire", "drop"} /\ job[j].makes = "promoted"
    BY <2>1 DEF FinishesPromotion, ExpireCollections, DropCollection, OnTrack
  <2>3. NewestIs(job[j].ds, job[j].ver)
    BY <2>1, <2>2 DEF KeepsPrevious
  <2>4. job[j].prev \in Versions
    <3>1. PICK i \in DOMAIN ledger : ledger[i].version = job[j].prev
      BY DEF InHistory, Promotions, Window
    <3>2. ledger[i] \in Row
      BY <2>1
    <3> QED BY <3>1, <3>2 DEF Row
  <2>5. job[j].prev \in Existing
    BY <2>1, <2>2, <2>4, NoVersionAssumption DEF KeepsPrevious
  <2>6. job[j].prev \in Existing'
    <3>1. CASE ExpireCollections(j)
      BY <2>5, <3>1 DEF ExpireCollections, Existing
    <3>2. CASE DropCollection(j)
      BY <2>5, <3>2, Dropped
    <3> QED BY <3>1, <3>2 DEF FinishesPromotion
  <2>7. Newer(job[j].ds, job[j].ver, job[j].prev)
    BY <2>1, <2>3, NewestIsNewer
  <2> QED BY <2>6, <2>7 DEF Candidates
<1> QED BY <1>1, AlwaysInv, PTL DEF Spec, InstantRollback

-----------------------------------------------------------------------------
(* Retention. *)

\* The members of S smaller than x; and those with fewer than k smaller ones.
Below(S, x) == {y \in S : y < x}
Oldest(S, k) == {x \in S : Cardinality(Below(S, x)) < k}

\* A set of naturals that is not empty has a smallest member.
LEMMA Smallest ==
    ASSUME NEW S \in SUBSET Nat, S # {}
    PROVE  \E x \in S : \A y \in S : x <= y
<1> DEFINE less == {p \in Nat \X Nat : p[1] < p[2]}
<1>1. IsWellFoundedOn(less, Nat)
  BY NatLessThanWellFounded DEF OpToRel
<1> HIDE DEF less
<1>2. PICK x \in S : \A y \in S : <<y, x>> \notin less
  BY <1>1, WFMin
<1>3. \A y \in S : ~(y < x)
  BY <1>2 DEF less
<1> QED BY <1>3

\* One more: when k of S are its k oldest and some are left, k + 1 are its
\* k + 1 oldest.
LEMMA OneMore ==
    ASSUME NEW S \in SUBSET Nat, IsFiniteSet(S), NEW k \in Nat, k < Cardinality(S),
           Cardinality(Oldest(S, k)) = k
    PROVE  Cardinality(Oldest(S, k + 1)) = k + 1
<1> DEFINE O == Oldest(S, k)
<1>1. O \in SUBSET S /\ IsFiniteSet(O) /\ O # S
  <2>1. O \in SUBSET S
    BY DEF Oldest
  <2>2. IsFiniteSet(O) /\ O # S
    BY <2>1, FS_Subset, FS_CardinalityType
  <2> QED BY <2>1, <2>2
<1>2. PICK x \in S \ O : \A y \in S \ O : x <= y
  <2>1. S \ O \in SUBSET Nat /\ S \ O # {}
    BY <1>1
  <2> HIDE DEF O
  <2> QED BY <2>1, Smallest
<1>3. ASSUME NEW z \in S
      PROVE  IsFiniteSet(Below(S, z)) /\ Cardinality(Below(S, z)) \in Nat
  <2>1. Below(S, z) \in SUBSET S
    BY DEF Below
  <2> QED BY <2>1, FS_Subset, FS_CardinalityType
<1>4. \A z \in S : z \in O <=> Cardinality(Below(S, z)) < k
  BY DEF Oldest
<1>n. \A z, y : y \in Below(S, z) <=> y \in S /\ y < z
  BY DEF Below
<1>o. x \in S /\ x \notin O /\ O \subseteq S /\ S \subseteq Nat /\ x \in Nat
  BY <1>1, <1>2
<1> HIDE DEF O
<1>5. Below(S, x) = O
  <2>1. ASSUME NEW y \in Below(S, x) PROVE y \in O
    <3>1. y \in S /\ y < x
      BY <1>n
    <3> QED BY <1>2, <1>o, <3>1
  <2>2. ASSUME NEW y \in O, ~(y < x) PROVE FALSE
    <3>1. y \in S /\ x <= y
      BY <1>o, <2>2
    <3>2. ASSUME NEW w \in Below(S, x) PROVE w \in Below(S, y)
      <4>1. w \in S /\ w < x
        BY <1>n
      <4>2. w < y
        BY <1>o, <3>1, <4>1
      <4> QED BY <1>n, <4>1, <4>2
    <3>3. Cardinality(Below(S, x)) <= Cardinality(Below(S, y))
      BY <1>3, <3>1, <3>2, FS_Subset
    <3>4. Cardinality(Below(S, y)) < k
      BY <1>4, <3>1
    <3>5. Cardinality(Below(S, x)) < k
      BY <1>3, <1>o, <3>1, <3>3, <3>4
    <3> QED BY <1>4, <1>o, <3>5
  <2> QED BY <1>n, <1>o, <2>1, <2>2
<1>6. ASSUME NEW z \in S, z # x, z \notin O PROVE ~(Cardinality(Below(S, z)) < k + 1)
  <2>1. x < z
    BY <1>2, <1>o, <1>6
  <2>2. \A w \in O \cup {x} : w \in Below(S, z)
    BY <1>n, <1>o, <1>5, <2>1
  <2>3. Cardinality(O \cup {x}) = k + 1
    BY <1>1, <1>o, FS_AddElement DEF O
  <2>4. Cardinality(O \cup {x}) <= Cardinality(Below(S, z))
    BY <1>3, <2>2, FS_Subset
  <2> QED BY <1>3, <2>3, <2>4
<1>7. \A z \in O : Cardinality(Below(S, z)) < k + 1
  BY <1>3, <1>4, <1>o
<1>8. Cardinality(Below(S, x)) < k + 1
  BY <1>5 DEF O
<1>9. \A z : z \in Oldest(S, k + 1) <=> z \in S /\ Cardinality(Below(S, z)) < k + 1
  BY DEF Oldest
<1>10. Oldest(S, k + 1) = O \cup {x}
  BY <1>o, <1>6, <1>7, <1>8, <1>9
<1> QED BY <1>1, <1>o, <1>10, FS_AddElement DEF O

\* The k oldest are k.
LEMMA OldestCounted ==
    ASSUME NEW S \in SUBSET Nat, IsFiniteSet(S), NEW n \in Nat, n <= Cardinality(S)
    PROVE  Cardinality(Oldest(S, n)) = n
<1> DEFINE bad == {k \in 0..n : Cardinality(Oldest(S, k)) # k}
<1>1. Cardinality(S) \in Nat
  BY FS_CardinalityType
<1>2. Oldest(S, 0) = {}
  <2>1. ASSUME NEW x \in S PROVE ~(Cardinality(Below(S, x)) < 0)
    <3>1. Below(S, x) \in SUBSET S
      BY DEF Below
    <3>2. Cardinality(Below(S, x)) \in Nat
      BY <3>1, FS_Subset, FS_CardinalityType
    <3> QED BY <3>2
  <2> QED BY <2>1 DEF Oldest
<1>3. ASSUME bad # {} PROVE FALSE
  <2>1. PICK m \in bad : \A k \in bad : m <= k
    <3>1. bad \in SUBSET Nat
      OBVIOUS
    <3> HIDE DEF bad
    <3> QED BY <1>3, <3>1, Smallest
  <2>2. m # 0
    BY <1>2, FS_EmptySet
  <2>3. m - 1 \in Nat /\ m - 1 < Cardinality(S) /\ m - 1 \in 0..n
    BY <1>1, <2>2
  <2>4. m - 1 \notin bad
    BY <2>1
  <2>5. Cardinality(Oldest(S, m - 1)) = m - 1
    BY <2>3, <2>4
  <2>6. Cardinality(Oldest(S, (m - 1) + 1)) = (m - 1) + 1
    BY <2>3, <2>5, OneMore
  <2> QED BY <2>6
<1> QED BY <1>3

\* The window is left with RETAIN_VERSIONS collections at most, and with exactly
\* as many when something is expired and the kept ones are there.
LEMMA WindowKept ==
    ASSUME RETAIN_VERSIONS >= 2, NEW d \in Datasets, NEW current \in Target,
           NEW previous \in Target, NEW names \in SUBSET Versions, IsFiniteSet(names)
    PROVE  LET gone == Expired(d, current, previous, names)
               left == (names \cap Listed[d]) \ gone
           IN  /\ Cardinality(left) <= RETAIN_VERSIONS
               /\ gone # {} /\ {current, previous} \ {NoVersion} \subseteq names \cap Listed[d]
                    => Cardinality(left) = RETAIN_VERSIONS
<1> DEFINE keep == {current, previous} \ {NoVersion}
           candidates == (names \cap Listed[d]) \ keep
           room == RETAIN_VERSIONS - Cardinality(keep)
           excess == Cardinality(candidates) - room
           gone == Expired(d, current, previous, names)
<1>1. IsFiniteSet(keep) /\ Cardinality(keep) \in 0..2
  <2>1. IsFiniteSet({current} \cup {previous}) /\ Cardinality({current} \cup {previous}) <= 2
    <3>1. IsFiniteSet({current}) /\ Cardinality({current}) = 1
      BY FS_Singleton
    <3> HIDE DEF keep, candidates, room, excess, gone
    <3> QED BY <3>1, FS_AddElement
  <2>2. keep \in SUBSET ({current} \cup {previous})
    OBVIOUS
  <2>3. IsFiniteSet(keep) /\ Cardinality(keep) <= Cardinality({current} \cup {previous})
    BY <2>1, <2>2, FS_Subset
  <2> HIDE DEF keep
  <2>4. Cardinality(keep) \in Nat /\ Cardinality({current} \cup {previous}) \in Nat
    BY <2>1, <2>3, FS_CardinalityType
  <2> QED BY <2>1, <2>3, <2>4
<1>2. /\ candidates \in SUBSET Nat /\ IsFiniteSet(candidates)
      /\ Cardinality(candidates) \in Nat
  <2>1. candidates \in SUBSET names /\ candidates \in SUBSET Nat
    BY VersionsAreOrdered
  <2> HIDE DEF candidates
  <2> QED BY <2>1, FS_Subset, FS_CardinalityType
<1>3. room \in Nat /\ RETAIN_VERSIONS \in Nat /\ room + Cardinality(keep) = RETAIN_VERSIONS
  <2>1. RETAIN_VERSIONS \in Nat
    BY BoundsAssumption
  <2> HIDE DEF keep
  <2> QED BY <1>1, <2>1
<1>4. gone = Oldest(candidates, excess)
  BY DEF Expired, Oldest, Below
<1>5. (names \cap Listed[d]) \ gone \subseteq (candidates \ gone) \cup keep
  OBVIOUS
<1> HIDE DEF keep, candidates, gone
<1>6. gone \in SUBSET candidates
  BY <1>4 DEF Oldest
<1>7. /\ IsFiniteSet(candidates \ gone) /\ Cardinality(candidates \ gone) <= room
      /\ excess >= 0 => Cardinality(candidates \ gone) = room
  <2>1. CASE excess >= 0
    <3>1. excess \in Nat /\ excess <= Cardinality(candidates)
      BY <1>2, <1>3, <2>1
    <3>2. Cardinality(gone) = excess
      BY <1>2, <1>4, <3>1, OldestCounted
    <3>3. IsFiniteSet(gone)
      BY <1>2, <1>6, FS_Subset
    <3>4. /\ IsFiniteSet(candidates \ gone)
          /\ Cardinality(candidates \ gone)
               = Cardinality(candidates) - Cardinality(candidates \cap gone)
      BY <1>2, FS_Difference
    <3>5. candidates \cap gone = gone
      BY <1>6
    <3>6. Cardinality(candidates \ gone) = Cardinality(candidates) - excess
      BY <3>2, <3>4, <3>5
    <3> HIDE DEF room
    <3> QED BY <1>2, <1>3, <3>4, <3>6
  <2>2. CASE ~(excess >= 0)
    <3>1. Cardinality(candidates) < room
      BY <1>2, <1>3, <2>2
    <3>2. candidates \ gone \in SUBSET candidates
      OBVIOUS
    <3>3. /\ IsFiniteSet(candidates \ gone)
          /\ Cardinality(candidates \ gone) <= Cardinality(candidates)
          /\ Cardinality(candidates \ gone) \in Nat
      BY <1>2, <3>2, FS_Subset, FS_CardinalityType
    <3> HIDE DEF room
    <3> QED BY <1>2, <1>3, <2>2, <3>1, <3>3
  <2> QED BY <2>1, <2>2
<1>8. /\ IsFiniteSet((candidates \ gone) \cup keep)
      /\ Cardinality((candidates \ gone) \cup keep) <= RETAIN_VERSIONS
  <2>1. /\ IsFiniteSet((candidates \ gone) \cup keep)
        /\ Cardinality((candidates \ gone) \cup keep)
             = Cardinality(candidates \ gone) + Cardinality(keep)
                 - Cardinality((candidates \ gone) \cap keep)
    BY <1>1, <1>7, FS_Union
  <2>2. Cardinality((candidates \ gone) \cap keep) \in Nat
    <3>1. (candidates \ gone) \cap keep \in SUBSET keep
      OBVIOUS
    <3> QED BY <1>1, <3>1, FS_Subset, FS_CardinalityType
  <2>3. Cardinality(candidates \ gone) \in Nat
    BY <1>7, FS_CardinalityType
  <2> HIDE DEF room
  <2> QED BY <1>1, <1>3, <1>7, <2>1, <2>2, <2>3
<1>9. Cardinality((names \cap Listed[d]) \ gone)
        <= Cardinality((candidates \ gone) \cup keep)
  BY <1>5, <1>8, FS_Subset
<1>10. /\ Cardinality((names \cap Listed[d]) \ gone) \in Nat
       /\ Cardinality((candidates \ gone) \cup keep) \in Nat
  BY <1>5, <1>8, FS_Subset, FS_CardinalityType
<1>11. ASSUME gone # {}, keep \subseteq names \cap Listed[d]
       PROVE  Cardinality((names \cap Listed[d]) \ gone) = RETAIN_VERSIONS
  <2>1. excess >= 0
    <3>1. PICK v \in candidates : Cardinality(Below(candidates, v)) < excess
      BY <1>4, <1>11 DEF Oldest
    <3>2. Below(candidates, v) \in SUBSET candidates
      BY DEF Below
    <3>3. Cardinality(Below(candidates, v)) \in Nat
      BY <1>2, <3>2, FS_Subset, FS_CardinalityType
    <3> HIDE DEF room
    <3> QED BY <1>2, <1>3, <3>1, <3>3
  <2>2. /\ (names \cap Listed[d]) \ gone = (candidates \ gone) \cup keep
        /\ (candidates \ gone) \cap keep = {}
    BY <1>6, <1>11 DEF candidates
  <2>3. Cardinality((candidates \ gone) \cup keep)
          = Cardinality(candidates \ gone) + Cardinality(keep) - 0
    BY <1>1, <1>7, <2>2, FS_Union, FS_EmptySet
  <2> HIDE DEF room
  <2> QED BY <1>1, <1>3, <1>7, <2>1, <2>2, <2>3
<1> QED BY <1>3, <1>8, <1>9, <1>10, <1>11 DEF gone, keep

\* A cleanup that still has collections to drop will leave RETAIN_VERSIONS when
\* it has dropped them.
RoomKept(r) ==
    r.at = "drop" => Cardinality((Existing \cap Listed[r.ds]) \ r.names) = RETAIN_VERSIONS

RetentionInv == IsFiniteSet(Existing) /\ \A j \in Jobs : RoomKept(job[j])

LEMMA InitRetentionInv == Init => RetentionInv
<1> SUFFICES ASSUME Init PROVE RetentionInv
  OBVIOUS
<1>1. Existing = {} /\ \A j \in Jobs : job[j].at = "idle"
  BY DEF Init, NoJob, Existing
<1> QED BY <1>1, FS_EmptySet DEF RetentionInv, RoomKept

\* The collections stay finite in number.
LEMMA StaysFinite ==
    ASSUME Inv, OwnListings, IsFiniteSet(Existing), NEW j \in Jobs, StepOf(j)
    PROVE  IsFiniteSet(Existing')
<1>1. Existing' \in SUBSET (Existing \cup {job[j].ver})
  <2>1. CASE Preparing(j)
    BY <2>1, Prepared
  <2>2. CASE DropCollection(j)
    BY <2>2, Dropped
  <2>3. CASE \/ SwitchAlias(j) \/ RecordPromotion(j) \/ UpdateStatus(j)
             \/ ExpireCollections(j)
    BY <2>3 DEF SwitchAlias, RecordPromotion, UpdateStatus, ExpireCollections, Existing
  <2> QED BY <2>1, <2>2, <2>3 DEF StepOf, Promote, Rollback, Shared, Preparing
<1> QED BY <1>1, FS_AddElement, FS_Subset

\* What the cleanup keeps, the promoted version and the one it replaced, is there.
LEMMA BothKept ==
    ASSUME Inv, NEW j \in Jobs, ExpireCollections(j) \/ DropCollection(j)
    PROVE  /\ job[j].ver \in Existing \cap Listed[job[j].ds]
           /\ job[j].prev # NoVersion => job[j].prev \in Existing \cap Listed[job[j].ds]
<1>1. /\ job[j] \in Job /\ OnTrack(job[j]) /\ ActsOnNow(job[j]) /\ KeepsPrevious(job[j])
      /\ job[j].ds \in Datasets
  BY Facts
<1>2. job[j].at \in {"expire", "drop"} /\ job[j].makes = "promoted"
  BY <1>1 DEF ExpireCollections, DropCollection, OnTrack
<1>3. alias[job[j].ds] = job[j].ver /\ job[j].ver \in Versions
  BY <1>1, <1>2 DEF ActsOnNow, OnTrack, HasVersion
<1>4. job[j].ver \in Existing /\ DatasetOf[job[j].ver] = job[j].ds
  BY <1>1, <1>3, NoVersionAssumption
     DEF Inv, SerialInv, AliasesLive, GateInv, GatedServing
<1>5. job[j].prev # NoVersion => job[j].prev \in Existing /\ DatasetOf[job[j].prev] = job[j].ds
  BY <1>1, <1>2 DEF KeepsPrevious
<1> QED BY <1>4, <1>5, ListedAssumption DEF Existing

\* The step of the cleanup itself: it chooses what to drop, or drops one.
LEMMA CleanupStep ==
    ASSUME Inv, OwnListings, RetentionInv, RETAIN_VERSIONS >= 2, NEW j \in Jobs,
           ExpireCollections(j) \/ DropCollection(j)
    PROVE  /\ RoomKept(job[j])'
           /\ job'[j].at = "idle" =>
                Cardinality(Existing' \cap Listed[job[j].ds]) <= RETAIN_VERSIONS
           /\ DropCollection(j) /\ job'[j].at = "idle" =>
                Cardinality(Existing' \cap Listed[job[j].ds]) = RETAIN_VERSIONS
<1> USE BoundsAssumption
<1>1. /\ job \in [Jobs -> Job] /\ job[j] \in Job /\ job[j].ds \in Datasets
      /\ job[j].ver \in Target /\ job[j].prev \in Target /\ job[j].names \subseteq Versions
      /\ IsFiniteSet(Existing) /\ RoomKept(job[j])
  BY Facts DEF RetentionInv
<1>2. CASE ExpireCollections(j)
  <2> DEFINE gone == Expired(job[j].ds, job[j].ver, job[j].prev, Existing)
  <2>1. /\ Cardinality((Existing \cap Listed[job[j].ds]) \ gone) <= RETAIN_VERSIONS
        /\ gone # {} =>
             Cardinality((Existing \cap Listed[job[j].ds]) \ gone) = RETAIN_VERSIONS
    <3>1. Existing \in SUBSET Versions
      BY DEF Existing
    <3>2. {job[j].ver, job[j].prev} \ {NoVersion} \subseteq Existing \cap Listed[job[j].ds]
      BY <1>2, BothKept
    <3> HIDE DEF gone
    <3> QED BY <1>1, <3>1, <3>2, WindowKept DEF gone
  <2>2. /\ job'[j] = IF gone = {} THEN NoJob ELSE [job[j] EXCEPT !.names = gone, !.at = "drop"]
        /\ Existing' = Existing
    BY <1>1, <1>2 DEF ExpireCollections, Existing
  <2> HIDE DEF gone
  <2>0. ~DropCollection(j)
    BY <1>2 DEF ExpireCollections, DropCollection
  <2>3. CASE gone = {}
    <3>1. job'[j].at = "idle" /\ (Existing \cap Listed[job[j].ds]) \ gone
                                   = Existing \cap Listed[job[j].ds]
      BY <2>2, <2>3 DEF NoJob
    <3> QED BY <2>0, <2>1, <2>2, <3>1 DEF RoomKept
  <2>4. CASE gone # {}
    <3>1. job'[j].at = "drop" /\ job'[j].names = gone /\ job'[j].ds = job[j].ds
      BY <1>1, <2>2, <2>4 DEF Job
    <3> QED BY <2>1, <2>2, <2>4, <3>1 DEF RoomKept
  <2> QED BY <2>3, <2>4
<1>3. CASE DropCollection(j)
  <2>1. PICK v \in job[j].names :
          /\ Existing' = Existing \ {v}
          /\ job'[j] = IF job[j].names \ {v} = {} THEN NoJob
                         ELSE [job[j] EXCEPT !.names = job[j].names \ {v}]
    BY <1>3, Dropped
  <2>2. job[j].at = "drop"
    BY <1>3 DEF DropCollection
  <2>3. Cardinality((Existing \cap Listed[job[j].ds]) \ job[j].names) = RETAIN_VERSIONS
    BY <1>1, <2>2 DEF RoomKept
  <2>4. (Existing' \cap Listed[job[j].ds]) \ (job[j].names \ {v})
          = (Existing \cap Listed[job[j].ds]) \ job[j].names
    BY <2>1
  <2>5. CASE job[j].names \ {v} = {}
    <3>1. job'[j].at = "idle" /\ (Existing' \cap Listed[job[j].ds]) \ (job[j].names \ {v})
                                   = Existing' \cap Listed[job[j].ds]
      BY <2>1, <2>5 DEF NoJob
    <3> QED BY <2>3, <2>4, <3>1 DEF RoomKept
  <2>6. CASE job[j].names \ {v} # {}
    <3>1. /\ job'[j].at = "drop" /\ job'[j].names = job[j].names \ {v}
          /\ job'[j].ds = job[j].ds
      BY <1>1, <2>1, <2>2, <2>6 DEF Job
    <3> QED BY <2>3, <2>4, <3>1 DEF RoomKept
  <2> QED BY <2>5, <2>6
<1> QED BY <1>2, <1>3

\* Only a cleanup has collections to drop.
LEMMA OnlyCleanupDrops ==
    ASSUME Inv, NEW j \in Jobs, StepOf(j), job'[j].at = "drop"
    PROVE  ExpireCollections(j) \/ DropCollection(j)
<1>1. job \in [Jobs -> Job] /\ job[j] \in Job
  BY Facts
<1> SUFFICES ASSUME ~(ExpireCollections(j) \/ DropCollection(j)) PROVE job'[j].at # "drop"
  OBVIOUS
<1>2. CASE \/ \E v \in Versions : StartPromote(j, v)
           \/ \E d \in Datasets : StartRollback(j, d)
           \/ Crash(j) \/ RollbackFailed(j)
  <2>1. CASE \E v \in Versions : StartPromote(j, v)
    BY <1>1, <2>1 DEF StartPromote, NoJob
  <2>2. CASE \E d \in Datasets : StartRollback(j, d)
    BY <1>1, <2>2 DEF StartRollback, NoJob
  <2>3. CASE Crash(j) \/ RollbackFailed(j)
    BY <1>1, <2>3 DEF Crash, RollbackFailed, NoJob
  <2> QED BY <1>2, <2>1, <2>2, <2>3
<1>3. CASE CreateCollection(j) \/ Upsert(j) \/ ListCollections(j)
  BY <1>1, <1>3 DEF CreateCollection, Upsert, ListCollections, Job
<1>4. CASE ProbeAlias(j) \/ SwitchAlias(j) \/ RecordPromotion(j)
  BY <1>1, <1>4 DEF ProbeAlias, SwitchAlias, RecordPromotion, Job
<1>5. CASE ReadAlias(j)
  <2> DEFINE at == CASE job[j].makes = "promoted" -> "probe"
                     [] job[j].makes = "rejected" -> "record"
                     [] job[j].makes = "rolled_back" -> "list"
  <2>1. at # "drop"
    BY <1>1 DEF Job, Decision
  <2>2. job' = [job EXCEPT ![j] = [job[j] EXCEPT !.prev = alias[job[j].ds], !.at = at]]
    BY <1>5 DEF ReadAlias
  <2> HIDE DEF at
  <2> QED BY <1>1, <2>1, <2>2 DEF Job
<1>6. CASE ChooseTarget(j)
  <2>1. PICK v : job' = [job EXCEPT ![j] = [job[j] EXCEPT !.ver = v, !.names = {},
                                                          !.at = "probe"]]
    BY <1>6 DEF ChooseTarget
  <2> QED BY <1>1, <2>1 DEF Job
<1>7. CASE UpdateStatus(j)
  BY <1>1, <1>7 DEF UpdateStatus, NoJob, Job
<1> QED BY <1>2, <1>3, <1>4, <1>5, <1>6, <1>7 DEF StepOf, Promote, Rollback, Shared

LEMMA StepRetentionInv ==
    Inv /\ OwnListings /\ OneJobPerDataset /\ RETAIN_VERSIONS >= 2 /\ RetentionInv /\ [Next]_vars
      => RetentionInv'
<1> SUFFICES ASSUME Inv, OwnListings, OneJobPerDataset, RETAIN_VERSIONS >= 2, RetentionInv,
                    [Next]_vars
             PROVE  RetentionInv'
  OBVIOUS
<1>1. CASE Next
  <2>1. PICK j \in Jobs : StepOf(j)
    BY <1>1 DEF Next, StepOf
  <2>2. IsFiniteSet(Existing')
    BY <2>1, StaysFinite DEF RetentionInv
  <2>3. RoomKept(job[j])'
    BY <2>1, CleanupStep, OnlyCleanupDrops DEF RoomKept
  <2>4. ASSUME NEW k \in Jobs, k # j PROVE RoomKept(job[k])'
    <3>1. job'[k] = job[k] /\ RoomKept(job[k]) /\ job[k].ds \in Datasets
      BY <2>1, <2>4, OthersKept, Facts DEF RetentionInv
    <3>2. CASE job[k].at # "drop"
      BY <3>1, <3>2 DEF RoomKept
    <3>3. CASE job[k].at = "drop"
      <4>1. LeavesAlone(job[k].ds)
        BY <2>1, <2>4, <3>1, <3>3, Elsewhere DEF OneJobPerDataset
      <4> QED BY <3>1, <4>1 DEF RoomKept, LeavesAlone
    <3> QED BY <3>2, <3>3
  <2> QED BY <2>2, <2>3, <2>4 DEF RetentionInv
<1>2. CASE UNCHANGED vars
  BY <1>2 DEF vars, RetentionInv, RoomKept, Existing
<1> QED BY <1>1, <1>2

LEMMA AlwaysRetentionInv ==
    OwnListings /\ RETAIN_VERSIONS >= 2 =>
        (Spec /\ []OneJobPerDataset => [](Inv /\ RetentionInv))
<1> SUFFICES ASSUME OwnListings, RETAIN_VERSIONS >= 2
             PROVE  Spec /\ []OneJobPerDataset => [](Inv /\ RetentionInv)
  OBVIOUS
<1>1. Inv /\ OneJobPerDataset /\ RetentionInv /\ [Next]_vars => RetentionInv'
  BY StepRetentionInv
<1> QED BY <1>1, InitRetentionInv, AlwaysInv, PTL DEF Spec

\* A promotion that finishes leaves at most RETAIN_VERSIONS old collections of
\* its dataset, those that crashes left behind included, when the window has
\* room for the two versions it must keep (the code's is 3).  (engine.py lines
\* 174-190)
THEOREM RetentionIsHonoured ==
    OwnListings /\ RETAIN_VERSIONS >= 2 => (Spec /\ []OneJobPerDataset => RetentionHonoured)
<1> SUFFICES ASSUME OwnListings, RETAIN_VERSIONS >= 2
             PROVE  Spec /\ []OneJobPerDataset => RetentionHonoured
  OBVIOUS
<1>1. ASSUME Inv, RetentionInv, NEW j \in Jobs, FinishesPromotion(j)
      PROVE  Cardinality(OldOnes(j, Existing')) <= RETAIN_VERSIONS
  <2> DEFINE left == Existing' \cap Listed[job[j].ds]
  <2>1. Cardinality(left) <= RETAIN_VERSIONS
    BY <1>1, CleanupStep DEF FinishesPromotion
  <2>2. IsFiniteSet(left) /\ OldOnes(j, Existing') \in SUBSET left
    <3>1. IsFiniteSet(Existing')
      BY <1>1, StaysFinite DEF RetentionInv, FinishesPromotion, StepOf, Promote
    <3> QED BY <3>1, FS_Subset DEF OldOnes
  <2> HIDE DEF left
  <2>3. /\ Cardinality(OldOnes(j, Existing')) <= Cardinality(left)
        /\ Cardinality(OldOnes(j, Existing')) \in Nat /\ Cardinality(left) \in Nat
    BY <2>2, FS_Subset, FS_CardinalityType
  <2> QED BY <2>1, <2>3, BoundsAssumption
<1>2. Inv /\ RetentionInv /\ [Next]_vars =>
        [\A j \in Jobs : FinishesPromotion(j) =>
           Cardinality(OldOnes(j, Existing')) <= RETAIN_VERSIONS]_vars
  BY <1>1
<1> QED BY <1>2, AlwaysRetentionInv, PTL DEF Spec, RetentionHonoured

\* A cleanup that drops anything leaves RETAIN_VERSIONS - 1 old collections, one
\* fewer than "keep this many old collections" (engine.py line 25) and
\* docs/architecture.md lines 107-108 say: the window counts the promoted one.
\* (engine.py lines 183-187)
THEOREM OldOnesAreOneFewer ==
    OwnListings /\ RETAIN_VERSIONS >= 2 =>
        (Spec /\ []OneJobPerDataset =>
            [][\A j \in Jobs : DropCollection(j) /\ job'[j].at = "idle" =>
                 Cardinality(OldOnes(j, Existing')) = RETAIN_VERSIONS - 1]_vars)
<1> SUFFICES ASSUME OwnListings, RETAIN_VERSIONS >= 2
             PROVE  Spec /\ []OneJobPerDataset =>
                      [][\A j \in Jobs : DropCollection(j) /\ job'[j].at = "idle" =>
                           Cardinality(OldOnes(j, Existing')) = RETAIN_VERSIONS - 1]_vars
  OBVIOUS
<1>1. ASSUME Inv, RetentionInv, NEW j \in Jobs, DropCollection(j), job'[j].at = "idle"
      PROVE  Cardinality(OldOnes(j, Existing')) = RETAIN_VERSIONS - 1
  <2> DEFINE left == Existing' \cap Listed[job[j].ds]
  <2>1. Cardinality(left) = RETAIN_VERSIONS
    BY <1>1, CleanupStep
  <2>2. IsFiniteSet(left)
    <3>1. IsFiniteSet(Existing')
      BY <1>1, StaysFinite DEF RetentionInv, StepOf, Promote
    <3> QED BY <3>1, FS_Subset
  <2>3. job[j].ver \in left
    <3>1. \A v \in job[j].names : v # job[j].ver
      BY <1>1, Facts DEF DropCollection, KeepsPrevious
    <3>2. job[j].ver \in Existing \cap Listed[job[j].ds]
      BY <1>1, BothKept
    <3> QED BY <1>1, <3>1, <3>2, Dropped
  <2>4. OldOnes(j, Existing') = left \ {job[j].ver}
    BY DEF OldOnes
  <2> HIDE DEF left
  <2> QED BY <2>1, <2>2, <2>3, <2>4, FS_RemoveElement
<1>2. Inv /\ RetentionInv /\ [Next]_vars =>
        [\A j \in Jobs : DropCollection(j) /\ job'[j].at = "idle" =>
           Cardinality(OldOnes(j, Existing')) = RETAIN_VERSIONS - 1]_vars
  BY <1>1
<1> QED BY <1>2, AlwaysRetentionInv, PTL DEF Spec

-----------------------------------------------------------------------------
(* The engine implements BlueGreen. *)

\* What the other jobs have under promotion.
Others(j) == {job[k].ver : k \in {i \in Jobs \ {j} : UnderPromotion(job[i])}}

LEMMA Candidacy ==
    ASSUME Inv, OneJobPerDataset, NEW j \in Jobs, StepOf(j)
    PROVE  /\ InPromotion = Others(j) \cup IF UnderPromotion(job[j]) THEN {job[j].ver} ELSE {}
           /\ InPromotion' = Others(j) \cup IF UnderPromotion(job[j])' THEN {job'[j].ver}
                                              ELSE {}
           /\ UnderPromotion(job[j]) => job[j].ver \notin Others(j)
<1>1. \A k \in Jobs \ {j} : job'[k] = job[k]
  BY OthersKept
<1>2. InPromotion = Others(j) \cup IF UnderPromotion(job[j]) THEN {job[j].ver} ELSE {}
  BY DEF InPromotion, Others
<1>3. InPromotion' = Others(j)' \cup IF UnderPromotion(job[j])' THEN {job'[j].ver} ELSE {}
  BY DEF InPromotion, Others
<1>4. Others(j)' = Others(j)
  BY <1>1 DEF Others, UnderPromotion
<1>5. ASSUME UnderPromotion(job[j]), NEW k \in Jobs \ {j}, UnderPromotion(job[k])
      PROVE  job[k].ver # job[j].ver
  <2>1. job[k].ds # job[j].ds
    BY <1>5 DEF OneJobPerDataset, UnderPromotion
  <2>2. DatasetOf[job[j].ver] = job[j].ds /\ DatasetOf[job[k].ver] = job[k].ds
    <3>1. OnTrack(job[j]) /\ OnTrack(job[k])
      BY Facts
    <3> QED BY <1>5, <3>1 DEF OnTrack, HasVersion, UnderPromotion
  <2> QED BY <2>1, <2>2
<1> QED BY <1>2, <1>3, <1>4, <1>5 DEF Others

\* Steps a reader of the stores does not notice.
LEMMA Unnoticed ==
    ASSUME Inv, OneJobPerDataset, NEW j \in Jobs,
           \/ \E d \in Datasets : StartRollback(j, d)
           \/ RollbackFailed(j) \/ Upsert(j) \/ ReadAlias(j) \/ ListCollections(j)
           \/ ChooseTarget(j) \/ ProbeAlias(j) \/ ExpireCollections(j)
    PROVE  UNCHANGED Abstract!bgvars
<1>1. /\ job \in [Jobs -> Job] /\ job[j] \in Job /\ OnTrack(job[j])
      /\ coll \in [Versions -> CollectionState]
  BY Facts
<1>2. UNCHANGED <<alias, ledger>> /\ Existing' = Existing
  BY <1>1 DEF StartRollback, RollbackFailed, Upsert, ReadAlias, ListCollections, ChooseTarget,
     ProbeAlias, ExpireCollections, Existing
<1>3. UnderPromotion(job[j])' <=> UnderPromotion(job[j])
  <2>1. CASE \E d \in Datasets : StartRollback(j, d)
    BY <1>1, <2>1 DEF StartRollback, NoJob, UnderPromotion
  <2>2. CASE RollbackFailed(j) \/ ListCollections(j) \/ ChooseTarget(j)
    <3>1. job[j].makes = "rolled_back"
      BY <1>1, <2>2 DEF RollbackFailed, ListCollections, ChooseTarget, OnTrack
    <3>2. job'[j].at = "idle" \/ job'[j].makes = "rolled_back"
      <4>1. CASE RollbackFailed(j)
        BY <1>1, <4>1 DEF RollbackFailed, NoJob
      <4>2. CASE ListCollections(j)
        BY <1>1, <3>1, <4>2 DEF ListCollections, Job
      <4>3. CASE ChooseTarget(j)
        <5>1. PICK v : job' = [job EXCEPT ![j] = [job[j] EXCEPT !.ver = v, !.names = {},
                                                                !.at = "probe"]]
          BY <4>3 DEF ChooseTarget
        <5> QED BY <1>1, <3>1, <5>1 DEF Job
      <4> QED BY <2>2, <4>1, <4>2, <4>3
    <3> QED BY <3>1, <3>2 DEF UnderPromotion
  <2>3. CASE Upsert(j) \/ ProbeAlias(j)
    <3>1. CASE Upsert(j)
      BY <1>1, <3>1 DEF Upsert, UnderPromotion, Job
    <3>2. CASE ProbeAlias(j)
      <4>1. /\ job'[j].makes = job[j].makes /\ job'[j].at = "switch" /\ job[j].at = "probe"
        BY <1>1, <3>2 DEF ProbeAlias, Job
      <4> QED BY <4>1 DEF UnderPromotion
    <3> QED BY <2>3, <3>1, <3>2
  <2>4. CASE ReadAlias(j)
    <3> DEFINE at == CASE job[j].makes = "promoted" -> "probe"
                       [] job[j].makes = "rejected" -> "record"
                       [] job[j].makes = "rolled_back" -> "list"
    <3>1. at \in {"probe", "record", "list"}
      BY <1>1 DEF Job, Decision
    <3>2. job' = [job EXCEPT ![j] = [job[j] EXCEPT !.prev = alias[job[j].ds], !.at = at]]
          /\ job[j].at = "read"
      BY <2>4 DEF ReadAlias
    <3> HIDE DEF at
    <3> QED BY <1>1, <3>1, <3>2 DEF Job, UnderPromotion
  <2>5. CASE ExpireCollections(j)
    <3> DEFINE gone == Expired(job[j].ds, job[j].ver, job[j].prev, Existing)
    <3>1. job[j].at = "expire" /\ job' = [job EXCEPT ![j] =
            IF gone = {} THEN NoJob ELSE [job[j] EXCEPT !.names = gone, !.at = "drop"]]
      BY <2>5 DEF ExpireCollections
    <3> HIDE DEF gone
    <3> QED BY <1>1, <3>1 DEF NoJob, Job, UnderPromotion
  <2> QED BY <2>1, <2>2, <2>3, <2>4, <2>5
<1>4. UnderPromotion(job[j]) => job'[j].ver = job[j].ver
  <2>1. CASE Upsert(j) \/ ReadAlias(j) \/ ProbeAlias(j)
    <3>1. CASE Upsert(j)
      BY <1>1, <3>1 DEF Upsert, Job
    <3>2. CASE ReadAlias(j)
      BY <1>1, <3>2 DEF ReadAlias, Job
    <3>3. CASE ProbeAlias(j)
      BY <1>1, <3>3 DEF ProbeAlias, Job
    <3> QED BY <2>1, <3>1, <3>2, <3>3
  <2>2. CASE ~(Upsert(j) \/ ReadAlias(j) \/ ProbeAlias(j))
    BY <1>1, <2>2 DEF StartRollback, RollbackFailed, ListCollections, ChooseTarget,
       ExpireCollections, OnTrack, UnderPromotion
  <2> QED BY <2>1, <2>2
<1>5. InPromotion' = InPromotion
  <2>1. StepOf(j)
    BY DEF StepOf, Promote, Rollback, Shared
  <2> QED BY <1>3, <1>4, <2>1, Candidacy
<1>6. OnRecord' = OnRecord
  BY <1>2 DEF OnRecord
<1> QED BY <1>2, <1>5, <1>6 DEF Abstract!bgvars

LEMMA StepImplements ==
    ASSUME Inv, OwnListings, OneJobPerDataset, [Next]_vars
    PROVE  [Abstract!Next]_(Abstract!bgvars)
<1>1. ASSUME NEW j \in Jobs, StepOf(j)
      PROVE  Abstract!Next \/ UNCHANGED Abstract!bgvars
  <2>1. /\ job \in [Jobs -> Job] /\ job[j] \in Job /\ OnTrack(job[j]) /\ Gated(job[j])
        /\ Audited(job[j]) /\ ActsOnNow(job[j])
        /\ alias \in [Datasets -> Target] /\ coll \in [Versions -> CollectionState]
        /\ ledger \in Seq(Row) /\ job[j].ds \in Datasets
    BY <1>1, Facts
  <2>2. HasVersion(job[j]) /\ job[j].makes # "rejected" =>
          job[j].ver \in Passing /\ job[j].ver \in Versions /\ DatasetOf[job[j].ver] = job[j].ds
    BY <2>1 DEF Gated, OnTrack
  <2>3. /\ InPromotion = Others(j) \cup IF UnderPromotion(job[j]) THEN {job[j].ver} ELSE {}
        /\ InPromotion' = Others(j) \cup IF UnderPromotion(job[j])' THEN {job'[j].ver}
                                           ELSE {}
        /\ UnderPromotion(job[j]) => job[j].ver \notin Others(j)
    BY <1>1, Candidacy
  <2>4. ledger' = ledger => OnRecord' = OnRecord
    BY DEF OnRecord
  <2>5. coll' = coll => Existing' = Existing
    BY DEF Existing
  <2>6. UnderPromotion(job[j]) => HasVersion(job[j]) /\ job[j].makes # "rejected"
    BY DEF UnderPromotion, HasVersion
  <2>7. ASSUME NEW v \in Versions, StartPromote(j, v)
        PROVE  Abstract!Next \/ UNCHANGED Abstract!bgvars
    <3>1. UNCHANGED <<alias, coll, ledger>> /\ InPromotion = Others(j)
      BY <2>3, <2>7 DEF StartPromote, UnderPromotion
    <3>2. CASE v \in Passing
      <4>1. UnderPromotion(job[j])' /\ job'[j].ver = v
        BY <2>1, <2>7, <3>2 DEF StartPromote, NoJob, UnderPromotion
      <4>2. Abstract!Begin(v)
        BY <2>3, <2>4, <2>5, <3>1, <4>1 DEF Abstract!Begin
      <4> QED BY <3>2, <4>2 DEF Abstract!Next
    <3>3. CASE v \notin Passing
      <4>1. ~UnderPromotion(job[j])'
        BY <2>1, <2>7, <3>3 DEF StartPromote, NoJob, UnderPromotion
      <4> QED BY <2>3, <2>4, <2>5, <3>1, <4>1 DEF Abstract!bgvars
    <3> QED BY <3>2, <3>3
  <2>8. CASE Crash(j)
    <3>1. UNCHANGED <<alias, coll, ledger>> /\ ~UnderPromotion(job[j])'
      BY <2>1, <2>8 DEF Crash, NoJob, UnderPromotion
    <3>2. CASE UnderPromotion(job[j])
      <4>1. Abstract!End(job[j].ver)
        BY <2>3, <2>4, <2>5, <3>1, <3>2 DEF Abstract!End
      <4> QED BY <2>2, <2>6, <3>2, <4>1 DEF Abstract!Next
    <3>3. CASE ~UnderPromotion(job[j])
      BY <2>3, <2>4, <2>5, <3>1, <3>3 DEF Abstract!bgvars
    <3> QED BY <3>2, <3>3
  <2>9. CASE CreateCollection(j)
    <3>1. /\ UnderPromotion(job[j]) /\ UnderPromotion(job[j])' /\ job'[j].ver = job[j].ver
          /\ UNCHANGED <<alias, ledger>>
      BY <2>1, <2>9 DEF CreateCollection, OnTrack, UnderPromotion, Job
    <3>2. Existing' = Existing \cup {job[j].ver}
      BY <2>1, <2>2, <2>6, <2>9, <3>1 DEF CreateCollection, Existing
    <3>3. Abstract!Stage(job[j].ver)
      BY <2>3, <2>4, <3>1, <3>2 DEF Abstract!Stage
    <3> QED BY <2>2, <2>6, <3>1, <3>3 DEF Abstract!Next
  <2>10. CASE SwitchAlias(j)
    <3>1. /\ job[j].at = "switch" /\ job[j].makes # "rejected" /\ HasVersion(job[j])
          /\ alias' = [alias EXCEPT ![job[j].ds] = job[j].ver]
          /\ UNCHANGED <<coll, ledger>> /\ job[j].makes \in {"promoted", "rolled_back"}
          /\ job'[j].ver = job[j].ver /\ job'[j].makes = job[j].makes /\ job'[j].at = "record"
      BY <2>1, <2>10 DEF SwitchAlias, OnTrack, HasVersion, Job, Decision
    <3>2. job[j].ver \in Existing
      BY <2>10, Switched, <1>1
    <3>3. InPromotion' = InPromotion
      BY <2>3, <3>1 DEF UnderPromotion
    <3>4. CASE job[j].makes = "promoted"
      <4>1. Abstract!Promote(job[j].ver)
        BY <2>2, <2>3, <2>4, <2>5, <3>1, <3>2, <3>3, <3>4 DEF Abstract!Promote, UnderPromotion
      <4> QED BY <2>2, <3>1, <4>1 DEF Abstract!Next
    <3>5. CASE job[j].makes = "rolled_back"
      <4>1. job[j].ver \in OnRecord
        BY <2>1, <2>2, <3>1, <3>5 DEF Audited, Decided, OnRecord
      <4>2. job[j].ver # alias[DatasetOf[job[j].ver]]
        BY <2>1, <2>2, <3>1, <3>5 DEF ActsOnNow
      <4>3. Abstract!Rollback(job[j].ver)
        BY <2>2, <2>4, <2>5, <3>1, <3>2, <3>3, <4>1, <4>2 DEF Abstract!Rollback
      <4> QED BY <2>2, <3>1, <4>3 DEF Abstract!Next
    <3> QED BY <3>1, <3>4, <3>5
  <2>11. CASE RecordPromotion(j)
    <3>1. PICK row \in Row : /\ ledger' = Append(ledger, row)
                             /\ row.version = job[j].ver /\ row.decision = job[j].makes
      BY <1>1, <2>11, Recorded
    <3>2. /\ UNCHANGED <<alias, coll>> /\ job[j].at = "record" /\ job'[j].at = "status"
          /\ job'[j].ver = job[j].ver /\ job'[j].makes = job[j].makes
      BY <2>1, <2>11 DEF RecordPromotion, Job
    <3>3. InPromotion' = InPromotion
      BY <2>3, <3>2 DEF UnderPromotion
    <3>4. OnRecord' = IF job[j].makes = "promoted" THEN OnRecord \cup {job[j].ver} ELSE OnRecord
      <4>1. /\ DOMAIN ledger' = 1..(Len(ledger) + 1) /\ DOMAIN ledger = 1..Len(ledger)
            /\ Len(ledger) \in Nat
            /\ \A i \in DOMAIN ledger : ledger'[i] = ledger[i]
            /\ ledger'[Len(ledger) + 1] = row
        BY <2>1, <3>1, LedgerAppended
      <4>2. DOMAIN ledger' = DOMAIN ledger \cup {Len(ledger) + 1}
        BY <4>1
      <4>3. job[j].ver \in Versions
        BY <3>1 DEF Row
      <4> QED BY <3>1, <4>1, <4>2, <4>3 DEF OnRecord
    <3>5. CASE job[j].makes = "promoted"
      <4>1. UnderPromotion(job[j]) /\ alias[job[j].ds] = job[j].ver
        BY <2>1, <3>2, <3>5 DEF UnderPromotion, ActsOnNow
      <4>2. Abstract!Approve(job[j].ver)
        BY <2>2, <2>3, <2>5, <2>6, <3>2, <3>3, <3>4, <3>5, <4>1 DEF Abstract!Approve
      <4> QED BY <2>2, <2>6, <4>1, <4>2 DEF Abstract!Next
    <3>6. CASE job[j].makes # "promoted"
      BY <2>5, <3>2, <3>3, <3>4, <3>6 DEF Abstract!bgvars
    <3> QED BY <3>5, <3>6
  <2>12. CASE UpdateStatus(j)
    <3>1. UNCHANGED <<alias, coll, ledger>> /\ ~UnderPromotion(job[j])' /\ job[j].at = "status"
      BY <2>1, <2>12 DEF UpdateStatus, NoJob, UnderPromotion, Job
    <3>2. CASE UnderPromotion(job[j])
      <4>1. Abstract!End(job[j].ver)
        BY <2>3, <2>4, <2>5, <3>1, <3>2 DEF Abstract!End
      <4> QED BY <2>2, <2>6, <3>2, <4>1 DEF Abstract!Next
    <3>3. CASE ~UnderPromotion(job[j])
      BY <2>3, <2>4, <2>5, <3>1, <3>3 DEF Abstract!bgvars
    <3> QED BY <3>2, <3>3
  <2>13. CASE DropCollection(j)
    <3>1. PICK v \in Versions : /\ \A d \in Datasets : alias[d] # v
                                /\ Existing' = Existing \ {v}
      BY <1>1, <2>13, Dropped
    <3>2. UNCHANGED <<alias, ledger>>
      BY <1>1, <2>13, Dropped DEF DropCollection
    <3>3. job[j].at = "drop" /\ job'[j].at \in {"idle", "drop"}
      BY <2>1, <2>13 DEF DropCollection, NoJob, Job
    <3>4. InPromotion' = InPromotion
      BY <2>3, <3>3 DEF UnderPromotion
    <3>5. Abstract!Retire(v)
      BY <2>4, <3>1, <3>2, <3>4 DEF Abstract!Retire
    <3> QED BY <3>5 DEF Abstract!Next
  <2> QED
    BY <1>1, <2>7, <2>8, <2>9, <2>10, <2>11, <2>12, <2>13, Unnoticed
    DEF StepOf, Promote, Rollback, Shared
<1>2. CASE UNCHANGED vars
  BY <1>2 DEF vars, Abstract!bgvars, Existing, InPromotion, OnRecord
<1> QED BY <1>1, <1>2 DEF Next, StepOf

LEMMA InitImplements == Init => Abstract!Init
BY DEF Init, NoJob, Abstract!Init, Existing, InPromotion, UnderPromotion, OnRecord

\* Jobs of one dataset that run one at a time, crashes and cleanups included, give
\* a reader of the stores what BlueGreen promises.  (engine.py lines 1-11)
THEOREM EngineImplementsBlueGreen == OwnListings => (Spec /\ []OneJobPerDataset => ImplementsBlueGreen)
<1> SUFFICES ASSUME OwnListings PROVE Spec /\ []OneJobPerDataset => ImplementsBlueGreen
  OBVIOUS
<1>1. Inv /\ OneJobPerDataset /\ [Next]_vars => [Abstract!Next]_(Abstract!bgvars)
  BY StepImplements
<1> QED BY <1>1, InitImplements, AlwaysInv, PTL DEF Spec, ImplementsBlueGreen, Abstract!Spec

\* A reader of a production alias finds a stored version that passed its gates.
\* (engine.py lines 5-10)
THEOREM ReadersAreServed == OwnListings => (Spec /\ []OneJobPerDataset => []Abstract!ServesStored)
<1> SUFFICES ASSUME OwnListings PROVE Spec /\ []OneJobPerDataset => []Abstract!ServesStored
  OBVIOUS
<1>1. Inv => Abstract!ServesStored
  BY DEF Inv, SerialInv, AliasesLive, GateInv, GatedServing, Abstract!ServesStored
<1> QED BY <1>1, AlwaysInv, PTL

================================================================================

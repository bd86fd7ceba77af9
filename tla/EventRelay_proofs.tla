--------------------------- MODULE EventRelay_proofs ---------------------------
(***************************************************************************)
(* Safety of the event bus for any set of relays and contents, any batch   *)
(* size, any delivery limit and any number of uploads and crashes.         *)
(***************************************************************************)
EXTENDS EventRelay, FiniteSetTheorems, WellFoundedInduction, TLAPS

-----------------------------------------------------------------------------
(* Events in stream order. *)

\* The oldest event of a set that has any is one of them.
LEMMA OldestIn ==
    ASSUME NEW S \in SUBSET Nat, S # {}
    PROVE  Oldest(S) \in S
<1> DEFINE less == {p \in Nat \X Nat : p[1] < p[2]}
<1>1. IsWellFoundedOn(less, Nat)
  BY NatLessThanWellFounded DEF OpToRel
<1> HIDE DEF less
<1>2. PICK e \in S : \A f \in S : <<f, e>> \notin less
  BY <1>1, WFMin
<1>3. \A f \in S : e <= f
  <2> SUFFICES ASSUME NEW f \in S PROVE e <= f
    OBVIOUS
  <2>1. <<f, e>> \notin less
    BY <1>2
  <2>2. e \in Nat /\ f \in Nat
    BY <1>2
  <2>3. ~(f < e)
    BY <2>1, <2>2 DEF less
  <2> QED BY <2>2, <2>3
<1> QED BY <1>2, <1>3 DEF Oldest

\* What XREADGROUP delivers anew is the stretch of the stream behind the cursor.
LEMMA NewEvents ==
    ASSUME NEW c \in Nat, NEW n \in Nat, c <= n
    PROVE  LET new == OldestFew({e \in 1..n : e > c})
           IN  /\ new = (c + 1)..(c + Cardinality(new))
               /\ Cardinality(new) \in Nat
               /\ c + Cardinality(new) <= n
<1> DEFINE behind == {e \in 1..n : e > c}
           new == OldestFew(behind)
           k == IF n - c < BatchSize THEN n - c ELSE BatchSize
<1>1. BatchSize \in Nat
  BY RelayBoundsAssumption
<1>2. k \in Nat /\ c + k <= n
  BY <1>1
<1>3. \A e \in (c + 1)..n : Cardinality({f \in behind : f < e}) = e - c - 1
  <2> SUFFICES ASSUME NEW e \in (c + 1)..n
               PROVE  Cardinality({f \in behind : f < e}) = e - c - 1
    OBVIOUS
  <2>1. {f \in behind : f < e} = (c + 1)..(e - 1)
    OBVIOUS
  <2>2. Cardinality((c + 1)..(e - 1)) = e - c - 1
    BY FS_Interval
  <2> QED BY <2>1, <2>2
<1>4. behind = (c + 1)..n
  OBVIOUS
<1>5. new = {e \in behind : Cardinality({f \in behind : f < e}) < BatchSize}
  BY DEF OldestFew
<1> HIDE DEF behind, new
<1>6. new = {e \in (c + 1)..n : e - c - 1 < BatchSize}
  BY <1>3, <1>4, <1>5
<1>7. new = (c + 1)..(c + k)
  BY <1>1, <1>6
<1>8. Cardinality(new) = k
  <2> HIDE DEF k
  <2>1. Cardinality((c + 1)..(c + k)) = k
    BY <1>2, FS_Interval
  <2> QED BY <1>7, <2>1
<1>9. /\ new = (c + 1)..(c + Cardinality(new))
      /\ Cardinality(new) \in Nat
      /\ c + Cardinality(new) <= n
  BY <1>2, <1>7, <1>8
<1> QED BY <1>9 DEF new, behind

-----------------------------------------------------------------------------
(* Types.  TypeOK is not inductive: a relay marks the oldest event of its batch, *)
(* so it needs to know that its batch is not empty and was delivered; the        *)
(* gateway appends, so the stream must still be shorter than the uploads.        *)

GatewayOnTrack ==
    /\ gateway.at \in {"lock", "xadd"} => Len(stream) < uploads
    /\ gateway.at \in {"trigger", "mark"} => Len(stream) > 0

TickOnTrack(t, c) ==
    /\ t.unchecked \subseteq 1..c /\ t.batch \subseteq 1..c
    /\ t.at = "filter" <=> t.unchecked # {}
    /\ t.at \in {"dispatch", "mark", "ack"} => t.batch # {}
    /\ t.at \in {"idle", "backlog", "new"} => t.unchecked = {} /\ t.batch = {}

TypeInv ==
    /\ TypeOK
    /\ GatewayOnTrack
    /\ \A r \in Relays : TickOnTrack(relay[r], cursor)

\* Every event is one of the model's positions, and Current is one of the batch.
LEMMA StreamPositions ==
    ASSUME TypeInv
    PROVE  /\ MaxUploads \in Nat /\ cursor \in Nat /\ Len(stream) \in Nat
           /\ uploads \in Nat /\ crashes \in Nat
           /\ cursor <= Len(stream) /\ Len(stream) <= uploads /\ uploads <= MaxUploads
           /\ Published \subseteq Events /\ Published \subseteq Nat
           /\ 1..cursor \subseteq Published
<1>1. MaxUploads \in Nat
  BY RelayBoundsAssumption
<1>2. Len(stream) \in Nat /\ uploads \in Nat /\ uploads <= MaxUploads
  BY <1>1 DEF TypeInv, TypeOK
<1> QED BY <1>1, <1>2, RelayBoundsAssumption DEF TypeInv, TypeOK, Published, Events

LEMMA CurrentInBatch ==
    ASSUME TypeInv, NEW r \in Relays, relay[r].at \in {"dispatch", "mark", "ack"}
    PROVE  /\ Current(r) \in relay[r].batch
           /\ Current(r) \in 1..cursor /\ Current(r) \in Events /\ Current(r) \in Published
           /\ Rest(r) = relay[r].batch \ {Current(r)}
<1>1. relay[r].batch # {} /\ relay[r].batch \subseteq 1..cursor
  BY DEF TypeInv, TickOnTrack
<1>2. 1..cursor \subseteq Published /\ Published \subseteq Events /\ Published \subseteq Nat
  BY StreamPositions
<1>3. Oldest(relay[r].batch) \in relay[r].batch
  BY <1>1, <1>2, OldestIn
<1> QED BY <1>1, <1>2, <1>3 DEF Current, Rest

LEMMA UncheckedInTick ==
    ASSUME TypeInv, NEW r \in Relays, relay[r].at = "filter"
    PROVE  /\ Oldest(relay[r].unchecked) \in relay[r].unchecked
           /\ Oldest(relay[r].unchecked) \in 1..cursor
<1>1. relay[r].unchecked # {} /\ relay[r].unchecked \subseteq 1..cursor
  BY DEF TypeInv, TickOnTrack
<1>2. 1..cursor \subseteq Published /\ Published \subseteq Nat
  BY StreamPositions
<1> QED BY <1>1, <1>2, OldestIn

\* What going on with a tick comes to: relay r's tick is replaced by t, and r's
\* entries are given up at most when nothing is left of the tick.
Resumed(r, t, unchecked, batch, owners) ==
    /\ relay' = [relay EXCEPT ![r] = t]
    /\ t.unchecked = unchecked /\ t.batch = batch
    /\ t.at \in {"filter", "dispatch", "idle"}
    /\ t.at = "filter" <=> unchecked # {}
    /\ t.at = "dispatch" => batch # {}
    /\ t.at = "idle" => unchecked = {} /\ batch = {}
    /\ owner' \in [Events -> Relays \cup {NoConsumer}]
    /\ \A e \in Events : owner'[e] = owners[e] \/ (owners[e] = r /\ t.at = "idle")

LEMMA Continued ==
    ASSUME NEW r \in Relays, NEW unchecked \in SUBSET Events, NEW batch \in SUBSET Events,
           NEW owners \in [Events -> Relays \cup {NoConsumer}],
           relay \in [Relays -> Tick],
           Continue(r, unchecked, batch, owners)
    PROVE  \E t \in Tick : Resumed(r, t, unchecked, batch, owners)
<1> DEFINE at == IF unchecked # {} THEN "filter" ELSE IF batch # {} THEN "dispatch" ELSE "idle"
           t == [at |-> at, unchecked |-> unchecked, batch |-> batch]
<1>1. at \in {"filter", "dispatch", "idle"}
  OBVIOUS
<1>2. t \in Tick
  BY <1>1 DEF Tick, RelayStep
<1>3. /\ relay' = [relay EXCEPT ![r] = t]
      /\ owner' = IF at = "idle" THEN Leave(r, owners) ELSE owners
  BY DEF Continue
<1>4. /\ owner' \in [Events -> Relays \cup {NoConsumer}]
      /\ \A e \in Events : owner'[e] = owners[e] \/ (owners[e] = r /\ at = "idle")
  <2>1. CASE at = "idle"
    BY <1>3, <2>1 DEF Leave
  <2>2. CASE at # "idle"
    BY <1>3, <2>2
  <2> QED BY <2>1, <2>2
<1>5. /\ t.unchecked = unchecked /\ t.batch = batch /\ t.at = at
  OBVIOUS
<1>6. /\ at = "filter" <=> unchecked # {}
      /\ at = "dispatch" => batch # {}
      /\ at = "idle" => unchecked = {} /\ batch = {}
  OBVIOUS
<1> HIDE DEF at, t
<1> QED BY <1>1, <1>2, <1>3, <1>4, <1>5, <1>6 DEF Resumed

LEMMA ResumedOnTrack ==
    ASSUME NEW r, NEW t, NEW c \in Nat, NEW owners,
           NEW unchecked \in SUBSET (1..c), NEW batch \in SUBSET (1..c),
           Resumed(r, t, unchecked, batch, owners)
    PROVE  TickOnTrack(t, c)
BY DEF Resumed, TickOnTrack

\* Ticks stay on track when one of them is replaced and the cursor does not go back.
LEMMA TickReplaced ==
    ASSUME TypeInv, NEW r \in Relays, NEW t \in Tick,
           relay' = [relay EXCEPT ![r] = t],
           cursor' \in Nat, cursor <= cursor',
           TickOnTrack(t, cursor')
    PROVE  /\ relay' \in [Relays -> Tick]
           /\ \A q \in Relays : TickOnTrack(relay'[q], cursor')
           /\ relay'[r] = t
           /\ \A q \in Relays \ {r} : relay'[q] = relay[q]
<1>1. relay \in [Relays -> Tick] /\ cursor \in Nat
  BY StreamPositions DEF TypeInv, TypeOK
<1>2. /\ relay' \in [Relays -> Tick] /\ relay'[r] = t
      /\ \A q \in Relays \ {r} : relay'[q] = relay[q]
  BY <1>1
<1>3. 1..cursor \subseteq 1..cursor'
  BY <1>1
<1>4. ASSUME NEW q \in Relays \ {r} PROVE TickOnTrack(relay'[q], cursor')
  <2>1. TickOnTrack(relay[q], cursor)
    BY DEF TypeInv
  <2> QED BY <1>2, <1>3, <2>1 DEF TickOnTrack
<1> QED BY <1>2, <1>4

\* An expiry takes locks and markers away and leaves the rest alone.
LEMMA ExpiryLeaves ==
    ASSUME Expiry
    PROVE  /\ UNCHANGED <<stream, told, group, dlq, runs, gateway, relay, uploads, crashes>>
           /\ locks' \subseteq locks /\ marked' \subseteq marked
BY DEF Expiry, ExpireLock, ExpireMarker, bus, effects

LEMMA InitTypeInv == Init => TypeInv
<1> SUFFICES ASSUME Init PROVE TypeInv
  OBVIOUS
<1> USE DEF Init
<1>1. MaxUploads \in Nat /\ MaxCrashes \in Nat
  BY RelayBoundsAssumption
<1>2. NoTick \in Tick /\ TickOnTrack(NoTick, 0)
  BY DEF NoTick, Tick, RelayStep, TickOnTrack
<1>3. gateway \in [at : GatewayStep, content : Contents]
  BY ContentsAssumption DEF GatewayStep
<1>4. stream \in Seq(Contents) /\ Len(stream) = 0
  OBVIOUS
<1>5. owner \in [Events -> Relays \cup {NoConsumer}]
  OBVIOUS
<1>6. TypeOK
  BY <1>1, <1>2, <1>3, <1>4, <1>5 DEF TypeOK
<1> QED BY <1>2, <1>6 DEF TypeInv, GatewayOnTrack

LEMMA StepTypeInv == TypeInv /\ [Next]_vars => TypeInv'
<1> SUFFICES ASSUME TypeInv, [Next]_vars PROVE TypeInv'
  OBVIOUS
<1> USE StreamPositions
<1>1. ASSUME NEW c \in Contents, Upload(c) PROVE TypeInv'
  <2>1. gateway' \in [at : GatewayStep, content : Contents]
    BY <1>1 DEF Upload, GatewayStep
  <2>2. TypeOK'
    BY <1>1, <2>1 DEF Upload, TypeInv, TypeOK, bus, group, effects, Published
  <2> QED BY <1>1, <2>2 DEF Upload, TypeInv, GatewayOnTrack, bus, group
<1>2. CASE TakeLock
  <2>1. gateway' \in [at : GatewayStep, content : Contents]
    BY <1>2 DEF TakeLock, TypeInv, TypeOK, GatewayStep
  <2>3. locks' \subseteq Keys
    BY <1>2 DEF TakeLock, TypeInv, TypeOK, Keys
  <2>2. TypeOK'
    BY <1>2, <2>1, <2>3 DEF TakeLock, TypeInv, TypeOK, group, effects, Published
  <2> QED BY <1>2, <2>2 DEF TakeLock, TypeInv, TypeOK, GatewayOnTrack, group
<1>3. CASE AnswerDuplicate
  <2>1. gateway' \in [at : GatewayStep, content : Contents]
    BY <1>3 DEF AnswerDuplicate, TypeInv, TypeOK, GatewayStep
  <2>2. TypeOK'
    BY <1>3, <2>1 DEF AnswerDuplicate, TypeInv, TypeOK, group, effects, Published
  <2> QED BY <1>3, <2>2 DEF AnswerDuplicate, TypeInv, TypeOK, GatewayOnTrack, group
<1>4. CASE AddToStream
  <2>1. gateway' \in [at : GatewayStep, content : Contents] /\ gateway'.at = "trigger"
    BY <1>4 DEF AddToStream, TypeInv, TypeOK, GatewayStep
  <2>2. stream' \in Seq(Contents) /\ Len(stream') = Len(stream) + 1 /\ Len(stream) < uploads
    BY <1>4 DEF AddToStream, TypeInv, TypeOK, GatewayOnTrack
  <2>3. marked' \subseteq Published'
    BY <1>4, <2>2 DEF AddToStream, TypeInv, TypeOK, Published, effects
  <2>5. UNCHANGED <<locks, expiries, told, group, effects, relay, uploads, crashes>>
    BY <1>4 DEF AddToStream
  <2>6. Len(stream') <= uploads /\ cursor \in 0..Len(stream')
    BY <2>2 DEF TypeInv, TypeOK
  <2>4. TypeOK'
    BY <2>1, <2>2, <2>3, <2>5, <2>6 DEF TypeInv, TypeOK, group, effects
  <2> QED BY <1>4, <2>1, <2>2, <2>4 DEF AddToStream, TypeInv, GatewayOnTrack, group
<1>5. CASE GatewayTrigger
  <2>1. PICK outcome \in Outcomes :
          /\ runs' = IF outcome = "refused" THEN runs
                     ELSE [runs EXCEPT ![Len(stream)] = @ + 1]
          /\ gateway' = [gateway EXCEPT !.at = IF outcome = "started" THEN "mark" ELSE "idle"]
    BY <1>5 DEF GatewayTrigger
  <2>2. runs' \in [Events -> Nat]
    <3>1. runs \in [Events -> Nat] /\ Len(stream) \in Events
      BY <1>5 DEF GatewayTrigger, TypeInv, TypeOK, GatewayOnTrack, Events
    <3>2. runs' = runs \/ runs' = [runs EXCEPT ![Len(stream)] = @ + 1]
      BY <2>1
    <3> QED BY <3>1, <3>2
  <2>3. gateway' \in [at : GatewayStep, content : Contents] /\ gateway'.at \in {"mark", "idle"}
    BY <2>1 DEF TypeInv, TypeOK, GatewayStep
  <2>4. TypeOK'
    BY <1>5, <2>2, <2>3 DEF GatewayTrigger, TypeInv, TypeOK, bus, group, Published
  <2> QED BY <1>5, <2>3, <2>4 DEF GatewayTrigger, TypeInv, GatewayOnTrack, bus, group
<1>6. CASE GatewayMark
  <2>1. gateway' \in [at : GatewayStep, content : Contents] /\ gateway'.at = "idle"
    BY <1>6 DEF GatewayMark, TypeInv, TypeOK, GatewayStep
  <2>2. Len(stream) \in Published
    BY <1>6 DEF GatewayMark, TypeInv, GatewayOnTrack, Published
  <2>3. TypeOK'
    BY <1>6, <2>1, <2>2 DEF GatewayMark, TypeInv, TypeOK, bus, group, Published
  <2> QED BY <1>6, <2>1, <2>3 DEF GatewayMark, TypeInv, GatewayOnTrack, bus, group
<1>7. CASE GatewayCrash
  <2>1. gateway' \in [at : GatewayStep, content : Contents] /\ gateway'.at = "idle"
    BY <1>7 DEF GatewayCrash, TypeInv, TypeOK, GatewayStep
  <2>2. crashes' \in 0..MaxCrashes
    BY <1>7, RelayBoundsAssumption DEF GatewayCrash, TypeInv, TypeOK
  <2>3. TypeOK'
    BY <1>7, <2>1, <2>2 DEF GatewayCrash, TypeInv, TypeOK, bus, group, effects, Published
  <2> QED BY <1>7, <2>1, <2>3 DEF GatewayCrash, TypeInv, GatewayOnTrack, bus, group
<1>8. ASSUME NEW r \in Relays, Relay(r) \/ RelayCrash(r) PROVE TypeInv'
  <2> USE <1>8
  <2>0. relay \in [Relays -> Tick] /\ relay[r] \in Tick /\ TickOnTrack(relay[r], cursor)
    BY DEF TypeInv, TypeOK
  \* Enough: the replaced tick is on track and the variables of a relay keep their types.
  <2> DEFINE Moved(t) ==
        /\ t \in Tick /\ relay' = [relay EXCEPT ![r] = t]
        /\ cursor' \in Nat /\ cursor <= cursor' /\ cursor' <= Len(stream)
        /\ TickOnTrack(t, cursor')
        /\ pending' \subseteq 1..cursor'
        /\ owner' \in [Events -> Relays \cup {NoConsumer}]
        /\ deliveries' \in [Events -> Nat]
        /\ marked' \subseteq Published
        /\ dlq' \in [Events -> Nat] /\ runs' \in [Events -> Nat]
        /\ crashes' \in 0..MaxCrashes
        /\ UNCHANGED <<bus, gateway, uploads>>
  <2>1. ASSUME NEW t, Moved(t) PROVE TypeInv'
    <3>1. /\ relay' \in [Relays -> Tick]
          /\ \A q \in Relays : TickOnTrack(relay'[q], cursor')
      BY <2>1, TickReplaced
    <3>2. TypeOK'
      BY <2>1, <3>1 DEF TypeInv, TypeOK, bus, Published
    <3> QED BY <2>1, <3>1, <3>2 DEF TypeInv, GatewayOnTrack, bus
  <2>2. CASE StartTick(r)
    <3> DEFINE t == [relay[r] EXCEPT !.at = "backlog"]
    <3>1. t \in Tick /\ TickOnTrack(t, cursor)
      BY <2>0, <2>2 DEF StartTick, Tick, RelayStep, TickOnTrack
    <3>2. relay' = [relay EXCEPT ![r] = t]
      BY <2>0, <2>2 DEF StartTick
    <3>3. Moved(t)
      BY <2>2, <3>1, <3>2 DEF StartTick, TypeInv, TypeOK, bus, group, effects
    <3> QED BY <2>1, <3>3
  <2>3. CASE ReadBacklog(r)
    <3> DEFINE backlog == OldestFew({e \in pending : owner[e] = r})
               t == [relay[r] EXCEPT !.at = IF backlog = {} THEN "new" ELSE "filter",
                                     !.unchecked = backlog]
    <3>1. backlog \subseteq 1..cursor /\ backlog \subseteq Events
      BY DEF OldestFew, TypeInv, TypeOK
    <3>2. /\ relay[r].at = "backlog"
          /\ deliveries' = [e \in Events |-> deliveries[e] + IF e \in backlog THEN 1 ELSE 0]
          /\ relay' = [relay EXCEPT ![r] = t]
          /\ UNCHANGED <<bus, cursor, pending, owner, effects, gateway, uploads, crashes>>
      BY <2>0, <2>3 DEF ReadBacklog
    <3> HIDE DEF backlog
    <3>3. t \in Tick /\ TickOnTrack(t, cursor)
      BY <2>0, <3>1, <3>2 DEF Tick, RelayStep, TickOnTrack
    <3>4. deliveries' \in [Events -> Nat]
      BY <3>2 DEF TypeInv, TypeOK
    <3>5. Moved(t)
      BY <3>2, <3>3, <3>4 DEF TypeInv, TypeOK, bus, effects
    <3> QED BY <2>1, <3>5
  <2>4. CASE ReadNew(r)
    <3> DEFINE new == OldestFew({e \in Published : e > cursor})
               owners == [e \in Events |-> IF e \in new THEN r ELSE owner[e]]
    <3>1. /\ cursor' = cursor + Cardinality(new)
          /\ pending' = pending \cup new
          /\ deliveries' = [e \in Events |-> IF e \in new THEN 1 ELSE deliveries[e]]
          /\ Continue(r, new, {}, owners)
          /\ UNCHANGED <<bus, effects, gateway, uploads, crashes>>
      BY <2>4 DEF ReadNew
    <3>2. /\ new = (cursor + 1)..(cursor + Cardinality(new))
          /\ Cardinality(new) \in Nat
          /\ cursor + Cardinality(new) <= Len(stream)
      BY NewEvents DEF Published
    <3> HIDE DEF new
    <3>3. /\ cursor' \in Nat /\ cursor <= cursor' /\ cursor' <= Len(stream)
          /\ new \subseteq 1..cursor' /\ 1..cursor \subseteq 1..cursor'
      BY <3>1, <3>2
    <3>4. new \subseteq Events
      BY <3>3 DEF Events
    <3>5. owners \in [Events -> Relays \cup {NoConsumer}]
      BY DEF TypeInv, TypeOK
    <3> HIDE DEF owners
    <3>6. PICK t \in Tick : Resumed(r, t, new, {}, owners)
      <4>1. {} \in SUBSET Events
        OBVIOUS
      <4> QED BY <2>0, <3>1, <3>4, <3>5, <4>1, Continued
    <3>7. /\ TickOnTrack(t, cursor')
          /\ relay' = [relay EXCEPT ![r] = t]
          /\ owner' \in [Events -> Relays \cup {NoConsumer}]
      <4>1. new \in SUBSET (1..cursor') /\ {} \in SUBSET (1..cursor')
        BY <3>3
      <4> QED BY <3>3, <3>6, <4>1, ResumedOnTrack DEF Resumed
    <3>8. deliveries' \in [Events -> Nat]
      BY <3>1 DEF TypeInv, TypeOK
    <3>9. pending' \subseteq 1..cursor'
      BY <3>1, <3>3 DEF TypeInv, TypeOK
    <3>10. Moved(t)
      BY <3>1, <3>3, <3>7, <3>8, <3>9 DEF TypeInv, TypeOK, bus, effects
    <3> QED BY <2>1, <3>10
  <2>5. CASE FilterOne(r)
    <3> DEFINE e == Oldest(relay[r].unchecked)
               rest == relay[r].unchecked \ {e}
    <3>1. /\ relay[r].at = "filter"
          /\ \/ pending' = pending \ {e} /\ Continue(r, rest, relay[r].batch, owner)
             \/ pending' = pending /\ Continue(r, rest, relay[r].batch \cup {e}, owner)
          /\ UNCHANGED <<bus, cursor, deliveries, effects, gateway, uploads, crashes>>
      BY <2>5 DEF FilterOne
    <3>2. e \in 1..cursor /\ rest \subseteq 1..cursor
      BY <2>0, <3>1, UncheckedInTick DEF TickOnTrack
    <3> HIDE DEF e, rest
    <3>3. PICK batch \in {relay[r].batch, relay[r].batch \cup {e}} : Continue(r, rest, batch, owner)
      BY <3>1
    <3>4. batch \subseteq 1..cursor /\ 1..cursor \subseteq Events
      BY <2>0, <3>2, <3>3 DEF TickOnTrack
    <3>5. PICK t \in Tick : Resumed(r, t, rest, batch, owner)
      <4>1. rest \in SUBSET Events /\ batch \in SUBSET Events
        BY <3>2, <3>4
      <4>2. owner \in [Events -> Relays \cup {NoConsumer}]
        BY DEF TypeInv, TypeOK
      <4> QED BY <2>0, <3>3, <4>1, <4>2, Continued
    <3>6. /\ TickOnTrack(t, cursor)
          /\ relay' = [relay EXCEPT ![r] = t]
          /\ owner' \in [Events -> Relays \cup {NoConsumer}]
      <4>1. rest \in SUBSET (1..cursor) /\ batch \in SUBSET (1..cursor)
        BY <3>2, <3>4
      <4> QED BY <3>5, <4>1, ResumedOnTrack DEF Resumed
    <3>7. pending' \subseteq 1..cursor'
      BY <3>1 DEF TypeInv, TypeOK
    <3>8. UNCHANGED <<bus, cursor, deliveries, effects, gateway, uploads, crashes>>
      BY <3>1
    <3>9. Moved(t)
      BY <3>6, <3>7, <3>8 DEF TypeInv, TypeOK, bus, effects
    <3> QED BY <2>1, <3>9
  <2>6. CASE DeadLetter(r)
    <3> DEFINE t == [relay[r] EXCEPT !.at = "ack"]
    <3>1. Current(r) \in Events
      BY <2>6, CurrentInBatch DEF DeadLetter
    <3>2. t \in Tick /\ TickOnTrack(t, cursor)
      BY <2>0, <2>6 DEF DeadLetter, Tick, RelayStep, TickOnTrack
    <3>3. relay' = [relay EXCEPT ![r] = t]
      BY <2>0, <2>6 DEF DeadLetter
    <3>4. dlq' \in [Events -> Nat]
      BY <2>6, <3>1 DEF DeadLetter, TypeInv, TypeOK
    <3>6. UNCHANGED <<bus, group, marked, runs, gateway, uploads, crashes>>
      BY <2>6 DEF DeadLetter
    <3> HIDE DEF t
    <3>5. Moved(t)
      BY <3>2, <3>3, <3>4, <3>6 DEF TypeInv, TypeOK, bus, group
    <3> QED BY <2>1, <3>5
  <2>7. CASE RelayTrigger(r)
    <3>1. PICK outcome \in Outcomes :
            /\ runs' = IF outcome = "refused" THEN runs ELSE [runs EXCEPT ![Current(r)] = @ + 1]
            /\ IF outcome = "started"
                 THEN relay' = [relay EXCEPT ![r].at = "mark"] /\ UNCHANGED owner
                 ELSE Continue(r, {}, Rest(r), owner)
      BY <2>7 DEF RelayTrigger
    <3>2. runs' \in [Events -> Nat]
      BY <2>7, <3>1, CurrentInBatch DEF RelayTrigger, TypeInv, TypeOK
    <3>3. owner \in [Events -> Relays \cup {NoConsumer}]
      BY DEF TypeInv, TypeOK
    <3>4. CASE outcome = "started"
      <4> DEFINE t == [relay[r] EXCEPT !.at = "mark"]
      <4>1. t \in Tick /\ TickOnTrack(t, cursor)
        BY <2>0, <2>7 DEF RelayTrigger, Tick, RelayStep, TickOnTrack
      <4>2. relay' = [relay EXCEPT ![r] = t] /\ owner' = owner
        BY <2>0, <3>1, <3>4
      <4>3. Moved(t)
        BY <2>7, <3>2, <3>3, <4>1, <4>2 DEF RelayTrigger, TypeInv, TypeOK, bus
      <4> QED BY <2>1, <4>3
    <3>5. CASE outcome # "started"
      <4>1. Rest(r) \subseteq 1..cursor /\ 1..cursor \subseteq Events
        BY <2>0, <2>7, CurrentInBatch DEF RelayTrigger, TickOnTrack
      <4>2. PICK t \in Tick : Resumed(r, t, {}, Rest(r), owner)
        <5>1. Rest(r) \in SUBSET Events /\ {} \in SUBSET Events
          BY <4>1
        <5> QED BY <2>0, <3>1, <3>3, <3>5, <5>1, Continued
      <4>3. /\ TickOnTrack(t, cursor)
            /\ relay' = [relay EXCEPT ![r] = t]
            /\ owner' \in [Events -> Relays \cup {NoConsumer}]
        <5>1. {} \in SUBSET (1..cursor) /\ Rest(r) \in SUBSET (1..cursor)
          BY <4>1
        <5> QED BY <4>2, <5>1, ResumedOnTrack DEF Resumed
      <4>4. Moved(t)
        BY <2>7, <3>2, <4>3 DEF RelayTrigger, TypeInv, TypeOK, bus
      <4> QED BY <2>1, <4>4
    <3> QED BY <3>4, <3>5
  <2>8. CASE RelayMark(r)
    <3> DEFINE t == [relay[r] EXCEPT !.at = "ack"]
    <3>1. Current(r) \in Published
      BY <2>8, CurrentInBatch DEF RelayMark
    <3>2. t \in Tick /\ TickOnTrack(t, cursor)
      BY <2>0, <2>8 DEF RelayMark, Tick, RelayStep, TickOnTrack
    <3>3. relay' = [relay EXCEPT ![r] = t]
      BY <2>0, <2>8 DEF RelayMark
    <3>4. Moved(t)
      BY <2>8, <3>1, <3>2, <3>3 DEF RelayMark, TypeInv, TypeOK, bus, group
    <3> QED BY <2>1, <3>4
  <2>9. ASSUME NEW batch \in SUBSET (1..cursor), Continue(r, {}, batch, owner),
               pending' \subseteq pending, crashes' \in 0..MaxCrashes,
               UNCHANGED <<bus, cursor, deliveries, effects, gateway, uploads>>
        PROVE  TypeInv'
    <3>1. /\ owner \in [Events -> Relays \cup {NoConsumer}]
          /\ batch \in SUBSET Events /\ {} \in SUBSET Events
      BY DEF TypeInv, TypeOK
    <3>2. PICK t \in Tick : Resumed(r, t, {}, batch, owner)
      BY <2>0, <2>9, <3>1, Continued
    <3>3. /\ TickOnTrack(t, cursor)
          /\ relay' = [relay EXCEPT ![r] = t]
          /\ owner' \in [Events -> Relays \cup {NoConsumer}]
      <4>1. {} \in SUBSET (1..cursor)
        OBVIOUS
      <4> QED BY <3>2, <4>1, ResumedOnTrack DEF Resumed
    <3>4. Moved(t)
      BY <2>9, <3>3 DEF TypeInv, TypeOK, bus, effects
    <3> QED BY <2>1, <3>4
  <2>10. CASE Acknowledge(r)
    <3>1. Rest(r) \in SUBSET (1..cursor)
      BY <2>0, <2>10, CurrentInBatch DEF Acknowledge, TickOnTrack
    <3>2. crashes' \in 0..MaxCrashes
      BY <2>10 DEF Acknowledge, TypeInv, TypeOK
    <3> QED BY <2>9, <2>10, <3>1, <3>2 DEF Acknowledge
  <2>11. CASE RelayCrash(r)
    <3>1. crashes' \in 0..MaxCrashes
      BY <2>11, RelayBoundsAssumption DEF RelayCrash, TypeInv, TypeOK
    <3>2. {} \in SUBSET (1..cursor)
      OBVIOUS
    <3> QED BY <2>9, <2>11, <3>1, <3>2 DEF RelayCrash
  <2> QED BY <2>2, <2>3, <2>4, <2>5, <2>6, <2>7, <2>8, <2>10, <2>11 DEF Relay
<1>10. CASE Expiry
  <2>1. expiries' \in [Keys -> Nat]
    BY <1>10 DEF Expiry, ExpireLock, ExpireMarker, bus, TypeInv, TypeOK
  <2>2. TypeOK'
    BY <1>10, <2>1, ExpiryLeaves DEF TypeInv, TypeOK, group, Published
  <2> QED BY <1>10, <2>2, ExpiryLeaves DEF TypeInv, GatewayOnTrack, group
<1>9. CASE UNCHANGED vars
  <2>1. TypeOK'
    BY <1>9 DEF TypeInv, TypeOK, vars, bus, group, effects, Published
  <2> QED BY <1>9, <2>1 DEF TypeInv, GatewayOnTrack, vars, bus, group
<1> QED
  BY <1>1, <1>2, <1>3, <1>4, <1>5, <1>6, <1>7, <1>8, <1>9, <1>10 DEF Next, Gateway

\* Every variable keeps its type, and the gateway and each relay are where their
\* next command expects to find something.  (the whole of EventRelay)
THEOREM TypeCorrect == Spec => []TypeOK
<1>1. Spec => []TypeInv
  BY InitTypeInv, StepTypeInv, PTL DEF Spec
<1>2. TypeInv => TypeOK
  BY DEF TypeInv
<1> QED BY <1>1, <1>2, PTL

=============================================================================

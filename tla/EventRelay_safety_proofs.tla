------------------------ MODULE EventRelay_safety_proofs ------------------------
(***************************************************************************)
(* What the event bus promises of every accepted upload, proved from the   *)
(* type invariant of EventRelay_proofs: one event per window, nothing      *)
(* lost in silence, dead-lettered only when exhausted, bounded reruns.     *)
(***************************************************************************)
EXTENDS EventRelay_proofs

-----------------------------------------------------------------------------
(* Who touches what. *)

LEMMA RelayLeavesGateway ==
    ASSUME NEW r \in Relays, Relay(r) \/ RelayCrash(r)
    PROVE  UNCHANGED <<bus, gateway, uploads>>
BY DEF Relay, RelayCrash, StartTick, ReadBacklog, ReadNew, FilterOne, DeadLetter,
       RelayTrigger, RelayMark, Acknowledge

\* A relay replaces its own tick only.
LEMMA OtherTicksStay ==
    ASSUME TypeInv, NEW r \in Relays, Relay(r) \/ RelayCrash(r)
    PROVE  \A q \in Relays \ {r} : relay'[q] = relay[q]
<1>1. relay \in [Relays -> Tick]
  BY DEF TypeInv, TypeOK
<1>2. CASE \E u, b, o : Continue(r, u, b, o)
  BY <1>1, <1>2 DEF Continue
<1>3. CASE \E a : relay' = [relay EXCEPT ![r].at = a]
  BY <1>1, <1>3
<1>4. CASE ReadBacklog(r)
  BY <1>1, <1>4 DEF ReadBacklog
<1>5. CASE RelayTrigger(r)
  BY <1>2, <1>3, <1>5 DEF RelayTrigger
<1> QED
  BY <1>2, <1>3, <1>4, <1>5 DEF Relay, RelayCrash, StartTick, ReadNew, FilterOne,
     DeadLetter, RelayMark, Acknowledge

\* The gateway triggers the newest event, of which there is one.
LEMMA NewestPublished ==
    ASSUME TypeInv, gateway.at \in {"trigger", "mark"}
    PROVE  Len(stream) \in Published /\ Len(stream) \in Events
BY StreamPositions DEF TypeInv, GatewayOnTrack, Published, Events

\* Neither an execution nor a dead-letter entry is ever taken back.
LEMMA EffectsGrow ==
    ASSUME TypeInv, [Next]_vars
    PROVE  \A e \in Events : runs[e] <= runs'[e] /\ dlq[e] <= dlq'[e]
<1>1. runs \in [Events -> Nat] /\ dlq \in [Events -> Nat]
  BY DEF TypeInv, TypeOK
<1>2. CASE runs' = runs /\ dlq' = dlq
  BY <1>1, <1>2
<1>3. ASSUME NEW f \in Events, runs' = [runs EXCEPT ![f] = @ + 1], dlq' = dlq
      PROVE  \A e \in Events : runs[e] <= runs'[e] /\ dlq[e] <= dlq'[e]
  BY <1>1, <1>3
<1>4. CASE GatewayTrigger
  BY <1>2, <1>3, <1>4, NewestPublished DEF GatewayTrigger
<1>5. CASE \E c \in Contents : Upload(c)
  BY <1>2, <1>5 DEF Upload, effects
<1>6. CASE TakeLock \/ AnswerDuplicate \/ AddToStream \/ GatewayMark \/ GatewayCrash
  BY <1>2, <1>6 DEF TakeLock, AnswerDuplicate, AddToStream, GatewayMark, GatewayCrash, effects
<1>7. ASSUME NEW r \in Relays, DeadLetter(r)
      PROVE  \A e \in Events : runs[e] <= runs'[e] /\ dlq[e] <= dlq'[e]
  <2>1. Current(r) \in Events
    BY <1>7, CurrentInBatch DEF DeadLetter
  <2>2. dlq' = [dlq EXCEPT ![Current(r)] = @ + 1] /\ runs' = runs
    BY <1>7 DEF DeadLetter
  <2> QED BY <1>1, <2>1, <2>2
<1>8. ASSUME NEW r \in Relays, RelayTrigger(r)
      PROVE  \A e \in Events : runs[e] <= runs'[e] /\ dlq[e] <= dlq'[e]
  <2>1. Current(r) \in Events
    BY <1>8, CurrentInBatch DEF RelayTrigger
  <2> QED BY <1>2, <1>3, <1>8, <2>1 DEF RelayTrigger
<1>9. ASSUME NEW r \in Relays,
             \/ StartTick(r) \/ ReadBacklog(r) \/ ReadNew(r) \/ FilterOne(r)
             \/ RelayMark(r) \/ Acknowledge(r) \/ RelayCrash(r)
      PROVE  \A e \in Events : runs[e] <= runs'[e] /\ dlq[e] <= dlq'[e]
  BY <1>2, <1>9 DEF StartTick, ReadBacklog, ReadNew, FilterOne, RelayMark, Acknowledge,
     RelayCrash, effects
<1>10. CASE UNCHANGED vars
  BY <1>2, <1>10 DEF vars, effects
<1>11. CASE Expiry
  BY <1>2, <1>11, ExpiryLeaves
<1> QED
  BY <1>4, <1>5, <1>6, <1>7, <1>8, <1>9, <1>10, <1>11 DEF Next, Gateway, Relay

-----------------------------------------------------------------------------
(* One event per window: every event, and the one the handler is about to add,  *)
(* has used up a window of its own.                                             *)

\* The event of key k the handler in progress holds a window for.
Coming(k) == IF gateway.at = "xadd" /\ KeyOf[gateway.content] = k THEN 1 ELSE 0

OnceInv == \A k \in Keys : Cardinality(EventsOf(k)) + Coming(k) <= Windows(k)

\* The handler's upload has a key, and counts are numbers.
LEMMA Counts ==
    ASSUME TypeInv
    PROVE  /\ KeyOf[gateway.content] \in Keys
           /\ \A k \in Keys : /\ expiries[k] \in Nat /\ Windows(k) \in Nat
                              /\ Cardinality(EventsOf(k)) \in Nat /\ IsFiniteSet(EventsOf(k))
<1>1. KeyOf[gateway.content] \in Keys
  BY DEF TypeInv, TypeOK, Keys
<1>2. ASSUME NEW k \in Keys
      PROVE  /\ expiries[k] \in Nat /\ Windows(k) \in Nat
             /\ Cardinality(EventsOf(k)) \in Nat /\ IsFiniteSet(EventsOf(k))
  <2>1. expiries[k] \in Nat
    BY DEF TypeInv, TypeOK
  <2>2. IsFiniteSet(1..Len(stream))
    BY StreamPositions, FS_Interval
  <2>3. IsFiniteSet(EventsOf(k))
    BY <2>2, FS_Subset DEF EventsOf, Published
  <2> QED BY <2>1, <2>3, FS_CardinalityType DEF Windows
<1> QED BY <1>1, <1>2

LEMMA StepOnceInv == TypeInv /\ OnceInv /\ [Next]_vars => OnceInv'
<1> SUFFICES ASSUME TypeInv, OnceInv, [Next]_vars, NEW k \in Keys
             PROVE  Cardinality(EventsOf(k)') + Coming(k)' <= Windows(k)'
  BY DEF OnceInv
<1>0. /\ Len(stream) \in Nat /\ stream \in Seq(Contents)
      /\ gateway \in [at : GatewayStep, content : Contents]
      /\ expiries \in [Keys -> Nat]
  BY StreamPositions DEF TypeInv, TypeOK
<1>1. Cardinality(EventsOf(k)) + Coming(k) <= Windows(k)
  BY DEF OnceInv
<1>2. Coming(k) \in {0, 1} /\ Windows(k) \in Nat /\ Cardinality(EventsOf(k)) \in Nat
  BY Counts DEF Coming
<1>3. CASE UNCHANGED <<locks, expiries, stream>> /\ gateway'.at # "xadd"
  <2>1. EventsOf(k)' = EventsOf(k) /\ Windows(k)' = Windows(k) /\ Coming(k)' = 0
    BY <1>3 DEF EventsOf, Windows, Coming, Published
  <2> QED BY <1>1, <1>2, <2>1
<1>4. CASE UNCHANGED <<locks, expiries, stream, gateway>>
  <2>1. EventsOf(k)' = EventsOf(k) /\ Windows(k)' = Windows(k) /\ Coming(k)' = Coming(k)
    BY <1>4 DEF EventsOf, Windows, Coming, Published
  <2> QED BY <1>1, <2>1
<1>5. CASE \E c \in Contents : Upload(c)
  BY <1>3, <1>5 DEF Upload, bus
<1>6. CASE TakeLock
  <2>1. /\ stream' = stream /\ expiries' = expiries
        /\ locks' = locks \cup {KeyOf[gateway.content]}
        /\ KeyOf[gateway.content] \notin locks /\ gateway'.content = gateway.content
        /\ gateway.at = "lock"
    BY <1>0, <1>6 DEF TakeLock
  <2>2. EventsOf(k)' = EventsOf(k) /\ Coming(k) = 0
    BY <2>1 DEF EventsOf, Coming, Published
  <2>3. CASE KeyOf[gateway.content] = k
    <3>1. Windows(k)' = Windows(k) + 1
      BY <1>0, <2>1, <2>3 DEF Windows
    <3>2. Coming(k)' \in {0, 1}
      BY DEF Coming
    <3> QED BY <1>1, <1>2, <2>2, <3>1, <3>2
  <2>4. CASE KeyOf[gateway.content] # k
    <3>1. Windows(k)' = Windows(k) /\ Coming(k)' = 0
      BY <2>1, <2>4 DEF Windows, Coming
    <3> QED BY <1>1, <1>2, <2>2, <3>1
  <2> QED BY <2>3, <2>4
<1>7. CASE AnswerDuplicate \/ GatewayMark \/ GatewayCrash
  BY <1>0, <1>3, <1>7 DEF AnswerDuplicate, GatewayMark, GatewayCrash, bus
<1>8. CASE GatewayTrigger
  BY <1>0, <1>3, <1>8 DEF GatewayTrigger, bus
<1>9. CASE AddToStream
  <2>1. /\ stream' = Append(stream, gateway.content)
        /\ locks' = locks /\ expiries' = expiries
        /\ gateway.at = "xadd" /\ gateway'.at = "trigger"
    BY <1>0, <1>9 DEF AddToStream
  <2>2. /\ Published' = Published \cup {Len(stream) + 1}
        /\ Len(stream) + 1 \notin Published
        /\ \A e \in Published : stream'[e] = stream[e]
        /\ stream'[Len(stream) + 1] = gateway.content
    BY <1>0, <2>1 DEF Published
  <2>3. Windows(k)' = Windows(k) /\ Coming(k)' = 0
    BY <2>1 DEF Windows, Coming
  <2>4. CASE KeyOf[gateway.content] = k
    <3>1. EventsOf(k)' = EventsOf(k) \cup {Len(stream) + 1}
      BY <2>2, <2>4 DEF EventsOf
    <3>2. Len(stream) + 1 \notin EventsOf(k)
      BY <2>2 DEF EventsOf
    <3>3. Cardinality(EventsOf(k)') = Cardinality(EventsOf(k)) + 1
      BY <3>1, <3>2, Counts, FS_AddElement
    <3>4. Coming(k) = 1
      BY <2>1, <2>4 DEF Coming
    <3> QED BY <1>1, <1>2, <2>3, <3>3, <3>4
  <2>5. CASE KeyOf[gateway.content] # k
    <3>1. EventsOf(k)' = EventsOf(k)
      BY <2>2, <2>5 DEF EventsOf
    <3>2. Coming(k) = 0
      BY <2>5 DEF Coming
    <3> QED BY <1>1, <1>2, <2>3, <3>1, <3>2
  <2> QED BY <2>4, <2>5
<1>10. CASE Expiry
  <2>1. EventsOf(k)' = EventsOf(k) /\ Coming(k)' = Coming(k)
    BY <1>10, ExpiryLeaves DEF EventsOf, Coming, Published
  <2>2. Windows(k)' = Windows(k)
    <3>1. ASSUME NEW m \in Keys, ExpireLock(m) PROVE Windows(k)' = Windows(k)
      <4>1. CASE m = k
        BY <1>0, <3>1, <4>1 DEF ExpireLock, Windows
      <4>2. CASE m # k
        BY <1>0, <3>1, <4>2 DEF ExpireLock, Windows
      <4> QED BY <4>1, <4>2
    <3>2. ASSUME NEW e \in Events, ExpireMarker(e) PROVE Windows(k)' = Windows(k)
      BY <3>2 DEF ExpireMarker, Windows, bus
    <3> QED BY <1>10, <3>1, <3>2 DEF Expiry
  <2> QED BY <1>1, <2>1, <2>2
<1>11. ASSUME NEW r \in Relays, Relay(r) \/ RelayCrash(r)
       PROVE  UNCHANGED <<locks, expiries, stream, gateway>>
  BY <1>11, RelayLeavesGateway DEF bus
<1>12. CASE UNCHANGED vars
  BY <1>4, <1>12 DEF vars, bus
<1> QED
  BY <1>4, <1>5, <1>6, <1>7, <1>8, <1>9, <1>10, <1>11, <1>12 DEF Next, Gateway

\* A body never becomes more events than it had idempotency windows, however often
\* and for whatever dataset it is uploaded and wherever handlers die.
\* (routers/ingest.py lines 130-149, events.py lines 66-91)
THEOREM OneEventInEachWindow == Spec => []OneEventPerWindow
<1>1. Init => TypeInv /\ OnceInv
  <2> SUFFICES ASSUME Init, NEW k \in Keys
               PROVE  Cardinality(EventsOf(k)) + Coming(k) <= Windows(k)
    BY InitTypeInv DEF OnceInv
  <2>1. EventsOf(k) = {} /\ Coming(k) = 0 /\ Windows(k) = 0
    BY DEF Init, EventsOf, Published, Coming, Windows
  <2> QED BY <2>1, FS_EmptySet
<1>2. TypeInv /\ OnceInv /\ [Next]_vars => (TypeInv /\ OnceInv)'
  BY StepTypeInv, StepOnceInv
<1>3. TypeInv /\ OnceInv => OneEventPerWindow
  <2> SUFFICES ASSUME TypeInv, OnceInv, NEW k \in Keys
               PROVE  Cardinality(EventsOf(k)) <= Windows(k)
    BY DEF OneEventPerWindow
  <2>1. Coming(k) \in {0, 1} /\ Cardinality(EventsOf(k)) + Coming(k) <= Windows(k)
    BY DEF OnceInv, Coming
  <2> QED BY <2>1, Counts
<1> QED BY <1>1, <1>2, <1>3, PTL DEF Spec

-----------------------------------------------------------------------------
(* No silent loss: whatever leads to an acknowledgement, the marker or the      *)
(* dead-letter entry, was preceded by what settles the event.                   *)

Taken(e) == runs[e] > 0 \/ dlq[e] > 0

LossInv ==
    /\ \A e \in marked : runs[e] > 0
    /\ gateway.at = "mark" => runs[Len(stream)] > 0
    /\ \A r \in Relays :
         /\ relay[r].at = "mark" => runs[Current(r)] > 0
         /\ relay[r].at = "ack" => Taken(Current(r))
    /\ NoSilentLoss

\* A relay step keeps LossInv when its own tick, the new markers and the events
\* it settles are accounted for.
LEMMA RelayKeepsLossInv ==
    ASSUME TypeInv, TypeInv', LossInv, [Next]_vars,
           NEW r \in Relays, Relay(r) \/ RelayCrash(r),
           relay'[r].at = "mark" => runs'[Oldest(relay'[r].batch)] > 0,
           relay'[r].at = "ack" =>
               \/ runs'[Oldest(relay'[r].batch)] > 0 \/ dlq'[Oldest(relay'[r].batch)] > 0,
           \A e \in marked' \ marked : runs'[e] > 0,
           \A e \in Published : e <= cursor' /\ e \notin pending' =>
               \/ e <= cursor /\ e \notin pending
               \/ runs'[e] > 0 \/ dlq'[e] > 0
    PROVE  LossInv'
<1>1. \A e \in Events : runs[e] <= runs'[e] /\ dlq[e] <= dlq'[e]
  BY EffectsGrow
<1>2. /\ runs \in [Events -> Nat] /\ runs' \in [Events -> Nat]
      /\ dlq \in [Events -> Nat] /\ dlq' \in [Events -> Nat]
      /\ marked \subseteq Published
  BY DEF TypeInv, TypeOK
<1>3. Published \subseteq Events /\ Published' = Published /\ Len(stream') = Len(stream)
  BY StreamPositions, RelayLeavesGateway DEF bus, Published
<1>4. \A e \in Events : (runs[e] > 0 => runs'[e] > 0) /\ (dlq[e] > 0 => dlq'[e] > 0)
  BY <1>1, <1>2
<1>5. \A e \in marked' : runs'[e] > 0
  BY <1>2, <1>3, <1>4 DEF LossInv
<1>6. gateway'.at = "mark" => runs'[Len(stream')] > 0
  BY <1>3, <1>4, RelayLeavesGateway, NewestPublished DEF LossInv
<1>7. ASSUME NEW q \in Relays \ {r}
      PROVE  /\ relay'[q].at = "mark" => runs'[Oldest(relay'[q].batch)] > 0
             /\ relay'[q].at = "ack" =>
                  \/ runs'[Oldest(relay'[q].batch)] > 0 \/ dlq'[Oldest(relay'[q].batch)] > 0
  BY <1>4, OtherTicksStay, CurrentInBatch DEF LossInv, Current, Taken
<1>8. \A e \in Published' : (e <= cursor' /\ e \notin pending') => runs'[e] > 0 \/ dlq'[e] > 0
  BY <1>3, <1>4 DEF LossInv, NoSilentLoss, Settled
<1> QED BY <1>5, <1>6, <1>7, <1>8 DEF LossInv, NoSilentLoss, Settled, Current, Taken

LEMMA StepLossInv == TypeInv /\ LossInv /\ [Next]_vars => LossInv'
<1> SUFFICES ASSUME TypeInv, LossInv, [Next]_vars PROVE LossInv'
  OBVIOUS
<1>0. /\ TypeInv'
      /\ gateway \in [at : GatewayStep, content : Contents]
      /\ relay \in [Relays -> Tick]
      /\ runs \in [Events -> Nat] /\ dlq \in [Events -> Nat] /\ pending \subseteq 1..cursor
  BY StepTypeInv DEF TypeInv, TypeOK
<1>1. CASE UNCHANGED <<stream, group, effects, relay>> /\ gateway'.at # "mark"
  BY <1>1 DEF LossInv, NoSilentLoss, Settled, Published, Current, Taken, group, effects
<1>2. CASE \E c \in Contents : Upload(c)
  BY <1>1, <1>2 DEF Upload, bus
<1>3. CASE TakeLock \/ AnswerDuplicate \/ GatewayCrash
  BY <1>0, <1>1, <1>3 DEF TakeLock, AnswerDuplicate, GatewayCrash, bus
<1>4. CASE AddToStream
  <2>1. UNCHANGED <<group, effects, relay>> /\ gateway'.at = "trigger"
    BY <1>0, <1>4 DEF AddToStream
  <2>2. \A e \in Published' : e <= cursor => e \in Published
    BY <1>4, StreamPositions DEF AddToStream, Published, TypeInv, TypeOK
  <2> QED BY <2>1, <2>2 DEF LossInv, NoSilentLoss, Settled, Current, Taken, group, effects
<1>5. CASE GatewayTrigger
  <2>1. Len(stream) \in Events
    BY <1>5, NewestPublished DEF GatewayTrigger
  <2>2. UNCHANGED <<bus, group, marked, dlq, relay>>
    BY <1>5 DEF GatewayTrigger
  <2>3. gateway'.at = "mark" => runs'[Len(stream)] > 0
    BY <1>0, <1>5, <2>1 DEF GatewayTrigger
  <2>4. \A e \in Events : runs[e] > 0 => runs'[e] > 0
    BY <1>0, <1>5, <2>1 DEF GatewayTrigger
  <2>5. marked \subseteq Events /\ Published \subseteq Events
    BY StreamPositions DEF TypeInv, TypeOK
  <2>6. \A r \in Relays : relay[r].at \in {"mark", "ack"} => Current(r) \in Events
    BY CurrentInBatch
  <2> HIDE DEF Current
  <2>7. \A r \in Relays :
          /\ relay[r].at = "mark" => runs'[Current(r)] > 0
          /\ relay[r].at = "ack" => runs'[Current(r)] > 0 \/ dlq[Current(r)] > 0
    BY <2>4, <2>6 DEF LossInv, Taken
  <2>8. \A e \in Published : Settled(e) => runs'[e] > 0 \/ dlq[e] > 0
    BY <2>4, <2>5 DEF LossInv, NoSilentLoss
  <2>9. \A e \in marked : runs'[e] > 0
    BY <2>4, <2>5 DEF LossInv
  <2> QED BY <2>2, <2>3, <2>7, <2>8, <2>9
          DEF LossInv, NoSilentLoss, Settled, Published, Current, Taken, bus, group
<1>6. CASE GatewayMark
  <2>1. /\ marked' = marked \cup {Len(stream)} /\ runs[Len(stream)] > 0
        /\ gateway'.at = "idle"
        /\ UNCHANGED <<bus, group, dlq, runs, relay>>
    BY <1>0, <1>6 DEF GatewayMark, LossInv
  <2> QED BY <2>1 DEF LossInv, NoSilentLoss, Settled, Published, Current, Taken, bus, group
<1>7. ASSUME NEW r \in Relays, Relay(r) \/ RelayCrash(r) PROVE LossInv'
  <2> USE <1>0, <1>7
  \* Enough: relay r's new tick is justified, and so is what it settles and marks.
  <2> DEFINE Justified ==
        /\ relay'[r].at = "mark" => runs'[Oldest(relay'[r].batch)] > 0
        /\ relay'[r].at = "ack" =>
             \/ runs'[Oldest(relay'[r].batch)] > 0 \/ dlq'[Oldest(relay'[r].batch)] > 0
        /\ \A e \in marked' \ marked : runs'[e] > 0
        /\ \A e \in Published : e <= cursor' /\ e \notin pending' =>
             \/ e <= cursor /\ e \notin pending
             \/ runs'[e] > 0 \/ dlq'[e] > 0
  <2>1. Justified => LossInv'
    BY RelayKeepsLossInv
  <2>2. ASSUME NEW u, NEW b, NEW o, Continue(r, u, b, o)
        PROVE  relay'[r].at \notin {"mark", "ack"}
    BY <2>2 DEF Continue
  <2>3. CASE StartTick(r)
    BY <2>1, <2>3 DEF StartTick, group, effects
  <2>4. CASE ReadBacklog(r)
    BY <2>1, <2>4 DEF ReadBacklog, effects
  <2>5. CASE ReadNew(r)
    <3> DEFINE new == OldestFew({e \in Published : e > cursor})
    <3>1. /\ cursor' = cursor + Cardinality(new) /\ pending' = pending \cup new
          /\ UNCHANGED effects /\ relay'[r].at \notin {"mark", "ack"}
      BY <2>2, <2>5 DEF ReadNew
    <3>2. new = (cursor + 1)..(cursor + Cardinality(new)) /\ Cardinality(new) \in Nat
      BY StreamPositions, NewEvents DEF Published
    <3> HIDE DEF new
    <3>3. \A e \in Published : e <= cursor' /\ e \notin pending' => e <= cursor /\ e \notin pending
      BY <3>1, <3>2, StreamPositions
    <3> QED BY <2>1, <3>1, <3>3 DEF effects
  <2>6. CASE FilterOne(r)
    <3> DEFINE e == Oldest(relay[r].unchecked)
    <3>1. /\ relay'[r].at \notin {"mark", "ack"}
          /\ UNCHANGED <<cursor, effects>>
          /\ \/ pending' = pending
             \/ e \in marked /\ pending' = pending \ {e}
      BY <2>2, <2>6 DEF FilterOne
    <3> HIDE DEF e
    <3>2. e \in marked => runs[e] > 0
      BY DEF LossInv
    <3> QED BY <2>1, <3>1, <3>2 DEF effects
  <2>7. CASE DeadLetter(r)
    <3>1. /\ dlq' = [dlq EXCEPT ![Current(r)] = @ + 1]
          /\ relay' = [relay EXCEPT ![r].at = "ack"]
          /\ UNCHANGED <<group, marked, runs>>
      BY <2>7 DEF DeadLetter
    <3>2. Current(r) \in Events
      BY <2>7, CurrentInBatch DEF DeadLetter
    <3>3. dlq'[Current(r)] > 0
      BY <3>1, <3>2
    <3>4. relay'[r].at = "ack" /\ Oldest(relay'[r].batch) = Current(r)
      BY <3>1 DEF Current
    <3> QED BY <2>1, <3>1, <3>3, <3>4 DEF group
  <2>8. CASE RelayTrigger(r)
    <3>1. Current(r) \in Events
      BY <2>8, CurrentInBatch DEF RelayTrigger
    <3>2. UNCHANGED <<cursor, pending, marked>>
      BY <2>8 DEF RelayTrigger
    <3>3. \/ relay'[r].at \notin {"mark", "ack"}
          \/ /\ runs' = [runs EXCEPT ![Current(r)] = @ + 1]
             /\ relay' = [relay EXCEPT ![r].at = "mark"]
      BY <2>2, <2>8 DEF RelayTrigger
    <3>4. CASE relay'[r].at \notin {"mark", "ack"}
      BY <2>1, <3>2, <3>4
    <3>5. CASE /\ runs' = [runs EXCEPT ![Current(r)] = @ + 1]
               /\ relay' = [relay EXCEPT ![r].at = "mark"]
      <4>1. runs'[Current(r)] > 0
        BY <3>1, <3>5
      <4>2. relay'[r].at = "mark" /\ Oldest(relay'[r].batch) = Current(r)
        BY <3>5 DEF Current
      <4> QED BY <2>1, <3>2, <4>1, <4>2
    <3> QED BY <3>3, <3>4, <3>5
  <2>9. CASE RelayMark(r)
    <3>1. /\ relay[r].at = "mark" /\ marked' = marked \cup {Current(r)}
          /\ relay' = [relay EXCEPT ![r].at = "ack"]
          /\ UNCHANGED <<group, runs, dlq>>
      BY <2>9 DEF RelayMark
    <3>2. runs'[Current(r)] > 0
      BY <3>1 DEF LossInv
    <3>3. relay'[r].at = "ack" /\ Oldest(relay'[r].batch) = Current(r)
      BY <3>1 DEF Current
    <3> QED BY <2>1, <3>1, <3>2, <3>3 DEF group
  <2>10. CASE Acknowledge(r)
    <3>1. /\ relay[r].at = "ack" /\ pending' = pending \ {Current(r)}
          /\ relay'[r].at \notin {"mark", "ack"}
          /\ UNCHANGED <<cursor, effects>>
      BY <2>2, <2>10 DEF Acknowledge
    <3>2. runs[Current(r)] > 0 \/ dlq[Current(r)] > 0
      BY <3>1 DEF LossInv, Taken
    <3> QED BY <2>1, <3>1, <3>2 DEF effects
  <2>11. CASE RelayCrash(r)
    BY <2>1, <2>2, <2>11 DEF RelayCrash, effects
  <2> QED BY <2>3, <2>4, <2>5, <2>6, <2>7, <2>8, <2>9, <2>10, <2>11 DEF Relay
<1>8. CASE UNCHANGED vars
  BY <1>8 DEF vars, bus, group, effects, LossInv, NoSilentLoss, Settled, Published, Current, Taken
<1>9. CASE Expiry
  BY <1>9, ExpiryLeaves DEF group, LossInv, NoSilentLoss, Settled, Published, Current, Taken
<1> QED
  BY <1>2, <1>3, <1>4, <1>5, <1>6, <1>7, <1>8, <1>9 DEF Next, Gateway

\* An event that is delivered and no longer pending was started or dead-lettered,
\* for any number of relays, events and crashes.  (events.py lines 5-11 and
\* 165-228, relay.py lines 77-116)
THEOREM NothingLostInSilence == Spec => []NoSilentLoss
<1>1. Init => TypeInv /\ LossInv
  BY InitTypeInv
     DEF Init, LossInv, NoSilentLoss, Settled, Published, NoTick
<1>2. TypeInv /\ LossInv /\ [Next]_vars => (TypeInv /\ LossInv)'
  BY StepTypeInv, StepLossInv
<1>3. LossInv => NoSilentLoss
  BY DEF LossInv
<1> QED BY <1>1, <1>2, <1>3, PTL DEF Spec

-----------------------------------------------------------------------------
(* Bounded redelivery.  A delivery is counted when a relay reads the event; the  *)
(* trigger it pays for comes later, from whoever owns the pending entry.  So a   *)
(* relay that still has the event before it holds one unspent delivery, and no   *)
(* two relays hold the same event.                                               *)

\* The events of a tick that it may still trigger.
Untried(t) ==
    t.unchecked \cup IF t.at \in {"mark", "ack"} THEN t.batch \ {Oldest(t.batch)} ELSE t.batch

\* The gateway's own trigger, once it had its turn.
ByGateway(e) == IF e > Len(stream) \/ (e = Len(stream) /\ gateway.at = "trigger") THEN 0 ELSE 1

BoundInv ==
    /\ \A e \in Events :
         /\ e > cursor => deliveries[e] = 0
         /\ runs[e] <= ByGateway(e) + MaxDeliveries
         /\ runs[e] <= ByGateway(e) + deliveries[e]
    /\ \A r \in Relays : \A e \in Untried(relay[r]) :
         owner[e] = r /\ runs[e] < ByGateway(e) + deliveries[e]

DeadInv == \A e \in Events : dlq[e] > 0 => e <= cursor /\ deliveries[e] > MaxDeliveries

\* Deliveries of an event are counted up from its first one, which is behind the cursor.
LEMMA DeliveriesGrow ==
    ASSUME TypeInv, [Next]_vars
    PROVE  /\ cursor' >= cursor
           /\ \A e \in Events : e <= cursor => deliveries'[e] >= deliveries[e]
<1>0. deliveries \in [Events -> Nat] /\ cursor \in Nat
  BY StreamPositions DEF TypeInv, TypeOK
<1>1. CASE UNCHANGED <<cursor, deliveries>>
  BY <1>0, <1>1
<1>2. ASSUME NEW r \in Relays, ReadBacklog(r)
      PROVE  /\ cursor' >= cursor
             /\ \A e \in Events : e <= cursor => deliveries'[e] >= deliveries[e]
  <2> DEFINE backlog == OldestFew({e \in pending : owner[e] = r})
  <2>1. /\ deliveries' = [e \in Events |-> deliveries[e] + IF e \in backlog THEN 1 ELSE 0]
        /\ cursor' = cursor
    BY <1>2 DEF ReadBacklog
  <2> HIDE DEF backlog
  <2> QED BY <1>0, <2>1
<1>3. ASSUME NEW r \in Relays, ReadNew(r)
      PROVE  /\ cursor' >= cursor
             /\ \A e \in Events : e <= cursor => deliveries'[e] >= deliveries[e]
  <2> DEFINE new == OldestFew({e \in Published : e > cursor})
  <2>1. /\ cursor' = cursor + Cardinality(new)
        /\ deliveries' = [e \in Events |-> IF e \in new THEN 1 ELSE deliveries[e]]
    BY <1>3 DEF ReadNew
  <2>2. new = (cursor + 1)..(cursor + Cardinality(new)) /\ Cardinality(new) \in Nat
    BY StreamPositions, NewEvents DEF Published
  <2> HIDE DEF new
  <2> QED BY <1>0, <2>1, <2>2
<1>4. CASE Gateway \/ GatewayCrash
  BY <1>1, <1>4 DEF Gateway, Upload, TakeLock, AnswerDuplicate, AddToStream,
     GatewayTrigger, GatewayMark, GatewayCrash, group
<1>5. ASSUME NEW r \in Relays,
             \/ StartTick(r) \/ FilterOne(r) \/ DeadLetter(r) \/ RelayTrigger(r)
             \/ RelayMark(r) \/ Acknowledge(r) \/ RelayCrash(r)
      PROVE  UNCHANGED <<cursor, deliveries>>
  BY <1>5 DEF StartTick, FilterOne, DeadLetter, RelayTrigger, RelayMark, Acknowledge,
     RelayCrash, group
<1>6. CASE UNCHANGED vars
  BY <1>1, <1>6 DEF vars, group
<1>7. CASE Expiry
  BY <1>1, <1>7, ExpiryLeaves DEF group
<1> QED BY <1>1, <1>2, <1>3, <1>4, <1>5, <1>6, <1>7 DEF Next, Relay

LEMMA StepDeadInv == TypeInv /\ DeadInv /\ [Next]_vars => DeadInv'
<1> SUFFICES ASSUME TypeInv, DeadInv, [Next]_vars PROVE DeadInv'
  OBVIOUS
<1>0. /\ deliveries \in [Events -> Nat] /\ deliveries' \in [Events -> Nat]
      /\ dlq \in [Events -> Nat] /\ cursor \in Nat /\ cursor' \in Nat
      /\ MaxDeliveries \in Nat
  <2>1. TypeInv'
    BY StepTypeInv
  <2>2. stream' \in Seq(Contents) /\ cursor' \in 0..Len(stream')
    BY <2>1 DEF TypeInv, TypeOK
  <2>3. cursor' \in Nat
    BY <2>2
  <2> QED BY <2>1, <2>3, StreamPositions, RelayBoundsAssumption DEF TypeInv, TypeOK
<1>1. CASE dlq' = dlq
  <2> SUFFICES ASSUME NEW e \in Events, dlq'[e] > 0
               PROVE  e <= cursor' /\ deliveries'[e] > MaxDeliveries
    BY DEF DeadInv
  <2>1. e <= cursor /\ deliveries[e] > MaxDeliveries
    BY <1>1 DEF DeadInv
  <2>2. cursor' >= cursor /\ deliveries'[e] >= deliveries[e]
    BY <2>1, DeliveriesGrow
  <2>3. e \in Nat
    BY DEF Events
  <2> QED BY <1>0, <2>1, <2>2, <2>3
<1>2. ASSUME NEW r \in Relays, DeadLetter(r) PROVE DeadInv'
  <2>1. /\ dlq' = [dlq EXCEPT ![Current(r)] = @ + 1]
        /\ deliveries[Current(r)] > MaxDeliveries
        /\ cursor' = cursor /\ deliveries' = deliveries
    BY <1>2 DEF DeadLetter, Exhausted, group
  <2>2. Current(r) \in Events /\ Current(r) <= cursor
    BY <1>0, <1>2, CurrentInBatch DEF DeadLetter
  <2> HIDE DEF Current
  <2> QED BY <1>0, <2>1, <2>2 DEF DeadInv
<1>3. CASE Gateway \/ GatewayCrash
  BY <1>1, <1>3 DEF Gateway, Upload, TakeLock, AnswerDuplicate, AddToStream,
     GatewayTrigger, GatewayMark, GatewayCrash, effects
<1>4. ASSUME NEW r \in Relays,
             \/ StartTick(r) \/ ReadBacklog(r) \/ ReadNew(r) \/ FilterOne(r)
             \/ RelayTrigger(r) \/ RelayMark(r) \/ Acknowledge(r) \/ RelayCrash(r)
      PROVE  dlq' = dlq
  BY <1>4 DEF StartTick, ReadBacklog, ReadNew, FilterOne, RelayTrigger, RelayMark,
     Acknowledge, RelayCrash, effects
<1>5. CASE UNCHANGED vars
  BY <1>1, <1>5 DEF vars, effects
<1>6. CASE Expiry
  BY <1>1, <1>6, ExpiryLeaves
<1> QED BY <1>1, <1>2, <1>3, <1>4, <1>5, <1>6 DEF Next, Relay

\* Only an event delivered more often than the limit is dead-lettered.
\* (relay.py lines 84-90, events.py lines 219-228)
THEOREM OnlyExhaustedDeadLettered == Spec => []DeadLettersExhausted
<1>1. Init => TypeInv /\ DeadInv
  BY InitTypeInv DEF Init, DeadInv
<1>2. TypeInv /\ DeadInv /\ [Next]_vars => (TypeInv /\ DeadInv)'
  BY StepTypeInv, StepDeadInv
<1>3. TypeInv /\ DeadInv => DeadLettersExhausted
  BY StreamPositions DEF DeadInv, DeadLettersExhausted
<1> QED BY <1>1, <1>2, <1>3, PTL DEF Spec

LEMMA ByGatewayGrows ==
    ASSUME TypeInv, Gateway \/ GatewayCrash
    PROVE  \A e \in Events :
             /\ ByGateway(e) \in {0, 1} /\ ByGateway(e)' \in {0, 1}
             /\ ByGateway(e) <= ByGateway(e)'
<1>1. gateway \in [at : GatewayStep, content : Contents] /\ Len(stream) \in Nat
  BY StreamPositions DEF TypeInv, TypeOK
<1>2. CASE stream' = stream /\ (gateway.at = "trigger" \/ gateway'.at # "trigger")
  BY <1>1, <1>2 DEF ByGateway
<1>3. CASE AddToStream
  <2>1. Len(stream') = Len(stream) + 1 /\ gateway.at = "xadd"
    BY <1>3 DEF AddToStream, TypeInv, TypeOK
  <2> QED BY <1>1, <2>1 DEF ByGateway, Events
<1>4. CASE (\E c \in Contents : Upload(c)) \/ TakeLock \/ AnswerDuplicate \/ GatewayMark \/ GatewayCrash
  BY <1>1, <1>2, <1>4 DEF Upload, TakeLock, AnswerDuplicate, GatewayMark, GatewayCrash, bus
<1>5. CASE GatewayTrigger
  BY <1>1, <1>2, <1>5 DEF GatewayTrigger, bus
<1> QED BY <1>3, <1>4, <1>5 DEF Gateway

LEMMA UntriedDelivered ==
    ASSUME TypeInv, NEW r \in Relays
    PROVE  Untried(relay[r]) \subseteq 1..cursor /\ Untried(relay[r]) \subseteq Events
BY StreamPositions DEF TypeInv, TickOnTrack, Untried

LEMMA GatewayKeepsBoundInv ==
    ASSUME TypeInv, TypeInv', BoundInv, Gateway \/ GatewayCrash
    PROVE  BoundInv'
<1>0. /\ runs \in [Events -> Nat] /\ runs' \in [Events -> Nat]
      /\ deliveries \in [Events -> Nat] /\ MaxDeliveries \in Nat
  BY RelayBoundsAssumption DEF TypeInv, TypeOK
<1>1. UNCHANGED <<group, relay>>
  BY DEF Gateway, Upload, TakeLock, AnswerDuplicate, AddToStream, GatewayTrigger,
     GatewayMark, GatewayCrash
<1>2. \A e \in Events : runs'[e] - ByGateway(e)' <= runs[e] - ByGateway(e)
  <2>1. CASE runs' = runs
    BY <1>0, <2>1, ByGatewayGrows
  <2>2. CASE GatewayTrigger /\ runs' = [runs EXCEPT ![Len(stream)] = @ + 1]
    <3>1. /\ gateway.at = "trigger" /\ gateway'.at # "trigger" /\ stream' = stream
          /\ Len(stream) \in Events
      BY <2>2, NewestPublished DEF GatewayTrigger, TypeInv, TypeOK, bus
    <3>2. ByGateway(Len(stream)) = 0 /\ ByGateway(Len(stream))' = 1
      BY <3>1, StreamPositions DEF ByGateway
    <3> QED BY <1>0, <2>2, <3>1, <3>2, ByGatewayGrows
  <2>3. CASE GatewayTrigger
    BY <2>1, <2>2, <2>3 DEF GatewayTrigger
  <2> QED BY <2>1, <2>3
          DEF Gateway, Upload, TakeLock, AnswerDuplicate, AddToStream, GatewayMark,
              GatewayCrash, effects
<1>3. \A e \in Events : ByGateway(e) \in Nat /\ ByGateway(e)' \in Nat
  BY ByGatewayGrows
<1>4. \A e \in Events :
        /\ e > cursor => deliveries[e] = 0
        /\ runs'[e] <= ByGateway(e)' + MaxDeliveries
        /\ runs'[e] <= ByGateway(e)' + deliveries[e]
  BY <1>0, <1>2, <1>3 DEF BoundInv
<1>5. \A r \in Relays : \A e \in Untried(relay[r]) :
        owner[e] = r /\ runs'[e] < ByGateway(e)' + deliveries[e]
  BY <1>0, <1>2, <1>3, UntriedDelivered DEF BoundInv
<1> QED BY <1>1, <1>4, <1>5 DEF BoundInv, group, ByGateway

\* A relay step keeps BoundInv when what it starts, counts and holds is accounted
\* for, and what the other relays own is left alone.
LEMMA RelayKeepsBoundInv ==
    ASSUME TypeInv, BoundInv, NEW r \in Relays, Relay(r) \/ RelayCrash(r),
           \A e \in Events :
             /\ e > cursor' => deliveries'[e] = 0
             /\ runs'[e] <= ByGateway(e) + MaxDeliveries
             /\ runs'[e] <= ByGateway(e) + deliveries'[e],
           \A e \in Untried(relay'[r]) :
             owner'[e] = r /\ runs'[e] < ByGateway(e) + deliveries'[e],
           \A e \in 1..cursor :
             owner[e] # r => /\ owner'[e] = owner[e] /\ runs'[e] = runs[e]
                             /\ deliveries'[e] = deliveries[e]
    PROVE  BoundInv'
<1>1. \A e : ByGateway(e)' = ByGateway(e)
  BY RelayLeavesGateway DEF ByGateway, bus
<1>2. ASSUME NEW q \in Relays \ {r}, NEW e \in Untried(relay'[q])
      PROVE  owner'[e] = q /\ runs'[e] < ByGateway(e) + deliveries'[e]
  <2>1. relay'[q] = relay[q]
    BY OtherTicksStay
  <2>2. e \in 1..cursor /\ owner[e] = q /\ runs[e] < ByGateway(e) + deliveries[e]
    BY <2>1, UntriedDelivered DEF BoundInv
  <2> QED BY <2>2
<1> QED BY <1>1, <1>2 DEF BoundInv, ByGateway

LEMMA StepBoundInv == TypeInv /\ BoundInv /\ [Next]_vars => BoundInv'
<1> SUFFICES ASSUME TypeInv, BoundInv, [Next]_vars PROVE BoundInv'
  OBVIOUS
<1>0. /\ TypeInv'
      /\ runs \in [Events -> Nat] /\ deliveries \in [Events -> Nat]
      /\ owner \in [Events -> Relays \cup {NoConsumer}]
      /\ relay \in [Relays -> Tick] /\ pending \subseteq 1..cursor
      /\ cursor \in Nat /\ MaxDeliveries \in Nat /\ 1..cursor \subseteq Events
      /\ \A e \in Events : e \in Nat
  <2>1. TypeInv'
    BY StepTypeInv
  <2>2. cursor \in Nat /\ MaxDeliveries \in Nat /\ 1..cursor \subseteq Events
    BY StreamPositions, RelayBoundsAssumption
  <2>3. \A e \in Events : e \in Nat
    BY DEF Events
  <2> QED BY <2>1, <2>2, <2>3 DEF TypeInv, TypeOK
<1>1. \A e \in Events : ByGateway(e) \in Nat
  BY DEF ByGateway
<1>2. CASE Gateway \/ GatewayCrash
  BY <1>0, <1>2, GatewayKeepsBoundInv
<1>3. ASSUME NEW r \in Relays, Relay(r) \/ RelayCrash(r) PROVE BoundInv'
  <2> USE <1>3
  <2>0. TickOnTrack(relay[r], cursor) /\ relay[r] \in Tick
    BY <1>0 DEF TypeInv
  <2>1. ASSUME NEW u, NEW b, NEW o, Continue(r, u, b, o)
        PROVE  /\ Untried(relay'[r]) = u \cup b
               /\ \/ owner' = o
                  \/ Untried(relay'[r]) = {} /\ owner' = Leave(r, o)
    <3>1. /\ relay'[r].unchecked = u /\ relay'[r].batch = b
          /\ relay'[r].at \in {"filter", "dispatch", "idle"}
          /\ relay'[r].at = "idle" => u = {} /\ b = {}
      BY <1>0, <2>1 DEF Continue
    <3>2. Untried(relay'[r]) = u \cup b
      BY <3>1 DEF Untried
    <3>3. owner' = o \/ (u = {} /\ b = {} /\ owner' = Leave(r, o))
      BY <2>1 DEF Continue
    <3> QED BY <3>2, <3>3
  <2>2. ASSUME NEW o \in [Events -> Relays \cup {NoConsumer}], NEW e \in Events, o[e] # r
        PROVE  Leave(r, o)[e] = o[e]
    BY <2>2 DEF Leave
  \* The steps that start, count and take up nothing.
  <2>3. ASSUME UNCHANGED <<runs, cursor, deliveries>>,
               Untried(relay'[r]) \subseteq Untried(relay[r]),
               owner' = owner \/ (Untried(relay'[r]) = {} /\ owner' = Leave(r, owner))
        PROVE  BoundInv'
    <3>1. \A e \in 1..cursor : owner[e] # r => owner'[e] = owner[e]
      BY <1>0, <2>2, <2>3
    <3>2. \A e \in Untried(relay'[r]) :
            owner'[e] = r /\ runs[e] < ByGateway(e) + deliveries[e]
      BY <2>3 DEF BoundInv
    <3>3. \A e \in Events :
            /\ e > cursor => deliveries[e] = 0
            /\ runs[e] <= ByGateway(e) + MaxDeliveries
            /\ runs[e] <= ByGateway(e) + deliveries[e]
      BY DEF BoundInv
    <3> QED BY <2>3, <3>1, <3>2, <3>3, RelayKeepsBoundInv
  <2>4. CASE StartTick(r)
    <3>1. relay'[r].batch = {} /\ relay'[r].unchecked = {}
      BY <1>0, <2>0, <2>4 DEF StartTick, TickOnTrack, Tick
    <3>2. Untried(relay'[r]) = {}
      BY <3>1 DEF Untried
    <3> QED BY <2>3, <2>4, <3>2 DEF StartTick, group, effects
  <2>5. CASE ReadBacklog(r)
    <3> DEFINE backlog == OldestFew({e \in pending : owner[e] = r})
    <3>1. /\ deliveries' = [e \in Events |-> deliveries[e] + IF e \in backlog THEN 1 ELSE 0]
          /\ UNCHANGED <<cursor, owner, runs>>
          /\ relay[r].at = "backlog" /\ relay'[r].at \in {"new", "filter"}
          /\ relay'[r].unchecked = backlog /\ relay'[r].batch = relay[r].batch
      BY <1>0, <2>5 DEF ReadBacklog, effects, Tick
    <3>2. \A e \in backlog : e \in 1..cursor /\ owner[e] = r
      BY <1>0 DEF OldestFew
    <3> HIDE DEF backlog
    <3>3. Untried(relay'[r]) = backlog
      BY <2>0, <3>1 DEF Untried, TickOnTrack
    <3>4. \A e \in Events :
            /\ e > cursor => deliveries'[e] = 0
            /\ runs[e] <= ByGateway(e) + MaxDeliveries
            /\ runs[e] <= ByGateway(e) + deliveries'[e]
      BY <1>0, <1>1, <3>1, <3>2 DEF BoundInv
    <3>5. \A e \in backlog : owner[e] = r /\ runs[e] < ByGateway(e) + deliveries'[e]
      BY <1>0, <1>1, <3>1, <3>2 DEF BoundInv
    <3>6. \A e \in 1..cursor : owner[e] # r => deliveries'[e] = deliveries[e]
      BY <1>0, <3>1, <3>2
    <3> QED BY <3>1, <3>3, <3>4, <3>5, <3>6, RelayKeepsBoundInv
  <2>6. CASE ReadNew(r)
    <3> DEFINE new == OldestFew({e \in Published : e > cursor})
               owners == [e \in Events |-> IF e \in new THEN r ELSE owner[e]]
    <3>1. /\ cursor' = cursor + Cardinality(new)
          /\ deliveries' = [e \in Events |-> IF e \in new THEN 1 ELSE deliveries[e]]
          /\ Continue(r, new, {}, owners)
          /\ runs' = runs
      BY <2>6 DEF ReadNew, effects
    <3>2. new = (cursor + 1)..(cursor + Cardinality(new)) /\ Cardinality(new) \in Nat
      BY StreamPositions, NewEvents DEF Published
    <3>3. \A e \in new : e \in Events /\ e > cursor
      BY <1>0, <3>2, StreamPositions DEF OldestFew, Published
    <3> HIDE DEF new
    <3>4. /\ owners \in [Events -> Relays \cup {NoConsumer}]
          /\ \A e \in new : owners[e] = r
          /\ \A e \in 1..cursor : owners[e] = owner[e]
      BY <1>0, <3>3
    <3> HIDE DEF owners
    <3>5. /\ Untried(relay'[r]) = new
          /\ owner' = owners \/ (new = {} /\ owner' = Leave(r, owners))
      BY <2>1, <3>1
    <3>6. \A e \in Events :
            /\ e > cursor' => deliveries'[e] = 0
            /\ runs[e] <= ByGateway(e) + MaxDeliveries
            /\ runs[e] <= ByGateway(e) + deliveries'[e]
      BY <1>0, <1>1, <3>1, <3>2, <3>3 DEF BoundInv
    <3>7. \A e \in new : owner'[e] = r /\ runs[e] < ByGateway(e) + deliveries'[e]
      BY <1>0, <1>1, <3>1, <3>3, <3>4, <3>5 DEF BoundInv
    <3>8. \A e \in 1..cursor :
            owner[e] # r => owner'[e] = owner[e] /\ deliveries'[e] = deliveries[e]
      BY <1>0, <2>2, <3>1, <3>3, <3>4, <3>5
    <3> QED BY <3>1, <3>5, <3>6, <3>7, <3>8, RelayKeepsBoundInv
  <2>7. CASE FilterOne(r)
    <3> DEFINE e == Oldest(relay[r].unchecked)
               rest == relay[r].unchecked \ {e}
    <3>1. /\ UNCHANGED <<runs, cursor, deliveries>> /\ relay[r].at = "filter"
          /\ \E b \in {relay[r].batch, relay[r].batch \cup {e}} : Continue(r, rest, b, owner)
      BY <2>7 DEF FilterOne, effects
    <3>2. e \in relay[r].unchecked
      BY <3>1, UncheckedInTick
    <3>3. Untried(relay[r]) = relay[r].unchecked \cup relay[r].batch
      BY <3>1 DEF Untried
    <3> HIDE DEF e
    <3> QED BY <2>1, <2>3, <3>1, <3>2, <3>3
  <2>8. CASE DeadLetter(r)
    <3>1. /\ UNCHANGED <<runs, cursor, deliveries, owner>>
          /\ relay'[r].unchecked = relay[r].unchecked /\ relay'[r].batch = relay[r].batch
          /\ relay[r].at = "dispatch"
      BY <1>0, <2>8 DEF DeadLetter, group, Tick
    <3>2. Untried(relay'[r]) \subseteq Untried(relay[r])
      BY <3>1 DEF Untried
    <3> QED BY <2>3, <3>1, <3>2
  <2>9. CASE RelayTrigger(r)
    <3>1. /\ relay[r].at = "dispatch" /\ deliveries[Current(r)] <= MaxDeliveries
          /\ UNCHANGED <<cursor, deliveries>>
          /\ runs' = runs \/ runs' = [runs EXCEPT ![Current(r)] = @ + 1]
      BY <1>0, <2>9, CurrentInBatch DEF RelayTrigger, Exhausted
    <3>2. /\ Current(r) \in relay[r].batch /\ Current(r) \in Events
          /\ relay[r].unchecked = {} /\ Rest(r) = relay[r].batch \ {Current(r)}
      BY <2>0, <3>1, CurrentInBatch DEF TickOnTrack
    <3>3. Untried(relay[r]) = relay[r].batch
      BY <3>1, <3>2 DEF Untried
    <3>4. /\ Untried(relay'[r]) = Rest(r)
          /\ owner' = owner \/ (Untried(relay'[r]) = {} /\ owner' = Leave(r, owner))
      <4>1. CASE Continue(r, {}, Rest(r), owner)
        BY <2>1, <4>1
      <4>2. CASE relay' = [relay EXCEPT ![r].at = "mark"] /\ UNCHANGED owner
        <5>1. /\ relay'[r].unchecked = {} /\ relay'[r].batch = relay[r].batch
              /\ relay'[r].at = "mark"
          BY <1>0, <3>2, <4>2 DEF Tick
        <5> QED BY <4>2, <5>1 DEF Untried, Rest, Current
      <4> QED BY <2>9, <4>1, <4>2 DEF RelayTrigger
    <3> HIDE DEF Current, Rest
    <3>5. /\ owner[Current(r)] = r
          /\ runs[Current(r)] < ByGateway(Current(r)) + deliveries[Current(r)]
      BY <3>2, <3>3 DEF BoundInv
    <3>6. \A e \in Events :
            /\ e > cursor => deliveries[e] = 0
            /\ runs'[e] <= ByGateway(e) + MaxDeliveries
            /\ runs'[e] <= ByGateway(e) + deliveries[e]
      BY <1>0, <1>1, <3>1, <3>2, <3>5 DEF BoundInv
    <3>7. \A e \in Rest(r) : owner[e] = r /\ runs'[e] < ByGateway(e) + deliveries[e]
      <4>1. \A e \in Rest(r) : e \in Untried(relay[r]) /\ e # Current(r) /\ e \in Events
        BY <1>0, <2>0, <3>2, <3>3 DEF TickOnTrack
      <4>2. \A e \in Rest(r) : runs'[e] = runs[e]
        BY <1>0, <3>1, <4>1
      <4> QED BY <4>1, <4>2 DEF BoundInv
    <3>8. \A e \in 1..cursor : owner[e] # r => owner'[e] = owner[e] /\ runs'[e] = runs[e]
      BY <1>0, <2>2, <3>1, <3>2, <3>4, <3>5
    <3>9. \A e \in Untried(relay'[r]) :
            owner'[e] = r /\ runs'[e] < ByGateway(e) + deliveries[e]
      BY <3>4, <3>7
    <3> QED BY <3>1, <3>6, <3>8, <3>9, RelayKeepsBoundInv
  <2>10. CASE RelayMark(r)
    <3>1. /\ UNCHANGED <<runs, cursor, deliveries, owner>>
          /\ relay'[r].unchecked = relay[r].unchecked /\ relay'[r].batch = relay[r].batch
          /\ relay[r].at = "mark" /\ relay'[r].at = "ack"
      BY <1>0, <2>10 DEF RelayMark, group, Tick
    <3>2. Untried(relay'[r]) = Untried(relay[r])
      BY <3>1 DEF Untried
    <3> QED BY <2>3, <3>1, <3>2
  <2>11. CASE Acknowledge(r)
    <3>1. /\ UNCHANGED <<runs, cursor, deliveries>> /\ relay[r].at = "ack"
          /\ Continue(r, {}, Rest(r), owner)
      BY <2>11 DEF Acknowledge, effects
    <3>2. Rest(r) \subseteq Untried(relay[r])
      BY <3>1 DEF Untried, Rest, Current
    <3> QED BY <2>1, <2>3, <3>1, <3>2
  <2>12. CASE RelayCrash(r)
    <3>1. UNCHANGED <<runs, cursor, deliveries>> /\ Continue(r, {}, {}, owner)
      BY <2>12 DEF RelayCrash, effects
    <3>2. Untried(relay'[r]) = {}
      BY <2>1, <3>1
    <3> QED BY <2>1, <2>3, <3>1, <3>2
  <2> QED
    BY <2>4, <2>5, <2>6, <2>7, <2>8, <2>9, <2>10, <2>11, <2>12 DEF Relay
<1>4. CASE UNCHANGED vars
  BY <1>4 DEF vars, bus, group, effects, BoundInv, ByGateway
<1>5. CASE Expiry
  BY <1>5, ExpiryLeaves DEF group, BoundInv, ByGateway
<1> QED BY <1>2, <1>3, <1>4, <1>5 DEF Next

\* Kestra starts an event at most once for the gateway and once for each of the
\* allowed deliveries, however many relays run and crash.  (relay.py lines 84-116)
THEOREM RerunsAreBounded == Spec => []RunsBounded
<1>1. Init => TypeInv /\ BoundInv
  <2> SUFFICES ASSUME Init PROVE BoundInv
    BY InitTypeInv
  <2>1. MaxDeliveries \in Nat /\ \A e \in Events : ByGateway(e) \in Nat
    BY RelayBoundsAssumption DEF ByGateway
  <2>2. \A e \in Events : runs[e] = 0 /\ deliveries[e] = 0
    BY DEF Init
  <2>3. \A r \in Relays : Untried(relay[r]) = {}
    BY DEF Init, NoTick, Untried
  <2> QED BY <2>1, <2>2, <2>3 DEF BoundInv
<1>2. TypeInv /\ BoundInv /\ [Next]_vars => (TypeInv /\ BoundInv)'
  BY StepTypeInv, StepBoundInv
<1>3. TypeInv /\ BoundInv => RunsBounded
  <2> SUFFICES ASSUME TypeInv, BoundInv, NEW e \in Published
               PROVE  runs[e] <= MaxDeliveries + 1
    BY DEF RunsBounded
  <2>1. e \in Events /\ runs[e] \in Nat /\ MaxDeliveries \in Nat /\ ByGateway(e) \in {0, 1}
    BY StreamPositions, RelayBoundsAssumption DEF TypeInv, TypeOK, ByGateway
  <2>2. runs[e] <= ByGateway(e) + MaxDeliveries
    BY <2>1 DEF BoundInv
  <2> QED BY <2>1, <2>2
<1> QED BY <1>1, <1>2, <1>3, PTL DEF Spec

-----------------------------------------------------------------------------
(* The marker. *)

NotRerun ==
    \A e \in marked :
      /\ \A r \in Relays : e \notin relay[r].batch
      /\ ~(gateway.at = "trigger" /\ e = Len(stream))
      => /\ runs'[e] = runs[e]
         /\ \A r \in Relays : e \notin relay'[r].batch

LEMMA StepNotRerun == TypeInv /\ [Next]_vars => [NotRerun]_vars
<1> SUFFICES ASSUME TypeInv, Next, NEW e \in marked,
                    \A r \in Relays : e \notin relay[r].batch,
                    ~(gateway.at = "trigger" /\ e = Len(stream))
             PROVE  /\ runs'[e] = runs[e]
                    /\ \A r \in Relays : e \notin relay'[r].batch
  BY DEF NotRerun
<1>0. /\ runs \in [Events -> Nat] /\ relay \in [Relays -> Tick] /\ e \in Events
  BY StreamPositions DEF TypeInv, TypeOK
<1>1. CASE Gateway \/ GatewayCrash
  <2>1. relay' = relay
    BY <1>1 DEF Gateway, Upload, TakeLock, AnswerDuplicate, AddToStream, GatewayTrigger,
       GatewayMark, GatewayCrash
  <2>2. runs'[e] = runs[e]
    BY <1>0, <1>1, NewestPublished
       DEF Gateway, Upload, TakeLock, AnswerDuplicate, AddToStream, GatewayTrigger,
           GatewayMark, GatewayCrash, effects
  <2> QED BY <2>1, <2>2
<1>2. ASSUME NEW r \in Relays, Relay(r) \/ RelayCrash(r)
      PROVE  runs'[e] = runs[e] /\ e \notin relay'[r].batch
  <2>1. ASSUME NEW u, NEW b, NEW o, Continue(r, u, b, o), e \notin b
        PROVE  e \notin relay'[r].batch
    BY <1>0, <2>1 DEF Continue
  <2>2. ASSUME NEW a, relay' = [relay EXCEPT ![r].at = a]
        PROVE  e \notin relay'[r].batch
    BY <1>0, <2>2 DEF Tick
  <2>3. CASE RelayTrigger(r)
    <3>1. Current(r) # e /\ e \notin Rest(r) /\ Current(r) \in Events
      BY <2>3, CurrentInBatch DEF RelayTrigger
    <3> HIDE DEF Current, Rest
    <3>2. runs'[e] = runs[e]
      BY <1>0, <2>3, <3>1 DEF RelayTrigger
    <3> QED BY <2>1, <2>2, <2>3, <3>1, <3>2 DEF RelayTrigger
  <2>4. CASE FilterOne(r)
    <3>1. /\ runs' = runs
          /\ \E u, b : Continue(r, u, b, owner) /\ e \notin b
      BY <2>4 DEF FilterOne, effects
    <3> QED BY <2>1, <3>1
  <2>5. CASE ReadBacklog(r)
    BY <1>0, <2>5 DEF ReadBacklog, effects, Tick
  <2>6. CASE ReadNew(r)
    BY <2>1, <2>6 DEF ReadNew, effects
  <2>7. CASE StartTick(r) \/ DeadLetter(r) \/ RelayMark(r)
    BY <2>2, <2>7 DEF StartTick, DeadLetter, RelayMark, effects
  <2>8. CASE Acknowledge(r)
    BY <2>1, <2>8 DEF Acknowledge, effects, Rest
  <2>9. CASE RelayCrash(r)
    BY <2>1, <2>9 DEF RelayCrash, effects
  <2> QED BY <1>2, <2>3, <2>4, <2>5, <2>6, <2>7, <2>8, <2>9 DEF Relay
<1>3. ASSUME NEW r \in Relays, Relay(r) \/ RelayCrash(r)
      PROVE  \A q \in Relays : e \notin relay'[q].batch
  BY <1>2, <1>3, OtherTicksStay
<1>4. CASE Expiry
  BY <1>4, ExpiryLeaves
<1> QED BY <1>1, <1>2, <1>3, <1>4 DEF Next

\* A marked event that nobody holds is neither started nor taken up again,
\* whatever is redelivered.  (events.py lines 158-162 and 191-206)
THEOREM MarkedIsFinal == Spec => MarkerStopsReruns
<1>1. Spec => [][NotRerun]_vars
  BY InitTypeInv, StepTypeInv, StepNotRerun, PTL DEF Spec
<1> QED BY <1>1 DEF MarkerStopsReruns, NotRerun

=============================================================================

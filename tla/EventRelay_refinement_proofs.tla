---------------------- MODULE EventRelay_refinement_proofs ----------------------
(***************************************************************************)
(* EventRelay implements EventDelivery, for any relays, contents, batch    *)
(* size and delivery limit, any number of uploads and crashes, and locks   *)
(* and markers that expire at any time; and what makes the answer          *)
(* "duplicate" true.                                                       *)
(***************************************************************************)
EXTENDS EventRelay_safety_proofs

-----------------------------------------------------------------------------
(* What a relay holds: the events of its tick are pending and its own, each of *)
(* them held once.  And the cursor has passed no event without delivering it.  *)

Held(t) == t.unchecked \cup t.batch

HeldInv ==
    /\ \A r \in Relays :
         /\ \A e \in Held(relay[r]) : e \in pending /\ owner[e] = r
         /\ relay[r].unchecked \cap relay[r].batch = {}
    /\ \A e \in 1..cursor : deliveries[e] > 0

LEMMA HeldDelivered ==
    ASSUME TypeInv, NEW r \in Relays
    PROVE  Held(relay[r]) \subseteq 1..cursor
BY DEF TypeInv, TickOnTrack, Held

\* A relay step keeps HeldInv when what it holds after it is pending and its own,
\* and what the other relays own is left alone.
LEMMA RelayKeepsHeldInv ==
    ASSUME TypeInv, HeldInv, NEW r \in Relays, Relay(r) \/ RelayCrash(r),
           \A e \in Held(relay'[r]) : e \in pending' /\ owner'[e] = r,
           relay'[r].unchecked \cap relay'[r].batch = {},
           \A e \in 1..cursor : owner[e] # r /\ e \in pending =>
             e \in pending' /\ owner'[e] = owner[e],
           \A e \in 1..cursor' : deliveries'[e] > 0
    PROVE  HeldInv'
<1>1. ASSUME NEW q \in Relays \ {r}, NEW e \in Held(relay'[q])
      PROVE  e \in pending' /\ owner'[e] = q
  <2>1. relay'[q] = relay[q]
    BY OtherTicksStay
  <2>2. e \in 1..cursor /\ owner[e] = q /\ e \in pending
    BY <2>1, HeldDelivered DEF HeldInv
  <2> QED BY <2>2
<1>2. \A q \in Relays \ {r} : relay'[q].unchecked \cap relay'[q].batch = {}
  BY OtherTicksStay DEF HeldInv
<1> QED BY <1>1, <1>2 DEF HeldInv, Held

LEMMA StepHeldInv == TypeInv /\ HeldInv /\ [Next]_vars => HeldInv'
<1> SUFFICES ASSUME TypeInv, HeldInv, [Next]_vars PROVE HeldInv'
  OBVIOUS
<1>0. /\ deliveries \in [Events -> Nat]
      /\ owner \in [Events -> Relays \cup {NoConsumer}]
      /\ relay \in [Relays -> Tick] /\ pending \subseteq 1..cursor
      /\ cursor \in Nat /\ 1..cursor \subseteq Events
      /\ \A e \in Events : e \in Nat
  <2>1. cursor \in Nat /\ 1..cursor \subseteq Events
    BY StreamPositions
  <2>2. \A e \in Events : e \in Nat
    BY DEF Events
  <2> QED BY <2>1, <2>2 DEF TypeInv, TypeOK
<1>1. CASE UNCHANGED <<group, relay>>
  BY <1>1 DEF group, HeldInv, Held
<1>2. CASE Gateway \/ GatewayCrash
  BY <1>1, <1>2 DEF Gateway, Upload, TakeLock, AnswerDuplicate, AddToStream,
     GatewayTrigger, GatewayMark, GatewayCrash
<1>3. CASE Expiry \/ UNCHANGED vars
  BY <1>1, <1>3, ExpiryLeaves DEF vars
<1>4. ASSUME NEW r \in Relays, Relay(r) \/ RelayCrash(r) PROVE HeldInv'
  <2> USE <1>4
  <2>0. /\ TickOnTrack(relay[r], cursor) /\ relay[r] \in Tick
        /\ \A e \in Held(relay[r]) : e \in pending /\ owner[e] = r
        /\ relay[r].unchecked \cap relay[r].batch = {}
        /\ \A e \in 1..cursor : deliveries[e] > 0
    BY <1>0 DEF TypeInv, HeldInv
  <2>1. ASSUME NEW u, NEW b, NEW o, Continue(r, u, b, o)
        PROVE  /\ Held(relay'[r]) = u \cup b
               /\ relay'[r].unchecked = u /\ relay'[r].batch = b
               /\ owner' = o \/ (Held(relay'[r]) = {} /\ owner' = Leave(r, o))
    <3>1. /\ relay'[r].unchecked = u /\ relay'[r].batch = b
          /\ owner' = o \/ (u = {} /\ b = {} /\ owner' = Leave(r, o))
      BY <1>0, <2>1 DEF Continue
    <3> QED BY <3>1 DEF Held
  <2>2. ASSUME NEW o \in [Events -> Relays \cup {NoConsumer}], NEW e \in Events, o[e] # r
        PROVE  Leave(r, o)[e] = o[e]
    BY <2>2 DEF Leave
  \* The steps that take nothing up.
  <2>3. ASSUME UNCHANGED <<cursor, deliveries>>, Held(relay'[r]) \subseteq Held(relay[r]),
               relay'[r].unchecked \cap relay'[r].batch = {},
               pending' \subseteq pending,
               \A e \in pending \ pending' : owner[e] = r /\ e \notin Held(relay'[r]),
               owner' = owner \/ (Held(relay'[r]) = {} /\ owner' = Leave(r, owner))
        PROVE  HeldInv'
    <3>1. \A e \in 1..cursor : owner[e] # r /\ e \in pending =>
            e \in pending' /\ owner'[e] = owner[e]
      BY <1>0, <2>2, <2>3
    <3>2. \A e \in Held(relay'[r]) : e \in pending' /\ owner'[e] = r
      BY <2>0, <2>3
    <3> QED BY <2>0, <2>3, <3>1, <3>2, RelayKeepsHeldInv
  <2>4. ASSUME NEW a, relay' = [relay EXCEPT ![r].at = a]
        PROVE  /\ Held(relay'[r]) = Held(relay[r])
               /\ relay'[r].unchecked \cap relay'[r].batch = {}
    BY <1>0, <2>0, <2>4 DEF Held, Tick
  <2>5. CASE StartTick(r) \/ DeadLetter(r) \/ RelayMark(r)
    BY <2>3, <2>4, <2>5 DEF StartTick, DeadLetter, RelayMark, group
  <2>6. CASE ReadBacklog(r)
    <3> DEFINE backlog == OldestFew({e \in pending : owner[e] = r})
    <3>1. /\ deliveries' = [e \in Events |-> deliveries[e] + IF e \in backlog THEN 1 ELSE 0]
          /\ UNCHANGED <<cursor, pending, owner>>
          /\ relay[r].at = "backlog"
          /\ relay'[r].unchecked = backlog /\ relay'[r].batch = relay[r].batch
      BY <1>0, <2>6 DEF ReadBacklog, Tick
    <3>2. \A e \in backlog : e \in pending /\ owner[e] = r
      BY DEF OldestFew
    <3> HIDE DEF backlog
    <3>3. Held(relay'[r]) = backlog /\ relay'[r].batch = {}
      BY <2>0, <3>1 DEF Held, TickOnTrack
    <3>4. \A e \in 1..cursor' : deliveries'[e] > 0
      BY <1>0, <2>0, <3>1
    <3> QED BY <3>1, <3>2, <3>3, <3>4, RelayKeepsHeldInv
  <2>7. CASE ReadNew(r)
    <3> DEFINE new == OldestFew({e \in Published : e > cursor})
               owners == [e \in Events |-> IF e \in new THEN r ELSE owner[e]]
    <3>1. /\ cursor' = cursor + Cardinality(new) /\ pending' = pending \cup new
          /\ deliveries' = [e \in Events |-> IF e \in new THEN 1 ELSE deliveries[e]]
          /\ Continue(r, new, {}, owners)
      BY <2>7 DEF ReadNew
    <3>2. new = (cursor + 1)..(cursor + Cardinality(new)) /\ Cardinality(new) \in Nat
      BY StreamPositions, NewEvents DEF Published
    <3>3. \A e \in new : e \in Events /\ e > cursor
      BY <1>0, <3>2, StreamPositions DEF OldestFew, Published
    <3> HIDE DEF new
    <3>4. /\ owners \in [Events -> Relays \cup {NoConsumer}]
          /\ \A e \in new : owners[e] = r
          /\ \A e \in 1..cursor : owners[e] = owner[e]
      BY <1>0, <3>3
    <3> HIDE DEF owners
    <3>5. /\ Held(relay'[r]) = new /\ relay'[r].batch = {}
          /\ owner' = owners \/ (new = {} /\ owner' = Leave(r, owners))
      <4>1. Continue(r, new, {}, owners)
        BY <3>1
      <4>2. /\ Held(relay'[r]) = new \cup {} /\ relay'[r].batch = {}
            /\ owner' = owners \/ (Held(relay'[r]) = {} /\ owner' = Leave(r, owners))
        BY <2>1, <4>1
      <4> QED BY <4>2
    <3>6. \A e \in 1..cursor : owner[e] # r /\ e \in pending =>
            e \in pending' /\ owner'[e] = owner[e]
      BY <1>0, <2>2, <3>1, <3>4, <3>5
    <3>7. \A e \in Held(relay'[r]) : e \in pending' /\ owner'[e] = r
      BY <3>1, <3>4, <3>5
    <3>8. \A e \in 1..cursor' : e \in new \/ (e \in 1..cursor /\ e \notin new)
      BY <1>0, <3>1, <3>2
    <3>9. \A e \in 1..cursor' : deliveries'[e] > 0
      BY <1>0, <2>0, <3>1, <3>3, <3>8
    <3> QED BY <3>5, <3>6, <3>7, <3>9, RelayKeepsHeldInv
  <2>8. CASE FilterOne(r)
    <3> DEFINE e == Oldest(relay[r].unchecked)
               rest == relay[r].unchecked \ {e}
    <3>1. /\ UNCHANGED <<cursor, deliveries>> /\ relay[r].at = "filter"
          /\ IF e \in marked
               THEN pending' = pending \ {e} /\ Continue(r, rest, relay[r].batch, owner)
               ELSE pending' = pending /\ Continue(r, rest, relay[r].batch \cup {e}, owner)
      BY <2>8 DEF FilterOne
    <3>2. e \in relay[r].unchecked
      BY <3>1, UncheckedInTick
    <3> HIDE DEF e
    <3>3. e \notin relay[r].batch /\ owner[e] = r
      BY <2>0, <3>2 DEF Held
    <3>4. CASE e \in marked
      <4>1. pending' = pending \ {e} /\ Continue(r, rest, relay[r].batch, owner)
        BY <3>1, <3>4
      <4>2. /\ Held(relay'[r]) = rest \cup relay[r].batch
            /\ relay'[r].unchecked = rest /\ relay'[r].batch = relay[r].batch
            /\ owner' = owner \/ (Held(relay'[r]) = {} /\ owner' = Leave(r, owner))
        BY <2>1, <4>1
      <4>3. Held(relay'[r]) \subseteq Held(relay[r]) /\ e \notin Held(relay'[r])
        BY <3>3, <4>2 DEF Held
      <4> QED BY <2>0, <2>3, <3>1, <3>3, <4>1, <4>2, <4>3
    <3>5. CASE e \notin marked
      <4>1. pending' = pending /\ Continue(r, rest, relay[r].batch \cup {e}, owner)
        BY <3>1, <3>5
      <4>2. /\ Held(relay'[r]) = rest \cup (relay[r].batch \cup {e})
            /\ relay'[r].unchecked = rest /\ relay'[r].batch = relay[r].batch \cup {e}
            /\ owner' = owner \/ (Held(relay'[r]) = {} /\ owner' = Leave(r, owner))
        BY <2>1, <4>1
      <4>3. Held(relay'[r]) \subseteq Held(relay[r])
        BY <3>2, <4>2 DEF Held
      <4> QED BY <2>0, <2>3, <3>1, <4>1, <4>2, <4>3
    <3> QED BY <3>4, <3>5
  <2>9. CASE RelayTrigger(r)
    <3>1. /\ UNCHANGED <<cursor, deliveries, pending>> /\ relay[r].at = "dispatch"
          /\ \/ \E a : relay' = [relay EXCEPT ![r].at = a] /\ UNCHANGED owner
             \/ Continue(r, {}, Rest(r), owner)
      BY <2>9 DEF RelayTrigger
    <3>2. Rest(r) \subseteq Held(relay[r])
      BY DEF Rest, Held
    <3> HIDE DEF Rest
    <3> QED BY <2>1, <2>3, <2>4, <3>1, <3>2
  <2>10. CASE Acknowledge(r)
    <3>1. /\ UNCHANGED <<cursor, deliveries>> /\ relay[r].at = "ack"
          /\ pending' = pending \ {Current(r)} /\ Continue(r, {}, Rest(r), owner)
      BY <2>10 DEF Acknowledge
    <3>2. /\ Rest(r) \subseteq Held(relay[r]) /\ Current(r) \notin Rest(r)
          /\ Current(r) \in Held(relay[r])
      BY <3>1, CurrentInBatch DEF Rest, Held
    <3> HIDE DEF Current, Rest
    <3> QED BY <2>0, <2>1, <2>3, <3>1, <3>2
  <2>11. CASE RelayCrash(r)
    <3>1. UNCHANGED <<cursor, deliveries, pending>> /\ Continue(r, {}, {}, owner)
      BY <2>11 DEF RelayCrash
    <3> QED BY <2>1, <2>3, <3>1
  <2> QED BY <2>5, <2>6, <2>7, <2>8, <2>9, <2>10, <2>11 DEF Relay
<1> QED BY <1>2, <1>3, <1>4 DEF Next
LEMMA InitHeldInv == Init => HeldInv
BY DEF Init, HeldInv, Held, NoTick

-----------------------------------------------------------------------------
(* The refinement, step by step. *)

MapInv == TypeInv /\ LossInv /\ BoundInv /\ HeldInv

LEMMA StepMapInv == MapInv /\ [Next]_vars => MapInv'
BY StepTypeInv, StepLossInv, StepBoundInv, StepHeldInv DEF MapInv

LEMMA InitMapInv == Init => MapInv
<1> SUFFICES ASSUME Init PROVE MapInv
  OBVIOUS
<1>1. TypeInv /\ HeldInv
  BY InitTypeInv, InitHeldInv
<1>2. LossInv
  BY DEF Init, LossInv, NoSilentLoss, Settled, Published, NoTick
<1>3. BoundInv
  <2>1. MaxDeliveries \in Nat /\ \A e \in Events : ByGateway(e) \in Nat
    BY RelayBoundsAssumption DEF ByGateway
  <2>2. \A e \in Events : runs[e] = 0 /\ deliveries[e] = 0
    BY DEF Init
  <2>3. \A r \in Relays : Untried(relay[r]) = {}
    BY DEF Init, NoTick, Untried
  <2> QED BY <2>1, <2>2, <2>3 DEF BoundInv
<1> QED BY <1>1, <1>2, <1>3 DEF MapInv

\* What is done with was delivered and is no longer pending.
LEMMA DoneIs == TypeInv => Done = (1..cursor) \ pending
BY StreamPositions DEF Done, Settled, Published

LEMMA DoneIsNext == (TypeInv => Done = (1..cursor) \ pending)'
BY DoneIs, PTL

\* A pending event is outstanding, and was handed out.
LEMMA PendingOutstanding ==
    ASSUME MapInv, NEW e \in pending
    PROVE  /\ e \in Delivery!Outstanding /\ e \in Events /\ e \in 1..cursor
           /\ deliveries[e] \in Nat \ {0}
           /\ Delivery!Paid(e) = ByGateway(e) + deliveries[e]
<1>1. e \in 1..cursor /\ e \in Published /\ e \in Events /\ e \in Nat
  BY StreamPositions DEF MapInv, TypeInv, TypeOK
<1>2. e \notin Done
  BY DoneIs DEF MapInv
<1>3. deliveries[e] \in Nat /\ deliveries[e] > 0
  BY <1>1 DEF MapInv, HeldInv, TypeInv, TypeOK
<1>4. Delivery!Paid(e) = ByGateway(e) + deliveries[e]
  <2>1. e <= Len(stream) /\ Len(stream) \in Nat
    BY <1>1, StreamPositions DEF Published, MapInv
  <2>2. ByGateway(e) = IF e \in Publishing THEN 0 ELSE 1
    BY <1>1, <2>1 DEF ByGateway, Publishing
  <2> QED BY <1>3, <2>2 DEF Delivery!Paid
<1> QED BY <1>1, <1>2, <1>3, <1>4 DEF Delivery!Outstanding, Published

\* A step of the abstract specification, or none, from what a step of a relay does
\* to the log and to the upload in progress: nothing.
LEMMA RelayOutside ==
    ASSUME NEW r \in Relays, Relay(r) \/ RelayCrash(r)
    PROVE  UNCHANGED <<stream, Publishing>>
BY RelayLeavesGateway DEF bus, Publishing

LEMMA GatewayImplementsDelivery ==
    ASSUME MapInv, TypeInv', Gateway \/ GatewayCrash
    PROVE  Delivery!Next \/ UNCHANGED Delivery!edvars
<1>1. UNCHANGED <<deliveries, dlq, Done>>
  <2>1. UNCHANGED <<group, dlq>>
    BY DEF Gateway, Upload, TakeLock, AnswerDuplicate, AddToStream, GatewayTrigger,
       GatewayMark, GatewayCrash, effects
  <2> QED BY <2>1, DoneIs, DoneIsNext DEF MapInv, group
<1>2. gateway \in [at : GatewayStep, content : Contents] /\ TypeInv
  BY DEF MapInv, TypeInv, TypeOK
<1>3. CASE /\ UNCHANGED <<stream, runs>>
           /\ gateway.at # "trigger" /\ gateway'.at # "trigger"
  BY <1>1, <1>3 DEF Publishing, Delivery!edvars
<1>4. CASE AddToStream
  <2>1. /\ stream' = Append(stream, gateway.content) /\ runs' = runs
        /\ Publishing = {} /\ Publishing' = {Len(stream) + 1}
    BY <1>2, <1>4 DEF AddToStream, effects, Publishing, TypeInv, TypeOK
  <2>2. Delivery!Accept(gateway.content)
    BY <1>1, <2>1 DEF Delivery!Accept
  <2> QED BY <1>2, <2>2 DEF Delivery!Next
<1>5. CASE GatewayTrigger
  <2>1. /\ stream' = stream /\ Publishing = {Len(stream)} /\ Publishing' = {}
        /\ runs' = runs \/ runs' = [runs EXCEPT ![Len(stream)] = @ + 1]
    BY <1>2, <1>5 DEF GatewayTrigger, bus, Publishing
  <2>2. Delivery!Close
    BY <1>1, <2>1 DEF Delivery!Close
  <2> QED BY <2>2 DEF Delivery!Next
<1>6. CASE GatewayCrash
  <2>1. UNCHANGED <<stream, runs>> /\ Publishing' = {}
    BY <1>2, <1>6 DEF GatewayCrash, bus, effects, Publishing
  <2>2. CASE Publishing = {}
    BY <1>1, <2>1, <2>2 DEF Delivery!edvars
  <2>3. CASE Publishing # {}
    BY <1>1, <2>1, <2>3 DEF Delivery!Close, Delivery!Next
  <2> QED BY <2>2, <2>3
<1>7. CASE (\E c \in Contents : Upload(c)) \/ TakeLock \/ AnswerDuplicate \/ GatewayMark
  BY <1>2, <1>3, <1>7 DEF Upload, TakeLock, AnswerDuplicate, GatewayMark, bus, effects
<1> QED BY <1>4, <1>5, <1>6, <1>7 DEF Gateway

LEMMA RelayImplementsNext ==
    ASSUME MapInv, TypeInv', NEW r \in Relays, Relay(r) \/ RelayCrash(r)
    PROVE  Delivery!Next \/ UNCHANGED Delivery!edvars
<1>0. /\ TypeInv /\ LossInv /\ BoundInv /\ HeldInv
      /\ UNCHANGED <<stream, Publishing>>
      /\ cursor \in Nat /\ deliveries \in [Events -> Nat] /\ pending \subseteq 1..cursor
      /\ \A e \in Events : e \in Nat
  <2>1. \A e \in Events : e \in Nat
    BY DEF Events
  <2>2. TypeInv /\ cursor \in Nat
    BY StreamPositions DEF MapInv
  <2>3. deliveries \in [Events -> Nat] /\ pending \subseteq 1..cursor
    BY <2>2 DEF TypeInv, TypeOK
  <2> QED BY <2>1, <2>2, <2>3, RelayOutside DEF MapInv
<1>1. CASE UNCHANGED <<cursor, pending, deliveries, runs, dlq>>
  <2>1. Done' = Done
    BY <1>0, <1>1, DoneIs, DoneIsNext
  <2> QED BY <1>0, <1>1, <2>1 DEF Delivery!edvars
<1>2. CASE ReadBacklog(r)
  <2> DEFINE backlog == OldestFew({e \in pending : owner[e] = r})
  <2>1. /\ deliveries' = [e \in Events |-> deliveries[e] + IF e \in backlog THEN 1 ELSE 0]
        /\ UNCHANGED <<cursor, pending, runs, dlq>>
    BY <1>2 DEF ReadBacklog, effects
  <2>2. backlog \subseteq pending
    BY DEF OldestFew
  <2> HIDE DEF backlog
  <2>3. Done' = Done
    BY <1>0, <2>1, DoneIs, DoneIsNext
  <2>4. /\ backlog \in SUBSET Delivery!Outstanding
        /\ \A e \in backlog : deliveries[e] # 0
    BY <2>2, PendingOutstanding
  <2>5. Delivery!Deliver(backlog)
    BY <1>0, <2>1, <2>3, <2>4 DEF Delivery!Deliver
  <2> QED BY <2>4, <2>5 DEF Delivery!Next
<1>3. CASE ReadNew(r)
  <2> DEFINE new == OldestFew({e \in Published : e > cursor})
  <2>1. /\ cursor' = cursor + Cardinality(new) /\ pending' = pending \cup new
        /\ deliveries' = [e \in Events |-> IF e \in new THEN 1 ELSE deliveries[e]]
        /\ UNCHANGED <<runs, dlq>>
    BY <1>3 DEF ReadNew, effects
  <2>2. new = (cursor + 1)..(cursor + Cardinality(new)) /\ Cardinality(new) \in Nat
    BY <1>0, StreamPositions, NewEvents DEF Published
  <2>3. \A e \in new : e \in Published /\ e \in Events /\ e > cursor
    BY <1>0, StreamPositions DEF OldestFew
  <2> HIDE DEF new
  <2>4. Done' = Done
    <3>1. (1..cursor') \ pending' = (1..cursor) \ pending
      BY <1>0, <2>1, <2>2
    <3> QED BY <1>0, <3>1, DoneIs, DoneIsNext
  <2>5. \A e \in new : deliveries[e] = 0
    BY <1>0, <2>3 DEF BoundInv
  <2>6. deliveries' = [e \in Events |-> deliveries[e] + IF e \in new THEN 1 ELSE 0]
    BY <1>0, <2>1, <2>5
  <2>7. \A e \in new : \A f \in 1..(e - 1) : f \in new \/ deliveries[f] > 0
    BY <1>0, <2>2 DEF HeldInv
  <2>8. new \in SUBSET Delivery!Outstanding
    <3>1. \A e \in new : e \notin Done
      BY <1>0, <2>3, DoneIs
    <3> QED BY <2>3, <3>1 DEF Delivery!Outstanding, Published
  <2>9. Delivery!Deliver(new)
    BY <1>0, <2>1, <2>4, <2>6, <2>7, <2>8 DEF Delivery!Deliver
  <2> QED BY <2>8, <2>9 DEF Delivery!Next
\* Whatever takes a started or dead-lettered event off the pending list settles it.
<1>4. ASSUME NEW e \in pending, Taken(e), pending' = pending \ {e},
             UNCHANGED <<cursor, deliveries, runs, dlq>>
      PROVE  Delivery!Next
  <2>1. e \in Delivery!Outstanding /\ e \in 1..cursor
    BY <1>4, PendingOutstanding
  <2>2. Done' = Done \cup {e}
    BY <1>0, <1>4, <2>1, DoneIs, DoneIsNext
  <2>3. Delivery!Settle(e)
    BY <1>0, <1>4, <2>2 DEF Delivery!Settle, Taken
  <2> QED BY <2>1, <2>3 DEF Delivery!Next
<1>5. CASE FilterOne(r)
  <2> DEFINE e == Oldest(relay[r].unchecked)
  <2>1. /\ UNCHANGED <<cursor, deliveries, runs, dlq>> /\ relay[r].at = "filter"
        /\ pending' = pending \/ (e \in marked /\ pending' = pending \ {e})
    BY <1>5 DEF FilterOne, effects
  <2>2. e \in pending
    BY <1>0, <2>1, UncheckedInTick DEF HeldInv, Held
  <2> HIDE DEF e
  <2>3. e \in marked => Taken(e)
    BY <1>0 DEF LossInv, Taken
  <2> QED BY <1>1, <1>4, <2>1, <2>2, <2>3
<1>6. ASSUME relay[r].at \in {"dispatch", "mark", "ack"}
      PROVE  Current(r) \in pending /\ Current(r) \in relay[r].batch
  BY <1>0, <1>6, CurrentInBatch DEF HeldInv, Held
<1>7. CASE DeadLetter(r)
  <2>1. /\ relay[r].at = "dispatch" /\ deliveries[Current(r)] > MaxDeliveries
        /\ dlq' = [dlq EXCEPT ![Current(r)] = @ + 1]
        /\ UNCHANGED <<cursor, pending, deliveries, runs>>
    BY <1>7 DEF DeadLetter, Exhausted, group
  <2>2. Current(r) \in Delivery!Outstanding /\ Done' = Done
    BY <1>0, <1>6, <2>1, PendingOutstanding, DoneIs, DoneIsNext
  <2>3. Delivery!DeadLetter(Current(r))
    BY <1>0, <2>1, <2>2 DEF Delivery!DeadLetter
  <2> QED BY <2>2, <2>3 DEF Delivery!Next
<1>8. CASE RelayTrigger(r)
  <2>1. /\ relay[r].at = "dispatch" /\ ~(deliveries[Current(r)] > MaxDeliveries)
        /\ runs' = runs \/ runs' = [runs EXCEPT ![Current(r)] = @ + 1]
        /\ UNCHANGED <<cursor, pending, deliveries, dlq>>
    BY <1>8 DEF RelayTrigger, Exhausted
  <2>2. /\ Current(r) \in Delivery!Outstanding
        /\ deliveries[Current(r)] \in Nat \ {0} /\ MaxDeliveries \in Nat
        /\ Delivery!Paid(Current(r)) = ByGateway(Current(r)) + deliveries[Current(r)]
    BY <1>6, <2>1, PendingOutstanding, RelayBoundsAssumption
  <2>3. runs[Current(r)] < ByGateway(Current(r)) + deliveries[Current(r)]
    <3>1. Current(r) \in Untried(relay[r])
      BY <1>6, <2>1 DEF Untried
    <3> QED BY <1>0, <3>1 DEF BoundInv
  <2>4. CASE runs' = [runs EXCEPT ![Current(r)] = @ + 1]
    <3>1. deliveries[Current(r)] \in 1..MaxDeliveries
      BY <2>1, <2>2
    <3>2. Done' = Done
      BY <1>0, <2>1, DoneIs, DoneIsNext
    <3>3. Delivery!Start(Current(r))
      BY <1>0, <2>1, <2>2, <2>3, <2>4, <3>1, <3>2 DEF Delivery!Start
    <3> QED BY <2>2, <3>3 DEF Delivery!Next
  <2> QED BY <1>1, <2>1, <2>4
<1>9. CASE Acknowledge(r)
  <2>1. /\ relay[r].at = "ack" /\ pending' = pending \ {Current(r)}
        /\ UNCHANGED <<cursor, deliveries, runs, dlq>>
    BY <1>9 DEF Acknowledge, effects
  <2>2. Taken(Current(r))
    BY <1>0, <2>1 DEF LossInv
  <2> QED BY <1>4, <1>6, <2>1, <2>2
<1>10. CASE StartTick(r) \/ RelayMark(r) \/ RelayCrash(r)
  BY <1>1, <1>10 DEF StartTick, RelayMark, RelayCrash, group, effects
<1> QED BY <1>2, <1>3, <1>5, <1>7, <1>8, <1>9, <1>10 DEF Relay

LEMMA StepImplementsDelivery ==
    MapInv /\ [Next]_vars => [Delivery!Next]_(Delivery!edvars)
<1> SUFFICES ASSUME MapInv, [Next]_vars
             PROVE  Delivery!Next \/ UNCHANGED Delivery!edvars
  OBVIOUS
<1>0. TypeInv'
  BY StepTypeInv DEF MapInv
<1>1. CASE Gateway \/ GatewayCrash
  BY <1>0, <1>1, GatewayImplementsDelivery
<1>2. CASE Expiry \/ UNCHANGED vars
  <2>1. UNCHANGED <<stream, group, dlq, runs, gateway>>
    BY <1>2, ExpiryLeaves DEF vars, bus, effects
  <2>2. Done' = Done /\ Publishing' = Publishing
    BY <1>0, <2>1, DoneIs, DoneIsNext DEF group, MapInv, Publishing
  <2> QED BY <2>1, <2>2 DEF Delivery!edvars, group
<1>3. ASSUME NEW r \in Relays, Relay(r) \/ RelayCrash(r)
      PROVE  Delivery!Next \/ UNCHANGED Delivery!edvars
  BY <1>0, <1>3, RelayImplementsNext
<1> QED BY <1>1, <1>2, <1>3 DEF Next

\* Gateway, stream, consumer group, markers and relays together implement the
\* promise of EventDelivery: an event is handed out in order until it is settled,
\* each delivery pays for one start at most, only an exhausted event is
\* dead-lettered, and a settled one is neither handed out nor started again by a
\* relay.  (events.py lines 12-28 and 120-228, relay.py lines 3-22 and 52-116)
THEOREM RelayImplementsDelivery == Spec => ImplementsDelivery
<1>1. Init => Delivery!Init
  BY DEF Init, Delivery!Init, Publishing, Done, Published
<1>2. Spec => [][Delivery!Next]_(Delivery!edvars)
  BY InitMapInv, StepMapInv, StepImplementsDelivery, PTL DEF Spec
<1> QED BY <1>1, <1>2, PTL DEF Spec, ImplementsDelivery, Delivery!Spec

-----------------------------------------------------------------------------
(* When the answer "duplicate" is true.  It is not always: the lock is taken     *)
(* before the event is on the stream, and its key leaves the dataset out.  These *)
(* two are all there is to it.                                                   *)

OneDatasetPerBody == \A c, d \in Contents : KeyOf[c] = KeyOf[d] => c = d

\* No handler dies, or loses Redis, between its lock and its event.
LockThenAdd == ~(gateway.at = "xadd" /\ GatewayCrash)

Queued(k) == \E e \in Published : KeyOf[stream[e]] = k

\* Every lock has its event on the stream, or in the hands of the handler.
LockInv ==
    /\ \A k \in locks : Queued(k) \/ (gateway.at = "xadd" /\ KeyOf[gateway.content] = k)
    /\ DuplicatesAreQueued

\* What is on the stream stays there.
LEMMA StreamGrows ==
    ASSUME TypeInv, [Next]_vars
    PROVE  \A e \in Published : e \in Published' /\ stream'[e] = stream[e]
<1>1. stream \in Seq(Contents) /\ Len(stream) \in Nat
  BY StreamPositions DEF TypeInv, TypeOK
<1>2. CASE stream' = stream
  BY <1>2 DEF Published
<1>3. CASE AddToStream
  BY <1>1, <1>3 DEF AddToStream, Published
<1>4. CASE Gateway \/ GatewayCrash
  BY <1>2, <1>3, <1>4 DEF Gateway, Upload, TakeLock, AnswerDuplicate, GatewayTrigger,
     GatewayMark, GatewayCrash, bus
<1>5. CASE Expiry \/ UNCHANGED vars
  BY <1>2, <1>5, ExpiryLeaves DEF vars, bus
<1>6. CASE \E r \in Relays : Relay(r) \/ RelayCrash(r)
  BY <1>2, <1>6, RelayLeavesGateway DEF bus
<1> QED BY <1>4, <1>5, <1>6 DEF Next

LEMMA StepLockInv ==
    ASSUME OneDatasetPerBody, TypeInv, LockInv, [Next /\ LockThenAdd]_vars
    PROVE  LockInv'
<1>0. /\ gateway \in [at : GatewayStep, content : Contents]
      /\ stream \in Seq(Contents) /\ Len(stream) \in Nat
      /\ \A e \in Published : stream[e] \in Contents
  BY StreamPositions DEF TypeInv, TypeOK, Published
<1>1. /\ \A e \in Published : e \in Published' /\ stream'[e] = stream[e]
      /\ \A k : Queued(k) => Queued(k)'
  BY StreamGrows DEF Queued
<1>2. \A c \in told : \E e \in Published' : stream'[e] = c
  BY <1>1 DEF LockInv, DuplicatesAreQueued
<1>3. CASE /\ told' = told /\ locks' \subseteq locks
           /\ gateway' = gateway \/ gateway.at # "xadd"
  BY <1>1, <1>2, <1>3 DEF LockInv, DuplicatesAreQueued
<1>4. CASE TakeLock
  <2>1. /\ locks' = locks \cup {KeyOf[gateway.content]} /\ told' = told
        /\ gateway.at = "lock" /\ gateway'.at = "xadd" /\ gateway'.content = gateway.content
    BY <1>0, <1>4 DEF TakeLock
  <2> QED BY <1>1, <1>2, <2>1 DEF LockInv, DuplicatesAreQueued
<1>5. CASE AddToStream
  <2>1. /\ locks' = locks /\ told' = told
        /\ Len(stream) + 1 \in Published' /\ stream'[Len(stream) + 1] = gateway.content
    BY <1>0, <1>5 DEF AddToStream, Published
  <2>2. \A k : KeyOf[gateway.content] = k => Queued(k)'
    BY <2>1 DEF Queued
  <2> QED BY <1>1, <1>2, <2>1, <2>2 DEF LockInv, DuplicatesAreQueued
<1>6. CASE AnswerDuplicate
  <2>1. /\ locks' = locks /\ told' = told \cup {gateway.content}
        /\ gateway.at = "lock" /\ KeyOf[gateway.content] \in locks
    BY <1>6 DEF AnswerDuplicate
  <2>2. PICK e \in Published : KeyOf[stream[e]] = KeyOf[gateway.content]
    BY <2>1 DEF LockInv, Queued
  <2>3. stream[e] = gateway.content
    BY <1>0, <2>2 DEF OneDatasetPerBody
  <2> QED BY <1>1, <1>2, <2>1, <2>3 DEF LockInv, DuplicatesAreQueued
<1>7. CASE (\E c \in Contents : Upload(c)) \/ GatewayTrigger \/ GatewayMark
  BY <1>3, <1>7 DEF Upload, GatewayTrigger, GatewayMark, bus
<1>8. CASE GatewayCrash /\ LockThenAdd
  BY <1>3, <1>8 DEF GatewayCrash, LockThenAdd, bus
<1>9. CASE Expiry \/ UNCHANGED vars
  BY <1>3, <1>9, ExpiryLeaves DEF vars, bus
<1>10. CASE \E r \in Relays : Relay(r) \/ RelayCrash(r)
  BY <1>3, <1>10, RelayLeavesGateway DEF bus
<1> QED BY <1>4, <1>5, <1>6, <1>7, <1>8, <1>9, <1>10 DEF Next, Gateway

\* Were the key to name the dataset too, and did no handler die between its lock
\* and its event, every upload answered "duplicate" would have its event queued:
\* the two counterexamples to DuplicatesAreQueued are the only kinds there are.
\* (routers/ingest.py lines 130-149, events.py lines 66-91)
THEOREM DuplicatesQueuedIf ==
    OneDatasetPerBody => (Spec /\ [][LockThenAdd]_vars => []DuplicatesAreQueued)
<1> SUFFICES ASSUME OneDatasetPerBody
             PROVE  Spec /\ [][LockThenAdd]_vars => []DuplicatesAreQueued
  OBVIOUS
<1>1. Init => TypeInv /\ LockInv
  BY InitTypeInv DEF Init, LockInv, DuplicatesAreQueued
<1>2. TypeInv /\ LockInv /\ [Next]_vars /\ [LockThenAdd]_vars => (TypeInv /\ LockInv)'
  BY StepTypeInv, StepLockInv
<1>3. LockInv => DuplicatesAreQueued
  BY DEF LockInv
<1> QED BY <1>1, <1>2, <1>3, PTL DEF Spec

-----------------------------------------------------------------------------
(* Who is left to settle a pending event. *)

NoneAbandoned == \A e \in Events : ~Abandoned(e)

LEMMA StepNoneAbandoned ==
    ASSUME Daemons = Relays, TypeInv, NoneAbandoned, [Next]_vars
    PROVE  NoneAbandoned'
<1>0. /\ owner \in [Events -> Relays \cup {NoConsumer}]
      /\ \A r \in Relays : r # NoConsumer
  BY NoConsumerAssumption DEF TypeInv, TypeOK
<1>1. ASSUME pending' \subseteq pending, owner' = owner PROVE NoneAbandoned'
  BY <1>1 DEF NoneAbandoned, Abandoned
<1>2. ASSUME NEW r \in Relays, NEW u, NEW b, NEW o, Continue(r, u, b, o)
      PROVE  owner' = o
  BY <1>2 DEF Continue, Leave
<1>3. ASSUME NEW r \in Relays, ReadNew(r) PROVE NoneAbandoned'
  <2> DEFINE new == OldestFew({e \in Published : e > cursor})
             owners == [e \in Events |-> IF e \in new THEN r ELSE owner[e]]
  <2>1. pending' = pending \cup new /\ Continue(r, new, {}, owners)
    BY <1>3 DEF ReadNew
  <2> HIDE DEF new
  <2>2. owner' = owners
    <3> HIDE DEF owners
    <3> QED BY <1>2, <2>1
  <2> QED BY <1>0, <2>1, <2>2 DEF NoneAbandoned, Abandoned
<1>4. ASSUME NEW r \in Relays, Relay(r) \/ RelayCrash(r), ~ReadNew(r) PROVE NoneAbandoned'
  <2>1. pending' \subseteq pending
    BY <1>4 DEF Relay, RelayCrash, StartTick, ReadBacklog, FilterOne, DeadLetter,
       RelayTrigger, RelayMark, Acknowledge, group
  <2>2. owner' = owner \/ \E u, b : Continue(r, u, b, owner)
    BY <1>4 DEF Relay, RelayCrash, StartTick, ReadBacklog, FilterOne, DeadLetter,
       RelayTrigger, RelayMark, Acknowledge, group
  <2> QED BY <1>1, <1>2, <2>1, <2>2
<1>5. CASE Gateway \/ GatewayCrash
  BY <1>1, <1>5 DEF Gateway, Upload, TakeLock, AnswerDuplicate, AddToStream,
     GatewayTrigger, GatewayMark, GatewayCrash, group
<1>6. CASE Expiry \/ UNCHANGED vars
  BY <1>1, <1>6, ExpiryLeaves DEF vars, group
<1> QED BY <1>3, <1>4, <1>5, <1>6 DEF Next

\* With daemons only, no accepted event is stranded: whatever crashes, a pending
\* event is in the backlog of a consumer that comes back.  EventsSettle fails
\* through nothing but the consumer names of the scheduled flow's containers.
\* (events.py lines 131-155, relay.py lines 65-68)
THEOREM DaemonsStrandNothing == Daemons = Relays => (Spec => []NoneAbandoned)
<1> SUFFICES ASSUME Daemons = Relays PROVE Spec => []NoneAbandoned
  OBVIOUS
<1>1. Init => TypeInv /\ NoneAbandoned
  BY InitTypeInv DEF Init, NoneAbandoned, Abandoned
<1>2. TypeInv /\ NoneAbandoned /\ [Next]_vars => (TypeInv /\ NoneAbandoned)'
  BY StepTypeInv, StepNoneAbandoned
<1> QED BY <1>1, <1>2, PTL DEF Spec

=============================================================================

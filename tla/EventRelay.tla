------------------------------ MODULE EventRelay ------------------------------
(***************************************************************************)
(* From an upload to a pipeline run: the gateway's ingest handlers         *)
(* (services/gateway/app/routers/ingest.py), the Redis Streams event bus   *)
(* (controlplane/events.py) and the relay that re-triggers stranded events *)
(* (controlplane/relay.py).  Every Redis command and every HTTP call to    *)
(* Kestra is one action; gateway and relays run side by side.              *)
(*                                                                         *)
(* The ingest handlers block the gateway's event loop from the moment the  *)
(* body is read, so one of them runs at a time.  Locks and markers expire  *)
(* at any time, which is sooner than their TTLs let them.                  *)
(***************************************************************************)
EXTENDS Integers, FiniteSets, Sequences

CONSTANTS
    Relays,          \* concurrently running relays, each a consumer of the group
    Daemons,         \* those that keep their consumer name from tick to tick (--loop);
                     \* the scheduled flow's container has a new host name every tick
    Contents,        \* what is uploaded: a body and the dataset it is for
    KeyOf,           \* [Contents -> key]: the idempotency key, a hash of the body alone
    NoConsumer,      \* owner of what a consumer that is gone for good had read
    Outcomes,        \* what a trigger of Kestra may come to
    BatchSize,       \* relay_batch_size
    MaxDeliveries,   \* event_max_deliveries
    MaxUploads,      \* model bound on upload requests
    MaxCrashes       \* model bound on crashes of the gateway and the relays

ASSUME ContentsAssumption == Contents # {}
ASSUME NoConsumerAssumption == NoConsumer \notin Relays
ASSUME DaemonsAssumption == Daemons \subseteq Relays
\* started: 2xx; refused: nothing started; lost: started, but the answer is not
\* seen (timeout, connection reset).
ASSUME OutcomesAssumption == Outcomes \subseteq {"started", "refused", "lost"}
ASSUME RelayBoundsAssumption ==
    /\ BatchSize \in Nat \ {0}
    /\ MaxDeliveries \in Nat /\ MaxUploads \in Nat /\ MaxCrashes \in Nat

VARIABLES
    locks,       \* keys with an idempotency lock
    expiries,    \* expiries[k]: how often the lock of k has expired
    stream,      \* the contents of the events, in stream order; an event is its position
    cursor,      \* the consumer group's last delivered event
    pending,     \* delivered and not acknowledged
    owner,       \* the consumer a pending event was delivered to
    deliveries,  \* its delivery count
    marked,      \* events with a dispatch marker
    dlq,         \* how often an event was written to the dead-letter stream
    runs,        \* how many pipeline executions Kestra started for it
    gateway,     \* the ingest handler in progress
    relay,       \* relay[r]: the tick in progress
    told,        \* contents whose uploader was answered "duplicate"
    uploads, crashes

bus == <<locks, expiries, stream, told>>
group == <<cursor, pending, owner, deliveries>>
effects == <<marked, dlq, runs>>
vars == <<bus, group, effects, gateway, relay, uploads, crashes>>

Keys == {KeyOf[c] : c \in Contents}
Events == 1..MaxUploads
Published == 1..Len(stream)
GatewayStep == {"idle", "lock", "xadd", "trigger", "mark"}
RelayStep == {"idle", "backlog", "new", "filter", "dispatch", "mark", "ack"}

\* unchecked: read, marker not looked at yet; batch: to be dispatched, oldest first.
Tick == [at : RelayStep, unchecked : SUBSET Events, batch : SUBSET Events]
NoTick == [at |-> "idle", unchecked |-> {}, batch |-> {}]

Oldest(S) == CHOOSE e \in S : \A f \in S : e <= f
OldestFew(S) == {e \in S : Cardinality({f \in S : f < e}) < BatchSize}

Settled(e) == e <= cursor /\ e \notin pending

Init ==
    /\ locks = {} /\ stream = <<>> /\ told = {}
    /\ expiries = [k \in Keys |-> 0]
    /\ cursor = 0 /\ pending = {}
    /\ owner = [e \in Events |-> NoConsumer]
    /\ deliveries = [e \in Events |-> 0]
    /\ marked = {}
    /\ dlq = [e \in Events |-> 0]
    /\ runs = [e \in Events |-> 0]
    /\ gateway = [at |-> "idle", content |-> CHOOSE c \in Contents : TRUE]
    /\ relay = [r \in Relays |-> NoTick]
    /\ uploads = 0 /\ crashes = 0

-----------------------------------------------------------------------------
(* The gateway: upload_file and webhook_ingest.  The event is the newest of the *)
(* stream, as no other handler publishes meanwhile.                            *)

Upload(c) ==
    /\ gateway.at = "idle"
    /\ uploads < MaxUploads
    /\ uploads' = uploads + 1
    /\ gateway' = [at |-> "lock", content |-> c]
    /\ UNCHANGED <<bus, group, effects, relay, crashes>>

\* Mutant of TakeLock: SET without NX.
TakeLockAlways ==
    /\ gateway.at = "lock"
    /\ locks' = locks \cup {KeyOf[gateway.content]}
    /\ gateway' = [gateway EXCEPT !.at = "xadd"]
    /\ UNCHANGED <<expiries, stream, told, group, effects, relay, uploads, crashes>>

\* SET NX: a second upload of the same body is answered "duplicate", also when it
\* is for another dataset.
TakeLock ==
    /\ gateway.at = "lock"
    /\ KeyOf[gateway.content] \notin locks
    /\ locks' = locks \cup {KeyOf[gateway.content]}
    /\ gateway' = [gateway EXCEPT !.at = "xadd"]
    /\ UNCHANGED <<expiries, stream, told, group, effects, relay, uploads, crashes>>

AnswerDuplicate ==
    /\ gateway.at = "lock"
    /\ KeyOf[gateway.content] \in locks
    /\ told' = told \cup {gateway.content}
    /\ gateway' = [gateway EXCEPT !.at = "idle"]
    /\ UNCHANGED <<locks, expiries, stream, group, effects, relay, uploads, crashes>>

AddToStream ==
    /\ gateway.at = "xadd"
    /\ stream' = Append(stream, gateway.content)
    /\ gateway' = [gateway EXCEPT !.at = "trigger"]
    /\ UNCHANGED <<locks, expiries, told, group, effects, relay, uploads, crashes>>

\* Not triggered is not fatal: the upload is answered "accepted" all the same.
GatewayTrigger ==
    /\ gateway.at = "trigger"
    /\ \E outcome \in Outcomes :
         /\ runs' = IF outcome = "refused" THEN runs
                    ELSE [runs EXCEPT ![Len(stream)] = @ + 1]
         /\ gateway' = [gateway EXCEPT !.at = IF outcome = "started" THEN "mark" ELSE "idle"]
    /\ UNCHANGED <<bus, group, marked, dlq, relay, uploads, crashes>>

GatewayMark ==
    /\ gateway.at = "mark"
    /\ marked' = marked \cup {Len(stream)}
    /\ gateway' = [gateway EXCEPT !.at = "idle"]
    /\ UNCHANGED <<bus, group, dlq, runs, relay, uploads, crashes>>

GatewayCrash ==
    /\ gateway.at # "idle"
    /\ crashes < MaxCrashes
    /\ crashes' = crashes + 1
    /\ gateway' = [gateway EXCEPT !.at = "idle"]
    /\ UNCHANGED <<bus, group, effects, relay, uploads>>

-----------------------------------------------------------------------------
(* Redis drops a lock (idempotency_ttl_seconds) or a marker (dispatch_ttl_seconds). *)

ExpireLock(k) ==
    /\ k \in locks
    /\ locks' = locks \ {k}
    /\ expiries' = [expiries EXCEPT ![k] = @ + 1]
    /\ UNCHANGED <<stream, told, group, effects, gateway, relay, uploads, crashes>>

\* Each marker is a key of its own.
ExpireMarker(e) ==
    /\ e \in marked
    /\ marked' = marked \ {e}
    /\ UNCHANGED <<bus, group, dlq, runs, gateway, relay, uploads, crashes>>

-----------------------------------------------------------------------------
(* The relay: drain_once over claim_undispatched. *)

\* Goes on with a tick that has these events left, or ends it.  When a tick is
\* over and the next one has another consumer name, nobody reads this
\* consumer's pending entries again.
Leave(r, owners) ==
    IF r \in Daemons THEN owners
    ELSE [e \in Events |-> IF owners[e] = r THEN NoConsumer ELSE owners[e]]

Continue(r, unchecked, batch, owners) ==
    LET at == IF unchecked # {} THEN "filter" ELSE IF batch # {} THEN "dispatch" ELSE "idle"
    IN  /\ relay' = [relay EXCEPT ![r] = [at |-> at, unchecked |-> unchecked, batch |-> batch]]
        /\ owner' = IF at = "idle" THEN Leave(r, owners) ELSE owners

\* The event of the batch the tick is at.
Current(r) == Oldest(relay[r].batch)
Rest(r) == relay[r].batch \ {Current(r)}

StartTick(r) ==
    /\ relay[r].at = "idle"
    /\ relay' = [relay EXCEPT ![r].at = "backlog"]
    /\ UNCHANGED <<bus, group, effects, gateway, uploads, crashes>>

\* Mutant of ReadBacklog: the relay reads new events only.
ReadBacklogNever(r) ==
    /\ relay[r].at = "backlog"
    /\ relay' = [relay EXCEPT ![r].at = "new"]
    /\ UNCHANGED <<bus, group, effects, gateway, uploads, crashes>>

\* Mutant of ReadBacklog: the pending entries of every consumer are taken over.
ReadBacklogOfAll(r) ==
    LET backlog == OldestFew(pending)
    IN  /\ relay[r].at = "backlog"
        /\ deliveries' = [e \in Events |-> deliveries[e] + IF e \in backlog THEN 1 ELSE 0]
        /\ relay' = [relay EXCEPT ![r].at = IF backlog = {} THEN "new" ELSE "filter",
                                  ![r].unchecked = backlog]
        /\ UNCHANGED <<bus, cursor, pending, owner, effects, gateway, uploads, crashes>>

\* XREADGROUP from "0": what this consumer was delivered and never acknowledged.
\* Only an empty backlog leads on to new events.
ReadBacklog(r) ==
    LET backlog == OldestFew({e \in pending : owner[e] = r})
    IN  /\ relay[r].at = "backlog"
        /\ deliveries' = [e \in Events |-> deliveries[e] + IF e \in backlog THEN 1 ELSE 0]
        /\ relay' = [relay EXCEPT ![r].at = IF backlog = {} THEN "new" ELSE "filter",
                                  ![r].unchecked = backlog]
        /\ UNCHANGED <<bus, cursor, pending, owner, effects, gateway, uploads, crashes>>

\* Mutant of ReadNew: the group's cursor moves by the batch size.
ReadNewWholeBatch(r) ==
    LET new == OldestFew({e \in Published : e > cursor})
    IN  /\ relay[r].at = "new"
        /\ cursor' = cursor + BatchSize
        /\ pending' = pending \cup new
        /\ deliveries' = [e \in Events |-> IF e \in new THEN 1 ELSE deliveries[e]]
        /\ Continue(r, new, {}, [e \in Events |-> IF e \in new THEN r ELSE owner[e]])
        /\ UNCHANGED <<bus, effects, gateway, uploads, crashes>>

\* XREADGROUP from ">": events delivered to nobody yet.
ReadNew(r) ==
    LET new == OldestFew({e \in Published : e > cursor})
    IN  /\ relay[r].at = "new"
        /\ cursor' = cursor + Cardinality(new)
        /\ pending' = pending \cup new
        /\ deliveries' = [e \in Events |-> IF e \in new THEN 1 ELSE deliveries[e]]
        /\ Continue(r, new, {}, [e \in Events |-> IF e \in new THEN r ELSE owner[e]])
        /\ UNCHANGED <<bus, effects, gateway, uploads, crashes>>

\* Mutant of FilterOne: the markers are not looked at.
FilterOneBlind(r) ==
    LET e == Oldest(relay[r].unchecked)
    IN  /\ relay[r].at = "filter"
        /\ Continue(r, relay[r].unchecked \ {e}, relay[r].batch \cup {e}, owner)
        /\ UNCHANGED <<bus, cursor, pending, deliveries, effects, gateway, uploads, crashes>>

\* Looks for one event's marker; a marked event is acknowledged and skipped.  (A
\* crash between the two commands leaves what a crash before both leaves.)
FilterOne(r) ==
    LET e == Oldest(relay[r].unchecked)
        rest == relay[r].unchecked \ {e}
    IN  /\ relay[r].at = "filter"
        /\ IF e \in marked
             THEN pending' = pending \ {e} /\ Continue(r, rest, relay[r].batch, owner)
             ELSE pending' = pending /\ Continue(r, rest, relay[r].batch \cup {e}, owner)
        /\ UNCHANGED <<bus, cursor, deliveries, effects, gateway, uploads, crashes>>

\* Mutants of Exhausted: one delivery too many, one too few.
ExhaustedLate(r) == deliveries[Current(r)] > MaxDeliveries + 1
ExhaustedEarly(r) == deliveries[Current(r)] >= MaxDeliveries

Exhausted(r) == deliveries[Current(r)] > MaxDeliveries

\* dead_letter: written to the dead-letter stream first, acknowledged after.
DeadLetter(r) ==
    /\ relay[r].at = "dispatch"
    /\ Exhausted(r)
    /\ dlq' = [dlq EXCEPT ![Current(r)] = @ + 1]
    /\ relay' = [relay EXCEPT ![r].at = "ack"]
    /\ UNCHANGED <<bus, group, marked, runs, gateway, uploads, crashes>>

\* Mutant of RelayTrigger: whatever the answer, the event is marked and acknowledged.
RelayTriggerUnanswered(r) ==
    /\ relay[r].at = "dispatch"
    /\ ~Exhausted(r)
    /\ \E outcome \in Outcomes :
         runs' = IF outcome = "refused" THEN runs ELSE [runs EXCEPT ![Current(r)] = @ + 1]
    /\ relay' = [relay EXCEPT ![r].at = "mark"]
    /\ UNCHANGED <<bus, group, marked, dlq, gateway, uploads, crashes>>

\* A refusal or an HTTP error leaves the event pending for a later tick.
RelayTrigger(r) ==
    /\ relay[r].at = "dispatch"
    /\ ~Exhausted(r)
    /\ \E outcome \in Outcomes :
         /\ runs' = IF outcome = "refused" THEN runs ELSE [runs EXCEPT ![Current(r)] = @ + 1]
         /\ IF outcome = "started"
              THEN relay' = [relay EXCEPT ![r].at = "mark"] /\ UNCHANGED owner
              ELSE Continue(r, {}, Rest(r), owner)
    /\ UNCHANGED <<bus, cursor, pending, deliveries, marked, dlq, gateway, uploads, crashes>>

RelayMark(r) ==
    /\ relay[r].at = "mark"
    /\ marked' = marked \cup {Current(r)}
    /\ relay' = [relay EXCEPT ![r].at = "ack"]
    /\ UNCHANGED <<bus, group, dlq, runs, gateway, uploads, crashes>>

Acknowledge(r) ==
    /\ relay[r].at = "ack"
    /\ pending' = pending \ {Current(r)}
    /\ Continue(r, {}, Rest(r), owner)
    /\ UNCHANGED <<bus, cursor, deliveries, effects, gateway, uploads, crashes>>

RelayCrash(r) ==
    /\ relay[r].at # "idle"
    /\ crashes < MaxCrashes
    /\ crashes' = crashes + 1
    /\ Continue(r, {}, {}, owner)
    /\ UNCHANGED <<bus, cursor, pending, deliveries, effects, gateway, uploads>>

-----------------------------------------------------------------------------

Gateway ==
    \/ \E c \in Contents : Upload(c)
    \/ TakeLock \/ AnswerDuplicate \/ AddToStream \/ GatewayTrigger \/ GatewayMark

Relay(r) ==
    \/ StartTick(r) \/ ReadBacklog(r) \/ ReadNew(r) \/ FilterOne(r)
    \/ DeadLetter(r) \/ RelayTrigger(r) \/ RelayMark(r) \/ Acknowledge(r)

Expiry == (\E k \in Keys : ExpireLock(k)) \/ (\E e \in Events : ExpireMarker(e))

Next ==
    \/ Gateway \/ GatewayCrash \/ Expiry
    \/ \E r \in Relays : Relay(r) \/ RelayCrash(r)

Spec == Init /\ [][Next]_vars

\* The scheduler starts a tick every minute (or the daemon loops) and a tick
\* that does not crash runs to its end.  Nothing is assumed of Kestra.
FairSpec == Spec /\ \A r \in Relays : WF_vars(Relay(r))

-----------------------------------------------------------------------------

TypeOK ==
    /\ locks \subseteq Keys /\ told \subseteq Contents
    /\ expiries \in [Keys -> Nat]
    /\ stream \in Seq(Contents) /\ Len(stream) <= uploads
    /\ cursor \in 0..Len(stream)
    /\ pending \subseteq 1..cursor
    /\ owner \in [Events -> Relays \cup {NoConsumer}]
    /\ deliveries \in [Events -> Nat]
    /\ marked \subseteq Published
    /\ dlq \in [Events -> Nat] /\ runs \in [Events -> Nat]
    /\ gateway \in [at : GatewayStep, content : Contents]
    /\ relay \in [Relays -> Tick]
    /\ uploads \in 0..MaxUploads /\ crashes \in 0..MaxCrashes

\* An event leaves the pending list only once Kestra started it or it is in the
\* dead-letter queue, whoever crashes when and whatever the triggers come to:
\* an accepted upload is never silently lost.  (events.py lines 5-11)
NoSilentLoss ==
    \A e \in Published : Settled(e) => runs[e] > 0 \/ dlq[e] > 0

\* A body becomes at most one event in each of its idempotency windows (those
\* that have expired, and the one that is open), however often it is uploaded and
\* wherever a handler dies.  (events.py lines 72-80)
EventsOf(k) == {e \in Published : KeyOf[stream[e]] = k}
Windows(k) == expiries[k] + IF k \in locks THEN 1 ELSE 0
OneEventPerWindow == \A k \in Keys : Cardinality(EventsOf(k)) <= Windows(k)

\* Redelivery is bounded: the gateway's trigger plus MaxDeliveries by the relay.
\* (relay.py lines 84-90)
RunsBounded == \A e \in Published : runs[e] <= MaxDeliveries + 1

\* An event dead-lettered was delivered more than MaxDeliveries times.
\* (relay.py lines 84-90)
DeadLettersExhausted == \A e \in Published : dlq[e] > 0 => deliveries[e] > MaxDeliveries

\* A marked event that is in nobody's hands is never started again: no relay takes
\* it up, whatever is redelivered.  (events.py lines 158-162, README.md line 280)
MarkerStopsReruns ==
    [][\A e \in marked :
         /\ \A r \in Relays : e \notin relay[r].batch
         /\ ~(gateway.at = "trigger" /\ e = Len(stream))
         => /\ runs'[e] = runs[e]
            /\ \A r \in Relays : e \notin relay'[r].batch]_vars

\* Pending for a consumer whose name never returns.
Abandoned(e) == e \in pending /\ owner[e] = NoConsumer

\* Every event is settled in the end, whether Kestra ever answers or not, unless
\* a consumer read it that is gone for good.  (events.py lines 24-28)
SettledOrAbandoned == \A e \in Events : e <= Len(stream) ~> Settled(e) \/ Abandoned(e)

\* Every event is settled in the end, whoever read it.  (events.py lines 24-28)
EventsSettle == \A e \in Events : e <= Len(stream) ~> Settled(e)

\* Kestra starts one execution per event.  (README.md lines 256-257 and 280)
NoDoubleRun == \A e \in Published : runs[e] <= 1

\* An upload answered "duplicate" has its event on the stream.
\* (routers/ingest.py lines 144-149)
DuplicatesAreQueued == \A c \in told : \E e \in Published : stream[e] = c

\* The event whose upload has yet to trigger Kestra, and the settled events.
Publishing == IF gateway.at = "trigger" THEN {Len(stream)} ELSE {}
Done == {e \in Published : Settled(e)}

\* The bus, its consumers and its markers together keep the abstract promise:
\* whoever crashes when and whatever expires, every command is a step or a stutter
\* of EventDelivery.  (events.py lines 12-28, relay.py lines 3-22)
Delivery == INSTANCE EventDelivery WITH
    log <- stream, open <- Publishing, starts <- runs, dead <- dlq, settled <- Done

ImplementsDelivery == Delivery!Spec

=============================================================================

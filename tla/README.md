# Vertex SCO platform: TLA+ models and proofs

This directory holds TLA+ specifications of the parts of the Vertex
self-checkout platform whose correctness depends on interleavings, failures
and timing, the TLC configurations that check them on small instances, and
proofs, checked by TLAPS, that the most important properties hold for every
value of the constants. Paths are relative to the repository (`src/` here).

## Inventory

The platform is a set of Go processes joined by an event bus (MQTT, or
in-memory in one process) and HTTP.

| component | state it keeps | operations | hard parts |
|---|---|---|---|
| `internal/resilience`: Guard = CircuitBreaker in a Bulkhead | breaker state, consecutive failures, openedAt, half-open counter; a semaphore | `Call`, `Execute`, `allow`, `recordSuccess`, `recordFailure` | results recorded long after admission, timeouts racing answers, counters at their limits |
| `internal/outbox`: durable queue of unpublished events | a log file under `o.mu` | `Enqueue`, `ReplayLoop`/`flush`, `rewrite`, `PendingCount` | crash between publish and rewrite, partial writes, order, long critical sections |
| `internal/statemachine` + `cmd/vertex-core`: lanes | one Machine per lane, in memory | `Fire`, `Degrade`, `onTransition`, `raiseIntervention`, HTTP `/lanes/` | listeners outside the lock, partial failure, crash, stale degrade |
| `cmd/vertex-config`: configuration versions | a list of versions per service, in memory | `publish`, `active`, `promote`, `rollback` | what a store is served after any sequence of these |
| `cmd/vertex-agent`: one per store | deployed version of each managed service, in memory | `reconcileLoop`, `reconcileOne` | state cached across operator actions, failed requests, restarts |
| `internal/eventbus`: MQTT client | connection, pending acks, subscriptions | `Publish`, `Subscribe`, `connectionLoop`, `readLoop`, `pingLoop`, `Close` | reconnects, id reuse, ack before handling, lock held while writing |
| `internal/eventbus`: in-memory bus | handlers | `Publish`, `Subscribe` | asynchronous handlers |
| `cmd/vertex-intervention` | records by id, in memory | `handleRequested`, `/interventions/resolve` | duplicate and lost requests |
| `cmd/vertex-weight` | a counter | `handleObserved` | two publishes, neither atomic nor retried |
| `cmd/vertex-control-plane` | last report per store and service | `record`, `snapshot`, `proxy` | none beyond one mutex |
| 17 scaffold services, tracing, identity, httpx, config, frontend, deploy | none of consequence | | |

Interactions. A POST on `/lanes/{id}` fires a transition; the machine calls
vertex-core's listener, which publishes the transition or, if that fails,
enqueues it in the outbox; the outbox's loop publishes it later. A move to
INTERVENTION also publishes a request through the Guard, and an error degrades
the lane, which is a transition again. Agents poll vertex-config over HTTP,
deploy what they are served and POST a rollback when a canary is unhealthy;
operators change versions over the same API. vertex-weight is started by the
bus with each reading, and publishes a mismatch and a request when the weight
is out of tolerance; vertex-intervention is started with each request, keeps a
record, and publishes the resolution an associate enters over HTTP.

What makes each part correct:

* Guard: the half-open counter counts the trials under way; no result of an
  earlier period closes or reopens the circuit; OPEN lasts for the cooldown;
  no slot leaks; every call returns.
* Outbox: what Enqueue acknowledged reaches the bus, but for the losses the code
  has (below); duplicates have a cause; nothing is appended behind a flush's
  back; the backlog drains.
* Lanes: each transition is reported or known to be lost; a lane in
  INTERVENTION has somebody coming or leaves; nobody is asked without a cause;
  a lane's events form a chain.
* Rollout: a canary reaches its stores only and does not disturb the others; a
  rolled back version leaves every store; stores end up on what they are served.
* MQTT client: Publish returns nil only if the broker has the message; an
  acknowledgement finds the call it answers; every subscription is in force on
  the current connection; what is acknowledged was handed over, unless it does
  not decode or the process died; packets are read as they were written,
  however the connection breaks.
* Weights and interventions: a bag out of tolerance gets a record, unless an
  error, a crash or the bus lost it; once the record is there it stays while the
  process lives, and a resolution is announced.

`PROJECT.json` lists every component, also those not modelled, and every
hazard with the line where it bites and the properties that watch it.

## Modules

| module | models | state and actions |
|---|---|---|
| `Guard` | `internal/resilience` | `pc[c]` is where goroutine `c` is inside `Guard.Call`; the critical sections of `cb.mu` are one action each; `slots` counts the semaphore; `age` and `openAge` are discrete clocks; `orphans` counts goroutines left behind by the select of `Execute`; `trials` is a history variable |
| `DurableQueue` | what the outbox promises | `Accept`, `Spoil` (an append that loses its own event), `Acknowledge` (only what was accepted or spoiled), `Deliver`, `Forget` (what was delivered, and what is cut off behind some event, which is then in `lost`); no order among deliveries |
| `Outbox` | `internal/outbox` | `file` holds the lines that carry an event, `overlong` those of them the scan cannot take, `torn` a trailing fragment; a flush is `StartFlush`, which reads the log or, if the scan ends early, a part of it, one publish per record, `Rewrite`; `Crash` keeps the file |
| `LaneManager` | `internal/statemachine`, `cmd/vertex-core` | `Fire` and `Degrade` change a machine atomically; `pc[h]` walks a handler through publishing, enqueueing, raising and degrading; the outbox is an `INSTANCE` of `DurableQueue` |
| `Bus` | what `eventbus.Bus` promises | `Take`, `Drop` (of what it has, silently), `Return` (nil only for what was taken), `HandOver` (any number of times, of what was taken and not dropped) |
| `MqttClient` | `internal/eventbus/mqtt.go` with a broker and a network | `loop` is where `connectionLoop` is: dialling, waiting for CONNACK, attached, announced, replaying subscriptions, reading; `pub[m]` and `sub[t]` walk Publish and Subscribe; `pending` maps ids to calls; the broker keeps a session and resends what is not acknowledged; `malformed` are the messages whose payload does not decode |
| `Wire` | `mqtt_wire.go` and the parsing in `mqtt.go` | operators on sequences of bytes, no state; the loops over the bytes of a length are sums and functions over the byte's place |
| `Wildcard` | `wildcard.go` and `Topic` | `topicMatches` and, as its reference, the matching of the MQTT standard |
| `Intervention` | `cmd/vertex-weight` and `cmd/vertex-intervention` over `Bus` | `weight[d]` walks the handler of one delivered reading, `call[a]` one HTTP call; `byID` are the records; both processes may die |
| `ConfigStore` | `configStore` of `cmd/vertex-config` | the version list of one service and `active`, the version a store is served |
| `Rollout` | `cmd/vertex-agent` with `ConfigStore` | one tick is `Poll` (on the server, under `cs.mu`), `Encode` (of the pointer, after the unlock), `Deploy`, and the rollback POST |
| `MC...` | instances for TLC | |
| `SequenceLemmas`, `...Proofs` | lemmas and theorems | |

`Outbox` is shown to implement `DurableQueue` (`ImplementsQueue`, with
`queue <- file`), and `LaneManager` uses `DurableQueue` in its place.
`MqttClient` is shown to implement `Bus` (`ImplementsBus`), and `Intervention`
uses `Bus` in its place. In `mqtt_publish`, where `ImplementsBus` is checked,
there is no inbound message, so the run says nothing of handing over;
`ClientImplementsBus` proves the refinement with inbound messages. Likewise
`LaneManager` takes from `Guard` only that a call returns, with nil or an
error. Operators whose comment begins with *Mutant* are not part of a
specification: each is a version of the definition after it with a plausible
bug, and putting it in the place of that definition makes TLC report the
property it is named for in `PROJECT.json`.

Abstractions worth knowing:

* An event is an identity; payloads, topics, ids and dates are left out. In
  `Outbox` an event stands for its own Enqueue call, so two calls never carry
  the same event.
* `Guard` counts failures up to the threshold only; no comparison in the code
  tells larger counts apart. `Registry` holds independent Guards and is left
  out, as is the logging callback.
* A lane's machine is created on first use in IDLE, so `machine` starts there.
  In `LaneManager` a publish may fail and the event still arrive ("late"):
  that is what an acknowledgement timeout means.
* In `Outbox`, a file-system error that leaves the log as it was (failing to
  open it, say) is a flush or call that does not happen. A failed `Sync` after
  a complete write is not modelled; power loss is not either: a crash is a
  process crash, which is what the package documents. A short write that stops
  right in front of the newline leaves a fragment that would be read as a line;
  it is taken for one that is not. Lengths are not counted: with `"long_line"`
  among the faults any line may be over the 1 MiB that the scan takes.
* `Rollout` follows one service; an agent handles its services in sequence and
  their lists do not interact. The agent's health signal is noise except that
  version 1 is healthy (`simulateErrorRate`). A rollback request may take any
  time to arrive but the agent waits for it; the three-second limit of its
  HTTP client shows as `RollBackFails`, so a request that is handled after the
  client gave up and began another tick is not modelled.
* In `MqttClient` a Publish call stands for its message. `pingLoop` appears as
  the fact that a dead connection is noticed; SUBACK and PINGRESP are read and
  change nothing. Inbound messages have QoS 1; a PUBLISH that does not parse at
  all, which the client drops without a PUBACK, and QoS 0 are left out. Socket buffers are unbounded: a write is accepted at once, or
  lost with the connection, so a peer that stops reading while `m.mu` is held
  is not modelled. `Unused` bounds the rate of ids: an id comes round again only
  when the call that had it has returned and no packet carries it. In the code
  65536 ids would have to be handed out within the ten seconds of a call.
* In `Wire` the lengths and ids are those of the code (16 bits, up to four
  length bytes); contents are arbitrary bytes. A
  remaining length is written with at most five bytes, one more than is ever
  read: beyond that the code's loop goes on, and the reader has already refused.
* In `Intervention` a request is named by the delivery of the reading it comes
  from; weights are whole grams and tolerances whole per cent, where the code
  has floats. `mismatches++` without a lock is a choice over what interleaved
  reads and writes can leave.

## Runs

| run | instance | what it shows |
|---|---|---|
| `guard` | 3 callers, 2 slots, threshold 2, 2 trials, fair | `HalfOpenAccounting`, `HalfOpenOnlyTrials`, `ClosedBelowThreshold`, `OpenHoldsForCooldown`; `CallReturns`, `BulkheadRecovers` and `HalfOpenResolves` even if the dependency never answers |
| `outbox` | 3 events, all six faults, fair | `LossIsContained`, `FlushCoversFile`, `NoSpuriousDuplicate`, `EnqueueTerminates`, `BacklogDrains`, `ImplementsQueue` |
| `outbox_order` | 2 events | **violated**: replay is not in order |
| `outbox_torn` | 2 events, short writes | **violated**: an acknowledged event is lost |
| `lane` | 1 lane, 2 handlers, all five faults, fair | `TransitionAccounted`, `InterventionAccounted`, `RequestJustified`, `EventsFormChain`, `NoStrandedLane` |
| `lane_request` | 1 lane | **violated**: a failed intervention request is not queued |
| `rollout` | 1 store in bucket 10, versions at 5%, 50% and 100%, 3 versions, fair | `BlastRadius`, `OthersUndisturbed`, `RolledBackLeaves`, `Converges` |
| `rollout_promoted` | 2 stores | **violated**: the agent rolls back a promoted version |
| `mqtt_publish` | 2 calls (symmetric), 1 pattern, 3 ids, cut connections | `AckMeansReceived`, `AckFindsCall`, `ImplementsBus`, `WireIsUnderstood`, `CutLeavesWhole` |
| `mqtt_subscribe` | 2 overlapping patterns, 1 message, 5 ids, all six faults, fair | `SubscriptionsInForce`, `AckedIsHandedOver`, `Resubscribes`, `QueuedIsHandedOver` |
| `mqtt_ack` | 1 pattern, 1 message, a crash | **violated**: a message is acknowledged that nobody handled |
| `intervention` | 2 readings (474 g and 525 g of 500 g at 5%), one with a lane and one without, 2 resolve calls, repeated and dropped requests, both processes die, fair | `RequestKept`, `ResolutionAnnounced`, `MismatchIsAttended` |

Each passing run but `mqtt_subscribe` also checks its module's `TypeOK`; in
`Intervention` that includes the bound of the racy counter.

Why the bounds are enough. Guard: three callers on two slots make one wait, two
trials run side by side, and the cooldown is longer than a call, as in the code
(10 s against 3 s). That `allow` refuses a further trial in HALF_OPEN is not
reached in this instance, where the slots are as many as the trials; the proofs
cover it for all constants. Outbox: three events are the fewest for which one is
published, one carried forward and one appended meanwhile, or one read, one too
long and one behind it. Lanes: lanes share
nothing but the outbox and the Guard; two handlers are enough for every pair of
racing steps, and `MaxTransitions` leaves room for an INTERVENTION, a Degrade
and a move in between. Rollout: the bucket is outside the 5% canaries and
inside the 50% ones; three versions allow a canary on top of another one on top
of a full version. The other agents are represented by operators, who may do
whatever an agent's rollback does, until everything is calm. `MaxOrphans` only
limits when new calls begin. MQTT: with three ids, two calls and the
subscriptions replayed on each connection, ids wrap round past 0 while
acknowledgements are under way; the message of `mqtt_subscribe` matches both
patterns, and five ids let some replays reach id 0 and others not.
Intervention: one reading on either side of the tolerance's edge; two calls and
a repeated delivery are the fewest with which one call's record is reopened and
resolved by the other.

The codec. `WireIsUnderstood` and `CutLeavesWhole` are invariants of the
protocol: the packets under way in a state are looked up, by id and type, in
tables of what encoding and decoding make of them. The first takes ids spread
over all 16 bits, topics of 1, 2, 255 and 256 bytes and payloads around the
length that needs a second byte; the second cuts each pair of neighbouring
packets after every byte and expects the packets that had arrived whole and
nothing else, which is what the action `Cut` assumes. What `WireProofs` proves is
about the codec alone, for every id, topic, payload, packet and cut. Two `ASSUME`s of
`MCMqttClient` check what no state tells apart: `LengthsAgree`, that remaining
lengths survive at the limits of one to four bytes, and `ConnectAgrees`, that
the CONNECT packet is the one of the standard.

The five violations are described, with the documentation they contradict,
under `findings` in `PROJECT.json`.

## Fairness

* `Guard`: time passes and goroutines are scheduled. Nothing is assumed of the
  dependency (`FnReturns` is not fair) or that calls are made. A waiting
  caller is only sure to get `BulkheadFull`, not a slot.
* `Outbox`: the ticker keeps starting flushes and `Publish` returns, since its
  waits are bounded by `PublishTimeout`. Strong fairness of `AppendLine` is
  Go's mutex, which hands over to starving waiters. That the bus comes back is
  not assumed: `BacklogDrains` speaks of `calm`, which need never happen.
* `LaneManager`: handlers make progress, which rests on `CallReturns` and
  `EnqueueTerminates` above. Which way a step goes is never assumed.
* `Rollout`: agents keep ticking; vertex-config can be reached again and again
  (strong fairness of `Encode` and `Deploy`); no rollback need get through.
* `MqttClient`: its goroutines run, timers fire, a connection that is down is
  noticed because `pingLoop` keeps writing to it, and the broker reads and
  sends. `pingLoop` does not run before CONNACK, and the read of CONNACK
  (mqtt.go:104) has no deadline: that a connection which is lost there is
  noticed takes an answer, a reset or TCP's keepalive. Faults may go on for ever: `Resubscribes` and `QueuedIsHandedOver`
  speak of `calm`. A client that is closed is excepted.
* `Intervention`: handlers run, Publish returns, and a request the bus keeps is
  handed over once. The latter is `QueuedIsHandedOver`: it needs a connection
  that is calm sooner or later and a vertex-intervention that has subscribed.
  Nothing is assumed of a request the bus drops, because no session wanted it or
  the node that held it is gone; `MismatchIsAttended` excepts it. Nobody need
  resolve anything.

## Proofs

All proofs rest on the named `ASSUME`s of the specifications (`GuardAssumption`
and so on), which TLC also evaluates in the runs.

* `GuardProofs`. Types, with the invariant that `slots` counts the callers
  inside `Bulkhead.Execute` (`SlotsHeld`): each step moves at most one caller in
  or out and must change the count with it, so no way out keeps a slot and none
  gives one back twice. `ClosedBelowThreshold` is inductive: the
  circuit closes only in `RecordSuccess`, which clears the count.
  `HalfOpenAccounting` is not: it needs that a trial stays admitted until its
  result is recorded, also after its episode ended (`TrialsInv`).
  `HalfOpenOnlyTrials` is proved under `CallTimeout + MaxLag < OpenTimeout`:
  a call admitted before the trip is older than the circuit has been open, so
  it is over before the cooldown is. `OpenHoldsForCooldown` follows per action.
* `OutboxProofs`. The only step that removes lines is the rename, so the first
  inductive invariant (`KeepInv`) joins `FlushCoversFile` (what a flush read
  still covers the log) with the fact that each written event is in the log
  or with the bus, unless it is in `lost`; `LossIsContained` follows. Which events
  get there is in the model: those whose line merges with a fragment, and those
  a rename removes unread. The second (`LogInv`) says that no
  event is in the log twice and that a flush works on a snapshot: its records
  and the lines it has not read are the log from some line on, and `remaining` is
  a selection of the lines before it. With it `NoSpuriousDuplicate` is inductive once strengthened
  to `OnceInv` (until a fault, nothing the bus has is still to be published),
  and the rename is the queue's `Forget` of that selection, which is the step of
  `ImplementsQueue` that is not immediate; that nil is returned only for events
  accepted or spoiled uses `KeepInv` again.
* `LaneManagerProofs`. `TransitionAccounted` is inductive with the types; what an
  early end of the scan cuts off moves to `lost` with the step that cuts it off.
  `InterventionAccounted` needs that the last entry of a lane's log tells its
  state (`AskInv`), so that only a handler of that very entry can leave it.
  `EventsFormChain` needs that the transitions since the last start are a
  suffix of the log (`ChainInv`). `RequestJustified` needs that a handler that
  raises or degrades works on a move to INTERVENTION that has been dealt with
  (`RequestInv`); the request it leaves behind inherits that, moves are never
  taken back, and the Degrade that follows a time-out is what makes the lane
  move on from the request it no longer waits for.
* `RolloutProofs`. `BlastRadius` speaks of what is deployed; the inductive
  `MeantInv` says the same of answers in flight, and holds because a version
  never leaves the list and its percentage only changes to 100 (`Keeps`).
  `OthersUndisturbed` follows from what `active` computes before and after a
  step; that a finite set of versions has a newest one is derived from the
  well-foundedness of the naturals (`MaxExists`).

* `MqttProofs`. `AckMeansReceived` and `AckFindsCall` follow from `AckInv`: an id
  leads back to its call, from the entry in `pending` over the PUBLISH to the
  PUBACK, and nobody else takes the entry meanwhile; this is where `Unused` is
  needed, also for the second half of `AckFindsCall`, that no other call wakes.
  `AckedIsHandedOver` is part of `DeliveryInv`: before a crash the
  broker never knows of a subscription the client does not, so what it keeps
  finds a handler if it decodes. `SubscriptionInv`
  follows how the replay and a Subscribe that sees `connected` share the
  patterns out, up to `SubscriptionsInForce`. `ImplementsBus` uses `AckInv` and
  `DeliveryInv`. `MatchesAsBroker` is about `topicMatches` alone: it
  agrees with the matching of the standard for every filter and topic.
* `WireProofs`. What the codec does to every input, from the bytes up.
  `LengthSurvives` rests on the digits to the base 128 of a number
  (`DigitsMakeNumber`) and on the first byte below 128 being the last that was
  written; `LengthTorn` and `LengthTooLong` are the lengths of which that byte is
  missing or comes too late. With them `PacketSurvives` (a whole packet is read
  back and the next one is untouched) and `PacketTorn` (a part of one is
  refused), and from these `NoPacketTorn`, by where the cut falls: in the first
  packet, in the second, or after it. `PublishUnderstood` and `PubackUnderstood`
  add the fields of a body.
* `InterventionProofs`. The counter is bounded by counting the handlers that
  are done (`CountBound`). `RequestKept` has to hold also while a handler is
  still counting (`KeptInv`); `ResolutionAnnounced` is inductive because a call
  that owes an announcement goes on owing or making it (`AnnouncementStays`)
  until its process dies, which also takes the record.

Only model-checked: the liveness properties (`CallReturns`, `BulkheadRecovers`,
`HalfOpenResolves`, `EnqueueTerminates`, `BacklogDrains`, `NoStrandedLane`, `RolledBackLeaves`,
`Converges`, `Resubscribes`, `QueuedIsHandedOver`, `MismatchIsAttended`), since
fairness and ENABLED are outside the prover; `WireIsUnderstood` and
`CutLeavesWhole`, which are about sample packets where the theorems of
`WireProofs` are about all; and the properties the violation runs refute. Every
other invariant of a passing run, every action property and both refinements
are proved. `LengthsAgree` is an instance of `LengthSurvives`;
`ConnectAgrees` compares two constants.

## Observations that are not runs

* vertex-core's comment (main.go, 92-95) speaks of WEIGHING to INTERVENTION
  only; the code asks for an intervention on every move to INTERVENTION, and
  `InterventionAccounted` needs that.
* `active` serves version 1 to every store when no version is full, even if
  version 1 is a 1% canary or was rolled back; `BlastRadius` and
  `RolledBackLeaves` leave it out. A canary also hides an older canary: its
  stores fall back to the last full version.
* vertex-config numbers versions anew after a restart, and an agent that runs
  an old version of the same number does not notice.
* bulkhead.go (10-13) speaks of a bound on in-flight calls. The slot is given
  back at the deadline while `fn` still runs, so more executions than
  `MaxConcurrent` may be under way: `slots` counts the calls that are waited
  for, and `orphans` the others.
* flush never looks at `scanner.Err()`. A line over 1 MiB (outbox.go:98), or a
  read error, ends the scan early, and `rewrite` then replaces the log without
  the lines behind it: acknowledged events are lost, although the comment at
  outbox.go:102 says that a malformed line is skipped rather than fail the
  replay. `LossIsContained` and `lost` account for it.
* A message whose payload does not decode is acknowledged and dropped
  (mqtt.go:201-212); nobody but the log hears of it.
* `Close` while `connectOnce` is dialling leaves the new connection open and
  read: in the model `loop` stays at reading with `closed` set.
* A second Subscribe on a pattern replaces the first one's handler in the MQTT
  client; the in-memory bus keeps and calls both.
* A lane id that contains "/" makes a topic of more segments, which the "+" of
  vertex-intervention's pattern does not match; such requests have no record.
* A request delivered again reopens a record that was resolved, and a reading
  delivered again makes a second intervention under a new id.
* `resolveHandler` encodes the record after its unlock; the answer may show a
  later state of it.
* A topic of more than 65535 bytes has its length cut to 16 bits, and the writer
  does not check that a body is at most 268435455 bytes: `PublishUnderstood`
  assumes both limits, and `LengthTooLong` shows that the reader refuses what is
  beyond the second.
* A request that Guard.Call gave up may be published after its lane has been
  degraded and has moved on; an associate then comes to a lane that does not
  wait. `RequestJustified` says that such a request is not made up and that no
  lane relies on it; nothing in the repository takes it back.

## Not modelled, and why

The in-memory bus starts every matching handler under one lock and returns nil;
its matching is `topicMatches`. The control plane keeps the last report per key
under a mutex and forwards requests. The scaffold services, tracing, mTLS setup,
HTTP helpers, dashboard and deployment files have no state of their own or are
configuration. In the components that are modelled: `pingLoop`'s own
timing, socket buffers and the deadlock a stalled peer could make of them
(hazard at mqtt.go:246), `Registry`, the bus events vertex-config publishes (nobody
subscribes to them), reads such as `PendingCount` and the lists.

## Plan

Done: `Guard`; `DurableQueue` and `Outbox`; `LaneManager` over the queue;
`ConfigStore` and `Rollout`; `Bus`, `MqttClient`, `Wire` and `Wildcard`;
`Intervention` over `Bus`; the proofs of each.

What could come next, in order:

1. Bounded socket buffers in `MqttClient`, with writes that hold `m.mu`, to show
   when a stalled peer stops both directions.
2. A property of contents for `Rollout` across restarts of vertex-config, and
   rollback requests that outlive their client.
3. The lanes and `Intervention` together: a request whose lane has been degraded
   meanwhile. Nothing in the repository relates the two so far.

Runs stay few: what comes later shares runs where the instances allow.

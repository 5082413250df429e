# gokaf: a verification project

TLA+ models of gokaf, a Kafka-like broker cluster in Go, the TLC runs that check
them on small instances, and proofs, checked by TLAPS, of the safety of the
partition and its leader, the group coordinator, the idempotent producers and the
metadata log. Paths below are relative to the repository.

## The system and its parts

A cluster is a fixed set of broker processes (`cmd/broker/main.go`). Each has

| part | code | module |
|---|---|---|
| partition state: ISR, high watermark, waiting acks=all produces | `internal/replication/partition_state.go` | `PartitionState`, `PartitionStateProofs` |
| produce and fetch handlers, replica fetchers | `internal/network/produce.go`, `fetch.go`, `internal/replication/fetcher.go` | `LeaderPartition`, `LeaderPartitionProofs`; across leaders: `PartitionFailover` |
| replication manager: what this broker leads and follows | `internal/replication/manager.go` | `MetadataCluster`, `PartitionFailover`, `LeaderPartition` |
| consumer group coordinator | `internal/group/coordinator.go` | `GroupCoordinator`, `GroupCrashes`, `GroupCoordinatorProofs` |
| partition assignors and the assignment blob | `internal/assignor` | `Assignor`; with the coordinator: `GroupAssignment` |
| segmented log on disk, ListOffsets | `internal/storage/log.go`, `internal/network/list_offsets.go` | `SegmentedLog`, `FailedRoll`; promise: `AppendOnlyLog` |
| committed offsets | `internal/offset/store.go` | `OffsetStore` |
| idempotent producers | `internal/producer/manager.go` | `IdempotentProduce`, `IdempotentProduceProofs` |
| record batches and varints | `internal/protocol/recordbatch.go`, `types.go` | `RecordBatch`, `ReadBack` |
| liveness, controller election | `internal/cluster/liveness.go` | `MetadataCluster` |
| metadata log and its followers | `internal/cluster/metadatalog.go`, `metadatafollower.go` | `MetadataCluster`, `MetadataRecord`; proofs: `MetadataClusterFacts`, `...Types`, `...Logs`, `...Proofs` |
| topic creation, deletion, failover | `internal/network/create_topics.go`, `delete_topics.go`, `failover.go` | `MetadataCluster` |
| framing and headers, read-only handlers, fault switches, HTTP API, test client | `internal/protocol`, `internal/faults`, `internal/httpapi`, `cmd/testclient` | not modelled, or only in part, see the end |

How they interact: a produce handler appends to the partition's log, through the
producer manager if the batch has a producer id, and with acks=all waits for the
high watermark. Followers' fetchers send fetches to the leader; the handler
records how far each follower is, moves the high watermark and thereby releases
waiting produces. The controller, the highest broker id a broker takes for live,
writes topic changes to its metadata log and applies them; the others pull that
log and apply it; applying a record tells the replication manager what to lead
and what to follow. Groups commit their offsets to the offset store, which lives
on a segmented log, as do the metadata log and the partitions.

`PROJECT.json` lists all parts with their state, maps each definition to the
lines it models, and lists the hazards: places where interleaving, crashes,
stale values or limits could go wrong, with the properties that watch them.

## The modules

Lock regions are the actions. Where the code holds one mutex over a whole
operation the operation is one action; where it releases it, or takes two locks
one after the other, the operation is cut there, so what was read before is
possibly stale after. Names follow the code.

**PartitionState.** One action per method. Time is the age of each follower's
last fetch, capped one step past the lag timeout: the code compares ages with the
timeout and nothing else. A call of `WaitForHighWatermark` is idle, parked,
released (its `done` channel is closed), acked or timed out; timer and channel
race as in the `select`. `ISR()` stores a new high watermark and drops
the result of `recompute`, as the code does.

**LeaderPartition** extends it by its callers: both logs' ends, produce calls,
fetch handlers with one action per critical section, followers' fetch loops, a
connection that breaks while its handler runs on, consumers and the status page.

**GroupCoordinator.** One group. Join, Sync, Heartbeat and Leave of each member,
the join timers (those whose pointer was overwritten included: `looseTimers`),
session timers, and callbacks that have fired and wait for the lock
(`expiring`). An assignment is represented by the generation it was made for.
A client has one call under way at a time but may join anew at any time.
**GroupCrashes** adds clients that stop for good. **Assignor** has the two
assignors, the blob and what they owe, as operators. **GroupAssignment** puts
them together: the coordinator carries blobs it does not look into, so the
generation a member's assignment was made for and the roster its leader was
given then say which partitions the member owns.

**SegmentedLog.** Files are sequences of entries, the last possibly torn, plus an
index that may be ragged. An append is cut at its writes: roll, index, entry.
Each may fail or be cut short by a crash of the process. `Open` recovers segment
by segment, and may crash while it rebuilds an index. **AppendOnlyLog** is what the
log promises; `Stored`, all intact entries on disk, is the refinement mapping.
**FailedRoll** adds the failure that breaks the promise of `Read`.
`listOffset` and the metadata log's `ReadRawFrom`, which has to call `Read` once per
segment, are operators over the open log.
**OffsetStore** puts the commit and replay of `store.go` on top; its keys go
through the code's entry encoding.

**IdempotentProduce.** Producers with ids, batches with sequence numbers of any
even range that wrap around as int32 does, requests that arrive late or again,
the sequence check and append under one lock, acks=all waits that end or time
out, and restarts that forget all sequence numbers and ids. **RecordBatch** is the
batch format: varints with their width as a parameter, records with null or empty
keys, batches, and the two walks over a concatenation of batches. **ReadBack**
states what a consumer and a replica fetcher get out of stored batches.

**MetadataCluster.** Per broker: live set and miss counts, metadata log,
registry, the replication manager's `led` and fetchers, and its threads: request
handlers, the liveness monitor, which runs the failover inside `recordMiss`, and
the metadata follower. A record goes through append, registry, stop fetchers,
start fetchers, lead, each under another lock region. A crash keeps the log and nothing
else; a restart replays it and takes every peer for live. **MetadataRecord** is the
encoding of its records.

**PartitionFailover** composes `MetadataCluster` with the data of one partition:
produces and acks=all waits, replica fetches cut into send, serve and append,
fetchers that are cancelled in the middle of a fetch, partition states that are
made and dropped with the roles, and logs that are never truncated. Every step of
the control plane is a step of `MetadataCluster` together with what it does to the
partition. Fetch handlers are one step here, and a follower may leave the ISR at
any time. Appends to the metadata log may fail, those to the partition's log do not.

## What the runs check

| run | what is asked | result |
|---|---|---|
| `leader_partition` | types; the high watermark is below what the ISR fetched; the leader never overestimates a follower or its own log; acks=all is let through only when all in-sync followers have fetched, and hold, the record | holds, 1.6 M states |
| `leader_partition_live` | no wait is left behind by the high watermark; acks=all completes without its timer; followers catch up, after connections have broken | holds without status polls, 221 k |
| `group` | map and join order agree; the leader is the oldest member; a rebalance always has a timer to end it; past the join window every member has a session timer; the leader's roster covers the members of the generation; a stable group has assigned all its members | holds, 1.2 M |
| `group_crashes` | both assignors deal out every partition, evenly, and the blob keeps it; in a settled group every partition belongs to exactly one member; a crashed client is evicted for good | holds, 115 k |
| `group_survivor` | a survivor parked in Sync is answered after the leader's crash | **violated** |
| `offset_store` | the files implement `AppendOnlyLog`; `Read` is exact; the listed range reads back whole, across segments; the index is sound; `Fetch` returns the last logged commit | holds, 61 k |
| `failed_roll` | `Read` is exact when a roll fails at the index file | **violated** |
| `producer` | every batch lands once and in order; what is acknowledged is in the log; what is resent is acknowledged in the end; varints are exact; batches read back from answers cut off anywhere | holds (see below), 113 k |
| `producer_duplicate_ack` | acks=all means replicated, also for a resent batch | **violated** |
| `cluster` | followers' logs are prefixes of a single decider's; registry and roles are what a replay would give; nothing applied is unlogged; a record decodes to what its decider applies; one controller in the end; dead leaders are replaced everywhere; the registries converge | holds for one crash, 160 k |
| `double_failure` | dead leaders are replaced, two crashes | **violated** |
| `partition_failover` | acks=all records stay in the logs of those that were in sync; the logs agree | holds (see below), 1.0 M |

The four violated properties are statements of the repository's own documents or
comments; `findings` quotes them and says which line of the code differs:

* `group_survivor`: the next generation answers only Joins. The member parked in
  Sync becomes its leader without learning of it, is evicted when its session runs
  out, and its call is never answered.
* `failed_roll`: the orphaned empty `.log` file is taken for the last segment.
* `producer_duplicate_ack`: a duplicate is answered at once, although the first
  attempt timed out waiting for the followers.
* `double_failure`: a broker that notices the leader's death while it still
  takes the dead controller for live does nothing, and nobody comes back to it.

Properties are stated as strongly as the code supports. The limits below were
met while modelling and are part of the statements:

* `ReleasedUnlessPolled`: the status page's `ISR()` can move the high watermark
  to a waiter's target without releasing it; the waiter then waits for a further
  change or its timer.
* `ProduceCompletes` and `FollowersCatchUp` are stated for connections that break only
  finitely often (`ConnectionsSettle`): a fetcher cut off every time never catches up.
  The handlers of those that broke may still be at work.
* Sequence numbers and the producer id counter are in memory only. So `LandsOnce`
  allows a batch one more copy for each broker restart, and `SentIsAcked` ends at the
  first. `AckedIsLogged` is stated while restarts have confused nothing
  (`Unconfused`): no id was given out twice, and no restart met sequence numbers that
  had wrapped around. The second limit came out of the proof. After a restart the
  broker may first hear of a producer by a late copy of its first batch; a batch
  whose number is past the wrap-around, and so negative, then passes for an old
  duplicate and is acknowledged without being appended. In one process this
  cannot happen: the batch before it was appended, and is where the broker is.
* `RestartKeepsView` leaves out brokers on which an append overtook the apply of
  another record: nothing orders the applies of two threads, and until the next
  record their registry and roles may differ from a replay. It covers
  `TopicDelete`, which leaves fetchers running both now and after a replay.
* `SingleWriterPrefix` is stated for one decider: with two, logs may differ for
  good, as `metadatafollower.go:46-51` says.
* `LeaderReplaced` is stated for topics all live brokers knew when the leader
  died, and for deaths that are news. `OnPeerDown` runs once, when a peer goes
  from live to dead, over the registry of that moment. So a leader that was
  wrongly taken for dead before its topic was known, and then really dies, is
  never replaced; a topic may be created with a leader that is taken for dead;
  and a partition all of whose replicas were taken for dead when its leader died
  is not looked at again when they answer.
* `ViewsConverge` needs a single decider as well. A restarted broker goes on
  leading what its own log says until it has fetched the rest.
* `AckedIsHeld` and `LogsAgree` hold through a failover only if the chosen
  leader's log covers the others, no answer of the old leader is still to be
  appended, and no fetcher is replaced in the middle of a fetch by another of the same
  leader, as happens when a further partition of the topic fails over. Otherwise a survivor that was ahead keeps its records, the new leader
  gives their offsets out again, and the "byte-identical follower logs"
  (`README.md:28`) are gone for good; acknowledged records are lost when the ISR of
  the metadata names a follower that had dropped out of the leader's own ISR. Before
  the first failover `AckedIsHeld` holds without condition. An
  acks=all produce that arrives between the apply of the record and `Lead` finds
  no partition state and is answered at once; it is not counted as acknowledged.
* `NoOverlapNoGaps` is stated for a Stable group with no join timer armed or
  left over, so not for the time in which a leader has synced into an open window, and for round-robin with uniform subscriptions (`assignor.go:60-61`).
* `BatchesReadBack` states the offsets the code gives: one per batch in the log,
  one per record in `decodeRecord`. With several records to a batch the offsets
  of consecutive batches overlap. The clients of the repository send one.
* In the group model a stale join timer can complete a window twice, a leader may
  sync into an open join window, and a buffered result may answer a later Sync.
  The checked invariants hold all the same; that no member is ever told an
  older assignment does not.

### Bounds

Two followers, one acks=all call and two handlers with two records: enough for a
late handler, a stale log end and a follower leaving and re-entering the ISR while
a call waits (the live run has one record, and connections that break). The lag timeout of 0 ticks
makes "in the ISR" and "not" two ages. Groups: three members and
four joins (with crashes two and three), so that windows are reopened and members return. Log: segments of 7 bytes,
entries of 2 and one of 8, an index entry every 3 bytes and 4 records: rolls, an
oversized record, indexed and unindexed positions, a segment left empty. Producers: batches of
2 in sequence numbers of 3 bits, so that the second of one producer's three batches
ends at the highest number and the third has a negative one; a second producer with
one batch, which may get the first one's id after the restart.
Cluster: three brokers, one topic with three partitions on two replicas each, so
that every broker, the controller included, leads one; one crash, one restart, and
one of a topic request, a wrong suspicion and a failing append. A restart and a wrong
suspicion do not come in one behaviour (`BothFaults`); with them the run has 292 k states
and holds as well, in twice the time. Four records per log are never
exceeded. `double_failure` has two crashes with full
replication, and two misses declare a death there. Elsewhere one does, so that one
failed ping is a wrong suspicion. With two the run `cluster` has 215 k states and
holds as well, but then its one failed ping of a live broker is a miss without
consequence, and only real deaths are counted up to. `partition_failover`: three brokers, one
partition on all three, two crashes, one failing append and two produced records:
enough for a second failover, a survivor that is ahead and a late append.
With one partition the leader of a cancelled fetcher is always dead. A second
partition, whose failover replaces the fetchers of a leader that is alive, gives
12.2 M states; both properties hold there too, but in half an hour, so it is not kept
as a run.
Assignors: all inputs of up to three members, two topics and small partition
counts, more members than partitions included; in the composed run
two members. Varints have 8 bits in groups of 3, so that the last group
is not full, as with 32 bits in groups of 7. All bounds are
constants of the modules and show in the `.cfg` files.

The properties of pure operators (`AssignorsAreEven`, `VarintsAreExact`,
`BatchesReadBack`) have no part in the state and are evaluated in the initial
states only.

Deadlock is checked wherever the configuration does not say otherwise; where it
is not, the bounds or the clients simply bring the system to rest.

### Fairness

* `LeaderFairness`: started handlers and calls go on, and each follower's fetcher
  asks again (`fetcher.run` loops on a ticker). The send is strongly fair because
  the model shares a few handler slots where the broker accepts every connection.
  No fairness for clients, timers or the clock.
* `TimerFairness` (groups): armed timers fire and their callbacks get the lock,
  which nobody holds while blocked; the session timer only of clients that have
  crashed and of those parked in Sync on a past generation, whose heartbeats would be
  refused (`Unrenewed`). `completeJoin` and the leader's Sync restart every session
  timer, which with endless joins could put off an expiry for ever; here joins are
  bounded (`MaxJoins`). Clients owe nothing.
* `Fairness` in `IdempotentProduce`: a producer resends its unacknowledged batch,
  the broker handles it, followers fetch. Wait timeouts may always come first.
* `Fairness` in `MetadataCluster`: of a broker's handlers and monitor some thread
  goes on, its follower fetches and applies at its ticker, and every peer is pinged
  truthfully sooner or later. No fairness for requests, crashes, restarts, failing
  appends or failed pings of live brokers.

## What is proved

All theorems hold for any sizes: any sets of brokers, followers, handlers, calls,
clients, producers and topics, and any values of the bounds. The assumptions are
the `ASSUME`s of the modules. They say that constants are numbers, that markers such
as `NoMember` are no members, and what the code guarantees or its clients keep; TLC
evaluates each of them. The inductive invariants were model-checked as well, on the
instances of the runs.

**`PartitionStateProofs`**

* `TypeCorrect`: `Spec => []TypeOK`.
* `HighWatermarkIsSafe`: `Spec => []HighWatermarkSafe`. It is inductive with
  `TypeOK`: `RecomputeBounds` shows that what `recompute` returns is at most the
  leader's end offset and every in-sync follower's offset; each action either
  stores such a value or only lets time pass, which shrinks the ISR.
  A follower that comes back into the ISR does so in `RecordFollowerFetch`,
  which recomputes under the same lock.
* `AckMeansISRFetched`: `Spec => AckNeedsISR`. `LetThroughStep` shows that a call
  is let through only in a step that leaves the high watermark at its target or
  above; with `HighWatermarkSafe` afterwards every in-sync follower has fetched it.
* `OnlyPollsLoseWakeups`: `Spec => []ReleasedUnlessPolled`: every method but
  `ISR()` that changes the high watermark releases the waiters it has reached.

`MinNat` and `MaxPair` connect `Min` and `Max` of the library, which are
`CHOOSE` expressions, with arithmetic.

**`LeaderPartitionProofs`**

* `ViewConservative`: `LeaderSpec => []ViewIsConservative`. Alone it is not inductive,
  because the leader's view is updated from what is in flight. `OnTheWay` says
  of this: an offset in a request, however late the handler is, is one the follower
  has reached; the handler a fetcher waits for has its current offset; an answer
  has only records of the log. `Serving` adds that a call waits for its own record.
* `UsesPartitionState`: `LeaderSpec => Spec`. Handlers, calls and fetchers take only
  the steps of `PartitionState`, with arguments it allows, so the theorems above
  hold under the real callers.
* `AckedMeansReplicated`: `LeaderSpec => AckedIsReplicated`, from the two and
  `HighWatermarkSafe`: a record is in the logs of the followers, not only below an
  offset they asked for.

**`GroupCoordinatorProofs`**

* `MembersMatch`, `LeaderFirst`, `RebalanceTimed`, `SessionsTimed`, `StableAssigned`:
  the invariants of the run `group`. They are inductive together (`Coordinated`) and
  not one by one: that a rebalance has its timer rests on an empty join order meaning
  an empty group, that the leader is first on no id being twice in the join
  order, that a Stable group is assigned on the roster covering the generation.
  `RemoveAtFacts` is what `removeMember`'s cut of the join order does to it.
* `CoordinatedThroughCrashes`: `CrashSpec => []Coordinated`; a crash of a client is no
  step of the coordinator.

**`MetadataClusterFacts`, `MetadataClusterTypes`, `MetadataClusterLogs`,
`MetadataClusterProofs`** (one proof; facts, types, logs, theorems)

* `SingleWriter`: `Spec => []SingleWriterPrefix`. `Flow` strengthens it in three ways: it
  counts what a follower has fetched and not yet appended as part of its log; it
  says that a fetch under way asks for the end of the log, so that the answer
  continues it; and while nobody has decided anything it holds for every broker that
  may be the first to do so.
* `RegistryIsLogged`: `Spec => []AppliedIsLogged`. `Logged` adds the records that a
  thread has appended and is about to apply.

`Types` is the part of `TypeOK` that the proofs need.

**`IdempotentProduceProofs`**

* `BatchesLandOnce`: `Spec => []LandsOnce`.
* `AcksAreTrue`: `Spec => []AckedIsLogged`.

The argument counts records without wrapping around: `Place` undoes the wrap of a
sequence number. `CycleAssumption` makes that possible. It says that no producer goes
once around all sequence numbers, 2^32 records in the code; a request of an earlier
round would be indistinguishable from a new one. `Produced` says that a producer's
requests lie one after the other in its stream, `Broker` that the sequence state of
an id is at the end of one of them, with nothing past it appended by this
process, and `Honest` that nothing before it is missing. The last is false after a
restart with wrapped numbers, which is how the limit of `AckedIsLogged` was found.
`Ids`, a count, shows that the ids suffice.

### What is only model-checked

* All liveness: fairness and `ENABLED` are beyond the proof system.
* The refinement of `AppendOnlyLog`, `SegmentedLog` and `OffsetStore`: recovery and
  replay are folds over files of any length, and what they compute needs
  induction over data. The same holds for the assignors (`AssignorsAreEven` and
  with it `NoOverlapNoGaps`), varints and batches, and the encoding of metadata records.
* `RestartKeepsView`, and the `TypeOK` of `MetadataCluster` beyond `Types`: not proved so
  far. The roles after a replay are stated with `SelectSeq`, of which the provers know
  too little.
* `AckedIsHeld` and `LogsAgree` of `PartitionFailover`: not proved so far.

## What is not modelled

* Fixed-width integers, strings, headers and frames: each field is written and
  read by one call, without a state or a choice.
* Metadata, FindCoordinator, ApiVersions and the inspection part of the operations
  layer and HTTP API: they copy what is registered into an answer. The web
  console. Of the test client only its group leader's `buildAssignments`; the
  rest drives acceptance scenarios.
* The fault switches as such: slow, paused and unreachable brokers are behaviours
  the models have anyway.
* Power failure: files are never synced, so it may lose any unsynced data. A crash
  in the models ends the process only.
* Two short writes of index entries whose parts add up to whole entries: `loadIndex`
  checks the size of the file (`log.go:410`) and would take the garbled entry. In
  `SegmentedLog` an index file with a short write in it stays ragged until it is rebuilt.
* Failover of a partition's data with restarts or wrong suspicions: two brokers
  then lead for a while and nothing fences the old one, so no property of the
  logs is left to state.
* The `ApplyTopic` fan-out: only a broker without a metadata log uses it, and
  `main` always sets one.
* Start-up is one step, taken before the first ping. In the code the monitor
  starts a little before the replay.

## Open

1. A second topic and a second handler in `MetadataCluster` (the proofs have any
   number of them, the runs one).
2. Proofs of `AckedIsHeld` and `LogsAgree` of `PartitionFailover`, and of
   `RestartKeepsView`.

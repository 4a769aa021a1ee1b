# A verification of NABD in TLA+

NABD is a C library for messages between processes through a ring buffer in
POSIX shared memory: one producer, one consumer, no locks. This directory holds
TLA+ modules that model the library, the TLC configurations that check them on
small instances, and TLAPS proofs for every size of buffer. Paths below are
relative to the repository, which is mounted at `src/` (so `src/nabd.c` of the
repository is `src/src/nabd.c` in `PROJECT.json`).

## 1. The system

| Part | Source | State | Operations |
|---|---|---|---|
| Ring core | `src/nabd.c` 277-443 | shared: `head`, `tail`, slots; handle: `reserved`, `reserve_pos` | push, pop, reserve, commit, peek, release |
| Observers | `src/nabd.c` 448-485, `src/backpressure.c` 49-72 | none of their own | stats, empty, full, fill_level, is_pressured |
| Lifecycle | `src/nabd.c` 79-272 | shared-memory names and objects, handles with cached capacity, slot size and mask | open (create, attach), close, unlink |
| Consumer groups | `src/nabd.c` 532-760 | sixteen group slots: active, id, tail | create, join, close, pop, peek, release, stats, min_tail |
| Blocking push | `src/backpressure.c` 77-182 | locals of a retry loop | push_wait, push_backoff, set_backpressure |
| Diagnosis, recovery | `src/persistence.c` 48-169 | none; writes `tail`, unlinks names | diagnose, recover |
| Checkpoints | `src/persistence.c` 174-261 | a file | save, load, resume |
| Metrics | `src/metrics.c` | none | snapshots, throughput, formatting |
| Bindings, examples, benchmark | `bindings/`, `examples/`, `benchmarks/` | none shared | wrappers and clients |

How they interact: the producer's and the consumer's process share nothing but
the object in shared memory. The producer alone stores `head`, the consumer
alone stores `tail`; each loads the other's counter with acquire ordering and
each decides on a value that may already be old. The lifecycle creates and
re-creates the object under them, recovery writes `tail` behind the consumer's
back, and blocking push retries the core's push.

What is hard about it: the order in which writes become visible to the other
process; loads that return old values; a process that dies between any two
accesses and a successor that attaches to what is left; unsigned counters and a
16-bit length that wrap; pointers into slots held by callers across calls
(`nabd_reserve`, `nabd_peek`); call sequences the code does not check. The
hazards are listed at their lines in `PROJECT.json`.

## 2. Modules

### `BoundedFifo`: what the queue promises

A queue of at most `Capacity` messages. The producer offers one message; the
offer is accepted at the back or turned down; the consumer takes the front. An
offer may be turned down although there is room, because the producer's
knowledge of `tail` may be old and because it may crash.

### `Ring`: the code of the core

| Variable | Code |
|---|---|
| `head`, `tail` | `nabd_control_t.head`, `.tail`, the newest values stored |
| `payload`, `length` | the slots: payload bytes, `nabd_slot_header_t.length` |
| `reserved`, `reserve_pos` | the fields of the producer's `nabd_t` |
| `ppc`, `cpc` | where each thread is inside a call, `"idle"` between calls |
| `pret`, `cret` | what the last call returned |
| `pmsg` | the message being sent: argument of push, or what the caller wrote through the reserved pointer |
| `cbuf`, `peeked` | what the consumer has copied or read, and the position of the pointer from `nabd_peek` |
| `delivered` | the message consumed last (a history of one, for the refinement) |
| `tailSeen`, `tailSync`, `headSeen`, `headSync` | what a thread has loaded of the other's counter, and up to where it has synchronised |

*Steps.* A call is split at its accesses to shared memory. `nabd_push` is
`nabd_push` (size check), `push_load_tail` (acquire load and full check),
`push_copy`, `push_header`, `push_publish`; `nabd_pop` is `nabd_pop`,
`pop_load_head`, `pop_length`, `pop_copy`, `pop_advance`; the zero-copy calls
are split alike, and `write_reserved` and `read_peeked` are the caller's own
accesses through the pointers. The relaxed load of the counter that the thread
itself stores is folded into the next step: nobody else writes it.

*Memory model.* A load returns any value from the newest the thread has seen up
to the newest stored (coherence of one atomic variable). An acquire load
synchronises with the release store of the value it reads and moves `...Sync`;
a relaxed load moves only `...Seen`. A slot may be written if the consumer's
release of its previous use happens before (`Reusable`), and read if the
producer's publication happens before (`Visible`); a read that is not ordered
is a data race and returns anything. All stores of the two counters in the code
are release stores, so relaxed stores do not occur in the model.

*Crashes.* `producer_restart` and `consumer_restart` end a process between any
two steps; its successor attaches without `NABD_CREATE`, with a fresh handle.

*Callers.* `Next` has callers that follow `nabd.h`: they write and commit what
they reserve, release what they peeked once, and make no push between reserve
and commit and no pop between peek and release. `InterleavedNext` allows the
push, which neither the header nor the code excludes.

*Left out.* The flags and sequence fields (written, never read), prefetches
(no effect), null-pointer arguments (return `NABD_INVALID` and change nothing).
A message is a content from `Data` and a length; lengths count in units, zero
included, and only their comparison with `MaxPayload` and `LenMod` matters.

### `Backpressure`: the retry loops

Extends `Ring` with the locals of `nabd_push_wait` and `nabd_push_backoff`.
`call` says where the producer's thread is in such a call; the `nabd_push` it
makes is the one of `Ring`, step by step, while the consumer polls. Of the clock
only one answer matters, whether the deadline has passed (`expired`), and it may
turn true between any two steps once the deadline is set. `spin_count`,
`retries` and `delay` are the code's; `sleeps` records the last two sleeps asked
for, `attempts` and `published` count the calls of `nabd_push` and what they
published. `retries` stays 0 if there is no limit, where the code counts but
never compares.

The consumer polls with a buffer for the largest message: with a smaller one
`nabd_pop` may return `NABD_TOOBIG` for ever, and no push could be promised to
return. Crashes are left to `Ring`: a call that dies returns nothing. `delay` has
the width of an `int`: a doubling that overflows is undefined and yields any
`int` (`Doubled`).

### `Observers`: what can be known about the fill

Extends `Ring` with `nabd_stats`, `nabd_empty`, `nabd_full`, `nabd_fill_level`
and `nabd_get_metrics`. In the producer's and the consumer's thread a call is
one step: one counter is the thread's own, and the other is loaded like in
`Ring`, relaxed or acquire as in the code. `pused` and `cused` are the fill the
thread found last, forgotten when it moves its own counter. A monitor is a third
process: it loads `head` and then `tail`, each of any age that coherence allows,
with steps of the others in between (`nabd_stats` and `stats_tail`,
`nabd_get_metrics` and `metrics_tail`).

### `GroupLog` and `Groups`: consumer groups

`GroupLog` is what groups promise: a log of messages and, for each group, a
cursor that starts at a message that is still kept, reads the next message, and
finds everything from there on in the log. At most `Capacity` messages lie
between a cursor and the end.

`Groups` is the code. `active`, `group_id` and `gtail` are the table
(`nabd_multi_consumer_t.groups`, entries counted from 1); each member process has
a place in a call (`mpc`), an entry (`at`), the id it asked for (`want`), a loaded
position (`mtail`) and what it has read (`mbuf`). `nabd_consumer_create` is
`create_cas` (one iteration of the loop; the weak compare-and-swap may fail on a
free entry), `create_id`, `create_head`, `create_tail`, `create_alloc`; join, pop,
peek and release are split alike at every access to shared memory. Loads return
the newest value: what memory orders add is the subject of `Ring`. The message at
position `p` is `p`, so a slot holds the position written to it last.

Two things the library leaves to its user are external: `attach_multi`, since no
function sets `nabd_t.multi`, and the cleaner's loop, which calls `nabd_min_tail`
(entry by entry: `min_tail_active`, `min_tail_tail`) and then `nabd_release` up to
what it returned. The specifications differ in what callers do:

| Specification | Callers |
|---|---|
| `GroupsSpec` | careful: one member in a group, no group created during a scan; members close and crash at any step |
| `ScanSpec` | groups are created at any time |
| `SharedSpec` | members join each other's groups |
| `PlainSpec` | a plain `nabd_pop` runs beside the groups |
| `LibrarySpec` | nothing attaches the table |
| `FairSpec` | those of `GroupsSpec`, with members that go on polling and a cleaner that goes on cleaning |

### `Lifecycle`: names, objects, handles

`name` is the object the name is bound to, `mem` the size and control block of
each object, `handle` what each process caches (`capacity`, `slot_size`), `proc`
its call: a place, a file descriptor (the object), locals. `nabd_open` with
`NABD_CREATE` is `nabd_open_create`, `open_existing` (after `EEXIST`),
`ftruncate`, `mmap_create` and one step for each store of the initialisation, in
program order; without it `nabd_open_attach`, then a step for each field read.
Reading an object that has no size yet kills the process (`"sigbus"`).
`nabd_diagnose` and `nabd_recover` take a step for each load of a counter, beside
a producer and a consumer that move them; `nabd_recover` opens the name a second
time, when it may be bound to another object. `nabd_push` and `nabd_pop` are
reduced to the check of the counters and the store.

`LifecycleSpec` has careful callers: a queue is created when its name is free and
nobody is opening, diagnosing or recovering it, it is opened once it is created,
and the creator does not die while the object has no size, or between storing the
magic and the rest (it may die before the magic). `RacingSpec` has none of these
limits. Failures that change nothing (arguments, allocation of the handle, first
`shm_open`) are left out.

### `Checkpoint`: saving and resuming

Extends `Groups` with a file for each member: absent, empty, or a record.
`nabd_checkpoint_save` takes the position, `save_open` truncates the file or
fails, `save_write` stands for `fwrite` and `fclose`: the record reaches the file
or not; the call reports a failure of `fwrite`, not one of `fclose`. A record cut short is no
better than an empty file, since `fread` then returns 0. `nabd_consumer_resume`
creates a group (the steps of `Groups`), or joins the old one if that fails,
then loads `head` and stores the position. The member may die between any two of
these steps; a cleaner releases slots meanwhile. `base` and `seen` record where a
consumption started and what it has consumed, `owner` which member took an entry
(`entry_taken`; `allocated` forgets it when the handle cannot be allocated and the
entry is given back). `OwnGroups` says that no member uses an entry that another one
took.

With one member `OwnGroups` always holds. With several it holds while `DistinctIds`
does: no two members have groups of one id in the table. This asks for more than
callers that choose different ids: when the allocation of a handle fails, the entry is given back with
its `group_id` still set, and the next member to take it is `active` before it has
stored its own id. A resume of the first member that finds the table full and joins
at this moment meets its old id in an entry that is no longer its own.

### `Metrics` and `Arith`: machine words

`Metrics` has `nabd_take_snapshot` and `nabd_calc_throughput`, on words of which
there are `Words`. The one variable enumerates the inputs. A snapshot is taken of
counters that may wrap before the next one, and each counter is loaded at a time of
its own, so that any number of pushes goes with any number of pops.

`Arith` extends it with what works on the bits of a word: `nabd_is_power_of_2`,
`nabd_next_power_of_2` (the cascade of shifts), `nabd_mod_pow2`, the rounding in
`nabd_open`, the size of the mapping, the offset of a slot and `compute_checksum`,
on words of `Width` bits. A word is the set of its bits that are 1, so that `&`, `|`
and `^` of C are operations on sets; `n - 1` and `n + 1` flip a bit according to the
bits below it, and the highest bit in which two words differ decides a comparison.
`Value` is the number a word stands for: how many words are less. That these
operators compute what C's do on numbers is the assumption `WordsAreNumbers` of
`MCArith`, which TLC evaluates for every word of the instance.

### MC and proof modules

`MCRing`, `MCBackpressure`, `MCObservers`, `MCGroups`, `MCLifecycle`,
`MCCheckpoint` and `MCArith` are the modules TLC runs; `RingProofs`,
`ObserversProofs`, `BackpressureProofs`, `GroupsProofs`, `LifecycleProofs`,
`CheckpointProofs` and `ArithProofs` (of `Metrics` and `Arith`) hold the theorems.
The lemmas on the actions of `Groups` that `CheckpointProofs` uses too (pushing,
cleaning, advancing) have a module of their own, `GroupsSteps`.

## 3. Runs

| Run | Shows |
|---|---|
| `ring_fifo` | `TypeOK`, `CursorChain`, `NoDataRace`, `PeekStable`, `IInv` and the refinement `IsFifo` hold: stale loads, crashes of both sides, zero-copy and copying calls in any order the header allows, messages of length zero and messages that are too big |
| `ring_interleaved` | **violation**: reserve, push, push, commit moves `head` back (`HeadMonotone`) |
| `backpressure_live` | `PublishOnce`: a blocking push that returns `NABD_OK` published exactly one message, any other none, wherever the deadline falls. `CappedSleeps`: the backoff sleeps before each retry, from the second on at most its cap. `RetriesLimited`: it never retries more often than `max_retries` says, and gives up only if it has a limit and not before as many attempts. `BoundedReturns`: with a timeout or a limit the call returns although the consumer may stop for ever. `AlwaysReturns`, `AllConsumed`: while the consumer polls, every call returns and every message is consumed |
| `observers_own` | `UsedBounds`, `RoomLasts`, `ItemLasts`, `FillInRange`: in the producer's thread the reported fill is an upper bound and "not full" is a promise, in the consumer's a lower bound and "not empty" is a promise |
| `observers_stats` | **violation**: in a third process `used` underflows (`UsedInRange`) |
| `groups_log` | `Owned`, `Retained`, `HandedOutOnce` and the refinement `IsGroupLog`: members race for entries, crash at any step, fail to allocate, while the cleaner scans and releases. `Progress`: the slowest group and the cleaner always make room for the producer again, unless a group has been left by its member |
| `groups_shared` | **violation**: two members of a group hand out the same message (`HandedOutOnce`) |
| `lifecycle_careful` | `HandleGeometry`, `CounterOrder`, `HealthyUntouched`: handles agree with their objects, and neither crashes nor a forced recovery touch the messages of a working queue |
| `lifecycle_attach` | **violation**: attaching during a creation yields a handle with a zero geometry or kills the process (`HandleGeometry`) |
| `checkpoint_resume` | `NothingSkipped`, `CheckpointBehind`: consumption through checkpoints is at least once, whenever the member dies. `CheckpointInv`: the inductive invariant of its proof |
| `checkpoint_lost` | **violation**: a crash during a save loses the old checkpoint too (`Recoverable`) |
| `arith_words` | `CapacityRounded`, `SlotsInMapping`, `ChecksumDetects` and `RateAcrossWrap` for all words of seven bits |

Further instances, kept beside the runs. `Groups_large.cfg` checks the safety
properties of `groups_log` with two slots and four messages, and finds no error. In
each of the others TLC finds the property violated:

| Instance | Violated | Shows |
|---|---|---|
| `Ring_truncation.cfg` | `LengthKept` | slots larger than 65535 + 8 bytes let `nabd_push` return `NABD_OK` for a message it publishes with a length cut to 16 bits; `types.h:70` says "payload length (max 65535 bytes)" |
| `Backpressure_sleep.cfg` | `SleepGrows` | the sleep of `nabd_push_wait` stays at its first value, since `spin_count` stops at `MAX_SPINS`; `backpressure.c:115` says "Sleep with exponential backoff, capped at 1ms" |
| `Backpressure_retries.cfg` | `AllRetriesMade` | `nabd_push_backoff` counts its first attempt as a retry; `backpressure.h:82` says "Maximum retry attempts (0 = infinite)" |
| `Backpressure_overflow.cfg` | `CappedSleeps` | with a base delay above half of `INT_MAX`, `delay *= 2` overflows before the cap is applied; `backpressure.c:134` says "Cap at 100ms" |
| `Arith_throughput.cfg` | `MessagesPerSecond` | `nabd_calc_throughput` adds the pushes and the pops, so that a message which is pushed and popped between the snapshots counts twice; `metrics.h:96` says "Get current throughput (messages per second)" |
| `Arith_snapshot.cfg` | `SinceLastSnapshot` | `nabd_take_snapshot` stores the counters themselves; `metrics.h:65` says "Messages pushed since last snapshot", and line 66 the same of pops |
| `Observers_metrics.cfg` | `MetricsFillInRange` | in a third process `nabd_get_metrics` can report more than 100 percent; `metrics.h:39` says "Fill percentage (0-100)" |
| `Groups_scan.cfg` | `Retained` | a group created during the scan of `nabd_min_tail` is overlooked and loses messages; `nabd.h:290` calls the result "Minimum tail position (used to determine safe buffer cleanup)" |
| `Groups_plain.cfg` | `Retained` | `nabd_push` knows nothing of groups, and a plain pop frees a slot a group has not read; `nabd.h:216` says "Messages are not removed until ALL consumer groups have read them." |
| `Groups_enomem.cfg` | `NoSlotsAvailable` | `ENOMEM` with free entries, since the weak compare-and-swap is not retried; `nabd.c:563` says "No slots available" |
| `Groups_library.cfg` | `GroupsSupported` | no function of the library attaches a table, so no group can be created; `README.md:90` says "NABD supports multiple consumer groups." |
| `Lifecycle_recreate.cfg` | `CreateIfNotExists` | `NABD_CREATE` on an existing name resets the queue in use; `api_reference.md:30` says "Create if not exists." |
| `Lifecycle_recover.cfg` | `RecoverHeals` | a forced recovery of an object whose creator died returns `NABD_OK` and leaves an object `nabd_open` refuses; `persistence.h:94` says "NABD_OK on success" |
| `Checkpoint_cleaned.cfg` | `ReadsPosition` | a checkpoint older than the released slots is restored, and other messages are read in the place of those asked for; `persistence.c:256` says "Restore to checkpoint position" |
| `Checkpoint_flush.cfg` | `SaveReported` | the record reaches the file in `fclose`, whose failure goes unnoticed; `persistence.h:105` says "NABD_OK on success" |

Bounds. Two slots give an empty, a half-full and a full buffer and let one slot
be rewritten while the other is read; counters modulo 4 wrap after every second
lap, and a distance of `Capacity` is still told apart from 0. Two contents
suffice to see a message altered, lost, doubled or swapped with its neighbour;
lengths 0, 1 and 2 are an empty payload, the largest that fits and one that is
too big. In `Ring_truncation.cfg` the largest payload is `LenMod`, the first length
that does not fit the field. A deadlock is an error in every run.

The retry loops spin once before they sleep and are limited to two retries:
every phase of a loop is entered and repeated. Base delays 0 and 3 are the one
that is replaced and one that is over the cap when doubled; in
`Backpressure_overflow.cfg` the base delay is `INT_MAX`, here 7. `backpressure_live`
has one slot, so that every push has to wait for the pop before it. The
observers' runs have messages without content, since only counters matter
there; `Percent` is 2 in place of 100, which tells an empty, a half-full and a
full queue apart, and the monitor's runs have counters modulo 16, so that
neither counterexample involves a wrap of `head` or `tail`.

Two members and two entries are the least at which members race for an entry and
a scan can pass one group and miss another. `groups_log` has one slot and two
messages: the second reuses the slot of the first and has to wait for every group and
for the cleaner. Its safety properties are also checked with two slots and four
messages (`Groups_large.cfg`, where the members are symmetric) and proved for all
sizes. The lifecycle has a producer, a consumer and a third process that diagnoses
and recovers, and two objects, so that the name can be bound anew while the first is
still in use; a queue has one slot of two units, so that one message fills it, the
next has to wait for a pop, and a swapped capacity and slot size would show.
`checkpoint_resume` has one member, since careful members do not share groups, a
table of two entries, so that a resume finds one free, then none, and three messages
through two slots. Words have seven bits, enough for three of the shifts; the others
act on bits a word of that width does not have. There a second has 20 units of time, so that `Second` times the moves between two snapshots may exceed
a word; what `RateAcrossWrap` says of messages per second is about those that do not.

Fairness. `FairSpec` of `Backpressure` assumes that the producer's thread is
scheduled again and again (weak fairness of `ProducerStep`), that the clock advances
past any deadline (`deadline_passes`), and that a thread which keeps loading a
counter at some time loads its newest value (strong fairness of `FreshTail`): C11
7.17.3 asks implementations to make atomic stores visible in a reasonable amount of
time. The same for a consumer that polls without end, as
`examples/simple_consumer.c` does, is a hypothesis (`FairConsumer`) of
`AlwaysReturns` and `AllConsumed`; `BoundedReturns` does without it.

`FairSpec` of `Groups` assumes weak fairness of each thread: of the producer, of
every member (it goes on with a creation it has begun and polls its group) and of
the cleaner. Two assumptions are strong. A member that polls again and again at some
time brings a buffer that the message fits (`pop_copy` rather than `pop_toobig`). The
cleaner, which may start a scan only while no group is being created, at some time
does (`StartsScan`), although members may begin one creation after the other. In
`Progress` a member must already have a group: without one `nabd_min_tail` returns
the tail itself and nothing is ever released. And no group may be `Abandoned`: closing
a consumer or dying leaves its entry active, and its tail holds the cleaner back for
good.

No fairness is assumed of callers starting calls, except for polling.

## 4. Proofs

For every `Capacity >= 1`, every `IndexMod` that is a larger multiple of it
(powers of two in the code), every width of the length field, every payload
size and every set of contents (the `ASSUME`s of `Ring`):

| Theorem | Statement |
|---|---|
| `Invariant` | `Spec => []IInv` |
| `TypeCorrect`, `Chain`, `RaceFree` | `Spec => []TypeOK`, `[]CursorChain`, `[]NoDataRace` |
| `PeekSafe` | `Spec => PeekStable` |
| `Refinement` | `MaxPayload < LenMod => (Spec => IsFifo)` |
| `ObsInvariant`, `UsedBound` | `ObsSpec => []ObsInv`, `[]UsedBounds` |
| `FillBound` | `ObsSpec => []FillInRange` |
| `MonitoredInvariant` | `MonitoredSpec => []ObsInv` |
| `ObservedFifo` | `MaxPayload < LenMod => (MonitoredSpec => IsFifo)` |
| `RoomPromise`, `ItemPromise` | `ObsSpec => RoomLasts`, `ItemLasts` |
| `BPTypeCorrect`, `PublishesOnce` | `BPSpec => []BPTypeOK`, `[]PublishOnce` |
| `SleepsCapped` | `SmallDelays => (BPSpec => []CappedSleeps)` |
| `RetriesCounted` | `BPSpec => RetriesLimited` |
| `BlockingFifo` | `MaxPayload < LenMod => (BPSpec => IsFifo)` |

For any set of members, any number of entries, slots and messages
(`GroupsAssumption`), and for any set of processes, objects and geometries
(`LifecycleAssumption`):

| Theorem | Statement |
|---|---|
| `GroupsTypeCorrect`, `OneOwner`, `Retains` | `GroupsSpec => []GroupsTypeOK`, `[]Owned`, `[]Retained` |
| `HandsOutOnce` | `GroupsSpec => HandedOutOnce` |
| `GroupsRefinement` | `GroupsSpec => IsGroupLog` |
| `LifecycleTypeCorrect` | `LifecycleSpec => []LifecycleTypeOK` |
| `HandlesAgree`, `CountersOrdered` | `LifecycleSpec => []HandleGeometry`, `[]CounterOrder` |
| `RecoveryIsSafe` | `LifecycleSpec => HealthyUntouched` |
| `CheckpointInvariant` | `CheckpointSpec /\ []OwnGroups => []CheckpointInv` |
| `ResumesWithoutLoss`, `CheckpointsTrail` | `CheckpointSpec /\ []OwnGroups => []NothingSkipped`, `[]CheckpointBehind` |
| `SoleMemberOwns`, `SoleMemberSafe` | with one member, `CheckpointSpec => []OwnGroups`, `[]NothingSkipped` and `[]CheckpointBehind` |
| `DistinctIdsOwn` | `CheckpointSpec /\ []DistinctIds => []OwnGroups` |
| `DistinctIdsSafe` | `CheckpointSpec /\ []DistinctIds => []NothingSkipped /\ []CheckpointBehind` |

For words of any width from 1 to 64, any default capacity that is a power of two, any
slot sizes and rotation (`ArithAssumption`), any length of a second and any number of
moves up to half of the words (`MetricsAssumption`):

| Theorem | Statement |
|---|---|
| `RoundsUp` | `WordsSpec => []CapacityRounded` |
| `SlotsFit` | `WordsSpec => []SlotsInMapping` |
| `ChecksumSound` | `WordsSpec => []ChecksumDetects` |
| `EveryFieldCounts` | any record and the same with another magic, time stamp, group or position have different checksums |
| `RatesRight` | `WordsSpec => []RateAcrossWrap` |

*The argument.* `CursorChain` orders the six positions the two threads know of:
from `tailSync`, going forward, come `tailSeen`, `tail`, `headSync`, `headSeen`
and `head`, and `head` is at most `Capacity` from where it starts. It is stated
with distances, so the wrap of the counters needs no case of its own. It is not
inductive: that `push_publish` may advance `head` follows from the check two
steps before, which `CallInv` remembers (`Reusable(head)`), together with the
fact that a reservation is of the slot at `head` and a peeked message the one
at `tail`. `SlotInv` says what the slot at `head` holds so far of the message
being sent and what the consumer's buffer holds of the one at `tail`. Their
conjunction with `TypeOK` and `NoDataRace` is `IInv`; `InitInv` and `NextInv`
prove it inductive, action by action.

The one fact about arithmetic that is not linear is `SlotDistinct`: positions
fewer than `Capacity` apart have different slots, also across the wrap, because
`IndexMod` is a multiple of `Capacity`. From it, `WritesElsewhere`: what the
producer writes is the slot of no published message. From this follow
the effect of each step on `Contents`, the abstract queue (unchanged, appended
to, or its head removed) and each step of the code as `Offer`, `Accept`,
`TurnDown`, `Take` or a stutter.

`Refinement` needs `MaxPayload < LenMod`; `Ring_truncation.cfg` shows what happens
without it.

For the observers, `ObsInv` adds to `IInv` that the fill the producer found is at
least the distance from `head` to the newest tail it has loaded, and that the
consumer's is at most the distance from the newest head it has loaded to `tail`.
`SeenAdvances` says that loads only move forward, which keeps both; with
`CursorChain` they give `UsedBounds`. The two promises follow since the next
load is no older than the one the answer came from; that a call has no result
before its check is the last two conjuncts of `CallInv`.

`FillBound` follows from `ObsInv`: the fill a thread found is at most the capacity.
A monitor's steps leave everything but its own variables alone, and a load in one of
the two threads changes only what that thread has seen, which the abstract queue does
not know of: `ObservingStutters` says so, and with `Refinement`'s own step lemma it
gives `ObservedFifo`.

For the retry loops, `BPInv` adds to `IInv` that a thread inside `nabd_push` is in
one of the three places that call it and has published nothing yet, and that when
the push is over it has published a message if and only if it returned `NABD_OK`.
`PublishOnce` alone is not inductive: it does not say what the push that is
running has done. `DelayInv` says that `delay` is positive, can be doubled, and is
capped after the first retry; it needs `SmallDelays`, which
`Backpressure_overflow.cfg` shows to be necessary. `AttemptInv` ties the code's
counter `retries` to the attempts made: equal to them in the loop, one behind while
the result of an attempt is looked at. From it `RetriesLimited`; the counter does not
appear in that property, so it is not inductive. Every step of a blocking push is a
step of `Ring` or leaves the ring alone, hence `BlockingFifo`.

For the groups, `GroupsInv` has three parts beside types and `Owned`. `BufferInv`:
what lies between the control block's `tail` and `head` is in its slots, and
`tail` is behind every group. `CleanerInv`: the minimum so far is behind every
group whose entry the scan has passed, and behind all of them once the cleaner
releases. A group created after the scan starts at a `head` that is ahead of the
minimum; one created during the scan might not, and this is the step at which the
proof needs the callers to be careful. `MemberInv`: what a member has loaded of
its group is still so, since nobody else stores the tail of its entry, which is
where it needs groups that are not shared. `Retained` follows from `BufferInv`,
and each step is a step of `GroupLog` or a stutter.

For the lifecycle, `LifeInv` says how far the creation of an object has come at
each place of its creator (`Stage`), that the creator is alone with it
(`Creation`), that any other object with the magic is complete (`ObjectInv`), that
handles and the calls made with them agree with their object (`Usage`), and what a
call that opens, diagnoses or recovers knows at each place (`Sees`). For
`RecoveryIsSafe` the point is the order of the loads in `nabd_diagnose`: `head` is
loaded first and `tail` only grows, so `pending`, cut at zero, is at most the
capacity, and a queue with its magic is never found corrupted; what is reset is
therefore an object without the magic, and since nobody creates while a recovery
runs, it has none when its tail is stored either.

For the checkpoints neither property is inductive, and `GroupsInv` is of no help: a
resume may set a group back behind the control block's `tail`, where `Retained` does
not hold and other messages lie in the slots. What is true instead is that the member
has consumed everything it cannot find there any more. `Kept` says this of every
position the member may go on at (its file, the record it is saving or resuming from,
its group, what it is reading), and of `tail` and the minimum the cleaner is about to
release up to. That the cleaner does not run ahead of the member is due to a
`Keeper`: a group the member made, perhaps one left behind by a crash, whose position
is not ahead of what it has consumed. An entry is given back only when its handle
cannot be allocated: in a resume that entry is not the only keeper, since the
consumption began in an older one, and a member that starts anew then has no
consumption to go on with (`Live`). So a keeper is in every scan, ahead of it or in
its minimum already. A pop from behind `tail` adds what it read, whatever that is, to
what the member consumed, and moves on by one position, which it had consumed before.
`Place` says where each member is in its calls. `OwnGroups` is needed at one step,
the join of a resume: nothing but the id tells the member that the entry is its own.
With one member there is nobody else it could belong to (`SoleOwner`).

With several members and `DistinctIds`, what has to be shown is that the id a resume
joins by is that of a group its member made. `NamesInv` says so of the file, of the
record being saved or resumed from, and of the join. It is kept because such a group
is `Firm`: its member has finished creating it, so it is never given back, and no
other member stores to its entry. When a join then finds an entry of that id, the
entry belongs to a member, and were it another one, two members would have groups of
one id (`JoinsOwn`).

For words, two facts carry the proofs. A word that is not zero has a highest bit
(`TopBit`, from the well-foundedness of `<`), which makes `Less` a linear order, and
`Value` increasing and therefore one to one. And after each shift of the cascade the
bits below the highest one are set twice as far down as before (`Smears`, with the
distance `Reach`), so that six shifts fill words of up to 64 bits (`Filled`); adding
one leaves the single bit above, which is the least power of two that is not below
the word (`NextPower`, `AboveTop`). This is `RoundsUp`.

`SlotsFit` has to connect bits with numbers without induction on the width.
`ValueOfParts` does it by counting: the words less than `x` are, up to a bijection,
those less than its upper bits alone and those less than its lower bits, so `Value`
adds up over the two parts, and the value of the upper part is a multiple of the
power at which they are cut (`ValueOfUpper`). Hence `MaskIsRemainder`:
`p & (capacity - 1)` is `p % capacity`. This is what entitles `Ring` to write the slot
of a position as a remainder.

For `ChecksumSound`, a rotation moves every bit to a place of its own (`RotationKeeps`),
and `^` with one operand fixed is one to one (`XorKeeps`).

For `RatesRight`, each counter of the second snapshot is one wrap away from that of
the first at most, so the two unsigned differences add up to the moves made or miss
them by a multiple of `Words` (`MovesCounted`). The rate is therefore a function of the
moves and the time (`RateOf`), wherever the counters are.

Only model-checked: liveness (`BoundedReturns`, `AlwaysReturns`, `AllConsumed`,
`Progress`), which is outside the prover's reach, and the violations. Every safety
invariant, action property and refinement that a passing run checks is proved.

## 5. Not modelled

- `nabd_consumer_stats` reports the loads of one counter and one entry, cut at
  zero, and changes nothing. `nabd_is_pressured` compares `nabd_fill_level` with an
  argument. `nabd_set_backpressure` checks its argument and stores nothing.
  `nabd_last_activity` returns the current time. None has state to model.
- `nabd_strerror`, and the functions of `metrics.c` that print metrics as text or
  JSON: tables and formatting, about which no property is stated.
- Null-pointer arguments, which return an error before anything happens.
- `nabd_commit` with a length beyond the slot: `nabd.h:110` asks callers not to,
  and the code does not check.
- Stale loads in `Groups`, `Lifecycle` and `Checkpoint`, whose questions are about
  the order of steps. What `Ring` shows of acquire loads and release stores between
  two threads does not carry over to `nabd_min_tail`: its loads of `active` and of the
  groups' tails (`nabd.c:746-747`) are relaxed, and the cleaner hands the result on to
  the producer with a release store. An old tail only makes the minimum smaller, but no
  acquire load pairs with the release store of a member's tail, so that C11 does not
  order the member's reads of a slot before the producer's next write to it; and an old
  `active` may hide a group that was created before the scan. The theorems on `Groups`
  and `Checkpoint` are about executions in which all threads see one order of the steps.
- Stores of plain fields out of order. The stores of `nabd_open` to the control block are plain, so that a compiler
  might reorder them: `RacingSpec` has program order, in which the violations occur
  already, and in `LifecycleSpec` nobody looks before they are done.
- Several queues: a checkpoint of an earlier queue under the same name is not told
  apart from one of the present queue by the code.
- The bindings (Go, Python, Rust), examples and the benchmark: wrappers of single
  calls and loops over push and pop, without shared state of their own.

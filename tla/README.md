# Verification of the optimal-execution platform

TLA+ models of the platform's hot path and of the telemetry path behind it: a
limit order book on a slab allocator, a publisher that turns book callbacks into
events, a lock-free ring, and a relay thread that hands the events to a ticker
plant; of the execution strategies that send orders into it; and of the process
that supervises training. TLC checks every model on small instances; TLAPS proves
the safety properties of all of them for every value of
their parameters: the ring, the id index and the order book implement their abstract specifications,
the relay loses nothing, the driver and the learning environment keep their books, the
strategies their accounts, the supervisor its promises.

## 1. Inventory

| Component | State | Operations | Hard part |
|---|---|---|---|
| `core::SpscRing` (`cpp/core/spsc_ring.hpp`) | `write_idx_`, `read_idx_`, `dropped_messages_`, `storage_` | `TryPush`, `TryPop`, `size_approx` | two threads, no locks; stale index reads; index wrap; full ring |
| `external::EventRelay` (`cpp/external/event_relay.hpp`) | `running_`, `stop_requested_`, `thread_`, `processed_` | `Start`, `Stop`, `Run` | stop flag against in-flight pushes; restart; termination |
| `external::IpcKdbLogger` (`cpp/external/ipc_kdb_logger.cpp`) | `handle_`, eight column batches | `Connect`, `Disconnect`, `Log`, `Flush` | connects and sends fail; nothing may be lost or sent twice |
| `core::OrderBook` (`cpp/core/order_book.hpp`) | two price ladders of intrusive lists, touch and level counters | `AddLimit`, `Cancel` | incremental touch; relinking; blocks freed in the matching loop |
| its id index | open-addressing table | `InsertId`, `LookupAndEraseId` | back-shift deletion in clusters that wrap; unbounded probe loop |
| `core::SlabAllocator` (`cpp/core/slab_allocator.hpp`) | `free_head_`, `in_use_`, links inside the blocks | `Allocate`, `Deallocate` | the free-list link overlays client data |
| `exec::TelemetryPublisher` (`cpp/exec/telemetry_publisher.hpp`) | `seq_` | `AddLimit`, `Cancel` | events must suffice to rebuild the book |
| `sim_runner` (`cpp/main/sim_runner.cpp`) | vector of open ids | the driver loop | vector holds dead ids; slab near its limit |
| `SimEnv` (`cpp/bindings/py_module.cpp`) | episode counters, liquidity FIFO | `Reset`, `Step` | child residuals that rest; terminal sweep; two sequence counters |
| strategies (`cpp/exec/strategy.hpp`, `vwap.cpp`, `almgren_chriss.cpp`, `rl_policy.cpp`) | `child_qty_`, `remaining_`, `current_step_` | the constructors, `ComputeNextAction`, `SubmitStep` | rounding, unsigned subtraction, overflow and NaN; the children must add up to the parent |
| supervisor (`python/train/supervisor.py`, with the trainer `train_sac.py`) | memory window, best reward, plateau counter, exit code; the trainer process | the polling loop, `_terminate`, the interrupt handler | two processes, signals at any time, a hung trainer, stale files; exit codes |

Interaction: `sim_runner` (or `SimEnv`) calls the publisher, which calls the book
and, from the book's callbacks, `TryPush`. The relay thread calls `TryPop` and
`Log`. The thread that owns the relay calls `Start`, `Stop` and then `Flush`.
Only the ring and the relay's flags are shared between threads. A strategy is called
by a driver and calls a publisher. The supervisor shares signals, an exit status and
event files with the trainer, and nothing with the rest.

What makes each part correct is listed with its run in section 3; every hazard
is listed at its source line in `PROJECT.json`, with the properties that cover it.

## 2. Modules

| Module | Models | Uses |
|---|---|---|
| `LossyQueue` | what the ring promises: a bounded FIFO that drops the newest, with lagging views | |
| `SpscRing` | the ring, one step per shared access | refines `LossyQueue` |
| `SpscRingProofs` | theorems about the ring | `SpscRing` |
| `IpcKdbLogger` | the batching logger; the KDB client is external | |
| `EventRelay` | producer, caller, relay threads | `LossyQueue`, `IpcKdbLogger` |
| `EventRelayProofs` | theorems about the relay | `EventRelay` |
| `IdMap`, `IdIndex` | the id index's promise, and the table probe by probe | `IdIndex` refines `IdMap` |
| `IdIndexProofs` | theorems about the id index | `IdIndex` |
| `SlabAllocator` | the intrusive free list | |
| `BookSpec` | price-time priority over a set of orders | |
| `OrderBook` | ladders, lists, touch, blocks | `SlabAllocator`; refines `BookSpec` |
| `OrderBookProofs` | theorems about the book and the slab under it | `OrderBook` |
| `TelemetryPublisher` | fills, acks and cancels as events | `BookSpec` |
| `SimRunner` | the driver loop | `TelemetryPublisher` |
| `SimRunnerProofs` | theorems about the driver loop, the publisher and the book under it | `SimRunner` |
| `SimEnv` | the episode a learning agent steps through: `Reset` and `Step` | `TelemetryPublisher` |
| `SimEnvProofs` | theorems about the episode | `SimEnv` |
| `Strategy` | VWAP, Almgren-Chriss and RL tables, slice by slice, and their submission | |
| `StrategyProofs` | theorems about the strategies | `Strategy` |
| `Supervisor` | `main()` of the supervisor and the trainer process | |
| `SupervisorProofs` | theorems about the supervisor | `Supervisor` |

The composition is layered: a client of a component is modelled over the
component's abstract specification, and the component is shown to implement that
specification (`EventRelay` over `LossyQueue`, `SimRunner` and `SimEnv` over `BookSpec`,
`OrderBook` over the map that `IdIndex` implements).

Conventions. Variables and actions carry the names of the members and functions
they model. `pc`-like variables say where in a function a thread is. An operator
defined right before another and named after it with a fault (`FullOffByOne`
before `Full`) is a wrong version of it; no action uses it, and for each property
one of them is known to break that property.

Correspondence worth knowing:

- **Memory order.** A thread reads its own index exactly. An acquire-load of the
  other index returns any value between the last one seen and the current one.
  The payload access sits before the release-store that publishes it, so the order
  of steps is the order another thread can observe. `NoDataRace` says that the
  plain copies into and out of `storage_` never meet in one slot, which is the
  condition under which this reading of the C++ memory model is justified.
- **Machine words.** `size_t` wraps at `Word`; the proofs need only that `Capacity`
  divides `Word` and fits in it twice, true of the `static_assert`ed powers of two.
- **Stop.** `SyncWithStop` is the happens-before edge of the flag: a relay that
  reads it as true sees every push that preceded the store.
- **Slab blocks.** The first word of a block is the order's id while it rests and
  the free-list link once freed, as in the code; the model would show a stale
  block as a corrupted list.
- **The hash** of the id index is chosen freely in `Init`, so no property depends
  on `MixId`.
- **The action** of `SimEnv::Step` and the random flow are free choices, a NaN action
  included. A child is all of `remaining_` at the horizon, before it the float product of
  lines 291-292: any size up to `remaining_`; above `FloatExact` (2^24), where the conversion
  rounds, up to half a float spacing more; and for a NaN, which `std::clamp` passes, what the
  cast makes of it (0, half the word or its last value). So a child can be larger than
  `remaining_`, and the clamp of line 366 matters. It goes to the best bid or the best
  ask. The child's fill observer emits what the publisher would, from another
  sequence counter, so it is the publisher's `AddLimit` here; a child's fills are
  accounted when its call returns. A `Step` after `done` changes nothing. `BookSpec`'s
  quantities have no width: that the `total_qty` of a level wraps once two children of half the
  word rest in it is not modelled (matching and the environment never read it).
- **Doubles** of the strategies are fractions in `Unit`s; `llround(Q * c)` is any
  integer within one half plus `Ulp` of the exact product. `Ulp = 1` stands for a parent
  above 2^53, which its conversion to double already moves. `NaN` is a value of its
  own: it passes every clamp, as in the code, and `llround` of it is what x86 (half the
  unsigned range) or ARM (0) makes of it. The Almgren-Chriss quotient is exact in the
  TWAP limit, any non-increasing curve below it otherwise (`sinh` is convex), and `NaN` then
  0 once `sinh(kappa T)` overflows. The actor's output is any fraction or `NaN`.
- **Submission** follows the step order, each `AddLimit` may refuse. A forward pass that
  throws changes nothing and is no action.
- **The supervisor's clock** is only read as the age of a memory sample, so samples carry
  ages. A poll cycle takes any of a few durations: the sleep plus the work of the poll.
  Where `main()` leaves the loop its locals are reset (`Forget`): only the status file reads
  them again. Once `main()` has raised, the trainer it leaves behind is not followed.
- **The trainer** has default signal dispositions until its model exists, then
  `_save_on_signal`, which a signal during any save enters inside it. Its exit then unwinds the
  outer save, which may close its archive over the inner one's file: such a save ends "whole" or
  "overlapped", with exit status 0 either way, and no property vouches for an overlapped file.
  `learn()` opens the event file after the handlers are installed (`Learn`). The trainer may crash or stop making progress
  in any phase. `saved` says what its last save left on disk. The copy of a
  terminal's `SIGINT` that the trainer gets by itself is merged with the forwarded one.
- **`shadow`, `stack`, `accepted`, `due`, `live`, `children`, `sold`, `oversized`, `elapsed`, `best_from`** and
  the `accepted`/`refused` totals of `Strategy` are history variables; no
  action's effect on the modelled state reads them, except that `due` bounds what
  a synchronised relay sees, `live` states the caller's precondition, and `stack` that of a
  client of the slab on its own (the book's calls are not restricted by it).
- **The KDB client.** `tape` is the rows of the frames for which `k()` reported no error.
  `SendBatchLocked` takes every null return of the asynchronous call as a success; a frame lost
  after that, with the socket, is outside the model, and `TapeIsAccepted` does not speak of it.

## 3. Runs

| Run | Bounds | Shows |
|---|---|---|
| `spsc_ring` | 2 slots, 8 index values, 3 payloads | `ViewsOrdered`, `NoDataRace`, `SizeApproxBounds`; the ring implements `LossyQueue` |
| `event_relay` | 2 slots, 4 events, 2 relay threads | `SingleConsumer`, `TapeIsAccepted`, `ProcessedIsLogged`, `GapsAreDrops`, `StopDrains`, `StopReturns`, `EventuallyLogged` |
| `id_index` | 8 slots, 4 ids, homes 6, 7 and 0 | `OneSlotPerId`, `NoOrphans`, `CallsReturn`; the table implements `IdMap` |
| `order_book` | 3 blocks, 3 ladder prices and one outside, sizes 1 and 2, 4 orders | `LevelsExact`, `TouchExact`, `BlocksPartitioned`, `NotCrossed`; the book implements `BookSpec` |
| `sim_runner` | 4 orders at once, headroom 1, 5 orders in all | `NeverRejected`, `OpenTracked`, `ShadowExact`, `EvictionMakesRoom` |
| `sim_env` | parent of 2, floats exact up to 1, words of 8, 4 steps of 2 background orders living 2 steps, 6 orders at once | `EpisodeStartsEmpty`, `Conserved`, `DepthBounded`, `TradesAreOurs` |
| `strategy` | parents up to 4, 3 steps, weights 0, 1/6, 1/3, 5/6, error up to one unit, words of 16 | `SentPlusRemaining`, `ErrorsDoNotAccumulate`, no subtraction wraps (`TypeOK`) |
| `supervisor` | window 5, cycles of 2 and 3, patience 2, 3 evaluations, 2 rewards, an earlier run's file or none | `EvalCountedOnce`, `LeakVerdictSound`, `ReturnIsTruthful`, `StopEnds` |
| `inventory_left` | as `sim_env` | violated: the observation's "normalised inventory left" |
| `leak_undetected` | as `supervisor` | violated: growth across the window is "a leak ... kill" |
| `stale_best` | as `supervisor` | violated: stopped for not improving "over its previous best" |
| `urgent_front_loaded` | parents up to 6, exact rounding | violated: the urgent schedule has "worked more of the parent than" TWAP at mid-point |

Why the bounds are enough. The ring's indices wrap its word while the ring fills
and drains, and two slots tell "same slot" from "next slot"; the proofs remove
the bound. Four events overflow a two-slot ring with one event already in the
relay's hands, and two relay threads give one restart. Four ids with three
adjacent homes across the wrap give every shape of cluster in which an entry may or
may not move into a hole: the version of the deletion that the source describes
as the earlier bug fails here. Four orders on three blocks give levels of two and
three orders, cancels at the head, middle and tail, a slab that runs out in mid-fill and blocks
that are reused. `SimRunner` needs five orders to fill the book, evict and add
again; its headroom is 1 where the code has 4. `SimEnv` needs an episode longer than the
lifetime of an order, so that expiry runs, resets at every point between two steps, and
room for the liquidity of two bursts besides resting children, so that the eviction guard fires
without hiding expiry; a parent of 2 with floats exact up to 1 gives a first child that may be one too
large, and words of 8 NaN children of 4 and 7, so that the parent is overfilled. `Strategy`'s weights sum to less than, exactly and more than one, and
three steps are a first, a middle and a last slice; its theorems remove the bounds. `Supervisor`'s
cycles of 2 and 3 fill a window of 5 exactly or jump over its edge; patience 2 with three
evaluations needs the counter to be reset and to run out, and an earlier run's last step may or may
not equal one of this trainer's.

Fairness. `EventRelay`: a live thread keeps running, a join that can return
returns, a store becomes visible in finite time; nothing is assumed of the
producer or the caller. The producer emits at most `MaxEvents` events:
`StopReturns` depends on it, because the final drain of `Run` ends only on an
empty ring. `IdIndex`: a call that began runs on. `SimRunner`: the loop runs on. `Supervisor`: `main()` runs on and a `SIGKILL` takes effect;
nothing is assumed of the trainer.

The four violated runs are defects, each quoted under `findings`.

- `inventory_left`: a child's residual that rests can be hit by a later background order;
  that fill reaches the tape but not `remaining_`, so the same units are offered again.
  `Conserved` holds all along: the counters agree with each other, not with the book. The property
  is said only of episodes without an oversized child, so that overfilling plays no part in it.
- `leak_undetected`: the window drops samples older than ten minutes and then asks whether
  its oldest is at least ten minutes old, by the same clock reading; only a sample of
  exactly that age lets it judge. `LeakVerdictSound` is the half that holds: a verdict is
  never premature.
- `stale_best`: until the trainer opens its event file, the newest one is an earlier
  run's, and its last reward becomes `best_reward`.
- `urgent_front_loaded`: above kappa T = 710 the schedule keeps everything until the
  numerator stops overflowing. The parent is still sold (`SentPlusRemaining`), but late.

More texts differ from the code and have no run:

- `docs/architecture.md:78` says a full ring "overwrites its oldest telemetry"; `TryPush` drops
  the newest, as `LossyQueue` has it.
- `relay_test.cpp:9` says a push landing during `Stop` "is still logged"; one that follows the
  final empty `TryPop` stays in the ring. The header asks callers to stop producing before
  `Stop`, which `sim_runner` does; `StopDrains` is the guarantee that holds.
- `kdb_logger.hpp:55` says the sequence "lets the tape detect a drop"; drops before the first or after
  the last logged row leave no hole. `GapsAreDrops` is what holds.
- `py_module.cpp:266` says the eviction guard never lets an add fail; it evicts one id that may be
  dead and does not cover the child order (at a capacity of 8192 this takes thousands of steps).
- `event_relay.hpp:13` and `sim_runner.cpp:231` say that `Stop` flushes; `Run` deliberately leaves the
  flush to the caller.
- `slab_allocator.hpp:49` says blocks are handed out in ascending order; its loop leaves the
  highest at the head.
- `strategy.hpp:53` says `SubmitStep` returns "false only on slab exhaustion"; a residual outside the
  price band is refused too.
- `supervisor.py:11` says the process tree is killed, and `:15` gives a patience of 10; the signals go to
  the trainer alone, and `_PLATEAU_PATIENCE` is 50.

## 4. Proofs

`SpscRingProofs` proves, from `RingAssumption` alone, `Spec => []Inv` and from it
`ViewsOrdered`, `NoDataRace`, `SizeApproxBounds` and
`Spec => Abstract!Spec` (the ring implements `LossyQueue`).

The argument. `ViewsOrdered` places four points on the circle of index values in
the order: the producer's view of `read_idx`, `read_idx`, the consumer's view of
`write_idx`, `write_idx`, spanning at most `Capacity`. Lemmas on `WrapAdd` and
`WrapDiff` show that moving one point by one step moves each distance by one.
The invariant is not inductive as it stands: a push is safe because the producer
checked its view earlier. `Inv` adds what each thread knows between its steps: a
producer past the check has seen a free slot, a consumer past the check has seen
a published one, and a slot written or copied keeps its value until the index store
that hands it over. Two indices less than `Capacity` apart lie in different slots
(this uses that `Capacity` divides `Word`), which gives `NoDataRace` and that a
push appends to, and a pop removes from, the sequence `Contents` and changes nothing else of it.

`StrategyProofs` proves, from `StrategyAssumption`, `Spec => []Inv` and from it `TypeOK`,
`SentPlusRemaining` and `ErrorsDoNotAccumulate` of the strategies. `SentPlusRemaining` alone is not inductive: it speaks
of one entry of `remaining` while later entries are still being filled. `Chained` relates each
pair of neighbours to the child between them and says that entries to come are 0, which the
Almgren-Chriss close-out relies on; `Agrees` ties `sent` and `prev` to the table. One
lemma covers every filling of an entry (`FillKeepsTables`): whichever strategy computes it, a child of at most
what is left, and of all of it on the last step, keeps the invariant; each action is then shown
to compute such a child. Of `llround` the proof needs only that its result is unsigned, so it
holds for any rounding, overflow or NaN. `ErrorsDoNotAccumulate` needs the curve: VWAP's cumulative weights ascend and the
Almgren-Chriss fractions descend (`Curve`, `TwapFalls`), so a target clamped to what was sent, or a remainder clamped to
what remained, lies between two values that are each within one rounding (`ClampedUp`, `ClampedDown`).

`IdIndexProofs` proves `TypeOK`, `OneSlotPerId`, `NoOrphans` and the refinement of `IdMap` for every
table of at least two slots, every set of ids and every hash. `NoOrphans` (no empty slot between an entry and
its home) is stated on the circle of slots, through the distance an entry is from its home. In mid-deletion it holds but
for the hole, and the scan needs to know that every slot it has passed is occupied and that no entry it has passed
wants the hole: that is `Probed`, the rest of `Inv`. `ShiftMove` is the step that matters: the entry
that moves into the hole keeps its home reachable, and the slot it leaves is the new hole.

`OrderBookProofs` proves every safety property of the order book (`TypeOK`, `LevelsExact`, `BlocksPartitioned`, `TouchExact`, `NotCrossed`)
and that it implements `BookSpec`, for every capacity, band, order size and number of orders. `Inv` never follows a list: `Lists` relates each block to its two
neighbours and its level (`WellLinked`) and each level to its ends (`WellEnded`). Two lemmas carry every change of a list:
`BypassedLists` (a block taken out, by `Cancel` or by a whole fill) and `AppendedLists` (`Rest`). What holds of a whole level is
a least counterexample: the linked block with the smallest id of its price has no predecessor, so it is the head (`HeadIsFirst`), hence a
level with an order in it is populated, a taker that does not cross the touch crosses nothing (`NoMakers`), and the order filled is the one
price-time priority names (`BestMakerIs`). `Counted` adds the level being drained to the populated ones, since
`MarkLevelEmptied` runs a step after the list is empty. `Threaded` is the free list as a sequence; `ThreadedPop`, `ThreadedPush` and
`ThreadedWrite` are `Allocate`, `Deallocate` and a write of the client into its own block. Filling and resting map to steps of `BookSpec`,
the slab calls to stuttering.

The aggregates of a level do not follow from neighbours. `Aggregates` says that each level has a `Line`: a numbering of its blocks along `next`
and the running totals of their quantities, the last of which is `total_qty`. A cancel or a whole fill cuts the numbering
in one place (`LineCut`), a rest extends it (`LineGrow`), a part fill lowers every total by the same amount
(`LineShrink`); ids ascend along it, so it repeats no block (`LineAscends`), and it leaves none of the level out (`LineCovers`). `TypeOK`
then says that the code's unsigned subtractions never pass zero: `total_qty` is a sum of quantities,
`live_*_levels_` a cardinality. For `LevelsExact`, the recursive functions in `Chain` and `SumQty` are shown to be the line and
its totals: those satisfy the defining equation (`PrefixExtends`) and nothing else does, again by a least counterexample.

`EventRelayProofs` proves all five invariants of the relay and the action property `StopDrains`, for every
ring capacity, number of events and number of relay threads, over the abstract queue and a logger whose connects
may fail and whose sends may report an error. `OneThread` says that the thread alive is the one `thread_` holds,
which gives `SingleConsumer`; `FinalPass` that a relay past its stop check has seen every push that
preceded the flag, which gives `StopDrains`; `Counted` places `processed_` within one of the rows; `Spaced` says that
consecutive accepted sequence numbers differ by one plus the drops between them, from which `GapsAreDrops` follows.

`SimRunnerProofs` proves `NeverRejected`, `OpenTracked` and `ShadowExact` for every capacity, headroom and run length.
`Ascending` (ids in the book and the vector are below the one in flight) makes ids distinct, so that a
fill or a cancel applied by id is the one the book made; `RoomKept` carries the guard's check
from the start of an `AddLimit` to its end; `Tracked` holds while an order is matched too, where `OpenTracked` says
nothing.

`SimEnvProofs` proves all five invariants of `SimEnv`. `Tracked` says that every resting order is in `resting_ids` and
every background one in the unexpired part of `bg`, which empties the book before ids restart. `Sided`
keeps the background behind the mid and the children on the sell side, which gives `TradesAreOurs`. `Accounted` bounds a child's
fills by its size, and by what remained unless the child was `oversized`: one that fits moves the two accounts
by the same amount, an oversized one may end at the clamp. `FloatSizesFit` says that up to `FloatExact` only a NaN
makes a child oversized. `DepthBounded` needs `Aged`: since entry i at most `Burst` orders per
finished step and those of this step were sent, and what is not expired is at most `Lifetime` old; then each resting
background order is injected into the unexpired entries.

`SupervisorProofs` proves `ReturnIsTruthful`, `EvalCountedOnce` and `LeakVerdictSound` for every window, patience, cycle
length and trainer. `Ages` orders the samples of the window, `Counting` ties the plateau counter to the last evaluation
counted, `Phases` says which exit statuses and saves each place in `main()` and the trainer allows.

Induction over data is written as a least counterexample (`LeastNat`, from the well-foundedness of `<`), where it is needed at all.

Model-checked only: liveness (`StopReturns`, `EventuallyLogged`, `CallsReturn`, `EvictionMakesRoom`, `StopEnds`: it needs
fairness, outside the prover's reach). Everything else the passing runs check is also proved.

## 5. Not modelled

Left out for good: the TSC clock (no state), CSV and column formatting and the in-memory logger
(data, no failure path), the cockpit and q scripts (presentation), the Gym
adapter and the export script (adapters over libraries), what the trainer does besides
saving and exiting, TorchScript inference (an arbitrary action in `Strategy`), benchmarks, and the vendored KDB
client, which is an environment choice in `IpcKdbLogger`, and frames it loses without an error.

## 6. Plan

Every component with state of its own is modelled, and every invariant, action property and refinement the passing
runs check is proved for all parameters. What could still be added:

1. Liveness beyond the small instances, for which the prover has no rules; the runs stay its only evidence.
2. The step-level facts behind it (a measure that each step lowers) as action properties, which can be proved.

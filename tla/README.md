# shclog: TLA+ models, checks and proofs

shclog is a C++23 library of parts for a logger: lock-free queues from many
producer threads to one consumer, an `io_uring` wrapper that writes what the
consumer collected, and benchmark helpers. This directory models the parts that
keep state, checks the models with TLC, and proves with TLAPS, for every size and
number of threads, the safety properties and refinements of the three queues, the
rings, their resources, the pipeline and the benchmark helpers. Line numbers are those of
the sources this directory was written against; `PROJECT.json` maps every definition to its lines.

## The system

### Inventory

| Part | Source | State | Operations | Modelled by |
|---|---|---|---|---|
| `MPSCQueue`, bounded ring | `mpsc_queue.hpp:23-150` | `count`, `head` (shared atomics), `buffer` of atomic pointers, `tail` (consumer only) | `create`, `enqueue`, `dequeue`, draining destructor | `MPSCQueue` |
| `MPSCQSlotted`, array with sequence numbers | `mpsc_queue.hpp:152-225` | `head`, `tail`, per cell `seq` (atomic) and `data` (plain) | `enqueue` (spins), `dequeue` | `MPSCQSlotted` |
| `UnboundedLinkedMPSCQ`, intrusive list | `mpsc_queue.hpp:227-327` | `head` (atomic), `tail`, `next` in every node, the stub | `enqueue`/`push`, `dequeue`/`pop`, draining destructor | `UnboundedLinkedMPSCQ` |
| `EventedIo`, submission and completion rings | `io/iouring.hpp:101-704` | indices, entries and flags mapped with the kernel | `push_*`, `pop_*`, `submit`, `pop_one` | `EventedIo` |
| `EventedIo`, its resources | `io/iouring.hpp:118-289,538-648` | a descriptor, mappings, the index in the thread's table of rings | `create`, `register_*`, destructor | `RingLifetime` |
| System call wrappers | `io/iouring.cpp`, `io/syscall.*` | none | errno to error value | the failing calls in `EventedIo` and `RingLifetime` |
| Logging pipeline | `test/shclog/io/test_iouring.cpp:397-679` | `producers_finished` (shared), two buffers, `in_flight`, `overflow`, `file_offset` | producers' loop, consumer's loop, final drain | `Pipeline` |
| `Sample` | `bench/sample.hpp` | buffer, `samples_sorted`, `_min`, `_max`, `_total` | `push`, `percentile` (sorts in place), `avg` | `Sample` |
| `UnitRepr` | `bench/report.hpp` | none | `fit`, `biggest_unit_fit`, `fills_unit`, `write` | `UnitRepr` |
| `Time` | `bench/time.hpp` | one time point | start, elapsed | no |
| Descriptors, mappings, files, directories | `io/file.*`, `io/mmap.*`, `io/dir.hpp` | one owned resource each | open, map, close, move; single reads and writes | ownership, in `RingLifetime` |
| CPU topology, affinity, priority | `io/cpu.*`, `io/process.*` | the list being built | `list_cpu_cores`; single system calls | `CpuList` |
| Slices, casts, arithmetic, formatting | `collections/slice.hpp`, `cast.hpp`, `math.hpp`, `fmt.hpp`, `lang.hpp`, ... | none | thin wrappers | `add_with_overflow` in `Sample`, `write_number` and `int_cast` in `UnitRepr` |

How they interact: producers and the consumer share a queue and nothing else;
the consumer and the kernel share the two rings and every buffer under a write;
the pipeline is the only composition of the two, and it ends through one more
shared counter, `producers_finished`. There are no callbacks and no locks.

### What is hard here

- **Queues.** Each operation is several atomic accesses, and another thread may
  stop between any two of them. `MPSCQueue` updates `count`, `head` and the
  slot one after the other; `UnboundedLinkedMPSCQ` breaks its chain between
  the exchange of `head` and the link, and the node it then writes may belong
  to someone else by then; `MPSCQSlotted` guards a plain field with sequence
  numbers compared over several laps.
- **Rings.** The kernel is a second thread. With a submission thread
  (`SQPOLL`) it also sleeps, and must be woken exactly when it does. A call of
  `io_uring_enter` may fail after the entry was published. Completions carry no
  tag.
- **Resources.** `create` takes up to six things from the kernel and may be
  refused each; other threads take and give back numbers meanwhile, and the
  kernel hands out a closed number at once.
- **Pipeline.** The consumer overwrites a buffer as soon as it believes the
  write of it is done; it decides to end from a counter that it reads after the
  dequeue that told it the queue was empty.
- **Bench.** Lazy sorting, sums that overflow, units that change at a boundary,
  a list of CPUs read from files that come and go.

`PROJECT.json` lists the hazards one by one, each at its line, with the
properties that guard against it or the reason why none does.

## Modules

```
MpscChannel            what all three queues promise: a FIFO channel
  ^ refined by  MPSCQueue   UnboundedLinkedMPSCQ   MPSCQSlotted
  ^ used by     Pipeline
MPSCQueueProofs        EXTENDS MPSCQueue
UnboundedLinkedProofs  EXTENDS UnboundedLinkedMPSCQ
MPSCQSlottedProofs     EXTENDS MPSCQSlotted
EventedIo              <- MCEventedIo (rings and symmetry for TLC)
  EventedIoProofs      EXTENDS EventedIo
RingLifetime           <- MCRingLifetime (objects, threads, symmetry)
  RingLifetimeProofs   EXTENDS RingLifetime
Pipeline               <- PipelineProofs
Sample, UnitRepr, CpuList  <- MCBench (values; a behaviour samples or lists)
  SampleProofs         EXTENDS Sample
  BenchProofs          EXTENDS MCBench, SampleProofs
```

`A <- B` means that B extends A. Modules named `...Proofs` hold theorems, their lemmas and the definitions of the inductive invariants, and
nothing of the model.

**MpscChannel** (abstract). A channel is a sequence of places. `Claim` appends
one, `Publish` puts the item into it, `Take` removes the first place once it is
published. An enqueue is a claim and then a publication; a call that returns
`false` or `nullptr` is a stuttering step. That no item is lost, duplicated or
overtaken is the shape of this module; that the queues *implement* it is checked.

**MPSCQueue.** One action per atomic access of `enqueue`: `EnqCheck` (the load
of `count`), `EnqAdd` (`fetch_add`), `EnqBackOff` (`fetch_sub` when it was
full), `EnqTicket` (`head.fetch_add`), `EnqStore` (the exchange of the slot);
of `dequeue`: `DeqTake` (exchange and the step of `tail`), `DeqRelease`
(`fetch_sub`). `Destroy` and `DrainEnd` are the destructor, which runs when no
producer is inside a call. `h[p]`, `pc[p]` are a call's local state. `taken`,
`sent`, `got` are history.
`chanBar` maps tickets outstanding to places.

**UnboundedLinkedMPSCQ.** One action per atomic access of `push` (`PushClear`,
`PushSwap`, `PushLink`) and of `pop` (`PopLoad`, `PopReload`, `PopHead`, the
consumer's own push of the stub, `PopRecheck`). Nodes that were handed out are
in `free` and may be enqueued again, so a late write to one shows.

**MPSCQSlotted.** `EnqClaim` draws a position, `EnqSpin` waits for the cell's
sequence number, `EnqWrite` is the plain store and `EnqPublish` the release
store; `DeqLoad`, `DeqRead`, `DeqAdvance` likewise. Positions wrap at `W`.

**EventedIo.** The application thread's `push_*` is `PushSlot`, `PushFill`,
`PushPublish`, `PushFlags` and then one call of `io_uring_enter` (`PushWake`,
`PushEnter` or `PushFails`); `pop_*` is `PopCall`, `PopWait` (or `PopFails`),
`PopReap` (with its `RingEmpty`, which a single consumer does not meet). The
kernel is external: it takes entries (`Consume`), completes
them in any order (`Complete`), keeps completions that found no room
(`FlushOverflow`), and as a submission thread takes, announces that it will
sleep, looks again and sleeps (`PollTake`, `PollArm`, `PollRecheck`).
`seenTail` is `sq_tail` as that thread sees it: `submit` stores `sq_tail` with
release order and then loads `*sq_flags` plainly, which does not keep the load
from overtaking the store. `ring` is the object's constant members: one run
covers rings of both modes and several capacities.

**RingLifetime.** One action per system call of `create` (`Setup`, `MapSq`,
`MapCq` unless the kernel maps both rings at once, `MapSqes`, `New`,
`RegisterRing` or `RegisterRingFails`), of the registrations and of
`~EventedIo` (`UnregisterBuffers`, `UnregisterFiles`, `UnregisterRing`, then
`DestroyMember` once per member). `local[o]` is what `create`'s local variables
own, `object[o]` what the members own; `New` moves one into the other. A failed
step (`CreateFails`) and the return both destroy the locals one by one
(`Unwind`). The kernel's tables are `files`, `maps`, `registered_rings` and
`resources`. A temporary file (`TmpFile`, `CloseTmp`) uses the same descriptor
numbers.

**CpuList.** `OpenFile` or `OpenFails`, then `ReadFile` or `ReadFails`, for one
CPU after the other, with `Hotplug` in between. `Parse` is the parser as a
recursive function on the place it has reached (`ItemAt` is one turn of its loop,
`Ending` the check behind it); a content is a sequence of numbers and separators.
`KernelTexts` is what the kernel writes of the CPUs from one on.

**Pipeline.** The producers' loop and the consumer's loop of the integration
test over an `MpscChannel` and a ring, one action per place at which another
thread can act. `dequeue` returns `nullptr` only if the channel was empty or an
enqueue was between claim and publication during the call, which is what
`NullMeansEmptyOrRacing` establishes of the linked queue.

**Sample**, **UnitRepr.** `Push` and the sorting that `percentile` leaves
behind are actions; what is returned is an operator. `Reduce` is `std::reduce`
as libstdc++ has it. `UnitRepr` is a pure algorithm: `Fit`, and the length of
what `Write` writes. The template's type T is a parameter, a record of its least
and greatest values: `Fit` divides by the ratio as `int_cast<T>` gives it
(`IntCast`), which is the ratio itself unless it is no value of T.

A definition named `X_Reason`, just before `X`, is `X` with a plausible bug in
it; with it in the place of `X`, TLC finds a property violated, which shows that
the property depends on that line of the code.

## What TLC checks

| Run | Module, cfg | Question | Size |
|---|---|---|---|
| `mpsc_queue` | `MPSCQueue` | accounts of `count`, tickets and slots; FIFO; nothing lost; the drain; progress of retrying callers | 3 producers, capacity 2, 2 items each |
| `linked_queue` | `UnboundedLinkedMPSCQ` | chain, use after free, leaks, FIFO, delivery | 2 producers, 3 reusable nodes |
| `slotted_queue` | `MPSCQSlotted` | plain accesses never meet, sequence numbers, FIFO, no deadlock, delivery | 2 producers, 2 cells, 4 items, wrap at 8 |
| `ring` | `MCEventedIo`, `Ring.cfg` | no request lost, what failed pushes leave, which completion a pop gets | 1 or 2 entries (2 or 4 completions), with and without submission thread, 3 requests, wrap at 8, 2 failures, symmetric requests |
| `ring_lifetime` | `MCRingLifetime`, `RingLifetime.cfg` | nothing leaks, no descriptor is closed by another, every object enters its own ring | 2 threads with 2 and 1 objects, 3 descriptors, a table of 2 rings, symmetric objects |
| `pipeline` | `Pipeline`, `Pipeline_all.cfg` | buffers stable under writes, every line once and in order, the file has no hole, it ends | 2 producers, 2 lines each, buffers of 3 |
| `bench` | `MCBench`, `Bench.cfg` | percentiles, summaries, mean, and their display; the list of cores | 4 samples out of 10 boundary values of `i16`; 4 or 6 CPUs, 2 hotplugs, contents of 5 tokens |
| `ring_lostwake`, `ring_destructor`, `pipeline_lines`, `sample_avg`, `report_cast` | | the findings below | |

The properties that carry most:

- `ImplementsChannel` for each queue (a refinement: FIFO, no loss, no
  duplication). `CountAccounts` says exactly by how much `count` is off at
  any moment; `NoOverwrite` is the assertion at line 121.
- `NullMeansPending`, `NullMeansEmptyOrRacing`: a `nullptr` is never wrong
  except about an enqueue in progress.
- `NoUseAfterFree`, `ChainIntact`: the linked queue touches no node it has
  handed out, and the chain is whole up to gaps that someone will close.
- `NoDataRace`, `CellsInStep`: the sequence numbers keep the plain accesses
  apart and mean the right position, over wraps.
- `NoRequestLost`, `StrandedStay`: where every request is, and what failing
  pushes leave behind.
- `NothingLeaks`, `DescriptorsAreOwn`, `EnterReachesRing`: whichever step of
  `create` fails and however threads interleave, what the kernel gave out is
  owned exactly once, and an index or descriptor an object holds means its ring.
- `ReportIsRight`: what is shown is the value, for the mean as a C and for the
  others as a T, no cast on the way is out of range, and the text fits.
- `ListIsRight`: the parser inverts what the kernel writes, and leaves what was
  read only if that ends in a number. While CPUs come and go a core may be listed
  with different first siblings, to which the benchmark pins different threads:
  with at most one more for each CPU that came or went.
- `BufferStable`, `OneInFlight`: the pipeline's pops, which take *any*
  completion, are right about whose it is, so no buffer changes under a write.
- `EverythingDelivered`, `EveryItemDelivered`, `Ends`: liveness. `PopReturns`
  is violated with a submission thread (finding 1). Without one it is not run:
  `StrandedStay` says that what is owed is then never in the submission ring, so
  it is the kernel's to complete.

### Bounds and why they are enough

- `MPSCQueue`: the load at line 105 exists because producers can reject one
  another; that needs three producers at a full ring, and a capacity of 2
  lets tickets come round within `Quota = 2`. Over six items the ring makes
  three laps.
- `UnboundedLinkedMPSCQ`, `MPSCQSlotted`: nodes and items are reused, so the
  runs have no bound on the number of calls. Two producers suffice for every
  pair of threads to meet at every pair of steps; three nodes allow a gap
  with nodes on both sides. `W = 8` with `N = 2` is four laps.
- `EventedIo`: indices wrap at `W`, a multiple of both rings' sizes as 2^32
  is. Three requests are more than the completions of a ring of one entry;
  `MaxFailures = 2` fills a ring of two with stranded entries.
- `RingLifetime`: three objects are the fewest with two on one thread, whose
  indices differ, and one on another, which takes descriptor numbers between
  its calls; three descriptors are fewer than those and a file need. `Rings`
  has one ring more than objects, so that a leaked one would show.
- `CpuList`: a core of six CPUs has lists of up to three runs; contents of up to
  five tokens reach every branch of the parser.
- `Pipeline`: a line is one unit long. Buffers of three units take two lines
  (`>=` at line 556), so that four lines need both buffers, and a line is
  held over. `LinesPerProducer` ends the run as the test's own constant does.
- `Sample`: `i16` with its real range. Four samples are one block of
  `std::reduce`. TLC's integers have 32 bits, so that the type C is 30 bits wide.
- Symmetry is used only in `ring` and `ring_lifetime`, which check no liveness.

`CHECK_DEADLOCK FALSE` stands where the program ends: the object was destroyed,
the pipeline joined, the sample buffer is full, or a ring is full of stranded
entries. It is on in `slotted_queue`.

### Fairness

- A thread inside a call is scheduled: weak fairness of each producer's steps
  and of the consumer's.
- Callers retry: a rejected `enqueue` is repeated (`test_mpsc_queue.cpp`,
  `test_iouring.cpp:453`) and the consumer polls. In `MPSCQueue`, `Enqueue(p)`
  and `Dequeue` therefore include the call. In the other two queues nothing
  makes a producer begin another call; what it began it finishes.
- The kernel completes requests, the submission thread runs unless it sleeps,
  and a store becomes visible some time.
- `Pipeline`: strong fairness of `NextLine`: a batch lasts 33 ms, so a
  consumer that begins batches for ever also looks at the queue. A batch may
  still end at any moment.

### Memory order

Atomics are modelled as sequentially consistent; plain fields are single steps,
and `NoDataRace` shows that those of `MPSCQSlotted` are never accessed together.
What weaker orders additionally allow the queues on other hardware than x86
(the relaxed ticket of line 114, for one) is not explored. The one place where a
weak order matters on every machine, a store followed by a load of another
variable in `submit`, is modelled with `seenTail`.

## Findings

Each is a run that TLC must find violated.

1. **Lost wakeup** (`ring_lostwake`, `iouring.hpp:684-686`). With `SQPOLL`, the
   load of `*sq_flags` may be performed before the store of `sq_tail` is seen.
   `submit` then sees no `NEED_WAKEUP`, the thread sees no entry and sleeps;
   `push` returns `Success` and the pop never returns. The test at
   `test_iouring.cpp:61-100` makes such a ring and requires that it does. A full fence between the
   two lines (as liburing has) excludes it.
2. **The destructor's assertions** (`ring_destructor`, `:125`, `:132`) hold only
   if both optional registrations were made.
3. **The pipeline may end early** (`pipeline_lines`, `test_iouring.cpp:590-594`).
   After an empty batch the consumer reads `producers_finished`; lines enqueued
   between the two stay in the queue and the `REQUIRE` at 655 fails. The exit is
   not needed for termination: the loop's own condition, `consumed_lines <
   TOTAL_LINES`, ends it.
4. **`avg` does not recover** (`sample_avg`, `sample.hpp:133`).
   `std::reduce(begin, end, C{})` may add two samples to each other before it
   widens them; libstdc++ does so from four samples on. For `u32` the pair
   wraps: four samples of 2^32-1 have an `avg<u64>()` of 2^31-1. The test uses
   three samples. Types narrower than `int` are promoted, and `bench` shows
   `avg` right for them. `std::accumulate` would do.
5. **A ratio that is no value of T** (`report_cast`, `report.hpp:121`). `fit`
   casts the ratio of the unit to the value's type with `int_cast`, which asserts
   that it is in range. The least value of a signed T fills a unit whose ratio is
   one more than T's greatest value: -32768 as an `i16`, on a scale with a ratio
   of 32768. Without assertions the ratio becomes -32768 and the value is shown
   as 1, without its sign. `UnitScale` accepts such a scale, but `TimeScale` and
   `ByteScale` have no such ratio for any integer type.

Observed, without a run that calls it wrong: `WakeFailed` (`iouring.hpp:698`) leaves
the entry published, so the next push submits that one, returns `Success`, and the
next pop returns the completion of the failed one; `StrandedStay` shows that from
then on the ring is short of one entry for each failure, and nothing in the
repository says what a caller may do then. The comment at `mpsc_queue.hpp:310` gives a push in
progress as the reason for `tail != head`, but the push may have ended in
between; `const` members of `EventedIo::create` are written by the kernel
(`iouring.hpp:626-634`); the ring's descriptor is registered for the thread that
called `create`, so an object must stay there; the submission entries are mapped
with a length multiplied twice by the size of an entry (`:211` and
`mmap.hpp:45`), which some kernels refuse for more than one entry;
`list_cpu_cores` leaves its buffer when what it read ends in a digit (`cpu.hpp:173`;
files longer than 64 bytes are cut there) or is empty, before the check at 175
can refuse it, and takes any error of `open` for the last CPU (`:121`); a
`Time` that was not started samples the time since the clock's epoch
(`time.hpp:73`); `_total` saturates to the maximum on a negative overflow too;
the `REQUIRE` at `test_iouring.cpp:654` races with the producers' last
`fetch_add`.

## What is proved

TLAPS checks the following for *every* value of the constants that the modules'
assumptions allow: any number of producers, objects and requests, any capacity, any
width of the indices. Each property is also checked by the run of its module, which
found the mistakes before a proof was tried.

| Module | Theorem | Says |
|---|---|---|
| `MPSCQueueProofs` | `RingInvariant`, `RingIsConsistent` | `[]IInv`; `[]RingInv` |
| | `TypeCorrect` | `[]TypeOK`; above all `count` is a natural number |
| | `NeverOverwrites` | `[]NoOverwrite` |
| | `CountIsExact` | `[]CountAccounts`: no `fetch_sub` wraps |
| | `NullIsJustified` | `[]NullMeansPending` |
| | `DrainIsComplete` | `[]DrainLeavesNothing` |
| | `SlotOfWrappedTicket` | masking commutes with a wrap of the ticket at a multiple of the capacity |
| | `FifoInvariant`, `NothingIsLost` | `[]NothingLost`: each producer's items, in its order, none lost |
| | `RingIsChannel` | `ImplementsChannel` |
| `UnboundedLinkedProofs` | `Invariant`, `TypeCorrect`, `ChainStaysIntact` | `[]IInv`, `[]TypeOK`, `[]ChainIntact` |
| | `NothingFreedIsUsed`, `NoItemIsLost` | `[]NoUseAfterFree`, `[]NoItemLeaks` |
| | `NullIsTrue` | `NullMeansEmptyOrRacing`, an action property |
| | `LinkedQueueIsChannel` | `ImplementsChannel` |
| `MPSCQSlottedProofs` | `Invariant`, `TypeCorrect` | `[]IInv`, `[]TypeOK` |
| | `DataIsNotRaced`, `NumbersTellTheState` | `[]NoDataRace`, `[]CellsInStep` |
| | `SlottedQueueIsChannel` | `ImplementsChannel` |
| `EventedIoProofs` | `Invariant`, `TypeCorrect` | `[]IInv`, `[]TypeOK` |
| | `NoRequestIsLost`, `StrandedStayInPlay` | `[]NoRequestLost`, `[]StrandedStay` |
| | `InOrder` | `InOrderUntilFailure`, an action property |
| `RingLifetimeProofs` | `Invariant`, `TypeCorrect` | `[]IInv`, `[]TypeOK` |
| | `LeavesNothing`, `OwnDescriptors`, `OwnRingEntered` | `[]NothingLeaks`, `[]DescriptorsAreOwn`, `[]EnterReachesRing` |
| `PipelineProofs` | `Invariant`, `TypeCorrect` | `[]IInv`, `[]TypeOK` |
| | `OneWriteInFlight`, `LinesSurvive`, `FileMatches` | `[]OneInFlight`, `[]NoLineLost`, `[]FileIsExpected` |
| | `BuffersAreStable` | `BufferStable`, an action property |
| `SampleProofs` | `Invariant`, `SummariesAreExact` | `[]IInv`; `[]SummaryIsExact` |
| | `PercentilesAreRanks` | `[]PercentileIsRank` |
| | `MeanIsRecovered` | `TIsNarrow => []AvgRecovers` |
| `BenchProofs` | `FitsAreRight` | `FitIsRight` of every value of every integer type, in every unit, unless `LeastIsAUnit` |
| | `TextsFit` | `TextFits`, likewise, if `DigitsSuffice` |
| | `ReportsAreRight` | `ReportTypes => []ReportIsRight` |
| | `ParserIsInside` | what `ParserStaysInside` says, of everything that may be read and is not empty |
| | `KernelListIsRead` | the parser inverts the kernel's text of every nonempty finite set of CPUs |
| | `ListInvariant`, `ListsAreRight` | `[]ListInv`, `[]ListIsRight` |

### From which assumptions

Each module names what it assumes of its constants, and TLC evaluates it on each run.

- `MPSCQueue`: `CapacityAssumption` is what `create` checks, `ProducersAssumption`
  that there are finitely many threads, `QuotaAssumption` and `NullAssumption` that
  items are not `nullptr`. `count` and `head` are naturals in the model;
  `CountAccounts` bounds `count` by the capacity and the number of producers, and
  `SlotOfWrappedTicket` justifies the unbounded `head`.
- `UnboundedLinkedMPSCQ`: `NodesAssumption`, that the stub is no item, and that
  producers and nodes are finite.
- `MPSCQSlotted`: `SizeAssumption` (a power of two, at least two: the hazard of
  one cell is in the list) and `WrapAssumption` (positions have room for twice
  the cells and threads before they wrap: 2^64 in the code).
- `EventedIo`: `CreatedAssumption` (capacities that `create` accepts; the rings'
  sizes divide the width of an index) and `BoundsAssumption`.
- `RingLifetime`: `NumbersAssumption`, `NamesAssumption`. Tables may be empty.
- `Pipeline`: `SizesAssumption`, above all that a buffer holds more than one line.
- `Sample`: `TypesAssumption` (the ranges of the integer types, and that a sample
  is a T) and `SizesAssumption`.
- `UnitRepr`: `ScalesAssumption` is `unit_scales_fit` (each scale divides the next).
- `CpuList`: `TopologiesAssumption`, that a machine has finitely many CPUs, numbered
  from 0 without a gap, and each is on one core.

Some theorems have a hypothesis of their own, and the constants of `bench` satisfy each.
`TIsNarrow` says that two values of T added to each other do not wrap, as two `i16`
do not, which are promoted to `int`; without it `AvgRecovers` is false (finding 4).
`LeastIsAUnit` is the exception of `FitsAreRight` and `TextsFit`: the value is the least
of its type and exactly one of a unit, which is finding 5. `DigitsSuffice` says that a
type has at least three digits and no more in its minimum than in its maximum, as every
integer type has. `ReportTypes` puts them together: T is narrow, the accumulator C has
room for the sum of a full buffer (the caller's choice of `avg<C>`), both are integer
types whose digits suffice, and no ratio of the scale is one above the greatest value of
a signed T.

### Along which argument

None of the properties is inductive as it stands. Each proof module begins with its
`IInv`, has a section of lemmas about the data (slots, positions, sequences), one
lemma per action that the action preserves `IInv`, and at the end the theorems.

**MPSCQueue.** That a slot is empty when a ticket's producer stores rests on the
tickets outstanding, `taken..head-1`, being no more than the slots. That rests on
`count`: an admission increments `count` before it draws a ticket, and a release
decrements it only after its slot was emptied. `IInv` is `TypeOK`, `CountAccounts`
and `RingInv`, whose parts are `RoomForAll` (tickets, admissions and the owed
decrement fit the ring), `TicketsHeld` (no ticket is held twice), `SlotsOfWindow`
(a slot in the window is empty exactly if its ticket is held, and no other slot is
full), `tail = Slot(taken)` and what holds during the drain. Distinct tickets less
than a lap apart have distinct slots (`SlotInjective`), and masking commutes with
advancing (`SlotSucc`). `FifoInvariant` adds `NothingLost`: what each
producer has in the ring is `got + 1..sent`, in the order of the tickets. Under
`chanBar` the ticket is the claim, the store the publication and the exchange that
takes an item the take.

**UnboundedLinkedMPSCQ.** The history variable `chain` is the order of the
exchanges of `head`. `ChainIntact` relates it to `next`, and `IInv` adds that no
node is in it twice, that each node has one owner (a caller, one pushing producer,
or the queue), what each push and pop knows at each step, and `Calm`: a pop that saw
no push exchange during its call and a node without a next saw the last one. The
items of the channel are the chain without the stub, wherever the stub is.

**MPSCQSlotted.** Positions wrap, so they are never compared: the invariant names
them by their distance from `tail` (`At(k)`). `Line` says how many are out, `Holders`
who holds which, and `CellAt(k)` that the cell of the `k`-th either waits for that
position or holds the item that drew it. That the code's signed difference of sequence
numbers tells these apart over a wrap is where `WrapAssumption` is used.

**EventedIo.** Both rings are runs of indices that wrap, and all of it is stated by
how far an index is behind another (`Between`). `Rooms` bounds these, `Named` says
that an entry's slot holds its own index, `Step` what the application thread has
done, and `Latest` that a caller with one push outstanding owns the only completion.
`NoRequestLost` says that the places partition the requests; its proof moves one
request between two places per action. The proof of `StrandedStay` counts them.

**RingLifetime.** Ownership, both ways: what an object or its `create` holds is of
its own ring and still there (`HoldOwn`, `IndexIsOwn`), and whatever is open, mapped
or registered is held by someone (`FdsHeld`, `MapsHeld`, `RegistrationsHeld`). With
what is held at each step of `create` and of the destructor (`HeldAt`), nothing is
left at the end.

**Pipeline.** `Flight` has the three situations of the double buffer, `Written` what
the file and a write in progress hold, `BatchIsConsumed` what the active buffer
holds. `OneInFlight` comes from the first, which makes the pops that take *any*
completion take the right one; then no buffer changes under a write, and the file
is the lines consumed.

**Sample.** `BufferOK` says that the buffer is a rearrangement of what was pushed
(there is a bijection between their places) and in order whenever `samples_sorted`
is set; `FreshOK` what the summaries are before the first push. A rearrangement
survives a push (the bijection is extended) and a sort (bijections compose). What
`std::ranges::sort` leaves is chosen by `CHOOSE`, so it has to be shown to exist: each
element goes to the place that counts the elements before it (`OrderExists`). The
`i`-th of the sorted elements then has its rank by two injections (`RankOf`), and an
index `p * (count - 1)` is inside the buffer (`IndexInside`). Sums are a recursive
function. That it has values, that they depend on the elements only, and that
neighbours in order put all in order, are shown by a least counterexample, which
takes the place of induction (`LeastNatural`).

That the mean is recovered needs that a rearrangement has the same sum
(`SumRearranged`). Of the sequences for which it has not, take the shortest: where the
one has the last element of the other, put its own last element instead, which changes
a sum by their difference (`SumsOfChange`); without their last elements the two are
then a shorter counterexample. The pairs that `std::reduce` adds in T do not wrap if T
is narrow, and then `Reduce` is the sum, wrapped once.

**UnitRepr.** The unit found is the last one filled, and a value that fills a unit is no
smaller than its ratio, so the ratio is a value of T as well, but for the exception
(`RatioFits`), and `IntCast` leaves it alone (`CastIs`). With the magnitude written as
`ratio * w + e`, the tenth is `10 * e` divided by `ratio`, so it is below ten and what
is shown is less than a place short. The text is no longer than `REPR_MAX_LEN` because a
smaller number has no more digits (`DigitsGrow`), and because a decimal is written
only when the whole has one digit. `Avg` is inside T because a sum is between the
bounds of its elements (`MeanInside`).

**CpuList.** An item that is understood takes the parser at least two places on
(`ItemMoves`), and past the end only if the last place holds a number: if it does not,
then of the places from which the parser would leave the buffer the last one
would have another behind it, which is no last one (`ReadsInside`). The
kernel's text is read the same way, from the last CPU backwards (`TextIsRead`): what is
written of the CPUs from one on is read as these CPUs (`Lists`), since a run and its
comma are read as that run, in front of what the rest is read as. `ListInv` says that
each core listed was read so, who was online then (`seen`), and that `listing` never
is a refusal. It counts the first siblings of each core (`FirstsAre`): they are at most
the CPUs that came or went and one, and if they are that many the least CPU of the core
that is online is among them, so that the next file adds none (`FirstIsAdded`) until
another CPU comes or goes.

### Only model-checked

Every invariant, action property and refinement that a run finds true is a theorem.
What remains:

- Liveness: `EverythingDelivered`, `EveryItemDelivered`, `Ends`. Fairness and
  ENABLED are out of the proof system's reach.
- `AvgRecovers` without `TIsNarrow`, where it is false: that is finding 4.
- The findings: a counterexample needs no proof.

## Not modelled

- Destruction with requests in flight (the code says "TODO: add draining") and
  the use of an object by another thread than its creator's: the caller's
  obligations, which the models assume.
- Which errno becomes which error value, and the sizes of mappings.
- `Time` (one time point), casts, slices, single reads and writes, affinity and
  priority: no protocol, or pure I/O.
- In `CpuList`, characters: numbers are tokens, so a number that overflows is left
  out. `ReadFile` reads all that the kernel wrote: that a file of more than 64 bytes is
  cut (`cpu.hpp:95`, `:125`) is left out of the loop, and `ParserIsInside` says of such a
  beginning what it says of any content.
- Floating-point samples and values.
- `size()` of the queues: a load of `count`; `CountAccounts` says what it may
  return.

## Where this stands

The queues with their abstract channel, the rings and their lifetimes, the pipeline, and
the benchmark's statistics, report and list of cores are modelled; every safety
property, action property and refinement that the passing runs check is proved for all
constants that the assumptions allow. Three things could be added:

1. The weaker memory orders of the queues (the relaxed ticket of line 114), with
   stores that become visible later, as `seenTail` has it for one of them.
2. In `CpuList`, contents that are cut at 64 bytes, and numbers that overflow: they
   need characters.
3. Destruction with requests in flight, once the code drains them.

Liveness stays with TLC.

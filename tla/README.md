# A TLA+ verification of ABIX

ABIX is a header-only C++17 library (`src/include/SKL/ABIX`) for calling code in
dynamically loaded modules: it loads and hot-reloads libraries under an
epoch-based reclamation domain, discovers the interfaces a module exports, keeps
modules loaded with leases, and looks functions and types up in generated tables.
This directory holds TLA+ models of it, the TLC configurations that check them,
and TLAPS proofs of what matters most.

## 1. Inventory

| Component | State | Operations | What is hard | What makes it correct |
|---|---|---|---|---|
| `rcu::Domain` (`RCU/Domain.h`) | global epoch, two watermarks, `sync`, list of reader threads and their epochs, thread-local batches, published retired list, a spin lock | `enter`/`exit`, `retire*`, `synchronize`, `synchronize_eager`, `synchronize_until`, `try_collect` | readers take no lock; the scan takes no lock; deadlines; several writers; callbacks | nothing a reader holds is reclaimed; a proven grace period is one; one owner of an advancement; advancements end |
| `rcu::Deadline` | a clock reading | `after_ms`, `expired` | overflow, the `never` sentinel | an unbounded deadline never expires |
| `dll::Object` (`DLL/Object.h`) | current image, its index, reclaim timeout, last outcome, writer lock | `load`, `reload`, `unload`, `force_unload`, `enter_read` | an image retired in two parts in two classes, by racing reloads | a reader keeps image and index; the index goes first; the outcome is true |
| `dll::Function` (`DLL/Function.h`) | control, index, cached image pointer | `resolve`, call, `raw` | cached pointer and address reuse | a call reaches the function it was resolved to |
| Shared/weak, ref/view pointers (`DLL/*Ptr.h`) | counts, control block | copy, move, reset, lock | two counts, a callback at zero | destroyed once, freed once, never used after |
| Leases (`Interface/Lease.h`) | module state, lease count | `try_acquire_lease`, `release_lease`, `begin_unload`, `wait_for_idle`, `mark_unloaded` | check, increment, check again, against an unload | no granted lease when unloaded; an unload completes |
| Discovery (`Interface/Discovery.h`) | OS reference, `pin_state` | `pin_module`, `unpin_module`, `discover_module` | pin on 0->1, unpin on 1->0, from different threads | no close unmaps a pinned library under its leases; references pair up |
| `owner::ref` (`Interface/Owner.h`) | a handle and a lease | `adopt`, `release`, move | adopting while the module drains | the module outlives the object |
| `poly::ModuleRegistry` | slots, interface array | `register_module`, `unregister_module`, `find_*`, `bind_interface` | compaction, reuse of slots, stale bindings, busy and retry | slots delimit their interfaces; lookups are complete; a bound module is live |
| Export tables (`Runtime/Search.h`) | hash index, one-buffer pool | `build`, `find_linear`, `find_hash`, `take`/`offer` | open addressing, capacity, two lookups | the two lookups agree; a buffer has one owner |
| Type registries (`Runtime/Registry.h`, `Metadata/Registry.h`) | entries per (type, version) | `check_module`, `register_module` | several steps, one failing | all or nothing; one layout per key |
| Interface registry, refs, proxies (`Interface/Registry.h`, `Ref.h`, `Proxy.h`) | entries, resolved slots | `add`, `find`, `resolve`, `call` | version selection | the newest or the exact one |
| Contracts, compatibility, maps (`Interface/Contract.h`, `Model/*.h`, `DLL/FnSig.h`) | none | ids, encodings, signatures, verdicts, field maps | what is fed to a hash and in which order; plans over arbitrary layouts | equal identities mean equal contracts; a map stays inside both objects |
| Logging (`Util/Log.h`) | two sinks, a level | setters, `log` | switch in two stores, callbacks that log | one kind of sink at a time; an event meets an installed sink |
| Binary images (`Binary/*.h`) | none | three parsers, `read_region` | offsets and sizes from a file | no byte outside the file is read, but for two reads (section 3) |
| Words: deadlines, allocation, errors, versions, atomics | none | conversions, `add_fetch` and the like | overflow, sentinels, two backends | exact up to the width |
| Drivers (`bench/`): advancement probe, stress, workload and index benchmarks | counters, reports, schedules | windows, sweeps, replays, statistics | several threads, a clock, merging | the report is what was measured |
| Bridges, value types, tests, other benchmarks, sample libraries, tools | none or fixtures | | | |

Interaction: `dll::Object` and `dll::Function` are clients of the one process-wide
`Domain`; `ModuleRegistry` drives the lifecycle half of `Lease.h` while callers
acquire and release leases concurrently; a lease calls the pin hooks of
`Discovery.h`; `owner::ref` and `BoundInterface` own leases. Registries are
serialized by their caller, leases and the domain are not.

## 2. Modules

| Module | Models | Extends / composes |
|---|---|---|
| `RcuDomain` | the domain, one action per shared access | |
| `SafeReclamation` | abstract: one pointer, acquire, release, free | refined by `RcuDomain` |
| `ModuleLease` | leases, pins, owner handles, unload | |
| `LeaseContract` | abstract: granted leases and the module's state | refined by `ModuleLease` |
| `ModuleRegistry` | the registry and its clients; leases by their contract | |
| `DllObject` | `dll::Object` as a client of the domain, step by step | `RcuDomain` |
| `FunctionHandle` | `dll::Object` and the `dll::Function` handles resolved from it; the domain by its contract | |
| `SharedPtr`, `RefPtr`, `Handles` | shared/weak, reference/view, unique pointers and closures | |
| `ExportIndex` | lookups, hash index and slot pool of `Runtime/Search.h` | |
| `InterfaceDispatch` | interface registry, references, slot tables, proxies | |
| `TypeRegistry` | runtime and metadata type registries, bootstrap | |
| `Log` | the diagnostic channel | |
| `BinaryImage`, `Identity`, `Words`, `MapPlan` | computations: parsers, identities, fixed-width arithmetic and atomics, map plans | |
| `AdvanceProbe` | the domain's statistics and `bench/rcu/advance_probe.cpp` | |
| `BenchIndex`, `ReloadCadence` | the index layouts and the replay of reloads of `hashindex_build_bench.cpp` | |
| `NextPow2` | `next_pow2()`, the capacity of every hash index | used by `ExportIndex`, `BenchIndex` |
| `StressBench`, `Workload` | `stress_bench.cpp`; the workload runner and its topology | |
| `MCParts`, `MCValues` | the modules that share no state, in one state space: `part` selects one and the others keep their initial state | all of those above |
| `MC...` | constants, symmetry and inputs for TLC | |
| `ReclamationProofs` | TLAPS proofs | `RcuDomain`, `DllObject`, `AdvanceProbe` |
| `ModuleLeaseProofs`, `FunctionHandleProofs`, `ModuleRegistryProofs` | TLAPS proofs | the module each is named after |
| `ExportIndexProofs` | TLAPS proofs | `ExportIndex`, `ReloadCadence`, `BenchIndex`, `Workload` |
| `SharedStateProofs` | TLAPS proofs | `SharedPtr`, `RefPtr`, `Handles`, `Log` |
| `BindingProofs` | TLAPS proofs | `InterfaceDispatch`, `TypeRegistry`, `MapPlan`, `BinaryImage`, `Words`, `Identity` |
| `Induction` | induction over numbers, loops over an interval, sums over finite sets: what the proofs about arrays and counters share | |

### RcuDomain

State: `global`, `completed` (both watermarks), `sync`, `syncCount`, the writer
`lock` with its holder, the registered `threads`, each thread's `epoch` (what
others see) and `own` (what it stored itself), the `retired` list, the thread-local
`batch`es, `nodeEpoch` and `nodeCls` of a node, and the set `reclaimed` of objects
whose callback ran. `pc`, `kind`, `safe`, `scan`, `todo`, `loaded` are the locals of
the call a thread is in.

* `enter()` is `EnterLoad` then `EnterStore`: other threads run in between.
  The first call of a thread registers it (`RegisterThread`).
* `readers_passed()` looks at one reader per step (`ScanPassed`, `ScanBlocked`), and
  a thread that registers after `LoadThreads` is not met.
* A critical section that runs no callback is one step enabled while the lock is
  free; the section that collects holds the lock across `CollectMark`,
  `CollectReclaim`, `CollectDone`, `CollectEnd`, because readers go on meanwhile.
* A deadline is "may have expired": where the code looks at the clock both
  outcomes are possible.
* With `StoreBuffering`, a stored epoch becomes visible at a later `Flush`. An
  interlocked instruction of the same thread drains first, as on x86. GCC and Clang
  compile `store_release` to a plain store; MSVC builds use an interlocked exchange.
* The client is the pattern of the repository: a pointer loaded inside a section
  (`LoadImage`), exchanged (`Swap`) and then retired. It makes unbounded waits only
  outside its own section, the documented contract.
* Left out: statistics, the order of nodes in a list (the walk takes every
  collectable node in any order), 64-bit wrap of the epoch.

### ModuleLease

One module. A handle is a `ModuleLease` object, with the `owner::ref` around it when
`object` is set. `TryAcquire`, `Increment`, `Recheck`, `Undo` are the accesses of
`try_acquire_lease()`; `PinOpen`/`PinStore`/`PinFails`/`PinWindows` and
`Unpin...` the hooks; `Release`, `Destroy`, `DropLease`, `DestroyUnleased`, `Move`,
`Adopt` the life of a handle; `Activate`, `BeginUnload`, `WaitForIdle`, `Busy`,
`MarkUnloaded` the registry. `CloseLibrary` is the `dlclose()` of the owner's
`Object::unload()`: nothing in the code makes it wait for the leases or for the registry, so
it may come at any moment, once. `osRefs` is the operating system's reference count of the
library and `mapped` says that it has not come to zero; a `dlopen()` after that maps another
image, `GetModuleHandleEx()` finds none. `PinFails` is a failing `dlopen()` or
`GetModuleHandleEx()`, whose result `try_acquire_lease()` ignores. `refused` is a history
variable: the acquire that raised the present count from zero was refused, so that nobody
pins for the leases the count includes. Atomics are sequentially consistent (the code uses
acquire/release; a weaker machine may allow more).

### ModuleRegistry

`slots` and `interfaces` are the two arrays (the second cut at `_interface_count`),
`RegisterStatus` the chain of early returns in the code's order, `Compact` and `Shifted` the
two loops of `unregister_module()`; `FindInterface` and `FindFirst` are the loops of the
lookups, with the caller's `max`. `unregister_module()` is two steps, so that leases
come and go while it waits; all other calls are serialized by the caller, as the
header requires. A lease is granted or dropped in one step (`LeaseContract`, which
`ModuleLease` is proved to implement). A client keeps a copy of the binding it looked
up and may bind it much later.

### DllObject

The steps of `retire_image()` over the actions of `RcuDomain`: the index is queued in
the eager class, then (without a timeout) an eager synchronization, then the image in
the batched class, then `synchronize()` or `synchronize_until()`, then the outcome. The reclaim timeout is
a variable (`SetTimeout` is `set_reclaim_timeout_ms()`), which every `retire_image()`
reads once. Any
number of threads may be in it at once, since only the exchange is under the
Control's lock. `force_unload()` is taken only when no reader is inside, the contract
it states. A node that cannot be allocated is a choice at both retirements. `unload()` here is not refused for live handles: the readers of the model use
`enter_read()`, which needs none (with handles: `FunctionHandle`).

### FunctionHandle

State: the `Control` (image, state, writer lock, whether it exists), what is mapped at
each address (`heap`), what was handed to the domain (`retired`), what was not because there
was no memory for a node (`lost`, a history variable: `retire_impl()` then queues nothing and
`retire_image()` goes on), the fields of each handle, and a
thread's step with its locals. Loading, publishing, `unload()` with its check of live
handles before the lock, `discard_image()` after a lock timeout, the end of the Object
and of the last handle (`DestroyControl`), `resolve()`, the fast path, and the slow path
with its separate reads of state, image and table, are steps. An image is freed at any
time at which no section holds it, which is what `SafeReclamation` promises and
`RcuDomain` is proved to implement; its address may then be used for another image. An
exception escaping a callee is outside the contract (`Function.h:152`).

### Pointers and handles

`SharedPtr`: every access to a count is a step, a variable belongs to one thread, a block
to all. `Serialized` says whether an operation on a `WeakPtr` excludes the others.
`RefPtr`: one thread; the stack of nested `reset()` calls is a variable, because the
destroy callback drops the members of the object in the middle of one. The program has two
RefPtr variables, so objects that own each other are built, and destroyed three deep. `Handles`: cells
and the chains they form, moves, clones (of chains up to `MaxClone`) whose allocation fails,
self-assignment.

### Lookup, dispatch, types, logging

`ExportIndex`: `take`/`offer` of the pool are steps, a build fills whatever buffer it got
(`Filled` is its loop over the table, `Insert` the probe for a free slot); names whose
hashes collide. `TablesAssumption` keeps tables below 2^29 entries, where `count * 2` and
`next_pow2` do not wrap. `InterfaceDispatch`: one contract with an unchecked slot;
implementations and manifest tables that fit, lack, duplicate or change a slot.
`TypeRegistry`: validation as the code orders it and then the mutation type by type
(`RegisterOne` is a turn of its loop), over modules that agree, conflict, refer to each other and overflow; the program's own kernel types have the ids of
`KernelIds`. `Log`: two threads log, one of them
configures, callbacks may log or configure again.

### Computations

`BinaryImage` lists for each parser the byte ranges it touches and the tests between
them; a file is a record of its header fields, numbers of any size (`FilesAssumption`). The loop
over an ELF symbol table adds and compares in `uint64_t` (modulo `Whole`), as the code does;
the other sums of the readers are of 32-bit fields and do not wrap, except for the one in
`rva_to_offset`, which is a `uint32_t` (modulo `Half`).
`Identity` takes a hash to be the sequence of bytes fed to it (no collisions), so an
identity is lost only if something is not fed, fed ambiguously or in another order. `Words`
scales widths down (`Word`, `Byte`, `UnitsPerMs`, `Giga`) and runs sequences of atomic
operations on both backends. Its counters are as fast as `WordsAssumption` says: the
remainder of a second, in nanoseconds, fits a word, which in 64 bits is so up to 18 GHz.
`MapPlan` applies plans of up to three operations over layouts, converters may fail.

### Drivers

`AdvanceProbe` keeps the counters with one step per shared access in `begin_advance()`
and `note_max_wait_ns()`; a scan of the readers is one step (its interleavings are
`RcuDomain`'s). The clock ticks at any time. `ReloadCadence` has no reader, so a call of
the domain is a function of its state. `StressBench` records samples of a call of
unknown duration. Timing, printing and command lines are left out.

### Discovery

`ModuleRegistry!Discover` and `DiscoverNothing` are `discover_module()` for a library
with and without a manifest: it binds the platform handle first and then registers. A
manifest of the host itself is registered directly (`Register`).

## 3. Runs

Runs that pass:

| Run | Bounds | Shows |
|---|---|---|
| `rcu_safety` | 2 threads, 1 object, epochs to 3, `EpochBatch` 2, a batch that stays local until a synchronization; every call but `never`, whose steps are those of `until` without its timeouts | type, no use after reclaim, a scan that succeeded proves its grace period, watermarks never move back, the inductive invariant of the proofs, refinement of `SafeReclamation` |
| `rcu_live` | 2 threads, 1 object, one advancement, delayed stores; unbounded waits and `try_collect` | every advancement ends |
| `lease_protocol` | 3 handles, POSIX, pins that succeed, `MaxRefs` 4, an owner who closes at any moment | inductive invariant, no lease when unloaded, no step unmaps the library under leases whose cycle has pinned, refinement of `LeaseContract` |
| `lease_live` | 3 handles, Windows, pins that may fail, `MaxRefs` 3 | an unload that has begun completes |
| `registry` | 6 manifests (shared, empty, duplicate, malformed, with and without a library), 3 slots, 4 interfaces, 1 client | slots, counts, lookups and bindings |
| `object` | 2 threads, 2 images with indexes, epochs to 4, a timeout that is set and cleared | readers keep image and index; `reclaimed` is reported only after a grace period |
| `function` | 2 threads, 2 handles, 2 addresses, 4 kinds of library | a call reaches the function it was resolved for; every image has one owner, or was given up by a retirement without memory; the control outlives its users |
| `probe` | 2 writers, 1 reader, `MaxTicks` 3, `MaxProbeCalls` 2, `MaxLosses` 3, `MaxEntryEpoch` 1, `MaxChildren` 3 | the statistics are true; the drain leaves nothing; each reload waits its own time |
| `parts` | see below | one property or two per component |

`parts` checks `BlocksSound` and `RefBlocksSound` (2 or 3 blocks, 2 variables, members
that point on, from lower to higher objects), `CellsOwnedOnce` (4 cells), `IndexAnswersAsScan` and `BuffersOwnedOnce` (2 threads, 2
indexes, 3 buffers, tables of three capacities), `LayoutsAgree` (2 generation bits, so that
it wraps), `CadenceKept` (`EpochBatch` 3, `MaxSteps` 7, `MaxRounds` 3: two batches and
their remainders), `StatisticsSound` (2 readers and a writer, `MaxSamples` 2, 3 `Buckets`),
`DeliverySound`, `DispatchSound`, `TypesSound` (8 modules, 4 entries), `ReadersBounded` (a file
size, offsets and counts at, just below and beyond the end; entry sizes of a `.dynsym` just
below `Whole`, of a table that lies near the start of the file and of one that does not), `IdentitiesFaithful`,
`WordsExact` (all words of 64, 8 for bytes), `MapSound`, `WorkSound`. Each of these is the
conjunction of named parts that its module states and comments one by one.

Three epochs are enough for a reader at an old epoch, an object retired at the next
and an advancement beyond; for more threads, objects and epochs the same properties are
proved (section 4). Three handles are enough for a first, a second and a refused acquire
at once. In `object` two images and their indexes fill batches of two and leave nodes in
the other thread's. `rcu_live` needs one advancement only: what it asks is whether that
one ends, and readers enter and leave without bound meanwhile. In `function` every second
reload uses an address again, and two handles keep an object that is gone alive. Deadlock
is not checked where the system may really stop: threads end, a module is unloaded for
good, a computation is done, and no epoch above `MaxEpoch` is explored. In `registry` it is.

Runs that TLC refutes, each a statement of the repository's own documentation:

| Run | Statement | What happens |
|---|---|---|
| `rcu_store_buffer` | a grace period reported proven was proven | the reader's epoch is still in its store buffer (plain release store) |
| `lease_windows` | one reference, taken with the first lease, dropped with the last | a refused first acquire; the loader's reference is dropped instead |
| `shared_race` | `SharedPtr` is thread-safe | the last strong and the last weak reference go at once: the block is freed under the other thread |

More behaviours are reachable in the models, some against a comment or a document; they
limit what the properties say. No run is kept for them; where a property states the
opposite, the constants that refute it are given:

* A section inside another one of the same thread (a call made from inside a call): the
  inner exit makes the thread quiescent (`Domain.h:148`), against api.md:430. `RcuSafety.cfg`
  with `MaxDepth = 2`, `Calls = {"until"}` refutes `NoUseAfterReclaim`.
* A call through a handle whose object now has an image without a table returns inside its
  section (`Function.h:192`), against api.md:563 "on all exit paths". `Function.cfg` with
  `SectionsBalanced`.
* An object adopted while its module drains has no lease (`Owner.h:127`), against
  Owner.h:33-34. `LeaseProtocol.cfg` with `Platform = "none"`, `ObjectKeepsModuleLoaded`.
* Only the acquire that raised the count from zero pins, after its increment
  (`Lease.h:110`). One that runs in between is granted without a pin, and when the owner
  closes the library now it is unmapped under that lease, against Lease.h:98-100 "The first
  lease takes an OS-level reference (`pin`) so the module stays mapped until the last lease
  is released." `LeaseProtocol.cfg` with `HeldLeaseBlocksUnmap`.
* A retirement that finds no memory for its node queues nothing and goes on
  (`Domain.h:277`): the image is reported deferred, is in no list and is never freed,
  against api.md:479 "A deferral is not a leak". `Object.cfg` with `DeferredIsPending`.
* A contended eager synchronization collects nothing (`Object.h:200`), and the batched
  collection can then free an image before its index. `Object.cfg` with `EpochBatch = 1`,
  `MaxEpoch = 5`, `Timeouts = {FALSE}`, `IndexBeforeImage`.
* The raw writers of the probe share one absolute deadline (`advance_probe.cpp:214`), against
  its usage text "per-call wait bound". `Probe.cfg` with `WaitBoundIsPerCall`.
* `generate_schedule()` keeps its operations in a static (`workload.cpp:42`): every later
  profile gets the first one's. `Parts.cfg` with `ScheduleMatchesProfile`.
* Past the hash threshold a name whose first entry has another version is
  `version_mismatch` where the scan goes on (`Search.h:292`), and the scan answers
  `not_found` for a name whose entries all have other versions.
  `Parts.cfg` with `NotFoundMeansAbsent`.
* Two threads that set sinks of different kinds at once leave both (`Log.h:163`):
  `Configurers` with both threads refutes `OneKindActive`.
* `reclaimed_through()` (`Domain.h:168`) may be true of a node whose callback has not run,
  when that node sits in another thread's unpublished batch. `last_reclaim` inherits it.
  `WatermarkBehindReaders` and `OutcomeProven` state what does hold: no reader is left.
* What a thread retired and did not publish before it ended (`Domain.h:326`) is never
  reclaimed. A writer can lose the advancement to later ones for ever (`Domain.h:381`,
  documented); one that is never scheduled counts as starved in the probe.
* A reclaim callback runs under the writer lock (`Domain.h:437`): one that enters the domain
  for the first time, retires a full batch or synchronizes would wait for itself. The
  callbacks of this repository do not.
* `module()` and `get_table()` dereference the image outside any section (`Object.h:354`).
* Of an image at the address it verified, the fast path compares the 32-bit hash of a name
  and the signature (`Function.h:165`): once the address is used again, another name with
  the same hash at the same index is called, against "never a wrong call" of its comment. `MCHash` with equal values refutes `RightFunction`.
* A lease whose pin failed (`Discovery.h:54`) is granted, and the owner's close, or an unpin of an
  earlier lease that comes late, unmaps the library under it. `GuardedLeaseBlocksUnmap` is
  therefore checked with pins that succeed (`Unguarded` excepts the leases of a cycle that has
  not pinned yet or never will, which `lease_windows` and `HeldLeaseBlocksUnmap` show at work).
* The decrement of a refused acquire (`Lease.h:105`) can be the one that reaches zero, and
  it does not unpin: on POSIX the library then stays mapped after the loader closed it.
* A discovery that is then refused by the registry has already replaced the control's
  platform handle and path (`Discovery.h:104`).
* An object that views the one that owns it: when the owner goes, that view may be the last,
  and its end frees the control block under the owner's `reset()` (`RefPtr.h:119`,
  `ViewPtr.h:76`), against api.md:875 "Single-thread safe". `Parts.cfg` with `MCMayView` of all
  pairs of two different nodes refutes `RefBlocksSound`.
* A copy assignment reads its source after its reset (`RefPtr.h:74`): `p = p->next` reads a
  member of an object that may be gone. `RefPtr` models an assignment whose source still exists.
* Move-assignment from a `UniquePtr` inside the object it owns (`UniquePtr.h:45-54`) is left
  out of `Handles`; so are `UniquePtr::release()` and `ViewPtr::lock()`, which do not
  compile when used.
* A registered implementation with a slot twice is checked by the first of its methods for
  that slot and called by the last (`Ref.h:175-188`). `add()` does not reject it, while
  `validate_manifest()` does reject a manifest with one. Generated tables have none; one
  more implementation with such a table refutes `DispatchSound`.
* The name of a Mach-O segment is read before `cmdsize` is compared with the size of a
  segment command (`MachO.h:122-127`), so the 16 bytes of a command shorter than 24 may end
  behind the commands. `ReadsStayInFile` excepts these reads by name (`EarlyNames`).
* The loop over `.dynsym` (`ELF.h:151`) adds `sh_entsize` to a `uint64_t` and tests
  `off + 24 <= file_size` in `uint64_t`. With an entry size within 24 of 2^64 the second offset is
  as close to 2^64, the sum wraps to a small number and passes, and the entry is read before
  the table; before the file, when the table begins in its first bytes. `ReadsStayInFile` excepts
  these reads by name (`EarlyEntries`); without the exception TLC refutes it.
* A shared proxy bound to a null object keeps its table. `bootstrap_self()` says ok whatever
  became of its records. A reference to a type accepts any version of it.
* The text hashed for a method has no separators (`Contract.h:183`); `layout_compatible` is
  never produced, because the type id is part of the encoding (`Compat.h:130`).
* A deadline beyond the range of the clock wraps (`Deadline.h:94`). A benchmark divides its total, so it is met only by thread counts
  that divide it. The buckets of a percentile report 1 for samples that are all 0.
* Nodes still queued when `hashindex_build_bench` ends point to deleted indexes
  (`hashindex_build_bench.cpp:401`); nothing synchronizes after that.

Every property of a passing run has a mutation of the mapped code (beside the
definition it changes) under which TLC finds it violated.

### Fairness

* `RcuDomain!FairSpec`: a thread inside a call goes on (weak), a buffered store reaches
  memory (weak: processors drain their store buffers); a reader leaves its
  section (strong: the read-side contract of `docs/abix/api.md`, "A read-side section
  must be balanced on every path"); the test-and-set lock does not starve a waiter for
  ever (strong: the lock is free again and again and a spinning thread tries again and
  again); a deadline that is looked at again and again has expired at some point
  (strong; `rcu_live` makes unbounded waits only, so it does not rest on this). Nothing is assumed of who gets the advancement: the code says it is unfair.
* `ModuleLease!FairSpec`: a call under way goes on (weak), a lease is dropped at some
  point (strong: a handle may be moved instead of dropped, but not for ever), and a
  caller that was told `busy` retries (weak: the registry's documented use).

## 4. Proofs

`ReclamationProofs`. The domain, for every number of threads, objects, epochs and batch sizes:

* `TypeCorrect`, `WatermarksMonotone`: no further assumption.
* `Inductive`, `ReadersAreSafe`, `GracePeriods`, `Implements`:
  assuming `Sequential`, i.e. `StoreBuffering = FALSE` and `MaxDepth = 1`. Both are
  needed: `rcu_store_buffer`, and the nested section of section 3, are the counterexamples
  without them.

`IInv` says: nothing is ahead of the global epoch and every collection aims strictly
below it (`EpochOrder`); a thread inside a section is on the list with a nonzero epoch
(`SectionsVisible`); published and swapped-out objects were never queued (`Lifecycle`);
a node is in one list (`QueuedOnce`); the collector holds the lock (`CallState`); one
owner (`OneAdvancement`); and, the heart of it, `ReadersCovered`: a reader entered no
later than the retirement of what it holds, and a scan that has left it behind aims
below that retirement. `NoUseAfterReclaim` alone is not inductive, because it says
nothing of a scan half way through. `WatermarkBehindReaders` and `ReclaimedCovered`
carry it over to what has been reclaimed. The invariant is proved one conjunct per
lemma, each with one step per group of actions.

`ModuleLeaseProofs`, for every finite set of handles and every platform: the count is
the cardinality of the handles between their increment and their decrement
(`CountExact`), so a count of zero means no granted lease; from the moment
`wait_for_idle()` saw zero the state is `draining`, so every later increment is
refused by its second look (`UnloaderState`). From it `LeaseExcludesUnload` and the
refinement `LeaseImplements`. `LeaseKeepsMapping` assumes `~PinMayFail` (section 3 says
what a failed pin does); it says that neither the owner's close nor an unpin unmaps the library
under a granted lease, once the acquire that raised the count from zero has pinned. It needs
`ReferencesCover`: there is a reference for every handle that may still drop one, the loader's
own while it is open, and the one that the present leases took, unless that acquire was
refused (`refused`) or is yet to pin. So the proof rests on the pin: with `RecheckNeverPins` in the place of
`Recheck` the same statement fails.

The object over it (`ReclamationProofs`), for every number of threads and images, assuming `Sequential` as for the
domain: `ReadersKeepImages` and `OutcomesAreProven` from `ObjectInv`. The domain's own
invariant does not carry over, because its client queues one object per exchange while
`retire_image()` queues two, and frees one that was never queued when there is no memory
for its node. `ObjectInv` keeps the parts that do not depend on the client, and adds how far a
retirement has come (`RetireProgress`) and that a reader holds back both parts of its
image, each in its own class and from the moment it is queued (`PartsCovered`).

`FunctionHandleProofs`, for every number of threads, handles and addresses and every table:
`ImagesHaveOneOwner` and `ControlStaysSound` without further assumption (a retirement that found
no memory for its node is one of the steps: its image stays mapped, without an owner, and
nobody frees or discards it),
`CallsReachTheirFunction` assuming `NoCollision`. The fast path compares 32-bit hashes
only; with two names of one hash in a table it can call the other one, so the assumption is
needed. The invariant says who owns an image (`OneOwner`), who keeps the control
(`ControlOwned`), that what a section has read stays mapped and is not in the hands of a
thread that will discard it (`SectionsMapped`), and which handle a call uses.

`ModuleRegistryProofs`, for every set of manifests, both capacities and every number of
clients, without further assumption: `SlotsStayConsistent`, `LookupsStayExact`,
`BoundStaysLive`. `RegistryInv` says that the used slots cut disjoint pieces out of the
array, each with the bindings of its module, that the pieces cover it, and that they are
in the order of registration (`ArrayInOrder`); ids grow, so that order is the order of ids. That
`FindFirst` returns the newest and `FindInterface` the first `max` offers in order is then
an induction over the array. `ClientsInv` adds that a copy of a binding names a module that
was registered when it was looked up.

`ExportIndexProofs`, for every number of threads and indexes, every table of
`TablesAssumption` and every hash function on names: `ArraysStayOwned` and `IndexAnswersRight`. The
contents are described by `InPlace`: after k entries the array has these and nothing else, in k
slots; each is reached from its hash without an empty slot on the way; and of two entries
of one hash the earlier in the table is met first. `InsertKeepsPlace` is one round of the
loop of `build()`, `FilledInPlace` the induction over the table, whatever the array held
before it was cleared. A capacity above the number of entries leaves a slot free
(`CapacityFits`, `SlotIsFree`), so probes end; and a probe that accepts entries of one hash
returns the first of them in the table (`HitIsFirst`), which is what the scan returns. Ownership
(`OneArrayOwner`) is what keeps a build from changing the array of another index.

The probe's counters (`ReclamationProofs`), for any number of writers and readers, every
window and every bound of `ProbeAssumption`: `StatisticsStayTrue`, `DrainTakesAll`,
`ReloadsWait`. The sums in `StatisticsTrue` hold only when all have joined; `ProbeInv` says
what a writer has put into each counter at every step in between (`EndsOf`, `TimeoutsOf`,
`CountersInv`), that at most one owns the advancement (`HandshakeInv`), that a batch is
published by the call its writer makes next (`NodesInv`), and that a maximum which was read
is still reached (`ObservedInv`), which a compare-and-swap keeps and a store would not.

The reload loop (`ExportIndexProofs`): `CadenceIsKept`, for every batch size of
`CadenceAssumption` and any number of reloads. `BatchKept` says where in its batch the domain
is: what waits is of this batch, what was collected of the batched class is of an earlier
one, and no watermark has come to the present epoch.

The benchmarks' own index layouts and schedules (`ExportIndexProofs`): `LayoutsStayAgreed`,
for any tables of `BenchAssumption`, any hash of their names and any width of the stamp.
`BenchInv` says that the three arrays have the same entries in the same slots (`Matching`),
that these are the entries of the table, each within reach of its hash (`Holding`), and that
no slot has a stamp from the future; so the stamp of the next `build()` is new to the array,
also after the wrap, which clears it (`StampIsNew`). The slots that are free, or end a
probe, are then the same three sets. `WorkIsSound`, for any machines, thresholds and totals,
and any profiles of `WorkAssumption`: percentages sum to 100 (asserted at `workload.cpp:12`)
and every profile reads. What is to be shown of the table's rows is a sum over threads
that the code computes in a loop (`ThreadsAddUp`); a schedule has no more operations of a kind
than its share, as the places of a share are apart by a stride (`PlacesFit`, `CountsAddUp`); and
in a sweep what is pending is what was retired since the last synchronize().

`SharedStateProofs`: `SharedBlocksSound`, for any number of threads, variables and blocks,
assumes `Serialized`, i.e. operations on a `WeakPtr` exclude all others (`shared_race` is the counterexample
without it); the counts are those of the variables, plus one for a `release()` between
its halves (`CountsExact`). `RefBlocksStaySound`, for any finite number of objects and
variables, assumes `NoWayBack`: objects can be ranked so that rank grows along their
pointers (section 3 has the counterexample without it). The counts are the pointers
there are (`RefCounts`), members of half-destroyed objects included; what is being destroyed
has no owner left and is ranked from the outermost call to the innermost (`StackOrdered`),
so a pointer that a callback drops never leads to an object on the stack; and a block is
allocated while it is counted or on the stack (`BlocksNeeded`). `DeliveryStaysSound`, for any number of logging threads, assumes
`OneConfigurer`; two at once can leave both kinds of sink installed (section 3).
`CellsStayOwnedOnce`, for any set of cells and chains of any length, has no further
assumption. What is live is what is owned, and by one owner (`OwnersInv`); the other half is
that chains end: a rank falls along `inner` (`Acyclic`), so that a chain destroyed from its
root cannot meet a cell twice.

`BindingProofs`, for what is bound at start-up and for the computations:

* `DispatchIsSound`, for any contracts, objects, tables and proxies, assumes `SlotsDistinct`
  (section 3 has the implementation that needs it). `DispatchInv` carries along that every slot
  array, of a reference, a proxy or a shared table, is for one type and for the contract, and
  that registered claims differ.
* `TypesAreSound`, for any set of modules, assumes `BootRoom`: `bootstrap_self()` drops what
  does not fit. `TypesInv` ties the entries to the canonical registry and to the modules that
  were accepted. `check_module()` counts the types that are new, and the loop of
  `register_module()` is shown to add exactly those, so no array is full half way.
* `PlansAreSound`, for every plan and pair of layouts of `PlansAssumption`.
* `ReadersStayBounded`, for files of any size with any header fields (`FilesAssumption`): a
  reader is a list of stages, each with the bytes it reads and the test that must hold for
  the next one; for each stage its bytes are in the file if the tests before it held. The
  exception of `EarlyNames` was found by this proof. An ELF entry whose end passes the wrapping
  test lies in the table, or up to 24 bytes before it, or before the file
  (`EntryInFileOrBefore`); that a file is shorter than half of 2^64 is assumed.
* `WordsStayExact`, for every width, unit and frequency of `WordsAssumption`: division with
  remainder by a number that is not a literal rests on `Quotient`, and the backends agree
  by induction over the operations.
* `IdentitiesStayFaithful`, for any contracts, methods, layouts, calls and signatures. That
  what is equal has one hash is plain; the work is the other direction, from the text that
  was fed to the hash back to what it stands for. `PiecesUnique` does it for all of them: if no
  piece is the end of another one, a text can be taken apart in one way, from its last piece
  on. Pieces of one length are such pieces (bytes of layouts and calls), and so are a colon
  and the digits behind it (contracts); `DigitsInjective` says that a number can be read back
  from its digits. `SortLoop` is the insertion sort's loop, and `RisingUnique` makes its result
  the one list in slot order. Assumed of contracts (`ContractsAssumption`): no slot twice, and
  a name ends in an identifier (a name that ended in `:1` would run into the version behind
  it). The text of a method signature has no separators (`Contract.h:183`), so of methods the theorem
  supposes `MethodsReadable`: the decimal texts of all halves of type ids have one length, and
  no name ends in digits only for the length of an id. Without it name and type ids can be
  cut in another place, e.g. the halves 1 and 23 or 12 and 3.

`Induction` states induction with the set of numbers that have a property in place of an
operator, and proves from the well-foundedness of the numbers that a loop over an interval
computes something (`LoopExists`). With it, what the recursive functions of the models compute
is proved by ordinary steps.

Each inductive invariant was checked with TLC on the instance of its run as well; they
quantify over the same constants as the properties.

`MCParts` has TLC evaluate the suppositions of these theorems that are about constants
(`TheoremsApply`).

Only model-checked: liveness (`AdvancementEnds`, `UnloadCompletes`), which this proof
system does not handle; the refuted statements; and `StatisticsSound` of the stress
benchmark, which folds operators over sequences of samples: its run enumerates samples of small sizes.

## 5. Not modelled, and the plan

Left out for good:

* `STD/*` and `Bridge/*`: value types without transitions of their own, and templates over a
  third-party reflection library that is not part of this repository.
* Constant tables, names and texts (`to_string` and the like), macros, the declarations that
  only produce types, logging text and printing.
* Tests, sample libraries, scripts, and the benchmarks that are straight-line timing loops
  (`call_bench`, `atomic_bench`, `falseSharing_bench`, `ebr/*`, `reload_bench`, the lookup and
  dispatch comparisons): they keep no state that could be wrong, apart from the library's.
* The operating system's loader beyond its reference count, the byte values behind a hash,
  memory orders other than the store buffer of `enter()`, 64-bit wrap of the epoch.

Done in this order: the domain and its proofs, leases and their proofs, the registry,
`dll::Object`, handles, pointers, lookup, dispatch, types, logging, computations, drivers.
Proved after that: the domain's and the leases' remaining invariants, `dll::Object`,
handles, the registry, the export index, pointers and closures, logging, dispatch, types,
map plans, the readers of binary files, words, identities, the probe's counters, the reload loop,
the index layouts and the workloads.
Next would be `StatisticsSound`.

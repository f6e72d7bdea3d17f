----------------------------- MODULE RcuDomain -----------------------------
(***************************************************************************)
(* The process-wide epoch domain of RCU/Domain.h: readers publish the      *)
(* epoch they entered at, writers retire objects into thread-local         *)
(* batches, and a writer that advances the global epoch reclaims what was  *)
(* retired before the advancement once every reader of it has passed.      *)
(*                                                                         *)
(* Every access to shared memory that another thread can interleave with   *)
(* is a step of its own.  A critical section of the writer lock that runs  *)
(* no reclaim callback is one step, enabled while the lock is free; the    *)
(* section that does run callbacks holds `lock` across steps, because      *)
(* readers go on while it runs.                                            *)
(*                                                                         *)
(* The client is the one pattern the repository uses the domain for: a     *)
(* pointer (`image`) that a reader loads inside its section, and that a    *)
(* writer exchanges and then retires.                                      *)
(***************************************************************************)
EXTENDS Naturals, FiniteSets

CONSTANTS
    Threads,         \* the threads of the process
    Objects,         \* the objects that can be published and retired
    NoThread,        \* the writer lock is free
    NoObject,        \* the null pointer
    EpochBatch,      \* SKL_ABIX_RCU_EPOCH_BATCH
    BatchPublish,    \* SKL_ABIX_RCU_BATCH_PUBLISH
    MaxEpoch,        \* bound: the largest global epoch a run explores
    MaxDepth,        \* bound: how deep read-side sections nest in one thread
    StoreBuffering,  \* TRUE: a plain store may be seen after a later load (x86)
    Calls            \* the synchronization calls the client makes

ASSUME ThreadsAssumption == NoThread \notin Threads
ASSUME ObjectsAssumption == NoObject \notin Objects
ASSUME BatchAssumption == EpochBatch \in Nat \ {0} /\ BatchPublish \in Nat \ {0}
ASSUME EpochAssumption == MaxEpoch \in Nat \ {0}
ASSUME DepthAssumption == MaxDepth \in Nat \ {0}
ASSUME BufferAssumption == StoreBuffering \in BOOLEAN

\* ReclaimClass: which call collects a retired node.
Classes == {"batched", "eager"}

\* synchronize, synchronize_eager, synchronize_until with a deadline and with
\* Deadline::never(), try_collect.
Kinds == {"sync", "eager", "until", "never", "try"}

ASSUME CallsAssumption == Calls \subseteq Kinds

\* Where a thread stands inside a call of the domain; "idle" is outside.
Labels == {"idle", "load", "store", "publish", "await", "until", "poll", "scan",
           "finish", "collect", "reclaim", "exited"}

VARIABLES
    global, completed, sync,   \* Epoch: global, completed / completed_eager, sync
    syncCount,                 \* _sync_count
    lock,                      \* _writer.lock, with its holder
    threads,                   \* _reader.threads: the registered threads
    epoch,                     \* ThreadState::epoch as other threads see it
    own,                       \* ThreadState::epoch as its own thread last stored it
    retired,                   \* _reader.retired
    batch,                     \* the thread-local RetiredBatch
    nodeEpoch, nodeCls,        \* RetiredNode::epoch (0: never queued) and ::cls
    reclaimed,                 \* objects whose reclaim callback has run
    pc, kind, safe, scan, todo, loaded,  \* locals of the call a thread is in
    image, fresh, unlinked,    \* client: published pointer, unused objects, swapped-out object
    depth, refs                \* client: open sections and the object each one loaded

epochVars  == <<global, completed, sync, syncCount>>
readerVars == <<threads, epoch, own, loaded, depth, refs>>
nodeVars   == <<retired, batch, nodeEpoch, nodeCls, reclaimed>>
callVars   == <<kind, safe, scan, todo>>
clientVars == <<image, fresh, unlinked>>
vars == <<epochVars, lock, readerVars, nodeVars, pc, callVars, clientVars>>

EpochTypes ==
    /\ global \in Nat \ {0}
    /\ completed \in [Classes -> Nat]
    /\ sync \in Nat
    /\ syncCount \in Nat
    /\ lock \in Threads \union {NoThread}

ReaderTypes ==
    /\ threads \subseteq Threads
    /\ epoch \in [Threads -> Nat]
    /\ own \in [Threads -> Nat]
    /\ loaded \in [Threads -> Nat]
    /\ depth \in [Threads -> 0..MaxDepth]
    /\ refs \in [Threads -> [1..MaxDepth -> Objects \union {NoObject}]]

NodeTypes ==
    /\ retired \subseteq Objects
    /\ batch \in [Threads -> SUBSET Objects]
    /\ nodeEpoch \in [Objects -> Nat]
    /\ nodeCls \in [Objects -> Classes]
    /\ reclaimed \subseteq Objects

CallTypes ==
    /\ pc \in [Threads -> Labels]
    /\ kind \in [Threads -> Kinds]
    /\ safe \in [Threads -> Nat]
    /\ scan \in [Threads -> SUBSET Threads]
    /\ todo \in [Threads -> SUBSET Classes]

ClientTypes ==
    /\ image \in Objects \union {NoObject}
    /\ fresh \subseteq Objects
    /\ unlinked \in [Threads -> Objects \union {NoObject}]

\* The type invariant.
TypeOK == EpochTypes /\ ReaderTypes /\ NodeTypes /\ CallTypes /\ ClientTypes

Init ==
    /\ global = 1
    /\ completed = [c \in Classes |-> 0]
    /\ sync = 0
    /\ syncCount = 0
    /\ lock = NoThread
    /\ threads = {}
    /\ epoch = [t \in Threads |-> 0]
    /\ own = [t \in Threads |-> 0]
    /\ loaded = [t \in Threads |-> 0]
    /\ retired = {}
    /\ batch = [t \in Threads |-> {}]
    /\ nodeEpoch = [o \in Objects |-> 0]
    /\ nodeCls = [o \in Objects |-> "batched"]
    /\ reclaimed = {}
    /\ pc = [t \in Threads |-> "idle"]
    /\ kind = [t \in Threads |-> "sync"]
    /\ safe = [t \in Threads |-> 0]
    /\ scan = [t \in Threads |-> {}]
    /\ todo = [t \in Threads |-> {}]
    /\ image = NoObject
    /\ fresh = Objects
    /\ unlinked = [t \in Threads |-> NoObject]
    /\ depth = [t \in Threads |-> 0]
    /\ refs = [t \in Threads |-> [d \in 1..MaxDepth |-> NoObject]]

-----------------------------------------------------------------------------
(***************************************************************************)
(* Read side.                                                              *)
(***************************************************************************)

\* Nothing this thread stored is still on its way to memory.  An interlocked
\* instruction (exchange, increment) waits for that; a plain load does not.
Drained(t) == own[t] = epoch[t]

\* store_release(&t->epoch, e): visible at once, or after a Flush.
StoreEpoch(t, e) ==
    /\ Drained(t)
    /\ own' = [own EXCEPT ![t] = e]
    /\ epoch' = IF StoreBuffering THEN epoch ELSE [epoch EXCEPT ![t] = e]

\* lock_writer() for a section that this step also leaves.
WriterLockFree(t) == lock = NoThread /\ Drained(t)

\* get_thread(), the first time: the node is pushed on the reader list and
\* stays there for the life of the process.
RegisterThread(t) ==
    /\ pc[t] = "idle"
    /\ t \notin threads
    /\ WriterLockFree(t)
    /\ threads' = threads \union {t}
    /\ pc' = [pc EXCEPT ![t] = "load"]
    /\ UNCHANGED <<epochVars, lock, epoch, own, loaded, depth, refs, nodeVars,
                   callVars, clientVars>>

\* enter(): reads the global epoch ...
EnterLoad(t) ==
    /\ pc[t] = "load" \/ (pc[t] = "idle" /\ t \in threads)
    /\ depth[t] < MaxDepth
    /\ loaded' = [loaded EXCEPT ![t] = global]
    /\ pc' = [pc EXCEPT ![t] = "store"]
    /\ UNCHANGED <<epochVars, lock, threads, epoch, own, depth, refs, nodeVars,
                   callVars, clientVars>>

\* ... and stores it, with nothing to keep an advancement from coming between.
EnterStore(t) ==
    /\ pc[t] = "store"
    /\ depth[t] < MaxDepth
    /\ StoreEpoch(t, loaded[t])
    /\ loaded' = [loaded EXCEPT ![t] = 0]
    /\ depth' = [depth EXCEPT ![t] = depth[t] + 1]
    /\ pc' = [pc EXCEPT ![t] = "idle"]
    /\ UNCHANGED <<epochVars, lock, threads, refs, nodeVars, callVars, clientVars>>

\* The store buffer writes the epoch back.
Flush(t) ==
    /\ ~Drained(t)
    /\ epoch' = [epoch EXCEPT ![t] = own[t]]
    /\ UNCHANGED <<epochVars, lock, threads, own, loaded, depth, refs, nodeVars,
                   pc, callVars, clientVars>>

\* Client: load_acquire of the published pointer, inside the innermost section.
LoadImage(t) ==
    /\ pc[t] = "idle"
    /\ depth[t] > 0
    /\ image # NoObject
    /\ refs[t][depth[t]] = NoObject
    /\ refs' = [refs EXCEPT ![t][depth[t]] = image]
    /\ UNCHANGED <<epochVars, lock, threads, epoch, own, loaded, depth, nodeVars,
                   pc, callVars, clientVars>>

\* exit(): the thread is quiescent, whatever sections were open around this one.
Exit(t) ==
    /\ pc[t] = "idle"
    /\ depth[t] > 0
    /\ StoreEpoch(t, 0)
    /\ depth' = [depth EXCEPT ![t] = depth[t] - 1]
    /\ refs' = [refs EXCEPT ![t][depth[t]] = NoObject]
    /\ UNCHANGED <<epochVars, lock, threads, loaded, nodeVars, pc, callVars,
                   clientVars>>

\* The thread ends: ~wrapper stores epoch 0; the thread-local batch has no
\* destructor, so what it still holds is never published.
ThreadExit(t) ==
    /\ pc[t] = "idle"
    /\ depth[t] = 0
    /\ unlinked[t] = NoObject
    /\ StoreEpoch(t, 0)
    /\ pc' = [pc EXCEPT ![t] = "exited"]
    /\ UNCHANGED <<epochVars, lock, threads, loaded, depth, refs, nodeVars,
                   callVars, clientVars>>

-----------------------------------------------------------------------------
(***************************************************************************)
(* Retirement.                                                             *)
(***************************************************************************)

\* Client: exchange of the published pointer for a new object or for null.
Swap(t, o) ==
    /\ pc[t] = "idle"
    /\ unlinked[t] = NoObject
    /\ o \in fresh \union {NoObject}
    /\ o # image
    /\ Drained(t)
    /\ unlinked' = [unlinked EXCEPT ![t] = image]
    /\ image' = o
    /\ fresh' = fresh \ {o}
    /\ UNCHANGED <<epochVars, lock, readerVars, nodeVars, pc, callVars>>

\* Mutation of QueueNode: the node is stamped with the epoch before this one.
QueueNodeStale(t, o, c) ==
    /\ nodeEpoch' = [nodeEpoch EXCEPT ![o] = global - 1]
    /\ nodeCls' = [nodeCls EXCEPT ![o] = c]
    /\ batch' = [batch EXCEPT ![t] = batch[t] \union {o}]
    /\ pc' = [pc EXCEPT ![t] = IF Cardinality(batch[t] \union {o}) >= BatchPublish
                               THEN "publish" ELSE "idle"]
    /\ UNCHANGED <<retired, reclaimed>>

\* retire_impl(): the node carries the epoch read here, and goes to the local
\* batch; a full batch is published before the call returns.
QueueNode(t, o, c) ==
    /\ nodeEpoch' = [nodeEpoch EXCEPT ![o] = global]
    /\ nodeCls' = [nodeCls EXCEPT ![o] = c]
    /\ batch' = [batch EXCEPT ![t] = batch[t] \union {o}]
    /\ pc' = [pc EXCEPT ![t] = IF Cardinality(batch[t] \union {o}) >= BatchPublish
                               THEN "publish" ELSE "idle"]
    /\ UNCHANGED <<retired, reclaimed>>

\* retire(), retire_eager(), retire_token() of the object swapped out.
Retire(t, c) ==
    /\ pc[t] = "idle"
    /\ unlinked[t] # NoObject
    /\ QueueNode(t, unlinked[t], c)
    /\ unlinked' = [unlinked EXCEPT ![t] = NoObject]
    /\ UNCHANGED <<epochVars, lock, readerVars, callVars, image, fresh>>

\* retire_impl() without memory for the node: nothing is queued.
RetireFails(t) ==
    /\ pc[t] = "idle"
    /\ unlinked[t] # NoObject
    /\ unlinked' = [unlinked EXCEPT ![t] = NoObject]
    /\ UNCHANGED <<epochVars, lock, readerVars, nodeVars, pc, callVars, image, fresh>>

\* publish_local_batch_locked()
PublishBatch(t) ==
    /\ retired' = retired \union batch[t]
    /\ batch' = [batch EXCEPT ![t] = {}]
    /\ UNCHANGED <<nodeEpoch, nodeCls, reclaimed>>

\* publish_local_batch(), from retire_impl
PublishFull(t) ==
    /\ pc[t] = "publish"
    /\ WriterLockFree(t)
    /\ PublishBatch(t)
    /\ pc' = [pc EXCEPT ![t] = "idle"]
    /\ UNCHANGED <<epochVars, lock, readerVars, callVars, clientVars>>

-----------------------------------------------------------------------------
(***************************************************************************)
(* Advancement.                                                            *)
(***************************************************************************)

\* Mutation of Advance: an advancement in progress is not looked at.
AdvanceUnowned(t) ==
    /\ global < MaxEpoch
    /\ safe' = [safe EXCEPT ![t] = global]
    /\ global' = global + 1
    /\ sync' = global + 1
    /\ pc' = [pc EXCEPT ![t] = "poll"]

\* Takes the advancement: what was retired up to the old epoch is the target.
Advance(t) ==
    /\ sync = 0
    /\ global < MaxEpoch
    /\ safe' = [safe EXCEPT ![t] = global]
    /\ global' = global + 1
    /\ sync' = global + 1
    /\ pc' = [pc EXCEPT ![t] = "poll"]

\* The call returns and its locals go out of scope.
Return(t) ==
    /\ pc' = [pc EXCEPT ![t] = "idle"]
    /\ kind' = [kind EXCEPT ![t] = "sync"]
    /\ safe' = [safe EXCEPT ![t] = 0]
    /\ UNCHANGED <<scan, todo>>

\* A client waits unboundedly only outside its own section: inside, it would
\* wait for itself (api.md, "Grace Period and Reclamation Latency").
MayCall(t, k) ==
    /\ pc[t] = "idle"
    /\ k \in Calls
    /\ depth[t] = 0 \/ k \in {"until", "try"}

\* synchronize_impl(): another writer owns the advancement.
SyncContended(t, k) ==
    /\ MayCall(t, k)
    /\ WriterLockFree(t)
    /\ sync # 0
    /\ PublishBatch(t)
    /\ pc' = [pc EXCEPT ![t] = "await"]
    /\ UNCHANGED <<epochVars, lock, readerVars, callVars, clientVars>>

\* ... it returns once that advancement is over, having collected nothing.
AwaitSync(t) ==
    /\ pc[t] = "await"
    /\ sync = 0
    /\ pc' = [pc EXCEPT ![t] = "idle"]
    /\ UNCHANGED <<epochVars, lock, readerVars, nodeVars, callVars, clientVars>>

\* synchronize(): the batch counter is not full, the call only publishes.
SyncGated(t) ==
    /\ MayCall(t, "sync")
    /\ WriterLockFree(t)
    /\ sync = 0
    /\ syncCount + 1 < EpochBatch
    /\ PublishBatch(t)
    /\ syncCount' = syncCount + 1
    /\ UNCHANGED <<global, completed, sync, lock, readerVars, pc, callVars, clientVars>>

\* synchronize_impl(): the caller advances the epoch.
SyncAdvance(t, k) ==
    /\ MayCall(t, k)
    /\ WriterLockFree(t)
    /\ k = "sync" => syncCount + 1 >= EpochBatch
    /\ PublishBatch(t)
    /\ syncCount' = IF k = "sync" THEN 0 ELSE syncCount
    /\ Advance(t)
    /\ kind' = [kind EXCEPT ![t] = k]
    /\ UNCHANGED <<completed, lock, readerVars, scan, todo, clientVars>>

\* synchronize_until() is called.
BeginUntil(t, k) ==
    /\ MayCall(t, k)
    /\ kind' = [kind EXCEPT ![t] = k]
    /\ pc' = [pc EXCEPT ![t] = "until"]
    /\ UNCHANGED <<epochVars, lock, readerVars, nodeVars, safe, scan, todo, clientVars>>

\* begin_advance() finds another owner: the call retries, or, past its
\* deadline, returns false.
UntilContended(t) ==
    /\ pc[t] = "until"
    /\ WriterLockFree(t)
    /\ sync # 0
    /\ PublishBatch(t)
    /\ \/ UNCHANGED <<pc, callVars>>
       \/ kind[t] = "until" /\ Return(t)
    /\ UNCHANGED <<epochVars, lock, readerVars, clientVars>>

\* begin_advance() takes the advancement.
UntilAdvance(t) ==
    /\ pc[t] = "until"
    /\ WriterLockFree(t)
    /\ PublishBatch(t)
    /\ Advance(t)
    /\ UNCHANGED <<completed, syncCount, lock, readerVars, kind, scan, todo, clientVars>>

\* try_collect(): takes the lock at the first try, publishes and reads the
\* epoch; the candidate `min_epoch - 1` starts just below it.  (When the lock
\* is taken the call returns, and changes nothing.)
TryCollect(t) ==
    /\ MayCall(t, "try")
    /\ WriterLockFree(t)
    /\ PublishBatch(t)
    /\ kind' = [kind EXCEPT ![t] = "try"]
    /\ safe' = [safe EXCEPT ![t] = global - 1]
    /\ pc' = [pc EXCEPT ![t] = "poll"]
    /\ UNCHANGED <<epochVars, lock, readerVars, scan, todo, clientVars>>

-----------------------------------------------------------------------------
(***************************************************************************)
(* The scan of the reader list, which takes no lock.                       *)
(***************************************************************************)

\* load_threads(): a thread registered later is not met by this walk.
LoadThreads(t) ==
    /\ pc[t] = "poll"
    /\ scan' = [scan EXCEPT ![t] = threads]
    /\ pc' = [pc EXCEPT ![t] = "scan"]
    /\ UNCHANGED <<epochVars, lock, readerVars, nodeVars, kind, safe, todo, clientVars>>

\* Mutations of Blocks: a reader that entered at the target epoch passes; a
\* quiescent thread blocks; any reader inside a section blocks.
BlocksBelow(u, target) == epoch[u] # 0 /\ epoch[u] < target
BlocksQuiescent(u, target) == epoch[u] <= target
BlocksInside(u, target) == epoch[u] # 0

\* readers_passed(): a reader that entered at or before the target epoch blocks.
Blocks(u, target) == epoch[u] # 0 /\ epoch[u] <= target

\* readers_passed() walks over a reader that does not block.
ScanPassed(t, u) ==
    /\ pc[t] = "scan"
    /\ u \in scan[t]
    /\ kind[t] # "try"
    /\ ~Blocks(u, safe[t])
    /\ scan' = [scan EXCEPT ![t] = scan[t] \ {u}]
    /\ UNCHANGED <<epochVars, lock, readerVars, nodeVars, pc, kind, safe, todo, clientVars>>

\* Mutation of ScanBlocked: an expired deadline collects all the same.
ScanBlockedCollects(t, u) ==
    /\ pc[t] = "scan"
    /\ u \in scan[t]
    /\ kind[t] # "try"
    /\ Blocks(u, safe[t])
    /\ \/ /\ pc' = [pc EXCEPT ![t] = "poll"]
          /\ UNCHANGED todo
       \/ /\ kind[t] = "until"
          /\ pc' = [pc EXCEPT ![t] = "finish"]
          /\ todo' = [todo EXCEPT ![t] = Classes]
    /\ scan' = [scan EXCEPT ![t] = {}]
    /\ UNCHANGED <<epochVars, lock, readerVars, nodeVars, kind, safe, clientVars>>

\* readers_passed() returns false: the caller polls again, or, past a
\* deadline, goes to end_advance() without collecting.
ScanBlocked(t, u) ==
    /\ pc[t] = "scan"
    /\ u \in scan[t]
    /\ kind[t] # "try"
    /\ Blocks(u, safe[t])
    /\ \/ pc' = [pc EXCEPT ![t] = "poll"]
       \/ kind[t] = "until" /\ pc' = [pc EXCEPT ![t] = "finish"]
    /\ scan' = [scan EXCEPT ![t] = {}]
    /\ UNCHANGED <<epochVars, lock, readerVars, nodeVars, kind, safe, todo, clientVars>>

\* try_collect() lowers its candidate to below the epoch of a reader inside.
ScanMinimum(t, u) ==
    /\ pc[t] = "scan"
    /\ u \in scan[t]
    /\ kind[t] = "try"
    /\ scan' = [scan EXCEPT ![t] = scan[t] \ {u}]
    /\ safe' = [safe EXCEPT ![t] = IF Blocks(u, safe[t]) THEN epoch[u] - 1 ELSE safe[t]]
    /\ UNCHANGED <<epochVars, lock, readerVars, nodeVars, pc, kind, todo, clientVars>>

\* The classes a call collects once its scan is over.
Collects(k) ==
    CASE k = "sync"  -> {"batched"}
      [] k = "eager" -> {"eager"}
      [] OTHER       -> Classes

\* The walk has reached the end of the list.
ScanDone(t) ==
    /\ pc[t] = "scan"
    /\ scan[t] = {}
    /\ \/ kind[t] = "try" /\ safe[t] = 0 /\ Return(t)     \* min_epoch is 1
       \/ /\ kind[t] # "try" \/ safe[t] > 0
          /\ pc' = [pc EXCEPT ![t] = "finish"]
          /\ todo' = [todo EXCEPT ![t] = Collects(kind[t])]
          /\ UNCHANGED <<kind, safe, scan>>
    /\ UNCHANGED <<epochVars, lock, readerVars, nodeVars, clientVars>>

-----------------------------------------------------------------------------
(***************************************************************************)
(* Collection, under the writer lock.                                      *)
(***************************************************************************)

\* lock_writer()
CollectLock(t) ==
    /\ pc[t] = "finish"
    /\ WriterLockFree(t)
    /\ lock' = t
    /\ pc' = [pc EXCEPT ![t] = "collect"]
    /\ UNCHANGED <<epochVars, readerVars, nodeVars, callVars, clientVars>>

\* The eager class is collected before the batched one.
NextClass(t) == IF "eager" \in todo[t] THEN "eager" ELSE "batched"

\* collect(): a watermark that is already there ends it at once ...
CollectSkip(t) ==
    /\ pc[t] = "collect"
    /\ todo[t] # {}
    /\ safe[t] <= completed[NextClass(t)]
    /\ todo' = [todo EXCEPT ![t] = todo[t] \ {NextClass(t)}]
    /\ UNCHANGED <<epochVars, lock, readerVars, nodeVars, pc, kind, safe, scan, clientVars>>

\* Mutation of CollectMark: the watermark is overwritten whatever it was.
CollectMarkAlways(t) ==
    /\ pc[t] = "collect"
    /\ todo[t] # {}
    /\ completed' = [completed EXCEPT ![NextClass(t)] = safe[t]]
    /\ pc' = [pc EXCEPT ![t] = "reclaim"]
    /\ UNCHANGED <<global, sync, syncCount, lock, readerVars, nodeVars, callVars, clientVars>>

\* ... otherwise the watermark moves before the first callback runs.
CollectMark(t) ==
    /\ pc[t] = "collect"
    /\ todo[t] # {}
    /\ safe[t] > completed[NextClass(t)]
    /\ completed' = [completed EXCEPT ![NextClass(t)] = safe[t]]
    /\ pc' = [pc EXCEPT ![t] = "reclaim"]
    /\ UNCHANGED <<global, sync, syncCount, lock, readerVars, nodeVars, callVars, clientVars>>

\* The published nodes this pass reclaims.
Collectable(t) ==
    {o \in retired : nodeCls[o] = NextClass(t) /\ nodeEpoch[o] <= safe[t]}

\* collect(): unlinks one node and runs its callback.
CollectReclaim(t, o) ==
    /\ pc[t] = "reclaim"
    /\ o \in Collectable(t)
    /\ retired' = retired \ {o}
    /\ reclaimed' = reclaimed \union {o}
    /\ UNCHANGED <<epochVars, lock, readerVars, batch, nodeEpoch, nodeCls, pc,
                   callVars, clientVars>>

\* collect() has walked the whole list.
CollectDone(t) ==
    /\ pc[t] = "reclaim"
    /\ Collectable(t) = {}
    /\ todo' = [todo EXCEPT ![t] = todo[t] \ {NextClass(t)}]
    /\ pc' = [pc EXCEPT ![t] = "collect"]
    /\ UNCHANGED <<epochVars, lock, readerVars, nodeVars, kind, safe, scan, clientVars>>

\* The owner of an advancement gives it back; the lock is released.
CollectEnd(t) ==
    /\ pc[t] = "collect"
    /\ todo[t] = {}
    /\ sync' = IF kind[t] = "try" THEN sync ELSE 0
    /\ lock' = NoThread
    /\ Return(t)
    /\ UNCHANGED <<global, completed, syncCount, readerVars, nodeVars, clientVars>>

-----------------------------------------------------------------------------
\* The steps of a reader, of a writer that publishes, of one that asks for a
\* synchronization, and those that carry on inside a call.
ReaderStep(t) ==
    \/ RegisterThread(t)
    \/ EnterLoad(t)
    \/ EnterStore(t)
    \/ Flush(t)
    \/ LoadImage(t)
    \/ Exit(t)
    \/ ThreadExit(t)

RetireStep(t) ==
    \/ \E o \in Objects \union {NoObject} : Swap(t, o)
    \/ \E c \in Classes : Retire(t, c)
    \/ RetireFails(t)

SyncCall(t) ==
    \/ \E k \in {"sync", "eager"} : SyncContended(t, k)
    \/ SyncGated(t)
    \/ \E k \in {"sync", "eager"} : SyncAdvance(t, k)
    \/ \E k \in {"until", "never"} : BeginUntil(t, k)
    \/ TryCollect(t)

CallStep(t) ==
    \/ PublishFull(t)
    \/ AwaitSync(t)
    \/ UntilContended(t)
    \/ UntilAdvance(t)
    \/ LoadThreads(t)
    \/ \E u \in Threads : ScanPassed(t, u)
    \/ \E u \in Threads : ScanBlocked(t, u)
    \/ \E u \in Threads : ScanMinimum(t, u)
    \/ ScanDone(t)
    \/ CollectLock(t)
    \/ CollectSkip(t)
    \/ CollectMark(t)
    \/ \E o \in Objects : CollectReclaim(t, o)
    \/ CollectDone(t)
    \/ CollectEnd(t)

Step(t) == ReaderStep(t) \/ RetireStep(t) \/ SyncCall(t) \/ CallStep(t)

Next == \E t \in Threads : Step(t)

Spec == Init /\ [][Next]_vars
-----------------------------------------------------------------------------
(***************************************************************************)
(* Properties.                                                             *)
(***************************************************************************)

\* Thread u is inside a section in which it loaded object o.
Holds(u, o) == \E d \in 1..depth[u] : refs[u][d] = o

\* The thread owns the advancement in progress.
Owns(t) ==
    pc[t] \in {"poll", "scan", "finish", "collect", "reclaim"} /\ kind[t] # "try"

\* No reclaim callback has run for an object that a reader loaded inside a
\* section it has not left: what enter(), exit() and collect() are for.
NoUseAfterReclaim ==
    \A u \in Threads, o \in Objects : Holds(u, o) => o \notin reclaimed

\* When a scan has succeeded ("every reader that could still be traversing
\* objects retired before the advancement has left", synchronize_until), no
\* reader holds an object queued at or before the epoch it will collect, not
\* even one that sits in another thread's unpublished batch.
GracePeriodProven ==
    \A t \in Threads :
        pc[t] \in {"finish", "collect", "reclaim"} /\ todo[t] # {} =>
            \A u \in Threads, o \in Objects :
                Holds(u, o) /\ nodeEpoch[o] # 0 => nodeEpoch[o] > safe[t]

\* A class's watermark never covers an object that a reader still holds, so
\* reclaimed_through() is never true of one ("only ever advanced after a grace
\* period was proven").
WatermarkBehindReaders ==
    \A u \in Threads, o \in Objects :
        Holds(u, o) /\ nodeEpoch[o] # 0 => nodeEpoch[o] > completed[nodeCls[o]]

\* The watermark of a class never moves back, although try_collect() may arrive
\* with an older epoch than a synchronization that overtook it
\* (reclaimed_through(): "Monotonic per class").
WatermarkMonotone ==
    [][\A c \in Classes : completed'[c] >= completed[c]]_completed

\* At most one thread owns an advancement, `sync` names the epoch it created,
\* and `sync` is set exactly while it has an owner (begin_advance(): "The owner
\* is responsible for clearing `sync` on every path out").
OneAdvancement ==
    /\ \A t, u \in Threads : Owns(t) /\ Owns(u) => t = u
    /\ \A t \in Threads : Owns(t) => sync = safe[t] + 1
    /\ sync # 0 => \E t \in Threads : Owns(t)

\* A retired node is in one list only: some thread's batch, the published list,
\* or gone after its callback; so no callback runs twice.
QueuedOnce ==
    /\ \A t \in Threads : batch[t] \intersect (retired \union reclaimed) = {}
    /\ \A t, u \in Threads : t # u => batch[t] \intersect batch[u] = {}
    /\ retired \intersect reclaimed = {}

(***************************************************************************)
(* The domain implements deferred reclamation.                             *)
(***************************************************************************)

Reclamation == INSTANCE SafeReclamation WITH
    current <- image,
    unused  <- fresh,
    held    <- {h \in Threads \X Objects : Holds(h[1], h[2])},
    freed   <- reclaimed

\* Every behaviour of the domain is one of SafeReclamation: each callback runs
\* once, for an object that has been replaced and that no reader holds.
ImplementsReclamation == Reclamation!Spec

(***************************************************************************)
(* The inductive invariant behind the safety properties, for the build     *)
(* whose stores are visible at once and sections that do not nest.         *)
(***************************************************************************)

\* Nothing is ahead of the global epoch, and what is being or has been
\* collected is strictly behind it.
EpochOrder ==
    /\ \A t \in Threads : epoch[t] = own[t] /\ own[t] <= global /\ loaded[t] <= global
    /\ \A t \in Threads : safe[t] < global
    /\ \A c \in Classes : completed[c] < global
    /\ \A o \in Objects : nodeEpoch[o] <= global

\* A thread inside a section is on the reader list with a nonzero epoch.
SectionsVisible ==
    \A t \in Threads :
        /\ depth[t] > 0 => t \in threads /\ own[t] # 0
        /\ depth[t] = 0 => refs[t][1] = NoObject
        /\ pc[t] = "load" => t \in threads
        /\ pc[t] = "store" => t \in threads /\ loaded[t] # 0 /\ depth[t] = 0

\* An object that is published, or swapped out and not yet retired, has never
\* been queued; only queued objects are in a list or reclaimed.
Lifecycle ==
    /\ image # NoObject => image \notin fresh /\ nodeEpoch[image] = 0
    /\ \A t \in Threads :
           unlinked[t] # NoObject =>
               /\ unlinked[t] \notin fresh
               /\ unlinked[t] # image
               /\ nodeEpoch[unlinked[t]] = 0
               /\ \A u \in Threads : unlinked[u] = unlinked[t] => u = t
    /\ \A o \in fresh : nodeEpoch[o] = 0
    /\ \A o \in retired \union reclaimed : nodeEpoch[o] # 0
    /\ \A t \in Threads : \A o \in batch[t] : nodeEpoch[o] # 0

\* The scan of t has left reader u behind, or is over.
Passed(t, u) ==
    \/ pc[t] = "scan" /\ u \notin scan[t]
    \/ pc[t] \in {"finish", "collect", "reclaim"} /\ todo[t] # {}

\* A reader entered no later than the retirement of what it holds, so a scan
\* that it passed aims below that retirement.
ReadersCovered ==
    \A u \in Threads, o \in Objects :
        Holds(u, o) /\ nodeEpoch[o] # 0 =>
            /\ own[u] <= nodeEpoch[o]
            /\ \A t \in Threads : Passed(t, u) => nodeEpoch[o] > safe[t]

\* The locals of a call: the collector holds the lock and has marked the class
\* it is reclaiming, whoever is not collecting has nothing left to collect, and
\* synchronize_until() waits for an advancement of its own.
CallState ==
    /\ \A t \in Threads : lock = t <=> pc[t] \in {"collect", "reclaim"}
    /\ \A t \in Threads :
           pc[t] = "reclaim" => todo[t] # {} /\ completed[NextClass(t)] = safe[t]
    /\ \A t \in Threads : pc[t] \notin {"finish", "collect", "reclaim"} => todo[t] = {}
    /\ \A t \in Threads : pc[t] = "until" => kind[t] # "try"

\* What has been reclaimed is covered by its class's watermark.
ReclaimedCovered ==
    \A o \in reclaimed : nodeEpoch[o] <= completed[nodeCls[o]]

\* The inductive invariant.
IInv ==
    /\ TypeOK
    /\ EpochOrder
    /\ SectionsVisible
    /\ Lifecycle
    /\ QueuedOnce
    /\ CallState
    /\ OneAdvancement
    /\ ReadersCovered
    /\ WatermarkBehindReaders
    /\ ReclaimedCovered

(***************************************************************************)
(* Liveness.  A thread inside a call of the domain goes on; a buffered     *)
(* store reaches memory; a reader leaves its section (api.md, "Read-side   *)
(* contract"); the test-and-set lock does not starve a waiter for ever; a  *)
(* deadline does expire.                                                   *)
(***************************************************************************)
GoesOn(t) ==
    \/ EnterStore(t) \/ Flush(t) \/ AwaitSync(t) \/ LoadThreads(t) \/ ScanDone(t)
    \/ \E u \in Threads : ScanPassed(t, u) \/ ScanBlocked(t, u) \/ ScanMinimum(t, u)
    \/ CollectSkip(t) \/ CollectMark(t) \/ CollectDone(t) \/ CollectEnd(t)
    \/ \E o \in Objects : CollectReclaim(t, o)

GetsLock(t) == PublishFull(t) \/ UntilAdvance(t) \/ CollectLock(t)

DeadlineExpires(t) ==
    \/ UntilContended(t) /\ pc'[t] = "idle"
    \/ \E u \in Threads : ScanBlocked(t, u) /\ pc'[t] = "finish"

Progress(t) ==
    /\ WF_vars(GoesOn(t))
    /\ SF_vars(Exit(t))
    /\ SF_vars(GetsLock(t))
    /\ SF_vars(DeadlineExpires(t))

FairSpec == Spec /\ \A t \in Threads : Progress(t)

\* Every advancement ends, however many readers keep arriving ("continuously
\* arriving readers cannot hold a grace period open", readers_passed()).
AdvancementEnds == sync # 0 ~> sync = 0
=============================================================================

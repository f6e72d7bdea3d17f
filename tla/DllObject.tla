----------------------------- MODULE DllObject -----------------------------
(***************************************************************************)
(* dll::Object over the epoch domain (DLL/Object.h): load, reload and      *)
(* unload exchange the published image and retire the previous one in two  *)
(* parts, its index slot array in the eager class and the image itself in  *)
(* the batched class, each followed by a synchronization, and then record  *)
(* what became of the image.                                               *)
(*                                                                         *)
(* The domain is RcuDomain, step by step.  Its objects are the images and  *)
(* the index that each image contains; its `unlinked` is the parameter     *)
(* `img` of retire_image().  The Control's writer lock covers two stores   *)
(* and is held across no step.                                             *)
(***************************************************************************)
EXTENDS RcuDomain

CONSTANTS
    Images,   \* the images that can be loaded
    IndexOf,  \* IndexOf[i]: the index slot array inside image i
    Timeouts  \* TRUE: reclaim_timeout_ms may be configured, FALSE: it may be 0

ASSUME ImagesAssumption ==
    /\ Images \subseteq Objects
    /\ \A i \in Images : IndexOf[i] \in Objects \ Images
    /\ \A i, j \in Images : IndexOf[i] = IndexOf[j] => i = j
ASSUME TimeoutsAssumption == Timeouts \subseteq BOOLEAN

VARIABLES
    timeout,  \* Control::reclaim_timeout_ms is not 0
    bounded,  \* retire_image()'s own reading of it
    step,     \* where a thread stands in retire_image(): "none" (outside),
              \* "index", "eager", "image", "sync", "outcome"
    token,    \* retire_token()'s result in retire_image()
    outcome   \* Control::last_reclaim, with the image it is about

retireVars == <<bounded, step, token>>
objectVars == <<timeout, retireVars, outcome>>
allVars == <<vars, objectVars>>

ObjectInit ==
    /\ Init
    /\ timeout \in Timeouts
    /\ bounded = [t \in Threads |-> FALSE]
    /\ step = [t \in Threads |-> "none"]
    /\ token = [t \in Threads |-> 0]
    /\ outcome = [image |-> NoObject, what |-> "not_attempted"]

GotoStep(t, s) == step' = [step EXCEPT ![t] = s]

\* A thread that is not in any call and in no section of its own.
Free(t) == step[t] = "none" /\ pc[t] = "idle" /\ depth[t] = 0

-----------------------------------------------------------------------------
\* set_reclaim_timeout_ms(), between or during the operations of others.
SetTimeout(t) ==
    /\ Free(t)
    /\ timeout' \in Timeouts \ {timeout}
    /\ UNCHANGED <<vars, retireVars, outcome>>

\* publish_image() of a new image, or of null by unload_impl(): the exchange,
\* under the writer lock; what was there is retired next.
Publish(t, i) ==
    /\ Free(t)
    /\ i \in Images \union {NoObject}
    /\ Swap(t, i)
    /\ GotoStep(t, IF image = NoObject THEN "none" ELSE "index")
    /\ UNCHANGED <<timeout, bounded, token, outcome>>

\* load() or reload() times out on the writer lock: discard_image().
LockTimeout(t, i) ==
    /\ Free(t)
    /\ timeout
    /\ i \in Images \intersect fresh
    /\ fresh' = fresh \ {i}
    /\ UNCHANGED <<epochVars, lock, readerVars, nodeVars, pc, callVars, image,
                   unlinked, objectVars>>

\* force_unload(): frees the image at once; its caller has excluded readers.
ForceUnload(t) ==
    /\ Free(t)
    /\ image # NoObject
    /\ \A u \in Threads : depth[u] = 0
    /\ image' = NoObject
    /\ reclaimed' = reclaimed \union {image, IndexOf[image]}
    /\ UNCHANGED <<epochVars, lock, readerVars, retired, batch, nodeEpoch, nodeCls,
                   pc, callVars, fresh, unlinked, objectVars>>

-----------------------------------------------------------------------------
(***************************************************************************)
(* retire_image().                                                         *)
(***************************************************************************)

\* The timeout is read; retire_eager(&img->index), or no memory for its node.
RetireIndex(t) ==
    /\ step[t] = "index"
    /\ \/ QueueNode(t, IndexOf[unlinked[t]], "eager")
       \/ UNCHANGED <<nodeVars, pc>>
    /\ bounded' = [bounded EXCEPT ![t] = timeout]
    /\ GotoStep(t, IF timeout THEN "image" ELSE "eager")
    /\ UNCHANGED <<epochVars, lock, readerVars, callVars, clientVars, timeout, token,
                   outcome>>

\* synchronize_eager(), without a timeout only.
SyncEager(t) ==
    /\ step[t] = "eager"
    /\ SyncContended(t, "eager") \/ SyncAdvance(t, "eager")
    /\ GotoStep(t, "image")
    /\ UNCHANGED <<timeout, bounded, token, outcome>>

\* retire_token(img), or no memory for its node.
RetireImage(t) ==
    /\ step[t] = "image"
    /\ pc[t] = "idle"
    /\ \/ QueueNode(t, unlinked[t], "batched") /\ token' = [token EXCEPT ![t] = global]
       \/ UNCHANGED <<nodeVars, pc, token>>
    /\ GotoStep(t, "sync")
    /\ UNCHANGED <<epochVars, lock, readerVars, callVars, clientVars, timeout, bounded,
                   outcome>>

\* synchronize_until() with a deadline, or synchronize().
SyncImage(t) ==
    /\ step[t] = "sync"
    /\ \/ bounded[t] /\ BeginUntil(t, "until")
       \/ /\ ~bounded[t]
          /\ SyncContended(t, "sync") \/ SyncGated(t) \/ SyncAdvance(t, "sync")
    /\ GotoStep(t, "outcome")
    /\ UNCHANGED <<timeout, bounded, token, outcome>>

\* Mutation of Outcome: whatever was queued counts as reclaimed.
OutcomeQueued(t) == IF token[t] # 0 THEN "reclaimed" ELSE "deferred"

\* reclaimed_through(token, batched); the two reasons for a deferral are not
\* told apart.
Outcome(t) ==
    IF token[t] # 0 /\ completed["batched"] >= token[t] THEN "reclaimed" ELSE "deferred"

\* last_reclaim is stored and retire_image() returns.
RecordOutcome(t) ==
    /\ step[t] = "outcome"
    /\ pc[t] = "idle"
    /\ outcome' = [image |-> unlinked[t], what |-> Outcome(t)]
    /\ unlinked' = [unlinked EXCEPT ![t] = NoObject]
    /\ token' = [token EXCEPT ![t] = 0]
    /\ bounded' = [bounded EXCEPT ![t] = FALSE]
    /\ GotoStep(t, "none")
    /\ UNCHANGED <<epochVars, lock, readerVars, nodeVars, pc, callVars, image, fresh,
                   timeout>>

-----------------------------------------------------------------------------
\* A Function call or an enter_read() section; and a call of the domain going on.
Read(t) == step[t] = "none" /\ ReaderStep(t) /\ UNCHANGED objectVars
DomainCall(t) == CallStep(t) /\ UNCHANGED objectVars

ObjectNext ==
    \E t \in Threads :
        \/ SetTimeout(t)
        \/ \E i \in Images \union {NoObject} : Publish(t, i)
        \/ \E i \in Images : LockTimeout(t, i)
        \/ ForceUnload(t)
        \/ RetireIndex(t)
        \/ SyncEager(t)
        \/ RetireImage(t)
        \/ SyncImage(t)
        \/ RecordOutcome(t)
        \/ Read(t)
        \/ DomainCall(t)

ObjectSpec == ObjectInit /\ [][ObjectNext]_allVars
-----------------------------------------------------------------------------
(***************************************************************************)
(* Properties.                                                             *)
(***************************************************************************)

\* A reader that looks a function up in an image finds both the image and its
\* index intact until it leaves its section, although the index goes back to
\* the pool ahead of the image (reclaim_index()).
ReadersKeepImageAndIndex ==
    \A u \in Threads, i \in Images :
        Holds(u, i) => i \notin reclaimed /\ IndexOf[i] \notin reclaimed

\* The callback that destroys an index writes to memory inside the image, so it
\* runs before the image is freed ("the buffer can be handed back to the pool
\* one reload later while the module itself stays mapped until the batched
\* reclaim", Object.h).
IndexBeforeImage ==
    \A i \in Images :
        i \in reclaimed =>
            /\ IndexOf[i] \notin retired
            /\ \A t \in Threads : IndexOf[i] \notin batch[t]

\* last_reclaim says `reclaimed` only of an image that no reader is inside any
\* more, whoever raised the watermark it is derived from ("the retired image
\* was released", ReclaimOutcome::reclaimed).
OutcomeProven ==
    outcome.what = "reclaimed" => \A u \in Threads : ~Holds(u, outcome.image)

\* "it is released by a later operation", "the image stays retired and mapped"
\* (ReclaimOutcome::deferred_batched, deferred_timeout): an image that is reported
\* deferred is in a list that a later collection takes it from, or has been freed.
DeferredIsPending ==
    outcome.what = "deferred" =>
        outcome.image \in retired \union reclaimed \union UNION {batch[t] : t \in Threads}

(***************************************************************************)
(* The inductive invariant, with the parts of RcuDomain's that do not      *)
(* depend on the client: here an object can be queued while its image is   *)
(* still to be, and one that was never queued can be freed.                *)
(***************************************************************************)
RetireTypes ==
    /\ timeout \in BOOLEAN
    /\ bounded \in [Threads -> BOOLEAN]
    /\ step \in [Threads -> {"none", "index", "eager", "image", "sync", "outcome"}]
    /\ token \in [Threads -> Nat]
    /\ outcome \in [image : Objects \union {NoObject},
                    what : {"not_attempted", "reclaimed", "deferred"}]

\* Neither part of the image has been queued or freed.
Untouched(i) == \A o \in {i, IndexOf[i]} : nodeEpoch[o] = 0 /\ o \notin reclaimed

\* Where an image is: unused, published, or swapped out by one thread; what is
\* in a list has been queued.
ImageLifecycle ==
    /\ image # NoObject => image \in Images \ fresh /\ Untouched(image)
    /\ \A i \in Images \intersect fresh : Untouched(i)
    /\ \A t \in Threads : unlinked[t] # NoObject =>
        /\ unlinked[t] \in Images \ fresh /\ unlinked[t] # image
        /\ \A u \in Threads : unlinked[u] = unlinked[t] => u = t
    /\ \A o \in retired : nodeEpoch[o] # 0
    /\ \A t \in Threads : \A o \in batch[t] : nodeEpoch[o] # 0

\* How far retire_image() has come with the image it was given.
RetireProgress ==
    \A t \in Threads :
        /\ step[t] = "none" <=> unlinked[t] = NoObject
        /\ step[t] = "index" => pc[t] = "idle" /\ Untouched(unlinked[t])
        /\ step[t] \in {"eager", "image"} =>
            nodeEpoch[unlinked[t]] = 0 /\ unlinked[t] \notin reclaimed
        /\ token[t] # 0 =>
            /\ step[t] \in {"sync", "outcome"}
            /\ token[t] = nodeEpoch[unlinked[t]] /\ nodeCls[unlinked[t]] = "batched"

\* Reader u keeps what is retired in class c at epoch e from being collected: it
\* entered no later, so no scan that went past it, and no watermark, is that far.
Covers(u, e, c) ==
    /\ own[u] <= e
    /\ \A t \in Threads : Passed(t, u) => e > safe[t]
    /\ e > completed[c]

\* A reader covers both parts of the image it holds, each from when it is queued.
PartsCovered ==
    \A u \in Threads, i \in Images : Holds(u, i) =>
        \A o \in {i, IndexOf[i]} :
            /\ nodeEpoch[o] = 0 => o \notin reclaimed
            /\ nodeEpoch[o] # 0 => Covers(u, nodeEpoch[o], nodeCls[o])

\* An image reported as reclaimed was queued below its class's watermark.
OutcomeCovered ==
    outcome.what = "reclaimed" =>
        /\ outcome.image \in Images
        /\ nodeEpoch[outcome.image] # 0 /\ nodeCls[outcome.image] = "batched"
        /\ nodeEpoch[outcome.image] <= completed["batched"]

ObjectInv ==
    /\ TypeOK /\ EpochOrder /\ SectionsVisible /\ CallState
    /\ RetireTypes
    /\ ImageLifecycle
    /\ RetireProgress
    /\ ReclaimedCovered
    /\ PartsCovered
    /\ OutcomeCovered
=============================================================================

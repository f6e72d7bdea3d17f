----------------------------- MODULE SharedPtr -----------------------------
(***************************************************************************)
(* dll::SharedPtr and dll::WeakPtr (DLL/SharedPtr.h, DLL/WeakPtr.h): a     *)
(* control block with two atomic counts.  Each access to a count is a      *)
(* step; a pointer variable is used by one thread at a time, the block by  *)
(* all of them.  Assignment is a reset() and then a copy or a move.        *)
(***************************************************************************)
EXTENDS Naturals, FiniteSets

CONSTANTS
    Workers,   \* threads
    Blocks,    \* control blocks
    Strongs,   \* SharedPtr variables
    Weaks,     \* WeakPtr variables
    NoBlock,
    Serialized \* TRUE: an operation on a WeakPtr excludes all others

ASSUME PointersAssumption ==
    /\ NoBlock \notin Blocks /\ Strongs \intersect Weaks = {}
    /\ IsFiniteSet(Strongs) /\ IsFiniteSet(Weaks)

VARIABLES
    block,  \* block[b]: its two counts, its object, whether it is allocated
    ptr,    \* the _cb of every variable
    step,   \* step[w]: [at, block, to], what is left of a worker's operation
    past    \* the blocks that have been allocated

sharedVars == <<block, ptr, step, past>>

Idle == [at |-> "idle", block |-> NoBlock, to |-> NoBlock]

SharedInit ==
    /\ block = [b \in Blocks |-> [strongs |-> 0, weaks |-> 0, object |-> "none", live |-> FALSE]]
    /\ ptr = [x \in Strongs \union Weaks |-> NoBlock]
    /\ step = [w \in Workers |-> Idle]
    /\ past = {}

Continue(w, at, b, to) == step' = [step EXCEPT ![w] = [at |-> at, block |-> b, to |-> to]]
Done(w) == step' = [step EXCEPT ![w] = Idle]

WeakSteps == {"unweak", "promote"}

\* A worker begins an operation; one on a WeakPtr may need the others out.
MayBegin(w, weak) ==
    /\ step[w] = Idle
    /\ Serialized => \A u \in Workers :
           step[u].at \notin WeakSteps /\ (weak => step[u] = Idle)

\* A variable that no operation in progress will store to.
Untouched(x) == \A u \in Workers : step[u].to # x

\* SharedPtr(p, d): a block with one strong reference.
New(w, x, b) ==
    /\ MayBegin(w, FALSE)
    /\ ptr[x] = NoBlock /\ Untouched(x) /\ b \notin past
    /\ block' = [block EXCEPT ![b] = [strongs |-> 1, weaks |-> 0, object |-> "owned",
                                      live |-> TRUE]]
    /\ ptr' = [ptr EXCEPT ![x] = b]
    /\ past' = past \union {b}
    /\ UNCHANGED step

\* A copy of a SharedPtr into an empty one: one increment.
CopyShared(w, x, y) ==
    /\ MayBegin(w, FALSE)
    /\ {x, y} \subseteq Strongs
    /\ ptr[x] # NoBlock /\ ptr[y] = NoBlock /\ Untouched(y)
    /\ ptr' = [ptr EXCEPT ![y] = ptr[x]]
    /\ block' = [block EXCEPT ![ptr[x]].strongs = @ + 1]
    /\ UNCHANGED <<step, past>>

\* A WeakPtr from either kind.
CopyWeak(w, x, y) ==
    /\ MayBegin(w, TRUE)
    /\ y \in Weaks
    /\ ptr[x] # NoBlock /\ ptr[y] = NoBlock /\ Untouched(y)
    /\ ptr' = [ptr EXCEPT ![y] = ptr[x]]
    /\ block' = [block EXCEPT ![ptr[x]].weaks = @ + 1]
    /\ UNCHANGED <<step, past>>

\* The moves, between variables of one kind.
MovePtr(w, x, y) ==
    /\ MayBegin(w, FALSE)
    /\ x \in Strongs <=> y \in Strongs
    /\ ptr[x] # NoBlock /\ ptr[y] = NoBlock /\ Untouched(y)
    /\ ptr' = [ptr EXCEPT ![y] = ptr[x], ![x] = NoBlock]
    /\ UNCHANGED <<block, step, past>>

\* reset(): the decrement; the last one goes on to destroy the object.
Decrement(w, b) ==
    /\ block' = [block EXCEPT ![b].strongs = @ - 1]
    /\ IF block[b].strongs = 1 THEN Continue(w, "destroy", b, NoBlock) ELSE Done(w)

Reset(w, x) ==
    /\ MayBegin(w, FALSE)
    /\ x \in Strongs /\ ptr[x] # NoBlock
    /\ Decrement(w, ptr[x])
    /\ ptr' = [ptr EXCEPT ![x] = NoBlock]
    /\ UNCHANGED past

\* release(): only a sole owner's object is handed out; then reset().
ReleaseObject(w, x) ==
    /\ MayBegin(w, FALSE)
    /\ x \in Strongs /\ ptr[x] # NoBlock
    /\ block[ptr[x]].strongs = 1
    /\ block' = [block EXCEPT ![ptr[x]].object = "none"]
    /\ Continue(w, "reset", ptr[x], NoBlock)
    /\ ptr' = [ptr EXCEPT ![x] = NoBlock]
    /\ UNCHANGED past

ResetReleased(w) ==
    /\ step[w].at = "reset"
    /\ Decrement(w, step[w].block)
    /\ UNCHANGED <<ptr, past>>

DestroyObject(w) ==
    /\ step[w].at = "destroy"
    /\ LET b == step[w].block
       IN block' = [block EXCEPT ![b].object = IF @ = "owned" THEN "destroyed" ELSE @]
    /\ Continue(w, "free", step[w].block, NoBlock)
    /\ UNCHANGED <<ptr, past>>

\* Mutation of FreeBlock: the weak count is not looked at.
FreeBlockAlways(w) ==
    /\ step[w].at = "free"
    /\ block' = [block EXCEPT ![step[w].block].live = FALSE]
    /\ Done(w)
    /\ UNCHANGED <<ptr, past>>

\* reset() reads the weak count last of all.
FreeBlock(w) ==
    /\ step[w].at = "free"
    /\ LET b == step[w].block
       IN block' = [block EXCEPT ![b].live = @ /\ block[b].weaks # 0]
    /\ Done(w)
    /\ UNCHANGED <<ptr, past>>

\* WeakPtr::release(): the decrement, and then a look at the strong count.
DropWeak(w, x) ==
    /\ MayBegin(w, TRUE)
    /\ x \in Weaks /\ ptr[x] # NoBlock
    /\ LET b == ptr[x]
       IN /\ block' = [block EXCEPT ![b].weaks = @ - 1]
          /\ IF block[b].weaks = 1 THEN Continue(w, "unweak", b, NoBlock) ELSE Done(w)
    /\ ptr' = [ptr EXCEPT ![x] = NoBlock]
    /\ UNCHANGED past

FreeFromWeak(w) ==
    /\ step[w].at = "unweak"
    /\ LET b == step[w].block
       IN block' = [block EXCEPT ![b].live = @ /\ block[b].strongs # 0]
    /\ Done(w)
    /\ UNCHANGED <<ptr, past>>

\* WeakPtr::lock(): alive(), ...
LockWeak(w, x, y) ==
    /\ MayBegin(w, TRUE)
    /\ x \in Weaks /\ ptr[x] # NoBlock
    /\ y \in Strongs /\ ptr[y] = NoBlock /\ Untouched(y)
    /\ block[ptr[x]].strongs > 0
    /\ Continue(w, "promote", ptr[x], y)
    /\ UNCHANGED <<block, ptr, past>>

\* ... and the constructor that increments the count.
Promote(w) ==
    /\ step[w].at = "promote"
    /\ ptr' = [ptr EXCEPT ![step[w].to] = step[w].block]
    /\ block' = [block EXCEPT ![step[w].block].strongs = @ + 1]
    /\ Done(w)
    /\ UNCHANGED past

SharedNext ==
    \E w \in Workers :
        \/ \E x \in Strongs, b \in Blocks : New(w, x, b)
        \/ \E x, y \in Strongs \union Weaks : CopyShared(w, x, y) \/ CopyWeak(w, x, y) \/ MovePtr(w, x, y)
        \/ \E x \in Strongs : Reset(w, x) \/ ReleaseObject(w, x)
        \/ \E x \in Weaks : DropWeak(w, x) \/ \E y \in Strongs : LockWeak(w, x, y)
        \/ ResetReleased(w) \/ DestroyObject(w) \/ FreeBlock(w) \/ FreeFromWeak(w) \/ Promote(w)

SharedSpec == SharedInit /\ [][SharedNext]_sharedVars
-----------------------------------------------------------------------------
(***************************************************************************)
(* Properties.                                                             *)
(***************************************************************************)

\* No operation and no variable meets a control block that was deallocated,
\* and a SharedPtr never points to a destroyed object ("Atomic
\* reference-counted shared pointer. Thread-safe.", docs/abix/api.md).
NoDanglingBlock ==
    /\ \A x \in Strongs \union Weaks : ptr[x] # NoBlock => block[ptr[x]].live
    /\ \A w \in Workers : step[w].block # NoBlock => block[step[w].block].live
    /\ \A x \in Strongs : ptr[x] # NoBlock => block[ptr[x]].object # "destroyed"

\* When nobody is in an operation, a block is allocated exactly while a variable
\* refers to it: none is lost, whichever of the two kinds went last.
BlocksFreed ==
    (\A w \in Workers : step[w] = Idle) =>
        \A b \in Blocks : block[b].live <=> \E x \in DOMAIN ptr : ptr[x] = b

\* A control block is freed once, when the last variable of either kind has gone,
\* and nothing uses it or its destroyed object afterwards.
BlocksSound ==
    /\ NoDanglingBlock
    /\ BlocksFreed

(***************************************************************************)
(* The inductive invariant, when operations on a WeakPtr exclude others.   *)
(***************************************************************************)
PtrSteps == {"idle", "reset", "destroy", "free", "unweak", "promote"}

SharedTypes ==
    /\ block \in [Blocks -> [strongs : Nat, weaks : Nat, object : {"none", "owned", "destroyed"},
                             live : BOOLEAN]]
    /\ ptr \in [Strongs \union Weaks -> Blocks \union {NoBlock}]
    /\ step \in [Workers -> [at : PtrSteps, block : Blocks \union {NoBlock},
                             to : Strongs \union {NoBlock}]]
    /\ past \subseteq Blocks

\* The variables of S that point to b, by the pointers p.
VarsAt(p, S, b) == {x \in S : p[x] = b}

\* Between its two halves release() still owns a reference no variable shows.
Releasing(b) == \E w \in Workers : step[w].at = "reset" /\ step[w].block = b

Exact(b) ==
    /\ block[b].strongs = Cardinality(VarsAt(ptr, Strongs, b)) + IF Releasing(b) THEN 1 ELSE 0
    /\ block[b].weaks = Cardinality(VarsAt(ptr, Weaks, b))

CountsExact == \A b \in Blocks : Exact(b)

\* What a worker that is inside an operation has to itself.
Apart(w) ==
    LET b == step[w].block IN
    /\ IF step[w].at = "idle" THEN step[w] = Idle ELSE b \in Blocks
    /\ step[w].at \in {"reset", "destroy", "free"} =>
        \A u \in Workers : step[u].block = b => u = w
    /\ step[w].at \in {"destroy", "free"} => block[b].strongs = 0
    /\ step[w].at = "reset" => block[b].strongs = 1 /\ block[b].object = "none"
    /\ step[w].at = "unweak" => block[b].weaks = 0
    /\ step[w].at = "promote" =>
        block[b].strongs > 0 /\ step[w].to \in Strongs /\ ptr[step[w].to] = NoBlock

StepsApart == \A w \in Workers : Apart(w)

WeakAlone ==
    \A w, u \in Workers : step[w].at \in WeakSteps /\ u # w => step[u] = Idle

\* A block lives while a count or a worker needs it, and its object with it.
Lives(b) ==
    /\ block[b].live <=>
        block[b].strongs > 0 \/ block[b].weaks > 0 \/ \E w \in Workers : step[w].block = b
    /\ block[b].live => b \in past
    /\ block[b].strongs > 0 => block[b].object # "destroyed"

LiveWhileUsed == \A b \in Blocks : Lives(b)

SharedInv == SharedTypes /\ CountsExact /\ StepsApart /\ WeakAlone /\ LiveWhileUsed
=============================================================================

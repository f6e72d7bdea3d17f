------------------------------ MODULE Handles ------------------------------
(***************************************************************************)
(* The two sole-owner handles: runtime::Function, the type-erased closure  *)
(* (Runtime/Function.h), and dll::UniquePtr (DLL/UniquePtr.h).  A cell is  *)
(* a closure or an object; a callable may have captured another handle,    *)
(* and an object may have one as a member, so cells form chains.  An       *)
(* operation is sequential; allocations may fail.                          *)
(***************************************************************************)
EXTENDS Naturals, FiniteSets, Sequences

CONSTANTS
    Cells,     \* closures or objects that may be allocated
    NoCell,
    Closures,  \* the handles that are runtime::Function
    Uniques,   \* the handles that are UniquePtr
    MaxClone   \* bound: the cells of one clone

HandleVars == Closures \union Uniques

ASSUME HandlesAssumption == NoCell \notin Cells /\ MaxClone \in Nat

VARIABLES
    root,      \* root[x]: the cell that handle x owns
    inner,     \* inner[c]: the cell owned by the handle inside c
    cells      \* cells[c]: "new", "live", "freed" or "twice" (freed again)

handleVars == <<root, inner, cells>>

HandlesInit ==
    /\ root = [x \in HandleVars |-> NoCell]
    /\ inner = [c \in Cells |-> NoCell]
    /\ cells = [c \in Cells |-> "new"]

\* The cells from c inwards, outermost first.
Chain(c) ==
    LET chain[d \in Cells \union {NoCell}] ==
            IF d = NoCell THEN <<>> ELSE <<d>> \o chain[inner[d]]
    IN chain[c]

CellsOf(c) == {Chain(c)[i] : i \in 1..Len(Chain(c))}

\* Destroying a cell destroys the handle inside it first.
Destroyed(c) ==
    [d \in Cells |-> IF d \notin CellsOf(c) THEN cells[d]
                     ELSE IF cells[d] = "live" THEN "freed" ELSE "twice"]

\* A handle for a new cell; the callable, or the object, has handle y moved
\* into it.  Without memory the handle is empty and the callable is destroyed.
MakeHandle(x, y, c) ==
    /\ root[x] = NoCell /\ x # y /\ cells[c] = "new"
    /\ x \in Closures <=> y \in Closures
    /\ root' = [root EXCEPT ![x] = c, ![y] = NoCell]
    /\ inner' = [inner EXCEPT ![c] = root[y]]
    /\ cells' = [cells EXCEPT ![c] = "live"]

MakeHandleFails(x, y) ==
    /\ x \in Closures /\ y \in Closures /\ root[x] = NoCell /\ x # y
    /\ root[y] # NoCell
    /\ root' = [root EXCEPT ![y] = NoCell]
    /\ cells' = Destroyed(root[y])
    /\ UNCHANGED inner

\* clone_impl allocates the new closure and then copies the callable, which
\* clones the handle inside it: fresh are the cells that could be allocated, so
\* the clone of a chain may end early.
IsClone(c, fresh) ==
    /\ Len(fresh) <= Len(Chain(c))
    /\ \A i, j \in 1..Len(fresh) : i # j => fresh[i] # fresh[j]
    /\ \A i \in 1..Len(fresh) : cells[fresh[i]] = "new"

First(fresh) == IF fresh = <<>> THEN NoCell ELSE fresh[1]

Wire(fresh) ==
    [d \in Cells |-> IF \E i \in 1..Len(fresh) : fresh[i] = d
                     THEN LET i == CHOOSE k \in 1..Len(fresh) : fresh[k] = d
                          IN IF i = Len(fresh) THEN NoCell ELSE fresh[i + 1]
                     ELSE inner[d]]

\* Mutation of AssignCopy: the old closure is forgotten.
AssignCopyLeaks(x, y, fresh) ==
    /\ x \in Closures /\ y \in Closures /\ root[y] # NoCell
    /\ IsClone(root[y], fresh)
    /\ root' = [root EXCEPT ![x] = First(fresh)]
    /\ inner' = Wire(fresh)
    /\ cells' = [d \in Cells |-> IF \E i \in 1..Len(fresh) : fresh[i] = d THEN "live"
                                 ELSE cells[d]]

\* operator=(Function rhs): the argument is the copy, the swap leaves the old
\* closure in it, and it is destroyed last.  Also the copy constructor, when x
\* is empty.
AssignCopy(x, y, fresh) ==
    /\ x \in Closures /\ y \in Closures /\ root[y] # NoCell
    /\ IsClone(root[y], fresh)
    /\ root' = [root EXCEPT ![x] = First(fresh)]
    /\ inner' = Wire(fresh)
    /\ cells' = [d \in Cells |-> IF \E i \in 1..Len(fresh) : fresh[i] = d THEN "live"
                                 ELSE Destroyed(root[x])[d]]

\* Move: UniquePtr resets itself and takes the pointer, unless it is the same
\* handle; Function swaps with the argument that took it.
AssignMove(x, y) ==
    /\ x \in Closures <=> y \in Closures
    /\ x # y /\ root[y] # NoCell
    /\ cells' = Destroyed(root[x])
    /\ root' = [root EXCEPT ![x] = root[y], ![y] = NoCell]
    /\ UNCHANGED inner

\* The move of the handle inside the cell that x owns into x itself.  Function
\* takes it into the argument first; UniquePtr's reset() would already have
\* destroyed it, so its user may not do this.
AssignInner(x) ==
    /\ x \in Closures /\ root[x] # NoCell /\ inner[root[x]] # NoCell
    /\ root' = [root EXCEPT ![x] = inner[root[x]]]
    /\ inner' = [inner EXCEPT ![root[x]] = NoCell]
    /\ cells' = [cells EXCEPT ![root[x]] = IF @ = "live" THEN "freed" ELSE "twice"]

\* reset() and the destructors.
ResetHandle(x) ==
    /\ root[x] # NoCell
    /\ cells' = Destroyed(root[x])
    /\ root' = [root EXCEPT ![x] = NoCell]
    /\ UNCHANGED inner

Fresh == UNION {[1..n -> Cells] : n \in 0..MaxClone}

HandlesNext ==
    \/ \E x, y \in HandleVars :
        \/ \E c \in Cells : MakeHandle(x, y, c)
        \/ MakeHandleFails(x, y)
        \/ \E fresh \in Fresh : AssignCopy(x, y, fresh)
        \/ AssignMove(x, y)
    \/ \E x \in HandleVars : AssignInner(x) \/ ResetHandle(x)

HandlesSpec == HandlesInit /\ [][HandlesNext]_handleVars
-----------------------------------------------------------------------------
\* A live cell is owned by exactly one handle, a program's or one inside a live
\* cell, and no cell is freed twice or lost: whatever copies, moves, failed
\* allocations and self assignments came before.
CellsOwnedOnce ==
    \A c \in Cells :
        /\ cells[c] # "twice"
        /\ Cardinality({x \in HandleVars : root[x] = c})
           + Cardinality({d \in Cells : cells[d] = "live" /\ inner[d] = c})
             = IF cells[c] = "live" THEN 1 ELSE 0

(***************************************************************************)
(* The inductive invariant.                                                *)
(***************************************************************************)
Live(c) == cells[c] = "live"
Owned(c) == (\E x \in HandleVars : root[x] = c) \/ (\E d \in Cells : Live(d) /\ inner[d] = c)

HandlesTypes ==
    /\ root \in [HandleVars -> Cells \union {NoCell}]
    /\ inner \in [Cells -> Cells \union {NoCell}]
    /\ cells \in [Cells -> {"new", "live", "freed"}]

\* What is owned is what is live, and has one owner: a handle or a live cell.
OwnersInv ==
    /\ \A c \in Cells : Live(c) <=> Owned(c)
    /\ \A x, y \in HandleVars : root[x] = root[y] /\ root[x] # NoCell => x = y
    /\ \A d, e \in Cells :
          Live(d) /\ Live(e) /\ inner[d] = inner[e] /\ inner[d] # NoCell => d = e
    /\ \A x \in HandleVars, d \in Cells : Live(d) /\ root[x] = inner[d] => root[x] = NoCell

\* Nothing points to a cell that was never allocated, which points to nothing.
NewInv ==
    /\ \A c \in Cells : cells[c] = "new" => inner[c] = NoCell
    /\ \A d \in Cells : inner[d] # NoCell => cells[inner[d]] # "new"

\* The cells form chains: along them a rank falls.
Ranked(rank) == \A d \in Cells : inner[d] # NoCell => rank[inner[d]] < rank[d]
Acyclic(n) == \E rank \in [Cells -> 0..n] : Ranked(rank)

HandlesInv == HandlesTypes /\ OwnersInv /\ NewInv /\ \E n \in Nat : Acyclic(n)
=============================================================================

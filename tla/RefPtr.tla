------------------------------- MODULE RefPtr -------------------------------
(***************************************************************************)
(* dll::RefPtr and dll::ViewPtr (DLL/RefPtr.h, DLL/ViewPtr.h): plain       *)
(* counts, one thread.  What is hard is the destroy callback: it runs in   *)
(* the middle of reset(), and the object it destroys has pointers of its   *)
(* own, whose reset() and release() run inside it.  The stack of calls is  *)
(* explicit.                                                               *)
(*                                                                         *)
(* ViewPtr::lock() cannot be called: RefPtr names a class `view_ptr` as    *)
(* its friend, so the constructor that lock() needs is private to it.      *)
(***************************************************************************)
EXTENDS Naturals, Sequences, FiniteSets

CONSTANTS
    Nodes,    \* the objects, each with the control block of its RefPtrs
    NoNode,
    Locals,   \* the RefPtr variables of the program
    MayOwn,   \* the pairs <<n, m>> such that n may have a RefPtr to m
    MayView   \* the pairs <<n, m>> such that n may have a ViewPtr of m

ASSUME NodesAssumption == IsFiniteSet(Nodes) /\ IsFiniteSet(Locals) /\ NoNode \notin Nodes

VARIABLES
    refs, views,    \* the counts in a control block
    object,         \* object[n]: "none", "alive" or "destroyed"
    cb,             \* the control block: "none", "live" or "freed"
    held, seen,     \* the RefPtrs and the ViewPtr the program has
    member, viewed, \* the RefPtr and the ViewPtr that are members of an object
    stack           \* calls in progress, innermost first

refVars == <<refs, views, object, cb, held, seen, member, viewed, stack>>

RefInit ==
    /\ refs = [n \in Nodes |-> 0] /\ views = [n \in Nodes |-> 0]
    /\ object = [n \in Nodes |-> "none"] /\ cb = [n \in Nodes |-> "none"]
    /\ held = [r \in Locals |-> NoNode] /\ seen = NoNode
    /\ member = [n \in Nodes |-> NoNode] /\ viewed = [n \in Nodes |-> NoNode]
    /\ stack = <<>>

Pop == Tail(stack)
Push(at, n, s) == <<[at |-> at, node |-> n]>> \o s

\* RefPtr(p, d) for a new object.
NewRef(r, n) ==
    /\ stack = <<>> /\ held[r] = NoNode /\ object[n] = "none"
    /\ refs' = [refs EXCEPT ![n] = 1]
    /\ object' = [object EXCEPT ![n] = "alive"]
    /\ cb' = [cb EXCEPT ![n] = "live"]
    /\ held' = [held EXCEPT ![r] = n]
    /\ UNCHANGED <<views, seen, member, viewed, stack>>

\* The program copies a RefPtr into a member, or takes a member's.
CopyRef(r, n) ==
    /\ stack = <<>> /\ object[n] = "alive"
    /\ \/ /\ held[r] # NoNode /\ member[n] = NoNode /\ <<n, held[r]>> \in MayOwn
          /\ member' = [member EXCEPT ![n] = held[r]]
          /\ refs' = [refs EXCEPT ![held[r]] = @ + 1]
          /\ UNCHANGED held
       \/ /\ held[r] = NoNode /\ member[n] # NoNode
          /\ held' = [held EXCEPT ![r] = member[n]]
          /\ refs' = [refs EXCEPT ![member[n]] = @ + 1]
          /\ UNCHANGED member
    /\ UNCHANGED <<views, object, cb, seen, viewed, stack>>

\* A ViewPtr from one of the program's RefPtrs, for itself or as a member.
NewView(r, n) ==
    /\ stack = <<>> /\ held[r] # NoNode
    /\ \/ seen = NoNode /\ seen' = held[r] /\ UNCHANGED viewed
       \/ /\ object[n] = "alive" /\ viewed[n] = NoNode /\ <<n, held[r]>> \in MayView
          /\ viewed' = [viewed EXCEPT ![n] = held[r]]
          /\ UNCHANGED seen
    /\ views' = [views EXCEPT ![held[r]] = @ + 1]
    /\ UNCHANGED <<refs, object, cb, held, member, stack>>

\* reset() of a RefPtr to n: the decrement; at zero the callback is called.
DecrementRef(n, s) ==
    /\ refs' = [refs EXCEPT ![n] = @ - 1]
    /\ stack' = IF refs[n] = 1 THEN Push("destroy", n, s) ELSE s

DropRef(r) ==
    /\ stack = <<>> /\ held[r] # NoNode
    /\ DecrementRef(held[r], stack)
    /\ held' = [held EXCEPT ![r] = NoNode]
    /\ UNCHANGED <<views, object, cb, seen, member, viewed>>

\* release(): the sole owner hands the object out; the callback becomes null.
TakeObject(r) ==
    /\ stack = <<>> /\ held[r] # NoNode
    /\ refs[held[r]] = 1
    /\ refs' = [refs EXCEPT ![held[r]] = 0]
    /\ stack' = Push("cleared", held[r], stack)
    /\ held' = [held EXCEPT ![r] = NoNode]
    /\ UNCHANGED <<views, object, cb, seen, member, viewed>>

\* The callback destroys the object's RefPtr member, then its ViewPtr member.
DestroyRefMember ==
    /\ stack # <<>> /\ Head(stack).at = "destroy"
    /\ LET n == Head(stack).node
           s == Push("destroy_view", n, Pop)
       IN /\ member' = [member EXCEPT ![n] = NoNode]
          /\ IF member[n] = NoNode
             THEN stack' = s /\ UNCHANGED refs
             ELSE DecrementRef(member[n], s)
    /\ UNCHANGED <<views, object, cb, held, seen, viewed>>

\* Mutation of FreesBlock: a view's end frees the block of a living object.
FreesBlockRefs(n) == views[n] = 1

\* ViewPtr::release() frees the block when it was the last of both kinds.
FreesBlock(n) == views[n] = 1 /\ refs[n] = 0

DecrementView(n) ==
    /\ views' = [views EXCEPT ![n] = @ - 1]
    /\ cb' = IF FreesBlock(n) THEN [cb EXCEPT ![n] = "freed"] ELSE cb

DestroyViewMember ==
    /\ stack # <<>> /\ Head(stack).at = "destroy_view"
    /\ LET n == Head(stack).node
       IN /\ viewed' = [viewed EXCEPT ![n] = NoNode]
          /\ object' = [object EXCEPT ![n] = "destroyed"]
          /\ stack' = Push("cleared", n, Pop)
          /\ IF viewed[n] = NoNode THEN UNCHANGED <<views, cb>> ELSE DecrementView(viewed[n])
    /\ UNCHANGED <<refs, held, seen, member>>

\* Back in reset(): the pointer is cleared, and without views the block goes.
FreeRefBlock ==
    /\ stack # <<>> /\ Head(stack).at = "cleared"
    /\ LET n == Head(stack).node
       IN cb' = IF views[n] = 0 THEN [cb EXCEPT ![n] = "freed"] ELSE cb
    /\ stack' = Pop
    /\ UNCHANGED <<refs, views, object, held, seen, member, viewed>>

DropView ==
    /\ stack = <<>> /\ seen # NoNode
    /\ DecrementView(seen)
    /\ seen' = NoNode
    /\ UNCHANGED <<refs, object, held, member, viewed, stack>>

RefNext ==
    \/ \E r \in Locals :
        \/ \E n \in Nodes : NewRef(r, n) \/ CopyRef(r, n) \/ NewView(r, n)
        \/ DropRef(r) \/ TakeObject(r)
    \/ DropView
    \/ DestroyRefMember \/ DestroyViewMember \/ FreeRefBlock

RefSpec == RefInit /\ [][RefNext]_refVars
-----------------------------------------------------------------------------
\* However deep the callbacks nest, reset() comes back to a block that is still
\* allocated, and every pointer, a member of a destroyed object or not, refers
\* to one.
ResetKeepsItsBlock ==
    /\ \A i \in 1..Len(stack) : cb[stack[i].node] = "live"
    /\ \A n \in ({held[r] : r \in Locals} \union {seen} \union {member[m] : m \in Nodes}
                 \union {viewed[m] : m \in Nodes}) \ {NoNode} : cb[n] = "live"

\* Between calls a block is allocated exactly while something refers to it, and
\* an object that nothing owns any more is destroyed or was handed out.
RefBlocksFreed ==
    stack = <<>> => \A n \in Nodes : cb[n] = "live" <=> refs[n] + views[n] > 0

\* reset() keeps its block through any callback, and a block goes with the last
\* reference or view.
RefBlocksSound ==
    /\ ResetKeepsItsBlock
    /\ RefBlocksFreed

(***************************************************************************)
(* The inductive invariant, when the pointers of an object never lead back *)
(* to it: rank grows along them.                                           *)
(***************************************************************************)
Ordered(rank) ==
    rank \in [Nodes -> Nat] /\ \A p \in MayOwn \union MayView : rank[p[1]] < rank[p[2]]

NoWayBack == \E rank : Ordered(rank)

Frames == [at : {"destroy", "destroy_view", "cleared"}, node : Nodes]

RefTypes ==
    /\ refs \in [Nodes -> Nat] /\ views \in [Nodes -> Nat]
    /\ object \in [Nodes -> {"none", "alive", "destroyed"}]
    /\ cb \in [Nodes -> {"none", "live", "freed"}]
    /\ held \in [Locals -> Nodes \union {NoNode}] /\ seen \in Nodes \union {NoNode}
    /\ member \in [Nodes -> Nodes \union {NoNode}] /\ viewed \in [Nodes -> Nodes \union {NoNode}]
    /\ stack \in Seq(Frames)

\* The pointers among those of f that point to n.
Pointing(f, n) == {m \in DOMAIN f : f[m] = n}

RefCounts ==
    \A n \in Nodes :
        /\ refs[n] = Cardinality(Pointing(held, n)) + Cardinality(Pointing(member, n))
        /\ views[n] = Cardinality(Pointing(viewed, n)) + IF seen = n THEN 1 ELSE 0

PointersAllowed ==
    \A n \in Nodes :
        /\ member[n] # NoNode => <<n, member[n]>> \in MayOwn
        /\ viewed[n] # NoNode => <<n, viewed[n]>> \in MayView

\* What is being destroyed has no owner left, and the innermost call the highest rank.
StackOrdered(rank) ==
    /\ \A i \in 1..Len(stack) : refs[stack[i].node] = 0
    /\ \A i, j \in 1..Len(stack) : i < j => rank[stack[i].node] > rank[stack[j].node]

OnStack(n) == \E i \in 1..Len(stack) : stack[i].node = n

BlocksNeeded ==
    \A n \in Nodes :
        /\ cb[n] = "live" <=> refs[n] > 0 \/ views[n] > 0 \/ OnStack(n)
        /\ object[n] = "none" => cb[n] # "live"

RefInv(rank) ==
    RefTypes /\ RefCounts /\ PointersAllowed /\ StackOrdered(rank) /\ BlocksNeeded
=============================================================================

-------------------------- MODULE MCFunctionHandle --------------------------
(***************************************************************************)
(* FunctionHandle for TLC: two threads, two handles for foo() and two      *)
(* addresses, so that every second reload uses an address again.           *)
(***************************************************************************)
EXTENDS FunctionHandle, TLC

CONSTANTS t1, t2, h1, h2, a1, a2

Foo == [name |-> "foo", sig |-> 1, code |-> TRUE]
Bar == [name |-> "bar", sig |-> 1, code |-> TRUE]

\* foo alone; foo moved behind bar; foo of another signature, and again without
\* code; a module without a table.
MCTables == {<<Foo>>, <<Bar, Foo>>, <<[Foo EXCEPT !.sig = 2], [Foo EXCEPT !.code = FALSE]>>,
             NoTable}
MCHash == [n \in {"foo", "bar"} |-> IF n = "foo" THEN 1 ELSE 2]
\* last_error() is written and never read by the code.
MCView == <<controlVars, memoryVars, handle, pc, using, inside, cur, snap, mine>>
MCSymmetry == Permutations(Threads) \union Permutations(Addrs) \union Permutations(Handles)
=============================================================================

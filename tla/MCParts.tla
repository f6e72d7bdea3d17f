------------------------------ MODULE MCParts ------------------------------
(***************************************************************************)
(* The components that share no state, in one state space: `part` says     *)
(* which of them a behaviour is about, and the others keep their initial   *)
(* states.  MCValues adds those that compute rather than keep state.       *)
(***************************************************************************)
EXTENDS SharedPtr, RefPtr, Handles, ExportIndex, BenchIndex, ReloadCadence, StressBench,
        Log, InterfaceDispatch, TypeRegistry, MCValues

\* Pointers into objects lead from lower to higher nodes.
MCMayOwn == {<<n, m>> \in Nodes \X Nodes : n < m}
MCMayView == MCMayOwn

Export(name, sig, version) == [name |-> name, sig |-> sig, version |-> version]

\* Names whose hashes collide, two versions of one name, and tables of the
\* capacities 2, 4 and 8.
MCNameHash == "log" :> 3 @@ "add" :> 3 @@ "sub" :> 0 @@ "none" :> 7
MCExportTables ==
    {<<Export("add", 1, 0)>>,
     <<Export("sub", 1, 0), Export("log", 2, 0)>>,
     <<Export("log", 1, 1), Export("add", 1, 0), Export("log", 1, 2), Export("sub", 2, 0)>>}
MCQueries == [name : DOMAIN MCNameHash, sig : {1, 2}, version : {0, 1, 2, 3}]

MCBenchHash == "p" :> 1 @@ "q" :> 1 @@ "r" :> 3 @@ "s" :> 4
MCBenchTables == {<<>>, <<"p">>, <<"s">>, <<"q", "p">>, <<"r", "q">>, <<"p", "r", "q">>}

\* vsnprintf fails, and messages around the size of the buffer.
MCLengths == {-1, 0, 3, 4, 5}

\* A contract of three slots, the second unchecked; tables that fit it, miss a
\* slot, have another signature, an unbound slot, a slot too many, a slot twice.
MCContract == [id |-> 1, version |-> 1, signatures |-> <<7, 0, 8>>]
MCObjectTypes == "box" :> "Box" @@ "disc" :> "Disc"
MCTableFor == "boxes" :> "Box" @@ "discs" :> "Disc"
Adapter(type, slot, sig) == [slot |-> slot, signature |-> sig, entry |-> [of |-> type, sig |-> sig]]
Unbound(slot, sig) == [slot |-> slot, signature |-> sig, entry |-> NoAdapter]
Good(type) == <<Adapter(type, 2, 8), Adapter(type, 0, 7)>>
Impl(type, id, version, methods) ==
    [type |-> type, id |-> id, version |-> version, methods |-> methods]
MCImplementations ==
    {Impl("Box", 1, 1, Good("Box")), Impl("Disc", 1, 1, Good("Disc")),
     Impl("Box", 1, 2, <<Adapter("Box", 0, 7), Adapter("Box", 1, 5), Adapter("Box", 2, 9)>>),
     Impl("Disc", 1, 2, <<Adapter("Disc", 0, 7), Unbound(2, 8)>>),
     Impl("Box", 2, 1, <<Adapter("Box", 3, 7)>>)}
MCManifestTables ==
    {[type |-> "Box", methods |-> Good("Box")],
     [type |-> "Box", methods |-> Good("Box") \o <<Adapter("Box", 2, 9)>>],
     [type |-> "Disc", methods |-> <<>>]}

\* Modules that share a type, disagree about its layout, refer to a type of another
\* module, have no digits in their version, overflow it, repeat or break a type.
Type(id, layout, fields) == [id |-> id, layout |-> layout, fields |-> fields]
Module(text, list, uses) == [text |-> text, types |-> list, uses |-> uses]
MCModules ==
    {Module(<<1>>, <<Type(1, "a", {}), Type(2, "b", {1})>>, {2}),
     Module(<<1, 10, 2>>, <<Type(1, "a", {})>>, {}),
     Module(<<1>>, <<Type(3, "c", {}), Type(1, "b", {})>>, {3}),
     Module(<<2>>, <<Type(1, "b", {}), Type(3, "a", {2})>>, {1}),
     Module(<<10>>, <<>>, {3}),
     Module(<<1, 8>>, <<Type(2, "c", {3})>>, {}),
     Module(<<3>>, <<Type(2, "b", {}), Type(2, "b", {})>>, {}),
     Module(<<3>>, <<Type(1, "odd", {})>>, {})}
MCBootTypes == <<[id |-> 8, layout |-> "a"], [id |-> 9, layout |-> "b"]>>

\* What DispatchIsSound and IdentitiesStayFaithful (BindingProofs) suppose holds here.
ASSUME TheoremsApply == SlotsDistinct /\ MethodsReadable

MCSymmetry == Permutations(Builders) \union Permutations(Indexes) \union Permutations(BenchReaders)

StatefulInit ==
    /\ SharedInit /\ RefInit /\ HandlesInit /\ ExportInit /\ BenchInit /\ CadenceInit /\ StressInit
    /\ LogInit /\ DispatchInit /\ TypesInit

PartsInit ==
    /\ part \in {"shared", "ref", "handles", "export", "bench", "cadence", "stress", "log", "unique",
                "proxy", "types", "binary", "identity", "words", "atomics", "map", "work"}
    /\ StatefulInit /\ ValueInit

pointerVars == <<sharedVars, refVars, handleVars>>
lookupVars == <<exportVars, benchVars>>
measureVars == <<cadenceVars, stressVars>>
registryVars == <<logVars, dispatchVars, typeVars>>
statefulVars == <<pointerVars, lookupVars, measureVars, registryVars>>

PartsNext ==
    \/ /\ part = "shared" /\ SharedNext
       /\ UNCHANGED <<part, refVars, handleVars, lookupVars, measureVars, registryVars, valueVars>>
    \/ /\ part = "ref" /\ RefNext
       /\ UNCHANGED <<part, sharedVars, handleVars, lookupVars, measureVars, registryVars, valueVars>>
    \/ /\ part = "handles" /\ HandlesNext
       /\ UNCHANGED <<part, sharedVars, refVars, lookupVars, measureVars, registryVars, valueVars>>
    \/ /\ part = "export" /\ ExportNext
       /\ UNCHANGED <<part, benchVars, pointerVars, measureVars, registryVars, valueVars>>
    \/ /\ part = "bench" /\ BenchNext
       /\ UNCHANGED <<part, exportVars, pointerVars, measureVars, registryVars, valueVars>>
    \/ /\ part = "cadence" /\ CadenceNext
       /\ UNCHANGED <<part, stressVars, pointerVars, lookupVars, registryVars, valueVars>>
    \/ /\ part = "stress" /\ StressNext
       /\ UNCHANGED <<part, cadenceVars, pointerVars, lookupVars, registryVars, valueVars>>
    \/ /\ part = "log" /\ LogNext
       /\ UNCHANGED <<part, dispatchVars, typeVars, pointerVars, lookupVars, measureVars, valueVars>>
    \/ /\ part \in {"unique", "proxy"}
       /\ AddNext \/ (part = "unique" /\ UniqueNext) \/ (part = "proxy" /\ SharedProxyNext)
       /\ UNCHANGED <<part, logVars, typeVars, pointerVars, lookupVars, measureVars, valueVars>>
    \/ /\ part = "types" /\ TypesNext
       /\ UNCHANGED <<part, logVars, dispatchVars, pointerVars, lookupVars, measureVars, valueVars>>
    \/ ValuesNext /\ UNCHANGED statefulVars

PartsSpec == PartsInit /\ [][PartsNext]_<<part, statefulVars, valueVars>>
=============================================================================

---------------------------- MODULE TypeRegistry ----------------------------
(***************************************************************************)
(* The type registries: runtime::Registry (Runtime/Registry.h), which      *)
(* validates a generated ModuleDescriptor as a whole and keeps one entry   *)
(* per (TypeId, version), the compact metadata::Registry inside it         *)
(* (Metadata/Registry.h), one entry per TypeId, and another one that a     *)
(* program uses by itself, with the bootstrap of Model/Bootstrap.h.        *)
(* All of it is single-threaded start-up code.                             *)
(***************************************************************************)
EXTENDS Naturals, Sequences, FiniteSets

CONSTANTS
    Modules,     \* [text, types, uses]: the version string as a sequence of digits and,
                 \* as 10, other characters; the types; what the functions refer to;
                 \* a type is [id, layout, fields]; id 0 is the zero hash
    GoodLayouts, \* layouts of non-zero size whose alignment is a power of two
    TypeCapacity,
    VersionModulus, \* 2^32 in the code
    BootTypes,   \* the two records of bootstrap_self, as [id, layout]
    KernelIds    \* the ids that a program gives to a metadata::Registry of its own

ASSUME TypesAssumption ==
    /\ TypeCapacity \in Nat /\ VersionModulus \in Nat \ {0}
    /\ \A m \in Modules : Len(m.types) \in Nat /\ m.text \in Seq(Nat)

VARIABLES
    types,     \* runtime::Registry::_entries: [id, layout, fields, version]
    canonical, \* its metadata::Registry: [id, layout]
    kernel,    \* a metadata::Registry of its own: [id, layout]
    accepted,  \* the <<module, version>> that register_module said ok for
    booted     \* what bootstrap_self reported last

typeVars == <<types, canonical, kernel, accepted, booted>>

TypesInit ==
    types = <<>> /\ canonical = <<>> /\ kernel = <<>> /\ accepted = {} /\ booted = "none"

\* The leading decimal integer of a version string.
parse_version(text) ==
    LET digits == {n \in 0..Len(text) : \A i \in 1..n : text[i] \in 0..9}
        last == CHOOSE n \in digits : \A k \in digits : k <= n
        value[n \in 0..Len(text)] ==
            IF n = 0 THEN 0 ELSE (value[n - 1] * 10 + text[n]) % VersionModulus
    IN value[last]

At1(registry, id) == {i \in 1..Len(registry) : registry[i].id = id}
find_type(id, version) == {i \in At1(types, id) : types[i].version = version}
find_by_id(id) ==
    {i \in At1(types, id) : \A j \in At1(types, id) :
        types[j].version < types[i].version \/ (types[j].version = types[i].version /\ j <= i)}

\* Descriptor.h valid(), and valid_layout().
valid(m) ==
    /\ \A i \in 1..Len(m.types) : m.types[i].id # 0 /\ m.types[i].layout \in GoodLayouts
    /\ \A i \in 1..Len(m.types) : 0 \notin m.types[i].fields
    /\ 0 \notin m.uses

duplicate_in_module(m) == \E i, j \in 1..Len(m.types) : i # j /\ m.types[i].id = m.types[j].id

\* Any version of a registered type will do for a reference.
known_type(m, id) == (\E i \in 1..Len(m.types) : m.types[i].id = id) \/ find_by_id(id) # {}

NewTypes(m, version) == {i \in 1..Len(m.types) : find_type(m.types[i].id, version) = {}}

conflict(m, version) ==
    \E i \in 1..Len(m.types) : \E e \in find_type(m.types[i].id, version) :
        types[e].layout # m.types[i].layout

\* Mutation of fits: an off-by-one in the capacity.
fitsOneMore(m, version) == Cardinality(NewTypes(m, version)) <= TypeCapacity + 1 - Len(types)

fits(m, version) == Cardinality(NewTypes(m, version)) <= TypeCapacity - Len(types)

check_module(m, version) ==
    /\ valid(m) /\ ~duplicate_in_module(m)
    /\ ~conflict(m, version)
    /\ fits(m, version)
    /\ \A i \in 1..Len(m.types) : \A id \in m.types[i].fields : known_type(m, id)
    /\ \A id \in m.uses : known_type(m, id)

\* register_type() of a metadata::Registry: what it leaves behind.
With(registry, id, layout) ==
    IF id # 0 /\ layout \in GoodLayouts /\ At1(registry, id) = {} /\ Len(registry) < TypeCapacity
    THEN Append(registry, [id |-> id, layout |-> layout]) ELSE registry

\* One turn of the loop of register_module(): the type goes in the canonical
\* registry unless its id is there, then it gets its entry.
RegisterOne(r, t, version) ==
    LET c == With(r.canonical, t.id, t.layout)
    IN IF At1(c, t.id) = {} THEN [r EXCEPT !.ok = FALSE]
       ELSE IF Len(r.types) = TypeCapacity THEN [r EXCEPT !.canonical = c, !.ok = FALSE]
       ELSE [types |-> Append(r.types, [id |-> t.id, layout |-> t.layout,
                                        fields |-> t.fields, version |-> version]),
             canonical |-> c, ok |-> TRUE]

\* The loop, after the check: every new type.  It stops when an array is full.
Registered(m, version) ==
    LET upto[n \in 0..Len(m.types)] ==
        IF n = 0 THEN [types |-> types, canonical |-> canonical, ok |-> TRUE]
        ELSE IF ~upto[n - 1].ok \/ n \notin NewTypes(m, version) THEN upto[n - 1]
        ELSE RegisterOne(upto[n - 1], m.types[n], version)
    IN upto[Len(m.types)]

register_module(m) ==
    LET version == parse_version(m.text)
        result == Registered(m, version)
    IN /\ check_module(m, version)
       /\ types' = result.types
       /\ canonical' = result.canonical
       /\ accepted' = IF result.ok THEN accepted \union {<<m, version>>} ELSE accepted
       /\ UNCHANGED <<kernel, booted>>

\* A program's own metadata::Registry.
register_type(id, layout) ==
    /\ kernel' = With(kernel, id, layout)
    /\ UNCHANGED <<types, canonical, accepted, booted>>

\* bootstrap_self(): both records; the consumer ignores what register_type says,
\* so the report is ok whatever happened.
bootstrap_self ==
    /\ kernel' = With(With(kernel, BootTypes[1].id, BootTypes[1].layout),
                      BootTypes[2].id, BootTypes[2].layout)
    /\ booted' = "ok"
    /\ UNCHANGED <<types, canonical, accepted>>

TypesNext ==
    \/ \E m \in Modules : register_module(m)
    \/ \E id \in KernelIds, layout \in GoodLayouts : register_type(id, layout)
    \/ bootstrap_self

TypesSpec == TypesInit /\ [][TypesNext]_typeVars
-----------------------------------------------------------------------------
\* "register_module only mutates once the whole module is known safe"
\* (Runtime/Registry.h:58): what is registered are exactly the types of the modules
\* that were accepted, under their versions, each with the layout that every one
\* of those modules has for it.
RegistrationAtomic ==
    /\ \A a \in accepted : \A i \in 1..Len(a[1].types) :
          \E e \in find_type(a[1].types[i].id, a[2]) : types[e].layout = a[1].types[i].layout
    /\ \A e \in 1..Len(types) : \E a \in accepted :
          a[2] = types[e].version /\ \E i \in 1..Len(a[1].types) : a[1].types[i].id = types[e].id

\* Nothing that was registered refers to a type that cannot be found, and no
\* (TypeId, version) has two entries.
ReferencesResolve ==
    /\ \A e \in 1..Len(types) : \A id \in types[e].fields : find_by_id(id) # {}
    /\ \A a \in accepted : \A id \in a[1].uses : find_by_id(id) # {}
    /\ \A d, e \in 1..Len(types) :
          (types[d].id = types[e].id /\ types[d].version = types[e].version) => d = e

\* validate(): every entry has its canonical record; a TypeId has one, that of the
\* version which claimed it first, although later versions differ.
CanonicalIsFirst ==
    \A e \in 1..Len(types) :
        LET first == CHOOSE d \in At1(types, types[e].id) : \A f \in At1(types, types[e].id) : d <= f
        IN \E c \in At1(canonical, types[e].id) :
               /\ canonical[c].layout = types[first].layout
               /\ At1(canonical, types[e].id) = {c}

\* bootstrap_self() says ok however its records fared: as long as the program
\* registered fewer types than leave room, and none under their ids, both are
\* found afterwards with their own layouts.
BootstrapRegistered ==
    booted = "ok" => \A b \in {BootTypes[1], BootTypes[2]} :
        \E i \in At1(kernel, b.id) : kernel[i].layout = b.layout

\* A module is registered as a whole or not at all, every reference resolves, the
\* first version of a type is its canonical one, and the bootstrap types are there.
TypesSound ==
    /\ RegistrationAtomic
    /\ ReferencesResolve
    /\ CanonicalIsFirst
    /\ BootstrapRegistered

(***************************************************************************)
(* The inductive invariant.                                                *)
(***************************************************************************)
\* What an entry can be.
TypeList == UNION {{m.types[i] : i \in 1..Len(m.types)} : m \in Modules}
Entries == [id : {t.id : t \in TypeList}, layout : {t.layout : t \in TypeList},
            fields : {t.fields : t \in TypeList}, version : Nat]
Records == [id : {t.id : t \in TypeList}, layout : GoodLayouts]

\* The entry that find_by_id() returns for the id of entry e, and the first one with it.
Newest(ts, e, n) ==
    /\ ts[n].id = ts[e].id
    /\ \A d \in 1..Len(ts) : ts[d].id = ts[e].id => ts[d].version <= ts[n].version
IsFirst(ts, id, f) == f \in 1..Len(ts) /\ ts[f].id = id /\ \A d \in 1..(f - 1) : ts[d].id # id

\* No (id, version) twice, every id has its newest entry, ...
EntriesInv(ts) ==
    /\ ts \in Seq(Entries)
    /\ \A d, e \in 1..Len(ts) : (ts[d].id = ts[e].id /\ ts[d].version = ts[e].version) => d = e
    /\ \A e \in 1..Len(ts) : \E n \in 1..Len(ts) : Newest(ts, e, n)

\* ... and one canonical record, with the layout of the first.
CanonicalInv(ts, cs) ==
    /\ cs \in Seq(Records) /\ Len(cs) <= Len(ts)
    /\ \A c, d \in 1..Len(cs) : cs[c].id = cs[d].id => c = d
    /\ \A e \in 1..Len(ts) : \E c \in 1..Len(cs) : cs[c].id = ts[e].id
    /\ \A c \in 1..Len(cs) : \E f \in 1..Len(ts) :
           IsFirst(ts, cs[c].id, f) /\ ts[f].layout = cs[c].layout

Listed(ts, id) == \E e \in 1..Len(ts) : ts[e].id = id

\* Every reference of a registered type or of an accepted module is listed; an
\* entry came with an accepted module, whose types are all there.
AcceptedInv ==
    /\ \A e \in 1..Len(types) : \A id \in types[e].fields : Listed(types, id)
    /\ \A a \in accepted : \A id \in a[1].uses : Listed(types, id)
    /\ \A a \in accepted : \A i \in 1..Len(a[1].types) : \E e \in 1..Len(types) :
           /\ types[e].id = a[1].types[i].id /\ types[e].version = a[2]
           /\ types[e].layout = a[1].types[i].layout
    /\ \A e \in 1..Len(types) : \E a \in accepted :
           a[2] = types[e].version /\ \E i \in 1..Len(a[1].types) : a[1].types[i].id = types[e].id

\* The kernel registry has as many entries as ids, the bootstrap types with their
\* own layouts, and both once bootstrap_self() ran.
BootRecords == {BootTypes[1], BootTypes[2]}
IdsOf(ks) == {ks[i].id : i \in 1..Len(ks)}
KernelGood(ks) ==
    /\ ks \in Seq([id : KernelIds \union {b.id : b \in BootRecords}, layout : GoodLayouts])
    /\ Cardinality(IdsOf(ks)) = Len(ks)
    /\ \A i \in 1..Len(ks), b \in BootRecords : ks[i].id = b.id => ks[i].layout = b.layout
KernelInv == KernelGood(kernel) /\ (booted = "ok" => \A b \in BootRecords : Listed(kernel, b.id))

\* Room for the program's types and the bootstrap's, under ids of their own.
BootRoom ==
    /\ IsFiniteSet(KernelIds) /\ Cardinality(KernelIds) + 2 <= TypeCapacity
    /\ \A b \in BootRecords : b.id # 0 /\ b.id \notin KernelIds /\ b.layout \in GoodLayouts
    /\ BootTypes[1].id # BootTypes[2].id

TypesInv ==
    /\ EntriesInv(types) /\ CanonicalInv(types, canonical) /\ Len(types) <= TypeCapacity
    /\ AcceptedInv /\ KernelInv
=============================================================================

------------------------------ MODULE Identity ------------------------------
(***************************************************************************)
(* The identities that two sides of a boundary compare: interface ids and  *)
(* method signatures (Interface/Contract.h), the canonical layout encoding *)
(* and the compatibility verdict (Model/Compat.h), primitive type ids      *)
(* (Model/ABI.h), and function signatures (Runtime/TypeSig.h, DLL/FnSig.h).*)
(* The hash of Util/Hash.h is taken to be without collisions: a hash is its *)
(* domain and the bytes it was fed.                                        *)
(***************************************************************************)
EXTENDS Integers, Sequences

CONSTANTS
    Contracts, \* [name, version, methods]: a method is [slot, lo, hi]
    Methods,   \* [name, ret, params]: type ids are [lo, hi]
    Layouts,   \* [context, type, size, align, fields, given]: a field is
               \* [type, offset, flags]; given is FALSE for a null field array
    Buffers8,  \* buffer sizes for the encoding
    Calls,     \* [ret, params, cc, qualifiers]: the calls of an ABI
    Signatures,\* [cc, ret, args]: a type is [base, const]
    Machines,  \* [pointer, char, wchar, wint, wint_size, digits]
    NoSubject

TypeIds == [lo : Nat, hi : Nat]

\* What the declarations of a program hold.  The name of an interface ends in an
\* identifier, which has a character that is no digit, whatever qualifies it; slots differ.
ASSUME ContractsAssumption ==
    \A c \in Contracts :
        /\ c.name \in Seq(Nat) /\ c.version \in Nat
        /\ \E p \in 1..Len(c.name) :
               c.name[p] \notin 48..58 /\ \A q \in (p + 1)..Len(c.name) : c.name[q] # 58
        /\ c.methods \in Seq([slot : Nat, lo : Nat, hi : Nat])
        /\ \A i, j \in 1..Len(c.methods) : c.methods[i].slot = c.methods[j].slot => i = j

ASSUME LayoutsAssumption ==
    /\ Layouts \subseteq [context : Nat, type : Nat, size : Nat, align : Nat, given : BOOLEAN,
                          fields : Seq([type : Nat, offset : Nat, flags : SUBSET {0, 1, 2, 16}])]
    /\ Buffers8 \subseteq Nat
    /\ Calls \subseteq [ret : TypeIds, params : Seq(TypeIds), cc : Nat, qualifiers : Nat]
    /\ Methods \subseteq [name : Seq(Nat), ret : TypeIds, params : Seq(TypeIds)]

SigTypes == [base : STRING, const : BOOLEAN]

ASSUME SignaturesAssumption ==
    /\ Signatures \subseteq [cc : STRING, ret : SigTypes, args : Seq(SigTypes)]
    /\ Machines \subseteq [pointer : {4, 8}, char : BOOLEAN, wchar : BOOLEAN, wint : BOOLEAN,
                           wint_size : {1, 2, 4, 8}, digits : {53, 64, 106, 113}]

VARIABLE subject \* what is being identified

identityVars == <<subject>>

IdentityInit == subject = NoSubject

Subjects(kind, set) == {[kind |-> kind, of |-> x] : x \in set}

Identify ==
    /\ subject = NoSubject
    /\ subject' \in Subjects("contract", Contracts) \union Subjects("method", Methods)
                    \union Subjects("layout", Layouts) \union Subjects("call", Calls)
                    \union Subjects("signature", Signatures) \union Subjects("machine", Machines)

IdentitySpec == IdentityInit /\ [][Identify]_identityVars
-----------------------------------------------------------------------------
(* Util/Hash.h                                                             *)
canonical_hash_begin(domain) == [domain |-> domain, bytes |-> <<>>]
canonical_hash_bytes(state, bytes) == [state EXCEPT !.bytes = @ \o bytes]
\* The first entry is whatever is left above the other bytes.
canonical_hash_u32_be(value) ==
    <<value \div 16777216, (value \div 65536) % 256, (value \div 256) % 256, value % 256>>
canonical_hash_u64_be(value) == <<0, 0, 0, 0>> \o canonical_hash_u32_be(value)

\* The digits of interface_hash_u64(), '0' is 48.
interface_hash_u64(value) ==
    LET digits[n \in 0..value] ==
            IF n < 10 THEN <<48 + n>> ELSE digits[n \div 10] \o <<48 + (n % 10)>>
    IN digits[value]

Colon == <<58>>

\* The pieces, one after the other.
Each(pieces) ==
    LET upto[k \in 0..Len(pieces)] == IF k = 0 THEN <<>> ELSE upto[k - 1] \o pieces[k]
    IN upto[Len(pieces)]
-----------------------------------------------------------------------------
(* Interface/Contract.h                                                    *)
\* Mutation of sorted: the list is hashed as it was written.
sortedNot(methods) == methods

\* Where the insertion sort stops to move elements up: before j all slots are at most m's.
Place(list, m) ==
    CHOOSE j \in 0..Len(list) : /\ j > 0 => list[j].slot <= m.slot
                                /\ \A i \in (j + 1)..Len(list) : list[i].slot > m.slot

InsertedBySlot(list, m) ==
    LET j == Place(list, m)
    IN SubSeq(list, 1, j) \o <<m>> \o SubSeq(list, j + 1, Len(list))

\* The insertion sort by slot.
sorted(methods) ==
    LET upto[n \in 0..Len(methods)] == IF n = 0 THEN <<>> ELSE InsertedBySlot(upto[n - 1], methods[n])
    IN upto[Len(methods)]

ColonNumber(value) == Colon \o interface_hash_u64(value)

interface_text(c, methods) ==
    c.name \o ColonNumber(c.version)
    \o Each([i \in 1..Len(methods) |-> ColonNumber(methods[i].lo) \o ColonNumber(methods[i].hi)])

interface_id(c) ==
    canonical_hash_bytes(canonical_hash_begin("INTERFAC"), interface_text(c, sorted(c.methods)))

\* A method's signature: name and decimal type ids without separators.
TypeText(t) == interface_hash_u64(t.lo) \o interface_hash_u64(t.hi)

method_signature(name, ret, params) ==
    LET types == <<ret>> \o params
    IN canonical_hash_bytes(canonical_hash_begin("SIGNATUR"),
           name \o Each([i \in 1..Len(types) |-> TypeText(types[i])]))

\* Without separators a signature can be read back when the halves of all type ids have
\* one number of digits, and no name ends in as many digits as an id has.
Halves == UNION {{t.lo, t.hi} : t \in UNION {{m.ret} \union {m.params[i] : i \in 1..Len(m.params)} : m \in Methods}}
MethodsReadable ==
    /\ \A a, b \in Halves : Len(interface_hash_u64(a)) = Len(interface_hash_u64(b))
    /\ \A m \in Methods, a \in Halves : \E p \in 1..Len(m.name) :
           m.name[p] \notin 48..57 /\ p + 2 * Len(interface_hash_u64(a)) > Len(m.name)
-----------------------------------------------------------------------------
(* Model/Compat.h                                                          *)
\* The flags are base and bit-field marks (0, 1), a visibility (2) and a bit
\* position (16): a set of bits.
canonical_layout_flags(flags) == flags \intersect {0, 1, 16}
FlagWord(flags) == canonical_hash_u32_be((IF 0 \in flags THEN 1 ELSE 0) + (IF 1 \in flags THEN 2 ELSE 0)
                                         + (IF 2 \in flags THEN 4 ELSE 0) + (IF 16 \in flags THEN 65536 ELSE 0))
TypeBytes(t) == canonical_hash_u64_be(t) \o canonical_hash_u64_be(0)

LayoutHead(l) ==
    canonical_hash_u32_be(l.context) \o TypeBytes(l.type) \o canonical_hash_u32_be(l.size)
    \o canonical_hash_u32_be(l.align) \o canonical_hash_u32_be(Len(l.fields))

LayoutField(f) ==
    TypeBytes(f.type) \o canonical_hash_u32_be(f.offset) \o FlagWord(canonical_layout_flags(f.flags))

\* visit_canonical_layout(): what a sink is given, and whether it was all.
visit_canonical_layout(l) ==
    [bytes |-> LayoutHead(l) \o IF l.given THEN Each([i \in 1..Len(l.fields) |-> LayoutField(l.fields[i])])
                                ELSE <<>>,
     ok |-> l.given \/ l.fields = <<>>]

\* The byte sink refuses what is past its capacity, and then the result is 0.
encode_canonical_layout(l, capacity) ==
    LET visit == visit_canonical_layout(l)
    IN [written |-> SubSeq(visit.bytes, 1, IF Len(visit.bytes) < capacity THEN Len(visit.bytes) ELSE capacity),
        size |-> IF visit.ok /\ Len(visit.bytes) <= capacity THEN Len(visit.bytes) ELSE 0]

\* The hash sink takes everything.
LayoutHashSink(bytes) == canonical_hash_bytes(canonical_hash_begin("LAYOUTV1"), bytes)

\* An unfinished visit has the zero hash.
canonical_layout_hash(l) ==
    IF visit_canonical_layout(l).ok THEN LayoutHashSink(visit_canonical_layout(l).bytes)
    ELSE canonical_hash_begin("zero")

IdBytes(t) == canonical_hash_u64_be(t.lo) \o canonical_hash_u64_be(t.hi)

\* The call ABI: types, their number, calling convention and qualifiers.
abi_signature_hash(c) ==
    canonical_hash_bytes(canonical_hash_begin("ABISIG_1"),
        IdBytes(c.ret) \o canonical_hash_u64_be(Len(c.params))
        \o Each([i \in 1..Len(c.params) |-> IdBytes(c.params[i])])
        \o canonical_hash_u32_be(c.cc) \o canonical_hash_u32_be(c.qualifiers))

compare(s, t, has_map) ==
    LET same == canonical_layout_hash(s) = canonical_layout_hash(t)
    IN IF s.type = t.type /\ same THEN "identical"
       ELSE IF same THEN "layout_compatible"
       ELSE IF has_map THEN "map_compatible" ELSE "incompatible"
-----------------------------------------------------------------------------
(* Runtime/TypeSig.h and DLL/FnSig.h; mix() is without collisions too.     *)
type_sig(t) == IF t.base = "reference" THEN t ELSE [t EXCEPT !.const = FALSE]

FnSigImpl(s) == <<type_sig(s.ret), [i \in 1..Len(s.args) |-> type_sig(s.args[i])], s.cc>>
-----------------------------------------------------------------------------
(* Model/ABI.h: primitive ids are the hashes of their keys.                *)
Key(class, signed, bits) == [class |-> class, signed |-> signed, bits |-> bits]

integer_type_id(size, signed) ==
    Key("int", signed, CASE size = 1 -> 8 [] size = 2 -> 16 [] size = 8 -> 64 [] OTHER -> 32)

isize(m) == IF m.pointer = 4 THEN integer_type_id(4, TRUE) ELSE integer_type_id(8, TRUE)
usize(m) == IF m.pointer = 4 THEN integer_type_id(4, FALSE) ELSE integer_type_id(8, FALSE)
wint(m) == integer_type_id(m.wint_size, m.wint)
ldouble(m) == CASE m.digits = 53 -> Key("ieee", TRUE, 64)
                [] m.digits = 64 -> Key("x87", TRUE, 80)
                [] m.digits = 106 -> Key("ppc", TRUE, 128)
                [] OTHER -> Key("ieee", TRUE, 128)
nchar(m) == Key("char", m.char, 8)
wchar(m) == Key("wchar", m.wchar, 32)
-----------------------------------------------------------------------------
Is(kind) == subject # NoSubject /\ subject.kind = kind

\* "two interfaces that share a name but differ in version or shape stay distinct"
\* (Contract.h:76), and one whose methods are listed in another order does not:
\* two contracts have one id exactly when name, version and the signatures in slot
\* order are the same.
InterfaceIdIsContract ==
    Is("contract") => \A d \in Contracts :
        LET c == subject.of
            inOrder(x) == CHOOSE s \in [1..Len(x.methods) -> {x.methods[i] : i \in 1..Len(x.methods)}] :
                              /\ \A i, j \in 1..Len(x.methods) : i < j => s[i].slot < s[j].slot
                              /\ \A i \in 1..Len(x.methods) : \E j \in 1..Len(x.methods) : s[j] = x.methods[i]
            shape(x) == [i \in 1..Len(x.methods) |-> <<inOrder(x)[i].lo, inOrder(x)[i].hi>>]
        IN interface_id(c) = interface_id(d) <=> /\ c.name = d.name /\ c.version = d.version
                                                 /\ Len(c.methods) = Len(d.methods)
                                                 /\ shape(c) = shape(d)

\* Two methods have one signature exactly when name, result and parameters agree.
\* The text has no separators (Contract.h:183), so this is so for methods whose texts
\* can be read in one way only (MethodsReadable).
MethodSignatureIsMethod ==
    Is("method") => \A n \in Methods :
        LET m == subject.of
        IN method_signature(m.name, m.ret, m.params) = method_signature(n.name, n.ret, n.params) <=> m = n

\* The facts that decide a physical layout on a target.
Facts(l) == [context |-> l.context, type |-> l.type, size |-> l.size, align |-> l.align,
             fields |-> [i \in 1..Len(l.fields) |->
                            [l.fields[i] EXCEPT !.flags = @ \ {2}]]]

\* Two layouts have the same encoding exactly when they are the same up to names
\* and visibility, and only then compare() calls them identical: nothing of the ABI
\* is lost and nothing else is in it.
LayoutHashIsLayout ==
    Is("layout") => \A m \in Layouts :
        (subject.of.given /\ m.given) =>
            /\ canonical_layout_hash(subject.of) = canonical_layout_hash(m) <=> Facts(subject.of) = Facts(m)
            /\ compare(subject.of, m, TRUE) = "identical" <=> Facts(subject.of) = Facts(m)

\* "the two meanings that must stay separate" (Compat.h:30): two calls have one ABI
\* signature exactly when types, convention and qualifiers agree, and it is never the
\* identity of a method or the hash of a layout.
AbiSignatureIsCall ==
    Is("call") =>
        LET hash == abi_signature_hash(subject.of)
        IN /\ \A c \in Calls : abi_signature_hash(c) = hash <=> c = subject.of
           /\ \A m \in Methods : method_signature(m.name, m.ret, m.params) # hash
           /\ \A l \in Layouts : canonical_layout_hash(l) # hash

\* encode_canonical_layout() never writes past the buffer, and the size it returns is
\* that of a whole encoding that the buffer holds, or 0.
EncodingFits ==
    Is("layout") => \A capacity \in Buffers8 :
        LET e == encode_canonical_layout(subject.of, capacity)
        IN /\ Len(e.written) <= capacity
           /\ e.size # 0 => /\ e.size = Len(e.written)
                            /\ e.written = canonical_layout_hash(subject.of).bytes

\* A call through a resolved pointer agrees with the export: the signatures are the
\* same exactly when the convention and all types are, up to const values.
SignatureIsType ==
    Is("signature") => \A t \in Signatures :
        LET s == subject.of
            value(x) == <<x.base, x.base = "reference" /\ x.const>>
            shape(f) == <<f.cc, value(f.ret), [i \in 1..Len(f.args) |-> value(f.args[i])]>>
        IN FnSigImpl(s) = FnSigImpl(t) <=> shape(s) = shape(t)

\* On every machine the aliases have the identity of a type with their own width and
\* signedness, and types of different kinds never share one.
AliasesKeepRepresentation ==
    Is("machine") =>
        LET m == subject.of
        IN /\ isize(m).bits = 8 * m.pointer /\ usize(m).bits = 8 * m.pointer
           /\ wint(m).bits = 8 * m.wint_size /\ wint(m).signed = m.wint
           /\ isize(m) # usize(m)
           /\ nchar(m) \notin {integer_type_id(1, TRUE), integer_type_id(1, FALSE)}
           /\ wchar(m) # wint(m)
           /\ ldouble(m).class = "ieee" <=> m.digits \in {53, 113}

\* Two sides of a boundary compute the same identity exactly when they mean the
\* same contract, method, layout, call or type, and an encoding never overruns.
IdentitiesFaithful ==
    /\ InterfaceIdIsContract
    /\ MethodSignatureIsMethod
    /\ LayoutHashIsLayout
    /\ AbiSignatureIsCall
    /\ EncodingFits
    /\ SignatureIsType
    /\ AliasesKeepRepresentation
=============================================================================

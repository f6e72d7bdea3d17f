----------------------------- MODULE MCValues -----------------------------
(***************************************************************************)
(* The components that compute rather than keep state, in one state space: *)
(* each takes an input and `part` says which one a behaviour is about.     *)
(***************************************************************************)
EXTENDS BinaryImage, Identity, Words, MapPlan, Workload, TLC

VARIABLE part

\* Files of each format whose tables lie well, at the end, across it and where an
\* offset overflows.
Hdr(name, strx, offset, size, nobits, link, entsize) ==
    [name |-> name, strx |-> strx, offset |-> offset, size |-> size, nobits |-> nobits,
     link |-> link, entsize |-> entsize]
MCElfHeaders ==
    {[i \in 0..3 |-> CASE i = 0 -> Hdr("", 0, 0, 0, FALSE, 0, 0)
                       [] i = 1 -> Hdr(".dynsym", 1, d[1], d[2], FALSE, d[3], d[4])
                       [] i = 2 -> Hdr(".abix.metadata", 9, m[1], m[2], m[3], 0, 0)
                       [] OTHER -> Hdr(".shstrtab", 5, t[1], t[2], FALSE, 0, 0)] :
     d \in {<<64, 48, 3, 24>>, <<300, 50, 3, 0>>, <<1020, 48, 4, 24>>, <<64, 48, 3, Whole - 8>>,
             <<7, 24, 3, Whole - 10>>},
     m \in {<<64, 20, FALSE>>, <<390, 20, FALSE>>, <<64, 20, TRUE>>},
     t \in {<<64, 10>>, <<1010, 30>>}}
MCElfFiles ==
    {[format |-> "elf", size |-> z, class |-> c[1], endian |-> c[2], shentsize |-> c[3], shoff |-> o,
      shnum |-> n, shstrndx |-> x, headers |-> hs, symbol |-> [exported |-> TRUE, strx |-> y]] :
     z \in {15, 63, 320, 400}, c \in {<<2, 1, 64>>}, o \in {64, 144, 1000}, n \in {0, 2, 4},
     x \in {1, 3}, hs \in MCElfHeaders, y \in {1, 1000}}
    \union
    {[format |-> "elf", size |-> 400, class |-> c[1], endian |-> c[2], shentsize |-> c[3], shoff |-> 64,
      shnum |-> 4, shstrndx |-> 3, headers |-> hs, symbol |-> [exported |-> FALSE, strx |-> 1]] :
     c \in {<<2, 1, 64>>, <<1, 1, 64>>, <<2, 2, 64>>, <<2, 1, 40>>}, hs \in MCElfHeaders}

Load(cmd, cmdsize, list, symtab) ==
    [cmd |-> cmd, cmdsize |-> cmdsize, sections |-> list, symtab |-> symtab]
Table(symoff, nsyms, stroff, strsize) ==
    [symoff |-> symoff, nsyms |-> nsyms, stroff |-> stroff, strsize |-> strsize]
MCMachoFiles ==
    {[format |-> "macho", wide |-> w, size |-> z, commands_size |-> cs, symbol |-> [exported |-> e, strx |-> 2],
      commands |-> <<Load(k, l, q, Table(0, 0, 0, 0)), Load("symtab", y, <<>>, t)>>] :
     w \in BOOLEAN, z \in {27, 31, 208, 300}, cs \in {24, 176, 1000}, e \in BOOLEAN,
     k \in {"segment", "segment64", "uuid"}, l \in {4, 56, 152},
     q \in {<<>>, <<[name |-> "__abix_metadata", offset |-> 0, size |-> 8]>>,
            <<[name |-> "__abix_metadata", offset |-> 290, size |-> 10]>>},
     y \in {8, 24}, t \in {Table(180, 2, 200, 8), Table(290, 1, 1020, 8)}}
    \union
    {[format |-> "macho", wide |-> TRUE, size |-> z, commands_size |-> 24, symbol |-> [exported |-> FALSE, strx |-> 2],
      commands |-> <<Load("symtab", 8, <<>>, Table(0, 0, 0, 0)), Load("segment64", 16, <<>>, Table(0, 0, 0, 0))>>] :
     z \in {56, 80}}

Private(magic, header_size, region_offset, region_size) ==
    [magic |-> magic, version |-> 1, header_size |-> header_size, region_offset |-> region_offset,
     region_size |-> region_size]
PeSection(name, rva, size, raw_size, offset) ==
    [name |-> name, rva |-> rva, size |-> size, raw_size |-> raw_size, offset |-> offset]
MCPeFiles ==
    {[format |-> "pe", wide |-> w, size |-> z, nt |-> nt, signature |-> g, optional_size |-> o,
      sections |-> q, exports |-> d, private |-> h] :
     w \in BOOLEAN, z \in {63, 250, 300, 400}, nt \in {64, 230, 1000}, g \in {TRUE}, o \in {1, 104, 120},
     q \in {<<PeSection(".abix", 100, 60, 40, 280), PeSection(".text", 500, 20, 40, 390)>>,
            <<PeSection(".text", 500, 80, 60, 300), PeSection(".abix", 990, 60, 0, 280)>>},
     d \in {[rva |-> r, size |-> 40, count |-> 2, name |-> 505, names |-> n, functions |-> 500,
             ordinals |-> 520, ordinal |-> b] : r \in {0, 500, 1000}, n \in {500, 545, 570}, b \in {1, 40}},
     h \in {Private(TRUE, 24, 24, 16), Private(TRUE, 24, 30, 20), Private(FALSE, 0, 0, 0)}}
    \union {[format |-> "pe", wide |-> TRUE, size |-> 400, nt |-> 64, signature |-> FALSE,
             optional_size |-> 120, sections |-> <<>>, private |-> Private(FALSE, 0, 0, 0),
             exports |-> [rva |-> 0, size |-> 0, count |-> 0, name |-> 0, names |-> 0,
                          functions |-> 0, ordinals |-> 0, ordinal |-> 0]]}
MCFiles == MCElfFiles \union MCMachoFiles \union MCPeFiles \union {[format |-> "unknown", size |-> 9]}

\* Contracts with the same digits cut in other places, in another slot order, of
\* another version; layouts that differ in each fact and in visibility.
Sig(slot, lo, hi) == [slot |-> slot, lo |-> lo, hi |-> hi]
MCContracts ==
    {[name |-> n, version |-> v, methods |-> ms] :
     n \in {<<65>>, <<65, 66>>, <<65, 58, 58, 66, 49>>}, v \in {1, 12},
     ms \in {<<>>, <<Sig(0, 1, 23)>>, <<Sig(0, 12, 3)>>, <<Sig(1, 0, 3), Sig(0, 1, 20)>>,
             <<Sig(0, 1, 20), Sig(1, 0, 3)>>, <<Sig(0, 0, 3), Sig(1, 1, 20)>>,
             <<Sig(2, 7, 7), Sig(0, 1, 20), Sig(1, 0, 3)>>}}
MCIds == {[lo |-> 12, hi |-> 34], [lo |-> 34, hi |-> 12], [lo |-> 12, hi |-> 12]}
MCMethods == [name : {<<65>>, <<65, 49>>}, ret : MCIds,
              params : {<<>>} \union {<<t>> : t \in MCIds} \union {<<t, u>> : t, u \in MCIds}]
MCLayouts ==
    {[context |-> c, type |-> t, size |-> z, align |-> 8, given |-> g, fields |-> fs] :
     c \in {1, 2}, t \in {5, 6}, z \in {8, 16}, g \in BOOLEAN,
     fs \in {<<>>} \union {<<[type |-> 9, offset |-> o, flags |-> f]>> : o \in {0, 8}, f \in SUBSET {1, 2}}
            \union {<<[type |-> 9, offset |-> 0, flags |-> {}], [type |-> 5, offset |-> 8, flags |-> {16}]>>}}
MCCalls == [ret : MCIds, params : {<<>>} \union {<<t>> : t \in MCIds} \union {<<t, u>> : t, u \in MCIds},
            cc : {0, 1}, qualifiers : {0, 1}]
MCTypes == [base : {"int", "reference"}, const : BOOLEAN]
MCSignatures ==
    [cc : {"cdecl", "stdcall"}, ret : MCTypes, args : {<<>>} \union {<<t>> : t \in MCTypes}
                                                      \union {<<[base |-> "int", const |-> TRUE], t>> : t \in MCTypes}]
MCMachines == [pointer : {4, 8}, char : BOOLEAN, wchar : BOOLEAN, wint : BOOLEAN, wint_size : {2, 4, 8},
               digits : {53, 64, 106, 113}]

\* Versions around the limits of their parts; plans that copy, run over, skip and fail.
MCVersions == [major : {0, 1, 99}, minor : {0, 1, 99}, patch : {0, 1, 99999}]
Step2(opcode, source, target, bytes) ==
    [opcode |-> opcode, source |-> source, target |-> target, bytes |-> bytes]
MCSteps ==
    {Step2("copy_field", 1, 2, b) : b \in {0, 2, 4, 9}}
    \union {Step2("rename_field", 2, 1, 4), Step2("default_field", 0, 2, 4), Step2("add_default", 0, 3, 2),
            Step2("skip_field", 2, 0, 0), Step2("skip_field", 4, 0, 0), Step2("convert_int", 2, 1, 0),
            Step2("call_converter", 1, 3, 0), Step2("convert_float", 1, 1, 0), Step2("unknown", 1, 1, 1)}
MCPlans == {<<>>} \union {<<a>> : a \in MCSteps} \union {<<a, b>> : a, b \in MCSteps}
           \union {<<a, a, a>> : a \in MCSteps}
MCPlanLayouts ==
    {[size |-> 8, good |-> TRUE, offsets |-> <<0, 4>>], [size |-> 6, good |-> TRUE, offsets |-> <<4, 2, 6>>],
     [size |-> 0, good |-> TRUE, offsets |-> <<>>], [size |-> 8, good |-> FALSE, offsets |-> <<0>>]}

\* The profiles of workload.hpp, and machines of one kind of core and of two.
Profile(name, reader, retire, sync) == [name |-> name, reader |-> reader, retire |-> retire, sync |-> sync]
MCProfiles ==
    <<Profile("read_heavy", 90, 9, 1), Profile("balanced", 70, 20, 10), Profile("write_heavy", 40, 40, 20)>>
Cpus(logical, performance, efficiency) ==
    [logical |-> logical, performance |-> performance, efficiency |-> efficiency]
MCTopologies == {Cpus(n, 0, 0) : n \in {1, 2, 6, 8, 12, 20}}
                \union {Cpus(20, 8, 12), Cpus(8, 4, 4), Cpus(10, 10, 0), Cpus(3, 2, 1), Cpus(14, 20, 0)}

ValueInit == BinaryInit /\ IdentityInit /\ WordsInit /\ MapInit /\ WorkInit

valueVars == <<binaryVars, identityVars, wordVars, mapVars, workVars>>

ValuesNext ==
    /\ UNCHANGED part
    /\ \/ part = "binary" /\ BinaryNext /\ UNCHANGED <<identityVars, wordVars, mapVars, workVars>>
       \/ part = "identity" /\ Identify /\ UNCHANGED <<binaryVars, wordVars, mapVars, workVars>>
       \/ part = "words" /\ Compute /\ UNCHANGED <<binaryVars, identityVars, mapVars, workVars>>
       \/ part = "atomics" /\ Operate /\ UNCHANGED <<binaryVars, identityVars, mapVars, workVars>>
       \/ part = "map" /\ MapNext /\ UNCHANGED <<binaryVars, identityVars, wordVars, workVars>>
       \/ part = "work" /\ WorkNext /\ UNCHANGED <<binaryVars, identityVars, wordVars, mapVars>>
=============================================================================

---------------------------- MODULE BinaryImage ----------------------------
(***************************************************************************)
(* The readers of binary containers (Binary/BinaryImage.h, ELF.h, MachO.h, *)
(* PE.h).  A file is a record of the header fields that the readers look   *)
(* at, with any values; a reader is a list of stages, each of which touches *)
(* some bytes of the file and then tests something, and it stops at the    *)
(* first test that fails.  Byte ranges are <<offset, length>>.             *)
(***************************************************************************)
EXTENDS Integers, Sequences

CONSTANTS
    Files,  \* the files that are opened
    Half,   \* 2^32 in the code: the modulus of uint32_t
    Whole,  \* 2^64 in the code: the modulus of uint64_t and of size_t
    NoFile

\* The fields that the readers look at are numbers of any size; those of an ELF
\* section header are uint64_t, and the reader computes with them as such.
IsElf(f) ==
    /\ {f.class, f.endian, f.shentsize, f.shoff, f.shnum, f.shstrndx, f.symbol.strx} \subseteq Nat
    /\ f.symbol.exported \in BOOLEAN
    /\ \A i \in 0..(f.shnum - 1) :
          LET h == f.headers[i]
          IN /\ {h.strx, h.link} \subseteq Nat /\ h.nobits \in BOOLEAN
             /\ {h.offset, h.size, h.entsize} \subseteq 0..(Whole - 1)
IsMacho(f) ==
    /\ f.wide \in BOOLEAN /\ f.commands_size \in Nat
    /\ f.symbol.strx \in Nat /\ f.symbol.exported \in BOOLEAN
    /\ Len(f.commands) \in Nat
    /\ \A k \in 1..Len(f.commands) :
          LET c == f.commands[k]
          IN /\ {c.cmdsize, c.symtab.symoff, c.symtab.nsyms, c.symtab.stroff, c.symtab.strsize} \subseteq Nat
             /\ Len(c.sections) \in Nat
             /\ \A n \in 1..Len(c.sections) : {c.sections[n].offset, c.sections[n].size} \subseteq Nat
IsPe(f) ==
    /\ {f.nt, f.optional_size} \subseteq Nat
    /\ {f.wide, f.signature, f.private.magic} \subseteq BOOLEAN
    /\ {f.private.header_size, f.private.region_offset, f.private.region_size} \subseteq Nat
    /\ {f.exports.rva, f.exports.size, f.exports.count, f.exports.name, f.exports.names,
         f.exports.functions, f.exports.ordinals, f.exports.ordinal} \subseteq Nat
    /\ Len(f.sections) \in Nat
    /\ \A n \in 1..Len(f.sections) :
          LET s == f.sections[n]
          IN {s.rva, s.size, s.raw_size, s.offset} \subseteq Nat

ASSUME FilesAssumption ==
    /\ Half \in Nat \ {0} /\ Whole \in Nat \ {0}
    /\ \A f \in Files :
          /\ f.size \in Nat /\ 2 * f.size < Whole
          /\ f.format = "elf" => IsElf(f)
          /\ f.format = "macho" => IsMacho(f)
          /\ f.format = "pe" => IsPe(f)

VARIABLES
    file,    \* the file whose bytes the reader has
    image,   \* BinaryImage: the sections and exports of the file, or NoFile
    touched, \* the byte ranges that the last operation read
    region   \* what read_region() copied: a range, or NoFile

binaryVars == <<file, image, touched, region>>

BinaryInit == file = NoFile /\ image = NoFile /\ touched = {} /\ region = NoFile

\* Mutation of in_bounds: the sum, as wide as a uint32_t.
in_boundsSum(offset, length, size) == (offset + length) % Half <= size

in_bounds(offset, length, size) == offset <= size /\ length <= size - offset

Stage(bytes, holds) == [bytes |-> bytes, holds |-> holds]
When(condition, bytes) == IF condition THEN bytes ELSE {}
Parses(stages) == \A i \in 1..Len(stages) : stages[i].holds
Touches(stages) ==
    UNION {stages[i].bytes : i \in {n \in 1..Len(stages) : \A k \in 1..(n - 1) : stages[k].holds}}

\* The sequences of ss, one after the other.
Concat(ss) ==
    LET upto[k \in 0..Len(ss)] == IF k = 0 THEN <<>> ELSE upto[k - 1] \o ss[k]
    IN upto[Len(ss)]

\* A name that runs to a NUL, or to the end of its table.
NameBytes(start, end) == When(start < end, {<<start, end - start>>})
-----------------------------------------------------------------------------
(* ELF64: f.headers[i] is section header i, f.symbol what every entry of   *)
(* .dynsym says.                                                           *)
ElfHeader(f, i) == f.shoff + i * 64
ElfFileSize(h) == IF h.nobits THEN 0 ELSE h.size
ElfNames(f) == f.headers[f.shstrndx]
ElfName(f, h) == IF h.strx >= ElfNames(f).size THEN "" ELSE h.name
ElfIndexes(f) == 0..(f.shnum - 1)
ElfDynsym(f) ==
    {i \in ElfIndexes(f) : /\ ElfName(f, f.headers[i]) = ".dynsym"
                           /\ \A j \in 0..(i - 1) : ElfName(f, f.headers[j]) # ".dynsym"}

\* The loop over .dynsym: `off` and `off + 24` are uint64_t, so a step close to
\* their modulus goes backwards.  An sh_entsize of 0 stands for 24.
ElfOffset(h, n) == (n * IF h.entsize = 0 THEN 24 ELSE h.entsize) % Whole
ElfInTable(h, off) == (off + 24) % Whole <= ElfFileSize(h)
ElfEntries(h) ==
    {ElfOffset(h, n) : n \in {k \in 0..(ElfFileSize(h) + 24) :
                                \A m \in 0..k : ElfInTable(h, ElfOffset(h, m))}}
ElfEntryBytes(h) == {<<(h.offset + off) % Whole, 16>> : off \in ElfEntries(h)}

ElfReadsSymbols(f, h) ==
    /\ h.link < f.shnum /\ in_bounds(h.offset, ElfFileSize(h), f.size)
    /\ in_bounds(f.headers[h.link].offset, f.headers[h.link].size, f.size)

ElfSymbolBytes(f, i) ==
    LET h == f.headers[i]
        strings == f.headers[h.link]
        at == ElfHeader(f, i)
    IN {<<at + 40, 4>>, <<at + 56, 8>>}
       \union When(h.link < f.shnum /\ in_bounds(h.offset, ElfFileSize(h), f.size),
                   {<<ElfHeader(f, h.link) + 24, 16>>})
       \union When(ElfReadsSymbols(f, h),
                   ElfEntryBytes(h)
                   \union When(f.symbol.exported /\ ElfEntries(h) # {},
                               NameBytes(strings.offset + f.symbol.strx,
                                         strings.offset + strings.size)))

parse_elf(f) ==
    <<Stage(When(f.size >= 4, {<<0, 4>>}), f.size >= 4),
      Stage({}, f.size >= 16),
      Stage({<<4, 1>>}, f.class = 2),
      Stage({<<5, 1>>}, f.endian = 1),
      Stage({}, f.size >= 64),
      Stage({<<40, 8>>, <<58, 6>>}, f.shentsize = 64),
      Stage({}, f.shnum # 0),
      Stage({}, in_bounds(f.shoff, f.shentsize * f.shnum, f.size)),
      Stage({}, f.shstrndx < f.shnum),
      Stage({<<ElfHeader(f, f.shstrndx) + 24, 16>>},
            in_bounds(ElfNames(f).offset, ElfNames(f).size, f.size)),
      Stage({<<7, 1>>, <<18, 2>>}
            \union {<<ElfHeader(f, i), 56>> : i \in ElfIndexes(f)}
            \union (UNION {NameBytes(ElfNames(f).offset + f.headers[i].strx,
                                     ElfNames(f).offset + ElfNames(f).size) : i \in ElfIndexes(f)})
            \union (UNION {ElfSymbolBytes(f, i) : i \in ElfDynsym(f)}), TRUE)>>

ElfSections(f) ==
    [n \in 1..f.shnum |->
        LET h == f.headers[n - 1]
        IN [name |-> ElfName(f, h), offset |-> h.offset, size |-> h.size, file_size |-> ElfFileSize(h)]]
-----------------------------------------------------------------------------
(* Mach-O: f.commands are the load commands, one after the other.          *)
MachoHeader(f) == IF f.wide THEN 32 ELSE 28
MachoEnd(f) == MachoHeader(f) + f.commands_size
MachoAt(f, k) ==
    LET after[n \in 0..(k - 1)] ==
            IF n = 0 THEN MachoHeader(f) ELSE after[n - 1] + f.commands[n].cmdsize
    IN after[k - 1]
IsSegment(f, c) == c.cmd = IF f.wide THEN "segment64" ELSE "segment"
SectionStart(f) == IF f.wide THEN 72 ELSE 56
SectionSize(f) == IF f.wide THEN 80 ELSE 68

MachoCommand(f, k) ==
    LET c == f.commands[k]
        at == MachoAt(f, k)
        start == at + SectionStart(f)
    IN <<Stage({}, at + 8 <= MachoEnd(f)),
         Stage({<<at, 8>>}, c.cmdsize >= 8 /\ at + c.cmdsize <= MachoEnd(f)),
         Stage(When(c.cmd = "symtab" /\ c.cmdsize >= 24, {<<at + 8, 16>>})
               \union When(IsSegment(f, c), {<<at + 8, 16>>}),
               IsSegment(f, c) => c.cmdsize >= SectionStart(f)),
         Stage(When(IsSegment(f, c), {<<at + 24, IF f.wide THEN 8 ELSE 4>>,
                                      <<start - 8, 4>>}),
               IsSegment(f, c) => SectionStart(f) + Len(c.sections) * SectionSize(f) <= c.cmdsize),
         Stage(When(IsSegment(f, c),
                    {<<start + (s - 1) * SectionSize(f), SectionSize(f) - 8>> : s \in 1..Len(c.sections)}),
               TRUE)>>

\* The last LC_SYMTAB counts.
Symtabs(f) == {k \in 1..Len(f.commands) : f.commands[k].cmd = "symtab" /\ f.commands[k].cmdsize >= 24}
LastSymtab(f) == {k \in Symtabs(f) : \A j \in Symtabs(f) : j <= k}
SymbolSize(f) == IF f.wide THEN 16 ELSE 12
MachoReadsSymbols(f, t) ==
    in_bounds(t.symoff, t.nsyms * SymbolSize(f), f.size) /\ in_bounds(t.stroff, t.strsize, f.size)

MachoSymbolBytes(f, t) ==
    When(MachoReadsSymbols(f, t),
         {<<t.symoff + (n - 1) * SymbolSize(f), SymbolSize(f)>> : n \in 1..t.nsyms}
         \union When(f.symbol.exported /\ t.nsyms > 0,
                     NameBytes(t.stroff + f.symbol.strx, t.stroff + t.strsize)))

parse_macho(f) ==
    <<Stage(When(f.size >= 4, {<<0, 4>>}), f.size >= 4),
      Stage({}, f.size >= MachoHeader(f)),
      Stage({<<16, 8>>}, in_bounds(MachoHeader(f), f.commands_size, f.size)),
      Stage({<<4, 4>>}, TRUE)>>
    \o Concat([k \in 1..Len(f.commands) |-> MachoCommand(f, k)])
    \o <<Stage(UNION {MachoSymbolBytes(f, f.commands[k].symtab) : k \in LastSymtab(f)}, TRUE)>>

\* A section at file offset 0 is zero-filled.
MachoSections(f) ==
    LET of(s) == [name |-> s.name, offset |-> s.offset, size |-> s.size,
                  file_size |-> IF s.offset = 0 THEN 0 ELSE s.size]
    IN Concat([k \in 1..Len(f.commands) |->
                  IF IsSegment(f, f.commands[k])
                  THEN [n \in 1..Len(f.commands[k].sections) |-> of(f.commands[k].sections[n])]
                  ELSE <<>>])
-----------------------------------------------------------------------------
(* PE32 and PE32+.                                                         *)
Coff(f) == f.nt + 4
OptionalHeader(f) == Coff(f) + 20
SectionTable(f) == OptionalHeader(f) + f.optional_size
DataDirectory(f) == OptionalHeader(f) + IF f.wide THEN 112 ELSE 96

\* The file offset of an RVA: the first section that has it decides; its end is
\* computed as a uint32_t.
rva_to_offset(f, rva) ==
    LET span(s) == IF s.size > s.raw_size THEN s.size ELSE s.raw_size
        has(s) == rva >= s.rva /\ rva < (s.rva + span(s)) % Half
        in == {n \in 1..Len(f.sections) :
                  has(f.sections[n]) /\ \A k \in 1..(n - 1) : ~has(f.sections[k])}
        offset(s) == s.offset + (rva - s.rva)
    IN {offset(f.sections[n]) : n \in {k \in in : /\ rva - f.sections[k].rva < f.sections[k].raw_size
                                                 /\ in_bounds(offset(f.sections[k]), 1, f.size)}}

\* One named export, all of which look alike: the stages stop the loop.
PeExport(f, d, i, names, functions, ordinals) ==
    <<Stage({}, in_bounds(names + i * 4, 4, f.size)),
      Stage({}, in_bounds(ordinals + i * 2, 2, f.size)),
      Stage({<<names + i * 4, 4>>}, rva_to_offset(f, d.name) # {}),
      Stage({<<ordinals + i * 2, 2>>}, in_bounds(functions + d.ordinal * 4, 4, f.size)),
      Stage({<<functions + d.ordinal * 4, 4>>}
            \union (UNION {NameBytes(n, f.size) : n \in rva_to_offset(f, d.name)}), TRUE)>>

PeExports(f) ==
    LET d == f.exports
        directory == rva_to_offset(f, d.rva)
    IN {<<DataDirectory(f), 8>>}
       \union {<<at, 40>> : at \in {o \in directory : /\ d.rva # 0 /\ d.size >= 40
                                                        /\ in_bounds(o, 40, f.size)}}
       \union When(/\ d.rva # 0 /\ d.size >= 40
                   /\ \E o \in directory : in_bounds(o, 40, f.size),
            UNION {Touches(Concat([i \in 1..d.count |-> PeExport(f, d, i - 1, n, u, o)])) :
                   n \in rva_to_offset(f, d.names), u \in rva_to_offset(f, d.functions),
                   o \in rva_to_offset(f, d.ordinals)})

parse_pe(f) ==
    <<Stage({}, f.size >= 64),
      Stage({<<0, 2>>, <<60, 4>>}, in_bounds(f.nt, 4, f.size)),
      Stage({<<f.nt, 4>>}, f.signature),
      Stage({}, in_bounds(Coff(f), 20, f.size)),
      Stage({<<Coff(f), 4>>, <<Coff(f) + 16, 2>>},
            in_bounds(OptionalHeader(f), f.optional_size, f.size)),
      Stage({}, f.optional_size >= 2),
      Stage({<<OptionalHeader(f), 2>>}, f.optional_size >= IF f.wide THEN 120 ELSE 104),
      Stage({<<OptionalHeader(f) + 24, 8>>},
            in_bounds(SectionTable(f), Len(f.sections) * 40, f.size)),
      Stage({<<SectionTable(f) + (i - 1) * 40, 40>> : i \in 1..Len(f.sections)}
            \union PeExports(f), TRUE)>>

PeSections(f) ==
    [n \in 1..Len(f.sections) |-> [name |-> f.sections[n].name, offset |-> f.sections[n].offset,
                                   size |-> f.sections[n].size, file_size |-> f.sections[n].raw_size]]
-----------------------------------------------------------------------------
Parser(f) == CASE f.format = "elf" -> parse_elf(f)
               [] f.format = "macho" -> parse_macho(f)
               [] f.format = "pe" -> parse_pe(f)
               [] OTHER -> <<Stage({}, FALSE)>>

Sections(f) == CASE f.format = "elf" -> ElfSections(f)
                 [] f.format = "macho" -> MachoSections(f)
                 [] OTHER -> PeSections(f)

native_section_name(format, canonical) ==
    CASE format = "macho" -> (IF canonical = ".abix.metadata" THEN "__abix_metadata" ELSE "__abix_names")
      [] format = "pe" -> (IF canonical = ".abix.metadata" THEN ".abix" ELSE ".abix.n")
      [] OTHER -> canonical

Open ==
    /\ file = NoFile
    /\ file' \in Files
    /\ UNCHANGED <<image, touched, region>>

\* parse_binary_image(): the image is only modified on success.
parse_binary_image ==
    /\ file # NoFile /\ image = NoFile
    /\ touched' = Touches(Parser(file))
    /\ image' = IF Parses(Parser(file)) THEN [format |-> file.format, sections |-> Sections(file)]
                ELSE image
    /\ UNCHANGED <<file, region>>

find_section(name) ==
    {n \in 1..Len(image.sections) :
        image.sections[n].name = name /\ \A k \in 1..(n - 1) : image.sections[k].name # name}

\* The private header of a PE region: it is skipped when it is consistent.
Inner(section) ==
    LET h == file.private
        skipped == /\ image.format = "pe" /\ section.file_size >= 24 /\ h.magic
                   /\ h.version = 1 /\ h.header_size >= 24 /\ h.region_offset >= h.header_size
                   /\ h.region_offset + h.region_size <= section.file_size
    IN IF skipped THEN <<section.offset + h.region_offset, h.region_size>>
       ELSE <<section.offset, section.file_size>>

Readable(section) ==
    /\ ~(section.file_size = 0 /\ section.size > 0)
    /\ in_bounds(section.offset, section.file_size, file.size)

read_region(canonical) ==
    /\ image # NoFile
    /\ LET found == find_section(native_section_name(image.format, canonical))
           good == {n \in found : Readable(image.sections[n])}
           n == CHOOSE k \in good : TRUE
       IN /\ region' = IF good = {} THEN NoFile ELSE Inner(image.sections[n])
          /\ touched' = IF good = {} THEN {}
                        ELSE {Inner(image.sections[n])}
                             \union When(image.format = "pe" /\ image.sections[n].file_size >= 24,
                                         {<<image.sections[n].offset, 20>>})
    /\ UNCHANGED <<file, image>>

BinaryNext ==
    \/ Open
    \/ parse_binary_image
    \/ \E canonical \in {".abix.metadata", ".abix.names"} : read_region(canonical)

BinarySpec == BinaryInit /\ [][BinaryNext]_binaryVars
-----------------------------------------------------------------------------
\* The name of a segment is read from its command before the command is known to
\* be long enough for one.
EarlyNames(f) ==
    IF f.format # "macho" THEN {}
    ELSE {<<MachoAt(f, k) + 8, 16>> :
             k \in {n \in 1..Len(f.commands) : IsSegment(f, f.commands[n]) /\ f.commands[n].cmdsize < 24}}

\* An sh_entsize within 24 of 2^64 makes the loop over .dynsym step back over the
\* start of the table, and over that of the file when the table is close to it.
EarlyEntries(f) ==
    IF f.format # "elf" THEN {}
    ELSE UNION {{r \in ElfEntryBytes(f.headers[i]) : r[1] >= Whole - 24} : i \in ElfDynsym(f)}

\* The parsers and read_region() touch bytes of the file only, an offset that
\* overflows being refused, but for two reads that the tests before them do not
\* cover: the name of a segment command too short for one, and the entries of a
\* .dynsym whose loop has stepped back over the start of the file.
ReadsStayInFile ==
    \A r \in touched :
        r[2] > 0 => \/ r[1] >= 0 /\ r[1] + r[2] <= file.size
                    \/ r \in EarlyNames(file) \union EarlyEntries(file)

\* What read_region() delivers are bytes of the first section with the native name
\* of the region, and a consistent private header is never part of them.
RegionIsContent ==
    (region # NoFile /\ image # NoFile) =>
        \E n \in 1..Len(image.sections) :
            LET s == image.sections[n]
            IN /\ s.name \in {native_section_name(image.format, c) : c \in {".abix.metadata", ".abix.names"}}
               /\ region[1] >= s.offset /\ region[1] + region[2] <= s.offset + s.file_size
               /\ image.format # "pe" => region = <<s.offset, s.file_size>>

\* The readers touch bytes of the file only, but for the two reads above, and
\* read_region() delivers bytes of the region.
ReadersBounded ==
    /\ ReadsStayInFile
    /\ RegionIsContent
=============================================================================

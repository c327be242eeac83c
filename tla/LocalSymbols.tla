---------------------------- MODULE LocalSymbols ----------------------------
(***************************************************************************)
(* The names of a process's code: what a runtime reports of its methods    *)
(* while it is recorded (helpers/exporting/process.rs), and what           *)
(* capture_and_resolve_symbols finds afterwards in the binaries, in debug  *)
(* files (helpers/exporting/os/linux.rs, ruwind/elf.rs), in ReadyToRun     *)
(* maps (pe_file.rs) and in the process's perf map (symbols.rs).           *)
(*                                                                         *)
(* A disk gives a path its file; paths are named for the place that        *)
(* find_symbol_files looks at.  A process whose root cannot be opened has  *)
(* a disk of no files.  The process has mapped the files "binary" (ELF)    *)
(* and "image" (a ReadyToRun dll).                                         *)
(***************************************************************************)
EXTENDS ExportLookup

CONSTANTS
    PageSize,       \* the system's page size
    MarkSize,       \* the page size of SymbolPageMap
    Disks,          \* the file systems to start with
    Upgrades,       \* [path, file]: what may be installed after the trace
    Loaded,         \* the mappings of the process
    Ips,            \* addresses that may be sampled
    Methods,        \* [start, end, name]: methods that may be reported
    FullTable,      \* [build -> the functions of that build]
    FullMap,        \* [signature -> the lines of that image's map]
    MaxEvents       \* bound: samples, reports and mappings of a trace

ASSUME PagesAssumption == {PageSize, MarkSize} \subseteq Nat \ {0}
ASSUME EventsAssumption == MaxEvents \in Nat

VARIABLES
    phase,          \* "record", then the steps of the resolution
    disk,           \* the files
    samples,        \* [ip, time]
    pageMap,        \* user_page_map: the marked pages, or NoMap
    dyn,            \* dyn_symbols
    maps,           \* the mappings, with their symbols
    elf, pe,        \* module_metadata of the binary and of the image
    now,            \* how many events there were
    reported,       \* every method reported, with its flag
    upgraded        \* a package was upgraded after the trace

recorded == <<samples, pageMap, dyn, now, reported>>
resolved == <<maps, elf, pe>>
vars == <<phase, disk, upgraded, recorded, resolved>>

NoFile == [kind |-> "none"]
NoId == 0
NoMap == {-1}
NoMeta == [known |-> FALSE]

Init ==
    /\ phase = "record" /\ disk \in Disks
    /\ samples = {} /\ pageMap = NoMap /\ dyn = <<>> /\ maps = Loaded
    /\ elf = NoMeta /\ pe = NoMeta
    /\ now = 0 /\ reported = {} /\ upgraded = FALSE

-----------------------------------------------------------------------------
(* The recording.                                                          *)

Happens == phase = "record" /\ now < MaxEvents /\ now' = now + 1

(* Mutant of AddSample: the marked pages are kept.                         *)
AddSample_KeepsMap(ip) ==
    /\ Happens
    /\ samples' = samples \cup {[ip |-> ip, time |-> now + 1]}
    /\ UNCHANGED <<phase, disk, upgraded, pageMap, dyn, reported, resolved>>

AddSample(ip) ==
    /\ Happens
    /\ samples' = samples \cup {[ip |-> ip, time |-> now + 1]}
    /\ pageMap' = NoMap
    /\ UNCHANGED <<phase, disk, upgraded, dyn, reported, resolved>>

Align(a, size) == a - (a % size)

(* get_unique_user_ips, in a mapping or anywhere.                          *)
UserIps == {s.ip : s \in {s \in samples : s.ip < KERNEL_START}}
IpsIn(m) == {ip \in UserIps : ContainsIp(m, ip)}

MarkedPages == {Align(ip, MarkSize) : ip \in UserIps}

SeenRange(pages, start, end) ==
    \E page \in pages : Align(start, MarkSize) <= page /\ page <= Align(end, MarkSize)

(* A method that is reported when it is compiled is kept; the ones of a    *)
(* rundown (must) only where there were samples, by pages that are marked  *)
(* once until the next sample comes.                                       *)
DynamicSymbol(m, must) ==
    /\ Happens
    /\ LET pages == IF pageMap = NoMap THEN MarkedPages ELSE pageMap
           symbol == [time |-> now + 1, start |-> m.start, end |-> m.end,
                      name |-> m.name]
       IN /\ pageMap' = IF must THEN pages ELSE pageMap
          /\ dyn' = IF must => SeenRange(pages, m.start, m.end)
                    THEN Append(dyn, symbol) ELSE dyn
          /\ reported' = reported \cup {[symbol |-> symbol, must |-> must]}
    /\ UNCHANGED <<phase, disk, upgraded, samples, resolved>>

(* The process maps one of its regions anew.                               *)
Remap(i) ==
    /\ Happens /\ Len(maps) = Len(Loaded)
    /\ maps' = Append(maps, [maps[i] EXCEPT !.time = now + 1])
    /\ UNCHANGED <<phase, disk, upgraded, samples, pageMap, dyn, reported,
                   elf, pe>>

(* A package is upgraded while the symbols are resolved.  What an upgrade  *)
(* during the trace does is told by the disk to start with.                *)
Upgrade(u) ==
    /\ phase = "elf" /\ ~ upgraded
    /\ disk' = [disk EXCEPT ![u.path] = u.file]
    /\ upgraded' = TRUE
    /\ UNCHANGED <<phase, recorded, resolved>>

-----------------------------------------------------------------------------
(* capture_file_symbol_metadata.                                           *)

Open(path) == disk[path]

(* load_elf_metadata: the build id, the debug link and the load header.    *)
ElfMetadata(file) ==
    IF file.kind # "elf" THEN NoMeta
    ELSE [known |-> TRUE, build |-> file.build, link |-> file.link,
          vaddr |-> file.vaddr, offset |-> file.offset]

(* get_pe_info: where the text lies, and the last perf map entry of the    *)
(* debug directory.                                                        *)
PEInfo(file) ==
    IF file.kind # "pe" THEN [known |-> TRUE, sig |-> NoId, text |-> 0]
    ELSE [known |-> TRUE, text |-> file.virt - file.raw,
          sig |-> IF file.debug = <<>> THEN NoId ELSE Last(file.debug)]

CaptureMetadata ==
    /\ phase = "record"
    /\ phase' = "elf"
    /\ elf' = ElfMetadata(Open("binary")) /\ pe' = PEInfo(Open("image"))
    /\ UNCHANGED <<disk, upgraded, recorded, maps>>

-----------------------------------------------------------------------------
(* Symbols of an ELF file.                                                 *)

Tables == {"symtab", "dynsym"}

(* Mutant of BuildMatches: only two ids that differ are a mismatch.        *)
BuildMatches_IfBoth(build, file) ==
    build = NoId \/ file.build = NoId \/ build = file.build

(* "If one has a build id and the other does not, the symbol file does not *)
(* match."                                                                 *)
BuildMatches(build, file) == build = file.build

(* check_candidate_symbol_file: the tables of a file that matches.         *)
CheckCandidate(build, file) ==
    IF file.kind = "elf" /\ BuildMatches(build, file)
    THEN {t \in Tables : file[t] # <<>>} ELSE {}

(* The places, in the order they are looked at.                            *)
Candidates(meta) ==
    <<"binary", "binary.dbg", "binary.debug">>
    \o (IF meta.link
        THEN <<"link", "dir/link", "dir/.debug/link", "/usr/lib/debug/dir/link">>
        ELSE <<>>)
    \o (IF meta.build # NoId THEN <<"/usr/lib/debug/.build-id">> ELSE <<>>)
    \o <<"/usr/lib/debug/binary.debug", "/usr/lib/debug/binary",
         "/usr/lib/debug/lib/binary">>

(* Mutant of Enough: any table will do.                                    *)
Enough_Any(found) == found # {}

(* sym_types_found == sym_types_requested                                  *)
Enough(found) == found = Tables

FindSymbolFiles(meta) ==
    LET Look(acc, path) ==
            LET types == CheckCandidate(meta.build, Open(path))
            IN IF Enough(acc.found) \/ types = {} THEN acc
               ELSE [found |-> acc.found \cup types,
                     files |-> Append(acc.files, Open(path))]
    IN FoldLeft(Look, [found |-> {}, files |-> <<>>],
                SelectSeq(Candidates(meta), LAMBDA p : p \in DOMAIN disk)).files

SymbolRva(value, meta) ==
    value - Align(meta.vaddr, PageSize) + Align(meta.offset, PageSize)

(* get_symbol: an entry that is no function, or has no value or size, is   *)
(* passed over.                                                            *)
IsSymbol(entry) == entry.func /\ entry.value # 0 /\ entry.size # 0

(* ElfSymbolIterator: the symbol table, then the dynamic one.              *)
ElfSymbols(file, meta) ==
    LET Symbol(entry) ==
            [name |-> entry.name, start |-> SymbolRva(entry.value, meta),
             end |-> SymbolRva(entry.value, meta) + entry.size - 1]
        all == SelectSeq(file.symtab \o file.dynsym, IsSymbol)
    IN [i \in DOMAIN all |-> Symbol(all[i])]

(* add_matching_symbols: the symbols of a reader that a sampled address    *)
(* needs, after those the mapping has.  An anonymous mapping has addresses *)
(* of its own.                                                             *)
AddSymbols(m, symbols) ==
    LET range(s) == IF m.anon THEN <<s.start, s.end>> ELSE FileToVaRange(m, s)
        needed == SelectSeq(symbols, LAMBDA s :
                    range(s) # <<>> /\ NeedsSymbol(IpsIn(m), range(s)[1], range(s)[2]))
    IN IF IpsIn(m) = {} THEN m
       ELSE [m EXCEPT !.syms = @ \o [i \in DOMAIN needed |->
                [name |-> needed[i].name, start |-> range(needed[i])[1],
                 end |-> range(needed[i])[2]]]]

ResolveElf ==
    /\ phase = "elf"
    /\ phase' = "r2r"
    /\ maps' = IF ~ elf.known THEN maps ELSE
        LET files == FindSymbolFiles(elf)
            symbols == FlattenSeq([i \in DOMAIN files |->
                                      ElfSymbols(files[i], elf)])
        IN [i \in DOMAIN maps |-> IF maps[i].file = "binary"
                THEN AddSymbols(maps[i], symbols) ELSE maps[i]]
    /\ UNCHANGED <<disk, upgraded, recorded, elf, pe>>

-----------------------------------------------------------------------------
(* Symbols of maps in text form: an address, a size and a name per line.   *)

(* A line ends where the next may begin.                                   *)
LineSymbol(line, offset) ==
    [name |-> line.name, start |-> line.start - offset,
     end |-> line.start + line.size - offset]

(* "The signature must be non-zero and match."                             *)
SignatureMatches(meta, file) == meta.sig # NoId /\ meta.sig = file.sig

(* R2RMapSymbolReader through R2RLoadedLayoutSymbolTransformer; a map      *)
(* without a signature is read to its end in search of it.                 *)
ReadyToRunSymbols(file, meta) ==
    [i \in DOMAIN file.lines |-> LineSymbol(file.lines[i], meta.text)]

ResolveReadyToRun ==
    /\ phase = "r2r"
    /\ phase' = "dynamic"
    /\ LET file == Open("r2rmap")
       IN maps' = IF file.kind = "map" /\ SignatureMatches(pe, file)
                  THEN [i \in DOMAIN maps |-> IF maps[i].file = "image"
                          THEN AddSymbols(maps[i], ReadyToRunSymbols(file, pe))
                          ELSE maps[i]]
                  ELSE maps
    /\ UNCHANGED <<disk, upgraded, recorded, elf, pe>>

-----------------------------------------------------------------------------
(* Generated code.                                                         *)

PageEnd(a) == Align(a, PageSize) + PageSize - 1

NewMapping(s) ==
    [time |-> s.time, start |-> Align(s.start, PageSize), end |-> PageEnd(s.end),
     off |-> 0, anon |-> TRUE, file |-> "none", syms |-> <<>>]

AddSymbol(m, s) ==
    [m EXCEPT !.syms = Append(@, [name |-> s.name, start |-> s.start, end |-> s.end])]

(* An in-progress mapping that a symbol starts in gets the earliest time   *)
(* and the last page of its symbols.                                       *)
Extend(m, s) ==
    AddSymbol([m EXCEPT !.time = Min({@, s.time}),
                        !.end = IF @ < s.end THEN PageEnd(s.end) ELSE @], s)

(* add_dynamic_symbol_mappings, in the order of the addresses: a symbol    *)
(* belongs to the mapping that was there at its time, or to pages of its   *)
(* own.  Of symbols with one address the last in the list comes first (the *)
(* sort is stable, and pop takes from the end).                            *)
DynamicMappings ==
    LET before(a, b) == a.start < b.start \/ (a.start = b.start /\ a.time > b.time)
        Place(acc, s) ==
            LET at == FindIndex(acc.maps, s.start, s.time)
                new == SelectInSeq(acc.new, LAMBDA m : ContainsIp(m, s.start))
            IN IF at # 0 THEN [acc EXCEPT !.maps[at] = AddSymbol(@, s)]
               ELSE IF new # 0 THEN [acc EXCEPT !.new[new] = Extend(@, s)]
               ELSE [acc EXCEPT !.new = Append(@, AddSymbol(NewMapping(s), s))]
        placed == FoldLeft(Place, [maps |-> maps, new |-> <<>>],
                           SortSeq(dyn, before))
    IN placed.maps \o placed.new

(* PerfMapSymbolReader: lines that do not parse are passed over.           *)
PerfMapSymbols(file) ==
    LET good == SelectSeq(file.lines, LAMBDA line : line.ok)
    IN [i \in DOMAIN good |-> LineSymbol(good[i], 0)]

(* anon_maps is set by the mappings of the process, not by the ones above. *)
HasAnonMappings == \E i \in DOMAIN Loaded : Loaded[i].anon

ResolvePerfMap ==
    /\ phase = "perfmap"
    /\ phase' = "done"
    /\ LET file == Open("perfmap")
       IN maps' = IF file.kind = "map" /\ HasAnonMappings
                  THEN [i \in DOMAIN maps |-> IF maps[i].anon
                          THEN AddSymbols(maps[i], PerfMapSymbols(file))
                          ELSE maps[i]]
                  ELSE maps
    /\ UNCHANGED <<disk, upgraded, recorded, elf, pe>>

ResolveDynamic ==
    /\ phase = "dynamic"
    /\ phase' = "perfmap" /\ dyn' = <<>> /\ maps' = DynamicMappings
    /\ UNCHANGED <<disk, upgraded, samples, pageMap, now, reported, elf, pe>>

Next ==
    \/ \E ip \in Ips : AddSample(ip)
    \/ \E m \in Methods, must \in BOOLEAN : DynamicSymbol(m, must)
    \/ \E i \in DOMAIN Loaded : Remap(i)
    \/ \E u \in Upgrades : Upgrade(u)
    \/ CaptureMetadata \/ ResolveElf \/ ResolveReadyToRun
    \/ ResolveDynamic \/ ResolvePerfMap

Spec == Init /\ [][Next]_vars

-----------------------------------------------------------------------------
(* Properties.                                                             *)

(* import_ip: the first symbol that covers the address, in the mapping     *)
(* found for the time.                                                     *)
NoName == "none"
NameOf(s) ==
    LET i == FindIndex(maps, s.ip, s.time)
        at == IF i = 0 THEN 0 ELSE
                SelectInSeq(maps[i].syms,
                    LAMBDA sym : sym.start <= s.ip /\ s.ip <= sym.end)
    IN IF at = 0 THEN NoName ELSE maps[i].syms[at].name

Done == phase = "done"

MappingOf(file) == Loaded[SelectInSeq(Loaded, LAMBDA m : m.file = file)]
SamplesIn(file) == {s \in samples : ContainsIp(MappingOf(file), s.ip)}
FileOffset(s, file) == s.ip - MappingOf(file).start + MappingOf(file).off

ElfKnown == elf.known /\ elf.build # NoId
ImageKnown == pe.known /\ pe.sig # NoId

(* The functions of the mapped build that a sample is in.                  *)
Functions(s) ==
    LET address == FileOffset(s, "binary") + elf.vaddr - elf.offset
    IN {f.name : f \in {f \in Range(FullTable[elf.build]) :
            IsSymbol(f) /\ f.value <= address /\ address < f.value + f.size}}

(* The lines of a map that an address is in, or follows directly.          *)
Lines(lines, address) ==
    {line.name : line \in {line \in Range(lines) :
        line.ok /\ line.start <= address /\ address <= line.start + line.size}}
InLine(lines, address) ==
    \E line \in Range(lines) :
        line.ok /\ line.start <= address /\ address < line.start + line.size

(* A sample in a mapped file never gets a name of another build: not from  *)
(* debug files that were left behind, nor from files that an upgrade put   *)
(* there after the metadata was read (check_candidate_symbol_file,         *)
(* find_readytorun_map_file).  The address after a method's last may have  *)
(* its name.                                                               *)
NamesOfTheBuild ==
    Done =>
        /\ ElfKnown => \A s \in SamplesIn("binary") :
                NameOf(s) \in Functions(s) \cup {NoName}
        /\ ImageKnown => \A s \in SamplesIn("image") :
                NameOf(s) \in
                    Lines(FullMap[pe.sig], FileOffset(s, "image") + pe.text)
                        \cup {NoName}

(* Every sampled function has its name when one of the places has the      *)
(* build's symbol table, whichever tables the places before it have        *)
(* (find_symbol_files: "Keep evaluating symbol files until we find a       *)
(* matching one with a symtab"); so has a method of an image with its map. *)
SymtabFound ==
    Done =>
        /\ ElfKnown /\ (\E path \in Range(Candidates(elf)) \cap DOMAIN disk :
                /\ disk[path].kind = "elf" /\ disk[path].build = elf.build
                /\ disk[path].symtab # <<>>)
           => \A s \in SamplesIn("binary") :
                Functions(s) # {} => NameOf(s) \in Functions(s)
        /\ ImageKnown /\ disk["r2rmap"].kind = "map"
             /\ disk["r2rmap"].sig = pe.sig
           => \A s \in SamplesIn("image") :
                InLine(FullMap[pe.sig], FileOffset(s, "image") + pe.text)
                    => NameOf(s) # NoName

(* The mappings the process made.                                          *)
OwnMaps == SelectSeq(maps, LAMBDA m : m.file # "none")

(* A report counts for a sample when both are of one mapping, or when the  *)
(* code is in none and the report came first; a rundown only reports what  *)
(* was sampled before it.                                                  *)
Counts(r, s) ==
    LET then == FindIndex(OwnMaps, s.ip, r.symbol.time)
    IN /\ r.symbol.start <= s.ip /\ s.ip <= r.symbol.end
       /\ FindIndex(OwnMaps, s.ip, s.time) = then
       /\ then = 0 => r.symbol.time < s.time
       /\ r.must => s.time < r.symbol.time

MapLines == IF disk["perfmap"].kind = "map" THEN disk["perfmap"].lines ELSE <<>>

(* A sample in generated code gets the name of a method that was reported  *)
(* there or that the perf map has there, however reports, rundown and      *)
(* samples are interleaved (needs_dynamic_symbol, whose marked pages are   *)
(* kept between samples; add_dynamic_symbol_mappings;                      *)
(* resolve_perf_map_symbols).                                              *)
MethodsNamed ==
    Done => \A s \in samples \ (SamplesIn("binary") \cup SamplesIn("image")) :
        LET covering == {r \in reported :
                r.symbol.start <= s.ip /\ s.ip <= r.symbol.end}
            names == {r.symbol.name : r \in covering}
                        \cup Lines(MapLines, s.ip)
        IN /\ NameOf(s) \in names \cup {NoName}
           /\ (\E r \in covering : Counts(r, s)) => NameOf(s) # NoName
           /\ (InLine(MapLines, s.ip) /\ ContainsIp(MappingOf("anon"), s.ip))
                => NameOf(s) # NoName
=============================================================================

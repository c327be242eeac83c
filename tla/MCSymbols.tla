----------------------------- MODULE MCSymbols ------------------------------
(***************************************************************************)
(* LocalSymbols for TLC: a stripped or whole binary with debug files of    *)
(* its own and of another build in some of the places, an image with its   *)
(* own or another map, and a runtime that compiles methods in mapped and   *)
(* unmapped pages.                                                         *)
(***************************************************************************)
EXTENDS LocalSymbols

Mapping(start, end, off, anon, file) ==
    [time |-> 0, start |-> start, end |-> end, off |-> off, anon |-> anon,
     file |-> file, syms |-> <<>>]
MCLoaded == <<Mapping(0, 7, 4, FALSE, "binary"), Mapping(8, 11, 4, FALSE, "image"),
              Mapping(12, 19, 0, TRUE, "anon")>>

(* The binary's text: addresses 12 .. 19, at 4 .. 11 of the file.          *)
Entry(name, value, size, func) ==
    [name |-> name, value |-> value, size |-> size, func |-> func]
Exported == Entry("main", 13, 2, TRUE)
MCFullTable ==
    (1 :> <<Exported, Entry("data", 13, 7, FALSE), Entry("helper", 15, 3, TRUE),
            Entry("weak", 15, 0, TRUE)>>) @@
    (2 :> <<Entry("other", 12, 6, TRUE)>>)
(* A file without an id is of the other build.                             *)
Table(build) == MCFullTable[IF build = 1 THEN 1 ELSE 2]
Elf(build, tables, link) ==
    [kind |-> "elf", build |-> build, link |-> link, vaddr |-> 13, offset |-> 5,
     symtab |-> IF "symtab" \in tables THEN Table(build) ELSE <<>>,
     dynsym |-> IF "dynsym" \in tables
                THEN IF build = 1 THEN <<Exported>> ELSE Table(build) ELSE <<>>]

Line(start, size, name, ok) == [start |-> start, size |-> size, name |-> name, ok |-> ok]
MapFile(sig, lines) == [kind |-> "map", sig |-> sig, lines |-> lines]
MCFullMap == (1 :> <<Line(24, 1, "Run", TRUE), Line(26, 2, "Stop", TRUE)>>) @@
             (2 :> <<Line(24, 4, "New", TRUE)>>)
Image(debug) == [kind |-> "pe", virt |-> 24, raw |-> 4, debug |-> debug]
PerfMap == MapFile(NoId, <<Line(12, 2, "jitted", TRUE), Line(13, 3, "bad", FALSE),
                           Line(14, 1, "next", TRUE)>>)

Both == {"symtab", "dynsym"}
Place(binary, first, link, last, image, r2rmap, perfmap) ==
    ("binary" :> binary) @@ ("binary.debug" :> first) @@ ("dir/link" :> link) @@
    ("/usr/lib/debug/.build-id" :> last) @@ ("image" :> image) @@
    ("r2rmap" :> r2rmap) @@ ("perfmap" :> perfmap)

(* Disks that differ in the debug files, and disks that differ in maps.    *)
Own == Elf(1, {"symtab"}, FALSE)
Other == Elf(2, Both, FALSE)
Unnamed == Elf(NoId, Both, FALSE)
DebugDisks ==
    {Place(Elf(1, t, k # NoFile), f, k, d, NoFile, NoFile, NoFile) :
        t \in {{}, {"dynsym"}, Both}, f \in {NoFile, Other, Unnamed},
        k \in {NoFile, Own, Other}, d \in {NoFile, Own}}
    \cup {Place(Elf(NoId, {}, FALSE), f, NoFile, NoFile, NoFile, NoFile, NoFile) :
            f \in {Own, Unnamed}}
MapDisks ==
    {Place(Elf(1, Both, FALSE), NoFile, NoFile, NoFile, i, r, PerfMap) :
        i \in {Image(<<>>), Image(<<1>>), Image(<<2, 1>>)},
        r \in {NoFile, MapFile(1, MCFullMap[1]), MapFile(2, MCFullMap[2])}}
NoDisk == Place(NoFile, NoFile, NoFile, NoFile, NoFile, NoFile, NoFile)
MCDisks == DebugDisks \cup MapDisks \cup {NoDisk}

MCUpgrades ==
    {[path |-> "binary", file |-> Elf(2, Both, FALSE)],
     [path |-> "dir/link", file |-> Elf(2, Both, FALSE)],
     [path |-> "r2rmap", file |-> MapFile(2, MCFullMap[2])]}

Method(start, end, name) == [start |-> start, end |-> end, name |-> name]
MCMethods == {Method(16, 17, "A"), Method(22, 25, "B"), Method(24, 24, "C")}
=============================================================================

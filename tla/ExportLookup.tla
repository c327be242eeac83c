---------------------------- MODULE ExportLookup ----------------------------
(***************************************************************************)
(* The lookups of the exporter, without state of their own: mappings by    *)
(* address and time (helpers/exporting/mappings.rs, lookup.rs), the        *)
(* symbols of a mapping that sampled addresses need (mappings.rs), the     *)
(* kernel's symbols (symbols.rs, os/linux.rs) and the resolution of an     *)
(* address when a graph is written (graph.rs).                             *)
(*                                                                         *)
(* A mapping is a record with time, start, end (inclusive), off, file and  *)
(* syms; a symbol has a name, a start and an end (inclusive).              *)
(***************************************************************************)
EXTENDS Naturals, Sequences, SequencesExt, FiniteSets, FiniteSetsExt

CONSTANTS
    MinLookup,      \* min_lookup: how many mappings make a lookup worth it
    KERNEL_START,   \* user addresses are below
    KERNEL_END      \* the last address

ASSUME MinLookupAssumption == MinLookup \in Nat \ {0}
ASSUME KernelAssumption == KERNEL_START \in Nat /\ KERNEL_END \in Nat

-----------------------------------------------------------------------------
(* Mappings by address and time.                                           *)
ContainsIp(m, ip) == ip >= m.start /\ ip <= m.end

(* build_lookup's items: where a mapping starts, and where it ends.  They  *)
(* are sorted by address, those of one address staying in the order in     *)
(* which they were pushed.                                                 *)
Items(maps) ==
    {[address |-> maps[i].start, pos |-> 2 * i, index |-> i, valid |-> TRUE] :
        i \in DOMAIN maps}
    \cup
    {[address |-> maps[i].end, pos |-> 2 * i + 1, index |-> i, valid |-> FALSE] :
        i \in DOMAIN maps}

UpTo(item, last) ==
    \/ item.address < last.address
    \/ item.address = last.address /\ item.pos <= last.pos

(* index_set after the items up to the given one.                          *)
IndexSet(items, last) ==
    {item.index : item \in {item \in items :
        /\ item.valid /\ UpTo(item, last)
        /\ ~\E e \in items : /\ ~e.valid /\ e.index = item.index
                             /\ UpTo(item, e) /\ UpTo(e, last)}}

(* AddressLookup::update: an entry per item, the indices that cover it.    *)
(* Where none does nothing is pushed.                                      *)
BuildLookup(maps) ==
    {entry \in {[address |-> item.address, live |-> IndexSet(Items(maps), item)] :
                    item \in Items(maps)} : entry.live # {}}

(* AddressLookup::find: the entries at the last address that is not above. *)
(* (Below all of them the code gives the first entry, of a mapping that    *)
(* does not cover the address.)                                            *)
LookupFind(lookup, ip) ==
    UNION {entry.live : entry \in {entry \in lookup :
        /\ entry.address <= ip
        /\ \A other \in lookup :
                other.address <= ip => other.address <= entry.address}}

(* Mutant of FindIndex: the oldest mapping wins. *)
FindIndex_Oldest(maps, ip, time) ==
    LET among == IF Len(maps) >= MinLookup THEN LookupFind(BuildLookup(maps), ip)
                                           ELSE DOMAIN maps
        hits == {i \in among : ContainsIp(maps[i], ip) /\ maps[i].time <= time}
    IN  IF hits = {} THEN 0
        ELSE CHOOSE i \in hits : \A j \in hits : maps[i].time <= maps[j].time

(* find_index: the latest mapping that covers the address and is not newer *)
(* than the time; 0 when there is none.  The lookup is kept until the      *)
(* mappings are next borrowed to be changed (mappings_mut), so that it is  *)
(* always the one of these mappings.                                       *)
FindIndex(maps, ip, time) ==
    LET among == IF Len(maps) >= MinLookup THEN LookupFind(BuildLookup(maps), ip)
                                           ELSE DOMAIN maps
        hits == {i \in among : ContainsIp(maps[i], ip) /\ maps[i].time <= time}
    IN  IF hits = {} THEN 0
        ELSE CHOOSE i \in hits : \A j \in hits :
                \/ maps[j].time < maps[i].time
                \/ maps[j].time = maps[i].time /\ i <= j

-----------------------------------------------------------------------------
(* The symbols of a mapping.                                               *)

(* file_to_va_range: where the part of a file range that is mapped lies;   *)
(* empty when none of it is.                                               *)
FileToVaRange(m, sym) ==
    LET file_end == m.off + (m.end - m.start)
        from == Max({sym.start, m.off})
        to == Min({sym.end, file_end})
    IN  IF sym.end < m.off \/ sym.start > file_end THEN << >>
        ELSE <<m.start + (from - m.off), m.start + (to - m.off)>>

(* Mutant of NeedsSymbol: only the address after the symbol's start is     *)
(* looked at, not the start itself.                                        *)
NeedsSymbol_NoStart(ips, start, end) ==
    LET above == {ip \in ips : ip > start}
    IN  above # {} /\ Min(above) <= end

(* The binary search of add_matching_symbols in the sorted addresses: the  *)
(* start itself, or else the first address above it.                       *)
NeedsSymbol(ips, start, end) ==
    LET above == {ip \in ips : ip > start}
    IN  start \in ips \/ (above # {} /\ Min(above) <= end)

AddMatchingSymbols(m, ips, symbols) ==
    [m EXCEPT !.syms = @ \cup
        {[name |-> s.name, start |-> FileToVaRange(m, s)[1],
          end |-> FileToVaRange(m, s)[2]] :
            s \in {s \in symbols :
                /\ FileToVaRange(m, s) # << >>
                /\ NeedsSymbol(ips, FileToVaRange(m, s)[1],
                                    FileToVaRange(m, s)[2])}}]

-----------------------------------------------------------------------------
(* The kernel's symbols.                                                   *)

(* KernelSymbolReader: a line of kallsyms is an address and whether it is  *)
(* text; a text symbol ends before the next line, whatever that is.        *)
KernelSymbols(lines) ==
    {[name |-> i, start |-> lines[i].address,
      end |-> IF i = Len(lines) THEN KERNEL_END ELSE lines[i + 1].address - 1] :
        i \in {i \in DOMAIN lines : lines[i].text}}

(* Mutant of MatchedKernelSymbols: a symbol needs an address at its start. *)
MatchedKernelSymbols_StartOnly(lines, ips) ==
    {s \in KernelSymbols(lines) : s.start \in ips}

(* os_add_kernel_mappings_with, phase 2: the symbols that any process has  *)
(* an address in.                                                          *)
MatchedKernelSymbols(lines, ips) ==
    {s \in KernelSymbols(lines) :
        LET above == {ip \in ips : ip > s.start}
        IN  s.start \in ips \/ (above # {} /\ Min(above) < s.end)}

(* Phase 3: for each address of a process the last matched symbol that     *)
(* starts at or below it, if it covers it.                                 *)
KernelMappingSymbols(matched, ips) ==
    {s \in matched : \E ip \in ips :
        /\ s.start <= ip /\ ip < s.end
        /\ ~\E t \in matched : t.start > s.start /\ t.start <= ip}

-----------------------------------------------------------------------------
(* import_ip: the mapping found for the address and time, and the symbol   *)
(* that covers it there; 0 when there is none.                             *)
ImportIp(maps, ip, time) ==
    LET i == FindIndex(maps, ip, time)
        covering == {s \in maps[i].syms : s.start <= ip /\ ip <= s.end}
    IN  IF i = 0 \/ covering = {} THEN 0 ELSE (CHOOSE s \in covering : TRUE).name
=============================================================================

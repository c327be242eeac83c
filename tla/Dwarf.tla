------------------------------- MODULE Dwarf --------------------------------
(***************************************************************************)
(* Frame rules of an ELF file (ruwind/dwarf.rs, ruwind/elf.rs), without    *)
(* state of their own.                                                     *)
(*                                                                         *)
(* A file is a record: its program headers, its sections, and, by their    *)
(* position in it, its entries (CIEs and FDEs).  An instruction has a name *)
(* and operands, which LEB128 or fixed widths give back as they are; a     *)
(* pointer is its encoding and the number stored.  An entry that the       *)
(* reader refuses (length, version) is not there.                          *)
(***************************************************************************)
EXTENDS Integers, Sequences, SequencesExt, FiniteSets, FiniteSetsExt, TLC

REG_RBP == 6
REG_RSP == 7
REG_RA == 16

-----------------------------------------------------------------------------
(* get_load_header: the first executable segment, and what ModuleLookup    *)
(* makes of it.                                                            *)
LoadHeader(file) ==
    LET exec == SelectSeq(file.loads, LAMBDA p : p.exec)
    IN  IF exec = << >> THEN [vaddr |-> 0, offset |-> 0, exec |-> TRUE] ELSE exec[1]
VaOffset(file) ==
    LET h == LoadHeader(file) IN Max({h.vaddr - h.offset, 0})

(* get_section_metadata and name_equals: the first section of a name.      *)
Sections(file, name) ==
    SelectSeq(file.sections, LAMBDA s : s.type = "progbits" /\ s.name = name)

-----------------------------------------------------------------------------
(* read_value: data is what a pointer is relative to, start where it is.   *)
ReadValue(enc, data, start, stored) ==
    CASE enc.rel = "pc" -> stored + data + start
      [] enc.rel = "data" -> stored + data
      [] OTHER -> stored

NewOffset(rva, fde) ==
    [rva |-> rva, fde |-> fde, pcSize |-> 0, state |-> "unparsed", frames |-> << >>]

(* parse_loc_table: the k-th function of the header, whose pointers are    *)
(* relative to where the section is in the file.                           *)
TableEntry(hdr, ehOffset, k) ==
    LET sec == ReadValue(hdr.enc, hdr.offset, 4, hdr.ptr)
        pos == hdr.first + 2 * (k - 1) * hdr.tableEnc.width
        value(at, stored) == ReadValue(hdr.tableEnc, hdr.offset, at, stored)
    IN  NewOffset(value(pos, hdr.table[k].rva),
                  ehOffset + value(pos + hdr.tableEnc.width, hdr.table[k].fde) - sec)

(* parse: one entry for each function of the header.                       *)
ParseTable(file) ==
    LET eh == Sections(file, ".eh_frame")
        hdr == Sections(file, ".eh_frame_hdr")
        ehOffset == IF eh = << >> THEN 0 ELSE eh[1].offset
    IN  IF hdr = << >> \/ hdr[1].omitted THEN << >>
        ELSE [k \in DOMAIN hdr[1].table |-> TableEntry(hdr[1], ehOffset, k)]

(* FrameOffset::find and Process::find: the last that does not begin after *)
(* the address; 0 stands for None.                                         *)
LastFrom(starts, address) ==
    LET before == {i \in DOMAIN starts : starts[i] <= address}
    IN  IF before = {} THEN 0 ELSE Max(before)

-----------------------------------------------------------------------------
(* read_rule.  st is what the rules change: the location, the state being  *)
(* filled, the states done, the stack of remembered ones.                  *)
NewFrame(rva, reg, off) == [rva |-> rva, reg |-> reg, off |-> off, regs |-> << >>]

IsI16(n) == n \in -32768 .. 32767
IsU8(n) == n <= 255

Fail(st) == [st EXCEPT !.ok = FALSE]
SetCfaReg(st, reg) == IF IsU8(reg) THEN [st EXCEPT !.frame.reg = reg] ELSE Fail(st)
SetCfaOffset(st, off) == IF IsI16(off) THEN [st EXCEPT !.frame.off = off] ELSE Fail(st)
AddRegValue(st, reg, val, type) ==
    IF IsU8(reg) /\ IsI16(val)
    THEN [st EXCEPT !.frame.regs = Append(@, [reg |-> reg, val |-> val, type |-> type])]
    ELSE Fail(st)

(* A rule that moves the location ends a state; the next one begins with   *)
(* its CFA.  (While the rules of a CIE are read nothing ends.)             *)
MoveTo(st, pc) ==
    LET at == Max({pc, st.pc})
    IN  IF st.inCie THEN [st EXCEPT !.pc = at]
        ELSE [st EXCEPT !.pc = at, !.done = Append(@, st.frame),
                        !.frame = NewFrame(at, st.frame.reg, st.frame.off)]

(* Rules about a register.                                                 *)
RegisterOps == {"offset", "offset_extended_sf", "val_offset", "restore", "undefined",
                "register", "expression", "val_expression"}
RegisterRule(st, ins) ==
    CASE ins.op \in {"offset", "offset_extended_sf", "val_offset"} ->
            AddRegValue(st, ins.reg, ins.off * st.dataAlign, "offset")
      [] ins.op = "restore" -> AddRegValue(st, ins.reg, 0, "restore")
      [] ins.op = "undefined" -> AddRegValue(st, ins.reg, 0, "undefined")
      [] ins.op = "register" -> AddRegValue(st, ins.reg, ins.off, "reg")
      [] OTHER -> AddRegValue(st, ins.reg, 0, "expression")

(* Rules about the CFA, which alone is remembered and restored.            *)
CfaRule(st, ins) ==
    CASE ins.op = "remember_state" ->
            [st EXCEPT !.stack = Append(@, [reg |-> st.frame.reg, off |-> st.frame.off])]
      [] ins.op = "restore_state" ->
            IF st.stack = << >> THEN Fail(st)
            ELSE [st EXCEPT !.stack = Front(@), !.frame.reg = Last(st.stack).reg,
                            !.frame.off = Last(st.stack).off]
      [] ins.op = "def_cfa" -> SetCfaOffset(SetCfaReg(st, ins.reg), ins.off)
      [] ins.op = "def_cfa_register" -> SetCfaReg(st, ins.reg)
      [] ins.op = "def_cfa_offset" -> SetCfaOffset(st, ins.off)
      [] ins.op = "def_cfa_sf" ->
            SetCfaOffset(SetCfaReg(st, ins.reg), ins.off * st.dataAlign)
      [] ins.op = "def_cfa_offset_sf" -> SetCfaOffset(st, ins.off * st.dataAlign)
      [] OTHER -> Fail(st)

ReadRule(st, ins) ==
    CASE ~st.ok -> st
      [] ins.op \in {"nop", "same_value", "gnu_args_size"} -> st
      [] ins.op = "set_loc" -> MoveTo(st, ReadValue(st.enc, st.pc, ins.at, ins.off))
      [] ins.op = "advance_loc" -> MoveTo(st, st.pc + ins.off * st.codeAlign)
      [] ins.op \in RegisterOps -> RegisterRule(st, ins)
      [] OTHER -> CfaRule(st, ins)

-----------------------------------------------------------------------------
(* read_frame_entry and parse_cie: an FDE names its CIE by how far back it *)
(* is.                                                                     *)
CieAt(file, at) == at + 4 - file.entries[at].ciePtr
Readable(file, at) ==
    /\ at \in DOMAIN file.entries /\ file.entries[at].ciePtr # 0
    /\ CieAt(file, at) \in DOMAIN file.entries
    /\ file.entries[CieAt(file, at)].ciePtr = 0

(* load_rules: the rules of the CIE, then those of the FDE, both from the  *)
(* start of the function.  An offset whose rules cannot be read stays      *)
(* invalid for ever.                                                       *)
LoadRules(file, o) ==
    LET fde == file.entries[o.fde]
        cie == file.entries[CieAt(file, o.fde)]
        pc == ReadValue(cie.enc, o.fde, 8, fde.pc)
        size == ReadValue(cie.enc, -12, 8 + cie.enc.width, fde.size)
        start == [pc |-> pc, frame |-> NewFrame(pc, 0, 0), done |-> << >>,
                  stack |-> << >>, ok |-> TRUE, inCie |-> TRUE, enc |-> cie.enc,
                  codeAlign |-> cie.codeAlign, dataAlign |-> cie.dataAlign]
        common == FoldLeft(ReadRule, start, cie.rules)
        all == FoldLeft(ReadRule, [common EXCEPT !.pc = pc, !.inCie = FALSE], fde.rules)
    IN  IF ~Readable(file, o.fde) THEN [o EXCEPT !.state = "invalid"]
        ELSE IF ~all.ok THEN [o EXCEPT !.state = "invalid", !.pcSize = size,
                                       !.frames = all.done]
        ELSE [o EXCEPT !.state = "valid", !.pcSize = size,
                       !.frames = Append(all.done, all.frame)]

(* What the states that were reached make of the registers.                *)
ApplyStates(reached, offsets) ==
    LET rules == FlattenSeq([i \in DOMAIN reached |-> reached[i].regs])
        apply(c, r) ==
            IF r.reg > REG_RA THEN c
            ELSE IF r.type = "undefined" THEN [c EXCEPT !.mask = @ \ {r.reg}]
            ELSE IF r.type # "offset" THEN c
            ELSE [c EXCEPT !.offsets[r.reg] = r.val, !.mask = @ \cup {r.reg}]
        start == [reg |-> IF reached = << >> THEN 0 ELSE Last(reached).reg,
                  off |-> IF reached = << >> THEN 0 ELSE Last(reached).off,
                  mask |-> {}, offsets |-> offsets]
    IN  FoldLeft(apply, start, rules)

(* Mutant of UnwindToCfa: the states after the address count too. *)
UnwindToCfa_All(o, offsets, rva) == ApplyStates(o.frames, offsets)

(* unwind_to_cfa: the states up to the address are applied one after the   *)
(* other; only offsets and what is undefined matter.                       *)
UnwindToCfa(o, offsets, rva) ==
    LET past == {i \in DOMAIN o.frames : o.frames[i].rva > rva}
        upTo == IF past = {} THEN Len(o.frames) ELSE Min(past) - 1
    IN  ApplyStates(SubSeq(o.frames, 1, upTo), offsets)
=============================================================================

------------------------------ MODULE MCUnwind ------------------------------
(***************************************************************************)
(* An instance of CallstackReader: a shared object with two functions that *)
(* have FDEs and one between them that has none, a DLL, memory of a JIT.   *)
(***************************************************************************)
EXTENDS CallstackReader

Ins(op, reg, off) == [op |-> op, reg |-> reg, off |-> off, at |-> 0]
PcRel == [rel |-> "pc", width |-> 4]
DataRel == [rel |-> "data", width |-> 4]

Common == [ciePtr |-> 0, enc |-> PcRel, codeAlign |-> 1, dataAlign |-> -8,
           rules |-> <<Ins("def_cfa", 7, 8), Ins("offset", 16, 1)>>]

(* push rbp; mov rbp, rsp; ...; leave; ret *)
FdeRbp == [ciePtr |-> 24, pc |-> 112, size |-> 8,
           rules |-> <<Ins("advance_loc", 0, 1), Ins("def_cfa_offset", 0, 16),
                       Ins("offset", 6, 2), Ins("advance_loc", 0, 1),
                       Ins("def_cfa_register", 6, 0), Ins("advance_loc", 0, 5),
                       Ins("def_cfa", 7, 8), Ins("nop", 0, 0)>>]

(* sub rsp, 16; ...; add rsp, 16; ret *)
FdeSub == [ciePtr |-> 44, pc |-> 108, size |-> 8,
           rules |-> <<Ins("advance_loc", 0, 1), Ins("remember_state", 0, 0),
                       Ins("def_cfa_offset", 0, 24), Ins("advance_loc", 0, 6),
                       Ins("restore_state", 0, 0)>>]

Lib == [loads |-> <<[exec |-> FALSE, vaddr |-> 0, offset |-> 0],
                    [exec |-> TRUE, vaddr |-> 200, offset |-> 100]>>,
        sections |-> <<[type |-> "progbits", name |-> ".eh_frame", offset |-> 60],
                       [type |-> "progbits", name |-> ".eh_frame_hdr", offset |-> 40,
                        omitted |-> FALSE, enc |-> PcRel, ptr |-> 16,
                        tableEnc |-> DataRel, first |-> 12,
                        table |-> <<[rva |-> 160, fde |-> 40], [rva |-> 176, fde |-> 60]>>]>>,
        entries |-> 60 :> Common @@ 80 :> FdeRbp @@ 100 :> FdeSub]
Dll == [loads |-> << >>, sections |-> << >>, entries |-> << >>]

MCFiles == 1 :> Lib @@ 2 :> Dll
MCMappings ==
    {[start |-> 1000, len |-> 40, offset |-> 100, key |-> 1, kind |-> "elf", home |-> "lib"],
     [start |-> 3000, len |-> 16, offset |-> 0, key |-> 2, kind |-> "pe", home |-> "dll"],
     [start |-> 2000, len |-> 16, offset |-> 0, key |-> 0, kind |-> "anon", home |-> "jit"]}

Points(keeps) ==
    IF keeps THEN [entry |-> 0, pushed |-> 1, body |-> 3, ret |-> 7]
    ELSE [entry |-> 0, body |-> 3, ret |-> 7]
Func(home, entry, frame, fde, local) ==
    [home |-> home, entry |-> entry, frame |-> frame, fde |-> fde, local |-> local,
     ret |-> 5, points |-> Points(frame = "rbp")]
MCFuncs ==
    {Func("lib", 200, "rbp", TRUE, 0), Func("lib", 208, "rbp", FALSE, 0),
     Func("lib", 216, "sub", TRUE, 1005), Func("jit", 4, "rbp", FALSE, 0),
     Func("dll", 4, "sub", FALSE, 0)}
MCGarbage == {0, StackTop, StackTop + 4, 1003, 2005}
=============================================================================

------------------------------- MODULE Unwind -------------------------------
(***************************************************************************)
(* The x64 unwinder (ruwind/x64unwinder.rs) over the modules of a process  *)
(* (ruwind/process.rs, module.rs), without state of its own: u is an       *)
(* Unwinder together with the frames and the error of the request.         *)
(*                                                                         *)
(* Addresses count bytes.  The stack that was copied is a sequence of      *)
(* words of 8 bytes, the first at rsp.                                     *)
(***************************************************************************)
EXTENDS Dwarf

CONSTANTS
    MaxFrames,  \* stands for 128, the hard cap of frames
    MaxChain,   \* stands for 16, the links of the RBP chain that are tried
    MaxScan,    \* stands for 64, the pairs that the scan looks at
    Huge        \* a word that is larger than every address

ASSUME UnwindAssumption == MaxFrames \in Nat \ {0} /\ MaxChain \in Nat /\ MaxScan \in Nat

None == -1
Word == 8

-----------------------------------------------------------------------------
(* Process: its modules, sorted by where they begin, the older first.      *)
SortModules(mods) ==
    LET order == SortSeq([i \in DOMAIN mods |-> i],
                    LAMBDA i, j : \/ mods[i].start < mods[j].start
                                  \/ mods[i].start = mods[j].start /\ i < j)
    IN  [k \in DOMAIN mods |-> mods[order[k]]]

(* find: the end of a module belongs to it.                                *)
FindModule(mods, ip) ==
    LET i == LastFrom([k \in DOMAIN mods |-> mods[k].start], ip)
    IN  IF i # 0 /\ ip <= mods[i].end THEN i ELSE 0
InModule(mods, ip) == FindModule(mods, ip) # 0

Rva(module, ip) == ip - module.start + module.offset + module.vaOffset

-----------------------------------------------------------------------------
(* A word of the stack at any byte.  Across two words it is large unless   *)
(* the upper one is 0; addresses have at most 4 bytes here.                *)
WordAt(stack, at) ==
    LET low == stack[at \div Word + 1]
        high == stack[at \div Word + 2]
        shift == at % Word
    IN  IF shift = 0 THEN low
        ELSE IF high # 0 \/ low = Huge THEN Huge
        ELSE IF shift > 3 THEN 0 ELSE low \div 256 ^ shift

(* stack_value: the last word is never read.                               *)
StackValue(rsp, cfa, off, stack) ==
    LET at == cfa - rsp + off
    IN  IF cfa < rsp \/ at < 0 \/ at >= Word * Len(stack) - Word THEN None
        ELSE WordAt(stack, at)

-----------------------------------------------------------------------------
(* unwind_prolog.                                                          *)

(* One link of the RBP chain.                                              *)
ChainLink(u, mods, stack, c) ==
    LET saved == StackValue(u.rsp, c.rbp, 0, stack)
        ret == StackValue(u.rsp, c.rbp, Word, stack)
        maxCfa == u.reg[REG_RSP] + Word * Len(stack)
    IN  IF c.stop \/ saved = None \/ ret = None THEN [c EXCEPT !.stop = TRUE]
        ELSE IF InModule(mods, ret)
        THEN [c EXCEPT !.stop = TRUE, !.ip = ret, !.saved = saved]
        ELSE IF saved <= c.rbp \/ saved > maxCfa \/ saved % Word # 0
        THEN [c EXCEPT !.stop = TRUE]
        ELSE [c EXCEPT !.rbp = saved]
WalkChain(u, mods, stack) ==
    FoldLeft(LAMBDA c, n : ChainLink(u, mods, stack, c),
             [rbp |-> u.reg[REG_RBP], stop |-> FALSE, ip |-> None, saved |-> 0],
             [n \in 1 .. MaxChain |-> n])

(* The scan: pairs of a stack address and a code address, from RSP on.     *)
ScanPairs(u, mods, stack) ==
    LET cfa == u.reg[REG_RSP]
        at(k) == cfa - u.rsp + Word * k
        max == Word * Len(stack) - Word
    IN  {k \in 0 .. MaxScan - 1 :
            /\ at(k + 1) <= max
            /\ WordAt(stack, at(k)) > cfa
            /\ WordAt(stack, at(k)) <= cfa + Word * Len(stack)
            /\ InModule(mods, WordAt(stack, at(k + 1)))}

UnwindProlog(u, mods, stack) ==
    LET cfa == u.reg[REG_RSP]
        chain == WalkChain(u, mods, stack)
        pairs == ScanPairs(u, mods, stack)
        at == cfa - u.rsp + Word * Min(pairs)
        failed == [u EXCEPT !.ip = None]
    IN  IF cfa < u.rsp \/ Len(stack) < 2 THEN failed
        ELSE IF chain.ip # None
        THEN [u EXCEPT !.ip = chain.ip, !.reg[REG_RSP] = chain.rbp + 2 * Word,
                       !.reg[REG_RBP] = chain.saved]
        ELSE IF cfa - u.rsp > Word * Len(stack) - Word THEN failed
        ELSE IF pairs = {} THEN [failed EXCEPT !.error = "AnonPrologNotFound"]
        ELSE LET first == WordAt(stack, at)
             IN  [u EXCEPT !.ip = WordAt(stack, at + Word), !.reg[REG_RSP] = first,
                           !.reg[REG_RBP] = first]

-----------------------------------------------------------------------------
(* get_frame_offset: the header is read once for a module, whether or not  *)
(* that succeeds, and the rules of a function when they are first needed.  *)
(* files are those that the accessor can open, by their keys.              *)
NotFilled == [filled |-> FALSE, offsets |-> << >>]
HeaderOf(cached, files, key) ==
    IF cached.filled THEN cached.offsets
    ELSE IF key \in DOMAIN files THEN ParseTable(files[key]) ELSE << >>
ParseAt(offsets, i, files, key) ==
    IF i = 0 \/ offsets[i].state # "unparsed" THEN offsets
    ELSE [offsets EXCEPT ![i] = IF key \in DOMAIN files THEN LoadRules(files[key], @)
                                ELSE [@ EXCEPT !.state = "invalid"]]
ParseFor(offsets, files, key, rva) ==
    ParseAt(offsets, LastFrom([k \in DOMAIN offsets |-> offsets[k].rva], rva), files, key)
FillCache(cache, files, key, rva) ==
    LET cached == IF key \in DOMAIN cache THEN cache[key] ELSE NotFilled
        offsets == ParseFor(HeaderOf(cached, files, key), files, key, rva)
    IN  (key :> [filled |-> TRUE, offsets |-> offsets]) @@ cache

(* The function that has the address, if its rules are valid and it does   *)
(* not end before.                                                         *)
FrameFor(cache, key, rva) ==
    LET offsets == cache[key].offsets
        i == LastFrom([k \in DOMAIN offsets |-> offsets[k].rva], rva)
    IN  IF \/ i = 0 \/ offsets[i].state # "valid"
           \/ offsets[i].pcSize # 0 /\ rva >= offsets[i].rva + offsets[i].pcSize
        THEN 0 ELSE i

(* Mutant of CheckedFrame: RBP is handed on as the function left it.       *)
CheckedFrame_KeepsRbp(u, found, cfa, rbp, ip) ==
    LET moved == [u EXCEPT !.ip = None, !.offsets = found.offsets,
                           !.reg[REG_RSP] = cfa]
    IN  IF u.reg[REG_RSP] >= cfa THEN [u EXCEPT !.ip = None, !.error = "CfaWouldGoBackwards"]
        ELSE IF ip = None THEN [moved EXCEPT !.error = "BadStackIpRead"]
        ELSE [moved EXCEPT !.ip = ip]

(* unwind_module: the rules give the CFA and where the registers are, as   *)
(* far as the copy of the stack has them.                                  *)
CheckedFrame(u, found, cfa, rbp, ip) ==
    LET failed == [u EXCEPT !.ip = None, !.offsets = found.offsets]
        moved == [failed EXCEPT !.reg[REG_RSP] = cfa,
                    !.reg[REG_RBP] = IF REG_RBP \in found.mask THEN rbp ELSE @]
    IN  IF found.reg > REG_RA THEN [failed EXCEPT !.error = "RegisterOutOfRange"]
        ELSE IF REG_RA \notin found.mask
        THEN [failed EXCEPT !.error = "NoReturnAddressRegister"]
        ELSE IF u.reg[REG_RSP] >= cfa THEN [failed EXCEPT !.error = "CfaWouldGoBackwards"]
        ELSE IF REG_RBP \in found.mask /\ rbp = None
        THEN [failed EXCEPT !.error = "BadStackRbpRead"]
        ELSE IF ip = None THEN [moved EXCEPT !.error = "BadStackIpRead"]
        ELSE [moved EXCEPT !.ip = ip]
FrameAtCfa(u, found, cfa, stack) ==
    CheckedFrame(u, found, cfa, StackValue(u.rsp, cfa, found.offsets[REG_RBP], stack),
         StackValue(u.rsp, cfa, found.offsets[REG_RA], stack))
FrameBy(u, found, stack) == FrameAtCfa(u, found, u.reg[found.reg] + found.off, stack)
UnwindCached(u, i, key, rva, stack) ==
    IF i = 0 THEN [u EXCEPT !.ip = None, !.error = "NoModuleFound"]
    ELSE FrameBy(u, UnwindToCfa(u.cache[key].offsets[i], u.offsets, rva), stack)
UnwindWith(u, key, rva, stack) ==
    UnwindCached(u, FrameFor(u.cache, key, rva), key, rva, stack)
UnwindModule(u, files, key, rva, stack) ==
    UnwindWith([u EXCEPT !.cache = FillCache(@, files, key, rva)], key, rva, stack)

-----------------------------------------------------------------------------
(* reset, with the first frame, which is always the IP.                    *)
StartUnwind(cache, regs) ==
    [rip |-> regs.rip, rsp |-> regs.rsp, cache |-> cache, ip |-> None, error |-> "",
     reg |-> [r \in 0 .. REG_RA |-> IF r = REG_RBP THEN regs.rbp
                                    ELSE IF r = REG_RSP THEN regs.rsp ELSE 0],
     offsets |-> [r \in 0 .. REG_RA |-> 0],
     frames |-> <<regs.rip>>, running |-> TRUE]

(* The frame below one: by the rules of its module or by the prolog walk,  *)
(* which also takes over where a function has no rules.                    *)
OrProlog(next, mods, stack) ==
    IF next.ip = None /\ next.error = "NoModuleFound"
    THEN UnwindProlog([next EXCEPT !.error = ""], mods, stack)
    ELSE next
FrameBelow(u, files, module, mods, stack) ==
    IF module.type = "prolog" THEN UnwindProlog(u, mods, stack)
    ELSE OrProlog(UnwindModule(u, files, module.key, Rva(module, u.rip), stack),
                  mods, stack)
NextFrame(u, files, mods, stack) ==
    FrameBelow(u, files, mods[FindModule(mods, u.rip)], mods, stack)

(* An address outside of every module is looked for again, from the        *)
(* registers as they were.                                                 *)
OrAgain(u, again) ==
    IF again.ip = None THEN [again EXCEPT !.ip = u.ip] ELSE [again EXCEPT !.error = ""]
Recover(u, before, mods, stack) ==
    IF u.ip = 0 \/ InModule(mods, u.ip) THEN u
    ELSE OrAgain(u, UnwindProlog([u EXCEPT !.reg[REG_RSP] = before.reg[REG_RSP],
                                           !.reg[REG_RBP] = before.reg[REG_RBP]],
                                 mods, stack))

(* Mutant of Stopped: the last frame stays when there is one more. *)
Stopped_KeepsLast(u) == [u EXCEPT !.running = FALSE]

(* The loop ended other than by a failure: the last frame is no frame.     *)
Stopped(u) ==
    [u EXCEPT !.running = FALSE,
              !.frames = IF Len(@) > 1 THEN Front(@) ELSE @]

(* One pass of the loop in unwind.                                         *)
PushFrame(u) == [u EXCEPT !.rip = u.ip, !.frames = Append(@, u.ip)]
AfterFrame(u) == IF Len(u.frames) > MaxFrames \/ u.rip = 0 THEN Stopped(u) ELSE u
TakeFrame(u, next, mods, stack) ==
    IF next.ip = None THEN [next EXCEPT !.running = FALSE]
    ELSE AfterFrame(PushFrame(Recover(next, u, mods, stack)))
UnwindStep(u, files, mods, stack) ==
    IF ~u.running THEN u
    ELSE IF ~InModule(mods, u.rip) THEN Stopped(u)
    ELSE TakeFrame(u, NextFrame(u, files, mods, stack), mods, stack)

UnwindAll(u, files, mods, stack) ==
    LET after[n \in 0 .. MaxFrames + 1] ==
            IF n = 0 THEN u ELSE UnwindStep(after[n - 1], files, mods, stack)
    IN  after[MaxFrames + 1]
=============================================================================

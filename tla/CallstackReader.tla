-------------------------- MODULE CallstackReader ---------------------------
(***************************************************************************)
(* CallstackHelper and CallstackReader (helpers/callstack/os/linux.rs)     *)
(* with the machine they keep (ruwind/machine.rs): the records of a        *)
(* session tell which modules a process has, and the frames of a sample    *)
(* are read from its call chain and unwound from a copy of its stack.      *)
(*                                                                         *)
(* Beside the code runs what it is told about (external): processes with   *)
(* mappings, and threads that call functions on a stack.                   *)
(***************************************************************************)
EXTENDS Unwind

CONSTANTS
    Pids,        \* process ids
    Files,       \* by key, the ELF files
    Mappings,    \* what a process may map: start, len, offset, key, kind
    Funcs,       \* functions: where they are, how they use the stack
    StackTop,    \* where a stack begins
    CopySizes,   \* with_stack_size: how many words are copied
    MaxCalls,    \* bound: functions on a stack
    MaxRecords,  \* bound: records of a session
    Garbage,     \* words that a stack without meaning may have
    GarbageLen   \* bound: words of such a stack

ASSUME ReaderAssumption == MaxCalls \in Nat \ {0} /\ MaxRecords \in Nat

VARIABLES
    mode,       \* what with_callstack_help asked for: ip, chain or dwarf
    machine,    \* by pid, the modules and whether they are sorted
    fds,        \* by key, the file that is held open
    vaOffsets,  \* by key, what was read of it
    cache,      \* the rules that the unwinder has read
    maps,       \* external: by pid of a living process, what it has mapped
    records,    \* how many records there have been
    astray,     \* history: pids whose modules are not those of the process
    read        \* history: the last sample that was read, and its frames

vars == <<mode, machine, fds, vaOffsets, cache, maps, records, astray, read>>

NoRead == [kind |-> "none"]

Init ==
    /\ mode \in {"ip", "chain", "dwarf"}
    /\ machine = << >> /\ fds = << >> /\ vaOffsets = << >> /\ cache = << >>
    /\ maps = << >> /\ records = 0 /\ astray = {} /\ read = NoRead

(* Records are hooked only where the stack is unwound.                     *)
Hooked == mode = "dwarf"

Record ==
    /\ records < MaxRecords
    /\ records' = records + 1
    /\ UNCHANGED <<mode, cache, read>>
Tracked(process) == machine' = IF Hooked THEN process ELSE machine

-----------------------------------------------------------------------------
(* Machine.                                                                *)
NewProcess == [mods |-> << >>, sorted |-> FALSE]
AddProcess(pid, process) ==
    IF pid \in DOMAIN machine THEN machine ELSE (pid :> process) @@ machine
Without(f, pid) == [p \in DOMAIN f \ {pid} |-> f[p]]

(* fork_process: the child has the modules of its parent, not sorted.      *)
ForkProcess(pid, ppid) ==
    IF ppid \notin DOMAIN machine THEN machine
    ELSE AddProcess(pid, [NewProcess EXCEPT !.mods = machine[ppid].mods])

(* A comm record: a process begins another program.  (Records of threads   *)
(* are passed over.)                                                       *)
Exec(pid) ==
    /\ Record
    /\ maps' = (pid :> {}) @@ maps
    /\ Tracked(AddProcess(pid, NewProcess))
    /\ astray' = IF pid \in DOMAIN machine /\ machine[pid].mods # << >>
                 THEN astray \cup {pid} ELSE astray
    /\ UNCHANGED <<fds, vaOffsets>>

Fork(pid, ppid) ==
    /\ Record
    /\ ppid \in DOMAIN maps /\ pid \notin DOMAIN maps
    /\ maps' = (pid :> maps[ppid]) @@ maps
    /\ Tracked(ForkProcess(pid, ppid))
    /\ astray' = IF ppid \in astray THEN astray \cup {pid} ELSE astray \ {pid}
    /\ UNCHANGED <<fds, vaOffsets>>

(* An exit record, of the process or of one of its threads: the process is *)
(* removed in either case.                                                 *)
Exit(pid, thread) ==
    /\ Record
    /\ pid \in DOMAIN maps
    /\ maps' = IF thread THEN maps ELSE Without(maps, pid)
    /\ Tracked(Without(machine, pid))
    /\ astray' = IF thread /\ Hooked THEN astray \cup {pid} ELSE astray \ {pid}
    /\ UNCHANGED <<fds, vaOffsets>>

(* An mmap record: add_mmap_exec.  The file is opened once for a key, and  *)
(* what its load header says is kept from the first module on, also when   *)
(* it could not be opened.                                                 *)
Backed(map) == map.kind # "anon"
ModuleOf(map, va) ==
    [start |-> map.start, end |-> map.start + map.len,
     offset |-> IF Backed(map) THEN map.offset ELSE 0,
     vaOffset |-> IF Backed(map) THEN va ELSE 0,
     key |-> IF Backed(map) THEN map.key ELSE 0,
     type |-> IF map.kind = "elf" THEN "dwarf" ELSE "prolog"]

Mmap(pid, map, opens) ==
    LET fd == IF Hooked /\ Backed(map) /\ opens /\ map.key \notin DOMAIN fds
              THEN (map.key :> Files[map.key]) @@ fds ELSE fds
        known == pid \in DOMAIN machine
        va == IF map.key \in DOMAIN vaOffsets THEN vaOffsets[map.key]
              ELSE IF map.key \in DOMAIN fd THEN VaOffset(fd[map.key]) ELSE 0
    IN  /\ Record
        /\ pid \in DOMAIN maps
        /\ \A other \in maps[pid] : \/ other.start + other.len <= map.start
                                    \/ map.start + map.len <= other.start
        /\ maps' = [maps EXCEPT ![pid] = @ \cup {map}]
        /\ fds' = fd
        /\ vaOffsets' = IF known /\ Backed(map) THEN (map.key :> va) @@ vaOffsets
                        ELSE vaOffsets
        /\ Tracked(IF ~known THEN machine
                   ELSE [machine EXCEPT ![pid] =
                            [mods |-> Append(@.mods, ModuleOf(map, va)), sorted |-> FALSE]])
        /\ astray' = IF known \/ ~Hooked THEN astray ELSE astray \cup {pid}

-----------------------------------------------------------------------------
(* External: a thread that has called functions, the last one at some      *)
(* point.  A function saves RBP and makes it its frame, or leaves it and   *)
(* only moves RSP.                                                         *)
Push(t, word) == [t EXCEPT !.mem = <<word>> \o @, !.rsp = @ - Word]
Enter(t, f) ==
    IF f.frame = "rbp"
    THEN LET pushed == Push(t, t.rbp)
         IN  Push([pushed EXCEPT !.rbp = pushed.rsp], 0)
    ELSE Push(Push(t, 0), f.local)
Address(map, f, at) ==
    IF map.kind = "anon" THEN map.start + f.entry + at
    ELSE map.start + f.entry + at - VaOffset(Files[map.key]) - map.offset

(* A call from the body of a function, which it returns to.                *)
CallFrom(t, c) ==
    LET ret == Address(c.map, c.f, c.f.ret)
        entered == Enter(t, c.f)
    IN  [Push(entered, ret) EXCEPT !.truth = <<ret>> \o @]

(* Where the last function is: at its entry, after it saved RBP, in its    *)
(* body or at its return.                                                  *)
AtPoint(t, c, point) ==
    LET ip == Address(c.map, c.f, c.f.points[point])
        s == CASE point = "body" -> Enter(t, c.f)
               [] point = "pushed" -> IF c.f.frame = "rbp" THEN Push(t, t.rbp) ELSE t
               [] OTHER -> t
    IN  [s EXCEPT !.truth = <<ip>> \o @, !.rip = ip]

Idle == [mem |-> <<0, 0, 0>>, rsp |-> StackTop, rbp |-> 0, rip |-> 0, truth |-> << >>]
Thread(calls, point) ==
    AtPoint(FoldLeft(CallFrom, Idle, Front(calls)), Last(calls), point)

CallsIn(pid) == {c \in [f : Funcs, map : maps[pid]] : c.f.home = c.map.home}
Stacks(pid) == UNION {[1 .. n -> CallsIn(pid)] : n \in 1 .. MaxCalls}

-----------------------------------------------------------------------------
(* read_frames: the call chain without its context markers, or the IP when *)
(* there is none; then, if the sample has the registers, the unwinder,     *)
(* which has the process sort its modules.                                 *)
Context == Huge \* stands for what is not below PERF_CONTEXT_MAX
FromCallchain(s) ==
    IF s.chain = << >> THEN s.ip ELSE SelectSeq(s.chain, LAMBDA f : f < Context)

Unwound(s) ==
    LET start == StartUnwind(cache, s)
    IN  IF s.pid \notin DOMAIN machine THEN [start EXCEPT !.error = "ProcessNotMapped"]
        ELSE UnwindAll(start, fds, SortModules(machine[s.pid].mods), s.stack)

FramesRead(s, u, unwind) ==
    /\ cache' = IF unwind THEN u.cache ELSE cache
    /\ machine' = IF unwind /\ s.pid \in DOMAIN machine
                  THEN [machine EXCEPT ![s.pid] =
                            [mods |-> SortModules(@.mods), sorted |-> TRUE]]
                  ELSE machine
    /\ read' = [s EXCEPT !.frames = FromCallchain(s) \o
                            IF unwind THEN u.frames ELSE << >>,
                         !.error = IF unwind THEN u.error ELSE ""]
    /\ UNCHANGED <<mode, fds, vaOffsets, maps, records, astray>>
ReadFrames(s) == FramesRead(s, Unwound(s), mode = "dwarf" /\ s.regs)

(* What a sample has is what the helper asked for (with_callstack_help):   *)
(* an IP; the whole chain; or the chain of the kernel, the registers and   *)
(* the stack.  An event may ask for no callstack (set_no_callstack_flag).  *)
SampleOf(pid, t, calls, point, size, kernel, plain) ==
    LET wantIp == mode = "ip" \/ plain
        chain == (IF kernel THEN <<Context, Huge - 1>> ELSE << >>)
                 \o (IF mode = "chain" THEN <<Context>> \o t.truth ELSE << >>)
        regs == mode = "dwarf" /\ ~plain
    IN  [kind |-> "stack", pid |-> pid, calls |-> calls, point |-> point, truth |-> t.truth,
         rip |-> t.rip, rbp |-> t.rbp, rsp |-> t.rsp, regs |-> regs,
         whole |-> ~regs \/ Len(t.mem) <= size,
         stack |-> IF regs THEN SubSeq(t.mem, 1, Min({size, Len(t.mem)})) ELSE << >>,
         ip |-> IF wantIp THEN <<IF kernel THEN Huge - 1 ELSE t.rip>> ELSE << >>,
         chain |-> IF wantIp THEN << >> ELSE chain, kernel |-> kernel,
         frames |-> << >>, error |-> ""]

Sample(pid, calls, point, size, kernel, plain) ==
    /\ pid \in DOMAIN maps
    /\ ReadFrames(SampleOf(pid, Thread(calls, point), calls, point, size, kernel, plain))

(* A stack without meaning: words of any kind, registers too.              *)
GarbageSample(pid, stack, rip, rbp) ==
    /\ mode = "dwarf" /\ pid \in DOMAIN machine
    /\ ReadFrames([kind |-> "garbage", pid |-> pid, stack |-> stack, rip |-> rip,
                   rbp |-> rbp, rsp |-> StackTop, regs |-> TRUE, ip |-> << >>,
                   chain |-> << >>, frames |-> << >>, error |-> ""])

(* The caller takes the frames.                                            *)
Take ==
    /\ read # NoRead /\ read' = NoRead
    /\ UNCHANGED <<mode, machine, fds, vaOffsets, cache, maps, records, astray>>

Records ==
    \/ \E pid \in Pids : Exec(pid)
    \/ \E pid, ppid \in Pids : Fork(pid, ppid)
    \/ \E pid \in Pids, thread \in BOOLEAN : Exit(pid, thread)
    \/ \E pid \in Pids, map \in Mappings, opens \in BOOLEAN : Mmap(pid, map, opens)

Samples ==
    \/ \E pid \in DOMAIN maps : \E calls \in Stacks(pid), size \in CopySizes,
            kernel, plain \in BOOLEAN :
        \E point \in DOMAIN Last(calls).f.points :
            Sample(pid, calls, point, size, kernel, plain)
    \/ \E pid \in DOMAIN machine :
        \E stack \in [1 .. GarbageLen -> Garbage], rip, rbp \in Garbage :
            GarbageSample(pid, stack, rip, rbp)

Next == Take \/ (read = NoRead /\ (Records \/ Samples))

Spec == Init /\ [][Next]_vars

-----------------------------------------------------------------------------
(* What is known of the process is what it has: no record of it was        *)
(* missed, and no file gave its load header before it could be opened.     *)
Known(s) ==
    /\ s.pid \notin astray
    /\ \A map \in maps[s.pid] :
        (Backed(map) /\ map.key \in DOMAIN fds) =>
            vaOffsets[map.key] = VaOffset(Files[map.key])
(* The rules of a file were asked for when it could not be opened.         *)
Missed(key) ==
    key \in DOMAIN cache /\ Len(cache[key].offsets) # Len(ParseTable(Files[key]))
HasFde(c) == c.f.fde /\ c.map.kind = "elf"

(* The user's frames of a sample that was unwound: the kernel's is first.  *)
UserFrames(s) == SubSeq(s.frames, IF s.kernel THEN 2 ELSE 1, Len(s.frames))
IsSubSeq(short, long) ==
    \E at \in [DOMAIN short -> DOMAIN long] :
        /\ \A i, j \in DOMAIN short : i < j => at[i] < at[j]
        /\ \A i \in DOMAIN short : short[i] = long[at[i]]

(* No frame is made up: whatever the stack keeps besides return addresses, *)
(* and whether a function is unwound by its FDE, by the chain of RBP or by *)
(* a scan, the user's frames begin with the IP and are return addresses of *)
(* calls that are active, in their order (x64unwinder.rs, unwind).  Holds  *)
(* where functions without an FDE leave no address of the stack behind.    *)
FramesReal ==
    (read.kind = "stack" /\ read.regs /\ Known(read)) =>
        /\ UserFrames(read) # << >>
        /\ UserFrames(read)[1] = read.rip
        /\ IsSubSeq(UserFrames(read), read.truth)

(* What a sample must be for its walk to be complete.                      *)
Walkable(s) ==
    /\ s.regs /\ s.whole /\ Known(s)
    /\ \A map \in maps[s.pid] :
        Backed(map) => map.key \in DOMAIN fds /\ ~Missed(map.key)
    /\ \A k \in DOMAIN s.calls : HasFde(s.calls[k]) \/ s.calls[k].f.frame = "rbp"
    /\ s.point = "body" \/ HasFde(Last(s.calls))
    /\ s.point = "ret" => Last(s.calls).f.frame # "rbp"

(* Nothing is missing either, up to the cap, when the copy has the whole   *)
(* stack, the files could be opened and each function has an FDE or keeps  *)
(* a frame that is set up (x64unwinder.rs, unwind; dwarf.rs, read_rule);   *)
(* with the kernel's own chain, when its markers are taken out.            *)
(* At the end of a function that restored RBP the rule for RBP still       *)
(* points below the stack that was copied, and the unwinder gives up.      *)
FramesComplete ==
    read.kind = "stack" =>
        /\ Walkable(read) =>
            UserFrames(read) = SubSeq(read.truth, 1, Min({MaxFrames, Len(read.truth)}))
        /\ read.chain # << >> /\ ~Hooked => UserFrames(read) = read.truth

(* Any words on the stack and in the registers end the walk: at most the   *)
(* cap of frames, each but the first inside of a module of the process     *)
(* (x64unwinder.rs, unwind and its recovery).                              *)
GarbageSafe ==
    read.kind = "garbage" =>
        /\ Len(read.frames) \in 1 .. MaxFrames
        /\ \A i \in 2 .. Len(read.frames) :
            InModule(machine[read.pid].mods, read.frames[i])
=============================================================================

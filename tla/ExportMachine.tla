---------------------------- MODULE ExportMachine ---------------------------
(***************************************************************************)
(* The exporter on Linux: the callbacks that hook_to_perf_session          *)
(* registers (helpers/exporting/os/linux.rs) build a table of processes    *)
(* with their samples and mappings (helpers/exporting/mod.rs, process.rs); *)
(* when the capture is over symbols are resolved and the processes are     *)
(* replayed by time, as the nettrace writer does.                          *)
(*                                                                         *)
(* The kernel that produces the records is modelled beside it (external):  *)
(* threads that run and wait, processes and what their pages hold.  A      *)
(* record is delivered as it is produced, in the order of time that the    *)
(* merge of PerfSource gives.  Each sample carries, as history, the page   *)
(* that it was taken in, if a record had told of it.  Id 0 is the kernel's *)
(* process, and what every process outside of the container is reported    *)
(* as.  A call chain is an id: its frames would be resolved as the         *)
(* sample's own address is.  No record is lost.                            *)
(***************************************************************************)
EXTENDS ExportLookup, ExportReplay

CONSTANTS
    Ids,          \* ids of threads; a process has the id of its first thread
    Ranges,       \* the address ranges that are mapped, as <<start, end>>
    Offsets,      \* the file offsets they are mapped from
    Sampled,      \* what is sampled, as <<address, time since the last record>>
    FileSymbols,  \* the symbols of a file, by file offset
    Kallsyms,     \* the lines of /proc/kallsyms
    Openable,     \* the processes whose root directory can be opened
    Dropped,      \* the addresses whose samples the sample hooks drop
    MaxEvents     \* bound: the records, of the kernel and of the snapshot

ASSUME IdsAssumption == Ids \subseteq Nat \ {0} /\ 1 \in Ids
ASSUME RangesAssumption == Ranges \subseteq Nat \X Nat /\ Offsets \subseteq Nat
ASSUME MaxEventsAssumption == MaxEvents \in Nat
ASSUME SampledAssumption == Sampled \subseteq Nat \X Nat

(* The user's addresses are below the kernel's.  kallsyms is sorted, as    *)
(* os_add_kernel_mappings_with says of the symbols it reads.               *)
ASSUME AddressAssumption ==
    /\ KERNEL_START <= KERNEL_END
    /\ \A range \in Ranges : range[2] < KERNEL_START
    /\ \A s \in Sampled : s[1] <= KERNEL_END
ASSUME FileSymbolsAssumption ==
    \A f \in FileSymbols : f.name \in Nat \ {0} /\ f.start \in Nat /\ f.end \in Nat
ASSUME KallsymsAssumption ==
    /\ Kallsyms \in Seq([address : 0 .. KERNEL_END, text : BOOLEAN])
    /\ \A i, j \in DOMAIN Kallsyms :
            i < j => Kallsyms[i].address <= Kallsyms[j].address

VARIABLES
    clock,     \* the time
    events,    \* how many records there were
    thread,    \* the kernel's threads by id
    process,   \* the kernel's processes, one after the other, with what
               \* their pages hold and (history) which were reported
    reused,    \* history: ids that were given to a second thread
    env,       \* the environment thread's snapshot
    procs,     \* ExportMachine.procs
    cswitches, \* OSExportMachine.cswitches
    mapIndex,  \* ExportMachine.map_index
    phase,     \* what is being done with the machine
    log        \* the rounds of callbacks that the replay made

kernelVars == <<thread, process, reused>>
machineVars == <<procs, cswitches, mapIndex>>
vars == <<clock, events, kernelVars, env, machineVars, phase, log>>

UserAddresses == 0 .. KERNEL_START - 1
NoPage == [file |-> 0, off |-> 0]
NoThread == [proc |-> 0, dead |-> FALSE, state |-> "off", out |-> 0, chain |-> 0]
NoSample == [kind |-> "none"]

(* ExportProcess::new; a time of 0 stands for None.                        *)
NewProcess == [root |-> FALSE, create |-> 0, exit |-> 0, samples |-> << >>,
               maps |-> << >>]

(* The capture begins with process 1 already there: a file of its own is   *)
(* mapped everywhere.                                                      *)
Init ==
    /\ clock = 1 /\ events = 0
    /\ thread = [t \in Ids |->
                    IF t = 1 THEN [NoThread EXCEPT !.proc = 1, !.state = "run"]
                             ELSE NoThread]
    /\ process = <<[pid |-> 1, known |-> {},
                    page |-> [a \in UserAddresses |-> [file |-> 1, off |-> a]]]>>
    /\ reused = {}
    /\ env = [comms |-> {}, read |-> {}, regions |-> {}]
    /\ procs = << >> /\ cswitches = << >> /\ mapIndex = 0
    /\ phase = "trace"
    /\ log = << >>

-----------------------------------------------------------------------------
(* The machine's interface.                                                *)
Entry(pid) == IF pid \in DOMAIN procs THEN procs[pid] ELSE NewProcess
SetProc(pid, e) ==
    [p \in DOMAIN procs \cup {pid} |-> IF p = pid THEN e ELSE procs[p]]

AddMapping(e, m) == [e EXCEPT !.maps = Append(@, m)]

(* add_sample and add_process_sample: the process is made, then the hooks  *)
(* may drop the sample.                                                    *)
AddSample(pid, sample) ==
    SetProc(pid, IF sample.ip \in Dropped THEN Entry(pid)
                 ELSE [Entry(pid) EXCEPT !.samples = Append(@, sample)])

(* add_mmap_exec; process 0 gets no mappings.                              *)
AddMmapExec(pid, lo, hi, page, stale) ==
    IF pid = 0 THEN UNCHANGED <<procs, mapIndex>>
    ELSE /\ procs' = SetProc(pid, AddMapping(Entry(pid),
                [time |-> clock', start |-> lo, end |-> hi, off |-> page.off,
                 file |-> page.file, stale |-> stale, id |-> mapIndex,
                 syms |-> {}]))
         /\ mapIndex' = mapIndex + 1

(* add_comm_exec; os_add_comm_exec opens the root directory, or leaves the *)
(* one that was inherited if it cannot.                                    *)
AddCommExec(pid) ==
    IF pid = 0 THEN procs
    ELSE SetProc(pid, [Entry(pid) EXCEPT !.create = clock',
                                         !.root = @ \/ pid \in Openable])

AddCommExit(pid) ==
    IF pid = 0 THEN procs
    ELSE SetProc(pid, [Entry(pid) EXCEPT !.exit = clock'])

(* Mutant of ForkExec: the child does not inherit the mappings. *)
ForkExec_NoMappings(pid, ppid) ==
    [p \in DOMAIN procs \cup {pid, ppid} |->
        IF p = pid THEN [NewProcess EXCEPT !.root = Entry(ppid).root]
        ELSE Entry(p)]

(* fork_exec: the child replaces what was known under its id.              *)
ForkExec(pid, ppid) ==
    [p \in DOMAIN procs \cup {pid, ppid} |->
        IF p = pid THEN [NewProcess EXCEPT !.root = Entry(ppid).root,
                                           !.maps = Entry(ppid).maps]
        ELSE Entry(p)]

-----------------------------------------------------------------------------
(* The kernel's records and their callbacks.                               *)
Event(tick) ==
    /\ phase = "trace" /\ events < MaxEvents
    /\ events' = events + 1 /\ clock' = clock + tick
    /\ UNCHANGED <<phase, log>>

Runs(t) == thread[t].proc # 0 /\ ~thread[t].dead /\ thread[t].state = "run"
ProcessOf(t) == process[thread[t].proc]
PidOf(t) == ProcessOf(t).pid
ThreadsOf(g) == {t \in Ids : thread[t].proc = g /\ ~thread[t].dead}

(* A new thread has not run; its id may have had another owner.            *)
NewThread(t, c, g) ==
    /\ Runs(t) /\ (thread[c].proc = 0 \/ thread[c].dead)
    /\ thread' = [thread EXCEPT ![c] = [NoThread EXCEPT !.proc = g]]
    /\ reused' = IF thread[c].dead THEN reused \cup {c} ELSE reused

Fork(t, c) ==
    /\ Event(1)
    /\ NewThread(t, c, Len(process) + 1)
    /\ process' = Append(process, [ProcessOf(t) EXCEPT !.pid = c])
    /\ procs' = ForkExec(c, PidOf(t))
    /\ UNCHANGED <<env, cswitches, mapIndex>>

(* The record of a new thread: pid # tid, the callback returns.            *)
Clone(t, c) ==
    /\ Event(1)
    /\ Runs(t) /\ c # PidOf(t)
    /\ NewThread(t, c, thread[t].proc)
    /\ UNCHANGED <<process, env, machineVars>>

Exec(t) ==
    /\ Event(1)
    /\ Runs(t) /\ t = PidOf(t) /\ ThreadsOf(thread[t].proc) = {t}
    /\ process' = [process EXCEPT ![thread[t].proc].known = {},
            ![thread[t].proc].page = [a \in UserAddresses |-> NoPage]]
    /\ procs' = AddCommExec(t)
    /\ UNCHANGED <<thread, reused, env, cswitches, mapIndex>>

Mmap(t, range, off) ==
    /\ Event(1)
    /\ Runs(t)
    /\ process' = [process EXCEPT
            ![thread[t].proc].known = @ \cup range[1] .. range[2],
            ![thread[t].proc].page = [a \in UserAddresses |->
                IF a \in range[1] .. range[2]
                THEN [file |-> clock', off |-> off + (a - range[1])] ELSE @[a]]]
    /\ AddMmapExec(PidOf(t), range[1], range[2],
                   [file |-> clock', off |-> off], FALSE)
    /\ UNCHANGED <<thread, reused, env, cswitches>>

(* A mapping that is not executable: the callback returns.                 *)
MmapNoExec(t, range) ==
    /\ Event(1)
    /\ Runs(t)
    /\ process' = [process EXCEPT
            ![thread[t].proc].known = @ \ (range[1] .. range[2]),
            ![thread[t].proc].page = [a \in UserAddresses |->
                IF a \in range[1] .. range[2] THEN NoPage ELSE @[a]]]
    /\ UNCHANGED <<thread, reused, env, machineVars>>

(* The exit record of any thread reaches the process.  The thread may      *)
(* still be switched out; its id is free from then on.                     *)
Exit(t) ==
    /\ Event(1)
    /\ Runs(t)
    /\ t = PidOf(t) => ThreadsOf(thread[t].proc) = {t}
    /\ thread' = [thread EXCEPT ![t].dead = TRUE]
    /\ procs' = AddCommExit(PidOf(t))
    /\ UNCHANGED <<process, reused, env, cswitches, mapIndex>>

CpuSample(t, ip, tick) ==
    /\ Event(tick)
    /\ Runs(t)
    /\ ip < KERNEL_START => ProcessOf(t).page[ip] # NoPage
    /\ procs' = AddSample(PidOf(t),
            [kind |-> "cpu", time |-> clock', dur |-> 0, tid |-> t, ip |-> ip,
             chain |-> clock', real |-> TRUE,
             at |-> IF ip < KERNEL_START /\ ip \in ProcessOf(t).known
                    THEN ProcessOf(t).page[ip] ELSE NoPage])
    /\ UNCHANGED <<kernelVars, env, cswitches, mapIndex>>

(* A process outside: a sample is process 0's, a fork is from 0 to 0, and  *)
(* the other records do nothing.                                           *)
OutsideSample(ip, tick) ==
    /\ Event(tick)
    /\ ip >= KERNEL_START
    /\ procs' = AddSample(0,
            [kind |-> "cpu", time |-> clock', dur |-> 0, tid |-> 0, ip |-> ip,
             chain |-> clock', real |-> TRUE, at |-> NoPage])
    /\ UNCHANGED <<kernelVars, env, cswitches, mapIndex>>

OutsideFork ==
    /\ Event(1)
    /\ procs' = ForkExec(0, 0)
    /\ UNCHANGED <<kernelVars, env, cswitches, mapIndex>>

OutsideOther ==
    /\ Event(1)
    /\ \/ procs' = AddCommExec(0) /\ UNCHANGED mapIndex
       \/ procs' = AddCommExit(0) /\ UNCHANGED mapIndex
       \/ \E range \in Ranges : AddMmapExec(0, range[1], range[2], NoPage, FALSE)
    /\ UNCHANGED <<kernelVars, env, cswitches>>

-----------------------------------------------------------------------------
(* Waits.  A thread that is switched out gives a sample with the call      *)
(* chain and a switch record, in either order, and another switch record   *)
(* when it runs again.                                                     *)
Stash(t) == IF t \in DOMAIN cswitches THEN cswitches[t]
                                      ELSE [start |-> 0, sample |-> NoSample]
SetStash(t, stash) ==
    [u \in DOMAIN cswitches \cup {t} |-> IF u = t THEN stash ELSE cswitches[u]]

CswitchSample(t) ==
    /\ Event(1)
    /\ thread[t].proc # 0 /\ thread[t].state \in {"run", "switched"}
    /\ thread' = [thread EXCEPT
            ![t].state = IF @ = "run" THEN "sampled" ELSE "off",
            ![t].chain = clock']
    /\ cswitches' = SetStash(t, [Stash(t) EXCEPT !.sample =
            [kind |-> "wait", time |-> clock', dur |-> 0, tid |-> t,
             ip |-> KERNEL_START, chain |-> clock', real |-> FALSE,
             at |-> NoPage]])
    /\ UNCHANGED <<process, reused, env, procs, mapIndex>>

SwitchOut(t) ==
    /\ Event(1)
    /\ thread[t].proc # 0 /\ thread[t].state \in {"run", "sampled"}
    /\ thread' = [thread EXCEPT
            ![t].state = IF @ = "run" THEN "switched" ELSE "off",
            ![t].out = clock']
    /\ cswitches' = IF t \in DOMAIN cswitches
                    THEN [cswitches EXCEPT ![t].start = clock'] ELSE cswitches
    /\ UNCHANGED <<process, reused, env, procs, mapIndex>>

(* Mutant of RecordWait: a wait without a start is recorded too. *)
RecordWait_NoCheck(t) == Stash(t).sample # NoSample

(* The switch-in's checks: a start, and a call chain.                      *)
RecordWait(t) == Stash(t).start # 0 /\ Stash(t).sample # NoSample

SwitchIn(t) ==
    /\ Event(1)
    /\ thread[t].proc # 0 /\ ~thread[t].dead /\ thread[t].state = "off"
    /\ thread' = [thread EXCEPT ![t].state = "run"]
    /\ cswitches' = IF t \in DOMAIN cswitches
            THEN [cswitches EXCEPT ![t] = [start |-> 0, sample |-> NoSample]]
            ELSE cswitches
    /\ procs' =
        IF RecordWait(t)
        THEN LET start == Stash(t).start
                 real == /\ start = thread[t].out
                         /\ Stash(t).sample.chain = thread[t].chain
             IN  AddSample(PidOf(t), [Stash(t).sample EXCEPT
                    !.time = start, !.dur = clock' - start, !.real = real])
        ELSE procs
    /\ UNCHANGED <<process, reused, env, mapIndex>>

-----------------------------------------------------------------------------
(* The environment thread: a comm record per process, then the mappings it *)
(* reads in procfs, each in a record with the time at which it is written. *)
Alive(p) == thread[p].proc # 0 /\ ~thread[p].dead /\ PidOf(p) = p

EnvComm(p) ==
    /\ Event(1)
    /\ Alive(p) /\ p \notin env.comms /\ env.read = {}
    /\ env' = [env EXCEPT !.comms = @ \cup {p}]
    /\ procs' = AddCommExec(p)
    /\ UNCHANGED <<kernelVars, cswitches, mapIndex>>

(* The lines of /proc/<pid>/maps: the longest ranges that hold one part of *)
(* a file.                                                                 *)
OnePart(page, lo, hi) ==
    /\ lo \in UserAddresses /\ hi \in UserAddresses /\ page[lo].file # 0
    /\ \A a \in lo .. hi :
            page[a] = [file |-> page[lo].file, off |-> page[lo].off + (a - lo)]

Regions(p, page) ==
    {[pid |-> p, lo |-> r[1], hi |-> r[2], page |-> page[r[1]]] :
        r \in {r \in UserAddresses \X UserAddresses :
                /\ r[1] <= r[2] /\ OnePart(page, r[1], r[2])
                /\ ~ OnePart(page, r[1] - 1, r[2])
                /\ ~ OnePart(page, r[1], r[2] + 1)}}

EnvRead(p) ==
    /\ phase = "trace"
    /\ Alive(p) /\ p \notin env.read /\ env.regions = {}
    /\ env' = [env EXCEPT !.read = @ \cup {p},
                          !.regions = Regions(p, ProcessOf(p).page)]
    /\ UNCHANGED <<clock, events, kernelVars, machineVars, phase, log>>

(* The region may have changed since it was read (history: stale).         *)
EnvWrite(r) ==
    /\ Event(1)
    /\ env' = [env EXCEPT !.regions = @ \ {r}]
    /\ LET current == Alive(r.pid) /\ r \in Regions(r.pid, ProcessOf(r.pid).page)
       IN  /\ AddMmapExec(r.pid, r.lo, r.hi, r.page, ~current)
           /\ process' = IF ~current THEN process
                ELSE [process EXCEPT ![thread[r.pid].proc].known = @ \cup r.lo .. r.hi]
    /\ UNCHANGED <<thread, reused, cswitches>>

-----------------------------------------------------------------------------
(* capture_and_resolve_symbols.                                            *)
SampledIps(e) == {e.samples[i].ip : i \in DOMAIN e.samples}
KernelIps(e) == {ip \in SampledIps(e) : ip >= KERNEL_START}

(* add_kernel_mappings, for every process that has an address in it.  The  *)
(* ids are given in the order of a hash map, here that of the pids.        *)
AddKernelMappings(table) ==
    LET kernel == {p \in DOMAIN table : KernelIps(table[p]) # {}}
        matched == MatchedKernelSymbols(Kallsyms,
                        UNION {KernelIps(table[p]) : p \in kernel})
    IN  [p \in DOMAIN table |->
            IF p \notin kernel THEN table[p]
            ELSE AddMapping(table[p],
                [time |-> 0, start |-> KERNEL_START, end |-> KERNEL_END,
                 off |-> 0, file |-> 0, stale |-> FALSE,
                 id |-> mapIndex + Cardinality({q \in kernel : q < p}),
                 syms |-> KernelMappingSymbols(matched, KernelIps(table[p]))])]

(* resolve_elf_symbols: the symbols of each mapped file that the samples   *)
(* in the mapping need, if the root directory was opened.                  *)
ResolveElfSymbols(table) ==
    [p \in DOMAIN table |->
        IF ~table[p].root THEN table[p]
        ELSE [table[p] EXCEPT !.maps =
            [i \in DOMAIN table[p].maps |->
                LET m == table[p].maps[i]
                    ips == {ip \in SampledIps(table[p]) \ KernelIps(table[p]) :
                                ContainsIp(m, ip)}
                IN  IF m.file = 0 THEN m
                    ELSE AddMatchingSymbols(m, ips, FileSymbols)]]]

-----------------------------------------------------------------------------
(* The capture is over: capture_and_resolve_symbols, then the writer       *)
(* replays the processes, which first sorts their samples and mappings.    *)
Export ==
    /\ phase = "trace" /\ env.regions = {}
    /\ LET resolved == ResolveElfSymbols(AddKernelMappings(procs))
       IN  procs' = [p \in DOMAIN procs |->
            [resolved[p] EXCEPT !.samples = SortByTime(@), !.maps = SortByTime(@)]]
    /\ mapIndex' = mapIndex + Cardinality({p \in DOMAIN procs :
                                              KernelIps(procs[p]) # {}})
    /\ log' = ReplayRounds(procs')
    /\ phase' = "done"
    /\ UNCHANGED <<clock, events, kernelVars, env, cswitches>>

-----------------------------------------------------------------------------
KernelStep ==
    \/ \E t, c \in Ids : Fork(t, c) \/ Clone(t, c)
    \/ \E t \in Ids :
        \/ Exec(t)
        \/ \E range \in Ranges : MmapNoExec(t, range)
        \/ \E range \in Ranges, off \in Offsets : Mmap(t, range, off)
        \/ \E s \in Sampled : CpuSample(t, s[1], s[2])
        \/ CswitchSample(t) \/ SwitchOut(t) \/ SwitchIn(t)
        \/ Exit(t)
    \/ \E s \in Sampled : OutsideSample(s[1], s[2])
    \/ OutsideFork \/ OutsideOther

EnvStep ==
    \/ \E p \in Ids : EnvComm(p) \/ EnvRead(p)
    \/ \E r \in env.regions : EnvWrite(r)

Next == KernelStep \/ EnvStep \/ Export

Spec == Init /\ [][Next]_vars

-----------------------------------------------------------------------------
(* Properties.                                                             *)

(* Whether a lookup can tell the mapping of a sample: what was in its page *)
(* had been reported, for the process or before a fork for its parent, no  *)
(* region was reported after it had changed, and the address is not the    *)
(* last of a mapping (where the scan and the lookup differ when mappings   *)
(* overlap).                                                               *)
Reported(e, s) ==
    /\ s.at # NoPage
    /\ \A i \in DOMAIN e.maps : ~e.maps[i].stale
    /\ Len(e.maps) >= MinLookup => \A i \in DOMAIN e.maps : e.maps[i].end # s.ip

(* A sample finds, by its address and time, the mapping that held the code *)
(* it ran: across forks, execs, mappings over mappings, the scan and the   *)
(* lookup, and the order that the replay sorts the mappings into.          *)
SampleFindsItsMapping ==
    phase = "done" =>
        \A p \in DOMAIN procs : \A i \in DOMAIN procs[p].samples :
            LET e == procs[p]
                s == e.samples[i]
                found == FindIndex(e.maps, s.ip, s.time)
            IN  Reported(e, s) =>
                    /\ found # 0
                    /\ e.maps[found].file = s.at.file
                    /\ e.maps[found].off + (s.ip - e.maps[found].start) = s.at.off

(* A sample's address resolves to the symbol of its file, or of the        *)
(* kernel, that covers it, and to none when none does: the symbols that    *)
(* were kept for a mapping are those its samples need.  (A kernel symbol   *)
(* is not kept for its last address.)                                      *)
SymbolsResolve ==
    phase = "done" =>
        \A p \in DOMAIN procs : \A i \in DOMAIN procs[p].samples :
            LET e == procs[p]
                s == e.samples[i]
                name == ImportIp(e.maps, s.ip, s.time)
                inFile == {f \in FileSymbols : s.at.off \in f.start .. f.end}
                inKernel == {k \in KernelSymbols(Kallsyms) : s.ip \in k.start .. k.end}
            IN  /\ Reported(e, s) /\ e.root =>
                        {name} \ {0} = {f.name : f \in inFile}
                /\ s.ip >= KERNEL_START /\ (\A k \in inKernel : k.end # s.ip) =>
                        {name} \ {0} = {k.name : k \in inKernel}

(* A recorded wait is one that its thread really had: it starts with the   *)
(* thread's last switch out and has that switch's call chain, in whichever *)
(* order the two records came (unless the id had another owner before).    *)
WaitIsReal ==
    \A p \in DOMAIN procs : \A i \in DOMAIN procs[p].samples :
        procs[p].samples[i].real \/ procs[p].samples[i].tid \in reused

(* The replay gives every sample and every mapping of every process once,  *)
(* at its time and in the order of time over all processes, however many   *)
(* share a time, and reports the creation and the exit of each process.    *)
ReplayExact ==
    phase = "done" =>
        /\ \A i, j \in DOMAIN log : i < j => log[i].time <= log[j].time
        /\ \A p \in DOMAIN procs :
            LET rounds(T(_)) == {i \in DOMAIN log :
                                    \E c \in log[i].calls : c.pid = p /\ T(c)}
            IN  /\ \A k \in DOMAIN procs[p].samples :
                    LET at == rounds(LAMBDA c : c.sample = k)
                    IN  /\ Cardinality(at) = 1
                        /\ \A i \in at : log[i].time = procs[p].samples[k].time
                /\ \A k \in DOMAIN procs[p].maps :
                    LET at == rounds(LAMBDA c : c.map = k)
                    IN  /\ Cardinality(at) = 1
                        /\ \A i \in at : log[i].time = procs[p].maps[k].time
                /\ procs[p].create # 0 <=> rounds(LAMBDA c : c.created) # {}
                /\ procs[p].exit # 0 <=> rounds(LAMBDA c : c.exited) # {}
=============================================================================

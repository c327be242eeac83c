----------------------------- MODULE PerfBuild ------------------------------
(***************************************************************************)
(* Building a perf session and the descriptors it owns:                    *)
(* RingBufSessionBuilder and RingBufDataSource::build, add_cpu_bufs,       *)
(* add_event and create_bpf_files of perf_event/rb/source.rs, CpuRingBuf   *)
(* (open, redirect_to, enable, disable, set_filter, drop) of rb/mod.rs,    *)
(* and PerfSession's add_event, attach_to_bpf_map_id, enable, disable and  *)
(* drop of perf_event/mod.rs.                                              *)
(*                                                                         *)
(* The kernel's side is two tables: which file a descriptor refers to      *)
(* (fdt: a perf event's id, a BPF map, somebody else's file, or nothing)   *)
(* and the perf events (ev).  As in POSIX an open gets the lowest free     *)
(* descriptor.  Every call into the kernel may fail.                       *)
(***************************************************************************)
EXTENDS Integers, Sequences, SequencesExt, FiniteSets, FiniteSetsExt

CONSTANTS
    NumCpus,     \* cpu_count()
    Pids,        \* the task ids that may be targeted
    Kinds,       \* the optional builders used: subset of SampledKinds etc.
    MaxOptions,  \* bound: calls of the builder
    MaxFds,      \* descriptors the process may open
    MaxCalls     \* bound: calls of the session's interface

ASSUME NumCpusAssumption == NumCpus \in Nat \ {0}
ASSUME PidsAssumption == Pids \subseteq Nat \ {0}
ASSUME MaxFdsAssumption == MaxFds \in Nat

CPUs == 1 .. NumCpus
Fds == 1 .. MaxFds
AllCpus == [c \in CPUs |-> c]

(* The order in which build() goes through the optional builders; event    *)
(* and bpf buffers are opened by later calls.                              *)
SampledKinds == <<"profiling", "cswitch", "soft", "hard">>

ASSUME KindsAssumption == Kinds \subseteq ToSet(SampledKinds) \cup {"event", "bpf"}

VARIABLES
    opts,     \* the builder's options
    phase,    \* what the session's thread is doing
    order,    \* the source's target_pids after tasks_for_pids
    todo,     \* buffers the current add_cpu_bufs loops have still to open
    cur,      \* the add_event or attach call that is running
    fdt,      \* the descriptor table of the process
    ev,       \* the perf events created so far; an event's id is its index
    bufs,     \* ring_bufs: the id and the descriptor of each CpuRingBuf
    leader,   \* leader_ids (and cpu_to_reader_index): CPU to id
    files,    \* bpf_map_files: the descriptor each File owns
    toSwitch, \* ids that the current enable or disable has left
    enabled,  \* RingBufDataSource.enabled
    calls     \* history: calls of the session's interface

kernelVars == <<fdt, ev>>
sourceVars == <<bufs, leader, files>>
vars == <<opts, phase, order, todo, cur, kernelVars, sourceVars, toSwitch,
          enabled, calls>>

Free == 0
BpfMap == -1
Foreign == -2

NoCall == [fd |-> 0, got |-> << >>, filter |-> FALSE, before |-> {}]

Init ==
    /\ opts = [calls |-> 0, pids |-> {}, cpus |-> {}, kinds |-> {},
               pages |-> 1, watermark |-> 0]
    /\ phase = "builder"
    /\ order = << >> /\ todo = << >> /\ cur = NoCall
    /\ fdt = [f \in Fds |-> Free] /\ ev = << >>
    /\ bufs = {} /\ leader = << >> /\ files = << >>
    /\ toSwitch = {} /\ enabled = FALSE /\ calls = 0

-----------------------------------------------------------------------------
(* The builder.  A builder hook makes the same calls, at build's start.    *)
Option(new) ==
    /\ phase = "builder" /\ opts.calls < MaxOptions
    /\ opts' = [new EXCEPT !.calls = opts.calls + 1]
    /\ UNCHANGED <<phase, order, todo, cur, kernelVars, sourceVars, toSwitch,
                   enabled, calls>>

WithTargetPid(p) == Option([opts EXCEPT !.pids = @ \cup {p}])

WithTargetCpu(c) == Option([opts EXCEPT !.cpus = @ \cup {c}])
WithPageCount(n) == Option([opts EXCEPT !.pages = n])
WithWakeupWatermark(b) == Option([opts EXCEPT !.watermark = b])
WithEvents(k) == Option([opts EXCEPT !.kinds = @ \cup {k}])
TakeEvents(k) == k \in opts.kinds /\ Option([opts EXCEPT !.kinds = @ \ {k}])

(* ring_data_bytes, in pages: the next power of two.                       *)
RingData(pages) == Min({2 ^ i : i \in {j \in 0 .. pages : 2 ^ j >= pages}})

-----------------------------------------------------------------------------
(* The loops of build and add_cpu_bufs, as the sequence of buffers that    *)
(* they open.  Process 0 stands for "any process" (pid -1).                *)
Loop(kind, pids, cpus) ==
    FlattenSeq([i \in 1 .. Len(pids) |->
        [j \in 1 .. Len(cpus) |->
            [kind |-> kind, pid |-> pids[i], cpu |-> cpus[j]]]])

Targets(pids) == IF pids = << >> THEN <<0>> ELSE pids

Masked(mask) == IF mask = {} THEN AllCpus
                ELSE SelectSeq(AllCpus, LAMBDA c : c \in mask)

(* The kernel's buffers come first and on every CPU: the first on a CPU is *)
(* its leader.                                                             *)
BuildPlan(pids) ==
    Loop("kernel", Targets(pids), AllCpus) \o
    FlattenSeq([i \in 1 .. Len(SampledKinds) |->
        IF SampledKinds[i] \in opts.kinds
        THEN Loop(SampledKinds[i], Targets(pids), Masked(opts.cpus))
        ELSE << >>])

BuildRejected ==
    /\ phase = "builder"
    /\ opts.watermark >= RingData(opts.pages)
    /\ phase' = "gone"
    /\ UNCHANGED <<opts, order, todo, cur, kernelVars, sourceVars, toSwitch,
                   enabled, calls>>

(* The tasks of the target pids: the pids, and what procfs lists for them. *)
TasksForPids ==
    IF opts.pids = {} THEN {{}}
    ELSE {tasks \in SUBSET Pids : opts.pids \subseteq tasks}

(* build: tasks_for_pids leaves the tasks in the order of a hash set.      *)
Build(pids) ==
    /\ phase = "builder"
    /\ opts.watermark < RingData(opts.pages)
    /\ order' = pids
    /\ todo' = BuildPlan(pids)
    /\ phase' = "building"
    /\ UNCHANGED <<opts, cur, kernelVars, sourceVars, toSwitch, enabled, calls>>

-----------------------------------------------------------------------------
FreeFds == {f \in Fds : fdt[f] = Free}
LowestFd == Min(FreeFds)
(* The CPU has a leader.                                                   *)
Led(cpu, id) == [c \in DOMAIN leader \cup {cpu} |-> IF c = cpu THEN id ELSE leader[c]]
Opening == phase \in {"building", "adding", "attaching"} /\ todo # << >>

(* Mutant of OpenBuffer: the buffer is put in ring_bufs by a later loop,   *)
(* which an error skips: only leaders are inserted at once.                *)
OpenBuffer_NotInserted ==
    /\ Opening /\ FreeFds # {}
    /\ LET t == Head(todo)
           id == Len(ev) + 1
           leads == t.cpu \notin DOMAIN leader
       IN  /\ ev' = Append(ev,
                [kind |-> t.kind, pid |-> t.pid, cpu |-> t.cpu,
                 out |-> IF leads THEN id ELSE leader[t.cpu],
                 on |-> FALSE, filtered |-> FALSE])
           /\ fdt' = [fdt EXCEPT ![LowestFd] = id]
           /\ leader' = IF leads THEN Led(t.cpu, id) ELSE leader
           /\ bufs' = IF leads \/ Len(todo) = 1
                      THEN bufs \cup {[id |-> id, fd |-> LowestFd]} ELSE bufs
           /\ cur' = [cur EXCEPT !.got = Append(@, id)]
    /\ todo' = Tail(todo)
    /\ UNCHANGED <<opts, phase, order, files, toSwitch, enabled, calls>>

(* Mutant of OpenBuffer: redirected to the first CPU's ring. *)
OpenBuffer_FirstLeader ==
    /\ Opening /\ FreeFds # {}
    /\ LET t == Head(todo)
           id == Len(ev) + 1
           leads == t.cpu \notin DOMAIN leader
       IN  /\ ev' = Append(ev,
                [kind |-> t.kind, pid |-> t.pid, cpu |-> t.cpu,
                 out |-> IF leads THEN id ELSE leader[1],
                 on |-> FALSE, filtered |-> FALSE])
           /\ fdt' = [fdt EXCEPT ![LowestFd] = id]
           /\ leader' = IF leads THEN Led(t.cpu, id) ELSE leader
           /\ bufs' = bufs \cup {[id |-> id, fd |-> LowestFd]}
           /\ cur' = [cur EXCEPT !.got = Append(@, id)]
    /\ todo' = Tail(todo)
    /\ UNCHANGED <<opts, phase, order, files, toSwitch, enabled, calls>>

(* One turn of the loops: open and read_id, then create_reader for a       *)
(* leader or redirect_to the CPU's leader, then the insertion in ring_bufs.*)
(* A perf event is created disabled (FLAG_DISABLED).                       *)
OpenBuffer ==
    /\ Opening /\ FreeFds # {}
    /\ LET t == Head(todo)
           id == Len(ev) + 1
           leads == t.cpu \notin DOMAIN leader
       IN  /\ ev' = Append(ev,
                [kind |-> t.kind, pid |-> t.pid, cpu |-> t.cpu,
                 out |-> IF leads THEN id ELSE leader[t.cpu],
                 on |-> FALSE, filtered |-> FALSE])
           /\ fdt' = [fdt EXCEPT ![LowestFd] = id]
           /\ leader' = IF leads THEN Led(t.cpu, id) ELSE leader
           /\ bufs' = bufs \cup {[id |-> id, fd |-> LowestFd]}
           /\ cur' = [cur EXCEPT !.got = Append(@, id)]
    /\ todo' = Tail(todo)
    /\ UNCHANGED <<opts, phase, order, files, toSwitch, enabled, calls>>

(* A call of the turn failed; a buffer it opened is dropped and closed.    *)
(* build's error drops the whole source, the session's calls return the    *)
(* error and keep what they opened, attach also closes the map.            *)
OpenFails ==
    /\ Opening
    /\ todo' = << >> /\ cur' = NoCall
    /\ phase' = IF phase = "building" THEN "dropping" ELSE "live"
    /\ fdt' = IF phase = "attaching" THEN [fdt EXCEPT ![cur.fd] = Free] ELSE fdt
    /\ UNCHANGED <<opts, order, ev, sourceVars, toSwitch, enabled, calls>>

(* build ends with the in-process ring and a buffer without a descriptor   *)
(* under id 0 for its records; enable, disable and drop pass over it, and  *)
(* it is left out of bufs.                                                 *)
BuildDone ==
    /\ phase = "building" /\ todo = << >>
    /\ phase' = "live" /\ cur' = NoCall
    /\ UNCHANGED <<opts, order, todo, kernelVars, sourceVars, toSwitch, enabled,
                   calls>>

-----------------------------------------------------------------------------
(* The session's interface.                                                *)
Call == phase = "live" /\ calls < MaxCalls /\ calls' = calls + 1

(* add_event: without a tracepoint builder there is nothing to open.       *)
AddEvent(noCpuMask, filter) ==
    /\ Call
    /\ IF "event" \in opts.kinds
       THEN /\ todo' = Loop("event", Targets(order),
                            Masked(IF noCpuMask THEN {} ELSE opts.cpus))
            /\ cur' = [NoCall EXCEPT !.filter = filter,
                                     !.before = {b.id : b \in bufs}]
            /\ phase' = "adding"
       ELSE UNCHANGED <<todo, cur, phase>>
    /\ UNCHANGED <<opts, order, kernelVars, sourceVars, toSwitch, enabled>>

(* The filter is set on the buffers that are new since the call began; a   *)
(* failure is only logged.  (A filter string with a NUL is an error, with  *)
(* the same effect as when it fails on every buffer.)                      *)
AddEventDone(failed) ==
    /\ phase = "adding" /\ todo = << >>
    /\ ev' = [i \in DOMAIN ev |->
                IF cur.filter /\ i \notin failed
                   /\ i \in {b.id : b \in bufs} \ cur.before
                THEN [ev[i] EXCEPT !.filtered = TRUE] ELSE ev[i]]
    /\ phase' = "live" /\ cur' = NoCall
    /\ UNCHANGED <<opts, order, todo, fdt, sourceVars, toSwitch, enabled, calls>>

(* attach_to_bpf_map_id (or _path): the map's descriptor, then the files.  *)
AttachToBpfMap(noCpuMask) ==
    /\ Call /\ FreeFds # {}
    /\ fdt' = [fdt EXCEPT ![LowestFd] = BpfMap]
    /\ cur' = [NoCall EXCEPT !.fd = LowestFd]
    /\ todo' = IF "bpf" \in opts.kinds
               THEN Loop("bpf", Targets(order),
                         Masked(IF noCpuMask THEN {} ELSE opts.cpus)) ELSE << >>
    /\ phase' = "attaching"
    /\ UNCHANGED <<opts, order, ev, sourceVars, toSwitch, enabled>>

(* bpf_set_map_element for the next file: a File takes the descriptor.     *)
SetMapElement ==
    /\ phase = "attaching" /\ todo = << >> /\ cur.got # << >>
    /\ files' = Append(files, cur.fd)
    /\ cur' = [cur EXCEPT !.got = Tail(@)]
    /\ UNCHANGED <<opts, phase, order, todo, kernelVars, bufs, leader, toSwitch,
                   enabled, calls>>

SetMapElementFails ==
    /\ phase = "attaching" /\ todo = << >> /\ cur.got # << >>
    /\ fdt' = [fdt EXCEPT ![cur.fd] = Free]
    /\ phase' = "live" /\ cur' = NoCall
    /\ UNCHANGED <<opts, order, todo, ev, sourceVars, toSwitch, enabled, calls>>

AttachDone ==
    /\ phase = "attaching" /\ todo = << >> /\ cur.got = << >>
    /\ phase' = "live" /\ cur' = NoCall
    /\ UNCHANGED <<opts, order, todo, kernelVars, sourceVars, toSwitch, enabled,
                   calls>>

(* enable and disable: one ioctl per buffer, in the order of a hash map.   *)
Switch(to) ==
    /\ Call
    /\ phase' = to
    /\ toSwitch' = {b.id : b \in bufs}
    /\ UNCHANGED <<opts, order, todo, cur, kernelVars, sourceVars, enabled>>

SwitchBuffer(b) ==
    /\ phase \in {"enable", "disable"} /\ b \in bufs /\ b.id \in toSwitch
    /\ fdt[b.fd] \in DOMAIN ev
    /\ ev' = [ev EXCEPT ![fdt[b.fd]].on = (phase = "enable")]
    /\ toSwitch' = toSwitch \ {b.id}
    /\ UNCHANGED <<opts, phase, order, todo, cur, fdt, sourceVars, enabled, calls>>

SwitchFails ==
    /\ phase \in {"enable", "disable"} /\ toSwitch # {}
    /\ phase' = "live" /\ toSwitch' = {}
    /\ UNCHANGED <<opts, order, todo, cur, kernelVars, sourceVars, enabled, calls>>

SwitchDone ==
    /\ phase \in {"enable", "disable"} /\ toSwitch = {}
    /\ enabled' = (phase = "enable")
    /\ phase' = "live"
    /\ UNCHANGED <<opts, order, todo, cur, kernelVars, sourceVars, toSwitch, calls>>

-----------------------------------------------------------------------------
(* Dropping the session: the readers and the buffers of the source, then   *)
(* bpf_map_files, one close at a time.                                     *)
DropSession ==
    /\ phase = "live"
    /\ phase' = "dropping"
    /\ UNCHANGED <<opts, order, todo, cur, kernelVars, sourceVars, toSwitch,
                   enabled, calls>>

DropBuffer(b) ==
    /\ phase = "dropping" /\ b \in bufs
    /\ fdt' = [fdt EXCEPT ![b.fd] = Free]
    /\ bufs' = bufs \ {b}
    /\ UNCHANGED <<opts, phase, order, todo, cur, ev, leader, files, toSwitch,
                   enabled, calls>>

DropFile ==
    /\ phase = "dropping" /\ bufs = {} /\ files # << >>
    /\ fdt' = [fdt EXCEPT ![Head(files)] = Free]
    /\ files' = Tail(files)
    /\ UNCHANGED <<opts, phase, order, todo, cur, ev, bufs, leader, toSwitch,
                   enabled, calls>>

(* Mutant of DropDone: only the buffers that have a reader are closed. *)
DropDone_Leaders ==
    /\ phase = "dropping" /\ files = << >>
    /\ \A b \in bufs : ev[b.id].out # b.id
    /\ phase' = "gone"
    /\ UNCHANGED <<opts, order, todo, cur, kernelVars, sourceVars, toSwitch,
                   enabled, calls>>

DropDone ==
    /\ phase = "dropping" /\ bufs = {} /\ files = << >>
    /\ phase' = "gone"
    /\ UNCHANGED <<opts, order, todo, cur, kernelVars, sourceVars, toSwitch,
                   enabled, calls>>

(* Another thread of the process opens a file (external).                  *)
ForeignOpen ==
    /\ phase \in {"live", "dropping"} /\ FreeFds # {}
    /\ Foreign \notin {fdt[f] : f \in Fds}
    /\ fdt' = [fdt EXCEPT ![LowestFd] = Foreign]
    /\ UNCHANGED <<opts, phase, order, todo, cur, ev, sourceVars, toSwitch,
                   enabled, calls>>

-----------------------------------------------------------------------------
BuilderStep ==
    \/ \E p \in Pids : WithTargetPid(p)
    \/ \E c \in CPUs : WithTargetCpu(c)
    \/ \E n \in {1, 2} : WithPageCount(n)
    \/ \E b \in {0, 1} : WithWakeupWatermark(b)
    \/ \E k \in Kinds : WithEvents(k) \/ TakeEvents(k)
    \/ BuildRejected
    \/ \E tasks \in TasksForPids : \E pids \in SetToSeqs(tasks) : Build(pids)

SessionStep ==
    \/ OpenBuffer \/ OpenFails \/ BuildDone
    \/ \E failed \in SUBSET {b.id : b \in bufs} : AddEventDone(failed)
    \/ SetMapElement \/ SetMapElementFails \/ AttachDone
    \/ \E b \in bufs : SwitchBuffer(b) \/ DropBuffer(b)
    \/ SwitchFails \/ SwitchDone
    \/ DropFile \/ DropDone

CallStep ==
    \/ \E noCpuMask, filter \in BOOLEAN : AddEvent(noCpuMask, filter)
    \/ \E noCpuMask \in BOOLEAN : AttachToBpfMap(noCpuMask)
    \/ Switch("enable") \/ Switch("disable")
    \/ DropSession

Next == BuilderStep \/ SessionStep \/ CallStep \/ ForeignOpen

Spec == Init /\ [][Next]_vars

-----------------------------------------------------------------------------
(* Properties.                                                             *)

(* Whatever fails in between, a perf event that records has its id in      *)
(* ring_bufs, under a descriptor that is still its own: read_time can      *)
(* resolve every record that reaches a ring, and disable() reaches every   *)
(* event that enable() started.                                            *)
RecordingIsKnown ==
    \A i \in DOMAIN ev :
        (\E f \in Fds : fdt[f] = i) =>
            \E b \in bufs : b.id = i /\ fdt[b.fd] = i

(* Every buffer's records go to the ring of its own CPU, one that has a    *)
(* reader: the leader was opened there before, and leads itself.           *)
OwnCpuRing ==
    \A b \in bufs :
        LET out == ev[b.id].out
        IN  /\ ev[b.id].cpu \in DOMAIN leader
            /\ out = leader[ev[b.id].cpu]
            /\ ev[out].cpu = ev[b.id].cpu /\ ev[out].out = out

(* However far build() or a call got before it failed, a session that is   *)
(* gone has closed every perf descriptor it opened.                        *)
NoPerfFdLeaks ==
    phase = "gone" => \A f \in Fds : fdt[f] \notin DOMAIN ev
=============================================================================

# one_collect: a TLA+ verification

`one_collect` collects events of a machine (perf_event on Linux, ETW on
Windows), groups them by process and exports them to trace formats; `record-trace`
is the command line tool and C library on top of it, `ruwind` the stack unwinder.
This directory holds TLA+ models of it, the TLC runs that check them on
small instances, and TLAPS proofs of what matters most. Paths below are under
`src/`.

Contents: [the system](#the-system), [modules](#modules-and-the-code-they-model),
[runs](#runs), [bounds](#bounds), [fairness](#fairness), [proofs](#proofs),
[findings](#findings), [known differences](#known-differences),
[not modelled](#not-modelled), [plan](#plan).

## The system

| part | state it keeps | operations | what makes it correct |
|---|---|---|---|
| perf ring buffer (`one_collect/src/perf_event/rb/mod.rs`) | a data area, `data_head`, `data_tail`; the writer's `head` and `lost_count`; the reader's cursor | `write`, `write_raw`, `flush`; `begin_reading`, `read`, `peek_*`, `end_reading` | records are whole, in order, once; what is dropped is counted and reported |
| data source (`rb/source.rs`) and parse loops (`perf_event/mod.rs`) | leaders per CPU, ring buffers by id, cursors, `oldest_cpu`, `next_time`, `enabled` | `enable`, `disable`, `begin_reading`, `read`, `end_reading`, `more`; `parse_until`, `parse_all`, `parse_for_cpu` | rings are merged in time order, nothing is lost or repeated, drains end and are complete |
| session building (`rb/source.rs`, `rb/mod.rs`, `perf_event/mod.rs`) | builder options, open perf events and their outputs, BPF map files | the builder's `with_*`, `build`, `add_event`, `attach_to_bpf_map*`, drop | each event outputs to its own CPU's leader, every fd is known and closed once |
| perf ABI and decoding (`perf_event/abi.rs`, `perf_event/mod.rs`) | the ranges of the shared sample fields | `parse_perf_data`, `read_time`, `Header::write` | every field is read where the producer put it |
| event formats (`event/mod.rs`, `event/os/linux.rs`) | field lists, filter closures | `try_get_field_data_closure`, `get_field_data_skips`, `try_get_field_filter_closure` | data of a field is that field's bytes; filters decide as their operators say |
| capture on Linux (`helpers/exporting/os/linux.rs`) | session, environment thread, in-process ring, hooks | `os_parse_until` | the capture ends, and when it succeeds everything recorded was parsed |
| tables (`intern.rs`, `helpers/exporting/{attributes,record,span,mod}.rs`) | interned slices, attributes and caches, records and their types, spans | `to_id`, `from_id`, `push_unique_attributes`, `make_sample`, ... | a sample's ids lead back to the values of its event |
| export machine (`helpers/exporting/{mod,process,mappings,lookup}.rs`) | process table, samples, mappings by address and time | fork, comm, exec, mmap, exit, sample, replay | each sample belongs to the process and mapping that were live at its time |
| symbols (`helpers/exporting/{symbols,pe_file,process}.rs`, `os/linux.rs`, `ruwind/elf.rs`) | metadata of mapped files, methods reported by runtimes | `capture_and_resolve_symbols`, `needs_dynamic_symbol` | names are of the build that ran, and are found where there are any |
| formats (`helpers/exporting/formats/*`, `graph.rs`) | nettrace blocks and ids, pprof tables, graph nodes | write | the file reads back as what was replayed |
| callstack helper (`helpers/callstack`) | unwinder, processes and modules, open files | record callbacks, `read_frames` | kernel and user frames of one sample are joined, in order |
| ruwind (`ruwind/src`) | modules by address, cached frame rules | fork, add module, unwind | the frames are the active calls |
| .NET helper (`helpers/dotnet`) | perf map and user_events trackers with a thread and a channel each; providers, tracepoints, metadata by process | subscribe, record, enable, disable, the handler of a tracepoint | what was turned on is turned off; events reach their subscribers with their own data |
| `record-trace` engine (`record-trace/engine`) | `continue_recording`, the memory monitor | `Recorder::run` | a stopped recording returns, and leaves nothing behind |
| ETW session (`one_collect/src/etw`) | session handle, providers, callbacks | enable, parse, stop | the operating system's |
| tracefs, procfs, openat, user_events | open directories, registered events | read, register | file access |
| scripting, PE reader, ffi | | | glue, file parsing |

**How they interact.** `PerfSession` owns a `PerfDataSource`, which on Linux is the
`RingBufDataSource`: one leader ring per CPU that the kernel fills, further
perf events whose output is redirected to the leader of their CPU, and
optionally one more ring that a thread of the program itself fills (the
*in-process ring*). A parse loop asks the source for the record with the
smallest time, decodes it according to the attributes of the event that wrote it,
and calls the callbacks registered for it. The exporter's callbacks build the
export machine; the callstack helper's keep the modules of each process and unwind
the copied stacks; the .NET trackers' send the ids of processes that announce a
runtime to their worker threads, which talk to the runtimes over their sockets. The
environment thread (`os_parse_until`) describes the processes that already run by
writing comm and mmap records to the in-process ring while the main thread parses.
`Recorder::run` puts all of it together, joins its threads, and then resolves
symbols and writes the output.

**What is hard about it.** Two threads, or a thread and the kernel, share memory
without a lock, ordered only by the head and tail positions. Rings fill while
they are being merged. A full ring makes the writer wait, time out and drop. The
capture's shutdown orders several things (stop recording, end the writer, drain, stop
the trackers, clean up) and each can fail. Processes come and go, and their ids are used again, while
three threads act on what they remember of them. The layout of a record is computed
twice, for merging and for callbacks, from options that builders set. Ids and
descriptors live in several tables that must agree after a call that failed half way,
and the tables of a file start anew in the middle of a write. Files are looked up by
name long after the code ran. `PROJECT.json` lists every such hazard at its line, with
the properties that cover it.

## Modules and the code they model

| module | models | notes |
|---|---|---|
| `LossyQueue` | what a ring promises: a FIFO queue that may drop a record, and reports drops in a *lost* record | abstract specification |
| `PerfRing` | `rb/mod.rs`: `InProcessRingBufWriter` against `CpuRingReader` and `CpuRingCursor` | refines `LossyQueue` |
| `PerfRing_proofs` | theorems about `PerfRing` | TLAPS |
| `PerfSource` | `rb/source.rs` merge, `perf_event/mod.rs` parse loops | |
| `CaptureSession` | `os_parse_until`: extends `PerfSource`; one of its rings is the in-process ring | composition |
| `CaptureSession_proofs` | theorems about `PerfSource` and about the composition | TLAPS |
| `PerfBuild` | opening, redirecting, switching and closing perf events; BPF maps | |
| `PerfBuild_proofs` | theorems about `PerfBuild` | TLAPS |
| `EventFormat` | the closures of `event/mod.rs` as pure operators with a reference definition beside each | |
| `PerfDecode` | `parse_perf_data`, `read_time`, dispatch; extends `EventFormat` | `MCData` |
| `PerfDecode_proofs` | theorems about `PerfDecode` | TLAPS |
| `ExportLookup` | `mappings.rs`, `lookup.rs`, the kernel's symbols, `import_ip` | operators |
| `ExportReplay` | `replay_by_time` and the replay of a process | operators |
| `ExportMachine` | the exporter's Linux callbacks, the process table, symbol resolution; extends the two before | `MCExport` |
| `ExportMachine_proofs` | theorems about `ExportReplay`'s sort and loop, the lookup of `ExportLookup`, and the waits, mappings, symbols and replay of `ExportMachine` | TLAPS |
| `TraceTables` | `intern.rs`, `attributes.rs`, `record.rs`, `span.rs`, `make_sample` | operators |
| `NetTrace` | `formats/nettrace.rs`: the writer's blocks, ids and labels | operators |
| `ExportGraph` | `graph.rs`, `formats/pprof.rs`, `formats/perf_view.rs` | operators |
| `ExportFormats` | from a traced event to the files: composes `TraceTables`, `ExportReplay`, `NetTrace`, `ExportGraph` | `MCData` |
| `Dwarf` | `ruwind/dwarf.rs`, the load headers of `elf.rs`: tables and call frame instructions | operators |
| `Unwind` | `ruwind/x64unwinder.rs`, `process.rs`, `module.rs` | operators |
| `CallstackReader` | `helpers/callstack/os/linux.rs`, `ruwind/machine.rs`: extends `Unwind` | `MCUnwind` |
| `CallstackReader_proofs` | theorems about `Unwind`'s loop and `CallstackReader` | TLAPS |
| `LocalSymbols` | names from ELF files, debug files, ReadyToRun and perf maps, and reported methods; extends `ExportLookup` | `MCSymbols` |
| `DotNetMeta` | `helpers/dotnet/nettrace.rs`: labels of an extension, the metadata of an event | operators |
| `DotNetFields` | `helpers/dotnet/nettrace.rs`: the blob of an event's fields, its parser and what the runtime writes | operators |
| `DotNetEvents` | `helpers/dotnet/os/linux.rs`: subscriptions, tracepoints, the handler; extends `DotNetMeta`; the two of `DotNetFields` are its constants | `MCDotNet` |
| `DotNetEvents_proofs` | theorems about `DotNetEvents` | TLAPS |
| `Recorder` | `record-trace/engine/src/recorder.rs`, the capture as it sees it, the trackers of `helpers/dotnet/os/linux.rs` | |
| `Recorder_proofs` | theorems about `Recorder` | TLAPS |

**PerfRing.** Each statement that touches shared memory is an action of its own: the
writer loads the tail, waits, copies one cell per step, publishes the head; the
reader loads the head, reads the header, looks at one cell per step, stores
the tail. A cell is the 8 bytes to which a record is aligned. The
release/acquire pairs of the code appear as the order of these steps; the
positions are natural numbers, so the model does not show a wrap of the 64-bit
counter, which at a gigabyte per second takes centuries. `wpc` and `rpc`
are the program counters of the two threads. `written`, `starts`, `delivered` and
`dropped` are history variables, read by properties only.
`wait_for_space` may give up at any moment while there is no room: how long 100 ms are
is not modelled.

**PerfSource.** A ring is its queue of records (a time, and whether `read_time`
can resolve the record), a tail and a cursor. The kernel appends to any ring
between any two steps of the source. `begin_reading` looks at one ring at
a time and then calls `find_current_buffer`, whose loop is one step per reader too: its three
local variables are the record `find`, and a kernel record may arrive between two turns. The ring's internals are those of `PerfRing`, which is why a ring may be a queue
here. `enable()` and `disable()` may fail after any of their
ioctls.

**CaptureSession.** Adds the in-process ring's capacity, the environment thread and
the statements of `os_parse_until` in order, with their early returns. The time of
an in-process record is the clock at the moment the record is made, before the writer
waits for room. Padding is modelled by what it does to the time that
`read_time` decodes.

**PerfBuild.** Descriptors are numbers the kernel hands out, lowest free first, and
another thread may open a file at any moment. Any open, redirect, ioctl or
map update may fail. The per-CPU loops are one action per CPU.

**EventFormat and PerfDecode.** A record is a sequence of labelled bytes, so that
"the field was read at the right place" is an equation between sequences. The
producer's layout is written from the kernel's order of sample fields as the
repository's constants enumerate it, the decoder's from the code; the two are
compared for every attribute combination that a builder can ask for. Data closures are
compared with a reference layout of the payload, filters with the meaning of their
operators. Readings of the same record follow one another, since the shared
fields' ranges survive from one record to the next.

**ExportLookup, ExportReplay and ExportMachine.** The kernel is modelled beside the exporter, as far
as the exporter's callbacks depend on it: threads that run, wait, exit and whose ids are
reused, processes that fork and exec, and which file each page of a process holds.
Every record it produces runs the callback at once, in the order of time (that the merge
delivers them so is what `PerfSource` is about; the wrong time of a padded record
is left out here, and so are lost records). The environment thread's two
passes run beside it, and a region it has read may change before its record is written.
Each sample remembers, as history, the page it was taken in if a record had told of that
page; that is what `SampleFindsItsMapping` and `SymbolsResolve` compare the
lookups with. `Export` is what happens after a capture: `capture_and_resolve_symbols`, then the replay
whose rounds are computed by a recursive function. A stable sort is given by rank: the element at place `k`
is the one with `k` elements not after it. The lookup of a process is never
state: nothing looks up a mapping before the capture is over, and every mutable access to
the mappings clears the lookup. A sample's address stands for all frames of its chain.

**TraceTables, NetTrace, ExportGraph and ExportFormats.** Three phases: events are traced,
in any order, each running the whole sample callback (sources of attributes, filter hook, interning,
record, span); the nettrace file is written from the replay; the graph of a process and
kind is built, one sample at a time. A block is full after three events, so that it is
flushed at events of every kind. A string is a slice, as a call chain is, and all slices of one length have
one hash, so that the buckets of the interning are really searched. `ReadFile` is an
independent reader of the format: it keeps the tables a reader keeps and forgets them at
the block that says so, and what it gives back is compared with what was replayed.
Numbers and strings of the files are values, not bytes.

**Dwarf, Unwind and CallstackReader.** Files are records of load headers, sections, entries and call frame
instructions; the stack is a sequence of words whose contents follow from the calls that are active
(`frame` says how a function keeps its frame). Beside the code run the processes that map, fork, exec
and exit and the threads that call. A sample takes the registers, a copy of the stack of one of two sizes
and, as history, the truth. The unwinder is the code's loop: by the rules of the module,
by the chain of frame pointers, by the scan for a return address, with the recovery from an address in no
module. `GarbageSafe` runs it on stacks of any words.

**LocalSymbols.** A disk has a file, or none, in each of the places that `find_symbol_files` looks at, of
this build, another build, no build id, or no ELF file; a package may be upgraded between the reading of the
metadata and the resolution (an upgrade before is a disk to start with). Samples, reported methods, a rundown and mappings come in any order before.

**DotNetMeta, DotNetFields and DotNetEvents.** A script subscribes by id or by name, or records providers by keywords; the
settings hook makes tracepoints of that. Then events come, on any tracepoint whose filter they pass, of processes that number their events
each in its own way; metadata precedes an event, cut, lost or repeated, and a process id
may pass to another process. The handler is one action: extension, metadata, the proxy
events' callbacks, the record, and the clearing of what it set in the shared sampler. The metadata's name and its blob of fields
get an id each, in the order in which they are first seen (`eventNames`, `layouts`); a record's type is looked up by process and event id
(`types`, the code's `record_types`), then by `format_key`, the ids of name and format (`formats`, `record_formats`), and made when both
fail, so that processes with the same event share its type. `TopBit` stands for 1 << 31, which keeps the ids of events
without a name apart from those of names. The code has such tables for each tracepoint and each recorded provider; only the default tracepoint has names and
formats, and the tables of all recorded providers of one model are equal, so each is one variable. Fields nest, so their parser is
recursive; `DotNetEvents` has it as the constant operators `ReadFields`, `WriteFields` and `Layout`, which
`MCDotNet` gives the definitions of `DotNetFields`, and `TableAssumption` says what is needed of them: what the
runtime writes of an event is read as its layout.

**Recorder.** One recording from its arguments to its return. The main thread's statements are the actions of
`MainStep`, with each `?` a failure; the environment thread, the memory monitor and the two
workers are threads; a process has a diagnostics server that serves its connections in
their order, so that a worker that waits for an answer waits for whatever is ahead of it.
The rings are one bounded queue of marker records which the kernel and the environment thread fill and which
lose a record when full. What a record is otherwise is in the modules above.

## Runs

| run | shows |
|---|---|
| `ring` | for every interleaving, cell by cell: no torn read, positions never cross, the ring is a lossy queue that reports every drop once, `write()` returns, every published record is delivered |
| `source` | records are delivered once; the merge is in time order as far as a merge can be; drains leave no ring whose next record they could deliver; `parse_all` returns |
| `source_skips` (violation) | what lies behind a record that `read_time` rejects is never delivered |
| `session` | a successful capture leaves nothing in any ring and every capture ends, although main thread and environment thread wait for one another |
| `build` | with any kernel call failing: what records is known, outputs to its own CPU's ring, is closed in the end |
| `data` | sample fields, trailers, payload fields (whole and cut) and filters are decoded exactly; merging and callbacks see the same time; what the tables hold is what the events had; the nettrace file reads back as what was replayed, each block within the times it announces; graph, pprof and PerfView have every stack once with the value of its samples |
| `export` | across fork, exec, overlapping mappings and the snapshot: samples find the mapping and the symbol of their code, waits are real, the replay is complete and in order |
| `unwind` | frames are active calls, in order, and none is missing where the unwinder has what it needs; any words on the stack end the walk inside the modules |
| `symbols` | a sample is never named by another build; a symbol table that is in one of the places is found; generated code has its methods' names |
| `dotnet` | every subscriber gets its events once; records have the name and the layout of their event in the process that wrote it, although processes share the types; attributes and stacks are the event's own and as asked |
| `recorder` | on every way out of a recording: perf maps that were turned on are turned off and their files removed, those of the processes stay, tracepoints outlive the sessions that write to them, a stopped recording returns, a process that announces itself is enabled |
| `recorder_join` (violation) | a recording whose capture fails waits for its memory monitor for ever |

Each property is stated in words above its definition; each property of a passing
run has a mutant in `PROJECT.json`: a plausible slip in a modelled function
that TLC shows to violate the property.

To repeat a run: `tlc -workers 2 -config PerfRing_ring.cfg PerfRing`.

### Bounds

- `ring`: 8 cells and records of 2, 3 and 9 cells. A lost record has 6, so a record
  and a lost record fit together or do not, records wrap around the end of the area at
  every offset, and one record is larger than the ring. Five calls wrap it
  twice and allow a drop, a reported drop and a drop after it.
- `source`: two rings are what a merge needs (a smallest and a second smallest
  time); three records let a ring have a rejected record between or
  before others; three calls are each pair of operations and a drain after
  them. `BatchLimit` stands for the number of reads after which `parse_until`
  asks `until()` again.
- `source_skips`: two records of two rings, with a rejected one first, are enough for the counterexample.
- `session`: a ring of two records and four items to write: the writer must wait, before and
  after the parse loop has stopped reading.
- `build`: two CPUs (one can succeed while the other fails), two pids, two
  options and two calls, seven descriptors: enough for dummy, profiling and event
  buffers on both CPUs and a file of another thread.
- `data` composes nothing: `MCData` runs the behaviours of `PerfDecode` and of `ExportFormats`, one or the other. Of the decoder two records, of any two attribute combinations, so that every leftover
  from one layout to another is seen; formats of up to two fields, the first one any
  fixed or variable size, whole or cut at any byte.
  Of the formats three of six events that differ in every value a table keeps and share every
  such value with another; two processes, one with a page that is mapped anew; blocks of three events.
- `export`: two threads, hence one or two processes; four user addresses, half of which is
  mapped again at an offset that cuts a symbol; kernel addresses inside a symbol and in a data symbol;
  a lookup from two mappings on, so that both the scan and the lookup are used. Five
  records are what the longest case needs: the snapshot's region, a fork, the child's first switch-in, a
  mapping over the region and a sample.
- `unwind`: stacks of up to three calls of five functions (with rules, without,
  keeping a frame pointer or not, in a library, a DLL or a JIT's memory), at each
  point of the last one; three records of mappings, fork, exec and exit before; a cap of four
  frames, which the code has at 128, and copies that hold the whole stack or cut it.
  A walk of three calls has three frames and a fourth that is the closing 0, so it is compared whole, and with it what each of its steps hands to
  the next; the cap is met by stacks of any words only.
- `symbols`: three events before the resolution (a sample, a report, a second sample or a mapping is the
  longest case of a page cache gone stale), 66 disks, which vary one group of places at a time
  (binary and debug files; maps), and three upgrades.
- `dotnet`: three operations of a script and three events: metadata, the event, and one
  that must not see what they left behind; two processes and two ids, with a second owner of a process id. One event is
  in both processes, under different ids, so that the type one made serves the other; two events have one name and different fields.
- `recorder`: one process id with two processes one after the other and two
  markers, a ring of one record. The properties are about each process by itself; what one process does to another, by way
  of a worker's queue, is in the theorems, which hold for any set of ids.

`MaxWrites`, `MaxRecords`, `MaxCalls`, `MaxFds`, `MaxOptions`, `EnvItems`,
`MaxEvents`, `MaxFields`, `MaxSamples`, `MaxOps`, `MaxGen`, `MaxMarks`, `RingCap` are bounds of the models; none exists in the code.
`BatchLimit`, `MinLookup`, `FlushAt`, `MaxFrames`, `MaxChain`, `MaxScan`, `PageSize`, `MarkSize` are small values of limits the code has, `TopBit` of its 1 << 31.
All runs but `ring` stop when their bounds are exhausted or the program has returned, so deadlock is not an error there; the ring
run checks deadlock, since a finished ring idles by an action of its own.

### Fairness

- `PerfRing!FairSpec`: weak fairness of the writer's step, of the reader's step and of its
  `EndReading`. The two threads are scheduled by the operating system, neither holds a
  lock, and the parse loop calls `begin_reading` again after each pass.
- `PerfSource!FairSpec`: weak fairness of a parse call's next step and of the next step
  of enable/disable. Nothing is assumed of the kernel: it need never write.
- `CaptureSession!SFairSpec`: weak fairness of the main thread, of the environment thread
  and of `until()` eventually asking to stop: a capture that nobody
  stops need not end.
- `Recorder!Spec`: weak fairness of each thread. While it records, the main thread moves on its own only
  for a record to parse or a flag that is set: nobody need stop it. The
  diagnostics server of a process that runs serves its connections; a process that hangs is a known
  difference below. Processes need not start, announce themselves or exit.

## Proofs

`PerfRing_proofs` proves, for every ring size, every set of record lengths and
every number of writes (the assumptions are `SizeAssumption`,
`LensAssumption` and `MaxWritesAssumption`; the code's power-of-two size is not needed, since
the mask is a remainder):

| theorem | states |
|---|---|
| `Invariance` | `Spec => []Inv` |
| `TypeCorrect` | `Spec => []TypeOK` |
| `NoTornRead` | every cell that the consumer looks at is the next cell of the record whose header was read |
| `PositionsNeverCross` | `tail <= cursor <= head <= whead` and no more than one ring size apart |
| `ImplementsQueue` | `Spec => QueueSpec`: the ring implements `LossyQueue` |

`UntornRead` is not inductive: that the reader finds whole records depends on what
is in memory between tail and head, which depends on where records start, which
depends on the writer never passing the tail it last saw. `Inv` says exactly these:

- `WriterInv`: what the writer's local variables mean at each value of its program counter;
  after the check for room, the record in hand ends no more than `Size` after the tail.
- `LayoutInv`: records start at 0, each starts where the one before ends, the last ends at
  `head`.
- `MemoryInv`: every cell of a record that is not yet consumed is in memory at its
  position modulo `Size`, and so is every cell that `write_raw` has copied.
- `ReaderInv`: the cursor is at the start of the record after the last delivered one
  (or inside the record being read), and never beyond the head.

A copy of one cell touches one position; it cannot be the position of an unread
cell because two positions less than `Size` apart have different remainders. That
lemma (proved once and cited) carries the whole argument. The refinement maps the
queue to the published records that are not yet delivered; publishing the head is the
queue's put, advancing the cursor over a record is its get, giving up is its drop, and every other
step stutters.

The first half of `CaptureSession_proofs` proves of `PerfSource`, for any number of rings and records, with or without an in-process ring
(`NAssumption`, `EnvRingAssumption`, `KnownAssumption`, `BatchLimitAssumption`):

| theorem | states |
|---|---|
| `SourceInvariant` | `Spec => []` of `SourceInv`, `SortedInv` and `EnvRingEmpty` |
| `EachDeliveredOnce` | of every ring, the callbacks have been given exactly the known records of its consumed part, in order |
| `PassOldestFirst` | the action property `OldestFirst`: a record is delivered only when no older one waits where the pass can reach it |
| `StoppedSessionDrains` | the action property `ParseAllDrains`: a drain leaves no ring whose next record could be delivered |

Where the consumed part of a ring ends depends on the program counter: at the cursor while the ring is being read, at the tail otherwise.
So a pass must begin with each cursor at its tail (`BeginInv`) and the ring that `find_current_buffer` chooses must still have
its cursor there, although the loop may have moved the cursors of the other rings over records it rejects; that and
what `oldestTime` and `nextTime` bound after each turn is the loop invariant `FindInv`. `ReadInv` carries the bound of `next_time` through
the reads of the oldest ring, which is what the order rests on: the ring is left as soon as its next
record is not before `next_time`. `EmptyInv` and `QuietInv` (a stopped session's rings are as `begin_reading` saw them) give the drain.

Its second half proves of the composed specification `SSpec`, in which the environment thread fills the last ring
(`InProcessRingAssumption`: it is the one `build()` adds after the CPUs' rings; `PadsAssumption`: a record is padded to 8 bytes):

| theorem | states |
|---|---|
| `CaptureInvariant` | `SSpec => []SessionInv` |
| `CaptureDeliversOnce` | `DeliveredOnce`, with a ring that another thread fills meanwhile |
| `CaptureDrains` | a capture that succeeds has read every ring to its end or to a record that `read_time` rejects |
| `CaptureComplete` | `NothingLeftBehind`, when `Known` holds no `FALSE`: `read_time` resolves every record |

`SessionInv` is `SourceInv`, whose proof is reused step by step, and `StepInv`: what the main thread is inside of at each
statement of `os_parse_until`. The argument is the order of its statements. The drain begins when every kernel ring is off and the environment
thread has finished, so no ring grows under it. The hypothesis of
`CaptureComplete` is needed: behind a record that `read_time` rejects nothing is read (findings). That every record is resolved is
what `RecordingKnown` below proves of the session, as far as it is built by this program. The wrong time of padded records does not weaken it: `SourceInv` does not
depend on the order of a ring's times, only `SortedInv` does, which is of `PerfSource` alone.

`PerfDecode_proofs` proves, for every set of builders, number of registers and bytes of the stack, and any depths of call
chains, sizes of raw data and of other records (`SizesAssumption`: with the stack at least one byte is asked for;
`ValuesAssumption`: the kernel pads raw data to 8 bytes together with its size):

| theorem | states |
|---|---|
| `DecodeInvariant` | `Spec => []DecodeInv` |
| `FieldsAlwaysExact` | `FieldsExact`: each field of the last record is where the kernel wrote it, or unset |
| `MergeAlwaysSeesCallbackTime` | `MergeSeesCallbackTime`: `read_time` and the callback look at the same time and the same id |

A sample is the concatenation of eight parts that the attributes switch on and off, and the decoder passes over them with an offset
that depends on integers it reads on the way. `Agree` relates the two: after some of the pieces the offset is where they
end, the fields of these pieces are where they were written, and those passed over without a piece are unset. One lemma for each
part keeps it (`DecodedOne`, `DecodedThread`, `DecodedChain`, `DecodedRaw`, `DecodedRegs`, `DecodedStack`), the last piece gives `SampleDecoded`. An integer is
read back because pieces with an integer are not empty, so no two of them start at one place (`IntAt`); a
field because no field comes twice (`SampleLaid`). Where pieces start is a recursive function, which exists by
an induction on sets (`UpTo`, `StartExists`). The inductive invariant has little to say of earlier records, and
that is the point: a record's fields are its own alone, because each of the decoder's steps either updates its field or resets it.
`SampleAttributes` are those that builders can ask for: always the identifier, the thread and the time, which `read_time` counts on.
`RecordsWritten` proves that every record of the model has them. That `read_time` agrees is the same position counted another way
(`SampleTime`, and for other records `TrailerLaid` from the end).

`PerfBuild_proofs` proves, for any number of CPUs and descriptors, with any call into the kernel failing
(`NumCpusAssumption`, `PidsAssumption`, `MaxFdsAssumption`, `KindsAssumption`):

| theorem | states |
|---|---|
| `BuildInvariant` | `Spec => []BuildInv` |
| `RecordingKnown` | every perf event that is open is known under a descriptor of its own |
| `RingOfOwnCpu` | every buffer outputs to the leader of its own CPU |
| `PerfFdsClosed` | a session that is gone has closed every perf descriptor |

`BufsInv` says that `ring_bufs` and the perf descriptors of the process are the same set, in both directions: the one
gives the first theorem, the other, with `PhaseInv`, the last. `LeaderInv` is needed for the buffers that
are yet to be opened: the leader of a CPU exists and leads itself before anything is redirected to it. `LeastElement` proves once,
from the well-founded order of finite sets, that a set of numbers has its minimum: the descriptor that the kernel gives is free.

`Recorder_proofs` proves, for every set of process ids and every bound (`StopAssumption`: the stop request is not a process id,
as the variants of the channel's message are distinct; no other assumption on either is used):

| theorem | states |
|---|---|
| `RecordingInvariant` | `Spec => []Inv` |
| `SessionsKeepTracepoints` | the user_events file is open while an EventPipe session writes to its tracepoints |
| `OwnMapsKept` | a process that has its perf map by its own environment keeps it and its file |
| `CleanInvariant` | `Spec => []CleanInv` |
| `PerfMapsAreCleared` | `PerfMapsCleared`: what the perf map worker turned on is off, or the command is in the socket; no file of such a map stays |

None of these properties is inductive. A session is opened by a server that serves a request which the worker
wrote long before, so `EventsInv` says that there is at most one such request in all the inboxes together and that the
worker waits for its answer as long as it is there; `ControlInv` says where `Recorder::run` can be while
that worker lives: it joins the worker before it drops the hooks that close the file, and on the way of a
failed capture the hooks have not been handed over yet. For a perf map, `OwnInv` says that
nothing was ever asked of an id that no process had yet, or of its first process when the map is its own: no
command is in its inbox, no worker waits for it, and it is not remembered. That is what a reused
id lacks, and why it is exempt. For the cleanup, `MapAt` says that a map or file that the worker caused is one it
remembers or is about to read the answer of, that of all commands in an inbox at most one is an enable, while the worker waits for its answer,
and that once it is done the last command in the inbox of a process with a map is a disable. `StopControl` says that the stop is sent only after the
capture, and that the worker is joined before files are removed. `LEMMA Steps` cuts
`Next` down to the steps that touch trackers and processes; one lemma for each conjunct of the invariants
has one step per action.

`ExportMachine_proofs` proves, for every set of ids, ranges, addresses and symbols (`IdsAssumption`,
`SampledAssumption`: an address and a time are natural numbers):

| theorem | states |
|---|---|
| `StableSort` | what the sort by time gives is a permutation, ordered by time, that keeps the order of equal times |
| `MachineInvariant` | `Spec => []MachineInv` |
| `WaitsAreReal` | `WaitIsReal`: a recorded wait has the start and the chain of the last switch out of its thread |
| `ReplayGivesAll` | for any finite table of processes with sorted lists, `replay_by_time` gives each sample and mapping once, at its time, in the order of time, and each creation and exit |

The sort needs no induction: ranks of distinct places are distinct, since the places not after one are a proper subset of those not
after the other, and so the ranks of n places are 1 to n (a finite set has no injection into a smaller one). `WaitInv`
is a table: what the stash has of a thread in each of the four states between a switch out and the next switch in, for both
orders in which the sample and the switch record come. It exempts ids with a second owner, which `WaitIsReal` exempts too.
`SamplesInv` carries the waits through everything that happens to a process afterwards: forks, comms and exits, the mappings
and the symbols of the export, and the sort.

`ReplayGivesAll` has two parts. `ReplayAt` says where the cursors of a process stand between two rounds: what is before them is not later than
its time, what is behind is not earlier, and its time is that of something yet to give, or `MaxTime`. So a call gives something each time,
an element that shares its time with the next is followed by it in a round of its own, and nothing is passed over (`AdvanceAt`). `ProcessGiven` ties the
log to the cursors: what is before them was given in one round, and what is behind in none. The loop is stated as the state after each round (`StateAfter`),
and the induction over rounds is the least round at which the invariant would fail (`MinIsLeast`, by well-founded sets,
which needs no operator as a parameter). That it ends is counting: a round that runs gives a thing that was not given before (`RoundRuns`), so after as
many rounds as there are things (`ThingsFinite`) all are given, and a process that has nothing left is at `MaxTime`.

The second half of `ExportMachine_proofs` proves, for every list of mappings and every capture (`RangesAssumption`, `KernelAssumption`: addresses and
offsets are natural numbers; ranges may overlap in any way; `MinLookupAssumption`), and for symbols any lines of kallsyms that
are sorted, with or without equal addresses (`KallsymsAssumption`: `os_add_kernel_mappings_with` relies on the same), any
symbols of a file (`FileSymbolsAssumption`) and users' addresses below `KERNEL_START` (`AddressAssumption`):

| theorem | states |
|---|---|
| `LookupIsScan` | where no mapping ends at the address, the lookup and the scan of `find_index` have the same mappings |
| `PagesInvariant` | `Spec => []PagesInv` |
| `SamplesFindMappings` | `SampleFindsItsMapping`: a sample finds the mapping of the file, and the offset, that it ran |
| `RawInvariant` | `Spec => []RawInv` |
| `SymbolsAlwaysResolve` | `SymbolsResolve`: every sampled address resolves to the symbol that covers it, if there is one |
| `TimesInvariant` | `Spec => []TimesInv` |
| `ReplayAlwaysExact` | `ReplayExact`, while the clock is below `MaxTime`: the replay of a capture gives everything once and in order |

The lookup is searched for the greatest address that is not above; from the item where a mapping starts to that one the mapping
stays in `index_set`, because its end lies behind (`LiveBetween`). At the address of an end itself this fails, which is the
known difference that the hypothesis names. The property needs two things together: `MapsInv` says that each sample
finds its page at its time, `LiveInv` that what was reported of a living process finds what its pages hold now, so that the next sample does. A mapping is
later than all samples and mappings before it, so it hides nothing from the first and is the one that the second finds
(`FindsBeside`, `FindsNewest`). A process must be known by its id alone, as the exporter knows it: `LiveAt` says that
the leader of a living thread lives and has that process, which makes ids of living processes distinct, and is kept because the leader exits last
and a new thread has an id that is free. The search is stated as the one latest mapping that
covers the address (`Latest`), which does not depend on the order of the list: the sort of the export keeps it (`StableSort`), the kernel's mapping
does not cover a user address, and symbols change no bounds. A stale region of the snapshot is exempt, as in the property.

Symbols are dropped twice before an address is resolved: a symbol that no sampled address needs, and the part of a symbol that is not mapped.
Neither loses a sample's symbol. The search starts at a symbol's first mapped address and takes the next sampled one: that is at or
before any sampled address in the symbol (`FirstAbove`, `MatchedSymbols`), and the part that is mapped covers an address when
the symbol covers its offset (`VaRange`). In the kernel a symbol ends before the next line of kallsyms, so at most one covers an
address (`OneInKernel`); of lines with one address it is the last, and at `KERNEL_END` itself the kernel's mapping is not found, which
agrees because no symbol covers it but for its last address, which the property exempts. `Exported` says what the export makes of a process: its mappings with the
symbols its own samples need, one mapping of the kernel when it has a sample there, in some order.
That no symbol was there before is `RawInv`. The theorem has one hypothesis of its own, `OneName`: symbols of a file
that share an offset have one name. With two aliases at an offset only one of them can be the answer, and the property as it is stated asks for both.

`ReplayAlwaysExact` is `ReplayGivesAll` of the table that the export leaves. Its lists are sorted (`StableSort`) and its processes are finitely many,
and no time in it is later than the clock: `TimesInv`, which must carry the start of a wait through the stash, because a wait's sample has
the time of its switch out and not that of the record. The theorem says `clock < MaxTime`, since
`u64::MAX` marks the end of a replay and a record of that time would never be given.

`DotNetEvents_proofs` proves, for every set of processes, events and subscriptions and whatever parser of fields reads back what is
written (`BoundsAssumption`, `NumbersAssumption`, `TableAssumption`; `TopBitAssumption`: there are fewer events than `TopBit`, hence fewer names):

| theorem | states |
|---|---|
| `DotNetInvariant` | `Spec => []DotNetInv` |
| `SubscribersAlwaysServed` | `SubscribersServed`: an event reaches everyone who subscribed to it exactly once, and nobody else |
| `RecordTypesOwn` | `RecordTypeOwn`: a record has the name and the layout of its event in the process that wrote it, whichever process made its type |
| `AttributesAlwaysOwn` | `AttributesOwn`: version and activity of a sample are those of its own event |
| `StacksAlwaysAsAsked` | `StacksAsAsked`: who asked for stacks gets them and nobody else does |

Each property is about one event and what the handler made of it, which depends on all events before it: on the table of the tracepoint that it
came on and on the types of records known so far. `InfosInv` says what such a table has of a process and an event: all that the
metadata said, on the default tracepoint and once the metadata came whole; something that does not contradict it, or nothing, on any other.
`TypesInv` says the same of the records' types. Both exempt a process id with a second owner, as the properties do. That a type may have been
made by another process is what `FormatsInv` is for: a type in `formats` has the name and the format that the two ids of its key stand for, or, when the first
is not of a name, no name and that event id; so what a new pair takes over under its own key is right whoever made it. The ids keep their meaning because
names and blobs are only ever added at the end (`TablesInv`, `Entered`), and are never as large as `TopBit`. `TypeIdsInv` is left: a type without a name is found only by events of its id. `ScriptInv` and `PointsInv` tie
the tracepoints to the script, `over = NoOver` says that the shared sampler's overrides never outlive a handler. "Exactly once" is a fact about
the handler's two sets of samples, those of the proxy events and those of the callbacks: they are disjoint and handed over one after the other, each
member at one place (`EachOnce`), and which of the proxy events are in the first follows from the tracepoint the event came on.

`CallstackReader_proofs` proves, for every set of processes, files and mappings, any words on a stack and in the registers and any `MaxFrames`
but 0 (`UnwindAssumption`):

| theorem | states |
|---|---|
| `GarbageAlwaysSafe` | `GarbageSafe`: a walk ends with 1 to `MaxFrames` frames, each but the first inside of a module of the process |

Nothing is assumed of what the files say, so the proof is about the loop: whatever the rules, the chain of RBP, the scan or the
recovery find, they leave the IP, the frames and whether the loop runs (`Keeps`). `After` is the state after n passes: while
it runs there are n + 1 frames, and the last one, which is the IP, is the only one that has yet to be looked for in the modules. The next
pass looks for it, and drops it if it is in none; if the cap or an IP of 0 ends the loop, the frame just pushed is the one that
is dropped. A loop that still ran after `MaxFrames` + 1 passes would have more frames than the cap. The loop is a
recursive function, and the induction over its passes the least pass at which `After` would fail (`UpTo`).

Model-checked only:

- Liveness (`WriterReturns`, `AllDelivered`, `ParseAllReturns`, `CaptureEnds`, `StopReturns`, `AnnouncedIsEnabled`):
  fairness needs ENABLED, which the prover does not support.
- What a recursive operator or a fold computes for all inputs needs induction over data, for which the library's theorems cannot be used
  (`Start`, the rounds of the replay and the passes of `UnwindAll` are functions with an argument by least counterexample): the skips and filters of
  `EventFormat` (`PayloadExact`, `FilterExact`), the unwinder's rules,
  chain and the stacks they walk (`FramesReal`, `FramesComplete`), the
  writers of the nettrace file and the graph, the parser of an
  event's fields (`TableAssumption`, which TLC evaluates with that of `DotNetFields` on every event of the run).
- The properties of `LocalSymbols`: not yet.

## Findings

`source_skips`: `read_time` moves the cursor over a record that is too short or of an unknown id, with comments that say the ring drains
so and the caller makes progress. But the cursor is stored for `oldest_cpu` only, a ring without a time is not chosen as that, and the
next `begin_reading` sets its cursor back to the tail. Every pass meets the same record; what lies behind it is never delivered, also by `parse_all` of a
stopped session, which returns `Ok` (`one_collect/src/perf_event/rb/source.rs`, 916-920, 952-954, 1264-1272). The trace of the run has two records in one ring, the first
one unknown. `ParseAllDrains`, which holds and is proved, is what can be said instead: a drain ends with each ring at its end or at such a record.

`recorder_join`: `Recorder::run` joins the memory monitor after the capture, with a
comment that `continue_recording` is false by then. When the capture fails nothing has reset it, the
monitor polls on, and the recording does not return unless the limit is reached
(`record-trace/engine/src/recorder.rs`).

## Known differences

What the models show and no property states, with the properties that make an exception for it.

Ring, source, session:
- `flush()` gives up silently when the lost record does not fit, and a loss is then never reported.
- `Header::write` pads after the trailer, and `read_time` reads the trailer from
  the padded end: a padded in-process record is merged at a wrong time.
- An early return of `os_parse_until` frees the ring under the environment thread.
- `attach_to_bpf_map_fd` owns one descriptor once per CPU; on a session without BPF events it leaks it.
- `add_event` on an enabled session opens its events disabled and nothing enables them.
- A tracepoint with id 10 has the `config` by which BPF output is recognised, since the dispatch does not
  look at the event type; `read_format_size` leaves out the value itself (no builder enables
  READ); registers of a 32-bit process are taken to have 4 bytes each.
- `contains` panics on an empty value and matches across UTF-16 characters; an odd last
  byte of a cut UTF-16 string is given to the next field.

Exporter:
- A region of the snapshot that changes between its reading and its
  writing hides the mapping that replaced it, because its record has the later time
  (`SampleFindsItsMapping` excludes it).
- A thread whose id had an owner that died while switched out
  gets that owner's last wait (`WaitIsReal` excludes ids that were reused); `fork_exec`
  replaces the process of a reused id with its samples, and process 0 at every fork outside of the
  container; the exit of any thread sets the process's exit time.
- The lookup does not find the last address of
  a mapping where another one overlaps it, which the scan does; a kernel symbol is
  not kept for an address that is its last one (`<` on an inclusive end).
- The processes of the snapshot get
  a creation time after the start of collection, so the nettrace writer writes them as
  created and not as existing; `created_event` is true again for each event at the time of creation.
- A sample whose attributes are all left out gets a label `Error` in a nettrace file; the total of the graph's root
  is not that of its children (`GraphExact` is about nodes below it); a `to_net_trace` that fails is reported as success
  (`record-trace/engine/src/export.rs`).

Symbols:
- Lines of perf maps and ReadyToRun maps end one address too far (`NamesOfTheBuild` and
  `MethodsNamed` allow the line that an address directly follows).
- A method in unmapped pages that only a rundown reports gets a mapping with the time of the report, and the samples
  before stay unnamed; a region that is mapped anew hides what was reported before (`Counts`).
- A forked child inherits neither `ns_pid` nor the anonymous mappings, so its generated code has no names from a perf map.
- A binary that is upgraded before its metadata is read is named by the new file (`ElfKnown`, `ImageKnown`).

Unwinder:
- What the first mapping of a file finds, a load offset of 0 or no rules, is kept, also when the file could not be opened from that process and
  can from the next; an exec keeps the modules of the program before it; the exit of any thread removes the process
  (`Known`, `Missed` and `astray` in `CallstackReader`).
- At the return of a function that has restored RBP the walk ends, since the rule for RBP points below the copied stack.

.NET and recorder:
- Everything is remembered by process id: for an id that is reused, a known process is skipped, the final commands and the
  removal of the map's file go to the new process, and metadata of the old one is used
  (`OwnPerfMapsKept`, `AnnouncedIsEnabled`, `RecordTypeOwn`, `AttributesOwn` and `StacksAsAsked` exclude it).
- A failed capture leaves the perf map files in `/tmp` (`PerfMapsCleared` is about one that did not fail).
- A worker that waits for a process that hangs blocks the drop of the session.
- A callback that fails leaves, by its `?`, the overrides of the sampler set.
- A record type that processes share has the id of the event it was made for; in another process the same event may have another id
  (`RecordTypeOwn` is about the name and the layout, and about the id where there is no name).
- `record_provider` resets `callback_callstacks`: of several, the last one decides for the stacks of the earlier ones (`StacksAsAsked` is about the last).

## Not modelled

- The contents of `mmap`, the kernel's own half of a kernel ring and its
  scheduling: a kernel ring is a queue that grows.
- Weak memory beyond the order that the code's acquire and release operations give.
- Text: logging, formatting, names, the closures that print a field.
- Bytes of file formats: varints, protobuf, XML, ELF and PE headers, procfs lines. What depends on their
  contents is modelled with values in their place.
- tracefs, procfs and openat have no state of their own; that they fail is a choice in the modules that use them.
- Scripting beyond the subscription of .NET events, the command line and the C interface: glue without a state machine of their own.
- Windows: order and control of an ETW session belong to the operating system (`ProcessTrace`, TDH); what is left in
  `etw/` converts structures.
- arm64 unwinding, and 32-bit register dumps, of which the repository has no independent description.

## Plan

Theorems that are next, in this order:

1. `LocalSymbols`: `NamesOfTheBuild`, from what is kept of a file's build id when the metadata is read.

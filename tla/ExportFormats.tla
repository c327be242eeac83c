--------------------------- MODULE ExportFormats ----------------------------
(***************************************************************************)
(* From a traced event to the files: the trace callback of an event makes  *)
(* a sample, with its attributes, its record and its call chain, in the    *)
(* tables of the machine (helpers/exporting/mod.rs); then a nettrace file  *)
(* is written from a replay of the processes (formats/nettrace.rs), and a  *)
(* graph is built of one process, for pprof and PerfView (graph.rs).       *)
(*                                                                         *)
(* The processes' mappings and times are given; ExportMachine shows how    *)
(* they come about.  A sample keeps, as history, the event it was made of. *)
(***************************************************************************)
EXTENDS NetTrace, ExportGraph, ExportReplay

CONSTANTS
    Events,      \* the events that are traced
    Lives,       \* the tables of processes to begin with
    DropCgroup,  \* the sample hook drops the samples of this cgroup
    SyncTime,    \* start_qpc
    EndTime,     \* end_qpc
    MaxSamples   \* bound: the events traced

ASSUME SyncAssumption == SyncTime \in Nat /\ EndTime \in Nat

VARIABLES
    tables,   \* the tables of the export machine
    procs,    \* its processes
    writer,   \* the nettrace writer
    replay,   \* where the replay of each process is, and which processes
              \* the round has still to call
    graph,    \* the graph, and how many samples it has been given
    phase,    \* what is being done
    want      \* history: the events that a reader of the file should find

fvars == <<tables, procs, writer, replay, graph, phase, want>>

NoReplay == [at |-> << >>, round |-> {}]
NoGraph == [g |-> NewGraph, pid |-> 0, kind |-> 0, next |-> 1]
NoWriter == [output |-> << >>]

FInit ==
    /\ tables = NewTables /\ procs \in Lives
    /\ writer = NoWriter /\ replay = NoReplay /\ graph = NoGraph
    /\ phase = "trace" /\ want = << >>

-----------------------------------------------------------------------------
(* attach_record_to_sample: a record is made only for a sample that is     *)
(* kept.                                                                   *)
RecordOf(m, e) ==
    IF e.data = << >> THEN [m |-> m, id |-> 0]
    ELSE LET typed == [m EXCEPT !.recordTypes = Listed(@, e.rtype)]
         IN  [m |-> CreateRecord(typed, IndexIn(m.recordTypes, e.rtype), e.data),
              id |-> Len(m.records)]

(* span_to_value, where the event has a span.                              *)
Spanned(m, e) ==
    IF e.value.type = "span"
    THEN SpanToValue(m, [start |-> 0, end |-> e.value.v]) ELSE m
ValueIn(m, e) ==
    IF e.value.type = "span" THEN [type |-> "span", v |-> Len(m.spans)] ELSE e.value

(* save_value, save_span: the sample is filtered, and what is kept gets    *)
(* its record.                                                             *)
Keep(e, sample, id, r) ==
    /\ tables' = r.m
    /\ procs' = [procs EXCEPT ![e.pid].samples =
                    Append(@, [sample EXCEPT !.attributes = id, !.record = r.id])]
Save(e, id, made) ==
    IF CgroupOf(made.m, id) = DropCgroup
    THEN tables' = made.m /\ UNCHANGED procs
    ELSE Keep(e, made.sample, id, RecordOf(made.m, e))
SaveWith(e, a) == Save(e, a.id, MakeSample(Spanned(a.m, e), e, ValueIn(a.m, e)))

(* The trace callback: default_attributes (where the callback asks for     *)
(* them), then save_value or save_span of the sample builder.              *)
Trace(e) ==
    /\ phase = "trace"
    /\ SumFunction([p \in DOMAIN procs |-> Len(procs[p].samples)]) < MaxSamples
    /\ SaveWith(e, IF e.attributed THEN DefaultAttributes(tables, e)
                                   ELSE [m |-> tables, id |-> 0])
    /\ UNCHANGED <<writer, replay, graph, phase, want>>

-----------------------------------------------------------------------------
(* to_net_trace.                                                           *)
RoundOf(at) ==
    LET times == {at[p].time : p \in DOMAIN at}
    IN  {p \in DOMAIN at : at[p].time = Min(times) /\ at[p].time # MaxTime}

StartNetTrace ==
    /\ phase = "trace"
    /\ procs' = [p \in DOMAIN procs |->
            [procs[p] EXCEPT !.samples = SortByTime(@), !.maps = SortByTime(@)]]
    /\ LET at == [p \in DOMAIN procs |-> StartOfReplay(procs'[p])]
       IN  replay' = [at |-> at, round |-> RoundOf(at)]
    /\ writer' = NewWriter(tables, SyncTime)
    /\ phase' = "write"
    /\ UNCHANGED <<tables, graph, want>>

(* What the attributes of an event are, one by one, in no order.           *)
WantLabels(e) ==
    LET value(key, v) == {l \in {[key |-> key, value |-> <<v>>]} : v # 0}
        slice(key, s) == {l \in {[key |-> key, value |-> s]} : s # << >>}
        op == IF e.version = 0 /\ e.op = 0 THEN {}
              ELSE {[key |-> <<"Version">>, value |-> <<e.version % 256>>],
                    [key |-> <<"OpCode">>, value |-> <<e.op % 256>>]}
        all == op \cup slice(<<"TraceId">>, e.trace) \cup slice(<<"SpanId">>, e.span)
               \cup slice(<<"ActivityId">>, e.activity)
               \cup slice(<<"RelatedActivityId">>, e.related)
               \cup value(<<"CGroup">>, e.cgroup)
    IN  IF e.attributed THEN all ELSE {}

WantStack(e) == IF e.frames = << >> THEN <<0>> ELSE e.frames

WantSample(pid, s) ==
    LET e == s.of
        labels == WantLabels(e)
    IN  [name |-> IF e.data = << >> THEN e.kind ELSE e.rtype.name,
         payload |-> IF e.data = << >> THEN <<e.value.v>>
                     ELSE IF e.rtype.original THEN e.data ELSE <<e.value.v>> \o e.data,
         pid |-> pid, tid |-> e.tid, cpu |-> e.cpu, stack |-> WantStack(e),
         time |-> Max({e.time, SyncTime}),
         labels |-> IF labels = {} THEN {ErrorLabel} ELSE labels]

WantSystem(pid, time, name, payload) ==
    [name |-> <<name>>, payload |-> payload, pid |-> pid, tid |-> 0, cpu |-> 0,
     stack |-> << >>, time |-> Max({time, SyncTime}), labels |-> {}]

WantMapping(pid, map, described) ==
    LET meta == IF map.node = 0 \/ map.node \in described THEN << >>
                ELSE <<WantSystem(pid, map.time, "ProcessMappingMetadata",
                                  <<map.node>>)>>
        symbols == SetToSeq(map.syms)
    IN  meta
        \o <<WantSystem(pid, map.time, "ProcessMapping",
                <<map.id, map.start, map.end, map.off, map.file, map.node>>)>>
        \o [i \in DOMAIN symbols |-> WantSystem(pid, map.time, "ProcessSymbol",
                <<map.id, symbols[i].start, symbols[i].end, symbols[i].name>>)]

WantCall(e, call, time, described) ==
    LET one(T, x) == IF T THEN <<x>> ELSE << >>
    IN  (IF call.sample = 0 THEN << >>
         ELSE <<WantSample(call.pid, e.samples[call.sample])>>)
        \o one(call.created, WantSystem(call.pid, time,
                IF time >= SyncTime THEN "ProcessCreate" ELSE "ExistingProcess",
                <<e.nspid>>))
        \o one(call.exited, WantSystem(call.pid, time, "ProcessExit", << >>))
        \o (IF call.map = 0 THEN << >>
            ELSE WantMapping(call.pid, e.maps[call.map], described))

(* One call of the round, and the writer's callback.                       *)
ReplayCall(p) ==
    LET r == replay.at[p]
        call == Call(p, procs[p], r)
        at == [replay.at EXCEPT ![p] = Advance(procs[p], r)]
        left == replay.round \ {p}
    IN  /\ phase = "write" /\ p \in replay.round
        /\ writer' = WriteReplay(tables, writer, procs[p], call, r.time)
        /\ replay' = [at |-> at, round |-> IF left = {} THEN RoundOf(at) ELSE left]
        /\ want' = want \o WantCall(procs[p], call, r.time, DOMAIN writer.metas)
        /\ UNCHANGED <<tables, procs, graph, phase>>

Finish ==
    /\ phase = "write" /\ replay.round = {}
    /\ writer' = FinishTrace(tables, writer, EndTime)
    /\ phase' = "written"
    /\ UNCHANGED <<tables, procs, replay, graph, want>>

-----------------------------------------------------------------------------
(* A graph of a process's samples of one kind, added one by one.           *)
StartGraph(p, kind) ==
    /\ phase = "written"
    /\ graph' = [NoGraph EXCEPT !.pid = p, !.kind = kind]
    /\ phase' = "graph"
    /\ UNCHANGED <<tables, procs, writer, replay, want>>

GraphSample ==
    LET e == procs[graph.pid]
        s == e.samples[graph.next]
    IN  /\ phase = "graph" /\ graph.next <= Len(e.samples)
        /\ graph' = [graph EXCEPT !.next = @ + 1,
                        !.g = IF s.kind # graph.kind THEN @
                              ELSE AddSampleToGraph(@, tables, e.maps, s)]
        /\ UNCHANGED <<tables, procs, writer, replay, phase, want>>

GraphDone ==
    /\ phase = "graph" /\ graph.next > Len(procs[graph.pid].samples)
    /\ phase' = "done"
    /\ UNCHANGED <<tables, procs, writer, replay, graph, want>>

FNext ==
    \/ \E e \in Events : Trace(e)
    \/ StartNetTrace \/ Finish
    \/ \E p \in DOMAIN procs : ReplayCall(p)
    \/ \E p \in DOMAIN procs, kind \in 0 .. Len(tables.kinds) - 1 : StartGraph(p, kind)
    \/ GraphSample \/ GraphDone

FSpec == FInit /\ [][FNext]_fvars

-----------------------------------------------------------------------------
(* A reader of the file: blocks are read one after the other; a sequence   *)
(* block makes it forget the threads, a stack or label block replaces      *)
(* those before.                                                           *)
Lookup(list, id, none) == IF id \in DOMAIN list THEN list[id] ELSE none
DanglingStack == <<-1>>
DanglingLabel == <<[key |-> <<"dangling">>, value |-> << >>]>>

ReadEvent(st, e) ==
    LET time == st.time + e.delta
        name == st.metas[e.meta].name
        threads == {t \in st.threads : t.id = e.thread}
        thread == IF Cardinality(threads) = 1 THEN CHOOSE t \in threads : TRUE
                  ELSE [pid |-> -1, tid |-> -1]
        payload ==
            IF name = <<"ProcessMappingMetadata">> THEN Tail(e.payload)
            ELSE IF name = <<"ProcessSymbol">> THEN Tail(e.payload)
            ELSE IF name = <<"ProcessMapping">> /\ e.payload[6] # 0
            THEN [e.payload EXCEPT ![6] = st.nodes[@]]
            ELSE e.payload
    IN  [st EXCEPT
            !.time = time,
            !.nodes = IF name = <<"ProcessMappingMetadata">>
                      THEN (e.payload[1] :> e.payload[2]) @@ @ ELSE @,
            !.out = Append(@,
                [name |-> name, payload |-> payload, pid |-> thread.pid,
                 tid |-> thread.tid, cpu |-> e.cpu,
                 stack |-> IF e.stack = 0 THEN << >> ELSE Lookup(st.stacks, e.stack, DanglingStack),
                 time |-> time,
                 labels |-> IF e.label = 0 THEN {}
                            ELSE ToSet(Lookup(st.labels, e.label, DanglingLabel))])]

ReadBlock(st, b) ==
    CASE b.kind = "meta" -> [st EXCEPT !.metas = b.events]
      [] b.kind = "seq" -> [st EXCEPT !.threads = {}]
      [] b.kind = "stacks" -> [st EXCEPT !.stacks = b.stacks]
      [] b.kind = "threads" -> [st EXCEPT !.threads = @ \cup b.threads]
      [] b.kind = "labels" -> [st EXCEPT !.labels = b.labels]
      [] b.kind = "events" -> FoldLeft(ReadEvent, [st EXCEPT !.time = 0], b.events)
      [] OTHER -> st

ReadFile(output) ==
    FoldLeft(ReadBlock, [metas |-> << >>, threads |-> {}, stacks |-> << >>,
                         labels |-> << >>, nodes |-> << >>, time |-> 0,
                         out |-> << >>], output)

-----------------------------------------------------------------------------
(* Properties.                                                             *)

(* What the tables hold for a sample is what its event had: the chain      *)
(* behind the interned id when hashes collide, the bytes of its record     *)
(* among those of all others, the attributes behind cached and associated  *)
(* ids, and the length of its span.                                        *)
SampleDataExact ==
    \A p \in DOMAIN procs : \A i \in DOMAIN procs[p].samples :
        LET s == procs[p].samples[i]
            e == s.of
            kept == WalkAttributes(tables, s.attributes)
        IN  /\ <<s.ip>> \o FromId(tables.callstacks, s.callstack) = WantStack(e)
            /\ tables.kinds[s.kind + 1] = e.kind
            /\ Convert(tables, s.value) = e.value.v
            /\ e.data # << >> =>
                /\ RecordData(tables, s.record) = e.data
                /\ tables.recordTypes[tables.records[s.record + 1].type + 1] = e.rtype
            /\ {LabelEntry(tables, kept[k]) : k \in DOMAIN kept} = WantLabels(e)
            /\ Len(kept) = Cardinality(WantLabels(e))


(* The stack of a sample in the graph, from its top frame: file, address   *)
(* in the file, symbol.  The call chain is resolved at the time of the     *)
(* first sample that has it.                                               *)
FrameAt(maps, i, ip, symbol) ==
    <<IF i = 0 THEN Unknown ELSE <<maps[i].file>>,
      IF i = 0 \/ maps[i].anon THEN 0
      ELSE IF ip > KERNEL_START THEN ip ELSE ip - maps[i].start + maps[i].off,
      symbol>>
FrameOf(maps, ip, time) ==
    FrameAt(maps, FindIndex(maps, ip, time), ip, ImportIp(maps, ip, time))
GraphSamples ==
    LET e == procs[graph.pid]
    IN  {i \in 1 .. graph.next - 1 : e.samples[i].kind = graph.kind}
StackOf(i) ==
    LET e == procs[graph.pid]
        s == e.samples[i]
        chain == Tail(WantStack(s.of))
        first == Min({j \in GraphSamples : Tail(WantStack(e.samples[j].of)) = chain})
    IN  <<FrameOf(e.maps, s.ip, s.time)>>
        \o [k \in DOMAIN chain |-> FrameOf(e.maps, chain[k], e.samples[first].time)]
SumOver(S) == SumFunction([i \in S |-> procs[graph.pid].samples[i].of.value.v])

(* The value of a stack is that of its samples; stacks of value 0 are not  *)
(* written.                                                                *)
WantStacks ==
    {w \in {[stack |-> StackOf(i),
             value |-> SumOver({j \in GraphSamples : StackOf(j) = StackOf(i)})] :
                i \in GraphSamples} : w.value > 0}

PprofStacks(out) ==
    LET frame(id) ==
            LET l == CHOOSE l \in out.locations : l.id = id
                map == CHOOSE x \in out.mappings : x.id = l.mapping
                f == CHOOSE f \in out.functions : f.id = l.function
            IN  <<out.strings[map.file], l.address,
                  IF l.function = 0 THEN 0 ELSE out.strings[f.name][1]>>
    IN  {[stack |-> [k \in DOMAIN s.locations |-> frame(s.locations[k])],
          value |-> s.value] : s \in out.samples}

(* PerfView's samples, with the symbol or, without one, the address.       *)
PerfViewStacks(out) ==
    LET stack(id) == CHOOSE s \in out.stacks : s.id = id
        text(id) == (CHOOSE f \in out.frames : f.id = stack(id).frame).text
        callers[id \in -1 .. Cardinality(out.stacks)] ==
            IF id = -1 THEN << >> ELSE <<text(id)>> \o callers[stack(id).caller]
    IN  {<<callers[s.stack], s.metric>> : s \in out.samples}
Shown(w) ==
    <<[k \in DOMAIN w.stack |->
        <<w.stack[k][1], IF w.stack[k][3] = 0 THEN <<-1, w.stack[k][2]>>
                                             ELSE <<w.stack[k][3]>> >>], w.value>>

(* The graph, and the pprof and PerfView files written from it, have every *)
(* stack once with the value of all its samples, however call chains are   *)
(* shared between them; and a node below the root has as its total the     *)
(* value of the samples that pass through it.                              *)
GraphExact ==
    phase = "done" =>
        LET nodes == graph.g.nodes
            out == ToPprof(graph.g)
            pathOf(id) == (CHOOSE s \in PprofStacks([out EXCEPT !.samples =
                             {[locations |-> PathUp(nodes, id), value |-> 0]}]) :
                           TRUE).stack
        IN  /\ PprofStacks(out) = WantStacks
            /\ PerfViewStacks(ToPerfView(graph.g)) = {Shown(w) : w \in WantStacks}
            /\ \A id \in Ids0(nodes) \ {0} :
                nodes[id + 1].total =
                    SumOver({j \in GraphSamples : IsSuffix(pathOf(id), StackOf(j))})
=============================================================================

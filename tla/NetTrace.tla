------------------------------ MODULE NetTrace ------------------------------
(***************************************************************************)
(* The nettrace writer (helpers/exporting/formats/nettrace.rs), without    *)
(* state of its own: w is a NetTraceWriter, its output a sequence of       *)
(* blocks; m are the tables of the machine it writes.                      *)
(*                                                                         *)
(* A block has a kind and its fields in place of bytes.  Numbers are       *)
(* written as they are (write_varint loses nothing); an id in an event is  *)
(* as it is in the file, so that 0 is no stack or label.                   *)
(***************************************************************************)
EXTENDS TraceTables

CONSTANTS
    FlushAt,   \* stands for 1 MB: how many events make a block be written
    GuidLen,   \* stands for 16: the length of a GUID or trace id
    SpanLen    \* stands for 8: the length of a span id

ASSUME FlushAssumption == FlushAt \in Nat \ {0}

-----------------------------------------------------------------------------
(* Blocks that describe the trace.                                         *)

(* event_field_to_element_type: the types of Linux and of Windows; 0       *)
(* stands for None.                                                        *)
TypeIds == [u8 |-> 6, s8 |-> 6, char |-> 6, s16 |-> 7, short |-> 7, u16 |-> 8,
            s32 |-> 9, int |-> 9, u32 |-> 10, __rel_loc |-> 10, __data_loc |-> 10,
            s64 |-> 11, long |-> 11, u64 |-> 12, float |-> 13, double |-> 14,
            string |-> 18]
UnsignedIds == <<6, 8, 0, 10, 0, 0, 0, 12>>
ElementType(f) ==
    IF f.type = "unsigned"
    THEN IF f.size \in DOMAIN UnsignedIds THEN UnsignedIds[f.size] ELSE 0
    ELSE IF f.type \in DOMAIN TypeIds THEN TypeIds[f.type] ELSE 0

(* event_field_to_type: a fixed array has none.                            *)
FieldType(f) ==
    IF f.location = "utf16" THEN 18 ELSE IF f.location = "prefixed" THEN 19
    ELSE IF f.fixed THEN 0 ELSE ElementType(f)

(* The fields of a record type, up to the first that has no type.          *)
RecordFields(fields) ==
    LET bad == {i \in DOMAIN fields : FieldType(fields[i]) = 0}
        upTo == IF bad = {} THEN Len(fields) ELSE Min(bad) - 1
    IN  [i \in 1 .. upTo |->
            [type |-> FieldType(fields[i]),
             element |-> IF FieldType(fields[i]) = 19 THEN ElementType(fields[i])
                                                      ELSE 0]]

ValueField == [type |-> 21, element |-> 0]
SystemEvents == <<"ExistingProcess", "ProcessCreate", "ProcessExit",
                  "ProcessMapping", "ProcessSymbol", "ProcessMappingMetadata">>

(* write_metadata_object: kinds, then record types, then the events of the *)
(* system, numbered from 1.                                                *)
MetadataBlock(m) ==
    [kind |-> "meta",
     events |->
        [i \in DOMAIN m.kinds |->
            [name |-> m.kinds[i], provider |-> "Universal.Events",
             fields |-> <<ValueField>>]]
        \o [i \in DOMAIN m.recordTypes |->
            LET t == m.recordTypes[i]
            IN  [name |-> t.name,
                 provider |-> IF t.original THEN "Original" ELSE "Universal.Events",
                 fields |-> (IF t.original THEN << >> ELSE <<ValueField>>)
                            \o RecordFields(t.fields)]]
        \o [i \in DOMAIN SystemEvents |->
            [name |-> <<SystemEvents[i]>>, provider |-> "Universal.System",
             fields |-> << >>]]]

RecordIdOffset(m) == Len(m.kinds) + 1
SystemId(m, name) ==
    Len(m.kinds) + Len(m.recordTypes)
    + (CHOOSE i \in DOMAIN SystemEvents : SystemEvents[i] = name)
OriginalIds(m) == {RecordIdOffset(m) + i - 1 :
                    i \in {i \in DOMAIN m.recordTypes : m.recordTypes[i].original}}

SeqBlock(time) == [kind |-> "seq", time |-> time]

(* new, init_threads, write_trace_object and write_metadata_object.        *)
ThreadZero == [pid |-> 0, tid |-> 0]
NewWriter(m, sync) ==
    [output |-> <<[kind |-> "trace", sync |-> sync], MetadataBlock(m)>>,
     block |-> << >>, last |-> 0, sync |-> sync, flush |-> sync, symbol |-> 0,
     labels |-> << >>, callstacks |-> << >>, metas |-> << >>,
     threads |-> (ThreadZero :> 0)]

-----------------------------------------------------------------------------
(* What is saved until a block is written: a map from keys to ids.         *)
SavedId(saved, key) ==
    IF key \in DOMAIN saved THEN saved[key] ELSE Cardinality(DOMAIN saved)
Saved(saved, key) ==
    IF key \in DOMAIN saved THEN saved
    ELSE (key :> Cardinality(DOMAIN saved)) @@ saved

(* take_saved_callstacks and take_saved_labels: the keys by their ids.     *)
InOrderOfId(saved) ==
    [i \in 1 .. Cardinality(DOMAIN saved) |->
        CHOOSE key \in DOMAIN saved : saved[key] = i - 1]

StacksBlock(m, w) ==
    LET keys == InOrderOfId(w.callstacks)
    IN  [kind |-> "stacks", first |-> 1,
         stacks |-> [i \in DOMAIN keys |->
                        <<keys[i].ip>> \o FromId(m.callstacks, keys[i].callstack)]]

ThreadsBlock(w) ==
    [kind |-> "threads",
     threads |-> {[id |-> w.threads[k], pid |-> k.pid, tid |-> k.tid] :
                    k \in DOMAIN w.threads}]

(* write_labels: which attributes are kept, and what one is written as.    *)
NameId(m, name) == IF FindId(m.strings, name) = -1 THEN 0 ELSE FindId(m.strings, name)
RecordNames == {<<"ActivityId">>, <<"RelatedActivityId">>, <<"TraceId">>,
                <<"SpanId">>}
KeepLabel(m, p) ==
    \/ p.kind \in {"label", "value"}
    \/ p.kind = "record" /\ p.name # 0 /\ p.name \in {NameId(m, n) : n \in RecordNames}
ErrorLabel == [key |-> <<"Error">>, value |-> << >>]
LabelEntry(m, p) ==
    LET name == FromId(m.strings, p.name)
        data == RecordData(m, p.value)
        guid == name \in RecordNames \ {<<"SpanId">>} /\ Len(data) = GuidLen
        span == name = <<"SpanId">> /\ Len(data) = SpanLen
    IN  IF p.kind = "label"
        THEN [key |-> name, value |-> FromId(m.strings, p.value)]
        ELSE IF p.kind = "value"
        THEN [key |-> name,
              value |-> IF name \in {<<"OpCode">>, <<"Version">>}
                        THEN <<p.value % 256>> ELSE <<p.value>>]
        ELSE IF guid \/ span THEN [key |-> name, value |-> data] ELSE ErrorLabel
LabelList(m, id) ==
    LET kept == SelectSeq(WalkAttributes(m, id), LAMBDA p : KeepLabel(m, p))
    IN  IF kept = << >> THEN <<ErrorLabel>>
        ELSE [i \in DOMAIN kept |-> LabelEntry(m, kept[i])]
LabelsBlock(m, w) ==
    LET keys == InOrderOfId(w.labels)
    IN  [kind |-> "labels", first |-> 1,
         labels |-> [i \in DOMAIN keys |-> LabelList(m, keys[i])]]

EventsBlock(w, start, end) ==
    [kind |-> "events", min |-> start, max |-> end, events |-> w.block]

(* flush_event_block: what the events of the block refer to goes before    *)
(* it, and is forgotten.                                                   *)
FlushEventBlock(m, w, start, end) ==
    [w EXCEPT !.output = @ \o <<SeqBlock(start), StacksBlock(m, w), ThreadsBlock(w),
                                LabelsBlock(m, w), EventsBlock(w, start, end)>>,
              !.block = << >>, !.flush = end, !.last = 0,
              !.callstacks = << >>, !.labels = << >>, !.threads = (ThreadZero :> 0)]

(* write_event_timestamp: not before the start, nor before the last.       *)
EventTime(w, time) == Max({time, w.sync, w.last})


(* write_event_blob_from_buffer.                                           *)
WriteBlob(m, w, e) ==
    LET thread == [pid |-> e.pid, tid |-> e.tid]
        time == EventTime(w, e.time)
        event == [meta |-> e.meta, cpu |-> e.cpu, thread |-> SavedId(w.threads, thread),
                  stack |-> e.stack, delta |-> time - w.last, label |-> e.label,
                  payload |-> e.payload]
        written == [w EXCEPT !.threads = Saved(@, thread), !.last = time,
                             !.block = Append(@, event)]
    IN  IF Len(written.block) >= FlushAt
        THEN FlushEventBlock(m, written, written.flush, written.last)
        ELSE written

-----------------------------------------------------------------------------
(* The events of a replay; p is the process, time the replay's.            *)
SystemEvent(m, pid, time, name, payload) ==
    [meta |-> SystemId(m, name), cpu |-> 0, pid |-> pid, tid |-> 0, stack |-> 0,
     label |-> 0, time |-> time, payload |-> payload]

(* write_sample_replay_event: the data of a record follows the value, or   *)
(* replaces it when it is an original event's.                             *)
WriteSample(m, w, pid, s) ==
    LET stackKey == [ip |-> s.ip, callstack |-> s.callstack]
        type == m.records[s.record + 1].type
        meta == IF s.record # 0 THEN RecordIdOffset(m) + type ELSE s.kind + 1
        value == <<Convert(m, s.value)>>
        payload == IF s.record = 0 THEN value
                   ELSE IF meta \in OriginalIds(m) THEN RecordData(m, s.record)
                   ELSE value \o RecordData(m, s.record)
        saved == [w EXCEPT !.callstacks = Saved(@, stackKey),
                           !.labels = Saved(@, s.attributes)]
    IN  WriteBlob(m, saved,
            [meta |-> meta, cpu |-> s.cpu, pid |-> pid, tid |-> s.tid,
             stack |-> SavedId(w.callstacks, stackKey) + 1,
             label |-> SavedId(w.labels, s.attributes) + 1,
             time |-> s.time, payload |-> payload])

CreatedName(w, time) ==
    IF time < w.sync THEN "ExistingProcess" ELSE "ProcessCreate"

(* write_mapping_metadata_event: once for each file.                       *)
WriteMappingMetadata(m, w, pid, map) ==
    IF map.node = 0 \/ map.node \in DOMAIN w.metas THEN w
    ELSE LET id == Cardinality(DOMAIN w.metas) + 1
         IN  WriteBlob(m, [w EXCEPT !.metas = (map.node :> id) @@ @],
                SystemEvent(m, pid, map.time, "ProcessMappingMetadata",
                            <<id, map.node>>))

(* write_mapping_symbol_replay_event.                                      *)
WriteSymbol(m, w, pid, map, symbol) ==
    WriteBlob(m, [w EXCEPT !.symbol = @ + 1],
        SystemEvent(m, pid, map.time, "ProcessSymbol",
                    <<w.symbol, map.id, symbol.start, symbol.end, symbol.name>>))

(* write_mapping_replay_event, and the symbols of the mapping.             *)
WriteMapped(m, w, pid, map) ==
    LET meta == IF map.node = 0 THEN 0 ELSE w.metas[map.node]
    IN  WriteBlob(m, w, SystemEvent(m, pid, map.time, "ProcessMapping",
                    <<map.id, map.start, map.end, map.off, map.file, meta>>))
WriteMapping(m, w, pid, map) ==
    FoldLeft(LAMBDA v, symbol : WriteSymbol(m, v, pid, map, symbol),
             WriteMapped(m, WriteMappingMetadata(m, w, pid, map), pid, map),
             SetToSeq(map.syms))

(* write_replay_event: the call of a round of replay_by_time, in which the *)
(* process has e and the replay is at r.                                   *)
WriteSampled(m, w, e, call) ==
    IF call.sample = 0 THEN w
    ELSE WriteSample(m, w, call.pid, e.samples[call.sample])
WriteCreated(m, w, e, call, time) ==
    IF ~call.created THEN w
    ELSE WriteBlob(m, w, SystemEvent(m, call.pid, time, CreatedName(w, time),
                                     <<e.nspid>>))
WriteExited(m, w, call, time) ==
    IF ~call.exited THEN w
    ELSE WriteBlob(m, w, SystemEvent(m, call.pid, time, "ProcessExit", << >>))
WriteMaps(m, w, e, call) ==
    IF call.map = 0 THEN w ELSE WriteMapping(m, w, call.pid, e.maps[call.map])
WriteReplay(m, w, e, call, time) ==
    WriteMaps(m, WriteExited(m, WriteCreated(m, WriteSampled(m, w, e, call),
                                             e, call, time), call, time), e, call)

(* finish.                                                                 *)
FinishTrace(m, w, end) ==
    LET flushed == IF w.block = << >> THEN w ELSE FlushEventBlock(m, w, w.flush, end)
    IN  [flushed EXCEPT !.output = @ \o <<SeqBlock(end), [kind |-> "end"]>>]
=============================================================================

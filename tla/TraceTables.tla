---------------------------- MODULE TraceTables -----------------------------
(***************************************************************************)
(* The tables that an export machine keeps beside its processes, without   *)
(* state of their own: interned slices (intern.rs), attributes and their   *)
(* sources (helpers/exporting/attributes.rs), records, kinds and spans     *)
(* (helpers/exporting/mod.rs, record.rs, span.rs).                         *)
(*                                                                         *)
(* A string is a slice, as a call chain is; ids count from 0.  The machine *)
(* is a record of its tables.  An event is a record of what its trace      *)
(* context answers: 0, or an empty slice, stands for None.                 *)
(***************************************************************************)
EXTENDS Integers, Sequences, SequencesExt, FiniteSets, FiniteSetsExt, TLC

CONSTANTS
    Hash(_),     \* XxHash64 of a slice (external)
    BucketsAsked \* bucket_count: how many buckets a table is asked to have

ASSUME BucketsAssumption == BucketsAsked \in 1 .. 64

-----------------------------------------------------------------------------
(* InternedSlices.                                                         *)

(* new: the buckets are a power of two, their mask picks one.              *)
BucketCount == Min({n \in {2 ^ k : k \in 0 .. 6} : n >= BucketsAsked})
NewInterned == [buckets |-> [b \in 0 .. BucketCount - 1 |-> << >>],
                slices |-> << >>, spans |-> << >>]
BucketOf(slice) == Hash(slice) % BucketCount

HasId(t, id) == id < Len(t.spans)
FromId(t, id) == SubSeq(t.slices, t.spans[id + 1].start + 1, t.spans[id + 1].end)

(* The entries of the slice's bucket that are the slice.                   *)
ChainHits(t, slice) ==
    LET chain == t.buckets[BucketOf(slice)]
    IN  {k \in DOMAIN chain : /\ chain[k].hash = Hash(slice)
                              /\ chain[k].len = Len(slice)
                              /\ FromId(t, chain[k].index) = slice}

(* find_id; -1 stands for None.                                            *)
FindId(t, slice) ==
    LET hits == ChainHits(t, slice)
    IN  IF hits = {} THEN -1 ELSE t.buckets[BucketOf(slice)][Min(hits)].index

(* to_id: the id, and the table with the slice in it.                      *)
IdIn(t, slice) ==
    IF FindId(t, slice) # -1 THEN FindId(t, slice) ELSE Len(t.spans)
Intern(t, slice) ==
    IF FindId(t, slice) # -1 THEN t
    ELSE [spans |-> Append(t.spans, [start |-> Len(t.slices),
                                     end |-> Len(t.slices) + Len(slice)]),
          buckets |-> [t.buckets EXCEPT ![BucketOf(slice)] =
                        Append(@, [hash |-> Hash(slice), len |-> Len(slice),
                                   index |-> Len(t.spans)])],
          slices |-> t.slices \o slice]

(* The lists that are searched from their start: kinds, record types and   *)
(* a graph's resolvables.                                                  *)
IndexIn(list, item) ==
    LET at == {i \in DOMAIN list : list[i] = item}
    IN  IF at = {} THEN Len(list) ELSE Min(at) - 1
Listed(list, item) == IF item \in ToSet(list) THEN list ELSE Append(list, item)

-----------------------------------------------------------------------------
(* Records and attributes.                                                 *)
NoRecord == [type |-> 0, offset |-> 0, length |-> 0]
NoAttributes == [attributes |-> << >>, associated |-> << >>]
NoRecordType == [name |-> << >>, id |-> 0, fields |-> << >>, original |-> FALSE]

(* ExportMachine::new: index 0 of each table is what stands for nothing;   *)
(* the attribute sources intern their names.                               *)
Names == <<<<"Version">>, <<"OpCode">>, <<"TraceId">>, <<"SpanId">>,
           <<"ActivityId">>, <<"RelatedActivityId">>, <<"CGroup">>>>
NewTables == [strings |-> FoldLeft(Intern, Intern(NewInterned, << >>), Names),
              callstacks |-> NewInterned, records |-> <<NoRecord>>,
              recordData |-> << >>, recordTypes |-> <<NoRecordType>>,
              attributes |-> <<NoAttributes>>, kinds |-> << >>, spans |-> << >>,
              opCodes |-> << >>, cgroups |-> << >>]

(* create_record! and the data of a record.                                *)
CreateRecord(m, type, data) ==
    [m EXCEPT !.records = Append(@, [type |-> type, offset |-> Len(m.recordData),
                                     length |-> Len(data)]),
              !.recordData = @ \o data]
RecordData(m, id) ==
    LET r == m.records[id + 1]
    IN  SubSeq(m.recordData, r.offset + 1, r.offset + r.length)

Pair(m, name, kind, value) ==
    [name |-> FindId(m.strings, name), kind |-> kind, value |-> value]
PushUniqueAttributes(m, a) == [m EXCEPT !.attributes = Append(@, a)]

(* A source with a cache: the attributes of a value are made once and      *)
(* associated from then on.  st is the machine and what is being built.    *)
Cached(st, field, key, pairs) ==
    LET m == st.m
        id == IF key \in DOMAIN m[field] THEN m[field][key] ELSE Len(m.attributes)
        made == PushUniqueAttributes(m, [NoAttributes EXCEPT !.attributes = pairs])
    IN  [m |-> IF key \in DOMAIN m[field] THEN m
               ELSE [made EXCEPT ![field] = (key :> id) @@ @],
         a |-> [st.a EXCEPT !.associated = Append(@, id)]]

(* A source without: the value becomes a record.                           *)
Recorded(st, name, data) ==
    IF data = << >> THEN st
    ELSE [m |-> CreateRecord(st.m, 0, data),
          a |-> [st.a EXCEPT !.attributes = Append(@,
                    Pair(st.m, name, "record", Len(st.m.records)))]]

(* Mutant of VersionOpCodeSource: the key is the version alone. *)
VersionOpCodeSource_ByVersion(st, e) ==
    IF e.version = 0 /\ e.op = 0 THEN st
    ELSE Cached(st, "opCodes", e.version,
                <<Pair(st.m, <<"Version">>, "value", e.version),
                  Pair(st.m, <<"OpCode">>, "value", e.op)>>)

VersionOpCodeSource(st, e) ==
    IF e.version = 0 /\ e.op = 0 THEN st
    ELSE Cached(st, "opCodes", e.version * 65536 + e.op,
                <<Pair(st.m, <<"Version">>, "value", e.version),
                  Pair(st.m, <<"OpCode">>, "value", e.op)>>)
TraceContextSource(st, e) ==
    Recorded(Recorded(st, <<"TraceId">>, e.trace), <<"SpanId">>, e.span)
ActivityIdSource(st, e) ==
    Recorded(Recorded(st, <<"ActivityId">>, e.activity),
             <<"RelatedActivityId">>, e.related)
CgroupSource(st, e) ==
    IF e.cgroup = 0 THEN st
    ELSE Cached(st, "cgroups", e.cgroup,
                <<Pair(st.m, <<"CGroup">>, "value", e.cgroup)>>)

(* default_attributes with the sources of the recorder: the machine after  *)
(* it and the id, 0 for None.  A single association is used as it is.      *)
AttributesOf(st) ==
    IF st.a.attributes # << >> \/ Len(st.a.associated) > 1
    THEN [m |-> PushUniqueAttributes(st.m, st.a), id |-> Len(st.m.attributes)]
    ELSE IF st.a.associated # << >>
    THEN [m |-> st.m, id |-> st.a.associated[1]]
    ELSE [m |-> st.m, id |-> 0]
DefaultAttributes(m, e) ==
    AttributesOf(CgroupSource(ActivityIdSource(TraceContextSource(
        VersionOpCodeSource([m |-> m, a |-> NoAttributes], e), e), e), e))

(* ExportMachine::attributes with an ExportAttributeWalker: attributes are *)
(* collected from the last id pushed on, each id once.                     *)
PushId(w, id) == IF id \in w.seen THEN w
                 ELSE [w EXCEPT !.seen = @ \cup {id}, !.ids = Append(@, id)]
WalkStep(m, w) ==
    LET a == m.attributes[Last(w.ids) + 1]
        popped == [w EXCEPT !.ids = Front(@),
                            !.out = @ \o a.attributes]
    IN  IF w.ids = << >> THEN w ELSE FoldLeft(PushId, popped, a.associated)
WalkAttributes(m, id) ==
    LET start == PushId([ids |-> << >>, seen |-> {}, out |-> << >>], id)
    IN  FoldLeft(LAMBDA w, n : WalkStep(m, w), start,
                 [n \in 1 .. Len(m.attributes) |-> n]).out

(* cgroup_id of a sample filter: the first such value on a walk of its     *)
(* own; the value of a pair is 0 when it has none.                         *)
CgroupOf(m, id) ==
    LET found == SelectSeq(WalkAttributes(m, id), LAMBDA p :
                    /\ p.name = FindId(m.strings, <<"CGroup">>)
                    /\ p.kind = "value")
    IN  IF id = 0 \/ found = << >> THEN 0 ELSE found[1].value

(* span_to_value and the default converter.                                *)
SpanToValue(m, span) == [m EXCEPT !.spans = Append(@, span)]
Convert(m, value) ==
    IF value.type # "span" THEN value.v
    ELSE IF value.v < Len(m.spans)
    THEN m.spans[value.v + 1].end - m.spans[value.v + 1].start ELSE 0

(* make_sample: the first frame is the address, the others are interned;   *)
(* without frames there is the address 0 and no chain.                     *)
MakeSample(m, e, value) ==
    LET frames == IF e.frames = << >> THEN <<0>> ELSE e.frames
        chain == Tail(frames)
    IN  [m |-> [m EXCEPT !.callstacks = Intern(@, chain),
                         !.kinds = Listed(@, e.kind)],
         sample |-> [time |-> e.time, value |-> value, cpu |-> e.cpu,
                     kind |-> IndexIn(m.kinds, e.kind), tid |-> e.tid,
                     ip |-> frames[1], callstack |-> IdIn(m.callstacks, chain),
                     record |-> 0, attributes |-> 0, of |-> e]]
=============================================================================

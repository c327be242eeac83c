----------------------------- MODULE PerfDecode -----------------------------
(***************************************************************************)
(* Decoding the records of the rings: PerfSession::parse_perf_data of      *)
(* perf_event/mod.rs, the trailer of perf_event/abi.rs, the time that      *)
(* RingBufDataSource::read_time looks at to merge the rings, and what a    *)
(* tracepoint's callback then reads from its payload (EventFormat).        *)
(*                                                                         *)
(* A record is described the way the kernel writes it: the pieces, one     *)
(* after the other, that the attributes of its buffer select.  The decoder *)
(* sees only the attributes, the size and the integers at its offsets.     *)
(* The fields live on from record to record.                               *)
(***************************************************************************)
EXTENDS EventFormat, TLC

CONSTANTS
    Kinds,         \* builders whose records appear
    Regs,          \* registers that with_user_regs_data asks for
    StackBytes,    \* bytes that with_user_stack_data asks for
    EventIds,      \* ids of the tracepoints that were added
    Depths,        \* frames of a call chain
    RawSizes,      \* bytes of raw data, with what the kernel pads it with
    StackSizes,    \* bytes of the stack that could be read
    OtherSizes,    \* bytes of the kernel's other records
    MaxRecords,    \* bound: records decoded in a row
    MaxFields      \* bound: fields of a payload after common_type

ASSUME KindsAssumption ==
    Kinds \subseteq {"kernel", "profiling", "cswitch", "tracepoint", "bpf"}
ASSUME SizesAssumption == Regs \in Nat /\ StackBytes \in Nat \ {0}
ASSUME ValuesAssumption ==
    /\ Depths \subseteq Nat /\ StackSizes \subseteq Nat /\ OtherSizes \subseteq Nat
    /\ RawSizes \subseteq Nat /\ \A raw \in RawSizes : (4 + raw) % 8 = 0
ASSUME BoundsAssumption == MaxRecords \in Nat /\ MaxFields \in Nat
ASSUME EventIdsAssumption == EventIds \subseteq 1 .. 255

-----------------------------------------------------------------------------
(* The attributes a buffer is opened with.                                 *)
CommonFormats == {"IDENTIFIER", "TIME", "TID"}
RawFormats(kind) == IF kind \in {"tracepoint", "bpf"} THEN {"RAW"} ELSE {}
OptionFormats == {"CALLCHAIN", "IP", "REGS_USER", "STACK_USER", "CGROUP"}

(* without_callstack, for events that do not want one.                     *)
WithoutCallstack(formats) ==
    IF formats \cap {"CALLCHAIN", "STACK_USER"} = {} THEN formats
    ELSE (formats \ {"CALLCHAIN", "STACK_USER", "REGS_USER"}) \cup {"IP"}

Attributes(kind, options) == CommonFormats \cup RawFormats(kind) \cup options

-----------------------------------------------------------------------------
(* The kernel's side (external): a sample's pieces in ABI order.           *)
Piece(field, size) == [field |-> field, size |-> size, int |-> 0]
Count(size, n) == [field |-> "int", size |-> size, int |-> n]
If(b, pieces) == IF b THEN pieces ELSE << >>

SamplePieces(a, v) ==
    If("IDENTIFIER" \in a, <<Piece("id", 8)>>) \o
    If("IP" \in a, <<Piece("ip", 8)>>) \o
    <<Piece("pid", 4), Piece("tid", 4), Piece("time", 8)>> \o
    If("CALLCHAIN" \in a, <<Count(8, v.frames), Piece("callchain", 8 * v.frames)>>) \o
    If("RAW" \in a, <<Count(4, v.raw), Piece("raw", v.raw)>>) \o
    If("REGS_USER" \in a,
       <<Count(8, v.abi), Piece("regs", IF v.abi = 0 THEN 0 ELSE 8 * Regs)>>) \o
    If("STACK_USER" \in a,
       IF v.abi = 0 THEN <<Count(8, 0)>>
       ELSE <<Count(8, StackBytes), Piece("stack", v.stack),
              Piece("unused", StackBytes - v.stack), Count(8, v.stack)>>) \o
    If("CGROUP" \in a, <<Piece("cgroup", 8)>>)

(* Any other record: its own data, then the trailer of sample_id_all.      *)
TrailerPieces(size) ==
    <<Piece("data", size), Piece("pid", 4), Piece("tid", 4), Piece("time", 8),
      Piece("id", 8)>>

Start(pieces, k) ==
    LET start[j \in 1 .. Len(pieces) + 1] ==
            IF j = 1 THEN 8 ELSE start[j - 1] + pieces[j - 1].size
    IN  start[k]

(* The positions and the integers of a record, as the kernel wrote them.   *)
Layout(pieces) ==
    [size |-> Start(pieces, Len(pieces) + 1),
     at |-> [f \in {pieces[k].field : k \in 1 .. Len(pieces)} \ {"int"} |->
               LET k == CHOOSE j \in 1 .. Len(pieces) : pieces[j].field = f
               IN  <<Start(pieces, k), Start(pieces, k) + pieces[k].size>>],
     ints |-> [o \in {Start(pieces, k) :
                        k \in {j \in 1 .. Len(pieces) : pieces[j].field = "int"}} |->
                 pieces[CHOOSE j \in 1 .. Len(pieces) :
                            pieces[j].field = "int" /\ Start(pieces, j) = o].int]]
-----------------------------------------------------------------------------
(* Payloads (external): what the producer of an event with a given format  *)
(* writes.  A tracepoint's payload begins with its id, common_type.        *)
CommonType == [type |-> "u16", loc |-> "Static", size |-> 2]

PayloadFields ==
    {[type |-> "u8", loc |-> "Static", size |-> 1],
     [type |-> "char", loc |-> "StaticString", size |-> 0],
     [type |-> "wchar", loc |-> "StaticUTF16String", size |-> 0],
     [type |-> "u8", loc |-> "StaticLenPrefixArray", size |-> 0],
     [type |-> "u16", loc |-> "StaticLenPrefixArray", size |-> 0],
     [type |-> "char", loc |-> "DynRelative", size |-> 4],
     [type |-> "char", loc |-> "DynAbsolute", size |-> 4]}

Values(f) ==
    CASE f.loc = "Static" -> {[k \in 1 .. f.size |-> 7]}
      [] f.loc = "StaticString" -> {<< >>, <<1, 2>>}
      [] f.loc = "StaticUTF16String" -> {<< >>, <<0, 1, 2, 0>>}
      [] f.loc = "StaticLenPrefixArray" -> {<< >>, <<3, 0>>}
      [] OTHER -> {<< >>, <<4, 0>>}

Dynamic(f) == f.loc \in {"DynRelative", "DynAbsolute"}

FixedLen(f, v) ==
    CASE f.loc = "StaticString" -> Len(v) + 1
      [] f.loc \in {"StaticUTF16String", "StaticLenPrefixArray"} -> Len(v) + 2
      [] Dynamic(f) -> 4
      [] OTHER -> Len(v)

FixedEnd(format, values, i) ==
    FoldLeft(LAMBDA n, j : n + FixedLen(format[j], values[j]), 0,
             [j \in 1 .. i |-> j])
DynamicStart(format, values, i) ==
    FixedEnd(format, values, Len(format)) +
    FoldLeft(LAMBDA n, j : n + (IF Dynamic(format[j]) THEN Len(values[j]) ELSE 0), 0,
             [j \in 1 .. i - 1 |-> j])

FixedBytes(format, values, i) ==
    LET f == format[i]
        v == values[i]
        at == DynamicStart(format, values, i)
    IN  CASE f.loc = "StaticString" -> v \o <<0>>
          [] f.loc = "StaticUTF16String" -> v \o <<0, 0>>
          [] f.loc = "StaticLenPrefixArray" ->
                <<Len(v) \div TryGetElementSize(f.type), 0>> \o v
          [] f.loc = "DynAbsolute" -> <<at, 0, Len(v), 0>>
          [] f.loc = "DynRelative" ->
                <<at - FixedEnd(format, values, i), 0, Len(v), 0>>
          [] OTHER -> v

Encoded(format, values) ==
    FlattenSeq([i \in 1 .. Len(format) |-> FixedBytes(format, values, i)]) \o
    FlattenSeq([i \in 1 .. Len(format) |->
                    IF Dynamic(format[i]) THEN values[i] ELSE << >>])

NoPayload == [format |-> << >>, values |-> << >>, cut |-> 0, filter |-> << >>]

(* Every payload of up to MaxFields fields, whole or cut short anywhere.   *)
Payloads(id) ==
    UNION {UNION {
        {[format |-> <<CommonType>> \o fs, values |-> <<<<id, 0>>>> \o vs, cut |-> c,
          filter |-> << >>] :
            c \in 2 .. Len(Encoded(<<CommonType>> \o fs, <<<<id, 0>>>> \o vs))} :
        vs \in {w \in [1 .. Len(fs) -> UNION {Values(f) : f \in ToSet(fs)}] :
                    \A k \in 1 .. Len(fs) : w[k] \in Values(fs[k])}} :
        fs \in UNION {[1 .. m -> PayloadFields] : m \in 1 .. MaxFields}}

(* Payloads of one field with a filter on it: numbers around the edges of  *)
(* their type, and texts as sequences of characters.                       *)
NumberPayload(id, type, b, c, op, number) ==
    [format |-> <<CommonType, [type |-> type, loc |-> "Static", size |-> Width(type)]>>,
     values |-> <<<<id, 0>>, IF Width(type) = 1 THEN <<b>> ELSE <<b, b>>>>,
     cut |-> c, filter |-> <<op, <<number>>>>]

NumericFilters(id) ==
    {NumberPayload(id, type, b, c, op, number) :
        type \in {"u8", "s8", "u16", "s16"}, b \in {0, 127, 128, 255}, c \in {3, 4},
        op \in NumericOps \cup {"contains"}, number \in {-1, 0, 127, 128, 255, 32639}}

Texts(type) ==
    IF type \in WideTypes THEN {<<1>>, <<2, 1>>, <<513, 256>>}
    ELSE {<<1>>, <<2, 1>>, <<1, 2, 1>>}

TextFilters(id) ==
    UNION {
        {[format |-> <<CommonType, f>>,
          values |-> <<<<id, 0>>, OperandBytes(f.type, text)>>,
          cut |-> 255, filter |-> <<op, part>>] :
            text \in Texts(f.type), op \in StringOps \cup {"==", "!=", ">"},
            part \in {<< >>, <<1>>, <<2>>, <<2, 1>>, <<1, 2>>}} :
        f \in {[type |-> "char", loc |-> "StaticString", size |-> 0],
               [type |-> "wchar", loc |-> "StaticUTF16String", size |-> 0]}}

-----------------------------------------------------------------------------
(* The records that may come: samples of every builder with any of the     *)
(* options, and the kernel's other records.                                *)
NoValues == [frames |-> 0, raw |-> 4, abi |-> 0, stack |-> 0]

Sample(kind, a, v, id, pay) ==
    [entry |-> "SAMPLE", kind |-> kind, a |-> a, event |-> id, pay |-> pay,
     l |-> Layout(SamplePieces(a, v))]

(* Only what the attributes select differs between samples.                *)
SampleValues(kind, a) ==
    {v \in [frames : Depths \cup {0}, raw : RawSizes \cup {4}, abi : {0, 2},
            stack : StackSizes \cup {0}] :
        /\ "CALLCHAIN" \notin a => v.frames = 0
        /\ "RAW" \notin a => v.raw = 4
        /\ a \cap {"REGS_USER", "STACK_USER"} = {} => v.abi = 0
        /\ "STACK_USER" \notin a \/ v.abi = 0 => v.stack = 0
        /\ v.stack <= StackBytes}

(* Options matter to the layout alone: tracepoints and profiling have them *)
(* all, with and without raw data.                                         *)
OptionSets(kind) ==
    IF kind \in {"tracepoint", "profiling"} THEN SUBSET OptionFormats ELSE {{}}

Samples(kind) ==
    UNION {UNION {{Sample(kind, a, v, id, NoPayload) :
                        v \in SampleValues(kind, a),
                        id \in IF options = {} THEN EventIds \cup {255} ELSE EventIds} :
                  a \in {Attributes(kind, options),
                         WithoutCallstack(Attributes(kind, options))}} :
           options \in OptionSets(kind)}

OtherEntries == {"LOST", "COMM", "EXIT", "FORK", "MMAP2", "LOST_SAMPLES",
                 "SWITCH_CPU_WIDE", "THROTTLE"}
Others(kind) ==
    {[entry |-> e, kind |-> kind, a |-> Attributes(kind, {}), event |-> 1,
      pay |-> NoPayload, l |-> Layout(TrailerPieces(size))] :
        e \in OtherEntries, size \in OtherSizes}

Records == UNION {Others(kind) \cup (IF kind = "kernel" THEN {} ELSE Samples(kind)) :
                  kind \in Kinds}

-----------------------------------------------------------------------------
(* parse_perf_data.  Each field is a range of the current record.          *)
FieldNames == {"id", "ip", "pid", "tid", "time", "address", "stream_id", "cpu",
               "period", "read", "callchain", "raw", "branch_stack", "regs",
               "stack", "cgroup"}
Unset == <<0, 0>>

VARIABLES
    fields,  \* the DataFieldRefs that callbacks share
    rec,     \* the record that was parsed last
    out,     \* what its event's callback was given
    parsed   \* history: records parsed

vars == <<fields, rec, out, parsed>>

(* The integer at an offset; at any other offset there is something else.  *)
ReadInt(l, o) == IF o \in DOMAIN l.ints THEN l.ints[o] ELSE 0

(* DataFieldRef.update and reset on the next field of the walk [o, f].     *)
Update(w, field, size) ==
    [o |-> w.o + size, f |-> [w.f EXCEPT ![field] = <<w.o, w.o + size>>]]
Reset(w, field) == [w EXCEPT !.f[field] = Unset]

DecodeFixed(a, w, format, field, size) ==
    IF format \in a THEN Update(w, field, size) ELSE Reset(w, field)

(* The fields of fixed size.  PERF_SAMPLE_ID only updates: the id of       *)
(* PERF_SAMPLE_IDENTIFIER stays.                                           *)
DecodeFixedFields(a, f) ==
    LET id == DecodeFixed(a, [o |-> 8, f |-> f], "IDENTIFIER", "id", 8)
        ip == DecodeFixed(a, id, "IP", "ip", 8)
        pid == DecodeFixed(a, ip, "TID", "pid", 4)
        tid == DecodeFixed(a, pid, "TID", "tid", 4)
        time == DecodeFixed(a, tid, "TIME", "time", 8)
        address == DecodeFixed(a, time, "ADDR", "address", 8)
        again == IF "ID" \in a THEN Update(address, "id", 8) ELSE address
        stream == DecodeFixed(a, again, "STREAM_ID", "stream_id", 8)
        cpu == DecodeFixed(a, stream, "CPU", "cpu", 8)
        period == DecodeFixed(a, cpu, "PERIOD", "period", 8)
    IN  DecodeFixed(a, period, "READ", "read", 8)

(* A field of a count, an integer of the given width, and count items.     *)
DecodeCounted(a, format, field, width, item, w, l) ==
    IF format \in a
    THEN Update([w EXCEPT !.o = @ + width], field, item * ReadInt(l, w.o))
    ELSE Reset(w, field)

Align8(k) == 8 * ((k + 7) \div 8)

(* Mutant of DecodeRaw: it is reset only with the callchain. *)
DecodeRaw_Stale(a, w, l) ==
    LET size == ReadInt(l, w.o)
        u == Update([w EXCEPT !.o = @ + 4], "raw", size)
    IN  IF "RAW" \in a THEN [u EXCEPT !.o = @ + Align8(4 + size) - (4 + size)]
        ELSE w

DecodeRaw(a, w, l) ==
    LET size == ReadInt(l, w.o)
        u == Update([w EXCEPT !.o = @ + 4], "raw", size)
    IN  IF "RAW" \in a THEN [u EXCEPT !.o = @ + Align8(4 + size) - (4 + size)]
        ELSE Reset(w, "raw")

(* The ABI word is 0, 1 or 2 and gives the bytes per register as 4 * abi.  *)
DecodeRegs(a, w, l) ==
    IF "REGS_USER" \in a
    THEN Update([w EXCEPT !.o = @ + 8], "regs", Regs * (ReadInt(l, w.o) * 4))
    ELSE Reset(w, "regs")

(* The callback is given the part of the stack that was really read.       *)
DecodeStack(a, w, l) ==
    LET size == ReadInt(l, w.o)
        start == w.o + 8
        read == ReadInt(l, start + size)
    IN  IF "STACK_USER" \notin a THEN Reset(w, "stack")
        ELSE IF size = 0 THEN [Reset(w, "stack") EXCEPT !.o = start]
        ELSE [o |-> start + size + 8,
              f |-> [w.f EXCEPT !["stack"] = <<start, start + read>>]]

UnparsedBeforeCgroup == {"WEIGHT", "DATA_SRC", "TRANSACTION", "REGS_INTR", "PHYS_ADDR"}

DecodeCgroup(a, w) ==
    IF "CGROUP" \in a /\ a \cap UnparsedBeforeCgroup = {}
    THEN Update(w, "cgroup", 8) ELSE Reset(w, "cgroup")

DecodeSample(a, l, f) ==
    LET fixed == DecodeFixedFields(a, f)
        chain == DecodeCounted(a, "CALLCHAIN", "callchain", 8, 8, fixed, l)
        raw == DecodeRaw(a, chain, l)
        branch == DecodeCounted(a, "BRANCH_STACK", "branch_stack", 8, 24, raw, l)
    IN  DecodeCgroup(a, DecodeStack(a, DecodeRegs(a, branch, l), l)).f

(* non_sampled_id_offsets, and the trailer's fields decoded from there.    *)
TrailerSize(a) ==
    LET size(format) == IF format \in a THEN 8 ELSE 0
    IN  size("TID") + size("TIME") + size("ID") + size("STREAM_ID") + size("CPU")
            + size("IDENTIFIER")

DecodeTrailer(a, l, f) ==
    LET pid == DecodeFixed(a, [o |-> l.size - TrailerSize(a), f |-> f], "TID", "pid", 4)
        tid == DecodeFixed(a, pid, "TID", "tid", 4)
        time == DecodeFixed(a, tid, "TIME", "time", 8)
        id == DecodeFixed(a, time, "ID", "id", 8)
        stream == DecodeFixed(a, id, "STREAM_ID", "stream_id", 8)
        cpu == DecodeFixed(a, stream, "CPU", "cpu", 8)
    IN  IF "IDENTIFIER" \in a THEN Update(cpu, "id", 8).f ELSE cpu.f

-----------------------------------------------------------------------------
(* Which event a record is given to, and with which data.                  *)
SwBpfOutput == 10
Config(r) == CASE r.kind = "tracepoint" -> r.event
               [] r.kind = "bpf" -> SwBpfOutput
               [] OTHER -> 0

Target(r) ==
    CASE r.entry # "SAMPLE" -> IF r.entry = "THROTTLE" THEN "none" ELSE r.entry
      [] r.entry = "SAMPLE" /\ Config(r) = SwBpfOutput -> "bpf"
      [] r.entry = "SAMPLE" /\ "RAW" \in r.a /\ Config(r) # SwBpfOutput ->
            IF r.event \in EventIds THEN "tracepoint" ELSE "none"
      [] OTHER -> r.kind

EventData(r, f) ==
    CASE r.entry # "SAMPLE" -> <<8, r.l.size>>
      [] r.entry = "SAMPLE" /\ "RAW" \in r.a -> f["raw"]
      [] OTHER -> <<0, r.l.size>>

(* What the callback of the event reads: every field, and the filter.  The *)
(* zeros that a tracepoint's payload is padded with are left out (events   *)
(* of other sources have none).                                            *)
Data(pay) ==
    LET bytes == Encoded(pay.format, pay.values)
    IN  SubSeq(bytes, 1, Min({pay.cut, Len(bytes)}))

Callback(pay) ==
    [read |-> [i \in 1 .. Len(pay.format) |-> FieldData(pay.format, i, Data(pay))],
     filter |-> IF pay.filter = << >> THEN "none"
                ELSE Filter(pay.format[2].type, pay.filter[1], pay.filter[2],
                            FieldData(pay.format, 2, Data(pay)))]

Process(r, f) ==
    [target |-> Target(r), data |-> EventData(r, f), callback |-> Callback(r.pay)]

ParsePerfData(r) ==
    /\ fields' = IF r.entry = "SAMPLE" THEN DecodeSample(r.a, r.l, fields)
                 ELSE DecodeTrailer(r.a, r.l, fields)
    /\ rec' = r
    /\ out' = Process(r, fields')

(* read_time: where the time and the id of a record are looked at before   *)
(* it is decoded (CpuRingBuf::new computes a sample's).                    *)
(* Mutant of ReadTimeOffset: the instruction pointer is forgotten. *)
ReadTimeOffset_NoIp(r) ==
    IF r.entry # "SAMPLE" THEN r.l.size - 16
    ELSE 8 + 8 * Cardinality({"IDENTIFIER", "TID"} \cap r.a)

ReadTimeOffset(r) ==
    IF r.entry # "SAMPLE" THEN r.l.size - 16
    ELSE 8 + 8 * Cardinality({"IDENTIFIER", "IP", "TID"} \cap r.a)

ReadIdOffset(r) == IF r.entry # "SAMPLE" THEN r.l.size - 8 ELSE 8

-----------------------------------------------------------------------------
Init ==
    /\ fields = [f \in FieldNames |-> Unset]
    /\ rec = << >> /\ out = << >> /\ parsed = 0

(* Payloads differ from each other only for the callback: they come with   *)
(* the plainest sample, and nothing follows.                               *)
PayloadStep(pay) ==
    /\ parsed' = MaxRecords
    /\ ParsePerfData(Sample("tracepoint", Attributes("tracepoint", {}),
                            [NoValues EXCEPT !.raw = Align8(4 + Len(Data(pay))) - 4],
                            Min(EventIds), pay))

RecordStep(r) == parsed' = parsed + 1 /\ ParsePerfData(r)

Next ==
    \/ parsed < MaxRecords /\ \E r \in Records : RecordStep(r)
    \/ parsed = 0 /\ \E pay \in Payloads(Min(EventIds)) : PayloadStep(pay)
    \/ parsed = 0 /\ \E pay \in NumericFilters(Min(EventIds)) : PayloadStep(pay)
    \/ parsed = 0 /\ \E pay \in TextFilters(Min(EventIds)) : PayloadStep(pay)

Spec == Init /\ [][Next]_vars

-----------------------------------------------------------------------------
(* Properties.                                                             *)

(* Whatever records came before and whatever its attributes, a sample's    *)
(* fields are where the kernel put them, and a field it does not have is   *)
(* unset and not left over from an earlier record.  The fields of another  *)
(* record are those of its trailer, and the callback's data begins behind  *)
(* the header.                                                             *)
FieldsExact ==
    parsed > 0 =>
        LET at == rec.l.at
        IN  IF rec.entry = "SAMPLE"
            THEN \A f \in FieldNames :
                    fields[f] = IF f \in DOMAIN at THEN at[f] ELSE Unset
            ELSE /\ \A f \in {"pid", "tid", "time", "id"} : fields[f] = at[f]
                 /\ fields["cpu"] = Unset /\ fields["stream_id"] = Unset
                 /\ out.data[1] = at["data"][1]

(* The merge of the rings orders records by the very time, and resolves    *)
(* them by the very id, that their callbacks see: read_time and            *)
(* parse_perf_data compute the two positions independently.                *)
MergeSeesCallbackTime ==
    parsed > 0 =>
        /\ fields["time"] = LET t == ReadTimeOffset(rec) IN <<t, t + 8>>
        /\ fields["id"] = LET i == ReadIdOffset(rec) IN <<i, i + 8>>

Payload == parsed > 0 /\ rec.pay # NoPayload
Whole(pay) == pay.cut >= Len(Encoded(pay.format, pay.values))

(* The payload ends within a character of a UTF-16 field before field i.   *)
SplitsCharacter(pay, i) ==
    \E j \in 1 .. i - 1 :
        /\ pay.format[j].loc = "StaticUTF16String"
        /\ pay.cut < FixedEnd(pay.format, pay.values, j)
        /\ pay.cut > FixedEnd(pay.format, pay.values, j - 1)
        /\ (pay.cut - FixedEnd(pay.format, pay.values, j - 1)) % 2 = 1

(* A field is found behind any strings and arrays: from a whole payload    *)
(* every closure gets exactly the bytes that the producer wrote.  One that *)
(* ends early never makes a closure slice outside of it, and never gives   *)
(* the bytes of one field for another: the callback gets the beginning of  *)
(* the field, or nothing.  (Unless it ends within a wide character: the    *)
(* odd byte is then taken for the next field.)                             *)
PayloadExact ==
    Payload =>
        /\ Whole(rec.pay) => out.callback.read = rec.pay.values
        /\ \A i \in 1 .. Len(rec.pay.format) :
                /\ out.callback.read[i] # Panic
                /\ ~SplitsCharacter(rec.pay, i) =>
                    IsPrefix(out.callback.read[i], rec.pay.values[i])

Characters(type, bytes) ==
    IF type \in WideTypes
    THEN [k \in 1 .. Len(bytes) \div 2 |-> U16(bytes, 2 * (k - 1))] ELSE bytes

(* What a filter means: the comparison of the numbers, or of the texts     *)
(* character by character; none if the operation or the value does not     *)
(* fit the field.                                                          *)
Meaning(type, op, operand, bytes) ==
    LET text == Characters(type, bytes)
    IN  CASE type \notin StringTypes ->
                IF op \in NumericOps /\ Parses(type, operand[1])
                THEN Bool(Compare(op, FromNeBytes(type, bytes), operand[1])) ELSE "none"
          [] op \in {"==", "equals"} -> Bool(text = operand)
          [] op \in {"!=", "not_equals"} -> Bool(text # operand)
          [] op = "starts_with" -> Bool(IsPrefix(operand, text))
          [] op = "ends_with" -> Bool(IsSuffix(operand, text))
          [] op = "contains" -> Bool(HasWindow(text, operand))
          [] op = "not_contains" -> Bool(~HasWindow(text, operand))
          [] OTHER -> "none"

Filtered == Payload /\ rec.pay.filter # << >> /\ Whole(rec.pay)
FilterMeans ==
    Meaning(rec.pay.format[2].type, rec.pay.filter[1], rec.pay.filter[2],
            rec.pay.values[2])

(* A filter on a number compares it in its own width and sign, and one on  *)
(* a text by its characters.  (contains looks for bytes: an empty value    *)
(* panics, and a wide one may match across characters.)                    *)
FilterExact ==
    Filtered /\ rec.pay.filter[1] \notin {"contains", "not_contains"} =>
        out.callback.filter = FilterMeans
=============================================================================

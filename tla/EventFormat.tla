---------------------------- MODULE EventFormat -----------------------------
(***************************************************************************)
(* How a callback finds a field in the payload of an event:                *)
(* EventFormat of event/mod.rs (get_data_with_offset_direct, the data      *)
(* closure with its skips, the filter closure).  Positions are 0-based and *)
(* half-open as in the code; a slice outside the data is a panic.          *)
(***************************************************************************)
EXTENDS Integers, Sequences, SequencesExt, FiniteSets, FiniteSetsExt

(* A field is a record [type, loc, size]; a format is a sequence of them.  *)
LocationTypes == {"Static", "StaticString", "StaticUTF16String",
                  "StaticLenPrefixArray", "DynRelative", "DynAbsolute"}

Empty == << >>
Panic == <<-1>>
None == <<-2>>

Slice(data, start, end) ==
    IF start <= end /\ end <= Len(data) THEN SubSeq(data, start + 1, end)
    ELSE Panic

U16(data, at) == data[at + 1] + 256 * data[at + 2]

(* Bytes before the first NUL, or before the first NUL code unit.          *)
StrLen(data, at) ==
    Min({n \in 0 .. Len(data) - at : at + n = Len(data) \/ data[at + n + 1] = 0})
Units(data, at) == (Len(data) - at) \div 2
WStrLen(data, at) ==
    Min({n \in 0 .. Units(data, at) :
            n = Units(data, at) \/ U16(data, at + 2 * n) = 0})

(* try_get_element_size: 0 is None.                                        *)
TryGetElementSize(type) ==
    CASE type \in {"u8", "s8", "char", "string", "wstring", "counted_string",
                   "counted_wstring"} -> 1
      [] type \in {"u16", "s16"} -> 2
      [] OTHER -> 0

(* The producers of formats give each field the sum of the earlier sizes   *)
(* as its offset.                                                          *)
Offset(format, i) == FoldLeft(LAMBDA n, f : n + f.size, 0, SubSeq(format, 1, i - 1))

(* The length-prefixed array; without a size its elements are bytes.       *)
LenPrefixed(size, at, data) ==
    IF Len(data) - at < 2 THEN Empty
    ELSE LET bytes == U16(data, at) * (IF size = 0 THEN 1 ELSE size)
         IN  IF 2 + bytes > Len(data) - at THEN Empty
             ELSE Slice(data, at + 2, at + 2 + bytes)

(* The data that a dynamic field's descriptor points to.                   *)
Described(loc, at, data) ==
    LET base == IF loc = "DynRelative" THEN at + 4 ELSE 0
        start == base + U16(data, at)
        end == start + U16(data, at + 2)
    IN  IF end > Len(data) THEN Empty ELSE Slice(data, start, end)

(* get_data_with_offset_direct                                             *)
GetDataDirect(size, loc, at, data) ==
    CASE loc = "Static" ->
            IF at + size > Len(data) THEN Empty ELSE Slice(data, at, at + size)
      [] loc = "StaticString" ->
            IF at > Len(data) THEN Empty
            ELSE Slice(data, at, at + StrLen(data, at))
      [] loc = "StaticUTF16String" ->
            IF at > Len(data) THEN Empty
            ELSE Slice(data, at, at + 2 * WStrLen(data, at))
      [] loc = "StaticLenPrefixArray" ->
            LenPrefixed(size, at, data)
      [] OTHER ->
            IF at + 4 > Len(data) THEN Empty ELSE Described(loc, at, data)

(* Mutant of SkipField: the NUL that ends a string is not skipped. *)
SkipField_KeepsNul(skipped, skip, data) ==
    LET at == skipped + skip.offset
    IN  IF skipped = -1 \/ at > Len(data) THEN -1
        ELSE CASE skip.loc = "StaticString" -> skipped + StrLen(data, at)
               [] skip.loc = "StaticUTF16String" ->
                    skipped + 2 * WStrLen(data, at)
               [] OTHER ->
                    IF Len(data) - at < 2 THEN -1
                    ELSE skipped + 2 + skip.size * U16(data, at)

(* One turn of the loop over the skips in get_field_data_closure: the      *)
(* bytes skipped so far, or -1 after a skip that is out of bounds.         *)
SkipField(skipped, skip, data) ==
    LET at == skipped + skip.offset
    IN  IF skipped = -1 \/ at > Len(data) THEN -1
        ELSE CASE skip.loc = "StaticString" ->
                    skipped + Min({StrLen(data, at) + 1, Len(data) - at})
               [] skip.loc = "StaticUTF16String" ->
                    skipped + 2 * Min({WStrLen(data, at) + 1, Units(data, at)})
               [] OTHER ->
                    IF Len(data) - at < 2 THEN -1
                    ELSE skipped + 2 + skip.size * U16(data, at)

(* The fields before field i whose length only the data tells, and whether *)
(* the closure can be made: each is of a kind that can be skipped.         *)
Skips(format, i) ==
    LET dynamic == SelectSeq([j \in 1 .. i - 1 |-> j],
                             LAMBDA j : format[j].size = 0)
    IN  [k \in 1 .. Len(dynamic) |->
            [loc |-> format[dynamic[k]].loc,
             size |-> TryGetElementSize(format[dynamic[k]].type),
             offset |-> Offset(format, dynamic[k])]]

Skippable(skip) ==
    \/ skip.loc \in {"StaticString", "StaticUTF16String"}
    \/ skip.loc = "StaticLenPrefixArray" /\ skip.size # 0

(* try_get_field_data_closure, and what the closure returns for the data.  *)
FieldData(format, i, data) ==
    LET field == format[i]
        counted == field.size = 0 /\ field.loc = "StaticLenPrefixArray"
        size == IF counted THEN TryGetElementSize(field.type) ELSE field.size
        skips == Skips(format, i)
        skipped == FoldLeft(LAMBDA n, s : SkipField(n, s, data), 0, skips)
    IN  CASE \E k \in 1 .. Len(skips) : ~Skippable(skips[k]) -> None
          [] counted /\ size = 0 -> None
          [] skipped = -1 -> Empty
          [] OTHER -> GetDataDirect(size, field.loc,
                                    Offset(format, i) + skipped, data)

-----------------------------------------------------------------------------
(* try_get_field_filter_closure.  The operand stands for the string that   *)
(* is compared with: its characters, or <<n>> for one that parses to n.    *)
StringTypes == {"char", "string", "wchar", "wstring"}
WideTypes == {"wchar", "wstring"}
NumericOps == {"==", "!=", ">", ">=", "<", "<="}
StringOps == {"contains", "not_contains", "starts_with", "ends_with",
              "equals", "not_equals"}

Width(type) == CASE type \in {"u8", "s8"} -> 1 [] type \in {"u16", "s16"} -> 2
                 [] OTHER -> 0
Signed(type) == type \in {"s8", "s16"}

(* from_ne_bytes, in two's complement for the signed types.                *)
FromNeBytes(type, bytes) ==
    LET n == FoldLeft(LAMBDA acc, k : acc + bytes[k] * 256 ^ (k - 1), 0,
                      [k \in 1 .. Len(bytes) |-> k])
    IN  IF Signed(type) /\ n >= 256 ^ Len(bytes) \div 2
        THEN n - 256 ^ Len(bytes) ELSE n

Parses(type, n) ==
    LET range == 256 ^ Width(type)
    IN  IF Signed(type) THEN n >= -(range \div 2) /\ n < range \div 2
        ELSE n >= 0 /\ n < range

Compare(op, a, b) ==
    CASE op = "==" -> a = b [] op = "!=" -> a # b
      [] op = ">" -> a > b [] op = ">=" -> a >= b
      [] op = "<" -> a < b [] op = "<=" -> a <= b

(* The bytes of the operand: a wide character is its low 16 bits.          *)
OperandBytes(type, text) ==
    IF type \in WideTypes
    THEN FlattenSeq([k \in 1 .. Len(text) |-> <<text[k] % 256,
                                               (text[k] \div 256) % 256>>])
    ELSE text

Trimmed(type, bytes) ==
    IF type \in WideTypes THEN SubSeq(bytes, 1, 2 * WStrLen(bytes, 0))
    ELSE SubSeq(bytes, 1, StrLen(bytes, 0))

HasWindow(bytes, part) ==
    \E k \in 0 .. Len(bytes) - Len(part) : SubSeq(bytes, k + 1, k + Len(part)) = part

(* "==" and "!=" on a text mean equals and not_equals.                     *)
Operation(type, op) ==
    IF type \in StringTypes
    THEN CASE op = "==" -> "equals" [] op = "!=" -> "not_equals" [] OTHER -> op
    ELSE op

Bool(b) == IF b THEN "true" ELSE "false"

StringFilter(type, op, text, bytes) ==
    LET part == OperandBytes(type, text)
        whole == Trimmed(type, bytes)
    IN  CASE op \in {"contains", "not_contains"} ->
                IF part = Empty THEN "panic"
                ELSE Bool(HasWindow(bytes, part) <=> op = "contains")
          [] op = "starts_with" -> Bool(IsPrefix(part, bytes))
          [] op = "ends_with" -> Bool(IsSuffix(part, whole))
          [] op = "equals" -> Bool(part = whole)
          [] op = "not_equals" -> Bool(part # whole)

(* Mutant of NumericFilter: every number is compared as unsigned. *)
NumericFilter_Unsigned(type, op, n, bytes) ==
    IF Width(type) = 0 \/ ~Parses(type, n) THEN "none"
    ELSE Bool(Len(bytes) = Width(type) /\ Compare(op, FromNeBytes("u8", bytes), n))

NumericFilter(type, op, n, bytes) ==
    IF Width(type) = 0 \/ ~Parses(type, n) THEN "none"
    ELSE Bool(Len(bytes) = Width(type) /\ Compare(op, FromNeBytes(type, bytes), n))

Filter(type, operation, operand, bytes) ==
    LET op == Operation(type, operation)
    IN  IF op \in NumericOps THEN NumericFilter(type, op, operand[1], bytes)
        ELSE IF type \in StringTypes /\ op \in StringOps
             THEN StringFilter(type, op, operand, bytes)
             ELSE "none"
=============================================================================

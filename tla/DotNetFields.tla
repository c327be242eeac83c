---------------------------- MODULE DotNetFields ----------------------------
(***************************************************************************)
(* The blob of an event's fields (helpers/dotnet/nettrace.rs): the parser, *)
(* and what a runtime writes.                                              *)
(***************************************************************************)
EXTENDS DotNetMeta, TLC

-----------------------------------------------------------------------------
(* The fields.                                                             *)

Object == 1
ArrayType == 19

(* The type codes, with the type name and the size of the field.           *)
FieldTypes ==
    (1 :> <<"object", 0>>) @@ (3 :> <<"u32", 4>>) @@ (4 :> <<"u16", 2>>) @@
    (5 :> <<"s8", 1>>) @@ (6 :> <<"u8", 1>>) @@ (7 :> <<"s16", 2>>) @@
    (8 :> <<"u16", 2>>) @@ (9 :> <<"s32", 4>>) @@ (10 :> <<"u32", 4>>) @@
    (11 :> <<"s64", 8>>) @@ (12 :> <<"u64", 8>>) @@ (13 :> <<"float", 4>>) @@
    (14 :> <<"double", 8>>) @@ (16 :> <<"u8", 16>>) @@ (17 :> <<"u8", 16>>) @@
    (18 :> <<"string", 0>>) @@ (19 :> <<"array", 0>>)

NoType == 0

ReadInt(toks, none) == IF toks = <<>> THEN none ELSE Head(toks).int

ParseType(toks) ==
    LET code == ReadInt(toks, NoType)
    IN IF code \in DOMAIN FieldTypes THEN code ELSE NoType

(* A string that is not there reads as empty.                              *)
ReadString(toks) == IF toks = <<>> THEN "" ELSE Head(toks).str
SkipToken(toks) == IF toks = <<>> THEN toks ELSE Tail(toks)

(* append_field: the offset is the end of the field before.                *)
AppendField(format, name, code, array) ==
    LET offset == IF format = <<>> THEN 0
                  ELSE Last(format).offset + Last(format).size
    IN Append(format,
        [name |-> name, type |-> FieldTypes[code][1], array |-> array,
         offset |-> offset,
         size |-> IF array THEN 0 ELSE FieldTypes[code][2]])

Parsed(rest, format) == [rest |-> rest, format |-> format]

(* The count, which is 0 when V2Params follow: their length, the tag 2 and *)
(* the real count.                                                         *)
V2(toks) == ReadInt(toks, 1) = 0 /\ Len(toks) > 3
FieldCount(toks) == IF V2(toks) THEN toks[4].int ELSE ReadInt(toks, 0)
AfterCount(toks) == IF V2(toks) THEN SubSeq(toks, 5, Len(toks))
                    ELSE SkipToken(toks)

RECURSIVE ParseObject(_, _, _)
RECURSIVE ParseFields(_, _, _, _, _)

(* A field of V2Params has its size: the next one starts there, whatever   *)
(* was read of this one.                                                   *)
AfterField(next, rest, v2) == IF v2 THEN next ELSE rest

(* One field and those after it.                                           *)
ParseFields(toks, count, v2, format, depth) ==
    LET size == ReadInt(toks, 0)
        next == SubSeq(toks, size + 1, Len(toks))
        first == IF v2 THEN SkipToken(toks) ELSE toks
        name2 == ReadString(first)
        typed == IF v2 THEN SkipToken(first) ELSE first
        code == ParseType(typed)
        rest == SkipToken(typed)
        name == IF v2 THEN name2 ELSE ReadString(rest)
        named == IF v2 THEN rest ELSE SkipToken(rest)
        Go(after, f) ==
            ParseFields(AfterField(next, after, v2), count - 1, v2, f, depth)
        elem == ParseType(rest)
        object == ParseObject(rest, format, depth + 1)
    IN IF count = 0 \/ (v2 /\ (toks = <<>> \/ size > Len(toks)))
       THEN Parsed(toks, format)
       ELSE IF code = NoType THEN Parsed(typed, format)
       ELSE IF code = Object
            THEN Go(IF v2 THEN object.rest ELSE SkipToken(object.rest),
                    object.format)
       ELSE IF code = ArrayType
            THEN IF elem = NoType THEN Parsed(rest, format)
                 ELSE IF elem \in {Object, ArrayType} THEN Parsed(<<>>, format)
                 ELSE Go(SkipToken(rest),
                         AppendField(format, name2, elem, TRUE))
       ELSE Go(named, AppendField(format, name, code, FALSE))

(* A depth of 32 at most.                                                  *)
ParseObject(toks, format, depth) ==
    IF depth > 32 \/ toks = <<>> THEN Parsed(<<>>, format)
    ELSE ParseFields(AfterCount(toks), FieldCount(toks), V2(toks), format, depth)

FieldsParser(toks) == ParseObject(toks, <<>>, 1).format

-----------------------------------------------------------------------------
(* What a runtime writes, from the description of an event: the reference  *)
(* for the parser.  A field is [name, type], with the fields of an object, *)
(* the element type of an array, or `more' tokens that a newer runtime     *)
(* adds to a field of V2Params.                                            *)

RECURSIVE FieldTokens(_, _)
RECURSIVE ObjectTokens(_, _)

FieldTokens(f, v2) ==
    LET inner == CASE f.type = Object -> ObjectTokens(f.fields, v2)
                   [] f.type = ArrayType -> <<Num(f.elem)>>
                   [] OTHER -> [i \in 1 .. f.more |-> Num(0)]
    IN IF v2 THEN <<Num(Len(inner) + 3), Txt(f.name), Num(f.type)>> \o inner
       ELSE <<Num(f.type)>> \o inner \o <<Txt(f.name)>>

ObjectTokens(fields, v2) ==
    LET all == FlattenSeq([i \in DOMAIN fields |-> FieldTokens(fields[i], v2)])
    IN IF v2 THEN <<Num(0), Num(Len(all) + 2), Num(2), Num(Len(fields))>> \o all
       ELSE <<Num(Len(fields))>> \o all

(* The leaves of a description, which are the fields of a flat format.     *)
RECURSIVE Leaves(_)
Leaves(fields) ==
    FlattenSeq([i \in DOMAIN fields |->
        IF fields[i].type = Object THEN Leaves(fields[i].fields)
        ELSE <<fields[i]>>])

(* The layout that a description says.                                     *)
LayoutOf(fields) ==
    LET all == Leaves(fields)
        Step(format, f) ==
            AppendField(format, f.name,
                        IF f.type = ArrayType THEN f.elem ELSE f.type,
                        f.type = ArrayType)
    IN FoldLeft(Step, <<>>, all)
=============================================================================

------------------------------ MODULE MCDotNet ------------------------------
(***************************************************************************)
(* DotNetEvents for TLC: two processes that give the same ids to different *)
(* events, one event that both have, under different ids, two events of one *)
(* name with different fields, one id that a second process takes over, and *)
(* descriptions with strings, an array, a nested object and a field of a   *)
(* newer runtime.                                                          *)
(***************************************************************************)
EXTENDS DotNetEvents, DotNetFields

Plain(name, type) == [name |-> name, type |-> type, more |-> 0]

Small == <<Plain("count", 10), Plain("text", 18)>>
Nested == <<[name |-> "head", type |-> Object,
             fields |-> <<Plain("flag", 3), Plain("when", 16)>>],
            [name |-> "tail", type |-> 12, more |-> 1], Plain("end", 7)>>
Arrays == <<[name |-> "list", type |-> ArrayType, elem |-> 9],
            Plain("text", 18)>>

Event(name, version, keywords, v2, fields) ==
    [name |-> name, version |-> version, keywords |-> keywords, v2 |-> v2,
     fields |-> fields]

A1 == Event("A", 1, 1, FALSE, Small)
A2 == Event("A", 2, 2, TRUE, Nested)
B1 == Event("B", 1, 2, TRUE, Arrays)
M1 == Event("", 1, 1, FALSE, <<>>)

MCTable ==
    (<<1, 1>> :> <<A1, B1>>) @@ (<<1, 2>> :> <<B1, M1>>) @@
    (<<2, 1>> :> <<B1, A2>>) @@ (<<2, 2>> :> <<A1, A2>>)
MCKeywords == {{}, {1}}
=============================================================================

------------------------------ MODULE MCData -------------------------------
(***************************************************************************)
(* What is read from the records of the rings (PerfDecode) and what is     *)
(* written to files (ExportFormats): two components without any state in   *)
(* common, of which a behaviour takes one.                                 *)
(*                                                                         *)
(* For ExportFormats: two processes share files; a page of one is mapped   *)
(* again at a later time.  Slices of one length have one hash.  The events *)
(* share call chains, attributes and records in every way; the last is     *)
(* dropped by the hook.                                                    *)
(***************************************************************************)
EXTENDS ExportFormats, PerfDecode

MCHash(slice) == Len(slice)

Symbol1 == [name |-> 1, start |-> 0, end |-> 1]
Map1 == [id |-> 1, time |-> 1, start |-> 0, end |-> 1, off |-> 4, file |-> 1,
         node |-> 1, anon |-> FALSE, syms |-> {Symbol1}]
Map2 == [Map1 EXCEPT !.id = 2, !.start = 2, !.end = 3, !.file = 2, !.node = 2,
                     !.syms = {}]
Remap2 == [Map2 EXCEPT !.id = 3, !.time = 3, !.file = 3, !.node = 0, !.anon = TRUE]

SomeProcess == [create |-> 2, exit |-> 0, nspid |-> 0, samples |-> << >>,
            maps |-> <<Map2, Map1>>]
MCLives ==
    {(1 :> SomeProcess) @@ (2 :> [SomeProcess EXCEPT !.create = 1, !.exit = 4,
                                             !.maps = <<Remap2, Map2>>])}

Type1 == [name |-> <<"Ours">>, id |-> 5, original |-> FALSE,
          fields |-> <<[type |-> "unsigned", size |-> 3, location |-> "static",
                        fixed |-> FALSE]>>]
Type2 == [name |-> <<"sys/Theirs">>, id |-> 6, original |-> TRUE,
          fields |-> <<[type |-> "u32", size |-> 4, location |-> "static",
                        fixed |-> FALSE],
                       [type |-> "char", size |-> 8, location |-> "static",
                        fixed |-> TRUE]>>]

Event1 == [pid |-> 1, tid |-> 1, cpu |-> 0, time |-> 1, kind |-> <<"cpu">>,
           frames |-> <<0, 2, 1>>, value |-> [type |-> "count", v |-> 1],
           attributed |-> FALSE, version |-> 0, op |-> 0, trace |-> << >>,
           span |-> << >>, activity |-> << >>, related |-> << >>, cgroup |-> 0,
           data |-> << >>, rtype |-> NoRecordType]
MCEvents ==
    {Event1,
     [Event1 EXCEPT !.time = 4, !.frames = <<3, 2, 1>>, !.pid = 2, !.tid = 2,
                    !.attributed = TRUE, !.version = 1, !.op = 2],
     [Event1 EXCEPT !.time = 3, !.frames = <<3>>, !.attributed = TRUE,
                    !.version = 1, !.op = 1, !.cgroup = 7, !.data = <<8, 9>>,
                    !.rtype = Type1],
     [Event1 EXCEPT !.time = 2, !.frames = << >>, !.attributed = TRUE,
                    !.kind = <<"other">>, !.value = [type |-> "span", v |-> 2],
                    !.activity = <<3, 4>>, !.span = <<5>>, !.data = <<7>>,
                    !.rtype = Type2],
     [Event1 EXCEPT !.time = 3, !.pid = 2, !.frames = <<3, 2, 1>>, !.attributed = TRUE,
                    !.trace = <<1, 1>>, !.related = <<2, 2>>],
     [Event1 EXCEPT !.attributed = TRUE, !.cgroup = 9]}

-----------------------------------------------------------------------------
dvars == <<vars, fvars>>
DataInit == Init /\ FInit
DataNext == \/ FInit /\ Next /\ UNCHANGED fvars
            \/ Init /\ FNext /\ UNCHANGED vars
DataSpec == DataInit /\ [][DataNext]_dvars
=============================================================================

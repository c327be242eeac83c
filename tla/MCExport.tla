------------------------------ MODULE MCExport ------------------------------
(***************************************************************************)
(* An instance of ExportMachine: four user addresses, one half of which is *)
(* mapped again from the middle of a file's symbol, and six of the kernel; *)
(* a lookup is used from two mappings on.  One of the sampled addresses is *)
(* sampled at the time of the record before it.                            *)
(***************************************************************************)
EXTENDS ExportMachine

MCRanges == {<<0, 1>>}
MCSampled == {<<0, 1>>, <<2, 1>>, <<5, 0>>, <<7, 1>>}
MCFileSymbols == {[name |-> 1, start |-> 1, end |-> 1],
                  [name |-> 2, start |-> 2, end |-> 3],
                  [name |-> 3, start |-> 4, end |-> 4]}
MCKallsyms == <<[address |-> 4, text |-> TRUE], [address |-> 7, text |-> FALSE],
                [address |-> 8, text |-> TRUE]>>
=============================================================================

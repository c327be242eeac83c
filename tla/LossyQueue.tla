----------------------------- MODULE LossyQueue -----------------------------
(***************************************************************************)
(* What a ring buffer of the perf capture promises to its two ends: a      *)
(* first-in first-out queue that may refuse a record, but that accounts    *)
(* for every refusal with a "lost" record in the same queue.               *)
(*                                                                         *)
(* The records are whatever the writer offers (Payloads); a lost record    *)
(* for c refusals is LostRecord(c).  PerfRing implements this.             *)
(***************************************************************************)
EXTENDS Naturals, Sequences, SequencesExt

CONSTANTS
    Payloads,        \* the records a writer may offer
    LostRecord(_)    \* the record that reports a number of refusals

VARIABLES
    accepted,   \* every record the queue took, in the order it took them
    out,        \* the records handed to the reader, in order
    refused,    \* how many records were refused
    reported    \* how many of those a lost record has reported

qvars == <<accepted, out, refused, reported>>

QInit ==
    /\ accepted = << >>
    /\ out = << >>
    /\ refused = 0
    /\ reported = 0

Put(r) ==
    /\ accepted' = Append(accepted, r)
    /\ UNCHANGED <<out, refused, reported>>

Refuse ==
    /\ refused' = refused + 1
    /\ UNCHANGED <<accepted, out, reported>>

(* Reports every refusal so far that no earlier lost record reported.      *)
Report ==
    /\ refused > reported
    /\ accepted' = Append(accepted, LostRecord(refused - reported))
    /\ reported' = refused
    /\ UNCHANGED <<out, refused>>

Get ==
    /\ Len(out) < Len(accepted)
    /\ out' = Append(out, accepted[Len(out) + 1])
    /\ UNCHANGED <<accepted, refused, reported>>

QNext ==
    \/ \E r \in Payloads : Put(r)
    \/ Refuse
    \/ Report
    \/ Get

QSpec == QInit /\ [][QNext]_qvars
=============================================================================

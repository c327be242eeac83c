------------------------------ MODULE PerfRing ------------------------------
(***************************************************************************)
(* The perf ring buffer of one_collect/src/perf_event/rb/mod.rs: a single  *)
(* writer (InProcessRingBufWriter, on the environment-capture thread) and  *)
(* a single reader (CpuRingReader and its CpuRingCursor, on the parsing    *)
(* thread) share a data area of Size cells and two free-running positions, *)
(* data_head and data_tail.  A cell is 8 bytes, the alignment of a perf    *)
(* record, so a position here is a byte offset of the code divided by 8.   *)
(*                                                                         *)
(* A record is its length in cells and its contents, of which the model    *)
(* keeps the identity; the cell k of record r is [rec |-> r, off |-> k].   *)
(* A copy into or out of the data area moves one cell per step: every      *)
(* interleaving of the two threads during a copy is a behaviour.           *)
(***************************************************************************)
EXTENDS Naturals, Sequences, SequencesExt

CONSTANTS
    Size,        \* data_size in cells (a power of two in the code)
    Lens,        \* the record lengths offered, in cells after alignment
    MaxWrites    \* bound: how many times write() is called

ASSUME SizeAssumption == Size \in Nat \ {0}
ASSUME LensAssumption == Lens \subseteq Nat \ {0}
ASSUME MaxWritesAssumption == MaxWrites \in Nat

VARIABLES
    mem,        \* the data area
    head,       \* data_head in the metadata page: written by the writer
    tail,       \* data_tail in the metadata page: written by the reader
    whead,      \* InProcessRingBufWriter.head
    lost,       \* InProcessRingBufWriter.lost_count
    wpc,        \* where the writer's thread is
    wrec,       \* the record write() was called with (NoRecord in flush())
    wout,       \* the record write_raw is copying
    woff,       \* how many cells of wout it has copied
    cstart,     \* CpuRingCursor.start
    cend,       \* CpuRingCursor.end
    rpc,        \* where the reader's thread is
    rrec,       \* the record the header at the cursor announced
    rbuf,       \* the cells of it the consumer has looked at
    calls,      \* history: how many times write() was called
    written,    \* history: the records published
    starts,     \* history: the position at which each of them starts
    delivered,  \* history: the records the consumer was given
    dropped     \* history: how many records write() gave up

wvars == <<whead, lost, wpc, wrec, wout, woff, calls>>
rvars == <<cstart, cend, rpc, rrec, rbuf, delivered>>
vars == <<mem, head, tail, wvars, rvars, written, starts, dropped>>

LOST_RECORD_SIZE == 6

Records == [kind : {"data", "lost"}, n : Nat, len : Nat \ {0}]
Cells == [rec : Records, off : Nat]

DataRecord(id, l) == [kind |-> "data", n |-> id, len |-> l]
LostRecord(count) == [kind |-> "lost", n |-> count, len |-> LOST_RECORD_SIZE]
NoRecord == [kind |-> "none", n |-> 0, len |-> 0]
ZeroCell == [rec |-> NoRecord, off |-> 0]

(* position & data_mask *)
Slot(position) == position % Size

Init ==
    /\ mem = [i \in 0 .. Size - 1 |-> ZeroCell]
    /\ head = 0 /\ tail = 0
    /\ whead = 0 /\ lost = 0
    /\ wpc = "idle" /\ wrec = NoRecord /\ wout = NoRecord /\ woff = 0
    /\ cstart = 0 /\ cend = 0
    /\ rpc = "out" /\ rrec = NoRecord /\ rbuf = << >>
    /\ calls = 0
    /\ written = << >> /\ starts = << >> /\ delivered = << >>
    /\ dropped = 0

-----------------------------------------------------------------------------
(* The writer.                                                             *)

(* Mutant of Available: one cell too many. *)
Available_OffByOne == Size - (whead - tail) + 1

Available == Size - (whead - tail)

Needed(l) == l + (IF lost > 0 THEN LOST_RECORD_SIZE ELSE 0)

(* The record of the current call is given up: lost_count += 1; return.    *)
GiveUp ==
    /\ lost' = lost + 1
    /\ dropped' = dropped + 1
    /\ wpc' = "idle"
    /\ wrec' = NoRecord

WriteTooLarge(l) ==
    /\ wpc = "idle" /\ calls < MaxWrites
    /\ l > Size
    /\ calls' = calls + 1
    /\ GiveUp
    /\ UNCHANGED <<mem, head, tail, whead, wout, woff, rvars, written, starts>>

Write(l) ==
    /\ wpc = "idle" /\ calls < MaxWrites
    /\ l <= Size
    /\ calls' = calls + 1
    /\ wrec' = DataRecord(calls + 1, l)
    /\ wpc' = IF Available < Needed(l) THEN "wait" ELSE "flush"
    /\ UNCHANGED <<mem, head, tail, whead, lost, wout, woff, rvars,
                   written, starts, dropped>>

(* wait_for_space: the loop looks at the tail, then at the clock.          *)
WaitForSpace ==
    /\ wpc = "wait"
    /\ Available >= Needed(wrec.len)
    /\ wpc' = "flush"
    /\ UNCHANGED <<mem, head, tail, whead, lost, wrec, wout, woff, calls, rvars,
                   written, starts, dropped>>

(* Mutant of WaitTimeout: the loop never looks at the clock. *)
WaitTimeout_Never == FALSE /\ UNCHANGED vars

WaitTimeout ==
    /\ wpc = "wait"
    /\ Available < Needed(wrec.len)
    /\ GiveUp
    /\ UNCHANGED <<mem, head, tail, whead, wout, woff, calls, rvars,
                   written, starts>>

Flush ==
    /\ wpc = "idle"
    /\ wpc' = "flush"
    /\ UNCHANGED <<mem, head, tail, whead, lost, wrec, wout, woff, calls, rvars,
                   written, starts, dropped>>

(* flush_pending_lost: returns early, or resets the counter and starts to  *)
(* write a lost record.                                                    *)
FlushPendingLost ==
    /\ wpc = "flush"
    /\ woff' = 0
    /\ IF lost > 0 /\ Available >= LOST_RECORD_SIZE
       THEN /\ lost' = 0
            /\ wout' = LostRecord(lost)
            /\ wpc' = "copy"
       ELSE /\ wout' = wrec
            /\ wpc' = IF wrec = NoRecord THEN "idle" ELSE "copy"
            /\ UNCHANGED lost
    /\ UNCHANGED <<mem, head, tail, whead, wrec, calls, rvars,
                   written, starts, dropped>>

(* write_raw's copy: up to the end of the data area, then from its start.  *)
CopySlot(k) ==
    LET write_pos == Slot(whead)
        first_part == Size - write_pos
    IN  IF k < first_part THEN write_pos + k ELSE k - first_part

CopyCell ==
    /\ wpc = "copy"
    /\ woff < wout.len
    /\ mem' = [mem EXCEPT ![CopySlot(woff)] = [rec |-> wout, off |-> woff]]
    /\ woff' = woff + 1
    /\ UNCHANGED <<head, tail, whead, lost, wpc, wrec, wout, calls, rvars,
                   written, starts, dropped>>

(* Mutant of PublishHead: the head of a lost record waits for the next     *)
(* record to be published.                                                 *)
PublishHead_LostUnpublished ==
    /\ wpc = "copy"
    /\ woff = wout.len
    /\ whead' = whead + wout.len
    /\ head' = IF wout.kind = "lost" THEN head ELSE whead + wout.len
    /\ written' = Append(written, wout)
    /\ starts' = Append(starts, whead)
    /\ woff' = 0
    /\ IF wout.kind = "lost" /\ wrec # NoRecord
       THEN wout' = wrec /\ UNCHANGED <<wpc, wrec>>
       ELSE wpc' = "idle" /\ wrec' = NoRecord /\ wout' = NoRecord
    /\ UNCHANGED <<mem, tail, lost, calls, rvars, dropped>>

(* write_raw's end: the barrier, then the new head for the reader to see.  *)
PublishHead ==
    /\ wpc = "copy"
    /\ woff = wout.len
    /\ whead' = whead + wout.len
    /\ head' = whead + wout.len
    /\ written' = Append(written, wout)
    /\ starts' = Append(starts, whead)
    /\ woff' = 0
    /\ IF wout.kind = "lost" /\ wrec # NoRecord
       THEN wout' = wrec /\ UNCHANGED <<wpc, wrec>>
       ELSE wpc' = "idle" /\ wrec' = NoRecord /\ wout' = NoRecord
    /\ UNCHANGED <<mem, tail, lost, calls, rvars, dropped>>

-----------------------------------------------------------------------------
(* The reader.                                                             *)

(* Mutant of BeginReading: the cursor goes back to the tail though records *)
(* were read since.                                                        *)
BeginReading_Rewinds ==
    /\ rpc # "look"
    /\ cstart' = tail /\ cend' = head
    /\ rpc' = "in"
    /\ UNCHANGED <<mem, head, tail, wvars, rrec, rbuf, delivered,
                   written, starts, dropped>>

(* A pass that read nothing here (the oldest record was in another ring)   *)
(* begins the next one without ending; the others end first.               *)
BeginReading ==
    /\ rpc = "out" \/ (rpc = "in" /\ cstart = tail)
    /\ cstart' = tail /\ cend' = head
    /\ rpc' = "in"
    /\ UNCHANGED <<mem, head, tail, wvars, rrec, rbuf, delivered,
                   written, starts, dropped>>

More == cstart < cend

(* CpuRingReader::read: the header gives the size, the cursor moves past   *)
(* the record, and the consumer gets a slice of the data area (or a copy   *)
(* of its two parts) that it looks at before end_reading.                  *)
Read ==
    /\ rpc = "in"
    /\ More
    /\ rrec' = mem[Slot(cstart)].rec
    /\ cstart' = cstart + mem[Slot(cstart)].rec.len
    /\ rbuf' = << >>
    /\ rpc' = "look"
    /\ UNCHANGED <<mem, head, tail, wvars, cend, delivered,
                   written, starts, dropped>>

ReadSlot(k) ==
    LET header_start == Slot(cstart - rrec.len)
    IN  IF header_start + k < Size THEN header_start + k
                                   ELSE k - (Size - header_start)

LookCell ==
    /\ rpc = "look"
    /\ Len(rbuf) < rrec.len
    /\ rbuf' = Append(rbuf, mem[ReadSlot(Len(rbuf))])
    /\ UNCHANGED <<mem, head, tail, wvars, cstart, cend, rpc, rrec, delivered,
                   written, starts, dropped>>

Deliver ==
    /\ rpc = "look"
    /\ Len(rbuf) = rrec.len
    /\ delivered' = Append(delivered, rrec)
    /\ rpc' = "in"
    /\ rrec' = NoRecord
    /\ rbuf' = << >>
    /\ UNCHANGED <<mem, head, tail, wvars, cstart, cend,
                   written, starts, dropped>>

(* Mutant of EndReading: the tail jumps to the end of what the pass saw.   *)
EndReading_FreesUnread ==
    /\ rpc = "in"
    /\ More => cstart > tail
    /\ tail' = cend
    /\ rpc' = "out"
    /\ UNCHANGED <<mem, head, wvars, cstart, cend, rrec, rbuf, delivered,
                   written, starts, dropped>>

(* The parse loop ends the pass of a ring after it read one record or      *)
(* more, or found none.                                                    *)
EndReading ==
    /\ rpc = "in"
    /\ More => cstart > tail
    /\ tail' = cstart
    /\ rpc' = "out"
    /\ UNCHANGED <<mem, head, wvars, cstart, cend, rrec, rbuf, delivered,
                   written, starts, dropped>>

-----------------------------------------------------------------------------
WriterStep ==
    \/ WaitForSpace \/ WaitTimeout
    \/ FlushPendingLost \/ CopyCell \/ PublishHead

ReaderStep == BeginReading \/ Read \/ LookCell \/ Deliver

Next ==
    \/ \E l \in Lens : WriteTooLarge(l) \/ Write(l)
    \/ Flush
    \/ WriterStep
    \/ ReaderStep
    \/ EndReading

Spec == Init /\ [][Next]_vars

(* Both threads keep running: the writer's timeout elapses, and the parse  *)
(* loop begins, reads and ends passes, reading all that a pass can see     *)
(* before it ends it or stopping at its batch limit.                       *)
FairSpec ==
    /\ Spec
    /\ WF_vars(WriterStep)
    /\ WF_vars(ReaderStep)
    /\ WF_vars(EndReading)

-----------------------------------------------------------------------------
(* Properties.                                                             *)

(* The writer's and the reader's states, each thread's counters and the    *)
(* data area stay within their types.                                      *)
TypeOK ==
    /\ mem \in [0 .. Size - 1 -> Cells \cup {ZeroCell}]
    /\ head \in Nat /\ tail \in Nat /\ whead \in Nat
    /\ lost \in Nat /\ dropped \in Nat /\ calls \in Nat
    /\ wpc \in {"idle", "wait", "flush", "copy"}
    /\ wrec \in Records \cup {NoRecord}
    /\ wout \in Records \cup {NoRecord}
    /\ woff \in Nat
    /\ cstart \in Nat /\ cend \in Nat
    /\ rpc \in {"out", "in", "look"}
    /\ rrec \in Records \cup {NoRecord}
    /\ rbuf \in Seq(Cells \cup {ZeroCell})
    /\ written \in Seq(Records) /\ starts \in Seq(Nat)
    /\ delivered \in Seq(Records)

(* No torn read: whatever the writer does meanwhile, every cell the        *)
(* consumer looks at is the next cell of the record whose header           *)
(* CpuRingReader::read decoded; no part of it is stale or overwritten      *)
(* before end_reading gives the space back.                                *)
UntornRead ==
    \A k \in 1 .. Len(rbuf) : rbuf[k] = [rec |-> rrec, off |-> k - 1]

(* The positions never cross: the writer never runs more than one data     *)
(* area ahead of the tail it must respect (so available() cannot wrap      *)
(* below zero), and the cursor stays between the tail and the head seen.   *)
PositionsOrdered ==
    /\ tail <= cstart /\ (rpc # "out" => cstart <= cend)
    /\ cstart <= head /\ cend <= head
    /\ head <= whead
    /\ whead + woff <= tail + Size

(* The losses not yet in the ring: those that lost_count, or the lost      *)
(* record being copied, stands for; a lost record reports all the others.  *)
Pending == lost + (IF wpc = "copy" /\ wout.kind = "lost" THEN wout.n ELSE 0)
Reported == dropped - Pending

(* write() and flush() return, also when the record and the pending lost   *)
(* record together can never fit.                                          *)
WriterReturns == (wpc # "idle") ~> (wpc = "idle")

(* Every record that was published is delivered eventually, also when the  *)
(* reader ends passes early.                                               *)
AllDelivered ==
    \A n \in 1 .. 2 * MaxWrites :
        (Len(written) >= n) ~> (Len(delivered) >= n)

Payload == {DataRecord(id, l) : id \in 1 .. MaxWrites, l \in Lens}

Queue == INSTANCE LossyQueue WITH
            Payloads <- Payload,
            accepted <- written,
            out <- delivered,
            refused <- dropped,
            reported <- Reported

(* The ring is a lossy queue: a record is accepted when its head is        *)
(* published and handed out when the consumer is done with it, and every   *)
(* record write() gave up is reported exactly once.                        *)
QueueSpec == Queue!QSpec
=============================================================================

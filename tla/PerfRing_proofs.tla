--------------------------- MODULE PerfRing_proofs ---------------------------
(***************************************************************************)
(* For every ring size, every set of record lengths and every number of    *)
(* writes: PerfRing keeps its types and its positions in order, a reader   *)
(* never looks at a torn record, records arrive first-in first-out, and    *)
(* the ring implements LossyQueue.                                         *)
(***************************************************************************)
EXTENDS PerfRing, TLAPS

(* Arithmetic of positions.                                                *)

(* Quotient and remainder of a position by the size of the data area.      *)
LEMMA DivMod ==
    ASSUME NEW a \in Nat, NEW s \in Nat \ {0}
    PROVE  /\ (a % s) \in 0 .. s - 1
           /\ a \div s \in Nat
           /\ a = s * (a \div s) + (a % s)
  OBVIOUS

(* Different multiples of s are at least s apart.                          *)
LEMMA MulGap ==
    ASSUME NEW s \in Nat \ {0}, NEW p \in Int, NEW q \in Int, p < q
    PROVE  s * q >= s * p + s
  OBVIOUS

(* A remainder is unique.                                                  *)
LEMMA DivModUnique ==
    ASSUME NEW s \in Nat \ {0}, NEW q1 \in Int, NEW q2 \in Int,
           NEW r1 \in 0 .. s - 1, NEW r2 \in 0 .. s - 1,
           s * q1 + r1 = s * q2 + r2
    PROVE  r1 = r2
  <1>1. CASE q1 < q2
    BY <1>1, MulGap
  <1>2. CASE q2 < q1
    BY <1>2, MulGap
  <1>3. CASE q1 = q2
    BY <1>3
  <1> QED BY <1>1, <1>2, <1>3

(* Positions less than s apart have different remainders.                  *)
LEMMA ModDistinct ==
    ASSUME NEW s \in Nat \ {0}, NEW a \in Nat, NEW b \in Nat, a < b, b < a + s
    PROVE  (a % s) # (b % s)
  <1>1. SUFFICES ASSUME (a % s) = (b % s) PROVE FALSE
    OBVIOUS
  <1> DEFINE p == a \div s  q == b \div s
  <1>2. p \in Nat /\ q \in Nat /\ a = s * p + (a % s) /\ b = s * q + (b % s)
    BY DivMod
  <1>3. (a % s) \in Int /\ (b % s) \in Int
    BY DivMod
  <1> HIDE DEF p, q
  <1>4. s * p \in Int /\ s * q \in Int
    BY <1>2
  <1>5. CASE p < q
    BY <1>1, <1>2, <1>3, <1>4, <1>5, MulGap
  <1>6. CASE q < p
    BY <1>1, <1>2, <1>3, <1>4, <1>6, MulGap
  <1>7. CASE p = q
    BY <1>1, <1>2, <1>3, <1>4, <1>7
  <1> QED BY <1>2, <1>5, <1>6, <1>7

(* Stepping k < s positions on from a wraps around at most once.           *)
LEMMA ModAddAux ==
    ASSUME NEW s \in Nat \ {0}, NEW a \in Nat, NEW k \in Nat, k < s,
           NEW b \in Nat, b = a + k
    PROVE  (b % s) = IF (a % s) + k < s THEN (a % s) + k ELSE (a % s) + k - s
  <1> DEFINE p == a \div s  q == b \div s  u == a % s  v == b % s
  <1>1. p \in Nat /\ a = s * p + u /\ u \in 0 .. s - 1
    BY DivMod
  <1>2. q \in Nat /\ b = s * q + v /\ v \in 0 .. s - 1
    BY DivMod
  <1> SUFFICES v = IF u + k < s THEN u + k ELSE u + k - s
    OBVIOUS
  <1> HIDE DEF p, q, u, v
  <1>3. s * (p + 1) = s * p + s /\ s * p \in Int /\ s * q \in Int
       /\ p \in Int /\ q \in Int
    BY <1>1, <1>2
  <1>4. CASE u + k < s
    <2>1. u + k \in 0 .. s - 1
      BY <1>1, <1>4
    <2>2. s * p + (u + k) = s * q + v
      BY <1>1, <1>2, <1>3
    <2>3. u + k = v
      BY <2>1, <2>2, <1>1, <1>2, <1>3, DivModUnique, Zenon
    <2> QED BY <2>3, <1>4
  <1>5. CASE ~(u + k < s)
    <2>1. u + k - s \in 0 .. s - 1
      BY <1>1, <1>5
    <2>2. s * (p + 1) + (u + k - s) = s * q + v
      BY <1>1, <1>2, <1>3
    <2>3. u + k - s = v
      <3> DEFINE w == u + k - s  p1 == p + 1
      <3>1. w \in 0 .. s - 1 /\ p1 \in Int /\ s * p1 + w = s * q + v
        BY <2>1, <2>2, <1>1
      <3> HIDE DEF w, p1
      <3>2. w = v
        BY <3>1, <1>2, <1>3, DivModUnique, Zenon
      <3> QED BY <3>2 DEF w
    <2> QED BY <2>3, <1>5
  <1> QED BY <1>4, <1>5

(* The same without a name for the sum.                                    *)
LEMMA ModAdd ==
    ASSUME NEW s \in Nat \ {0}, NEW a \in Nat, NEW k \in Nat, k < s
    PROVE  ((a + k) % s) = IF (a % s) + k < s THEN (a % s) + k ELSE (a % s) + k - s
  <1>1. a + k \in Nat /\ a + k = a + k
    OBVIOUS
  <1> QED BY <1>1, ModAddAux, Zenon

(* A later tail only leaves more room.                                     *)
LEMMA LaterTail ==
    ASSUME NEW t \in Nat, NEW u \in Nat, t <= u, NEW s \in Nat,
           NEW h \in Nat, h <= t + s
    PROVE  h <= u + s
  OBVIOUS

-----------------------------------------------------------------------------
(* The inductive invariant, one part per idea.                             *)

(* What each state of the writer's thread says of its variables.           *)
WriterInv ==
    /\ head = whead
    /\ whead + woff <= tail + Size
    /\ calls <= MaxWrites
    /\ wrec # NoRecord => wrec \in Payload
    /\ wpc = "idle" => wrec = NoRecord
    /\ wpc = "wait" => wrec # NoRecord
    /\ wpc # "copy" => woff = 0
    /\ (wpc = "flush" /\ wrec # NoRecord) =>
            whead + Needed(wrec.len) <= tail + Size
    /\ wpc = "copy" =>
        /\ woff <= wout.len
        /\ \/ wout = wrec /\ wrec # NoRecord /\ whead + wout.len <= tail + Size
           \/ /\ wout = LostRecord(wout.n) /\ wout.n > 0 /\ lost = 0
              /\ whead + wout.len + wrec.len <= tail + Size

(* Where record i of the history starts; the one to come starts at whead.  *)
StartOf(i) == IF i <= Len(written) THEN starts[i] ELSE whead

(* The published records lie one after the other, from 0 to whead.         *)
LayoutInv ==
    /\ Len(starts) = Len(written)
    /\ StartOf(1) = 0
    /\ \A i \in 1 .. Len(written) :
            /\ StartOf(i + 1) = starts[i] + written[i].len
            /\ starts[i] + written[i].len <= whead
    /\ \A i, j \in 1 .. Len(written) :
            i < j => starts[i] + written[i].len <= starts[j]

(* The data area holds every published record the tail has not passed, and *)
(* the cells of the record being copied.                                   *)
MemoryInv ==
    /\ \A i \in 1 .. Len(written) : starts[i] >= tail =>
            \A k \in 0 .. written[i].len - 1 :
                mem[Slot(starts[i] + k)] = [rec |-> written[i], off |-> k]
    /\ wpc = "copy" =>
            \A k \in 0 .. woff - 1 :
                mem[Slot(whead + k)] = [rec |-> wout, off |-> k]

(* The records read so far: those delivered and the one being looked at.   *)
Taken == IF rpc = "look" THEN Len(delivered) + 1 ELSE Len(delivered)

ReaderInv ==
    /\ Taken <= Len(written)
    /\ cstart = StartOf(Taken + 1)
    /\ tail <= cstart
    /\ rpc = "out" => tail = cstart
    /\ rpc = "look" => /\ rrec = written[Taken]
                       /\ tail <= starts[Taken]
                       /\ Len(rbuf) <= rrec.len
    /\ rpc # "look" => rbuf = << >>
    /\ \E e \in 0 .. Len(written) : cend = StartOf(e + 1)
    /\ rpc # "out" => cstart <= cend
    /\ \A i \in 1 .. Len(delivered) : delivered[i] = written[i]

Inv ==
    /\ TypeOK
    /\ WriterInv
    /\ LayoutInv
    /\ MemoryInv
    /\ ReaderInv
    /\ UntornRead

-----------------------------------------------------------------------------
(* Slots.                                                                  *)

(* A slot is an index of the data area.                                    *)
LEMMA SlotType ==
    ASSUME NEW x \in Nat
    PROVE  Slot(x) \in 0 .. Size - 1
  BY DivMod, SizeAssumption DEF Slot

(* Two positions less than the data area apart never share a slot.         *)
LEMMA SlotDistinct ==
    ASSUME NEW x \in Nat, NEW y \in Nat, x < y, y < x + Size
    PROVE  Slot(x) # Slot(y)
  BY ModDistinct, SizeAssumption DEF Slot

(* write_raw's two-part copy puts cell k at the slot of position whead + k. *)
LEMMA CopySlotIs ==
    ASSUME whead \in Nat, NEW k \in Nat, k < Size
    PROVE  CopySlot(k) = Slot(whead + k)
  <1>1. Slot(whead + k) = IF Slot(whead) + k < Size THEN Slot(whead) + k
                                                    ELSE Slot(whead) + k - Size
    BY ModAdd, SizeAssumption DEF Slot
  <1>2. Slot(whead) \in 0 .. Size - 1
    BY SlotType
  <1> QED BY <1>1, <1>2, SizeAssumption DEF CopySlot

(* read's slice, or its copy of two parts, finds cell k at the slot of     *)
(* position k of the record.                                               *)
LEMMA ReadSlotIs ==
    ASSUME NEW p \in Nat, p = cstart - rrec.len, NEW k \in Nat, k < Size
    PROVE  ReadSlot(k) = Slot(p + k)
  <1>1. Slot(p + k) = IF Slot(p) + k < Size THEN Slot(p) + k
                                            ELSE Slot(p) + k - Size
    BY ModAdd, SizeAssumption DEF Slot
  <1>2. Slot(p) \in 0 .. Size - 1
    BY SlotType
  <1> QED BY <1>1, <1>2, SizeAssumption DEF ReadSlot

-----------------------------------------------------------------------------
(* The types.                                                              *)

(* The records the writer handles.                                         *)
LEMMA RecordTypes ==
    /\ \A id \in Nat : \A l \in Lens : DataRecord(id, l) \in Records
    /\ \A c \in Nat : LostRecord(c) \in Records
    /\ NoRecord.len = 0 /\ NoRecord.kind = "none" /\ NoRecord \notin Records
  BY LensAssumption DEF DataRecord, LostRecord, Records, NoRecord, LOST_RECORD_SIZE

(* The record a write() call has in hand is one of those the abstract      *)
(* queue may be offered.                                                   *)
LEMMA PayloadType ==
    ASSUME NEW r \in Payload
    PROVE  r \in Records /\ r.kind = "data" /\ r # NoRecord
  BY LensAssumption, MaxWritesAssumption
     DEF Payload, DataRecord, Records, NoRecord

(* While write_raw copies, there is a record to copy.                      *)
LEMMA CopyingRecord ==
    ASSUME Inv, wpc = "copy"
    PROVE  wout \in Records /\ wout.len \in Nat \ {0}
  <1>1. wout # NoRecord
    BY DEF Inv, WriterInv, LostRecord, NoRecord
  <1> QED BY <1>1 DEF Inv, TypeOK, Records

(* The writer is at most one data area ahead of the tail.                  *)
LEMMA WheadBound ==
    ASSUME Inv
    PROVE  whead <= tail + Size
  BY SizeAssumption DEF Inv, TypeOK, WriterInv

(* The record the consumer looks at is the first one it has not finished;  *)
(* it lies just below the cursor and fits in the data area.                *)
LEMMA LookedAt ==
    ASSUME Inv, rpc = "look", NEW d, d = Len(delivered) + 1
    PROVE  /\ d \in 1 .. Len(written)
           /\ rrec = written[d] /\ rrec \in Records
           /\ starts[d] \in Nat /\ starts[d] = cstart - rrec.len
           /\ tail <= starts[d]
           /\ rrec.len \in Nat \ {0} /\ rrec.len <= Size
  <1>1. d \in 1 .. Len(written) /\ Taken = d
    BY DEF Inv, TypeOK, ReaderInv, Taken
  <1>2. rrec = written[d] /\ tail <= starts[d]
    BY <1>1 DEF Inv, ReaderInv
  <1>3. rrec \in Records /\ rrec.len \in Nat \ {0}
    <2>1. written[d] \in Records
      BY <1>1 DEF Inv, TypeOK
    <2> QED BY <1>2, <2>1 DEF Records
  <1>4. starts[d] \in Nat
    BY <1>1 DEF Inv, TypeOK, LayoutInv
  <1>5. cstart = starts[d] + rrec.len /\ cstart <= whead
    BY <1>1, <1>2 DEF Inv, LayoutInv, ReaderInv
  <1>6. whead <= tail + Size
    BY WheadBound
  <1>7. cstart \in Nat /\ whead \in Nat /\ tail \in Nat
    BY DEF Inv, TypeOK
  <1>8. starts[d] = cstart - rrec.len /\ rrec.len <= Size
    BY <1>2, <1>3, <1>4, <1>5, <1>6, <1>7, SizeAssumption
  <1> QED BY <1>1, <1>2, <1>3, <1>4, <1>8

(* A step keeps the types, in states that satisfy the invariant.           *)
LEMMA TypeStep == Inv /\ [Next]_vars => TypeOK'
  <1> SUFFICES ASSUME Inv, [Next]_vars PROVE TypeOK'
    OBVIOUS
  <1> USE DEF TypeOK
  <1>1. ASSUME NEW l \in Lens, WriteTooLarge(l) PROVE TypeOK'
    BY <1>1 DEF Inv, WriteTooLarge, GiveUp, rvars
  <1>2. ASSUME NEW l \in Lens, Write(l) PROVE TypeOK'
    <2>1. wrec' \in Records
      BY <1>2, RecordTypes DEF Inv, Write
    <2> QED BY <1>2, <2>1 DEF Inv, Write, rvars
  <1>3. CASE WaitForSpace
    BY <1>3 DEF Inv, WaitForSpace, rvars
  <1>4. CASE WaitTimeout
    BY <1>4 DEF Inv, WaitTimeout, GiveUp, rvars
  <1>5. CASE Flush
    BY <1>5 DEF Inv, Flush, rvars
  <1>6. CASE FlushPendingLost
    <2>1. LostRecord(lost) \in Records
      BY RecordTypes DEF Inv
    <2> QED BY <1>6, <2>1 DEF Inv, FlushPendingLost, rvars
  <1>7. CASE CopyCell
    <2>1. wout \in Records
      BY <1>7, CopyingRecord DEF CopyCell
    <2>2. [rec |-> wout, off |-> woff] \in Cells
      BY <2>1 DEF Cells, Inv
    <2>3. mem' \in [0 .. Size - 1 -> Cells \cup {ZeroCell}]
      BY <1>7, <2>2 DEF Inv, CopyCell
    <2> QED BY <1>7, <2>3 DEF Inv, CopyCell, rvars
  <1>8. CASE PublishHead
    <2>1. wout \in Records /\ wout.len \in Nat
      BY <1>8, CopyingRecord DEF PublishHead
    <2>2. written' \in Seq(Records) /\ starts' \in Seq(Nat)
      BY <1>8, <2>1 DEF Inv, PublishHead
    <2> QED BY <1>8, <2>1, <2>2, SMTT(40) DEF Inv, PublishHead, rvars
  <1>9. CASE BeginReading
    BY <1>9 DEF Inv, BeginReading, wvars
  <1>10. CASE Read
    <2>1. mem[Slot(cstart)] \in Cells \cup {ZeroCell}
      BY SlotType DEF Inv
    <2>2. mem[Slot(cstart)].rec \in Records \cup {NoRecord}
      BY <2>1 DEF Cells, ZeroCell
    <2>3. mem[Slot(cstart)].rec.len \in Nat
      BY <2>2 DEF Records, NoRecord
    <2> QED BY <1>10, <2>2, <2>3, SMTT(40) DEF Inv, Read, wvars
  <1>11. CASE LookCell
    <2>1. PICK p \in Nat : p = cstart - rrec.len /\ rrec.len <= Size
                            /\ rrec.len \in Nat
      BY <1>11, LookedAt DEF LookCell
    <2>2. Len(rbuf) \in Nat /\ Len(rbuf) < Size
      BY <1>11, <2>1, SizeAssumption DEF LookCell, Inv
    <2>3. mem[ReadSlot(Len(rbuf))] \in Cells \cup {ZeroCell}
      <3>1. ReadSlot(Len(rbuf)) = Slot(p + Len(rbuf))
        BY <2>1, <2>2, ReadSlotIs
      <3>2. p + Len(rbuf) \in Nat
        BY <2>1, <2>2
      <3>3. Slot(p + Len(rbuf)) \in 0 .. Size - 1
        BY <3>2, SlotType, Zenon
      <3> QED BY <3>1, <3>3 DEF Inv
    <2>4. rbuf' \in Seq(Cells \cup {ZeroCell})
      BY <1>11, <2>3 DEF Inv, LookCell
    <2> QED BY <1>11, <2>4 DEF Inv, LookCell, wvars
  <1>12. CASE Deliver
    <2>1. rrec \in Records
      BY <1>12, LookedAt DEF Deliver
    <2> QED BY <1>12, <2>1 DEF Inv, Deliver, wvars
  <1>13. CASE EndReading
    BY <1>13 DEF Inv, EndReading, wvars
  <1>14. CASE UNCHANGED vars
    BY <1>14 DEF Inv, vars, wvars, rvars
  <1> QED BY <1>1, <1>2, <1>3, <1>4, <1>5, <1>6, <1>7, <1>8, <1>9, <1>10, <1>11,
             <1>12, <1>13, <1>14 DEF Next, WriterStep, ReaderStep

-----------------------------------------------------------------------------
(* The writer.                                                             *)

(* The reader's steps leave the writer's variables alone; only end_reading *)
(* moves the tail, and never back.                                         *)
LEMMA ReaderLeavesWriter ==
    ASSUME Inv, ReaderStep \/ EndReading \/ UNCHANGED vars
    PROVE  /\ UNCHANGED <<head, whead, lost, wpc, wrec, wout, woff, calls, mem,
                          written, starts>>
           /\ tail' \in Nat /\ tail <= tail'
  <1>1. tail \in Nat /\ cstart \in Nat /\ tail <= cstart
    BY DEF Inv, TypeOK, ReaderInv
  <1>2. CASE ReaderStep
    BY <1>1, <1>2 DEF ReaderStep, BeginReading, Read, LookCell, Deliver, wvars
  <1>3. CASE EndReading
    BY <1>1, <1>3 DEF EndReading, wvars
  <1>4. CASE UNCHANGED vars
    BY <1>1, <1>4 DEF vars, wvars
  <1> QED BY <1>2, <1>3, <1>4

(* A step keeps the writer's part of the invariant.                        *)
LEMMA WriterStepInv == Inv /\ [Next]_vars => WriterInv'
  <1> SUFFICES ASSUME Inv, [Next]_vars PROVE WriterInv'
    OBVIOUS
  <1>0. /\ whead \in Nat /\ tail \in Nat /\ lost \in Nat /\ calls \in Nat
        /\ woff \in Nat /\ Size \in Nat \ {0} /\ LOST_RECORD_SIZE \in Nat \ {0}
        /\ head \in Nat /\ MaxWrites \in Nat /\ WriterInv
    BY SizeAssumption, MaxWritesAssumption
       DEF Inv, TypeOK, LOST_RECORD_SIZE
  <1>1. ASSUME NEW l \in Lens, WriteTooLarge(l) PROVE WriterInv'
    BY <1>0, <1>1, RecordTypes DEF WriterInv, WriteTooLarge, GiveUp
  <1>2. ASSUME NEW l \in Lens, Write(l) PROVE WriterInv'
    <2>1. wrec' \in Payload /\ wrec'.len = l /\ l \in Nat \ {0}
      BY <1>0, <1>2, LensAssumption DEF Write, Payload, DataRecord
    <2>2. wrec' # NoRecord
      BY <2>1, PayloadType
    <2> QED BY <1>0, <1>2, <2>1, <2>2 DEF WriterInv, Write, Available, Needed
  <1>3. CASE WaitForSpace
    <2>1. wrec.len \in Nat
      BY <1>0, <1>3, PayloadType DEF WriterInv, WaitForSpace, Records
    <2> QED BY <1>0, <1>3, <2>1 DEF WriterInv, WaitForSpace, Available, Needed
  <1>4. CASE WaitTimeout
    BY <1>0, <1>4 DEF WriterInv, WaitTimeout, GiveUp
  <1>5. CASE Flush
    BY <1>0, <1>5 DEF WriterInv, Flush
  <1>6. CASE FlushPendingLost
    <2>1. wrec.len \in Nat
      BY <1>0, PayloadType, RecordTypes DEF WriterInv, Records
    <2>2. CASE lost > 0 /\ Available >= LOST_RECORD_SIZE
      <3>1. /\ wout' = LostRecord(lost) /\ wout'.n = lost
            /\ wout'.len = LOST_RECORD_SIZE
        BY <1>6, <2>2 DEF FlushPendingLost, LostRecord
      <3>2. whead + LOST_RECORD_SIZE + wrec.len <= tail + Size
        BY <1>0, <1>6, <2>1, <2>2, RecordTypes
           DEF WriterInv, FlushPendingLost, Available, Needed
      <3> QED BY <1>0, <1>6, <2>1, <2>2, <3>1, <3>2 DEF WriterInv, FlushPendingLost
    <2>3. CASE ~(lost > 0 /\ Available >= LOST_RECORD_SIZE)
      <3>1. wrec # NoRecord => whead + wrec.len <= tail + Size
        BY <1>0, <1>6, <2>1, <2>3 DEF WriterInv, FlushPendingLost, Available, Needed
      <3> QED BY <1>0, <1>6, <2>1, <2>3, <3>1 DEF WriterInv, FlushPendingLost
    <2> QED BY <2>2, <2>3
  <1>7. CASE CopyCell
    <2>1. wout.len \in Nat
      BY <1>7, CopyingRecord DEF CopyCell
    <2>2. wrec.len \in Nat
      BY <1>0, PayloadType, RecordTypes DEF WriterInv, Records
    <2> QED BY <1>0, <1>7, <2>1, <2>2 DEF WriterInv, CopyCell
  <1>8. CASE PublishHead
    <2>1. wout.len \in Nat /\ wrec.len \in Nat
      BY <1>0, <1>8, CopyingRecord, PayloadType, RecordTypes, ZenonT(40) DEF WriterInv, PublishHead, Records
    <2>2. CASE wout.kind = "lost" /\ wrec # NoRecord
      <3>1. wout # wrec
        BY <1>0, <2>2, PayloadType DEF WriterInv
      <3> QED BY <1>0, <1>8, <2>1, <2>2, <3>1 DEF WriterInv, PublishHead
    <2>3. CASE ~(wout.kind = "lost" /\ wrec # NoRecord)
      BY <1>0, <1>8, <2>1, <2>3 DEF WriterInv, PublishHead
    <2> QED BY <2>2, <2>3
  <1>9. CASE ReaderStep \/ EndReading \/ UNCHANGED vars
    <2>1. /\ UNCHANGED <<head, whead, lost, wpc, wrec, wout, woff, calls>>
          /\ tail' \in Nat /\ tail <= tail'
      BY <1>9, ReaderLeavesWriter
    <2>2. wrec.len \in Nat
      BY <1>0, PayloadType, RecordTypes DEF WriterInv, Records
    <2>3. wpc = "copy" => wout.len \in Nat
      BY CopyingRecord
    <2>4. Needed(wrec.len) \in Nat /\ (Needed(wrec.len))' = Needed(wrec.len)
      BY <1>0, <2>1, <2>2 DEF Needed
    <2>5. \A x \in Nat : whead + x <= tail + Size => whead + x <= tail' + Size
      <3>1. /\ whead \in Nat /\ tail \in Nat /\ Size \in Nat /\ tail' \in Nat
            /\ tail <= tail'
        BY <1>0, <2>1
      <3>2. \A x \in Nat : whead + x \in Nat
        BY <3>1
      <3> QED BY <3>1, <3>2, LaterTail
    <2>6. ((wpc = "flush" /\ wrec # NoRecord) =>
              whead + Needed(wrec.len) <= tail + Size)'
      BY <1>0, <2>1, <2>4, <2>5 DEF WriterInv
    <2>7. (whead + woff <= tail + Size)'
      BY <1>0, <2>1, <2>5 DEF WriterInv
    <2>8. wpc = "copy" =>
            /\ whead + wout.len <= tail + Size =>
                  whead + wout.len <= tail' + Size
            /\ whead + wout.len + wrec.len <= tail + Size =>
                  whead + wout.len + wrec.len <= tail' + Size
      BY <1>0, <2>1, <2>2, <2>3
    <2> QED BY <1>0, <2>1, <2>6, <2>7, <2>8 DEF WriterInv
  <1> QED BY <1>1, <1>2, <1>3, <1>4, <1>5, <1>6, <1>7, <1>8, <1>9
          DEF Next, WriterStep

-----------------------------------------------------------------------------
(* The layout of the published records.                                    *)

(* Only PublishHead changes the history of published records.              *)
LEMMA OnlyPublish ==
    ASSUME Inv, [Next]_vars, ~PublishHead
    PROVE  UNCHANGED <<whead, head, written, starts>>
  BY DEF Next, WriterStep, ReaderStep, WriteTooLarge, GiveUp, Write, WaitForSpace,
         WaitTimeout, Flush, FlushPendingLost, CopyCell, BeginReading, Read,
         LookCell, Deliver, EndReading, vars, wvars

(* What PublishHead adds to it.                                            *)
LEMMA PublishAdds ==
    ASSUME Inv, PublishHead, NEW n, n = Len(written)
    PROVE  /\ n \in Nat /\ wout \in Records /\ wout.len \in Nat \ {0}
           /\ written' \in Seq(Records) /\ starts' \in Seq(Nat)
           /\ Len(written') = n + 1 /\ Len(starts') = n + 1
           /\ \A i \in 1 .. n : written'[i] = written[i] /\ starts'[i] = starts[i]
           /\ written'[n + 1] = wout /\ starts'[n + 1] = whead
           /\ whead' = whead + wout.len
  <1>1. wout \in Records /\ wout.len \in Nat \ {0}
    BY CopyingRecord DEF PublishHead
  <1>2. /\ written \in Seq(Records) /\ starts \in Seq(Nat)
        /\ Len(starts) = Len(written) /\ whead \in Nat
    BY DEF Inv, TypeOK, LayoutInv
  <1>3. /\ written' = Append(written, wout) /\ starts' = Append(starts, whead)
        /\ whead' = whead + wout.len
    BY DEF PublishHead
  <1>4. /\ n \in Nat
        /\ written' \in Seq(Records) /\ starts' \in Seq(Nat)
        /\ Len(written') = n + 1 /\ Len(starts') = n + 1
        /\ written'[n + 1] = wout /\ starts'[n + 1] = whead
    BY <1>1, <1>2, <1>3
  <1>5. \A i \in 1 .. n : written'[i] = written[i] /\ starts'[i] = starts[i]
    BY <1>1, <1>2, <1>3
  <1> QED BY <1>1, <1>3, <1>4, <1>5

(* A step keeps the published records one after the other.                 *)
LEMMA LayoutStep == Inv /\ [Next]_vars => LayoutInv'
  <1> SUFFICES ASSUME Inv, [Next]_vars PROVE LayoutInv'
    OBVIOUS
  <1>1. CASE ~PublishHead
    BY <1>1, OnlyPublish DEF Inv, LayoutInv, StartOf
  <1>2. CASE PublishHead
    <2>0. PICK n : n = Len(written)
      OBVIOUS
    <2>1. /\ n \in Nat /\ wout \in Records /\ wout.len \in Nat \ {0}
          /\ Len(written') = n + 1 /\ Len(starts') = n + 1
          /\ \A i \in 1 .. n : written'[i] = written[i] /\ starts'[i] = starts[i]
          /\ written'[n + 1] = wout /\ starts'[n + 1] = whead
          /\ whead' = whead + wout.len
      BY <1>2, <2>0, PublishAdds
    <2>2. /\ (IF 1 <= n THEN starts[1] ELSE whead) = 0
          /\ \A i \in 1 .. n :
                /\ (IF i + 1 <= n THEN starts[i + 1] ELSE whead)
                        = starts[i] + written[i].len
                /\ starts[i] + written[i].len <= whead
          /\ \A i, j \in 1 .. n :
                i < j => starts[i] + written[i].len <= starts[j]
      BY <2>0 DEF Inv, LayoutInv, StartOf
    <2>3. whead \in Nat /\ whead' \in Nat
      BY <2>1 DEF Inv, TypeOK
    <2>4. \A i \in 1 .. n : starts[i] + written[i].len \in Nat
      <3> SUFFICES ASSUME NEW i \in 1 .. n PROVE starts[i] + written[i].len \in Nat
        OBVIOUS
      <3>1. starts[i] \in Nat /\ written[i] \in Records
        BY <2>0 DEF Inv, TypeOK, LayoutInv
      <3> QED BY <3>1 DEF Records
    <2>5. StartOf(1)' = 0
      BY <2>1, <2>2 DEF StartOf
    <2>6. ASSUME NEW i \in 1 .. n + 1
          PROVE  /\ (IF i + 1 <= n + 1 THEN starts'[i + 1] ELSE whead')
                        = starts'[i] + written'[i].len
                 /\ starts'[i] + written'[i].len <= whead'
      <3>1. CASE i \in 1 .. n
        <4>1. starts'[i] = starts[i] /\ written'[i] = written[i]
          BY <3>1, <2>1
        <4>2. starts[i] + written[i].len <= whead'
          BY <3>1, <2>1, <2>2, <2>3, <2>4
        <4>3. starts'[i + 1] = starts[i] + written[i].len
          BY <3>1, <2>1, <2>2
        <4> QED BY <4>1, <4>2, <4>3, <2>1
      <3>2. CASE i = n + 1
        BY <3>2, <2>1, <2>3
      <3> QED BY <3>1, <3>2, <2>1
    <2>7. ASSUME NEW i \in 1 .. n + 1, NEW j \in 1 .. n + 1, i < j
          PROVE  starts'[i] + written'[i].len <= starts'[j]
      <3>1. i \in 1 .. n
        BY <2>1, <2>7
      <3>2. CASE j \in 1 .. n
        BY <3>1, <3>2, <2>1, <2>2, <2>7
      <3>3. CASE j = n + 1
        BY <3>1, <3>3, <2>1, <2>2
      <3> QED BY <3>2, <3>3, <2>1
    <2>8. \A i \in 1 .. n + 1 : StartOf(i + 1)' = starts'[i] + written'[i].len
      BY <2>1, <2>6 DEF StartOf
    <2> QED BY <2>1, <2>5, <2>6, <2>7, <2>8 DEF LayoutInv
  <1> QED BY <1>1, <1>2

-----------------------------------------------------------------------------
(* The data area.                                                          *)

(* Every position the reader or the history knows is at most whead.        *)
LEMMA CursorBound ==
    ASSUME Inv
    PROVE  /\ cstart <= whead /\ tail <= whead
           /\ \A e \in 0 .. Len(written) : StartOf(e + 1) <= whead
  <1>1. /\ whead \in Nat /\ tail \in Nat /\ cstart \in Nat
        /\ written \in Seq(Records) /\ starts \in Seq(Nat)
        /\ Len(starts) = Len(written)
    BY DEF Inv, TypeOK, LayoutInv
  <1>2. ASSUME NEW e \in 0 .. Len(written)
        PROVE  StartOf(e + 1) <= whead /\ StartOf(e + 1) \in Nat
    <2>1. CASE e + 1 <= Len(written)
      <3>1. e + 1 \in 1 .. Len(written) /\ StartOf(e + 1) = starts[e + 1]
        BY <2>1, <1>1 DEF StartOf
      <3>2. starts[e + 1] \in Nat /\ written[e + 1] \in Records
        BY <3>1, <1>1
      <3>3. written[e + 1].len \in Nat
        BY <3>2 DEF Records
      <3>4. starts[e + 1] + written[e + 1].len <= whead
        BY <3>1 DEF Inv, LayoutInv
      <3> QED BY <1>1, <3>1, <3>2, <3>3, <3>4
    <2>2. CASE ~(e + 1 <= Len(written))
      BY <2>2, <1>1 DEF StartOf
    <2> QED BY <2>1, <2>2
  <1>3. Taken \in 0 .. Len(written) /\ cstart = StartOf(Taken + 1)
    BY DEF Inv, TypeOK, ReaderInv, Taken
  <1>4. cstart <= whead
    BY <1>2, <1>3
  <1>5. tail <= cstart
    BY DEF Inv, ReaderInv
  <1> QED BY <1>1, <1>2, <1>4, <1>5

(* The cell that CopyCell writes is outside every cell still needed.       *)
LEMMA CopyIsFree ==
    ASSUME Inv, CopyCell
    PROVE  /\ CopySlot(woff) = Slot(whead + woff)
           /\ Slot(whead + woff) \in 0 .. Size - 1
           /\ \A x \in Nat : tail <= x /\ x < whead + woff
                    => Slot(x) # Slot(whead + woff)
  <1>1. PICK t \in Nat, h \in Nat, w \in Nat, l \in Nat, s \in Nat \ {0} :
            t = tail /\ h = whead /\ w = woff /\ l = wout.len /\ s = Size
    BY CopyingRecord, SizeAssumption DEF Inv, TypeOK, CopyCell
  <1>2. w < l
    BY <1>1 DEF CopyCell
  <1>3. h + l <= t + s
    <2>1. wrec.len \in Nat
      BY RecordTypes, PayloadType DEF Inv, WriterInv, Records
    <2>2. h + l <= t + s \/ h + l + wrec.len <= t + s
      BY <1>1 DEF Inv, WriterInv, CopyCell
    <2> QED BY <2>1, <2>2
  <1>4. t <= h
    BY <1>1, CursorBound
  <1>5. w < s /\ h + w \in Nat /\ h + w < t + s
    BY <1>2, <1>3, <1>4
  <1>6. CopySlot(woff) = Slot(whead + woff)
    BY <1>1, <1>5, CopySlotIs
  <1>7. Slot(h + w) \in 0 .. Size - 1
    BY <1>5, SlotType
  <1>8. ASSUME NEW x \in Nat, t <= x, x < h + w PROVE Slot(x) # Slot(h + w)
    <2>1. h + w < x + s
      BY <1>5, <1>8
    <2> QED BY <2>1, <1>1, <1>5, <1>8, SlotDistinct
  <1> QED BY <1>1, <1>6, <1>7, <1>8

(* A step keeps in the data area what the reader may still read.           *)
LEMMA MemoryStep == Inv /\ [Next]_vars => MemoryInv'
  <1> SUFFICES ASSUME Inv, [Next]_vars PROVE MemoryInv'
    OBVIOUS
  <1>0. /\ whead \in Nat /\ tail \in Nat /\ woff \in Nat
        /\ mem \in [0 .. Size - 1 -> Cells \cup {ZeroCell}]
        /\ Len(starts) = Len(written)
        /\ written \in Seq(Records) /\ starts \in Seq(Nat)
    BY DEF Inv, TypeOK, LayoutInv
  <1>1. CASE CopyCell
    <2>1. /\ mem' = [mem EXCEPT ![Slot(whead + woff)] =
                            [rec |-> wout, off |-> woff]]
          /\ UNCHANGED <<tail, whead, wout, wpc, written, starts>>
          /\ woff' = woff + 1
      BY <1>1, CopyIsFree DEF CopyCell
    <2>2. ASSUME NEW x \in Nat, tail <= x, x < whead + woff
          PROVE  mem'[Slot(x)] = mem[Slot(x)]
      BY <1>0, <1>1, <2>1, <2>2, CopyIsFree, SlotType
    <2>3. ASSUME NEW i \in 1 .. Len(written), starts[i] >= tail,
                 NEW k \in 0 .. written[i].len - 1
          PROVE  mem'[Slot(starts[i] + k)] = [rec |-> written[i], off |-> k]
      <3>1. PICK b \in Nat, l \in Nat, h \in Nat, w \in Nat, t \in Nat :
                b = starts[i] /\ l = written[i].len /\ h = whead /\ w = woff
                /\ t = tail
        <4>1. starts[i] \in Nat /\ written[i] \in Records
          BY <1>0
        <4>2. written[i].len \in Nat
          BY <4>1 DEF Records
        <4> QED BY <1>0, <4>1, <4>2
      <3>2. b + l <= h /\ t <= b /\ k \in 0 .. l - 1
        BY <2>3, <3>1 DEF Inv, LayoutInv
      <3>3. b + k \in Nat /\ t <= b + k /\ b + k < h + w
        BY <3>2
      <3>4. mem'[Slot(b + k)] = mem[Slot(b + k)]
        BY <3>1, <3>3, <2>2
      <3>5. mem[Slot(starts[i] + k)] = [rec |-> written[i], off |-> k]
        BY <2>3 DEF Inv, MemoryInv
      <3> QED BY <3>1, <3>4, <3>5
    <2>4. ASSUME NEW k \in 0 .. woff
          PROVE  mem'[Slot(whead + k)] = [rec |-> wout, off |-> k]
      <3>1. CASE k = woff
        BY <1>0, <1>1, <2>1, <3>1, CopyIsFree
      <3>2. CASE k # woff
        <4>1. PICK h \in Nat, w \in Nat, t \in Nat :
                  h = whead /\ w = woff /\ t = tail
          BY <1>0
        <4>2. h + k \in Nat /\ t <= h + k /\ h + k < h + w /\ k \in 0 .. w - 1
          <5>1. t <= h
            BY <4>1, CursorBound
          <5> QED BY <5>1, <4>1, <3>2, <2>4
        <4>3. mem'[Slot(h + k)] = mem[Slot(h + k)]
          BY <4>1, <4>2, <2>2
        <4>4. mem[Slot(whead + k)] = [rec |-> wout, off |-> k]
          BY <1>1, <4>1, <4>2 DEF Inv, MemoryInv, CopyCell
        <4> QED BY <4>1, <4>3, <4>4
      <3> QED BY <3>1, <3>2
    <2>5. 0 .. woff' - 1 = 0 .. woff
      BY <1>0, <2>1
    <2> QED BY <2>1, <2>3, <2>4, <2>5 DEF MemoryInv
  <1>2. CASE PublishHead
    <2>0. PICK n : n = Len(written)
      OBVIOUS
    <2>1. /\ n \in Nat
          /\ Len(written') = n + 1 /\ Len(starts') = n + 1
          /\ \A i \in 1 .. n : written'[i] = written[i] /\ starts'[i] = starts[i]
          /\ written'[n + 1] = wout /\ starts'[n + 1] = whead
      BY <1>2, <2>0, PublishAdds
    <2>2. /\ UNCHANGED <<mem, tail>> /\ woff' = 0 /\ wpc = "copy"
          /\ woff = wout.len
      BY <1>2 DEF PublishHead
    <2>3. ASSUME NEW i \in 1 .. n + 1, starts'[i] >= tail,
                 NEW k \in 0 .. written'[i].len - 1
          PROVE  mem[Slot(starts'[i] + k)] = [rec |-> written'[i], off |-> k]
      <3>1. CASE i \in 1 .. n
        <4>1. written'[i] = written[i] /\ starts'[i] = starts[i]
          BY <2>1, <3>1
        <4> QED BY <2>0, <2>3, <3>1, <4>1 DEF Inv, MemoryInv
      <3>2. CASE i = n + 1
        <4>1. written'[i] = wout /\ starts'[i] = whead
          BY <2>1, <3>2
        <4>2. k \in 0 .. woff - 1
          BY <2>2, <2>3, <4>1
        <4> QED BY <2>2, <4>1, <4>2 DEF Inv, MemoryInv
      <3> QED BY <2>1, <3>1, <3>2
    <2>4. 0 .. woff' - 1 = {}
      BY <2>2
    <2> QED BY <2>1, <2>2, <2>3, <2>4 DEF MemoryInv
  <1>3. CASE EndReading
    <2>1. /\ UNCHANGED <<mem, written, starts, wpc, woff, whead, wout>>
          /\ tail' \in Nat /\ tail <= tail'
      BY <1>3, ReaderLeavesWriter
    <2>2. \A i \in 1 .. Len(written) : starts[i] >= tail' => starts[i] >= tail
      <3> SUFFICES ASSUME NEW i \in 1 .. Len(written), starts[i] >= tail'
                   PROVE  starts[i] >= tail
        OBVIOUS
      <3>1. PICK b \in Nat, t \in Nat, u \in Nat :
                b = starts[i] /\ t = tail /\ u = tail'
        BY <1>0, <2>1
      <3> QED BY <2>1, <3>1
    <2> QED BY <2>1, <2>2 DEF Inv, MemoryInv
  <1>4. CASE FlushPendingLost
    <2>1. UNCHANGED <<mem, tail, written, starts>> /\ woff' = 0
      BY <1>4 DEF FlushPendingLost
    <2>2. 0 .. woff' - 1 = {}
      BY <2>1
    <2> QED BY <2>1, <2>2 DEF Inv, MemoryInv
  <1>5. ASSUME NEW l \in Lens, WriteTooLarge(l) \/ Write(l) PROVE MemoryInv'
    BY <1>5 DEF Inv, MemoryInv, WriteTooLarge, GiveUp, Write
  <1>6. CASE WaitForSpace \/ WaitTimeout \/ Flush
    BY <1>6 DEF Inv, MemoryInv, WaitForSpace, WaitTimeout, GiveUp, Flush
  <1>7. CASE ReaderStep \/ UNCHANGED vars
    <2>1. UNCHANGED <<mem, tail, written, starts, wpc, woff, whead, wout>>
      BY <1>7 DEF ReaderStep, BeginReading, Read, LookCell, Deliver, vars, wvars
    <2> QED BY <2>1 DEF Inv, MemoryInv
  <1> QED BY <1>1, <1>2, <1>3, <1>4, <1>5, <1>6, <1>7 DEF Next, WriterStep

-----------------------------------------------------------------------------
(* The reader.                                                             *)

(* What Read finds at the cursor: the first record not yet taken.          *)
LEMMA ReadFinds ==
    ASSUME Inv, Read, NEW d, d = Len(delivered) + 1
    PROVE  /\ d \in 1 .. Len(written)
           /\ written[d] \in Records /\ written[d].len \in Nat \ {0}
           /\ starts[d] \in Nat /\ cstart = starts[d]
           /\ rrec' = written[d]
           /\ cstart' = starts[d] + written[d].len
           /\ cstart' <= cend
  <1>1. /\ Len(delivered) \in Nat /\ Len(written) \in Nat
        /\ written \in Seq(Records) /\ starts \in Seq(Nat)
        /\ Len(starts) = Len(written) /\ cstart \in Nat /\ cend \in Nat
        /\ whead \in Nat /\ tail \in Nat
    BY DEF Inv, TypeOK, LayoutInv
  <1>2. /\ Taken = Len(delivered) /\ cstart = StartOf(d) /\ tail <= cstart
        /\ d <= Len(written) + 1 /\ d \in Nat \ {0}
    BY <1>1 DEF Inv, ReaderInv, Taken, Read
  <1>3. PICK e \in 0 .. Len(written) : cend = StartOf(e + 1)
    BY DEF Inv, ReaderInv
  <1>4. cstart < cend
    BY DEF Read, More
  <1>5. cend <= whead
    BY <1>3, CursorBound
  <1>6. d \in 1 .. Len(written) /\ cstart = starts[d]
    <2>1. d <= Len(written)
      <3>1. SUFFICES ASSUME ~(d <= Len(written)) PROVE FALSE
        OBVIOUS
      <3>2. cstart = whead
        BY <1>2, <3>1 DEF StartOf
      <3> QED BY <1>1, <1>4, <1>5, <3>2
    <2> QED BY <1>1, <1>2, <2>1 DEF StartOf
  <1>7. written[d] \in Records /\ starts[d] \in Nat
    BY <1>1, <1>6
  <1>8. written[d].len \in Nat \ {0}
    BY <1>7 DEF Records
  <1>9. mem[Slot(cstart)] = [rec |-> written[d], off |-> 0]
    <2>1. 0 \in 0 .. written[d].len - 1
      BY <1>8
    <2>2. starts[d] >= tail
      BY <1>1, <1>2, <1>6
    <2>3. mem[Slot(starts[d] + 0)] = [rec |-> written[d], off |-> 0]
      BY <1>6, <2>1, <2>2 DEF Inv, MemoryInv
    <2>4. starts[d] + 0 = cstart
      BY <1>6, <1>7
    <2> QED BY <2>3, <2>4
  <1>10. rrec' = written[d] /\ cstart' = starts[d] + written[d].len
    BY <1>6, <1>9 DEF Read
  <1>11. starts[d] + written[d].len <= cend
    <2>1. CASE e + 1 <= Len(written)
      <3>1. e + 1 \in 1 .. Len(written) /\ cend = starts[e + 1]
        BY <1>1, <1>3, <2>1 DEF StartOf
      <3>2. PICK a \in Nat, b \in Nat, l \in Nat \ {0}, x \in Nat, m \in Nat \ {0} :
                /\ a = starts[d] /\ b = starts[e + 1] /\ l = written[d].len
                /\ x = e + 1 /\ m = written[e + 1].len
        <4>1. starts[e + 1] \in Nat /\ written[e + 1] \in Records
          BY <1>1, <3>1
        <4>2. written[e + 1].len \in Nat \ {0}
          BY <4>1 DEF Records
        <4>3. starts[d] \in Nat /\ e + 1 \in Nat
          BY <1>1, <1>7, <3>1
        <4> QED BY <1>8, <4>1, <4>2, <4>3, Zenon
      <3>3. a < b
        BY <1>4, <1>6, <3>1, <3>2
      <3>4. d < x
        <4>1. SUFFICES ASSUME ~(d < x) PROVE FALSE
          OBVIOUS
        <4>2. CASE x = d
          BY <3>2, <3>3, <4>2
        <4>3. CASE x < d
          <5>1. starts[x] + written[x].len <= starts[d]
            BY <1>6, <3>1, <3>2, <4>3 DEF Inv, LayoutInv
          <5>2. b + m <= a
            BY <3>2, <5>1
          <5> QED BY <3>3, <5>2
        <4> QED BY <1>2, <3>2, <4>1, <4>2, <4>3
      <3>5. starts[d] + written[d].len <= starts[x]
        BY <1>6, <3>1, <3>2, <3>4 DEF Inv, LayoutInv
      <3> QED BY <3>1, <3>2, <3>5
    <2>2. CASE ~(e + 1 <= Len(written))
      <3>1. cend = whead
        BY <1>3, <2>2 DEF StartOf
      <3> QED BY <1>6, <3>1 DEF Inv, LayoutInv
    <2> QED BY <2>1, <2>2
  <1> QED BY <1>6, <1>7, <1>8, <1>10, <1>11

(* A step keeps the cursor at the start of the first record not yet taken. *)
LEMMA ReaderStepInv == Inv /\ [Next]_vars => ReaderInv'
  <1> SUFFICES ASSUME Inv, [Next]_vars PROVE ReaderInv'
    OBVIOUS
  <1>0. /\ Len(delivered) \in Nat /\ Len(written) \in Nat
        /\ delivered \in Seq(Records)
        /\ written \in Seq(Records) /\ starts \in Seq(Nat)
        /\ Len(starts) = Len(written) /\ cstart \in Nat /\ cend \in Nat
        /\ whead \in Nat /\ tail \in Nat /\ head = whead
        /\ ReaderInv
    BY DEF Inv, TypeOK, LayoutInv, WriterInv
  <1>1. CASE PublishHead
    <2>0. PICK n : n = Len(written)
      OBVIOUS
    <2>1. /\ n \in Nat /\ Len(written') = n + 1
          /\ \A i \in 1 .. n : written'[i] = written[i] /\ starts'[i] = starts[i]
          /\ starts'[n + 1] = whead
      BY <1>1, <2>0, PublishAdds
    <2>2. UNCHANGED <<tail, cstart, cend, rpc, rrec, rbuf, delivered>>
      BY <1>1 DEF PublishHead, rvars
    <2>3. \A i \in 1 .. n + 1 : StartOf(i)' = StartOf(i)
      BY <2>0, <2>1 DEF StartOf
    <2>4. Taken \in 0 .. n /\ Taken' = Taken
      BY <1>0, <2>0, <2>2 DEF ReaderInv, Taken
    <2>5. cstart' = StartOf(Taken + 1)'
      <3>1. Taken + 1 \in 1 .. n + 1
        BY <2>1, <2>4
      <3>2. StartOf(Taken + 1)' = IF Taken' + 1 <= n + 1
                                  THEN starts'[Taken' + 1] ELSE whead'
        BY <2>1 DEF StartOf
      <3>3. cstart = IF Taken + 1 <= n THEN starts[Taken + 1] ELSE whead
        BY <1>0, <2>0 DEF ReaderInv, StartOf
      <3>4. CASE Taken + 1 \in 1 .. n
        BY <2>1, <2>2, <2>4, <3>1, <3>2, <3>3, <3>4
      <3>5. CASE Taken + 1 = n + 1
        BY <2>1, <2>2, <2>4, <3>2, <3>3, <3>5
      <3> QED BY <2>1, <3>1, <3>4, <3>5
    <2>6. \E e \in 0 .. Len(written') : cend' = StartOf(e + 1)'
      <3>1. PICK e \in 0 .. n : cend = StartOf(e + 1)
        BY <1>0, <2>0 DEF ReaderInv
      <3>2. e + 1 \in 1 .. n + 1 /\ e \in 0 .. n + 1
        BY <2>1
      <3> QED BY <2>0, <2>1, <2>2, <3>1, <3>2 DEF StartOf
    <2>7. rpc = "look" => /\ rrec = written'[Taken]
                          /\ tail <= starts'[Taken]
                          /\ Len(rbuf) <= rrec.len
      BY <1>0, <2>0, <2>1, <2>4, SMTT(40) DEF ReaderInv, Taken
    <2>8. \A i \in 1 .. Len(delivered) : delivered[i] = written'[i]
      <3>1. Len(delivered) <= n
        BY <1>0, <2>1, <2>4 DEF Taken
      <3>2. \A i \in 1 .. Len(delivered) : i \in 1 .. n
        BY <1>0, <2>1, <3>1
      <3> QED BY <1>0, <2>1, <3>2 DEF ReaderInv
    <2> QED BY <1>0, <2>1, <2>2, <2>4, <2>5, <2>6, <2>7, <2>8 DEF ReaderInv
  <1>2. CASE BeginReading
    <2>1. /\ cstart' = cstart /\ cend' = whead /\ rpc' = "in"
          /\ UNCHANGED <<tail, whead, written, starts, rrec, rbuf, delivered>>
          /\ rpc \in {"out", "in"}
      BY <1>0, <1>2 DEF BeginReading, wvars, ReaderInv
    <2>2. Taken' = Taken
      BY <2>1 DEF Taken
    <2>3. Len(written) \in 0 .. Len(written) /\ cend' = StartOf(Len(written) + 1)
      BY <1>0, <2>1 DEF StartOf
    <2>4. cstart' <= cend'
      BY <2>1, CursorBound
    <2> QED BY <1>0, <2>1, <2>2, <2>3, <2>4 DEF ReaderInv, StartOf
  <1>3. CASE Read
    <2>0. PICK d : d = Len(delivered) + 1
      OBVIOUS
    <2>1. /\ d \in 1 .. Len(written)
          /\ written[d] \in Records /\ written[d].len \in Nat \ {0}
          /\ starts[d] \in Nat /\ cstart = starts[d]
          /\ rrec' = written[d]
          /\ cstart' = starts[d] + written[d].len
          /\ cstart' <= cend
      BY <1>3, <2>0, ReadFinds
    <2>2. /\ rpc' = "look" /\ rpc = "in" /\ rbuf' = << >>
          /\ UNCHANGED <<tail, whead, written, starts, cend, delivered>>
      BY <1>3 DEF Read, wvars
    <2>3. Taken' = d
      BY <2>0, <2>2 DEF Taken
    <2>4. cstart' = StartOf(d + 1)
      BY <2>1 DEF Inv, LayoutInv
    <2>5. tail <= starts[d] /\ tail <= cstart'
      <3>1. PICK a \in Nat, l \in Nat, t \in Nat :
                a = starts[d] /\ l = written[d].len /\ t = tail
        BY <1>0, <2>1
      <3>2. t <= a
        BY <1>0, <2>1, <3>1 DEF ReaderInv
      <3>3. t <= a + l
        BY <3>2
      <3> QED BY <2>1, <3>1, <3>2, <3>3
    <2>6. Len(rbuf') <= rrec'.len
      BY <2>1, <2>2
    <2>7. Taken' <= Len(written') /\ cstart' = StartOf(Taken + 1)'
      BY <2>1, <2>2, <2>3, <2>4 DEF StartOf
    <2>8. \E e \in 0 .. Len(written') : cend' = StartOf(e + 1)'
      BY <1>0, <2>2 DEF ReaderInv, StartOf
    <2>9. \A i \in 1 .. Len(delivered') : delivered'[i] = written'[i]
      BY <1>0, <2>2 DEF ReaderInv
    <2> QED BY <2>1, <2>2, <2>3, <2>5, <2>6, <2>7, <2>8, <2>9 DEF ReaderInv
  <1>4. CASE LookCell
    <2>1. /\ UNCHANGED <<tail, whead, written, starts, cstart, cend, rpc, rrec,
                         delivered>>
          /\ rpc = "look" /\ Len(rbuf) < rrec.len
          /\ rbuf' = Append(rbuf, mem[ReadSlot(Len(rbuf))])
      BY <1>4 DEF LookCell, wvars
    <2>2. rbuf \in Seq(Cells \cup {ZeroCell}) /\ rrec.len \in Nat
      BY <2>1, LookedAt DEF Inv, TypeOK
    <2>3. Len(rbuf') = Len(rbuf) + 1
      BY <2>1, <2>2
    <2>4. Len(rbuf') <= rrec.len
      BY <2>1, <2>2, <2>3
    <2>5. Taken' = Taken
      BY <2>1 DEF Taken
    <2> QED BY <1>0, <2>1, <2>4, <2>5 DEF ReaderInv, StartOf
  <1>5. CASE Deliver
    <2>0. PICK d : d = Len(delivered) + 1
      OBVIOUS
    <2>1. /\ UNCHANGED <<tail, whead, written, starts, cstart, cend>>
          /\ rpc = "look" /\ rpc' = "in" /\ rbuf' = << >>
          /\ delivered' = Append(delivered, rrec)
      BY <1>5 DEF Deliver, wvars
    <2>2. d \in 1 .. Len(written) /\ rrec = written[d] /\ rrec \in Records
      BY <2>0, <2>1, LookedAt
    <2>3. Len(delivered') = d /\ delivered'[d] = rrec
          /\ \A i \in 1 .. Len(delivered) : delivered'[i] = delivered[i]
      BY <1>0, <2>0, <2>1, <2>2
    <2>4. Taken = d /\ Taken' = d
      BY <2>0, <2>1, <2>3 DEF Taken
    <2>5. \A i \in 1 .. Len(delivered') : delivered'[i] = written[i]
      <3> SUFFICES ASSUME NEW i \in 1 .. d PROVE delivered'[i] = written[i]
        BY <2>3
      <3>1. CASE i = d
        BY <2>2, <2>3, <3>1
      <3>2. CASE i # d
        <4>1. i \in 1 .. Len(delivered)
          BY <1>0, <2>0, <3>2
        <4> QED BY <1>0, <2>3, <4>1 DEF ReaderInv
      <3> QED BY <3>1, <3>2
    <2> QED BY <1>0, <2>1, <2>4, <2>5 DEF ReaderInv, StartOf
  <1>6. CASE EndReading
    <2>1. /\ UNCHANGED <<whead, written, starts, cstart, cend, rrec, rbuf,
                         delivered>>
          /\ rpc = "in" /\ rpc' = "out" /\ tail' = cstart
      BY <1>6 DEF EndReading, wvars
    <2>2. Taken' = Taken
      BY <2>1 DEF Taken
    <2> QED BY <1>0, <2>1, <2>2 DEF ReaderInv, StartOf
  <1>7. ASSUME \/ \E l \in Lens : WriteTooLarge(l) \/ Write(l)
               \/ Flush \/ WaitForSpace \/ WaitTimeout \/ FlushPendingLost
               \/ CopyCell \/ UNCHANGED vars
        PROVE ReaderInv'
    <2>1. UNCHANGED <<tail, whead, written, starts, cstart, cend, rpc, rrec, rbuf,
                      delivered>>
      BY <1>7 DEF WriteTooLarge, GiveUp, Write, Flush, WaitForSpace, WaitTimeout,
                  FlushPendingLost, CopyCell, vars, wvars, rvars
    <2>2. Taken' = Taken
      BY <2>1 DEF Taken
    <2> QED BY <1>0, <2>1, <2>2 DEF ReaderInv, StartOf
  <1> QED BY <1>1, <1>2, <1>3, <1>4, <1>5, <1>6, <1>7
          DEF Next, WriterStep, ReaderStep

(* Every cell LookCell takes is the next cell of the record.               *)
LEMMA UntornStep == Inv /\ [Next]_vars => UntornRead'
  <1> SUFFICES ASSUME Inv, [Next]_vars PROVE UntornRead'
    OBVIOUS
  <1>1. CASE LookCell
    <2>0. PICK d : d = Len(delivered) + 1
      OBVIOUS
    <2>1. /\ d \in 1 .. Len(written)
          /\ rrec = written[d] /\ rrec \in Records
          /\ starts[d] \in Nat /\ starts[d] = cstart - rrec.len
          /\ tail <= starts[d]
          /\ rrec.len \in Nat \ {0} /\ rrec.len <= Size
      BY <1>1, <2>0, LookedAt DEF LookCell
    <2>2. PICK k : k = Len(rbuf)
      OBVIOUS
    <2>3. /\ k \in Nat /\ k < rrec.len /\ k < Size
          /\ rbuf \in Seq(Cells \cup {ZeroCell})
      BY <1>1, <2>1, <2>2, SizeAssumption DEF Inv, TypeOK, LookCell
    <2>4. ReadSlot(k) = Slot(starts[d] + k)
      BY <2>1, <2>3, ReadSlotIs
    <2>5. mem[Slot(starts[d] + k)] = [rec |-> written[d], off |-> k]
      <3>1. k \in 0 .. written[d].len - 1
        BY <2>1, <2>3
      <3>2. starts[d] >= tail
        BY <2>1 DEF Inv, TypeOK
      <3> QED BY <2>1, <3>1, <3>2 DEF Inv, MemoryInv
    <2>6. rbuf' = Append(rbuf, [rec |-> rrec, off |-> k]) /\ rrec' = rrec
      BY <1>1, <2>1, <2>2, <2>4, <2>5 DEF LookCell
    <2>7. /\ Len(rbuf') = k + 1 /\ rbuf'[k + 1] = [rec |-> rrec, off |-> k]
          /\ \A j \in 1 .. k : rbuf'[j] = rbuf[j]
      BY <2>2, <2>3, <2>6
    <2>8. ASSUME NEW j \in 1 .. k + 1
          PROVE  rbuf'[j] = [rec |-> rrec, off |-> j - 1]
      <3>1. CASE j = k + 1
        BY <2>3, <2>7, <3>1
      <3>2. CASE j # k + 1
        <4>1. j \in 1 .. k
          BY <2>3, <3>2
        <4> QED BY <2>2, <2>7, <4>1 DEF Inv, UntornRead
      <3> QED BY <3>1, <3>2
    <2> QED BY <2>6, <2>7, <2>8 DEF UntornRead
  <1>2. CASE Read \/ Deliver
    <2>1. rbuf' = << >>
      BY <1>2 DEF Read, Deliver
    <2> QED BY <2>1 DEF UntornRead
  <1>3. ASSUME \/ \E l \in Lens : WriteTooLarge(l) \/ Write(l)
               \/ Flush \/ WriterStep \/ BeginReading \/ EndReading
               \/ UNCHANGED vars
        PROVE UntornRead'
    <2>1. UNCHANGED <<rbuf, rrec>>
      BY <1>3 DEF WriteTooLarge, GiveUp, Write, Flush, WriterStep, WaitForSpace,
                  WaitTimeout, FlushPendingLost, CopyCell, PublishHead,
                  BeginReading, EndReading, vars, rvars
    <2> QED BY <2>1 DEF Inv, UntornRead
  <1> QED BY <1>1, <1>2, <1>3 DEF Next, ReaderStep

-----------------------------------------------------------------------------
(* The invariant holds initially.                                          *)
LEMMA InitInv == Init => Inv
  <1> SUFFICES ASSUME Init PROVE Inv
    OBVIOUS
  <1> USE SizeAssumption, MaxWritesAssumption DEF Init
  <1>1. TypeOK
    BY DEF TypeOK
  <1>2. WriterInv
    BY DEF WriterInv
  <1>3. LayoutInv
    BY DEF LayoutInv, StartOf
  <1>4. MemoryInv
    BY DEF MemoryInv
  <1>5. ReaderInv
    BY DEF ReaderInv, StartOf, Taken
  <1>6. UntornRead
    BY DEF UntornRead
  <1> QED BY <1>1, <1>2, <1>3, <1>4, <1>5, <1>6 DEF Inv

(* The ring's invariant is inductive.                                      *)
THEOREM Invariance == Spec => []Inv
  <1>1. Inv /\ [Next]_vars => Inv'
    BY TypeStep, WriterStepInv, LayoutStep, MemoryStep, ReaderStepInv, UntornStep
       DEF Inv
  <1> QED BY InitInv, <1>1, PTL DEF Spec

(* In every ring, of any size and with records of any lengths, all         *)
(* variables keep their types.                                             *)
THEOREM TypeCorrect == Spec => []TypeOK
  <1>1. Inv => TypeOK
    BY DEF Inv
  <1> QED BY Invariance, <1>1, PTL

(* A consumer never looks at a torn record.                                *)
THEOREM NoTornRead == Spec => []UntornRead
  <1>1. Inv => UntornRead
    BY DEF Inv
  <1> QED BY Invariance, <1>1, PTL

(* The positions of writer and reader never cross.                         *)
THEOREM PositionsNeverCross == Spec => []PositionsOrdered
  <1>1. Inv => PositionsOrdered
    <2> SUFFICES ASSUME Inv PROVE PositionsOrdered
      OBVIOUS
    <2>1. cstart <= head /\ head <= whead /\ head = whead
      BY CursorBound DEF Inv, WriterInv, TypeOK
    <2>2. cend <= head
      BY <2>1, CursorBound DEF Inv, ReaderInv
    <2> QED BY <2>1, <2>2 DEF PositionsOrdered, Inv, ReaderInv, WriterInv
  <1> QED BY Invariance, <1>1, PTL

-----------------------------------------------------------------------------
(* Refinement.                                                             *)

(* Every step of the ring is a step of the queue, or none.                 *)
LEMMA QueueStep == Inv /\ [Next]_vars => [Queue!QNext]_(Queue!qvars)
  <1> SUFFICES ASSUME Inv, [Next]_vars, ~UNCHANGED Queue!qvars PROVE Queue!QNext
    OBVIOUS
  <1>0. /\ dropped \in Nat /\ lost \in Nat
        /\ wpc = "copy" => wout.n \in Nat
    BY CopyingRecord DEF Inv, TypeOK, Records
  <1>1. ASSUME \/ \E l \in Lens : WriteTooLarge(l)
               \/ WaitTimeout
        PROVE Queue!Refuse
    <2>1. /\ UNCHANGED <<written, delivered>> /\ dropped' = dropped + 1
          /\ lost' = lost + 1 /\ wpc # "copy" /\ wpc' # "copy"
      BY <1>1 DEF WriteTooLarge, WaitTimeout, GiveUp, rvars
    <2>2. Pending = lost /\ Pending' = lost + 1
      BY <1>0, <2>1 DEF Pending
    <2>3. Reported' = Reported
      BY <1>0, <2>1, <2>2 DEF Reported
    <2> QED BY <2>1, <2>3 DEF Queue!Refuse
  <1>2. ASSUME \/ \E l \in Lens : Write(l)
               \/ WaitForSpace \/ Flush \/ FlushPendingLost \/ CopyCell
        PROVE  FALSE
    <2>1. UNCHANGED <<written, delivered, dropped>>
      BY <1>2 DEF Write, WaitForSpace, Flush, FlushPendingLost, CopyCell, rvars
    <2>2. CASE FlushPendingLost
      <3>1. CASE lost > 0 /\ Available >= LOST_RECORD_SIZE
        <4>1. /\ wpc = "flush" /\ wpc' = "copy" /\ lost' = 0
              /\ wout'.kind = "lost" /\ wout'.n = lost
          BY <2>2, <3>1 DEF FlushPendingLost, LostRecord
        <4> QED BY <1>0, <2>1, <4>1 DEF Pending, Reported, Queue!qvars
      <3>2. CASE ~(lost > 0 /\ Available >= LOST_RECORD_SIZE)
        <4>1. /\ wpc = "flush" /\ lost' = lost /\ wout' = wrec
              /\ wrec = NoRecord \/ wrec \in Payload
          BY <2>2, <3>2 DEF FlushPendingLost, Inv, WriterInv
        <4>2. wout'.kind # "lost"
          BY <4>1, PayloadType, RecordTypes
        <4> QED BY <1>0, <2>1, <4>1, <4>2 DEF Pending, Reported, Queue!qvars
      <3> QED BY <3>1, <3>2
    <2>3. CASE ~FlushPendingLost
      <3>1. /\ lost' = lost
            /\ \/ wpc # "copy" /\ wpc' # "copy"
               \/ wpc' = wpc /\ wout' = wout
        BY <1>2, <2>3 DEF Write, WaitForSpace, Flush, CopyCell
      <3> QED BY <2>1, <3>1 DEF Pending, Reported, Queue!qvars
    <2> QED BY <2>2, <2>3
  <1>3. CASE PublishHead
    <2>1. /\ UNCHANGED <<delivered, dropped, lost>> /\ wpc = "copy"
          /\ written' = Append(written, wout)
          /\ wpc' = "idle" \/ (wpc' = "copy" /\ wout' = wrec /\ wrec # NoRecord)
      BY <1>3 DEF PublishHead, rvars
    <2>2. Pending' = lost
      <3>1. wrec # NoRecord => wrec.kind # "lost"
        BY PayloadType DEF Inv, WriterInv
      <3> QED BY <1>0, <2>1, <3>1 DEF Pending
    <2>3. CASE wout.kind = "lost"
      <3>1. wout = LostRecord(wout.n) /\ wout.n > 0 /\ lost = 0
        BY <2>1, <2>3, PayloadType DEF Inv, WriterInv
      <3>2. Pending = wout.n
        BY <1>0, <2>1, <2>3, <3>1 DEF Pending
      <3>3. /\ dropped > Reported /\ dropped - Reported = wout.n
            /\ Reported' = dropped
        BY <1>0, <2>1, <2>2, <3>1, <3>2 DEF Reported
      <3>4. Queue!Report
        BY <2>1, <3>1, <3>3 DEF Queue!Report
      <3> QED BY <3>4 DEF Queue!QNext
    <2>4. CASE wout.kind # "lost"
      <3>1. wout \in Payload
        BY <2>1, <2>4 DEF Inv, WriterInv, LostRecord
      <3>2. Reported' = Reported
        BY <1>0, <2>1, <2>2, <2>4 DEF Pending, Reported
      <3>3. Queue!Put(wout)
        BY <2>1, <3>2 DEF Queue!Put
      <3> QED BY <3>1, <3>3 DEF Queue!QNext
    <2> QED BY <2>3, <2>4
  <1>4. CASE Deliver
    <2>0. PICK d : d = Len(delivered) + 1
      OBVIOUS
    <2>1. /\ UNCHANGED <<written, dropped, lost, wpc, wout>>
          /\ delivered' = Append(delivered, rrec)
      BY <1>4 DEF Deliver, wvars
    <2>2. d \in 1 .. Len(written) /\ rrec = written[d]
      BY <1>4, <2>0, LookedAt DEF Deliver
    <2>3. Len(delivered) < Len(written)
      BY <2>0, <2>2 DEF Inv, TypeOK
    <2>4. Reported' = Reported
      BY <2>1 DEF Reported, Pending
    <2>5. Queue!Get
      BY <2>0, <2>1, <2>2, <2>3, <2>4 DEF Queue!Get
    <2> QED BY <2>5 DEF Queue!QNext
  <1>5. ASSUME BeginReading \/ Read \/ LookCell \/ EndReading \/ UNCHANGED vars
        PROVE  FALSE
    <2>1. UNCHANGED <<written, delivered, dropped, lost, wpc, wout>>
      BY <1>5 DEF BeginReading, Read, LookCell, EndReading, vars, wvars, rvars
    <2> QED BY <2>1 DEF Reported, Pending, Queue!qvars
  <1> QED BY <1>1, <1>2, <1>3, <1>4, <1>5
          DEF Next, WriterStep, ReaderStep, Queue!QNext

(* The ring implements the lossy queue.                                    *)
THEOREM ImplementsQueue == Spec => QueueSpec
  <1>1. Init => Queue!QInit
    BY DEF Init, Queue!QInit, Reported, Pending
  <1> QED BY <1>1, QueueStep, Invariance, PTL DEF Spec, QueueSpec, Queue!QSpec
=============================================================================

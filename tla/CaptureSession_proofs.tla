------------------------ MODULE CaptureSession_proofs ------------------------
(***************************************************************************)
(* The data source, for any number of rings, any records and any sequence  *)
(* of calls: of every ring the callbacks were given exactly the accepted   *)
(* records of its consumed part, each once and in order; a pass over all   *)
(* rings delivers the oldest record it can reach; parse_all of a stopped   *)
(* session leaves nothing that it could have delivered.                    *)
(*                                                                         *)
(* And a capture built on it: one that succeeds has given every record to  *)
(* the callbacks once, for any capacity of the in-process ring and any     *)
(* interleaving of the kernel, the parse loop and the environment thread.  *)
(***************************************************************************)
EXTENDS CaptureSession, SequenceTheorems, TLAPS

-----------------------------------------------------------------------------
(* The data source.                                                        *)

RecordSet == [t : Nat, key : Nat, known : BOOLEAN]
DeliverySet == [ring : Rings, idx : Nat, key : Nat]
OrNone(S) == S \cup {None}

TypeInv ==
    /\ ring \in [Rings -> Seq(RecordSet)]
    /\ on \in [Rings -> BOOLEAN]
    /\ tail \in [Rings -> Nat] /\ cstart \in [Rings -> Nat] /\ cend \in [Rings -> Nat]
    /\ oldest \in OrNone(Rings) /\ nextTime \in OrNone(Nat)
    /\ find \in [oldestTime : OrNone(Nat), oldestCpu : OrNone(Rings),
                 nextTime : OrNone(Nat)]
    /\ todo \subseteq Rings
    /\ delivered \in Seq(DeliverySet)

CursorInv ==
    \A r \in Rings : /\ tail[r] <= Len(ring[r])
                     /\ cstart[r] <= cend[r] /\ cend[r] <= Len(ring[r])

(* The ring has a record that the pass which has just begun can deliver.   *)
Waiting(q) == tail[q] < cend[q] /\ ring[q][tail[q] + 1].known
FirstKey(q) == ring[q][tail[q] + 1].key

BeginInv == pc = "begin" => \A r \in Rings \ todo : cstart[r] = tail[r]

(* The loop invariant of find_current_buffer: oldestTime and nextTime      *)
(* bound what waits in the rings that were looked at.                      *)
FindInv ==
    pc = "find" =>
        /\ \A r \in todo : cstart[r] = tail[r]
        /\ find.oldestTime = None <=> find.oldestCpu = None
        /\ find.oldestCpu # None =>
            /\ find.oldestCpu \notin todo /\ Waiting(find.oldestCpu)
            /\ cstart[find.oldestCpu] = tail[find.oldestCpu]
            /\ find.oldestTime = FirstKey(find.oldestCpu)
        /\ \A q \in Rings \ todo : Waiting(q) =>
            /\ find.oldestTime # None /\ find.oldestTime <= FirstKey(q)
            /\ q # find.oldestCpu =>
                find.nextTime # None /\ find.nextTime <= FirstKey(q)

(* While the oldest ring is read, next_time bounds what waits elsewhere.   *)
ReadInv ==
    pc = "read" =>
        \A q \in Rings \ {oldest} :
            Waiting(q) => nextTime # None /\ nextTime <= FirstKey(q)

(* Without an oldest ring the pass found nothing in any ring.              *)
EmptyInv ==
    pc \in {"read", "end", "check"} /\ oldest = None =>
        \A q \in Rings : ~Waiting(q)

CpuInv == pc = "readCpu" => mode = "cpu" /\ \A q, r \in todo : q = r

(* While a call of a stopped session parses, the kernel's rings stay as    *)
(* begin_reading saw them.                                                 *)
Parsing == pc \in {"begin", "find", "read", "end", "check"}
QuietInv ==
    quiet /\ Parsing =>
        /\ \A r \in Rings : ~on[r]
        /\ \A r \in KernelRings :
            pc # "begin" \/ r \notin todo => cend[r] = Len(ring[r])

SourceInv ==
    /\ TypeInv /\ CursorInv /\ BeginInv /\ FindInv /\ ReadInv /\ EmptyInv
    /\ CpuInv /\ QuietInv /\ DeliveredOnce

(* Of PerfSource alone: the in-process ring stays empty, and the kernel's  *)
(* records are in the order of their times.                                *)
EnvRingEmpty == EnvRing \in Rings => ring[EnvRing] = << >>
SortedInv ==
    /\ clock \in Nat
    /\ \A r \in Rings : \A k \in DOMAIN ring[r] :
        /\ ring[r][k].key <= clock
        /\ \A j \in 1 .. k : ring[r][j].key <= ring[r][k].key

-----------------------------------------------------------------------------
LEMMA ConsumedBound ==
    ASSUME TypeInv, CursorInv, NEW r \in Rings
    PROVE  Consumed(r) \in Nat /\ Consumed(r) <= Len(ring[r]) /\ Len(ring[r]) \in Nat
BY LenProperties DEF TypeInv, CursorInv, Consumed

(* Nothing was consumed; what was, is where it was.                        *)
LEMMA NothingConsumed ==
    ASSUME DeliveredOnce, delivered' = delivered,
           \A r \in Rings : Consumed(r)' = Consumed(r),
           \A r \in Rings : \A k \in 1 .. Consumed(r) : ring'[r][k] = ring[r][k]
    PROVE  DeliveredOnce'
<1>1. ASSUME NEW r \in Rings
      PROVE  {k \in 1 .. Consumed(r)' : ring'[r][k].known} =
             {k \in 1 .. Consumed(r) : ring[r][k].known}
    <2>1. Consumed(r)' = Consumed(r)
        OBVIOUS
    <2>2. \A k \in 1 .. Consumed(r) : ring'[r][k].known <=> ring[r][k].known
        OBVIOUS
    <2> HIDE DEF Consumed
    <2>3. QED
        BY <2>1, <2>2
<1>2. QED
    BY <1>1 DEF DeliveredOnce

(* A record that is not accepted was passed over.                          *)
LEMMA OneSkipped ==
    ASSUME TypeInv, CursorInv, DeliveredOnce, UNCHANGED <<ring, delivered>>,
           NEW r \in Rings, Consumed(r)' = Consumed(r) + 1,
           ~ring[r][Consumed(r) + 1].known,
           \A q \in Rings \ {r} : Consumed(q)' = Consumed(q)
    PROVE  DeliveredOnce'
<1>1. Consumed(r) \in Nat
    BY ConsumedBound
<1>2. {k \in 1 .. Consumed(r) + 1 : ring[r][k].known} =
      {k \in 1 .. Consumed(r) : ring[r][k].known}
    BY <1>1
<1>3. ASSUME NEW q \in Rings
      PROVE  {k \in 1 .. Consumed(q)' : ring'[q][k].known} =
             {k \in 1 .. Consumed(q) : ring[q][k].known}
    BY <1>2
<1>4. QED
    BY <1>3 DEF DeliveredOnce

(* The next record of a ring was given to the callbacks.                   *)
LEMMA OneDelivered ==
    ASSUME TypeInv, CursorInv, DeliveredOnce, ring' = ring,
           NEW r \in Rings, NEW x \in Nat, Consumed(r)' = Consumed(r) + 1,
           ring[r][Consumed(r) + 1].known,
           delivered' = Append(delivered,
                               [ring |-> r, idx |-> Consumed(r) + 1, key |-> x]),
           \A q \in Rings \ {r} : Consumed(q)' = Consumed(q)
    PROVE  DeliveredOnce' /\ delivered' \in Seq(DeliverySet)
<1> DEFINE d == [ring |-> r, idx |-> Consumed(r) + 1, key |-> x]
           n == Len(delivered) + 1
           Idx(q) == {delivered[i].idx : i \in {j \in DOMAIN delivered : delivered[j].ring = q}}
           Idx1(q) == {delivered'[i].idx : i \in {j \in DOMAIN delivered' : delivered'[j].ring = q}}
           K(q) == {k \in 1 .. Consumed(q) : ring[q][k].known}
           K1(q) == {k \in 1 .. Consumed(q)' : ring[q][k].known}
<1>1. Consumed(r) \in Nat
    BY ConsumedBound
<1>2. d \in DeliverySet /\ d.ring = r /\ d.idx = Consumed(r) + 1
    BY <1>1 DEF DeliverySet
<1>3. /\ Len(delivered) \in Nat /\ DOMAIN delivered = 1 .. Len(delivered)
      /\ delivered' \in Seq(DeliverySet) /\ DOMAIN delivered' = 1 .. n
      /\ \A i \in DOMAIN delivered : delivered'[i] = delivered[i]
      /\ delivered'[n] = d
    BY <1>2, AppendProperties, LenProperties DEF TypeInv
<1> HIDE DEF d
<1>4. ASSUME NEW q \in Rings PROVE Idx1(q) = K1(q)
    <2>1. Idx(q) = K(q)
        BY DEF DeliveredOnce
    <2>2. CASE q = r
        <3>1. Idx1(r) = Idx(r) \cup {d.idx}
            BY <1>2, <1>3
        <3>2. K1(r) = K(r) \cup {d.idx}
            BY <1>1, <1>2
        <3>3. QED
            BY <2>1, <2>2, <3>1, <3>2, ZenonT(40)
    <2>3. CASE q # r
        <3>1. Idx1(q) = Idx(q)
            BY <1>2, <1>3, <2>3
        <3>2. QED
            BY <2>1, <2>3, <3>1
    <2>4. QED
        BY <2>2, <2>3
<1>5. ASSUME NEW i \in DOMAIN delivered', NEW j \in DOMAIN delivered',
             i < j, delivered'[i].ring = delivered'[j].ring
      PROVE  delivered'[i].idx < delivered'[j].idx
    <2>1. CASE j \in DOMAIN delivered
        BY <1>3, <1>5, <2>1 DEF DeliveredOnce
    <2>2. CASE j = n
        <3>1. i \in DOMAIN delivered /\ delivered[i].ring = r
            BY <1>2, <1>3, <1>5, <2>2
        <3>2. delivered[i].idx \in K(r)
            BY <3>1 DEF DeliveredOnce
        <3>3. QED
            BY <1>1, <1>2, <1>3, <2>2, <3>1, <3>2
    <2>3. QED
        BY <1>3, <2>1, <2>2
<1>6. QED
    BY <1>3, <1>4, <1>5 DEF DeliveredOnce

-----------------------------------------------------------------------------
LEMMA InitSource == Init => SourceInv /\ EnvRingEmpty /\ SortedInv
<1> SUFFICES ASSUME Init PROVE SourceInv /\ EnvRingEmpty /\ SortedInv
    OBVIOUS
<1>1. \A r \in Rings : ring[r] = << >> /\ Len(ring[r]) = 0 /\ DOMAIN ring[r] = {}
    BY DEF Init
<1>2. TypeInv
    <2>1. << >> \in Seq(RecordSet) /\ << >> \in Seq(DeliverySet)
        OBVIOUS
    <2>2. NothingFound \in [oldestTime : OrNone(Nat), oldestCpu : OrNone(Rings),
                            nextTime : OrNone(Nat)]
        BY DEF NothingFound, OrNone
    <2>3. QED
        BY <2>1, <2>2 DEF Init, TypeInv, OrNone
<1>3. CursorInv /\ EnvRingEmpty
    BY <1>1 DEF Init, CursorInv, EnvRingEmpty
<1>4. BeginInv /\ FindInv /\ ReadInv /\ EmptyInv /\ CpuInv /\ QuietInv
    BY DEF Init, BeginInv, FindInv, ReadInv, EmptyInv, CpuInv, QuietInv, Parsing
<1>5. DeliveredOnce
    BY DEF Init, DeliveredOnce, Consumed
<1>6. SortedInv
    BY <1>1 DEF Init, SortedInv
<1>7. QED
    BY <1>2, <1>3, <1>4, <1>5, <1>6 DEF SourceInv

(* A record is published at the end of a ring: by the kernel, or by the    *)
(* thread that writes into the in-process ring.                            *)
LEMMA PublishKeeps ==
    ASSUME SourceInv, NEW r \in Rings, NEW rec \in RecordSet,
           ring' = [ring EXCEPT ![r] = Append(@, rec)], on' = on,
           UNCHANGED <<cursorVars, sourceVars, callVars, delivered>>,
           r \in KernelRings => on[r]
    PROVE  SourceInv'
<1> USE DEF cursorVars, sourceVars, callVars
<1>1. TypeInv /\ CursorInv
    BY DEF SourceInv
<1>2. /\ ring' \in [Rings -> Seq(RecordSet)]
      /\ \A q \in Rings : /\ Len(ring[q]) \in Nat /\ Len(ring'[q]) \in Nat
                           /\ Len(ring[q]) <= Len(ring'[q])
                           /\ q # r => ring'[q] = ring[q]
                           /\ \A k \in 1 .. Len(ring[q]) : ring'[q][k] = ring[q][k]
    BY <1>1, AppendProperties, LenProperties DEF TypeInv
<1>3. TypeInv' /\ CursorInv'
    BY <1>1, <1>2 DEF TypeInv, CursorInv
<1>4. \A q \in Rings : (Waiting(q)' <=> Waiting(q)) /\ (Waiting(q) => FirstKey(q)' = FirstKey(q))
    BY <1>1, <1>2 DEF TypeInv, CursorInv, Waiting, FirstKey
<1>5. BeginInv' /\ ReadInv' /\ EmptyInv' /\ CpuInv'
    BY <1>4 DEF SourceInv, BeginInv, ReadInv, EmptyInv, CpuInv
<1>6. FindInv'
    BY <1>1, <1>4 DEF SourceInv, FindInv, TypeInv, OrNone
<1>7. QuietInv'
    BY <1>2 DEF SourceInv, QuietInv, Parsing, KernelRings
<1>8. DeliveredOnce'
    <2>1. \A q \in Rings : Consumed(q)' = Consumed(q)
        BY DEF Consumed
    <2>2. \A q \in Rings : \A k \in 1 .. Consumed(q) : ring'[q][k] = ring[q][k]
        BY <1>1, <1>2, ConsumedBound
    <2>3. QED
        BY <2>1, <2>2, NothingConsumed DEF SourceInv
<1>9. QED
    BY <1>3, <1>5, <1>6, <1>7, <1>8 DEF SourceInv

(* The steps of enable() and disable(), and the begin and the end of every *)
(* call but parse_for_cpu's, touch no cursor.                              *)
LEMMA SwitchKeeps == SourceInv /\ (Enable \/ Disable \/ SwitchStep) => SourceInv'
<1> SUFFICES ASSUME SourceInv, Enable \/ Disable \/ SwitchStep PROVE SourceInv'
    OBVIOUS
<1> USE DEF kernelVars, cursorVars, sourceVars, callVars
<1>1. /\ UNCHANGED <<ring, cursorVars, oldest, nextTime, find, delivered>>
      /\ pc \in {"idle", "enable", "disable"} /\ pc' \in {"idle", "enable", "disable"}
      /\ todo' \subseteq Rings
      /\ on' \in [Rings -> BOOLEAN]
    BY DEF Enable, Disable, SwitchStep, SwitchDone, SwitchFails, SwitchRing,
           Call, KernelRings, SourceInv, TypeInv
<1>2. TypeInv' /\ CursorInv'
    BY <1>1 DEF SourceInv, TypeInv, CursorInv
<1>3. BeginInv' /\ FindInv' /\ ReadInv' /\ EmptyInv' /\ CpuInv' /\ QuietInv'
    BY <1>1 DEF BeginInv, FindInv, ReadInv, EmptyInv, CpuInv, QuietInv, Parsing
<1>4. DeliveredOnce'
    <2>1. \A q \in Rings : Consumed(q)' = Consumed(q)
        BY <1>1 DEF Consumed
    <2>2. QED
        BY <1>1, <2>1, NothingConsumed DEF SourceInv
<1>5. QED
    BY <1>2, <1>3, <1>4 DEF SourceInv

LEMMA CallKeeps ==
    ASSUME SourceInv, NEW m, ParseUntil(m) \/ ParseAgain \/ ParseReturns
    PROVE  SourceInv'
<1> USE DEF kernelVars, cursorVars, sourceVars, callVars
<1>1. /\ UNCHANGED <<kernelVars, cursorVars, oldest, nextTime, find, delivered>>
      /\ pc \in {"idle", "check"} /\ pc' \in {"idle", "begin"}
      /\ todo' \subseteq Rings /\ (pc' = "begin" => todo' = Rings)
    BY DEF ParseUntil, ParseAgain, ParseReturns, Call, SourceInv, TypeInv
<1>2. TypeInv' /\ CursorInv'
    BY <1>1 DEF SourceInv, TypeInv, CursorInv
<1>3. BeginInv' /\ FindInv' /\ ReadInv' /\ EmptyInv' /\ CpuInv'
    BY <1>1 DEF BeginInv, FindInv, ReadInv, EmptyInv, CpuInv
<1>4. QuietInv'
    <2>1. CASE pc = "check"
        <3>1. quiet' = quiet
            BY <2>1 DEF ParseUntil, ParseAgain, ParseReturns, Call
        <3>2. QED
            BY <1>1, <2>1, <3>1 DEF SourceInv, QuietInv, Parsing, KernelRings
    <2>2. CASE pc = "idle"
        <3>1. quiet' = \A r \in Rings : ~on[r]
            BY <2>2 DEF ParseUntil, ParseAgain, ParseReturns, Call
        <3>2. QED
            BY <1>1, <3>1 DEF QuietInv, Parsing, KernelRings
    <2>3. QED
        BY <1>1, <2>1, <2>2
<1>5. DeliveredOnce'
    <2>1. \A q \in Rings : Consumed(q)' = Consumed(q)
        BY <1>1 DEF Consumed
    <2>2. QED
        BY <1>1, <2>1, NothingConsumed DEF SourceInv
<1>6. QED
    BY <1>2, <1>3, <1>4, <1>5 DEF SourceInv

LEMMA BeginKeeps ==
    ASSUME SourceInv, BeginDone \/ \E r \in Rings : BeginRing(r)
    PROVE  SourceInv'
<1> USE DEF kernelVars, cursorVars, sourceVars, callVars
<1>1. TypeInv /\ CursorInv /\ \A r \in Rings : Len(ring[r]) \in Nat
    BY LenProperties DEF SourceInv, TypeInv
<1>2. CASE BeginDone
    <2>1. /\ UNCHANGED <<kernelVars, cursorVars, oldest, nextTime, quiet, delivered>>
          /\ pc = "begin" /\ todo = {} /\ pc' = "find" /\ todo' = Rings
          /\ find' = NothingFound
        BY <1>2 DEF BeginDone
    <2>2. TypeInv' /\ CursorInv'
        BY <1>1, <2>1 DEF TypeInv, CursorInv, NothingFound, OrNone
    <2>3. BeginInv' /\ ReadInv' /\ EmptyInv' /\ CpuInv'
        BY <2>1 DEF BeginInv, ReadInv, EmptyInv, CpuInv
    <2>4. FindInv'
        BY <2>1 DEF SourceInv, BeginInv, FindInv, NothingFound
    <2>5. QuietInv'
        BY <2>1 DEF SourceInv, QuietInv, Parsing, KernelRings
    <2>6. \A q \in Rings : Consumed(q)' = Consumed(q)
        BY <2>1 DEF Consumed
    <2>7. DeliveredOnce'
        BY <2>1, <2>6, NothingConsumed DEF SourceInv
    <2>8. QED
        BY <2>2, <2>3, <2>4, <2>5, <2>7 DEF SourceInv
<1>3. ASSUME NEW r \in Rings, BeginRing(r) PROVE SourceInv'
    <2>1. /\ UNCHANGED <<kernelVars, tail, oldest, nextTime, find, pc, quiet, delivered>>
          /\ pc = "begin" /\ r \in todo /\ todo' = todo \ {r}
          /\ cstart' = [cstart EXCEPT ![r] = tail[r]]
          /\ cend' = [cend EXCEPT ![r] = Len(ring[r])]
        BY <1>3 DEF BeginRing, NextReader
    <2>2. TypeInv' /\ CursorInv'
        BY <1>1, <2>1 DEF TypeInv, CursorInv
    <2>3. BeginInv' /\ ReadInv' /\ EmptyInv' /\ CpuInv' /\ FindInv'
        BY <1>1, <2>1 DEF SourceInv, TypeInv, BeginInv, ReadInv, EmptyInv, CpuInv, FindInv
    <2>4. QuietInv'
        BY <1>1, <2>1 DEF SourceInv, TypeInv, QuietInv, Parsing, KernelRings
    <2>5. \A q \in Rings : Consumed(q)' = Consumed(q)
        BY <2>1 DEF Consumed
    <2>6. DeliveredOnce'
        BY <2>1, <2>5, NothingConsumed DEF SourceInv
    <2>7. QED
        BY <2>2, <2>3, <2>4, <2>6 DEF SourceInv
<1>4. QED
    BY <1>2, <1>3

LEMMA CursorStep ==
    ASSUME SourceInv, NEW r \in Rings
    PROVE  /\ AfterReadTime(r) \in Nat /\ AfterReadTime(r) <= cend[r]
           /\ ReadTime(r) \in OrNone(Nat)
           /\ ReadTime(r) # None =>
                /\ cstart[r] < cend[r] /\ ring[r][cstart[r] + 1].known
                /\ ReadTime(r) = ring[r][cstart[r] + 1].key
                /\ AfterReadTime(r) = cstart[r]
           /\ ReadTime(r) = None =>
                \/ cstart[r] = cend[r] /\ AfterReadTime(r) = cstart[r]
                \/ /\ cstart[r] < cend[r] /\ ~ring[r][cstart[r] + 1].known
                   /\ AfterReadTime(r) = cstart[r] + 1
<1>1. /\ cstart[r] \in Nat /\ cend[r] \in Nat /\ cstart[r] <= cend[r]
      /\ cend[r] <= Len(ring[r]) /\ ring[r] \in Seq(RecordSet)
    BY DEF SourceInv, TypeInv, CursorInv
<1>2. More(r) => AtCursor(r) \in RecordSet
    BY <1>1, ElementOfSeq DEF More, AtCursor
<1>3. More(r) => AtCursor(r).key \in Nat /\ AtCursor(r).key # None /\ AtCursor(r).known \in BOOLEAN
    BY <1>2 DEF RecordSet, None
<1>4. QED
    BY <1>1, <1>3 DEF More, AtCursor, ReadTime, AfterReadTime, OrNone

LEMMA WaitingHasKey ==
    ASSUME SourceInv, NEW q \in Rings, Waiting(q)
    PROVE  FirstKey(q) \in Nat
<1>1. ring[q] \in Seq(RecordSet) /\ tail[q] + 1 \in 1 .. Len(ring[q])
    BY DEF SourceInv, TypeInv, CursorInv, Waiting
<1>2. ring[q][tail[q] + 1] \in RecordSet
    BY <1>1, ElementOfSeq
<1>3. QED
    BY <1>2 DEF FirstKey, RecordSet

(* One turn of find_current_buffer.                                        *)
LEMMA FindRingKeeps ==
    ASSUME SourceInv, NEW r \in Rings, FindRing(r)
    PROVE  SourceInv'
<1> USE DEF kernelVars, cursorVars, sourceVars, callVars
<1>1. /\ UNCHANGED <<kernelVars, tail, cend, oldest, nextTime, pc, quiet, delivered>>
      /\ pc = "find" /\ r \in todo /\ todo' = todo \ {r}
      /\ find' = FindStep(find, r)
      /\ cstart' = [cstart EXCEPT ![r] = AfterReadTime(r)]
    BY DEF FindRing, NextReader
<1> DEFINE t == ReadTime(r)
<1>2. /\ find.oldestTime \in Nat \cup {None} /\ find.nextTime \in Nat \cup {None}
      /\ find.oldestCpu \in Rings \cup {None} /\ t \in Nat \cup {None}
      /\ find = [oldestTime |-> find.oldestTime, oldestCpu |-> find.oldestCpu,
                 nextTime |-> find.nextTime]
    BY CursorStep DEF SourceInv, TypeInv, OrNone
<1>3. /\ cstart[r] = tail[r]
      /\ Waiting(r) <=> t # None
      /\ Waiting(r) => t = FirstKey(r) /\ AfterReadTime(r) = tail[r]
    BY <1>1, CursorStep, SMTT(40) DEF SourceInv, TypeInv, CursorInv, FindInv, Waiting, FirstKey
<1>4. /\ cstart' \in [Rings -> Nat] /\ cstart'[r] = AfterReadTime(r)
      /\ AfterReadTime(r) <= cend[r]
      /\ \A q \in Rings \ {r} : cstart'[q] = cstart[q]
    BY <1>1, CursorStep DEF SourceInv, TypeInv
<1>5. \A q \in Rings : Waiting(q)' = Waiting(q) /\ FirstKey(q)' = FirstKey(q)
    BY <1>1 DEF Waiting, FirstKey
<1>6. CursorInv'
    BY <1>1, <1>4 DEF SourceInv, CursorInv
<1>7. find' \in [oldestTime : OrNone(Nat), oldestCpu : OrNone(Rings), nextTime : OrNone(Nat)]
    BY <1>1, <1>2 DEF FindStep, OrNone
<1>8. TypeInv'
    BY <1>1, <1>4, <1>7 DEF SourceInv, TypeInv
<1>9. FindInv'
    <2>1. /\ \A q \in todo' : cstart'[q] = tail'[q]
          /\ pc' = "find"
        BY <1>1, <1>4 DEF SourceInv, TypeInv, FindInv
    <2>2. find'.oldestTime = None <=> find'.oldestCpu = None
        BY <1>1, <1>2 DEF SourceInv, FindInv, FindStep, None, Rings
    <2>3. find'.oldestCpu # None =>
            /\ find'.oldestCpu \notin todo' /\ Waiting(find'.oldestCpu)
            /\ cstart'[find'.oldestCpu] = tail'[find'.oldestCpu]
            /\ find'.oldestTime = FirstKey(find'.oldestCpu)
        <3>1. CASE find'.oldestCpu = r /\ find'.oldestTime = t /\ t # None
            BY <1>1, <1>3, <1>4, <3>1
        <3>2. CASE find'.oldestCpu = find.oldestCpu /\ find'.oldestTime = find.oldestTime
            BY <1>1, <1>2, <1>4, <3>2 DEF SourceInv, FindInv
        <3>3. QED
            BY <1>1, <1>2, <3>1, <3>2 DEF FindStep
    <2>4. ASSUME NEW q \in Rings \ todo', Waiting(q)
          PROVE  /\ find'.oldestTime # None /\ find'.oldestTime <= FirstKey(q)
                 /\ q # find'.oldestCpu =>
                    find'.nextTime # None /\ find'.nextTime <= FirstKey(q)
        <3>1. CASE q = r
            BY <1>1, <1>2, <1>3, <2>4, <3>1 DEF FindStep, None
        <3>2. CASE q # r
            <4>1. /\ find.oldestTime # None /\ find.oldestTime <= FirstKey(q)
                  /\ q # find.oldestCpu =>
                        find.nextTime # None /\ find.nextTime <= FirstKey(q)
                  /\ q = find.oldestCpu => FirstKey(q) = find.oldestTime
                BY <1>1, <2>4, <3>2 DEF SourceInv, FindInv
            <4>2. FirstKey(q) \in Nat
                BY <2>4, WaitingHasKey
            <4>3. QED
                BY <1>1, <1>2, <3>2, <4>1, <4>2 DEF FindStep, None
        <3>3. QED
            BY <3>1, <3>2
    <2>5. find'.oldestCpu # None => find'.oldestCpu \in Rings
        BY <1>7 DEF OrNone
    <2>6. QED
        BY <1>1, <1>5, <2>1, <2>2, <2>3, <2>4, <2>5 DEF FindInv
<1>10. BeginInv' /\ ReadInv' /\ EmptyInv' /\ CpuInv'
    BY <1>1 DEF BeginInv, ReadInv, EmptyInv, CpuInv
<1>11. QuietInv'
    BY <1>1 DEF SourceInv, QuietInv, Parsing
<1>12. DeliveredOnce'
    <2>1. \A q \in Rings : Consumed(q)' = Consumed(q)
        BY <1>1 DEF Consumed
    <2>2. QED
        BY <1>1, <2>1, NothingConsumed DEF SourceInv
<1>13. QED
    BY <1>6, <1>8, <1>9, <1>10, <1>11, <1>12 DEF SourceInv

LEMMA FindDoneKeeps ==
    ASSUME SourceInv, FindDone
    PROVE  SourceInv'
<1> USE DEF kernelVars, cursorVars, sourceVars, callVars
<1>1. /\ UNCHANGED <<kernelVars, cursorVars, todo, quiet, delivered>>
      /\ pc = "find" /\ todo = {} /\ pc' = "read"
      /\ oldest' = find.oldestCpu /\ nextTime' = find.nextTime
      /\ find' = NothingFound
    BY DEF FindDone
<1>2. TypeInv' /\ CursorInv'
    BY <1>1 DEF SourceInv, TypeInv, CursorInv, NothingFound, OrNone
<1>3. \A q \in Rings : Waiting(q)' = Waiting(q) /\ FirstKey(q)' = FirstKey(q)
    BY <1>1 DEF Waiting, FirstKey
<1>4. ReadInv' /\ EmptyInv'
    BY <1>1, <1>3 DEF SourceInv, FindInv, ReadInv, EmptyInv
<1>5. BeginInv' /\ FindInv' /\ CpuInv'
    BY <1>1 DEF BeginInv, FindInv, CpuInv
<1>6. QuietInv'
    BY <1>1 DEF SourceInv, QuietInv, Parsing
<1>7. DeliveredOnce'
    <2>1. \A q \in Rings : Consumed(q)' = Consumed(q)
        BY <1>1 DEF SourceInv, FindInv, Consumed, None, Rings
    <2>2. QED
        BY <1>1, <2>1, NothingConsumed DEF SourceInv
<1>8. QED
    BY <1>2, <1>4, <1>5, <1>6, <1>7 DEF SourceInv

(* A record of ring r goes to the callbacks; the pass may end with it.     *)
LEMMA DeliverKeeps ==
    ASSUME SourceInv, NEW r \in Rings, ReadTime(r) # None, Deliver(r),
           cstart' = [cstart EXCEPT ![r] = @ + 1],
           UNCHANGED <<kernelVars, tail, cend, sourceVars, find, todo, mode, quiet>>,
           \/ pc = "read" /\ oldest = r /\ pc' \in {"read", "end"}
           \/ pc = "readCpu" /\ r \in todo /\ pc' = pc
    PROVE  SourceInv'
<1> USE DEF kernelVars, sourceVars
<1>1. /\ cstart[r] < cend[r] /\ ring[r][cstart[r] + 1].known
      /\ ReadTime(r) = ring[r][cstart[r] + 1].key /\ ReadTime(r) \in Nat
    BY CursorStep DEF OrNone
<1>2. /\ cstart' \in [Rings -> Nat] /\ cstart'[r] = cstart[r] + 1
      /\ \A q \in Rings \ {r} : cstart'[q] = cstart[q]
    BY DEF SourceInv, TypeInv
<1>3. CursorInv'
    BY <1>1, <1>2 DEF SourceInv, TypeInv, CursorInv
<1>4. DeliveredOnce' /\ delivered' \in Seq(DeliverySet)
    <2>1. Consumed(r) = cstart[r] /\ Consumed(r)' = cstart[r] + 1
        BY <1>2 DEF Consumed
    <2>2. \A q \in Rings \ {r} : Consumed(q)' = Consumed(q)
        BY <1>2 DEF Consumed, SourceInv, CpuInv
    <2>3. delivered' = Append(delivered, [ring |-> r, idx |-> Consumed(r) + 1,
                                          key |-> ReadTime(r)])
        BY <1>1, <2>1 DEF Deliver, AtCursor
    <2>4. QED
        BY <1>1, <2>1, <2>2, <2>3, OneDelivered DEF SourceInv
<1>5. TypeInv'
    BY <1>2, <1>4 DEF SourceInv, TypeInv
<1>6. \A q \in Rings : Waiting(q)' = Waiting(q) /\ FirstKey(q)' = FirstKey(q)
    BY DEF Waiting, FirstKey
<1>7. BeginInv' /\ FindInv' /\ ReadInv' /\ EmptyInv' /\ CpuInv'
    BY <1>6 DEF SourceInv, BeginInv, FindInv, ReadInv, EmptyInv, CpuInv
<1>8. QuietInv'
    BY DEF SourceInv, QuietInv, Parsing
<1>9. QED
    BY <1>3, <1>4, <1>5, <1>7, <1>8 DEF SourceInv

LEMMA ReadKeeps ==
    ASSUME SourceInv, Read \/ \E r \in Rings : ReadCpu(r)
    PROVE  SourceInv'
<1>1. CASE Read
    <2>1. oldest \in Rings
        BY <1>1 DEF Read, SourceInv, TypeInv, OrNone
    <2>2. QED
        BY <1>1, <2>1, DeliverKeeps DEF Read, kernelVars, sourceVars
<1>2. ASSUME NEW r \in Rings, ReadCpu(r) PROVE SourceInv'
    BY <1>2, DeliverKeeps DEF ReadCpu, kernelVars, sourceVars, callVars
<1>3. QED
    BY <1>1, <1>2

(* read() gives none.                                                      *)
LEMMA ReadNoneKeeps ==
    ASSUME SourceInv, ReadNone
    PROVE  SourceInv'
<1> USE DEF kernelVars, sourceVars
<1>1. /\ UNCHANGED <<ring, on, tail, cend, oldest, nextTime, find, todo, mode, quiet,
                     delivered>>
      /\ pc = "read" /\ pc' = "end"
    BY DEF ReadNone
<1>2. \A q \in Rings : Waiting(q)' = Waiting(q) /\ FirstKey(q)' = FirstKey(q)
    BY <1>1 DEF Waiting, FirstKey
<1>3. BeginInv' /\ FindInv' /\ ReadInv' /\ EmptyInv' /\ CpuInv'
    BY <1>1, <1>2 DEF SourceInv, BeginInv, FindInv, ReadInv, EmptyInv, CpuInv
<1>4. QuietInv'
    BY <1>1 DEF SourceInv, QuietInv, Parsing
<1>5. TypeInv' /\ CursorInv' /\ DeliveredOnce'
    <2>1. CASE UNCHANGED cstart
        <3>1. \A q \in Rings : Consumed(q)' = Consumed(q)
            BY <1>1, <2>1 DEF Consumed
        <3>2. DeliveredOnce'
            BY <1>1, <3>1, NothingConsumed DEF SourceInv
        <3>3. QED
            BY <1>1, <2>1, <3>2 DEF SourceInv, TypeInv, CursorInv
    <2>2. CASE /\ oldest # None /\ ReadTime(oldest) = None
               /\ cstart' = [cstart EXCEPT ![oldest] = AfterReadTime(oldest)]
        <3>1. oldest \in Rings
            BY <2>2 DEF SourceInv, TypeInv, OrNone
        <3>2. /\ cstart' \in [Rings -> Nat] /\ cstart'[oldest] = AfterReadTime(oldest)
              /\ AfterReadTime(oldest) <= cend[oldest]
              /\ \A q \in Rings \ {oldest} : cstart'[q] = cstart[q]
            BY <2>2, <3>1, CursorStep DEF SourceInv, TypeInv
        <3>3. TypeInv' /\ CursorInv'
            BY <1>1, <3>2 DEF SourceInv, TypeInv, CursorInv
        <3>4. /\ Consumed(oldest) = cstart[oldest]
              /\ Consumed(oldest)' = AfterReadTime(oldest)
              /\ \A q \in Rings \ {oldest} : Consumed(q)' = Consumed(q)
            BY <1>1, <3>1, <3>2 DEF Consumed
        <3>5. CASE AfterReadTime(oldest) = cstart[oldest]
            BY <1>1, <3>3, <3>4, <3>5, NothingConsumed DEF SourceInv
        <3>6. CASE /\ AfterReadTime(oldest) = cstart[oldest] + 1
                   /\ ~ring[oldest][cstart[oldest] + 1].known
            BY <1>1, <3>1, <3>3, <3>4, <3>6, OneSkipped DEF SourceInv
        <3>7. QED
            BY <2>2, <3>1, <3>5, <3>6, CursorStep
    <2>3. QED
        BY <2>1, <2>2 DEF ReadNone
<1>6. QED
    BY <1>3, <1>4, <1>5 DEF SourceInv

LEMMA EndReadingKeeps ==
    ASSUME SourceInv, EndReading
    PROVE  SourceInv'
<1> USE DEF kernelVars, sourceVars
<1>1. /\ UNCHANGED <<ring, on, cstart, cend, oldest, nextTime, find, todo, mode, quiet,
                     delivered>>
      /\ pc = "end" /\ pc' = "check"
      /\ tail' = IF oldest = None THEN tail ELSE [tail EXCEPT ![oldest] = cstart[oldest]]
    BY DEF EndReading
<1>2. \A q \in Rings : tail'[q] = Consumed(q) /\ tail' \in [Rings -> Nat]
    <2>1. CASE oldest = None
        BY <1>1, <2>1 DEF SourceInv, TypeInv, Consumed, None, Rings
    <2>2. CASE oldest \in Rings
        BY <1>1, <2>2 DEF SourceInv, TypeInv, Consumed, None, Rings
    <2>3. QED
        BY <2>1, <2>2 DEF SourceInv, TypeInv, OrNone
<1>3. TypeInv' /\ CursorInv'
    BY <1>1, <1>2, ConsumedBound DEF SourceInv, TypeInv, CursorInv
<1>4. BeginInv' /\ FindInv' /\ ReadInv' /\ CpuInv'
    BY <1>1 DEF BeginInv, FindInv, ReadInv, CpuInv
<1>5. EmptyInv'
    BY <1>1 DEF SourceInv, EmptyInv, Waiting
<1>6. QuietInv'
    BY <1>1 DEF SourceInv, QuietInv, Parsing
<1>7. \A q \in Rings : Consumed(q)' = Consumed(q)
    BY <1>1, <1>2 DEF Consumed
<1>8. DeliveredOnce'
    BY <1>1, <1>7, NothingConsumed DEF SourceInv
<1>9. QED
    BY <1>3, <1>4, <1>5, <1>6, <1>8 DEF SourceInv

LEMMA ParseForCpuKeeps ==
    ASSUME SourceInv, NEW r \in Rings, ParseForCpu(r)
    PROVE  SourceInv'
<1> USE DEF kernelVars, sourceVars
<1>1. /\ UNCHANGED <<ring, on, tail, oldest, nextTime, find, delivered>>
      /\ pc = "idle" /\ pc' = "readCpu" /\ mode' = "cpu" /\ todo' = {r}
      /\ cstart' = [cstart EXCEPT ![r] = tail[r]]
      /\ cend' = [cend EXCEPT ![r] = Len(ring[r])]
    BY DEF ParseForCpu, Call
<1>2. \A q \in Rings : Len(ring[q]) \in Nat
    BY LenProperties DEF SourceInv, TypeInv
<1>3. TypeInv' /\ CursorInv'
    BY <1>1, <1>2 DEF SourceInv, TypeInv, CursorInv
<1>4. BeginInv' /\ FindInv' /\ ReadInv' /\ EmptyInv' /\ CpuInv' /\ QuietInv'
    BY <1>1 DEF BeginInv, FindInv, ReadInv, EmptyInv, CpuInv, QuietInv, Parsing
<1>5. \A q \in Rings : Consumed(q)' = Consumed(q)
    BY <1>1 DEF Consumed, SourceInv, TypeInv
<1>6. DeliveredOnce'
    BY <1>1, <1>5, NothingConsumed DEF SourceInv
<1>7. QED
    BY <1>3, <1>4, <1>6 DEF SourceInv

LEMMA EndReadingCpuKeeps ==
    ASSUME SourceInv, NEW r \in Rings, EndReadingCpu(r)
    PROVE  SourceInv'
<1> USE DEF kernelVars, sourceVars
<1>1. /\ UNCHANGED <<ring, on, cend, oldest, nextTime, find, delivered>>
      /\ pc = "readCpu" /\ r \in todo /\ ReadTime(r) = None
      /\ pc' = "idle" /\ todo' = {}
      /\ cstart' = [cstart EXCEPT ![r] = AfterReadTime(r)]
      /\ tail' = [tail EXCEPT ![r] = AfterReadTime(r)]
    BY DEF EndReadingCpu
<1>2. /\ cstart' \in [Rings -> Nat] /\ cstart'[r] = AfterReadTime(r)
      /\ tail' \in [Rings -> Nat] /\ tail'[r] = AfterReadTime(r)
      /\ AfterReadTime(r) <= cend[r]
      /\ \A q \in Rings \ {r} : cstart'[q] = cstart[q] /\ tail'[q] = tail[q]
    BY <1>1, CursorStep DEF SourceInv, TypeInv
<1>3. TypeInv' /\ CursorInv'
    <2>1. AfterReadTime(r) \in Nat /\ cend[r] \in Nat /\ Len(ring[r]) \in Nat
        BY <1>2, LenProperties DEF SourceInv, TypeInv
    <2>2. QED
        BY <1>1, <1>2, <2>1 DEF SourceInv, TypeInv, CursorInv
<1>4. BeginInv' /\ FindInv' /\ ReadInv' /\ EmptyInv' /\ CpuInv' /\ QuietInv'
    BY <1>1 DEF BeginInv, FindInv, ReadInv, EmptyInv, CpuInv, QuietInv, Parsing
<1>5. /\ Consumed(r) = cstart[r] /\ Consumed(r)' = AfterReadTime(r)
      /\ \A q \in Rings \ {r} : Consumed(q)' = Consumed(q)
    BY <1>1, <1>2 DEF Consumed, SourceInv, CpuInv
<1>6. DeliveredOnce'
    <2>1. CASE AfterReadTime(r) = cstart[r]
        BY <1>1, <1>5, <2>1, NothingConsumed DEF SourceInv
    <2>2. CASE /\ AfterReadTime(r) = cstart[r] + 1
               /\ ~ring[r][cstart[r] + 1].known
        BY <1>1, <1>5, <2>2, OneSkipped DEF SourceInv
    <2>3. QED
        BY <1>1, <2>1, <2>2, CursorStep
<1>7. QED
    BY <1>3, <1>4, <1>6 DEF SourceInv

LEMMA ParseStepKeeps == SourceInv /\ ParseStep => SourceInv'
BY BeginKeeps, FindRingKeeps, FindDoneKeeps, ReadKeeps, ReadNoneKeeps,
   EndReadingKeeps, CallKeeps, EndReadingCpuKeeps DEF ParseStep

LEMMA StutterKeeps == SourceInv /\ UNCHANGED vars => SourceInv'
<1> SUFFICES ASSUME SourceInv, UNCHANGED vars PROVE SourceInv'
    OBVIOUS
<1> USE DEF vars, kernelVars, cursorVars, sourceVars, callVars
<1>1. TypeInv' /\ CursorInv' /\ BeginInv' /\ FindInv' /\ ReadInv'
    BY DEF SourceInv, TypeInv, CursorInv, BeginInv, FindInv, ReadInv, Waiting, FirstKey
<1>2. EmptyInv' /\ CpuInv' /\ QuietInv' /\ DeliveredOnce'
    BY DEF SourceInv, EmptyInv, CpuInv, QuietInv, Parsing, DeliveredOnce, Waiting, Consumed
<1>3. QED
    BY <1>1, <1>2 DEF SourceInv

(* The kernel's records are in the order of their times.                   *)
LEMMA EmitKeeps ==
    ASSUME SourceInv, SortedInv, EnvRingEmpty, KernelStep
    PROVE  SourceInv' /\ SortedInv' /\ EnvRingEmpty'
<1>1. PICK r \in Rings, known \in Known, t \in {clock, clock + 1} : Emit(r, known, t)
    BY DEF KernelStep
<1> DEFINE rec == Record(t, t, known)
<1>2. /\ r \in KernelRings /\ on[r] /\ clock' = t
      /\ ring' = [ring EXCEPT ![r] = Append(@, rec)]
      /\ UNCHANGED <<on, cursorVars, sourceVars, callVars, delivered>>
    BY <1>1 DEF Emit
<1>3. rec \in RecordSet /\ rec.key = t /\ t \in Nat /\ clock \in Nat /\ clock <= t
    BY KnownAssumption DEF Record, RecordSet, SortedInv
<1> HIDE DEF rec
<1>4. SourceInv'
    BY <1>2, <1>3, PublishKeeps
<1>5. EnvRingEmpty'
    BY <1>2 DEF EnvRingEmpty, KernelRings, SourceInv, TypeInv
<1>6. /\ ring[r] \in Seq(RecordSet) /\ Len(ring[r]) \in Nat
      /\ DOMAIN ring[r] = 1 .. Len(ring[r])
      /\ ring'[r] = Append(ring[r], rec) /\ \A q \in Rings \ {r} : ring'[q] = ring[q]
    BY <1>2, LenProperties DEF SourceInv, TypeInv
<1>7. /\ DOMAIN ring'[r] = 1 .. Len(ring[r]) + 1
      /\ \A k \in 1 .. Len(ring[r]) : ring'[r][k] = ring[r][k]
      /\ ring'[r][Len(ring[r]) + 1] = rec
    BY <1>3, <1>6, AppendProperties
<1>8. ASSUME NEW q \in Rings, NEW k \in DOMAIN ring'[q]
      PROVE  /\ ring'[q][k].key <= clock'
             /\ \A j \in 1 .. k : ring'[q][j].key <= ring'[q][k].key
    <2>1. \A i \in DOMAIN ring[q] : ring[q][i].key \in Nat
        <3>1. ring[q] \in Seq(RecordSet)
            BY DEF SourceInv, TypeInv
        <3>2. \A i \in DOMAIN ring[q] : ring[q][i] \in RecordSet
            BY <3>1, ElementOfSeq, LenProperties
        <3>3. QED
            BY <3>2 DEF RecordSet
    <2>2. CASE q # r
        BY <1>2, <1>3, <1>6, <1>8, <2>1, <2>2 DEF SortedInv
    <2>3. CASE q = r /\ k \in 1 .. Len(ring[r])
        BY <1>2, <1>3, <1>6, <1>7, <2>1, <2>3 DEF SortedInv
    <2>4. CASE q = r /\ k = Len(ring[r]) + 1
        BY <1>2, <1>3, <1>6, <1>7, <2>1, <2>4 DEF SortedInv
    <2>5. QED
        BY <1>7, <2>2, <2>3, <2>4
<1>9. QED
    BY <1>2, <1>3, <1>4, <1>5, <1>8 DEF SortedInv

-----------------------------------------------------------------------------
(* The inductive invariant of RingBufDataSource under the parse loops.     *)
THEOREM SourceInvariant == Spec => [](SourceInv /\ SortedInv /\ EnvRingEmpty)
<1> DEFINE I == SourceInv /\ SortedInv /\ EnvRingEmpty
<1>1. I /\ [Next]_vars => I'
    <2> SUFFICES ASSUME I, [Next]_vars PROVE I'
        OBVIOUS
    <2>1. CASE KernelStep
        BY <2>1, EmitKeeps
    <2>2. CASE ~KernelStep
        <3>1. UNCHANGED <<ring, clock>>
            BY <2>2 DEF Next, vars, kernelVars, Enable, Disable, SwitchStep, SwitchDone,
                SwitchFails, SwitchRing, ParseUntil, ParseForCpu, ParseStep, BeginRing,
                BeginDone, FindRing, FindDone, Read, ReadNone, EndReading, ParseAgain,
                ParseReturns, ReadCpu, EndReadingCpu
        <3>2. SortedInv' /\ EnvRingEmpty'
            BY <3>1 DEF SortedInv, EnvRingEmpty
        <3>3. QED
            BY <2>2, <3>2, StutterKeeps, SwitchKeeps, CallKeeps, ParseForCpuKeeps,
               ParseStepKeeps DEF Next, KernelRings
    <2>3. QED
        BY <2>1, <2>2
<1>2. QED
    BY <1>1, InitSource, PTL DEF Spec

(* Whatever passes end early, switch rings or skip records: of every ring  *)
(* the callbacks got exactly the accepted records of the consumed part,    *)
(* each once and in order (begin_reading, read, end_reading and their      *)
(* per-CPU counterparts).                                                  *)
THEOREM EachDeliveredOnce == Spec => []DeliveredOnce
BY SourceInvariant, PTL DEF SourceInv

(* What a pass can reach of a ring is not older than what waits first.     *)
LEMMA ReachableKeys ==
    ASSUME SourceInv, SortedInv, NEW q \in Rings, NEW k \in Reachable(q)
    PROVE  /\ Waiting(q) /\ FirstKey(q) \in Nat
           /\ ring[q][k].key \in Nat /\ FirstKey(q) <= ring[q][k].key
<1>1. /\ tail[q] \in Nat /\ cend[q] \in Nat /\ Len(ring[q]) \in Nat
      /\ ring[q] \in Seq(RecordSet) /\ DOMAIN ring[q] = 1 .. Len(ring[q])
      /\ cend[q] <= Len(ring[q])
    BY LenProperties DEF SourceInv, TypeInv, CursorInv
<1>2. /\ k \in tail[q] + 1 .. cend[q] /\ k \in DOMAIN ring[q]
      /\ tail[q] + 1 \in 1 .. k /\ ring[q][tail[q] + 1].known
    BY <1>1 DEF Reachable
<1>3. Waiting(q)
    BY <1>1, <1>2 DEF Waiting
<1>4. ring[q][k] \in RecordSet
    BY <1>1, <1>2, ElementOfSeq
<1>5. QED
    BY <1>2, <1>3, <1>4, WaitingHasKey DEF SortedInv, FirstKey, RecordSet

LEMMA OnlyReadsDeliver ==
    ASSUME [Next]_vars, delivered' # delivered
    PROVE  Read \/ \E r \in Rings : ReadCpu(r)
BY DEF Next, vars, KernelStep, Emit, Enable, Disable, SwitchStep, SwitchDone,
   SwitchFails, SwitchRing, ParseUntil, ParseForCpu, ParseStep, BeginRing, BeginDone,
   FindRing, FindDone, ReadNone, EndReading, ParseAgain, ParseReturns, EndReadingCpu

(* A pass over all rings gives a record only when no older one waits in    *)
(* the part of any other ring that it can reach: find_current_buffer's     *)
(* next_time bounds them all while read() stays with the oldest ring.      *)
THEOREM PassOldestFirst == Spec => OldestFirst
<1>1. ASSUME SourceInv, SortedInv, [Next]_vars, delivered' # delivered, mode # "cpu",
             NEW q \in Rings \ {Last(delivered').ring}, NEW k \in Reachable(q)
      PROVE  ring[q][k].key >= Last(delivered').key
    <2>1. Read
        BY <1>1, OnlyReadsDeliver DEF ReadCpu, SourceInv, CpuInv
    <2>2. oldest \in Rings /\ pc = "read"
        BY <1>1, <2>1 DEF Read, SourceInv, TypeInv, OrNone
    <2>3. Last(delivered').ring = oldest /\ Last(delivered').key = ReadTime(oldest)
        <3> DEFINE d == [ring |-> oldest, idx |-> cstart[oldest] + 1, key |-> AtCursor(oldest).key]
        <3>1. delivered' = Append(delivered, d) /\ delivered \in Seq(DeliverySet)
            BY <1>1, <2>1 DEF Read, Deliver, SourceInv, TypeInv
        <3>2. ReadTime(oldest) = AtCursor(oldest).key
            BY <2>1 DEF Read, ReadTime
        <3>3. d \in DeliverySet
            BY <1>1, <2>1, <2>2, <3>2, CursorStep, SMTT(40) DEF Read, OrNone, DeliverySet, SourceInv, TypeInv
        <3>4. d.ring = oldest /\ d.key = AtCursor(oldest).key
            OBVIOUS
        <3> HIDE DEF d
        <3>5. Last(delivered') = d
            BY <3>1, <3>3, AppendProperties DEF Last
        <3>6. QED
            BY <3>2, <3>4, <3>5
    <2>4. Waiting(q) /\ FirstKey(q) \in Nat /\ ring[q][k].key \in Nat
          /\ FirstKey(q) <= ring[q][k].key
        BY <1>1, ReachableKeys
    <2>5. nextTime # None /\ nextTime <= FirstKey(q) /\ nextTime \in Nat
        BY <1>1, <2>2, <2>3, <2>4 DEF SourceInv, ReadInv, TypeInv, OrNone
    <2>6. ReadTime(oldest) \in Nat /\ ReadTime(oldest) <= nextTime
        BY <1>1, <2>1, <2>2, <2>5, CursorStep DEF Read, OrNone
    <2>7. QED
        BY <2>3, <2>4, <2>5, <2>6
<1>2. SourceInv /\ SortedInv /\ [Next]_vars => [GivesOldest]_vars
    BY <1>1 DEF GivesOldest
<1>3. QED
    BY <1>2, SourceInvariant, PTL DEF Spec, OldestFirst

(* parse_all of a stopped session stops at a record that read_time does    *)
(* not accept, or at the end, in every ring.                               *)
THEOREM StoppedSessionDrains == Spec => ParseAllDrains
<1>1. ASSUME SourceInv, EnvRingEmpty, [Next]_vars, pc = "check", pc' = "idle",
             mode = "all", quiet, NEW r \in Rings, tail[r] < Len(ring[r])
      PROVE  ~ring[r][tail[r] + 1].known
    <2>1. ParseReturns
        BY <1>1 DEF Next, vars, callVars, KernelStep, Emit, Enable, Disable, SwitchStep,
           SwitchDone, SwitchFails, SwitchRing, ParseUntil, ParseForCpu, ParseStep,
           BeginRing, BeginDone, FindRing, FindDone, Read, ReadNone, EndReading,
           ParseAgain, ReadCpu, EndReadingCpu, Call
    <2>2. ~Waiting(r)
        BY <1>1, <2>1 DEF ParseReturns, MoreToRead, SourceInv, EmptyInv
    <2>3. r \in KernelRings
        BY <1>1 DEF KernelRings, EnvRingEmpty, SourceInv, TypeInv
    <2>4. cend[r] = Len(ring[r])
        BY <1>1, <2>3 DEF SourceInv, QuietInv, Parsing
    <2>5. QED
        BY <1>1, <2>2, <2>4 DEF Waiting
<1>2. SourceInv /\ EnvRingEmpty /\ [Next]_vars => [Drains]_vars
    BY <1>1 DEF Drains, StoppedAtEnd
<1>3. QED
    BY <1>2, SourceInvariant, PTL DEF Spec, ParseAllDrains

-----------------------------------------------------------------------------
(* A capture.                                                              *)

AllOff == \A r \in Rings : ~on[r]

(* Every ring is read to its end or to a record that read_time refuses.    *)
Drained ==
    \A r \in Rings : tail[r] < Len(ring[r]) => ~ring[r][tail[r] + 1].known

EnvInv ==
    /\ clock \in Nat
    /\ erec \in RecordSet /\ (epc = "write" => erec.known)

(* What the session's thread is inside of at each statement of             *)
(* os_parse_until.  Only a disable() that succeeded leads to the join and  *)
(* the drain, and only a finished environment thread to the drain.         *)
StepInv ==
    /\ ~on[N] /\ (pc \in {"enable", "disable"} => todo \subseteq KernelRings)
    /\ step \in {"export_hooks", "join"} => pc = "idle"
    /\ step = "enable" => pc \in {"enable", "idle"}
    /\ step = "until" => enabled /\ pc \notin {"enable", "disable"}
    /\ step = "disable" =>
        /\ pc \in {"disable", "idle"}
        /\ pc = "disable" => enabled /\ \A r \in KernelRings \ todo : ~on[r]
        /\ ~enabled => AllOff
    /\ step = "join" => AllOff
    /\ step = "drain" =>
        /\ AllOff /\ epc = "done"
        /\ pc = "idle" => Drained
        /\ pc # "idle" => /\ Parsing /\ mode = "all" /\ quiet
                          /\ pc # "begin" \/ N \notin todo => cend[N] = Len(ring[N])
    /\ step = "done" => AllOff /\ epc = "done" /\ pc = "idle" /\ Drained

SessionInv == SourceInv /\ EnvInv /\ StepInv

(* Of captures in which read_time accepts every record.                    *)
AllKnown == \A r \in Rings : \A k \in DOMAIN ring[r] : ring[r][k].known

-----------------------------------------------------------------------------
LEMMA LastRing == N \in Rings /\ N \notin KernelRings
BY NAssumption, InProcessRingAssumption DEF Rings, KernelRings

(* The time that read_time decodes behind the padding is a time.           *)
LEMMA DropBytesIsNat ==
    ASSUME NEW t \in Nat, NEW n \in {0, 1, 2, 4}
    PROVE  DropBytes(t, n) \in Nat
<1>1. \A x \in Nat : x \div 256 \in Nat
    OBVIOUS
<1>2. QED
    BY <1>1 DEF DropBytes

LEMMA DecodedIsNat ==
    ASSUME NEW t \in Nat, NEW pad \in Pads
    PROVE  DecodedTime(t, pad) \in Nat
<1>1. pad \in 0 .. 7
    BY PadsAssumption
<1>2. /\ pad % 2 \in {0, 1, 2, 4} /\ 2 * ((pad \div 2) % 2) \in {0, 1, 2, 4}
      /\ 4 * (pad \div 4) \in {0, 1, 2, 4}
    BY <1>1
<1>3. QED
    BY <1>2, DropBytesIsNat DEF DecodedTime

(* Every record the kernel publishes leaves the source as it should be.    *)
LEMMA KernelPublishes ==
    ASSUME SourceInv, clock \in Nat, KernelStep
    PROVE  /\ SourceInv' /\ clock' \in Nat
           /\ \E r \in KernelRings : on[r]
           /\ UNCHANGED <<on, cursorVars, sourceVars, callVars, delivered>>
<1>1. PICK r \in Rings, known \in Known, t \in {clock, clock + 1} : Emit(r, known, t)
    BY DEF KernelStep
<1> DEFINE rec == Record(t, t, known)
<1>2. /\ r \in KernelRings /\ on[r] /\ clock' = t
      /\ ring' = [ring EXCEPT ![r] = Append(@, rec)]
      /\ UNCHANGED <<on, cursorVars, sourceVars, callVars, delivered>>
    BY <1>1 DEF Emit
<1>3. rec \in RecordSet /\ t \in Nat
    BY KnownAssumption DEF Record, RecordSet
<1> HIDE DEF rec
<1>4. QED
    BY <1>2, <1>3, PublishKeeps

LEMMA EnvPublishes ==
    ASSUME SourceInv, NEW rec \in RecordSet, PublishEnv(rec)
    PROVE  SourceInv'
BY LastRing, PublishKeeps DEF PublishEnv

(* The session goes out of scope.                                          *)
LEMMA ReturnKeeps == SourceInv /\ Return => SourceInv'
<1> SUFFICES ASSUME SourceInv, Return PROVE SourceInv'
    OBVIOUS
<1> USE DEF Return, cursorVars, sourceVars, callVars
<1>1. TypeInv' /\ CursorInv' /\ BeginInv' /\ FindInv' /\ ReadInv'
    BY DEF SourceInv, TypeInv, CursorInv, BeginInv, FindInv, ReadInv, Waiting, FirstKey
<1>2. EmptyInv' /\ CpuInv' /\ QuietInv' /\ DeliveredOnce'
    BY DEF SourceInv, EmptyInv, CpuInv, QuietInv, Parsing, DeliveredOnce, Waiting, Consumed
<1>3. QED
    BY <1>1, <1>2 DEF SourceInv

(* Steps of the main thread, apart from Return, are steps of PerfSource or *)
(* leave it alone.                                                         *)
LEMMA MainSource ==
    ASSUME SourceInv, MainStep
    PROVE  SourceInv'
<1>1. CASE SessionParseStep
    BY <1>1, ParseStepKeeps DEF SessionParseStep, ParseStep
<1>2. CASE SessionSwitchStep
    BY <1>2, SwitchKeeps DEF SessionSwitchStep
<1>3. CASE ExportHooks \/ EnableReturns \/ UntilReturns
    BY <1>3, SwitchKeeps, CallKeeps, StutterKeeps DEF ExportHooks, EnableReturns, UntilReturns
<1>4. CASE DisableReturns \/ JoinReturns \/ DrainReturns
    BY <1>4, CallKeeps, StutterKeeps DEF DisableReturns, JoinReturns, DrainReturns
<1>5. QED
    BY <1>1, <1>2, <1>3, <1>4, ReturnKeeps DEF MainStep

LEMMA MainEnv ==
    ASSUME EnvInv, MainStep
    PROVE  EnvInv'
<1> USE DEF envVars, vars, kernelVars
<1>1. clock' = clock
    BY DEF MainStep, ExportHooks, EnableReturns, UntilReturns, DisableReturns, JoinReturns,
       DrainReturns, Return, SessionSwitchStep, SessionParseStep, SwitchStep, Enable, Disable,
       SwitchDone, SwitchFails, SwitchRing, ParseUntil, BeginRing, BeginDone, FindRing,
       FindDone, Read, ReadNone, EndReading, ParseAgain, ParseReturns
<1>2. erec' = erec /\ (epc' = epc \/ epc' = "next")
    BY DEF MainStep, ExportHooks, EnableReturns, UntilReturns, DisableReturns, JoinReturns,
       DrainReturns, Return, SessionSwitchStep, SessionParseStep
<1>3. QED
    BY <1>1, <1>2 DEF EnvInv

LEMMA EnvStepKeeps ==
    ASSUME SourceInv, EnvInv, EnvStep
    PROVE  /\ SourceInv' /\ EnvInv'
           /\ UNCHANGED <<on, cursorVars, sourceVars, callVars, delivered, step>>
           /\ epc # "done"
<1> USE DEF mainVars, vars, kernelVars
<1>1. UNCHANGED <<on, cursorVars, sourceVars, callVars, delivered, step>> /\ epc # "done"
    BY DEF EnvStep, EnvStamp, EnvPublishLost, EnvPublish, EnvTimeout, EnvFlush, PublishEnv
<1>2. ASSUME NEW t \in {clock, clock + 1}, NEW pad \in Pads, EnvStamp(t, pad)
      PROVE  /\ SourceInv' /\ EnvInv'
    <2>1. t \in Nat /\ DecodedTime(t, pad) \in Nat
        BY DecodedIsNat DEF EnvInv
    <2>2. erec' \in RecordSet /\ erec'.known /\ clock' = t
        BY <1>2, <2>1 DEF EnvStamp, Record, RecordSet
    <2>3. SourceInv'
        <3> USE <1>2 DEF EnvStamp, cursorVars, sourceVars, callVars
        <3>1. TypeInv' /\ CursorInv' /\ BeginInv' /\ FindInv' /\ ReadInv'
            BY DEF SourceInv, TypeInv, CursorInv, BeginInv, FindInv, ReadInv, Waiting, FirstKey
        <3>2. EmptyInv' /\ CpuInv' /\ QuietInv' /\ DeliveredOnce'
            BY DEF SourceInv, EmptyInv, CpuInv, QuietInv, Parsing, DeliveredOnce, Waiting,
                   Consumed
        <3>3. QED
            BY <3>1, <3>2 DEF SourceInv
    <2>4. QED
        BY <2>1, <2>2, <2>3 DEF EnvInv
<1>3. NoRec \in RecordSet /\ Record(clock, clock, TRUE) \in RecordSet
    BY DEF EnvInv, NoRec, Record, RecordSet
<1>4. CASE EnvPublishLost \/ EnvPublish
    <2>1. SourceInv'
        BY <1>3, <1>4, EnvPublishes DEF EnvPublishLost, EnvPublish, EnvInv
    <2>2. EnvInv'
        BY <1>3, <1>4 DEF EnvPublishLost, EnvPublish, EnvInv, PublishEnv
    <2>3. QED
        BY <1>1, <2>1, <2>2
<1>5. CASE EnvTimeout \/ EnvFlush
    <2>1. SourceInv'
        BY <1>3, <1>5, EnvPublishes, StutterKeeps DEF EnvTimeout, EnvFlush, EnvInv
    <2>2. EnvInv'
        BY <1>3, <1>5 DEF EnvTimeout, EnvFlush, EnvInv, PublishEnv
    <2>3. QED
        BY <1>1, <2>1, <2>2
<1>6. QED
    BY <1>1, <1>2, <1>4, <1>5 DEF EnvStep

(* The last pass of parse_all found nothing in any ring, and no ring has   *)
(* grown since: the kernel's are off and the environment thread is done.   *)
LEMMA DrainIsComplete ==
    ASSUME SourceInv, StepInv, step = "drain", ParseReturns
    PROVE  Drained'
<1>1. /\ pc = "check" /\ mode = "all" /\ quiet /\ oldest = None
      /\ cend[N] = Len(ring[N])
    BY DEF StepInv, ParseReturns, MoreToRead
<1>2. ASSUME NEW r \in Rings PROVE cend[r] = Len(ring[r]) /\ ~Waiting(r)
    BY <1>1, LastRing, InProcessRingAssumption
       DEF SourceInv, QuietInv, EmptyInv, Parsing, KernelRings
<1>3. Drained
    BY <1>2 DEF Drained, Waiting
<1>4. QED
    BY <1>3 DEF Drained, ParseReturns, kernelVars, cursorVars

LEMMA ParseStepInv ==
    ASSUME SourceInv, StepInv, SessionParseStep
    PROVE  StepInv'
<1>1. /\ UNCHANGED <<on, ring, enabled, quiet, step, epc>>
      /\ Parsing /\ pc' \in {"begin", "find", "read", "end", "check", "idle"}
      /\ mode' = mode \/ ParseReturns
    BY DEF SessionParseStep, BeginRing, BeginDone, FindRing, FindDone, Read, ReadNone,
       EndReading, ParseAgain, ParseReturns, Parsing, kernelVars, sourceVars, mainVars, envVars
<1>2. step \in {"drain", "done"} => step = "drain" /\ mode = "all" /\ quiet /\ epc = "done"
    BY <1>1 DEF StepInv, Parsing
<1>3. step \notin {"export_hooks", "join", "enable", "disable", "done"}
    BY <1>1 DEF StepInv, Parsing
<1>4. AllOff' = AllOff
    BY <1>1 DEF AllOff
<1>5. CASE ParseReturns
    BY <1>1, <1>2, <1>3, <1>4, <1>5, DrainIsComplete DEF StepInv, ParseReturns
<1>6. CASE ~ParseReturns
    <2>1. Parsing' /\ mode' = mode
        BY <1>1, <1>6 DEF SessionParseStep, BeginRing, BeginDone, FindRing, FindDone, Read,
           ReadNone, EndReading, ParseAgain, Parsing
    <2>2. step = "drain" /\ (pc' # "begin" \/ N \notin todo') => cend'[N] = Len(ring'[N])
        <3>1. ASSUME NEW r \in Rings, BeginRing(r), step = "drain", N \notin todo'
              PROVE  cend'[N] = Len(ring'[N])
            BY <1>1, <3>1, LastRing DEF BeginRing, StepInv, SourceInv, TypeInv, kernelVars
        <3>2. CASE \E r \in Rings : BeginRing(r)
            BY <1>1, <3>1, <3>2 DEF BeginRing
        <3>3. CASE ~ \E r \in Rings : BeginRing(r)
            <4>1. cend' = cend
                BY <1>6, <3>3 DEF SessionParseStep, BeginDone, FindRing, FindDone, Read,
                   ReadNone, EndReading, ParseAgain, cursorVars
            <4>2. pc' # "begin" => pc # "begin" \/ todo = {}
                BY <1>6, <3>3 DEF SessionParseStep, BeginDone, FindRing, FindDone, Read,
                   ReadNone, EndReading, ParseAgain
            <4>3. pc' = "begin" => N \in todo'
                BY <1>6, <3>3, LastRing DEF SessionParseStep, BeginDone, FindRing, FindDone,
                   Read, ReadNone, EndReading, ParseAgain
            <4>4. QED
                BY <1>1, <4>1, <4>2, <4>3 DEF StepInv, Parsing
        <3>4. QED
            BY <3>2, <3>3
    <2>3. QED
        BY <1>1, <1>2, <1>3, <1>4, <2>1, <2>2 DEF StepInv, Parsing
<1>7. QED
    BY <1>5, <1>6

LEMMA SwitchStepInv ==
    ASSUME SourceInv, StepInv, SessionSwitchStep
    PROVE  StepInv'
<1>1. /\ UNCHANGED <<step, epc>> /\ pc \in {"enable", "disable"}
      /\ on \in [Rings -> BOOLEAN] /\ todo \subseteq KernelRings
    BY DEF SessionSwitchStep, SwitchStep, SwitchDone, SwitchFails, SwitchRing, mainVars,
       envVars, SourceInv, TypeInv, StepInv
<1>2. step \notin {"export_hooks", "join", "until", "drain", "done"}
    BY <1>1 DEF StepInv, Parsing
<1>3. CASE SwitchDone
    <2>1. step = "disable" => pc = "disable" /\ \A r \in KernelRings : ~on[r]
        BY <1>1, <1>3 DEF SwitchDone, StepInv
    <2>2. step = "disable" => AllOff
        BY <2>1, InProcessRingAssumption DEF StepInv, AllOff, KernelRings
    <2>3. QED
        BY <1>1, <1>2, <1>3, <2>2 DEF SwitchDone, StepInv, AllOff, kernelVars
<1>4. CASE SwitchFails
    BY <1>1, <1>2, <1>4 DEF SwitchFails, StepInv, AllOff, kernelVars, sourceVars
<1>5. ASSUME NEW r \in Rings, SwitchRing(r) PROVE StepInv'
    <2>1. /\ r \in todo /\ r # N /\ todo' = todo \ {r} /\ UNCHANGED <<pc, enabled>>
          /\ on' = [on EXCEPT ![r] = (pc = "enable")]
        BY <1>1, <1>5, LastRing DEF SwitchRing, sourceVars
    <2>2. ~on'[N]
        BY <1>1, <2>1, LastRing DEF StepInv
    <2>3. step = "disable" => enabled /\ pc = "disable" /\ \A q \in KernelRings \ todo' : ~on'[q]
        BY <1>1, <2>1 DEF StepInv, KernelRings
    <2>4. QED
        BY <1>1, <1>2, <2>1, <2>2, <2>3 DEF StepInv
<1>6. QED
    BY <1>3, <1>4, <1>5 DEF SessionSwitchStep, SwitchStep

LEMMA MainStepInv ==
    ASSUME SourceInv, StepInv, MainStep
    PROVE  StepInv'
<1> USE DEF mainVars, envVars, vars, kernelVars, cursorVars, sourceVars, callVars, Goto
<1>1. CASE ExportHooks
    BY <1>1, LastRing DEF ExportHooks, Enable, Call, StepInv, KernelRings, Rings
<1>2. CASE EnableReturns
    BY <1>2 DEF EnableReturns, ParseUntil, Call, StepInv
<1>3. CASE UntilReturns
    BY <1>3 DEF UntilReturns, Disable, Call, StepInv
<1>4. CASE DisableReturns
    BY <1>4 DEF DisableReturns, StepInv, AllOff
<1>5. CASE JoinReturns
    <2>1. /\ step = "join" /\ epc' = "done" /\ step' = "drain" /\ pc' = "begin"
          /\ mode' = "all" /\ todo' = Rings /\ UNCHANGED <<on, enabled>>
          /\ quiet' = AllOff
        BY <1>5 DEF JoinReturns, ParseUntil, Call, AllOff
    <2>2. AllOff /\ AllOff'
        BY <2>1 DEF StepInv, AllOff
    <2>3. QED
        BY <2>1, <2>2, LastRing DEF StepInv, Parsing
<1>6. CASE DrainReturns
    BY <1>6 DEF DrainReturns, StepInv, AllOff, Drained
<1>7. CASE Return
    <2>1. AllOff' /\ ~on'[N]
        BY <1>7, LastRing DEF Return, AllOff
    <2>2. Drained' = Drained
        BY <1>7 DEF Return, Drained
    <2>3. QED
        BY <1>7, <2>1, <2>2 DEF Return, StepInv
<1>8. QED
    BY <1>1, <1>2, <1>3, <1>4, <1>5, <1>6, <1>7, ParseStepInv, SwitchStepInv DEF MainStep

(* Publishing a record, stamping one and asking to stop happen only while  *)
(* a capture is not draining.                                              *)
LEMMA OtherStepInv ==
    ASSUME StepInv, UNCHANGED <<on, cursorVars, sourceVars, callVars, step>>,
           \/ UNCHANGED <<ring, epc>>
           \/ (\E r \in KernelRings : on[r]) /\ epc' = epc
           \/ epc # "done"
    PROVE  StepInv'
<1> USE DEF cursorVars, sourceVars, callVars
<1>1. CASE UNCHANGED <<ring, epc>>
    BY <1>1 DEF StepInv, AllOff, Drained, Parsing
<1>2. CASE step \notin {"drain", "done"}
    BY <1>2 DEF StepInv, AllOff
<1>3. QED
    BY <1>1, <1>2 DEF StepInv, AllOff, KernelRings

-----------------------------------------------------------------------------
LEMMA InitSession == SInit => SessionInv
<1> SUFFICES ASSUME SInit PROVE SessionInv
    OBVIOUS
<1>1. SourceInv
    BY InitSource DEF SInit
<1>2. EnvInv
    BY DEF SInit, Init, EnvInv, NoRec, Record, RecordSet
<1>3. StepInv
    BY LastRing DEF SInit, Init, StepInv
<1>4. QED
    BY <1>1, <1>2, <1>3 DEF SessionInv

LEMMA SessionStep == SessionInv /\ [SNext]_svars => SessionInv'
<1> SUFFICES ASSUME SessionInv, [SNext]_svars PROVE SessionInv'
    OBVIOUS
<1> USE DEF SessionInv
<1>1. CASE KernelStep /\ UNCHANGED <<mainVars, envVars>>
    BY <1>1, KernelPublishes, OtherStepInv DEF EnvInv, mainVars, envVars
<1>2. CASE RequestStop \/ UNCHANGED svars
    <2>1. UNCHANGED vars /\ UNCHANGED <<step, envVars>>
        BY <1>2 DEF RequestStop, svars, mainVars
    <2>2. EnvInv' /\ StepInv'
        BY <2>1, OtherStepInv DEF EnvInv, vars, kernelVars, envVars
    <2>3. QED
        BY <2>1, <2>2, StutterKeeps
<1>3. CASE MainStep
    BY <1>3, MainSource, MainEnv, MainStepInv
<1>4. CASE EnvStep
    BY <1>4, EnvStepKeeps, OtherStepInv
<1>5. QED
    BY <1>1, <1>2, <1>3, <1>4 DEF SNext

(* The inductive invariant of os_parse_until with the environment thread.  *)
THEOREM CaptureInvariant == SSpec => []SessionInv
BY InitSession, SessionStep, PTL DEF SSpec

(* While the environment thread writes into the in-process ring that the   *)
(* session reads, no record of any ring is delivered twice, out of its     *)
(* ring's order, or lost from the consumed part.                           *)
THEOREM CaptureDeliversOnce == SSpec => []DeliveredOnce
<1>1. SessionInv => DeliveredOnce
    BY DEF SessionInv, SourceInv
<1>2. QED
    BY <1>1, CaptureInvariant, PTL

(* A capture that succeeds has read every ring, the in-process one too, to *)
(* its end or to a record that read_time does not accept.                  *)
THEOREM CaptureDrains == SSpec => [](step = "done" => Drained)
<1>1. SessionInv => (step = "done" => Drained)
    BY DEF SessionInv, StepInv
<1>2. QED
    BY <1>1, CaptureInvariant, PTL

LEMMA PublishKnown ==
    ASSUME SourceInv, AllKnown, NEW r \in Rings, NEW rec, rec.known,
           rec \in RecordSet, ring' = [ring EXCEPT ![r] = Append(@, rec)]
    PROVE  AllKnown'
<1>1. ring \in [Rings -> Seq(RecordSet)]
    BY DEF SourceInv, TypeInv
<1>2. ASSUME NEW q \in Rings, NEW k \in DOMAIN ring'[q] PROVE ring'[q][k].known
    <2>1. CASE q # r
        BY <1>1, <1>2, <2>1 DEF AllKnown
    <2>2. CASE q = r
        <3>1. /\ ring'[q] = Append(ring[q], rec) /\ Len(ring[q]) \in Nat
              /\ DOMAIN ring[q] = 1 .. Len(ring[q])
            BY <1>1, <2>2, LenProperties
        <3>2. /\ k \in 1 .. Len(ring[q]) + 1
              /\ k \in 1 .. Len(ring[q]) => ring'[q][k] = ring[q][k]
              /\ k = Len(ring[q]) + 1 => ring'[q][k] = rec
            BY <1>1, <1>2, <3>1, AppendProperties
        <3>3. QED
            BY <3>1, <3>2 DEF AllKnown
    <2>3. QED
        BY <2>1, <2>2
<1>3. QED
    BY <1>2 DEF AllKnown

LEMMA KnownStep ==
    ASSUME Known \subseteq {TRUE}, SessionInv, AllKnown, [SNext]_svars
    PROVE  AllKnown'
<1> USE DEF SessionInv
<1>1. CASE KernelStep
    <2>1. PICK r \in Rings, known \in Known, t \in {clock, clock + 1} : Emit(r, known, t)
        BY <1>1 DEF KernelStep
    <2>2. Record(t, t, known) \in RecordSet /\ Record(t, t, known).known
        <3>1. t \in Nat
            BY <2>1 DEF EnvInv
        <3>2. known = TRUE
            BY <2>1, Zenon
        <3>3. QED
            BY <3>1, <3>2 DEF Record, RecordSet
    <2>3. QED
        BY <2>1, <2>2, PublishKnown DEF Emit
<1>2. CASE EnvStep
    <2>1. Record(clock, clock, TRUE) \in RecordSet /\ Record(clock, clock, TRUE).known
        BY DEF Record, RecordSet, EnvInv
    <2>2. CASE EnvPublish
        BY <2>2, LastRing, PublishKnown DEF EnvPublish, PublishEnv, EnvInv
    <2>3. CASE EnvPublishLost
        BY <2>1, <2>3, LastRing, PublishKnown DEF EnvPublishLost, PublishEnv
    <2>4. CASE EnvFlush
        BY <2>1, <2>4, LastRing, PublishKnown
           DEF EnvFlush, PublishEnv, vars, kernelVars, AllKnown
    <2>5. CASE EnvTimeout \/ \E t \in {clock, clock + 1}, pad \in Pads : EnvStamp(t, pad)
        BY <2>5 DEF EnvTimeout, EnvStamp, vars, kernelVars, AllKnown
    <2>6. QED
        BY <1>2, <2>2, <2>3, <2>4, <2>5 DEF EnvStep
<1>3. CASE MainStep \/ RequestStop \/ UNCHANGED svars
    <2>1. ring' = ring
        BY <1>3 DEF RequestStop, svars, vars, kernelVars, MainStep, ExportHooks, EnableReturns,
           UntilReturns, DisableReturns, JoinReturns, DrainReturns, Return, SessionSwitchStep,
           SessionParseStep, SwitchStep, Enable, Disable, SwitchDone, SwitchFails, SwitchRing,
           ParseUntil, BeginRing, BeginDone, FindRing, FindDone, Read, ReadNone, EndReading,
           ParseAgain, ParseReturns
    <2>2. QED
        BY <2>1 DEF AllKnown
<1>4. QED
    BY <1>1, <1>2, <1>3 DEF SNext

(* When every record that is published is one read_time accepts, a capture *)
(* that succeeds has delivered all of them: nothing is left in any ring    *)
(* when os_parse_until returns.                                            *)
THEOREM CaptureComplete ==
    ASSUME Known \subseteq {TRUE}
    PROVE  SSpec => []NothingLeftBehind
<1>1. SInit => AllKnown
    BY DEF SInit, Init, AllKnown
<1>2. SessionInv /\ AllKnown /\ [SNext]_svars => AllKnown'
    BY KnownStep
<1>3. SessionInv /\ AllKnown => NothingLeftBehind
    <2> SUFFICES ASSUME SessionInv, AllKnown, step = "done", NEW r \in Rings
                 PROVE  tail[r] = Len(ring[r])
        BY DEF NothingLeftBehind
    <2>1. /\ tail[r] \in Nat /\ Len(ring[r]) \in Nat /\ tail[r] <= Len(ring[r])
          /\ DOMAIN ring[r] = 1 .. Len(ring[r])
        BY LenProperties DEF SessionInv, SourceInv, TypeInv, CursorInv
    <2>2. tail[r] < Len(ring[r]) => ~ring[r][tail[r] + 1].known
        BY DEF SessionInv, StepInv, Drained
    <2>3. tail[r] < Len(ring[r]) => tail[r] + 1 \in DOMAIN ring[r]
        BY <2>1
    <2>4. QED
        BY <2>1, <2>2, <2>3 DEF AllKnown
<1>4. QED
    BY <1>1, <1>2, <1>3, CaptureInvariant, PTL DEF SSpec
=============================================================================

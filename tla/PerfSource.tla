----------------------------- MODULE PerfSource -----------------------------
(***************************************************************************)
(* The data source of a perf session and its parse loops:                  *)
(* RingBufDataSource of one_collect/src/perf_event/rb/source.rs (enable,   *)
(* disable, begin_reading, read, end_reading, more and their per-CPU       *)
(* counterparts) as PerfSession::parse_until, parse_all and parse_for_cpu  *)
(* of perf_event/mod.rs drive it, while every CPU's kernel ring goes on    *)
(* filling.                                                                *)
(*                                                                         *)
(* PerfRing shows that one ring is a queue of whole records; here a ring   *)
(* is the sequence of the records published in it so far and a position    *)
(* counts records.  A record has the time it was taken (t), the time       *)
(* read_time decodes from it (key) and whether read_time accepts it        *)
(* (known): a record with an id that is not in ring_bufs, or with a size   *)
(* below the minimum, is not.                                              *)
(***************************************************************************)
EXTENDS Integers, Sequences, SequencesExt, FiniteSets

CONSTANTS
    N,            \* how many rings the source reads
    EnvRing,      \* the index of the in-process ring (the last one), or 0
    Known,        \* the values of "known" that occur: a subset of BOOLEAN
    BatchLimit,   \* records after which parse_until ends a pass (100)
    MaxRecords,   \* bound: records published, over all kernel rings
    MaxCalls      \* bound: calls of the session's interface

ASSUME NAssumption == N \in Nat \ {0}
ASSUME EnvRingAssumption == EnvRing \in {0, N}
ASSUME KnownAssumption == Known \subseteq BOOLEAN
ASSUME BatchLimitAssumption == BatchLimit \in Nat

Rings == 1 .. N

(* The dummy buffer of the in-process ring has no descriptor: enable() and *)
(* disable() skip it, and the kernel never writes there.                   *)
KernelRings == Rings \ {EnvRing}

VARIABLES
    ring,       \* per ring: the records published in it
    on,         \* per ring: whether the kernel records into it
    clock,      \* the perf clock
    tail,       \* per ring: data_tail
    cstart,     \* per ring: CpuRingCursor.start
    cend,       \* per ring: CpuRingCursor.end
    oldest,     \* RingBufDataSource.oldest_cpu
    nextTime,   \* RingBufDataSource.next_time
    find,       \* the local variables of find_current_buffer
    enabled,    \* RingBufDataSource.enabled
    pc,         \* where the session's thread is
    todo,       \* rings the current loop over the rings has left
    mode,       \* which parse call is running
    batch,      \* parse_until's i
    calls,      \* history: calls of the interface so far
    quiet,      \* history: nothing was being recorded when the call began
    delivered   \* history: what the callbacks were given, in order

kernelVars == <<ring, on, clock>>
cursorVars == <<tail, cstart, cend>>
sourceVars == <<oldest, nextTime, enabled>>
callVars == <<pc, find, todo, mode, batch, calls, quiet>>
vars == <<kernelVars, cursorVars, sourceVars, callVars, delivered>>

None == -1

NothingFound == [oldestTime |-> None, oldestCpu |-> None, nextTime |-> None]

Record(t, key, known) == [t |-> t, key |-> key, known |-> known]

Init ==
    /\ ring = [r \in Rings |-> << >>]
    /\ on = [r \in Rings |-> FALSE]
    /\ clock = 0
    /\ tail = [r \in Rings |-> 0]
    /\ cstart = [r \in Rings |-> 0]
    /\ cend = [r \in Rings |-> 0]
    /\ oldest = None /\ nextTime = None /\ enabled = FALSE
    /\ pc = "idle" /\ find = NothingFound /\ todo = {} /\ mode = "none" /\ batch = 0
    /\ calls = 0 /\ quiet = FALSE
    /\ delivered = << >>

-----------------------------------------------------------------------------
Published == {p \in KernelRings \X (1 .. MaxRecords) : p[2] <= Len(ring[p[1]])}

(* The kernel (external): it publishes a record in an enabled ring, of     *)
(* the current time or a later one.                                        *)
Emit(r, known, t) ==
    /\ r \in KernelRings /\ on[r]
    /\ Cardinality(Published) < MaxRecords
    /\ ring' = [ring EXCEPT ![r] = Append(@, Record(t, t, known))]
    /\ clock' = t
    /\ UNCHANGED <<on, cursorVars, sourceVars, callVars, delivered>>

-----------------------------------------------------------------------------
(* enable() and disable(): one ioctl per ring, in the order of a hash map; *)
(* an error leaves the loop and the flag as they are.                      *)
Call(where) ==
    /\ pc = "idle" /\ calls < MaxCalls
    /\ calls' = calls + 1
    /\ pc' = where
    /\ quiet' = \A r \in Rings : ~on[r]

Enable ==
    /\ Call("enable")
    /\ todo' = KernelRings
    /\ UNCHANGED <<kernelVars, cursorVars, sourceVars, find, mode, batch, delivered>>

Disable ==
    /\ Call("disable")
    /\ todo' = KernelRings
    /\ UNCHANGED <<kernelVars, cursorVars, sourceVars, find, mode, batch, delivered>>

SwitchRing(r) ==
    /\ pc \in {"enable", "disable"}
    /\ r \in todo
    /\ on' = [on EXCEPT ![r] = (pc = "enable")]
    /\ todo' = todo \ {r}
    /\ UNCHANGED <<ring, clock, cursorVars, sourceVars, pc, find, mode, batch,
                   calls, quiet, delivered>>

SwitchFails ==
    /\ pc \in {"enable", "disable"}
    /\ todo # {}
    /\ pc' = "idle" /\ todo' = {}
    /\ UNCHANGED <<kernelVars, cursorVars, sourceVars, find, mode, batch,
                   calls, quiet, delivered>>

SwitchDone ==
    /\ pc \in {"enable", "disable"}
    /\ todo = {}
    /\ enabled' = (pc = "enable")
    /\ pc' = "idle"
    /\ UNCHANGED <<kernelVars, cursorVars, oldest, nextTime, find, todo, mode,
                   batch, calls, quiet, delivered>>

-----------------------------------------------------------------------------
(* read_time: the decoded time of the record at the cursor, or None.  A    *)
(* record it does not accept moves the cursor past itself.                 *)
More(r) == cstart[r] < cend[r]
AtCursor(r) == ring[r][cstart[r] + 1]
ReadTime(r) == IF More(r) /\ AtCursor(r).known THEN AtCursor(r).key ELSE None

(* Mutant of AfterReadTime: a record that is not accepted takes the rest   *)
(* of the ring with it.                                                    *)
AfterReadTime_SkipsAll(r) ==
    IF More(r) /\ ~AtCursor(r).known THEN cend[r] ELSE cstart[r]

AfterReadTime(r) ==
    IF More(r) /\ ~AtCursor(r).known THEN cstart[r] + 1 ELSE cstart[r]

(* find_current_buffer, for one reader: the oldest ring so far, and the    *)
(* oldest time of the other rings so far.                                  *)
FindStep(acc, r) ==
    LET time == ReadTime(r)
    IN  IF time = None THEN acc
        ELSE IF acc.oldestTime = None
             THEN [oldestTime |-> time, oldestCpu |-> r, nextTime |-> acc.nextTime]
        ELSE IF time < acc.oldestTime
             THEN [oldestTime |-> time, oldestCpu |-> r,
                   nextTime |-> acc.oldestTime]
        ELSE IF acc.nextTime = None \/ time < acc.nextTime
             THEN [acc EXCEPT !.nextTime = time]
        ELSE acc

-----------------------------------------------------------------------------
(* parse_until and parse_all.                                              *)
ParseUntil(m) ==
    /\ Call("begin")
    /\ mode' = m
    /\ todo' = Rings
    /\ UNCHANGED <<kernelVars, cursorVars, sourceVars, find, batch, delivered>>

(* The loops over the readers go in index order.                           *)
NextReader(r) == r \in todo /\ \A q \in todo : r <= q

(* begin_reading: the heads are looked at one after the other.             *)
BeginRing(r) ==
    /\ pc = "begin" /\ NextReader(r)
    /\ cstart' = [cstart EXCEPT ![r] = tail[r]]
    /\ cend' = [cend EXCEPT ![r] = Len(ring[r])]
    /\ todo' = todo \ {r}
    /\ UNCHANGED <<kernelVars, tail, sourceVars, pc, find, mode, batch, calls,
                   quiet, delivered>>

BeginDone ==
    /\ pc = "begin" /\ todo = {}
    /\ pc' = "find" /\ find' = NothingFound /\ todo' = Rings
    /\ UNCHANGED <<kernelVars, cursorVars, sourceVars, mode, batch, calls, quiet,
                   delivered>>

(* One turn of find_current_buffer, which may move the reader's cursor.    *)
FindRing(r) ==
    /\ pc = "find" /\ NextReader(r)
    /\ find' = FindStep(find, r)
    /\ cstart' = [cstart EXCEPT ![r] = AfterReadTime(r)]
    /\ todo' = todo \ {r}
    /\ UNCHANGED <<kernelVars, tail, cend, sourceVars, pc, mode, batch, calls,
                   quiet, delivered>>

FindDone ==
    /\ pc = "find" /\ todo = {}
    /\ oldest' = find.oldestCpu
    /\ nextTime' = find.nextTime
    /\ pc' = "read" /\ batch' = 0 /\ find' = NothingFound
    /\ UNCHANGED <<kernelVars, cursorVars, enabled, todo, mode, calls, quiet,
                   delivered>>

Deliver(r) ==
    delivered' = Append(delivered,
        [ring |-> r, idx |-> cstart[r] + 1,
         key |-> AtCursor(r).key])

(* Mutant of Read: the limit of the next oldest ring is not looked at.     *)
Read_NoLimit ==
    /\ pc = "read"
    /\ oldest # None
    /\ ReadTime(oldest) # None
    /\ Deliver(oldest)
    /\ cstart' = [cstart EXCEPT ![oldest] = @ + 1]
    /\ IF batch >= BatchLimit
       THEN pc' = "end" /\ UNCHANGED batch
       ELSE batch' = batch + 1 /\ UNCHANGED pc
    /\ UNCHANGED <<kernelVars, tail, cend, sourceVars, find, todo, mode, calls,
                   quiet>>

(* read() gives a record: the oldest ring's next, not later than the next  *)
(* oldest ring's.  parse_until ends the pass after BatchLimit + 1 of them. *)
Read ==
    /\ pc = "read"
    /\ oldest # None
    /\ ReadTime(oldest) # None
    /\ nextTime # None => ReadTime(oldest) <= nextTime
    /\ Deliver(oldest)
    /\ cstart' = [cstart EXCEPT ![oldest] = @ + 1]
    /\ IF batch >= BatchLimit
       THEN pc' = "end" /\ UNCHANGED batch
       ELSE batch' = batch + 1 /\ UNCHANGED pc
    /\ UNCHANGED <<kernelVars, tail, cend, sourceVars, find, todo, mode, calls,
                   quiet>>

(* read() gives none: there is no current ring, its next record is later   *)
(* than another ring's, or read_time finds no record it accepts.           *)
ReadNone ==
    /\ pc = "read"
    /\ \/ oldest = None /\ UNCHANGED cstart
       \/ /\ oldest # None
          /\ nextTime # None /\ ReadTime(oldest) > nextTime
          /\ UNCHANGED cstart
       \/ /\ oldest # None
          /\ ReadTime(oldest) = None
          /\ cstart' = [cstart EXCEPT ![oldest] = AfterReadTime(oldest)]
    /\ pc' = "end"
    /\ UNCHANGED <<kernelVars, tail, cend, sourceVars, find, todo, mode, batch,
                   calls, quiet, delivered>>

EndReading ==
    /\ pc = "end"
    /\ tail' = IF oldest = None THEN tail
               ELSE [tail EXCEPT ![oldest] = cstart[oldest]]
    /\ pc' = "check"
    /\ UNCHANGED <<kernelVars, cstart, cend, sourceVars, find, todo, mode,
                   batch, calls, quiet, delivered>>

(* Mutants of MoreToRead: the two conditions joined by the wrong operator; *)
(* the source always claims to have more.                                  *)
MoreToRead_Both == oldest # None /\ enabled
MoreToRead_Always == TRUE

MoreToRead == oldest # None \/ enabled

(* should_stop() is the caller's: it may say yes at any pass, except in    *)
(* parse_all, where it never does.                                         *)
ParseAgain ==
    /\ pc = "check"
    /\ MoreToRead
    /\ pc' = "begin" /\ todo' = Rings
    /\ UNCHANGED <<kernelVars, cursorVars, sourceVars, find, mode, batch, calls,
                   quiet, delivered>>

ParseReturns ==
    /\ pc = "check"
    /\ mode = "until" \/ ~MoreToRead
    /\ pc' = "idle" /\ mode' = "none"
    /\ UNCHANGED <<kernelVars, cursorVars, sourceVars, find, todo, batch, calls,
                   quiet, delivered>>

-----------------------------------------------------------------------------
(* parse_for_cpu: one ring, one pass, no merge.                            *)
ParseForCpu(r) ==
    /\ Call("readCpu")
    /\ mode' = "cpu"
    /\ todo' = {r}
    /\ cstart' = [cstart EXCEPT ![r] = tail[r]]
    /\ cend' = [cend EXCEPT ![r] = Len(ring[r])]
    /\ UNCHANGED <<kernelVars, tail, sourceVars, find, batch, delivered>>

ReadCpu(r) ==
    /\ pc = "readCpu" /\ r \in todo
    /\ ReadTime(r) # None
    /\ Deliver(r)
    /\ cstart' = [cstart EXCEPT ![r] = @ + 1]
    /\ UNCHANGED <<kernelVars, tail, cend, sourceVars, callVars>>

(* read_cpu gives none; end_reading_cpu stores the cursor and the call     *)
(* returns.                                                                *)
EndReadingCpu(r) ==
    /\ pc = "readCpu" /\ r \in todo
    /\ ReadTime(r) = None
    /\ cstart' = [cstart EXCEPT ![r] = AfterReadTime(r)]
    /\ tail' = [tail EXCEPT ![r] = AfterReadTime(r)]
    /\ pc' = "idle" /\ mode' = "none" /\ todo' = {}
    /\ UNCHANGED <<kernelVars, cend, sourceVars, find, batch, calls, quiet,
                   delivered>>

-----------------------------------------------------------------------------
KernelStep ==
    \E r \in Rings, known \in Known, t \in {clock, clock + 1} : Emit(r, known, t)

SwitchStep == SwitchDone \/ SwitchFails \/ \E r \in Rings : SwitchRing(r)

ParseStep ==
    \/ BeginDone \/ FindDone
    \/ \E r \in Rings : BeginRing(r) \/ FindRing(r)
    \/ Read \/ ReadNone \/ EndReading
    \/ ParseAgain \/ ParseReturns
    \/ \E r \in Rings : ReadCpu(r) \/ EndReadingCpu(r)

Next ==
    \/ KernelStep
    \/ Enable \/ Disable \/ SwitchStep
    \/ ParseUntil("until") \/ ParseUntil("all")
    \/ \E r \in KernelRings : ParseForCpu(r)
    \/ ParseStep

Spec == Init /\ [][Next]_vars

(* The session's thread finishes the call it is in.                        *)
FairSpec == Spec /\ WF_vars(ParseStep) /\ WF_vars(SwitchStep)

-----------------------------------------------------------------------------
(* Properties.                                                             *)

(* What of a ring the session has consumed: up to the cursor while it is   *)
(* the ring being read, up to the tail otherwise.                          *)
Consumed(r) ==
    IF (pc \in {"read", "end"} /\ oldest = r) \/ (pc = "readCpu" /\ r \in todo)
    THEN cstart[r] ELSE tail[r]

(* Passes that end early, switch rings, skip records or are repeated never *)
(* deliver a record twice and never lose one: of every ring, the callbacks *)
(* were given exactly the accepted records of its consumed part, in order. *)
DeliveredOnce ==
    /\ \A r \in Rings :
        {delivered[i].idx : i \in {j \in DOMAIN delivered : delivered[j].ring = r}} =
            {k \in 1 .. Consumed(r) : ring[r][k].known}
    /\ \A i, j \in DOMAIN delivered :
        i < j /\ delivered[i].ring = delivered[j].ring =>
            delivered[i].idx < delivered[j].idx

(* What of a ring a pass can reach: up to the first record that read_time  *)
(* does not accept, of those that begin_reading saw.                       *)
Reachable(q) ==
    {k \in tail[q] + 1 .. cend[q] : \A i \in tail[q] + 1 .. k : ring[q][i].known}

(* A pass over all rings gives a record only when no older one waits in    *)
(* the part of any other ring that the pass can reach.                     *)
GivesOldest ==
    delivered' # delivered /\ mode # "cpu" =>
        \A q \in Rings \ {Last(delivered').ring} : \A k \in Reachable(q) :
            ring[q][k].key >= Last(delivered').key

OldestFirst == [][GivesOldest]_vars

(* Of a stopped session parse_all stops nowhere else than at a record that *)
(* read_time does not accept: it leaves no ring whose next record it could *)
(* have delivered.                                                         *)
StoppedAtEnd == pc = "check" /\ pc' = "idle" /\ mode = "all" /\ quiet

Drains ==
    StoppedAtEnd =>
        \A r \in Rings : tail[r] < Len(ring[r]) => ~ring[r][tail[r] + 1].known

ParseAllDrains == [][Drains]_vars

(* What read_time says of such a record: "advance by at least the header   *)
(* size so the ring drains and return None so the caller can retry on the  *)
(* next pass", "skip just this record so we make forward progress".  When  *)
(* parse_all of a stopped session returns, nothing behind it is left.      *)
SkipsOnlyRejected ==
    StoppedAtEnd =>
        \A r \in Rings : \A k \in tail[r] + 1 .. Len(ring[r]) : ~ring[r][k].known

DrainsBehindRejected == [][SkipsOnlyRejected]_vars

(* parse_all after disable() returns: no pass is repeated for ever.        *)
ParseAllReturns ==
    (pc = "begin" /\ mode = "all" /\ quiet /\ ~enabled) ~> (pc = "idle")
=============================================================================

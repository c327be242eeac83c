--------------------------- MODULE CaptureSession ---------------------------
(***************************************************************************)
(* A capture from start to end on Linux: os_parse_until of                 *)
(* one_collect/src/helpers/exporting/os/linux.rs runs a PerfSession (the   *)
(* PerfSource module) while the thread of spawn_capture_environment        *)
(* (perf_event/mod.rs) writes COMM and MMAP2 records of the processes that *)
(* already run into the in-process ring, ring N of the source.             *)
(*                                                                         *)
(* The in-process ring is the queue that PerfRing implements, with room    *)
(* for Capacity records; nobody reads it while the main thread waits for   *)
(* the writer to finish.                                                   *)
(***************************************************************************)
EXTENDS PerfSource

CONSTANTS
    Capacity,   \* records that fit in the in-process ring
    EnvItems,   \* bound: processes and modules the environment thread finds
    Pads        \* the paddings, in bytes, that occur after a record's trailer

ASSUME InProcessRingAssumption == EnvRing = N
ASSUME CapacityAssumption == Capacity \in Nat \ {0}
ASSUME PadsAssumption == Pads \subseteq 0 .. 7

VARIABLES
    step,       \* which statement of os_parse_until is running
    stop,       \* what until() says
    epc,        \* where the environment thread is
    eleft,      \* processes and modules it has still to write
    erec,       \* the record it is writing
    elost,      \* InProcessRingBufWriter.lost_count
    ringAlive   \* the session, and with it the ring's memory, still exists

mainVars == <<step, stop, ringAlive>>
envVars == <<epc, eleft, erec, elost>>
svars == <<vars, mainVars, envVars>>

NoRec == Record(0, 0, FALSE)

SInit ==
    /\ Init
    /\ step = "export_hooks" /\ stop = FALSE /\ ringAlive = TRUE
    /\ epc = "none" /\ eleft = EnvItems /\ erec = NoRec /\ elost = 0

-----------------------------------------------------------------------------
(* The environment thread.                                                 *)

(* Header::write pads after the trailer, and read_time takes the time at   *)
(* 16 bytes before the padded end: what it decodes is the time shifted     *)
(* right by the padding, with the zero id behind it.                       *)
DropBytes(t, n) == CASE n = 0 -> t
                     [] n = 1 -> t \div 256
                     [] n = 2 -> (t \div 256) \div 256
                     [] n = 4 -> (((t \div 256) \div 256) \div 256) \div 256

DecodedTime(t, pad) ==
    LET ones == DropBytes(t, pad % 2)
        twos == DropBytes(ones, 2 * ((pad \div 2) % 2))
    IN  DropBytes(twos, 4 * (pad \div 4))

Room == Capacity - (Len(ring[N]) - tail[N])

PublishEnv(rec) ==
    /\ ring' = [ring EXCEPT ![N] = Append(@, rec)]
    /\ UNCHANGED <<on, clock, cursorVars, sourceVars, callVars, delivered>>

(* perf_timestamp, then write(): the record waits for room with its time   *)
(* already taken.                                                          *)
EnvStamp(t, pad) ==
    /\ epc = "next" /\ eleft > 0
    /\ erec' = Record(t, DecodedTime(t, pad), TRUE)
    /\ clock' = t
    /\ eleft' = eleft - 1
    /\ epc' = "write"
    /\ UNCHANGED <<ring, on, cursorVars, sourceVars, callVars, delivered,
                   mainVars, elost>>

EnvPublishLost ==
    /\ epc = "write" /\ elost > 0
    /\ Room >= 2
    /\ PublishEnv(Record(clock, clock, TRUE))
    /\ elost' = 0
    /\ UNCHANGED <<mainVars, epc, eleft, erec>>

EnvPublish ==
    /\ epc = "write" /\ elost = 0
    /\ Room >= 1
    /\ PublishEnv(erec)
    /\ epc' = "next" /\ erec' = NoRec
    /\ UNCHANGED <<mainVars, eleft, elost>>

(* Mutant of EnvTimeout: a full ring is waited for without a time limit.   *)
EnvTimeout_Never == FALSE /\ UNCHANGED svars

EnvTimeout ==
    /\ epc = "write"
    /\ Room < (IF elost > 0 THEN 2 ELSE 1)
    /\ elost' = elost + 1
    /\ epc' = "next" /\ erec' = NoRec
    /\ UNCHANGED <<vars, mainVars, eleft>>

EnvFlush ==
    /\ epc = "next" /\ eleft = 0
    /\ epc' = "done"
    /\ IF elost > 0 /\ Room >= 1
       THEN PublishEnv(Record(clock, clock, TRUE)) /\ elost' = 0
       ELSE UNCHANGED <<vars, elost>>
    /\ UNCHANGED <<mainVars, eleft, erec>>

-----------------------------------------------------------------------------
(* The main thread: os_parse_loop and the match on its result.             *)

Goto(s) == step' = s /\ UNCHANGED <<stop, ringAlive>>

ExportHooks ==
    /\ step = "export_hooks"
    /\ \/ Goto("enable") /\ Enable
       \/ Goto("failed") /\ UNCHANGED vars
    /\ UNCHANGED envVars

(* enable() returned: the environment thread is spawned and parse_until    *)
(* called, or the error leaves the closure.                                *)
EnableReturns ==
    /\ step = "enable" /\ pc = "idle"
    /\ \/ /\ enabled
          /\ epc' = "next"
          /\ Goto("until") /\ ParseUntil("until")
       \/ /\ ~enabled
          /\ Goto("failed") /\ UNCHANGED <<vars, epc>>
    /\ UNCHANGED <<eleft, erec, elost>>

UntilReturns ==
    /\ step = "until" /\ pc = "idle"
    /\ Goto("disable") /\ Disable
    /\ UNCHANGED envVars

DisableReturns ==
    /\ step = "disable" /\ pc = "idle"
    /\ IF enabled THEN Goto("failed") ELSE Goto("join")
    /\ UNCHANGED <<vars, envVars>>

(* Mutant of JoinReturns: the drain does not wait for the environment.     *)
JoinReturns_NoWait ==
    /\ step = "join"
    /\ Goto("drain") /\ ParseUntil("all")
    /\ UNCHANGED envVars

JoinReturns ==
    /\ step = "join" /\ epc = "done"
    /\ Goto("drain") /\ ParseUntil("all")
    /\ UNCHANGED envVars

DrainReturns ==
    /\ step = "drain" /\ pc = "idle"
    /\ \/ Goto("done")
       \/ Goto("failed")
    /\ UNCHANGED <<vars, envVars>>

(* os_parse_until returns; the session goes out of scope, its descriptors  *)
(* are closed and the ring's memory is freed.                              *)
Return ==
    /\ step \in {"done", "failed"} /\ ringAlive
    /\ ringAlive' = FALSE
    /\ on' = [r \in Rings |-> FALSE]
    /\ UNCHANGED <<ring, clock, cursorVars, sourceVars, callVars, delivered,
                   step, stop, envVars>>

(* until() is true from some moment on: a duration passed or the user      *)
(* asked to stop.                                                          *)
RequestStop ==
    /\ ~stop
    /\ stop' = TRUE
    /\ UNCHANGED <<vars, step, ringAlive, envVars>>

SessionParseStep ==
    /\ \/ BeginDone \/ FindDone
       \/ \E r \in Rings : BeginRing(r) \/ FindRing(r)
       \/ Read \/ ReadNone \/ EndReading
       \/ ParseAgain /\ (mode = "until" => ~stop)
       \/ ParseReturns /\ (mode = "until" => stop \/ ~MoreToRead)
    /\ UNCHANGED <<mainVars, envVars>>

SessionSwitchStep == SwitchStep /\ UNCHANGED <<mainVars, envVars>>

MainStep ==
    \/ ExportHooks \/ EnableReturns \/ UntilReturns
    \/ DisableReturns \/ JoinReturns \/ DrainReturns \/ Return
    \/ SessionSwitchStep \/ SessionParseStep

EnvStep ==
    \/ \E t \in {clock, clock + 1}, pad \in Pads : EnvStamp(t, pad)
    \/ EnvPublishLost \/ EnvPublish \/ EnvTimeout \/ EnvFlush

SNext ==
    \/ KernelStep /\ UNCHANGED <<mainVars, envVars>>
    \/ RequestStop
    \/ MainStep
    \/ EnvStep

SSpec == SInit /\ [][SNext]_svars

(* Both threads run, a write times out and until() is true eventually.     *)
SFairSpec ==
    /\ SSpec
    /\ WF_svars(MainStep) /\ WF_svars(EnvStep) /\ WF_svars(RequestStop)

-----------------------------------------------------------------------------
(* Properties.                                                             *)

(* A capture that succeeds has parsed every record that was published, of  *)
(* the kernel rings and of the in-process ring, when it returns.           *)
NothingLeftBehind ==
    step = "done" => \A r \in Rings : tail[r] = Len(ring[r])

(* A capture ends: the main thread never waits for ever for an environment *)
(* thread that itself waits for somebody to read the full ring.            *)
CaptureEnds == <>(step \in {"done", "failed"} /\ ~ringAlive)
=============================================================================

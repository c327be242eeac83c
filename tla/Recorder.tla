------------------------------ MODULE Recorder ------------------------------
(***************************************************************************)
(* One recording of record-trace: Recorder::run of                         *)
(* record-trace/engine/src/recorder.rs, the capture it makes through       *)
(* UniversalExporter (helpers/exporting), its memory monitor thread, the   *)
(* thread that reads the environment, and the two trackers of              *)
(* helpers/dotnet/os/linux.rs with a worker thread each: "events" opens an *)
(* EventPipe session in every .NET process, "maps" turns its perf map on.  *)
(* The .NET processes are outside: they come and go, they announce         *)
(* themselves by a mapping, and their diagnostics server answers the       *)
(* commands of its socket in the order the connections were made.          *)
(***************************************************************************)
EXTENDS Integers, Sequences, SequencesExt

CONSTANTS
    Pids,           \* process ids
    MaxGen,         \* bound: processes that get one id, one after the other
    MaxMarks,       \* bound: marker mappings under one id
    RingCap         \* bound: mapping records that wait in the rings

ASSUME PidsAssumption == Pids # {}
ASSUME BoundsAssumption == {MaxGen, MaxMarks, RingCap} \subseteq Nat \ {0}

VARIABLES
    pc,         \* the statement Recorder::run is at
    failed,     \* parse_until returned an error
    cont,       \* continue_recording
    monitor,    \* the memory monitor thread
    scripted,   \* a script is used, and with it the "events" tracker
    hooks,      \* who holds the drop hooks
    factory,    \* the user_events file, which keeps the tracepoints alive
    env,        \* the ids the environment thread has still to visit
    ring,       \* marker mapping records the main thread has not parsed
    chan,       \* the channel of each tracker
    worker,     \* the worker thread of each tracker
    known,      \* the ids each worker has enabled
    reply,      \* the answer to the request a worker waits for
    proc,       \* the processes
    inbox,      \* the connections each diagnostics server has to serve
    files       \* the perf-<pid>.map file of each id

mainVars == <<pc, failed, cont, scripted, hooks, factory>>
trackVars == <<chan, worker, known, reply>>
procVars == <<proc, inbox, files>>
vars == <<mainVars, monitor, env, ring, trackVars, procVars>>

Trackers == {"events", "maps"}
Stop == "stop"      \* the id 0 that disable() sends
NoOne == "no one"

ASSUME StopAssumption == Stop \notin Pids

NoProcess == [up |-> FALSE, gen |-> 0, own |-> FALSE, sock |-> FALSE,
              marked |-> FALSE, marks |-> 0, map |-> FALSE, refused |-> FALSE,
              tracing |-> FALSE]

Idle(t) == [worker EXCEPT ![t] = [at |-> "recv", pid |-> NoOne]]

Init ==
    /\ pc = "start" /\ failed = FALSE /\ cont = TRUE
    /\ monitor = "none" /\ scripted = FALSE /\ hooks = "exporter"
    /\ factory = FALSE
    /\ env = {} /\ ring = <<>>
    /\ chan = [t \in Trackers |-> <<>>]
    /\ worker = [t \in Trackers |-> [at |-> "none", pid |-> NoOne]]
    /\ known = [t \in Trackers |-> {}]
    /\ reply = [t \in Trackers |-> "none"]
    /\ proc = [p \in Pids |-> NoProcess]
    /\ inbox = [p \in Pids |-> <<>>]
    /\ files = [p \in Pids |-> "none"]

-----------------------------------------------------------------------------
(* The .NET processes.                                                     *)

ProcessStarts(p, own) ==
    /\ ~ proc[p].up /\ proc[p].gen < MaxGen
    /\ proc' = [proc EXCEPT ![p].up = TRUE, ![p].gen = @ + 1,
                            ![p].own = own, ![p].map = own]
    /\ files' = [files EXCEPT ![p] = IF own THEN "own" ELSE @]
    /\ UNCHANGED <<mainVars, monitor, env, ring, trackVars, inbox>>

OpensSocket(p) ==
    /\ proc[p].up /\ ~ proc[p].sock
    /\ proc' = [proc EXCEPT ![p].sock = TRUE]
    /\ UNCHANGED <<mainVars, monitor, env, ring, trackVars, inbox, files>>

(* The rings take the record while the session is on and there is room.    *)
Recording == pc \in {"record", "disable"}

Recorded(p) == IF Len(ring) < RingCap THEN Append(ring, p) ELSE ring

(* A dotnet_ipc_created mapping comes after the socket, a doublemapper one *)
(* may come before it.  One that comes after the session is disabled is    *)
(* seen by the environment thread at most, as one that was lost is.        *)
Marks(p) ==
    /\ pc \in {"enable", "record", "disable"}
    /\ proc[p].up /\ proc[p].marks < MaxMarks
    /\ proc' = [proc EXCEPT ![p].marks = @ + 1, ![p].marked = TRUE]
    /\ ring' = IF Recording THEN Recorded(p) ELSE ring
    /\ UNCHANGED <<mainVars, monitor, env, trackVars, inbox, files>>

(* Its connections are closed: a worker that waits reads the end of file.  *)
Exits(p) ==
    /\ proc[p].up
    /\ proc' = [proc EXCEPT ![p] = [NoProcess EXCEPT !.gen = proc[p].gen,
                                                     !.marks = proc[p].marks]]
    /\ inbox' = [inbox EXCEPT ![p] = <<>>]
    /\ reply' = [t \in Trackers |->
                    IF reply[t] = "asked" /\ \E i \in DOMAIN inbox[p] :
                            inbox[p][i].by = t
                    THEN "error" ELSE reply[t]]
    /\ UNCHANGED <<mainVars, monitor, env, ring, chan, worker, known, files>>

ServesDisable(p) ==
    /\ inbox[p] # <<>> /\ Head(inbox[p]).cmd = "disable"
    /\ proc' = [proc EXCEPT ![p].map = FALSE]
    /\ inbox' = [inbox EXCEPT ![p] = Tail(@)]
    /\ UNCHANGED <<mainVars, monitor, env, ring, trackVars, files>>

ServesEnable(p, ok) ==
    /\ inbox[p] # <<>> /\ Head(inbox[p]).cmd = "enable"
    /\ proc' = IF ok THEN [proc EXCEPT ![p].map = TRUE]
                     ELSE [proc EXCEPT ![p].refused = TRUE]
    /\ files' = [files EXCEPT ![p] = IF ok THEN "ours" ELSE @]
    /\ reply' = [reply EXCEPT !["maps"] = IF ok THEN "ok" ELSE "error"]
    /\ inbox' = [inbox EXCEPT ![p] = Tail(@)]
    /\ UNCHANGED <<mainVars, monitor, env, ring, chan, worker, known>>

ServesCollect(p, ok) ==
    /\ inbox[p] # <<>> /\ Head(inbox[p]).cmd = "collect"
    /\ proc' = [proc EXCEPT ![p].tracing = ok]
    /\ reply' = [reply EXCEPT !["events"] = IF ok THEN "ok" ELSE "error"]
    /\ inbox' = [inbox EXCEPT ![p] = Tail(@)]
    /\ UNCHANGED <<mainVars, monitor, env, ring, chan, worker, known, files>>

Serves(p) ==
    \/ ServesDisable(p)
    \/ \E ok \in BOOLEAN : ServesEnable(p, ok) \/ ServesCollect(p, ok)

-----------------------------------------------------------------------------
(* The trackers' workers.                                                  *)

(* open_diag_socket connects only while the process listens.               *)
Listens(p) == proc[p].up /\ proc[p].sock

Request(cmd, t) == [cmd |-> cmd, by |-> t]

Waits(t, p) ==
    /\ worker' = [worker EXCEPT ![t] = [at |-> "answer", pid |-> p]]
    /\ reply' = [reply EXCEPT ![t] = "asked"]

(* recv; an id that is known, or whose process is gone (PerfMapContext::new *)
(* cannot open /proc/<pid>/root/tmp), is left alone.                       *)
Takes(t) ==
    /\ worker[t].at = "recv" /\ chan[t] # <<>> /\ Head(chan[t]) # Stop
    /\ chan' = [chan EXCEPT ![t] = Tail(@)]
    /\ UNCHANGED <<mainVars, monitor, env, ring, proc, files>>

(* enable_events writes the request and the user_events descriptor.        *)
EventsTakes ==
    /\ Takes("events")
    /\ LET p == Head(chan["events"]) IN
       IF p \notin known["events"] /\ Listens(p)
       THEN /\ inbox' = [inbox EXCEPT ![p] =
                            Append(@, Request("collect", "events"))]
            /\ Waits("events", p)
       ELSE UNCHANGED <<inbox, worker, reply>>
    /\ UNCHANGED known

(* Mutant of MapsTakes: the id is remembered when it is taken.             *)
MapsTakes_Remembers ==
    /\ Takes("maps")
    /\ LET p == Head(chan["maps"]) IN
       /\ worker' = IF p \in known["maps"] \/ ~ proc[p].up THEN worker
                    ELSE [worker EXCEPT !["maps"] =
                             [at |-> "context", pid |-> p]]
       /\ known' = [known EXCEPT !["maps"] = @ \cup {p}]
    /\ UNCHANGED <<inbox, reply>>

MapsTakes ==
    /\ Takes("maps")
    /\ LET p == Head(chan["maps"]) IN
       worker' = IF p \in known["maps"] \/ ~ proc[p].up THEN worker
                 ELSE [worker EXCEPT !["maps"] = [at |-> "context", pid |-> p]]
    /\ UNCHANGED <<inbox, known, reply>>

(* Mutant of HasPerfMapEnviron: the environment is not looked at.          *)
HasPerfMapEnviron_No(p) == FALSE

(* An error (the process is gone) counts as no.                            *)
HasPerfMapEnviron(p) == proc[p].up /\ proc[p].own

(* "Always try to disable in case it was left on": the answer is not read. *)
AsksForMap ==
    /\ worker["maps"].at = "context"
    /\ LET p == worker["maps"].pid IN
       IF Listens(p) /\ ~ HasPerfMapEnviron(p)
       THEN /\ inbox' = [inbox EXCEPT ![p] =
                    @ \o <<Request("disable", NoOne), Request("enable", "maps")>>]
            /\ Waits("maps", p)
       ELSE worker' = Idle("maps") /\ UNCHANGED <<inbox, reply>>
    /\ UNCHANGED <<mainVars, monitor, env, ring, chan, known, proc, files>>

ReadsAnswer(t) ==
    /\ worker[t].at = "answer" /\ reply[t] \in {"ok", "error"}
    /\ known' = [known EXCEPT ![t] = IF reply[t] = "ok"
                                     THEN @ \cup {worker[t].pid} ELSE @]
    /\ reply' = [reply EXCEPT ![t] = "none"]
    /\ worker' = Idle(t)
    /\ UNCHANGED <<mainVars, monitor, env, ring, chan, procVars>>

Done(t) == [worker EXCEPT ![t] = [at |-> "done", pid |-> NoOne]]

Stops(t) ==
    /\ worker[t].at = "recv" /\ chan[t] # <<>> /\ Head(chan[t]) = Stop
    /\ worker' = Done(t)
    /\ chan' = [chan EXCEPT ![t] = Tail(@)]
    /\ UNCHANGED <<mainVars, monitor, env, ring, known, reply, files>>

(* The sockets drop, and with them the EventPipe sessions.                 *)
EventsStop ==
    /\ Stops("events")
    /\ proc' = [p \in Pids |-> [proc[p] EXCEPT !.tracing = FALSE]]
    /\ UNCHANGED inbox

(* Mutant of MapsStop: the worker leaves it to the caller.                 *)
MapsStop_Forgets == Stops("maps") /\ UNCHANGED <<proc, inbox>>

(* "Thread is done, disable in-case caller forgets": every context the     *)
(* worker saved.                                                           *)
MapsStop ==
    /\ Stops("maps")
    /\ inbox' = [p \in Pids |-> IF p \in known["maps"] /\ Listens(p)
                    THEN Append(inbox[p], Request("disable", NoOne))
                    ELSE inbox[p]]
    /\ UNCHANGED proc

WorkerStep(t) ==
    \/ ReadsAnswer(t)
    \/ t = "events" /\ (EventsTakes \/ EventsStop)
    \/ t = "maps" /\ (MapsTakes \/ AsksForMap \/ MapsStop)

-----------------------------------------------------------------------------
(* The environment thread and the memory monitor.                          *)

(* An MMAP2 record of the markers a running process has mapped; the thread *)
(* ends with the last process.                                             *)
EnvVisits(p) ==
    /\ p \in env
    /\ env' = env \ {p}
    /\ ring' = IF proc[p].marked THEN Recorded(p) ELSE ring
    /\ UNCHANGED <<mainVars, monitor, trackVars, procVars>>

(* Mutant of MonitorExits: only the limit ends the poll.                   *)
MonitorExits_AtLimit ==
    /\ monitor = "polling" /\ ~ cont /\ FALSE
    /\ monitor' = "done"
    /\ UNCHANGED <<mainVars, env, ring, trackVars, procVars>>

MonitorExits ==
    /\ monitor = "polling" /\ ~ cont
    /\ monitor' = "done"
    /\ UNCHANGED <<mainVars, env, ring, trackVars, procVars>>

MonitorAtLimit ==
    /\ monitor = "polling" /\ cont
    /\ cont' = FALSE /\ monitor' = "done"
    /\ UNCHANGED <<pc, failed, scripted, hooks, factory, env, ring,
                   trackVars, procVars>>

-----------------------------------------------------------------------------
(* Recorder::run, UniversalExporter::parse_until and os_parse_until.       *)

Go(next) == pc' = next

Others == UNCHANGED <<monitor, env, ring, trackVars, procVars>>

(* format.validate or from_script fails.                                   *)
RunRefuses ==
    /\ pc = "start"
    /\ Go("returned")
    /\ UNCHANGED <<failed, cont, scripted, hooks, factory>> /\ Others

(* A script brings the dotnet factory, whose hook_to_exporter opens the    *)
(* user_events file; --max-memory brings the monitor.                      *)
RunStarts(script, limit) ==
    /\ pc = "start"
    /\ Go("build")
    /\ scripted' = script /\ factory' = script
    /\ monitor' = IF limit THEN "polling" ELSE "none"
    /\ UNCHANGED <<failed, cont, hooks, env, ring, trackVars, procVars>>

(* A settings hook, a build hook or build() fails: self is dropped.        *)
BuildFails ==
    /\ pc = "build"
    /\ Go("join_monitor") /\ failed' = TRUE
    /\ hooks' = "gone" /\ factory' = FALSE
    /\ UNCHANGED <<cont, scripted>> /\ Others

(* The session hooks make the trackers, which start their workers.         *)
Builds ==
    /\ pc = "build"
    /\ Go("enable")
    /\ worker' = [t \in Trackers |-> IF t = "maps" \/ scripted
                    THEN [at |-> "recv", pid |-> NoOne] ELSE worker[t]]
    /\ UNCHANGED <<failed, cont, scripted, hooks, factory, monitor,
                   env, ring, chan, known, reply, procVars>>

Enables ==
    /\ pc = "enable"
    /\ Go("record")
    /\ env' = Pids
    /\ UNCHANGED <<failed, cont, scripted, hooks, factory, monitor,
                   ring, trackVars, procVars>>

(* export hooks, enable, parse_until, disable or parse_all returns an      *)
(* error: the ? leaves the closure (nothing registers a parsed hook).  The *)
(* environment thread is detached, and nobody reads the rings any more.    *)
LoopFails ==
    /\ pc \in {"enable", "record", "disable", "parse_all"}
    /\ Go("cleanup_failed") /\ failed' = TRUE
    /\ env' = {} /\ ring' = <<>>
    /\ UNCHANGED <<cont, scripted, hooks, factory, monitor, trackVars, procVars>>

(* until(): a callback, the deadline, the monitor or the live output       *)
(* stopped the recording.                                                  *)
UntilStops ==
    /\ pc = "record"
    /\ Go("disable") /\ cont' = FALSE
    /\ UNCHANGED <<failed, scripted, hooks, factory>> /\ Others

(* The mmap callbacks of both trackers send the id to their workers.       *)
Tracked(p) ==
    [t \in Trackers |-> IF t = "maps" \/ scripted THEN Append(chan[t], p)
                        ELSE chan[t]]

(* A record in parse_until, where the live output may cancel, or parse_all.*)
ParsesRecord(cancel) ==
    /\ (pc = "record" /\ cont) \/ pc = "parse_all"
    /\ ring # <<>>
    /\ chan' = Tracked(Head(ring)) /\ ring' = Tail(ring)
    /\ cont' = (cont /\ ~ cancel)
    /\ UNCHANGED <<pc, failed, scripted, hooks, factory, monitor, env,
                   worker, known, reply, procVars>>

Disables ==
    /\ pc = "disable"
    /\ Go("join_env")
    /\ UNCHANGED <<failed, cont, scripted, hooks, factory>> /\ Others

JoinsEnv ==
    /\ pc = "join_env" /\ env = {}
    /\ Go("parse_all")
    /\ UNCHANGED <<failed, cont, scripted, hooks, factory>> /\ Others

(* run_parsed_hooks gives the drop hooks to the ExportMachine.             *)
RunsParsedHooks ==
    /\ pc = "parse_all" /\ ring = <<>>
    /\ Go("drop_session") /\ hooks' = "machine"
    /\ UNCHANGED <<failed, cont, scripted, factory>> /\ Others

(* remove_perf_map unlinks relative to the directory the context opened.   *)
RemovePerfMaps ==
    files' = [p \in Pids |-> IF p \in known["maps"] THEN "none" ELSE files[p]]

(* ExportMachine::cleanup: the hook of the user_events file, then the one  *)
(* of the perf maps.                                                       *)
RunDropHooks == RemovePerfMaps /\ factory' = FALSE /\ hooks' = "gone"

(* Mutant of CleansUpFailed: the hooks run wherever they are.              *)
CleansUpFailed_Always ==
    /\ pc = "cleanup_failed"
    /\ Go("drop_session")
    /\ RunDropHooks
    /\ UNCHANGED <<failed, cont, scripted, monitor, env, ring,
                   trackVars, proc, inbox>>

(* exporter.cleanup() before the session drops.                            *)
CleansUpFailed ==
    /\ pc = "cleanup_failed"
    /\ Go("drop_session")
    /\ IF hooks = "machine" THEN RunDropHooks
       ELSE UNCHANGED <<files, factory, hooks>>
    /\ UNCHANGED <<failed, cont, scripted, monitor, env, ring,
                   trackVars, proc, inbox>>

(* PerfSession's drop event runs disable() of each tracker that exists, in *)
(* the order their hooks were registered: send the stop, join the worker.  *)
SendsStop(t) ==
    chan' = IF worker[t].at = "none" THEN chan
            ELSE [chan EXCEPT ![t] = Append(@, Stop)]

StopsEvents ==
    /\ pc = "drop_session"
    /\ Go("join_events") /\ SendsStop("events")
    /\ UNCHANGED <<failed, cont, scripted, hooks, factory, monitor, env, ring,
                   worker, known, reply, procVars>>

JoinsEvents ==
    /\ pc = "join_events" /\ worker["events"].at \in {"none", "done"}
    /\ Go("join_maps") /\ SendsStop("maps")
    /\ UNCHANGED <<failed, cont, scripted, hooks, factory, monitor, env, ring,
                   worker, known, reply, procVars>>

(* The end of os_parse_until: hooks that did not run go with self.         *)
JoinsMaps ==
    /\ pc = "join_maps" /\ worker["maps"].at \in {"none", "done"}
    /\ Go("join_monitor")
    /\ IF hooks = "machine" THEN UNCHANGED <<hooks, factory>>
       ELSE hooks' = "gone" /\ factory' = FALSE
    /\ UNCHANGED <<failed, cont, scripted>> /\ Others

JoinsMonitor ==
    /\ pc = "join_monitor" /\ monitor # "polling"
    /\ Go(IF failed THEN "returned" ELSE "export")
    /\ UNCHANGED <<failed, cont, scripted, hooks, factory>> /\ Others

(* capture_and_resolve_symbols, format.run and cleanup() in both cases.    *)
Exports ==
    /\ pc = "export"
    /\ Go("returned")
    /\ RunDropHooks
    /\ UNCHANGED <<failed, cont, scripted, monitor, env, ring, trackVars,
                   proc, inbox>>

MainStep ==
    \/ RunRefuses \/ \E script, limit \in BOOLEAN : RunStarts(script, limit)
    \/ BuildFails \/ Builds \/ Enables \/ LoopFails
    \/ UntilStops \/ \E cancel \in BOOLEAN : ParsesRecord(cancel)
    \/ Disables \/ JoinsEnv \/ RunsParsedHooks \/ CleansUpFailed
    \/ StopsEvents \/ JoinsEvents \/ JoinsMaps \/ JoinsMonitor
    \/ Exports

(* What a process does before the session exists is as if it did it just   *)
(* before the session is enabled; one that starts when the session is gone *)
(* meets nothing but the cleanup.                                          *)
ProcessStep(p) ==
    /\ pc \notin {"start", "build", "returned"}
    /\ \/ /\ pc \notin {"join_monitor", "export"}
          /\ OpensSocket(p) \/ \E own \in BOOLEAN : ProcessStarts(p, own)
       \/ Marks(p) \/ Exits(p)

Next ==
    \/ MainStep \/ MonitorExits \/ MonitorAtLimit
    \/ \E t \in Trackers : WorkerStep(t)
    \/ \E p \in Pids : EnvVisits(p) \/ Serves(p) \/ ProcessStep(p)

(* In the recording nothing makes the main thread move but a record to     *)
(* parse and the flag.                                                     *)
MainRuns == MainStep /\ (pc = "record" => ~ cont \/ ring # <<>>)

(* Every thread runs on, and a diagnostics server serves its connections.  *)
Fairness ==
    /\ WF_vars(MainRuns)
    /\ WF_vars(MonitorExits)
    /\ \A p \in Pids : WF_vars(EnvVisits(p)) /\ WF_vars(Serves(p))
    /\ \A t \in Trackers : WF_vars(WorkerStep(t))

Spec == Init /\ [][Next]_vars /\ Fairness

-----------------------------------------------------------------------------
(* Properties.                                                             *)

Returned == pc = "returned"

(* Once the session is dropped, no process is left with a perf map that    *)
(* the tracker turned on: it is off, or the command that turns it off is   *)
(* in the socket (PerfMapTracker::worker_thread_proc), whatever the worker *)
(* had still to enable when it was told to stop.  And after a capture that *)
(* did not fail, exported or not, no file of such a map stays in /tmp,     *)
(* also when its process has exited meanwhile                              *)
(* (PerfMapContext::remove_perf_map).                                      *)
PerfMapsCleared ==
    \A p \in Pids :
        /\ worker["maps"].at = "done" /\ proc[p].map /\ ~ proc[p].own =>
                inbox[p] # <<>> /\ Last(inbox[p]).cmd = "disable"
        /\ Returned /\ ~ failed => files[p] # "ours"

(* A process that has its perf map by its own environment keeps it, and    *)
(* its file, unless its id was another process's before                    *)
(* (PerfMapContext::has_perf_map_environ).                                 *)
OwnPerfMapsKept ==
    \A p \in Pids :
        proc[p].up /\ proc[p].own /\ proc[p].gen = 1 =>
            proc[p].map /\ files[p] = "own"

(* While an EventPipe session writes to the tracepoints, the user_events   *)
(* file that keeps them registered is open, on every way out of the        *)
(* capture (hook_to_exporter: "This ensures we keep user_events FD until   *)
(* drop").                                                                 *)
TracepointsOutliveSessions ==
    (\E p \in Pids : proc[p].tracing) => factory

(* A recording that is told to stop, by the user, the deadline, the live   *)
(* output or the memory monitor, returns, however many processes wait to   *)
(* be enabled (Recorder::run).                                             *)
StopReturns == ~ cont ~> Returned

(* A process whose marker record is in the rings and whose socket is open  *)
(* gets its perf map, refuses it or exits, unless the capture fails: a     *)
(* marker that came too early does not spoil a later one (an id that an    *)
(* earlier process had is exempt, see the README).                         *)
AnnouncedIsEnabled ==
    \A p \in Pids :
        (Listens(p) /\ Contains(ring, p) /\ proc[p].gen = 1
            /\ pc \in {"record", "disable", "join_env", "parse_all"})
        ~> (proc[p].map \/ proc[p].refused \/ proc[p].gen > 1
              \/ ~ proc[p].up \/ failed)

(* A recording whose capture failed returns: "Recording has stopped;       *)
(* continue_recording is now false, so the memory monitor thread (if any)  *)
(* will observe it and exit" (Recorder::run).                              *)
FailureReturns == failed ~> Returned
=============================================================================

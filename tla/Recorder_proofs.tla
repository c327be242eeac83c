--------------------------- MODULE Recorder_proofs ---------------------------
(***************************************************************************)
(* For every set of process ids and every bound: while an EventPipe        *)
(* session writes to the tracepoints their user_events file is open, a     *)
(* process that has its perf map by its own environment keeps it, and no   *)
(* perf map that the tracker turned on is left behind.                     *)
(***************************************************************************)
EXTENDS Recorder, TLAPS

Processes == [up : BOOLEAN, gen : Nat, own : BOOLEAN, sock : BOOLEAN,
              marked : BOOLEAN, marks : Nat, map : BOOLEAN,
              refused : BOOLEAN, tracing : BOOLEAN]
Requests == [cmd : {"disable", "enable", "collect"}, by : Trackers \cup {NoOne}]
Workers == [at : {"none", "recv", "context", "answer", "done"},
            pid : Pids \cup {NoOne}]

TypeInv ==
    /\ ring \in Seq(Pids)
    /\ chan \in [Trackers -> Seq(Pids \cup {Stop})]
    /\ worker \in [Trackers -> Workers]
    /\ \A t \in Trackers : worker[t].at \in {"context", "answer"} =>
            worker[t].pid \in Pids
    /\ known \in [Trackers -> SUBSET Pids]
    /\ reply \in [Trackers -> {"none", "asked", "ok", "error"}]
    /\ proc \in [Pids -> Processes]
    /\ inbox \in [Pids -> Seq(Requests)]
    /\ files \in [Pids -> {"none", "own", "ours"}]

(* The events worker has at most one request under way, and sessions only  *)
(* while it runs.                                                          *)
Alive == worker["events"].at \in {"recv", "answer"}

Collects(p) == {i \in DOMAIN inbox[p] : inbox[p][i].cmd = "collect"}

EventsInv ==
    /\ worker["events"].at # "context"
    /\ \A p \in Pids : \A i \in DOMAIN inbox[p] :
            inbox[p][i].by = "events" <=> inbox[p][i].cmd = "collect"
    /\ \A p \in Pids : Collects(p) # {} =>
            worker["events"].at = "answer" /\ reply["events"] = "asked"
    /\ \A p, q \in Pids : \A i \in Collects(p), j \in Collects(q) :
            p = q /\ i = j
    /\ \A p \in Pids : proc[p].tracing => Alive

(* Where Recorder::run is while the worker lives, and that the file is     *)
(* open as long.                                                           *)
ControlInv ==
    /\ Alive => factory
    /\ pc \in {"start", "build"} => worker["events"].at = "none"
    /\ pc = "build" /\ scripted => factory
    /\ pc \in {"join_maps", "join_monitor", "export", "returned"} => ~ Alive
    /\ pc \in {"start", "build", "enable", "record", "disable", "join_env",
               "parse_all", "cleanup_failed"} => hooks = "exporter"

(* Nothing was ever asked of an id that had no process yet, nor of the     *)
(* first process of an id when its map is its own.                         *)
Untouchable(p) ==
    proc[p].gen = 0 \/ (proc[p].gen = 1 /\ proc[p].up /\ proc[p].own)

Untouched(p) ==
    /\ \A i \in DOMAIN inbox[p] : inbox[p][i].cmd = "collect"
    /\ p \notin known["maps"]
    /\ ~ (worker["maps"].at = "answer" /\ worker["maps"].pid = p)

OwnAt(p) ==
    /\ proc[p].gen = 0 => ~ proc[p].up
    /\ Untouchable(p) => Untouched(p)
    /\ proc[p].gen = 1 /\ proc[p].up /\ proc[p].own =>
            proc[p].map /\ files[p] = "own"

OwnInv == \A p \in Pids : OwnAt(p)

(* The maps worker has at most one request under way; a map it turned on   *)
(* is one it knows of, or is about to read of, and so is a file.           *)
Turned(p) == proc[p].map /\ ~ proc[p].own

Accounted(p) ==
    \/ p \in known["maps"]
    \/ worker["maps"].at = "answer" /\ worker["maps"].pid = p /\ reply["maps"] = "ok"

Asking(p) ==
    worker["maps"].at = "answer" /\ worker["maps"].pid = p /\ reply["maps"] = "asked"

Enabling(p) == {i \in DOMAIN inbox[p] : inbox[p][i].cmd = "enable"}

LastDisables(p) == inbox[p] # <<>> /\ Last(inbox[p]).cmd = "disable"

MapAt(p) ==
    /\ \A i \in DOMAIN inbox[p] : inbox[p][i].by = "maps" <=> inbox[p][i].cmd = "enable"
    /\ Enabling(p) # {} => Asking(p)
    /\ \A i, j \in Enabling(p) : i = j
    /\ inbox[p] # <<>> \/ Turned(p) => Listens(p)
    /\ files[p] = "ours" \/ Turned(p) => Accounted(p)
    /\ worker["maps"].at = "done" /\ Turned(p) => LastDisables(p)

MapsInv == \A p \in Pids : MapAt(p)

(* The stop is in the channel of the maps worker.                          *)
StopSent == \E i \in DOMAIN chan["maps"] : chan["maps"][i] = Stop

(* The maps worker starts after the build, is told to stop when the events *)
(* worker is joined, and is joined before the export.                      *)
StopControl ==
    /\ StopSent \/ worker["maps"].at = "done" =>
        pc \in {"join_maps", "join_monitor", "export", "returned"}
    /\ pc \in {"start", "build"} => worker["maps"].at = "none" /\ known["maps"] = {}
    /\ pc \in {"join_monitor", "export", "returned"} =>
            worker["maps"].at \in {"none", "done"}

ClearedInv == Returned /\ ~ failed => \A p \in Pids : files[p] # "ours"

Inv == TypeInv /\ EventsInv /\ ControlInv /\ OwnInv

CleanInv == MapsInv /\ StopControl /\ ClearedInv

-----------------------------------------------------------------------------
(* What a step may be.                                                     *)

Quiet == UNCHANGED <<chan, worker, known, reply, proc, inbox, files>>

(* A step that is none of the listed ones changes no tracker and process.  *)
LEMMA Steps ==
    ASSUME [Next]_vars
    PROVE  \/ Quiet
           \/ Builds \/ \E cancel \in BOOLEAN : ParsesRecord(cancel)
           \/ CleansUpFailed \/ StopsEvents \/ JoinsEvents \/ Exports
           \/ \E t \in Trackers : ReadsAnswer(t)
           \/ EventsTakes \/ EventsStop \/ MapsTakes \/ AsksForMap \/ MapsStop
           \/ \E p \in Pids : \/ ServesDisable(p) \/ OpensSocket(p)
                              \/ Marks(p) \/ Exits(p)
                              \/ \E b \in BOOLEAN : \/ ServesEnable(p, b)
                                                    \/ ServesCollect(p, b)
                                                    \/ ProcessStarts(p, b)
  <1>1. CASE UNCHANGED vars
    BY <1>1 DEF vars, trackVars, procVars, Quiet
  <1>2. CASE MainStep
    <2>1. ASSUME \/ RunRefuses \/ BuildFails \/ UntilStops \/ Disables
                 \/ JoinsEnv \/ RunsParsedHooks \/ JoinsMaps \/ JoinsMonitor
          PROVE  Quiet
      BY <2>1 DEF RunRefuses, BuildFails, UntilStops, Disables, JoinsEnv,
                  RunsParsedHooks, JoinsMaps, JoinsMonitor, Others, trackVars,
                  procVars, Quiet
    <2>2. ASSUME \/ \E script, limit \in BOOLEAN : RunStarts(script, limit)
                 \/ Enables \/ LoopFails
          PROVE  Quiet
      BY <2>2 DEF RunStarts, Enables, LoopFails, trackVars, procVars, Quiet
    <2> QED BY <1>2, <2>1, <2>2 DEF MainStep
  <1>3. CASE MonitorExits \/ MonitorAtLimit
    BY <1>3 DEF MonitorExits, MonitorAtLimit, trackVars, procVars, Quiet
  <1>4. CASE \E t \in Trackers : WorkerStep(t)
    BY <1>4 DEF WorkerStep
  <1>5. ASSUME NEW p \in Pids, EnvVisits(p) PROVE Quiet
    BY <1>5 DEF EnvVisits, trackVars, procVars, Quiet
  <1>6. CASE \E p \in Pids : Serves(p) \/ ProcessStep(p)
    BY <1>6 DEF Serves, ProcessStep
  <1> QED BY <1>1, <1>2, <1>3, <1>4, <1>5, <1>6 DEF Next
-----------------------------------------------------------------------------
(* The types.                                                              *)

(* The records a step writes into the state.                               *)
LEMMA ProcessFields ==
    ASSUME NEW r \in Processes, NEW b \in BOOLEAN, NEW c \in BOOLEAN, NEW n \in Nat
    PROVE  /\ [r EXCEPT !.map = b] \in Processes
           /\ [r EXCEPT !.sock = b] \in Processes
           /\ [r EXCEPT !.refused = b] \in Processes
           /\ [r EXCEPT !.tracing = b] \in Processes
           /\ [r EXCEPT !.marks = n, !.marked = b] \in Processes
           /\ [r EXCEPT !.up = b, !.gen = n, !.own = c, !.map = c] \in Processes
  BY DEF Processes

LEMMA RequestTypes ==
    /\ Request("collect", "events") \in Requests
    /\ Request("disable", NoOne) \in Requests
    /\ Request("enable", "maps") \in Requests
  BY DEF Request, Requests, Trackers

LEMMA RequestFields ==
    /\ Request("collect", "events").cmd = "collect"
    /\ Request("collect", "events").by = "events"
    /\ Request("disable", NoOne).cmd # "collect"
    /\ Request("disable", NoOne).by # "events"
    /\ Request("enable", "maps").cmd # "collect"
    /\ Request("enable", "maps").by # "events"
  BY DEF Request, NoOne

LEMMA InboxTypes ==
    ASSUME NEW s \in Seq(Requests)
    PROVE  /\ Append(s, Request("collect", "events")) \in Seq(Requests)
           /\ Append(s, Request("disable", NoOne)) \in Seq(Requests)
           /\ s \o <<Request("disable", NoOne), Request("enable", "maps")>>
                    \in Seq(Requests)
  BY RequestTypes

(* Every step keeps the types.                                             *)
LEMMA TypeStep == TypeInv /\ [Next]_vars => TypeInv'
  <1> SUFFICES ASSUME TypeInv, [Next]_vars PROVE TypeInv'
    OBVIOUS
  <1> USE DEF TypeInv, Trackers
  <1>0. ring' \in Seq(Pids)
    <2>1. \A p \in Pids : Recorded(p) \in Seq(Pids)
      BY DEF Recorded
    <2>2. CASE UNCHANGED ring
      BY <2>2
    <2>3. CASE ring' = <<>>
      BY <2>3
    <2>4. ASSUME NEW cancel \in BOOLEAN, ParsesRecord(cancel)
          PROVE  ring' \in Seq(Pids)
      BY <2>4 DEF ParsesRecord
    <2>5. ASSUME NEW p \in Pids, Marks(p) \/ EnvVisits(p)
          PROVE  ring' \in Seq(Pids)
      BY <2>1, <2>5 DEF Marks, EnvVisits
    <2>6. CASE MainStep
      <3>1. CASE \/ RunRefuses \/ BuildFails \/ UntilStops \/ Disables
                 \/ JoinsEnv \/ RunsParsedHooks \/ JoinsMaps \/ JoinsMonitor
        BY <2>2, <3>1 DEF RunRefuses, BuildFails, UntilStops, Disables, JoinsEnv,
                    RunsParsedHooks, JoinsMaps, JoinsMonitor, Others
      <3>2. CASE \/ \E script, limit \in BOOLEAN : RunStarts(script, limit)
                 \/ Builds \/ Enables \/ CleansUpFailed \/ StopsEvents
                 \/ JoinsEvents \/ Exports
        BY <2>2, <3>2 DEF RunStarts, Builds, Enables, CleansUpFailed,
                    StopsEvents, JoinsEvents, Exports
      <3>3. CASE LoopFails
        BY <2>3, <3>3 DEF LoopFails
      <3> QED BY <2>4, <2>6, <3>1, <3>2, <3>3 DEF MainStep
    <2>7. CASE \E t \in Trackers : WorkerStep(t)
      BY <2>2, <2>7 DEF WorkerStep, ReadsAnswer, EventsTakes, MapsTakes, Takes,
                  AsksForMap, EventsStop, MapsStop, Stops
    <2>8. CASE \E p \in Pids : Serves(p)
      BY <2>2, <2>8 DEF Serves, ServesDisable, ServesEnable, ServesCollect
    <2>9. CASE \E p \in Pids : ProcessStep(p)
      BY <2>2, <2>5, <2>9 DEF ProcessStep, OpensSocket, ProcessStarts, Exits
    <2>10. CASE MonitorExits \/ MonitorAtLimit \/ UNCHANGED vars
      BY <2>2, <2>10 DEF MonitorExits, MonitorAtLimit, vars
    <2> QED BY <2>5, <2>6, <2>7, <2>8, <2>9, <2>10 DEF Next
  <1>1. CASE Quiet
    BY <1>0, <1>1 DEF Quiet
  <1>2. CASE Builds
    BY <1>0, <1>2 DEF Builds, Workers, procVars
  <1>3. ASSUME NEW cancel \in BOOLEAN, ParsesRecord(cancel) PROVE TypeInv'
    BY <1>0, <1>3 DEF ParsesRecord, Tracked, procVars
  <1>4. ASSUME CleansUpFailed \/ Exports PROVE TypeInv'
    <2>1. RemovePerfMaps => files' \in [Pids -> {"none", "own", "ours"}]
      BY DEF RemovePerfMaps
    <2>2. CASE CleansUpFailed
      BY <1>0, <2>1, <2>2 DEF CleansUpFailed, RunDropHooks, trackVars
    <2>3. CASE Exports
      BY <1>0, <2>1, <2>3 DEF Exports, RunDropHooks, trackVars
    <2> QED BY <1>4, <2>2, <2>3
  <1>5. ASSUME StopsEvents \/ JoinsEvents PROVE TypeInv'
    <2>1. \A t \in Trackers : SendsStop(t) => chan' \in [Trackers -> Seq(Pids \cup {Stop})]
      <3>1. \A t \in Trackers : Append(chan[t], Stop) \in Seq(Pids \cup {Stop})
        OBVIOUS
      <3> QED BY <3>1 DEF SendsStop
    <2>2. CASE StopsEvents
      BY <1>0, <2>1, <2>2 DEF StopsEvents, procVars
    <2>3. CASE JoinsEvents
      BY <1>0, <2>1, <2>3 DEF JoinsEvents, procVars
    <2> QED BY <1>5, <2>2, <2>3
  <1>6. ASSUME NEW t \in Trackers, ReadsAnswer(t) PROVE TypeInv'
    BY <1>0, <1>6 DEF ReadsAnswer, Idle, Workers, procVars
  <1>a. ASSUME NEW t \in Trackers, NEW p \in Pids PROVE
            /\ [at |-> "answer", pid |-> p] \in Workers
            /\ [at |-> "context", pid |-> p] \in Workers
            /\ [at |-> "recv", pid |-> NoOne] \in Workers
            /\ [at |-> "done", pid |-> NoOne] \in Workers
    BY DEF Workers
  <1>b. ASSUME NEW t \in Trackers, chan[t] # <<>>
        PROVE  [chan EXCEPT ![t] = Tail(@)] \in [Trackers -> Seq(Pids \cup {Stop})]
    <2>1. Tail(chan[t]) \in Seq(Pids \cup {Stop})
      BY <1>b
    <2> QED BY <2>1
  <1>c. ASSUME NEW t \in Trackers, NEW p \in Pids, Waits(t, p)
        PROVE  /\ worker' \in [Trackers -> Workers]
               /\ \A u \in Trackers : worker'[u].at \in {"context", "answer"} =>
                        worker'[u].pid \in Pids
               /\ reply' \in [Trackers -> {"none", "asked", "ok", "error"}]
    BY <1>a, <1>c DEF Waits
  <1>7. CASE EventsTakes
    <2> DEFINE q == Head(chan["events"])
    <2>1. q \in Pids /\ chan["events"] # <<>>
      BY <1>7 DEF EventsTakes, Takes
    <2>2. Append(inbox[q], Request("collect", "events")) \in Seq(Requests)
      BY <2>1, InboxTypes
    <2>3. inbox' \in [Pids -> Seq(Requests)]
      BY <1>7, <2>1, <2>2 DEF EventsTakes
    <2>4. chan' \in [Trackers -> Seq(Pids \cup {Stop})]
      BY <1>7, <1>b, <2>1 DEF EventsTakes, Takes
    <2>5. UNCHANGED <<known, proc, files>>
      BY <1>7 DEF EventsTakes, Takes
    <2>6. Waits("events", q) \/ UNCHANGED <<worker, reply>>
      BY <1>7 DEF EventsTakes
    <2>7. CASE Waits("events", q)
      BY <1>0, <1>c, <2>1, <2>3, <2>4, <2>5, <2>7
    <2>8. CASE UNCHANGED <<worker, reply>>
      BY <1>0, <2>3, <2>4, <2>5, <2>8
    <2> QED BY <2>6, <2>7, <2>8
  <1>8. CASE EventsStop
    <2>1. \A p \in Pids : [proc[p] EXCEPT !.tracing = FALSE] \in Processes
      BY ProcessFields
    <2>2. proc' \in [Pids -> Processes]
      BY <1>8, <2>1 DEF EventsStop
    <2>3. chan' \in [Trackers -> Seq(Pids \cup {Stop})]
      BY <1>8, <1>b DEF EventsStop, Stops
    <2> QED BY <1>0, <1>8, <2>2, <2>3 DEF EventsStop, Stops, Done, Workers
  <1>9. CASE MapsTakes
    <2>1. Head(chan["maps"]) \in Pids
      BY <1>9 DEF MapsTakes, Takes
    <2>2. chan' \in [Trackers -> Seq(Pids \cup {Stop})]
      BY <1>9, <1>b DEF MapsTakes, Takes
    <2>3. /\ worker' \in [Trackers -> Workers]
          /\ \A u \in Trackers : worker'[u].at \in {"context", "answer"} =>
                    worker'[u].pid \in Pids
      BY <1>9, <1>a, <2>1 DEF MapsTakes
    <2> QED BY <1>0, <1>9, <2>2, <2>3 DEF MapsTakes, Takes
  <1>10. CASE AsksForMap
    <2> DEFINE q == worker["maps"].pid
    <2>1. q \in Pids
      BY <1>10 DEF AsksForMap
    <2>2. inbox[q] \o <<Request("disable", NoOne), Request("enable", "maps")>>
                \in Seq(Requests)
      BY <2>1, InboxTypes
    <2>3. inbox' \in [Pids -> Seq(Requests)]
      BY <1>10, <2>1, <2>2 DEF AsksForMap
    <2>4. UNCHANGED <<chan, known, proc, files>>
      BY <1>10 DEF AsksForMap
    <2>5. Waits("maps", q) \/ (worker' = Idle("maps") /\ UNCHANGED reply)
      BY <1>10 DEF AsksForMap
    <2>6. CASE Waits("maps", q)
      BY <1>0, <1>c, <2>1, <2>3, <2>4, <2>6
    <2>7. CASE worker' = Idle("maps") /\ UNCHANGED reply
      BY <1>0, <2>3, <2>4, <2>7 DEF Idle, Workers
    <2> QED BY <2>5, <2>6, <2>7
  <1>11. CASE MapsStop
    <2>2. inbox' \in [Pids -> Seq(Requests)]
      BY <1>11, InboxTypes DEF MapsStop
    <2>3. chan' \in [Trackers -> Seq(Pids \cup {Stop})]
      BY <1>11, <1>b DEF MapsStop, Stops
    <2> QED BY <1>0, <1>11, <2>2, <2>3 DEF MapsStop, Stops, Done, Workers
  <1>d. ASSUME NEW p \in Pids, inbox[p] # <<>>
        PROVE  [inbox EXCEPT ![p] = Tail(@)] \in [Pids -> Seq(Requests)]
    <2>1. Tail(inbox[p]) \in Seq(Requests)
      BY <1>d
    <2> QED BY <2>1
  <1>12. ASSUME NEW p \in Pids,
                ServesDisable(p) \/ OpensSocket(p) \/ Marks(p) \/ Exits(p)
         PROVE  TypeInv'
    <2>1. CASE ServesDisable(p)
      <3>1. [proc[p] EXCEPT !.map = FALSE] \in Processes
        BY ProcessFields
      <3> QED BY <1>0, <1>d, <2>1, <3>1 DEF ServesDisable, trackVars
    <2>2. CASE OpensSocket(p)
      <3>1. [proc[p] EXCEPT !.sock = TRUE] \in Processes
        BY ProcessFields
      <3> QED BY <1>0, <2>2, <3>1 DEF OpensSocket, trackVars
    <2>3. CASE Marks(p)
      <3>1. [proc[p] EXCEPT !.marks = @ + 1, !.marked = TRUE] \in Processes
        <4>1. proc[p].marks + 1 \in Nat
          BY DEF Processes
        <4> QED BY <4>1, ProcessFields
      <3>2. proc' = [proc EXCEPT ![p] =
                        [proc[p] EXCEPT !.marks = @ + 1, !.marked = TRUE]]
        BY <2>3 DEF Marks
      <3>3. proc' \in [Pids -> Processes]
        BY <3>1, <3>2
      <3> QED BY <1>0, <2>3, <3>3 DEF Marks, trackVars
    <2>4. CASE Exits(p)
      <3>1. proc' \in [Pids -> Processes]
        BY <2>4 DEF Exits, Processes, NoProcess
      <3>2. inbox' \in [Pids -> Seq(Requests)]
        BY <2>4 DEF Exits
      <3>3. reply' \in [Trackers -> {"none", "asked", "ok", "error"}]
        BY <2>4 DEF Exits
      <3> QED BY <1>0, <2>4, <3>1, <3>2, <3>3 DEF Exits
    <2> QED BY <1>12, <2>1, <2>2, <2>3, <2>4
  <1>13. ASSUME NEW p \in Pids, NEW b \in BOOLEAN,
                ServesEnable(p, b) \/ ServesCollect(p, b) \/ ProcessStarts(p, b)
         PROVE  TypeInv'
    <2>1. CASE ServesEnable(p, b)
      <3>1. /\ [proc[p] EXCEPT !.map = TRUE] \in Processes
            /\ [proc[p] EXCEPT !.refused = TRUE] \in Processes
        BY ProcessFields
      <3>2. proc' \in [Pids -> Processes]
        BY <2>1, <3>1 DEF ServesEnable
      <3>3. inbox' \in [Pids -> Seq(Requests)]
        BY <2>1, <1>d DEF ServesEnable
      <3> QED BY <1>0, <2>1, <3>2, <3>3 DEF ServesEnable
    <2>2. CASE ServesCollect(p, b)
      <3>1. [proc[p] EXCEPT !.tracing = b] \in Processes
        BY ProcessFields
      <3>2. inbox' \in [Pids -> Seq(Requests)]
        BY <2>2, <1>d DEF ServesCollect
      <3> QED BY <1>0, <2>2, <3>1, <3>2 DEF ServesCollect
    <2>3. CASE ProcessStarts(p, b)
      <3>1. [proc[p] EXCEPT !.up = TRUE, !.gen = @ + 1, !.own = b, !.map = b]
                    \in Processes
        <4>1. proc[p].gen + 1 \in Nat
          BY DEF Processes
        <4> QED BY <4>1, ProcessFields
      <3>2. proc' = [proc EXCEPT ![p] =
                [proc[p] EXCEPT !.up = TRUE, !.gen = @ + 1, !.own = b, !.map = b]]
        BY <2>3 DEF ProcessStarts
      <3>3. proc' \in [Pids -> Processes]
        BY <3>1, <3>2
      <3> QED BY <1>0, <2>3, <3>3 DEF ProcessStarts, trackVars
    <2> QED BY <1>13, <2>1, <2>2, <2>3
  <1> QED BY <1>1, <1>2, <1>3, <1>4, <1>5, <1>6, <1>7, <1>8, <1>9, <1>10, <1>11,
             <1>12, <1>13, Steps
-----------------------------------------------------------------------------
(* The events worker and its requests.                                     *)

(* What a sequence holds after one or two elements more or one less.       *)
LEMMA SequenceFacts ==
    ASSUME NEW S, NEW s \in Seq(S), NEW e \in S, NEW f \in S
    PROVE  /\ \A i \in DOMAIN Append(s, e) :
                    \/ i = Len(s) + 1 /\ Append(s, e)[i] = e
                    \/ i \in DOMAIN s /\ Append(s, e)[i] = s[i]
           /\ \A i \in DOMAIN (s \o <<e, f>>) :
                    \/ (s \o <<e, f>>)[i] \in {e, f}
                    \/ i \in DOMAIN s /\ (s \o <<e, f>>)[i] = s[i]
  OBVIOUS

LEMMA TailFacts ==
    ASSUME NEW S, NEW s \in Seq(S), s # <<>>
    PROVE  /\ 1 \in DOMAIN s /\ s[1] = Head(s)
           /\ \A i \in DOMAIN Tail(s) :
                    i + 1 \in DOMAIN s /\ Tail(s)[i] = s[i + 1]
  OBVIOUS

(* Requests of the events worker that only move up in their inboxes, while *)
(* the worker stays as it is and no session is opened.                     *)
LEMMA EventsFrame ==
    ASSUME TypeInv, TypeInv', EventsInv,
           worker'["events"] = worker["events"],
           reply'["events"] = reply["events"],
           \A p \in Pids : proc'[p].tracing => proc[p].tracing,
           \A p \in Pids : \E d \in {0, 1} : \A i \in DOMAIN inbox'[p] :
                \/ /\ inbox'[p][i].cmd # "collect"
                   /\ inbox'[p][i].by # "events"
                \/ /\ i + d \in DOMAIN inbox[p]
                   /\ inbox'[p][i] = inbox[p][i + d]
    PROVE  EventsInv'
  <1>1. \A p \in Pids : \A i \in DOMAIN inbox'[p] :
            inbox'[p][i].by = "events" <=> inbox'[p][i].cmd = "collect"
    BY DEF EventsInv
  <1>2. \A p \in Pids : \E d \in {0, 1} : \A i \in Collects(p)' :
            i \in Int /\ i + d \in Collects(p)
    <2> SUFFICES ASSUME NEW p \in Pids
                 PROVE  \E d \in {0, 1} : \A i \in Collects(p)' :
                            i \in Int /\ i + d \in Collects(p)
      OBVIOUS
    <2>1. PICK d \in {0, 1} : \A i \in DOMAIN inbox'[p] :
                \/ /\ inbox'[p][i].cmd # "collect"
                   /\ inbox'[p][i].by # "events"
                \/ /\ i + d \in DOMAIN inbox[p]
                   /\ inbox'[p][i] = inbox[p][i + d]
      OBVIOUS
    <2>2. \A i \in DOMAIN inbox'[p] : i \in Int
      BY DEF TypeInv
    <2>3. \A i \in Collects(p)' : i \in Int /\ i + d \in Collects(p)
      BY <2>1, <2>2 DEF Collects
    <2> QED BY <2>3
  <1>3. \A p, q \in Pids : \A i \in Collects(p)', j \in Collects(q)' :
            p = q /\ i = j
    <2> SUFFICES ASSUME NEW p \in Pids, NEW q \in Pids,
                        NEW i \in Collects(p)', NEW j \in Collects(q)'
                 PROVE  p = q /\ i = j
      OBVIOUS
    <2>1. p = q
      BY <1>2 DEF EventsInv
    <2>2. PICK d \in {0, 1} : \A k \in Collects(p)' : k \in Int /\ k + d \in Collects(p)
      BY <1>2
    <2>3. i + d = j + d /\ i \in Int /\ j \in Int
      BY <2>1, <2>2 DEF EventsInv
    <2> QED BY <2>1, <2>3
  <1>4. \A p \in Pids : Collects(p)' # {} => Collects(p) # {}
    BY <1>2
  <1> QED BY <1>1, <1>3, <1>4 DEF EventsInv, Alive

(* The special case of inboxes that do not change.                         *)
LEMMA EventsSame ==
    ASSUME TypeInv, TypeInv', EventsInv, UNCHANGED inbox,
           worker'["events"] = worker["events"],
           reply'["events"] = reply["events"],
           \A p \in Pids : proc'[p].tracing => proc[p].tracing
    PROVE  EventsInv'
  BY DEF EventsInv, Collects, Alive

(* A server that takes a command from its inbox.                           *)
LEMMA InboxTail ==
    ASSUME TypeInv, NEW p \in Pids, inbox[p] # <<>>,
           inbox' = [inbox EXCEPT ![p] = Tail(@)]
    PROVE  /\ 1 \in DOMAIN inbox[p] /\ inbox[p][1] = Head(inbox[p])
           /\ \A i \in DOMAIN inbox'[p] :
                i + 1 \in DOMAIN inbox[p] /\ inbox'[p][i] = inbox[p][i + 1]
           /\ \A q \in Pids \ {p} : inbox'[q] = inbox[q]
  <1>1. inbox[p] \in Seq(Requests) /\ inbox'[p] = Tail(inbox[p])
    BY DEF TypeInv
  <1>2. \A q \in Pids \ {p} : inbox'[q] = inbox[q]
    BY DEF TypeInv
  <1>3. /\ 1 \in DOMAIN inbox[p] /\ inbox[p][1] = Head(inbox[p])
        /\ \A i \in DOMAIN Tail(inbox[p]) :
                i + 1 \in DOMAIN inbox[p] /\ Tail(inbox[p])[i] = inbox[p][i + 1]
    BY <1>1, TailFacts
  <1> QED BY <1>1, <1>2, <1>3, Zenon

(* Every step keeps what is said of the events worker.                     *)
LEMMA EventsStep ==
    TypeInv /\ EventsInv /\ ControlInv /\ [Next]_vars => EventsInv'
  <1> SUFFICES ASSUME TypeInv, EventsInv, ControlInv, [Next]_vars
               PROVE  EventsInv'
    OBVIOUS
  <1>0. TypeInv'
    BY TypeStep
  <1>1. CASE Quiet
    BY <1>0, <1>1, EventsSame DEF Quiet
  <1>2. CASE Builds
    <2>1. worker["events"].at = "none"
      BY <1>2 DEF Builds, ControlInv
    <2>2. worker'["events"].at \in {"none", "recv"}
      BY <1>2, <2>1 DEF Builds, Trackers
    <2>3. \A p \in Pids : Collects(p)' = {} /\ ~ proc'[p].tracing
      BY <1>2, <2>1 DEF Builds, EventsInv, Alive, Collects, procVars
    <2>4. UNCHANGED inbox
      BY <1>2 DEF Builds, procVars
    <2> QED BY <2>2, <2>3, <2>4 DEF EventsInv
  <1>3. ASSUME NEW cancel \in BOOLEAN, ParsesRecord(cancel) PROVE EventsInv'
    BY <1>0, <1>3, EventsSame DEF ParsesRecord, procVars
  <1>4. ASSUME CleansUpFailed \/ Exports PROVE EventsInv'
    BY <1>0, <1>4, EventsSame DEF CleansUpFailed, Exports, trackVars
  <1>5. ASSUME StopsEvents \/ JoinsEvents PROVE EventsInv'
    BY <1>0, <1>5, EventsSame DEF StopsEvents, JoinsEvents, procVars
  <1>6. ASSUME NEW t \in Trackers, ReadsAnswer(t) PROVE EventsInv'
    <2>1. CASE t = "maps"
      <3>1. /\ worker'["events"] = worker["events"]
            /\ reply'["events"] = reply["events"]
        BY <1>6, <2>1 DEF ReadsAnswer, Idle, TypeInv, Trackers
      <3> QED BY <1>0, <1>6, <3>1, EventsSame DEF ReadsAnswer, procVars
    <2>2. CASE t = "events"
      <3>1. worker'["events"].at = "recv"
        BY <1>6, <2>2 DEF ReadsAnswer, Idle, TypeInv, Trackers
      <3>2. UNCHANGED <<inbox, proc>> /\ reply["events"] # "asked"
        BY <1>6, <2>2 DEF ReadsAnswer, procVars
      <3>3. \A p \in Pids : Collects(p) = {} /\ Collects(p)' = {}
        BY <3>2 DEF EventsInv, Collects
      <3> QED BY <3>1, <3>2, <3>3 DEF EventsInv, Alive
    <2> QED BY <2>1, <2>2 DEF Trackers
  <1>7. CASE EventsTakes
    <2> DEFINE p == Head(chan["events"])
    <2>1. worker["events"].at = "recv" /\ p \in Pids /\ UNCHANGED proc
      BY <1>7 DEF EventsTakes, Takes, TypeInv, Trackers
    <2>2. \A q \in Pids : Collects(q) = {}
      BY <2>1 DEF EventsInv
    <2>3. CASE UNCHANGED <<inbox, worker, reply>>
      BY <1>0, <2>1, <2>3, EventsSame
    <2>4. CASE /\ inbox' = [inbox EXCEPT ![p] =
                                Append(@, Request("collect", "events"))]
               /\ Waits("events", p)
      <3>1. worker'["events"].at = "answer" /\ reply'["events"] = "asked"
        BY <2>4 DEF Waits, TypeInv, Trackers
      <3>2. inbox[p] \in Seq(Requests)
        BY <2>1 DEF TypeInv
      <3>3. /\ inbox'[p] = Append(inbox[p], Request("collect", "events"))
            /\ \A q \in Pids \ {p} : inbox'[q] = inbox[q]
        BY <2>1, <2>4 DEF TypeInv
      <3>4. \A i \in DOMAIN inbox'[p] :
                \/ i = Len(inbox[p]) + 1
                        /\ inbox'[p][i] = Request("collect", "events")
                \/ i \in DOMAIN inbox[p] /\ inbox'[p][i] = inbox[p][i]
        BY <3>2, <3>3, RequestTypes, SequenceFacts
      <3>5. \A q \in Pids : \A i \in Collects(q)' :
                q = p /\ i = Len(inbox[p]) + 1
        BY <2>2, <3>3, <3>4, SMTT(40) DEF Collects
      <3>6. \A q \in Pids : \A i \in DOMAIN inbox'[q] :
                inbox'[q][i].by = "events" <=> inbox'[q][i].cmd = "collect"
        <4>1. \A i \in DOMAIN inbox'[p] :
                    inbox'[p][i].by = "events" <=> inbox'[p][i].cmd = "collect"
          BY <2>1, <3>4, RequestFields DEF EventsInv
        <4>2. \A q \in Pids \ {p} : \A i \in DOMAIN inbox'[q] :
                    inbox'[q][i].by = "events" <=> inbox'[q][i].cmd = "collect"
          BY <3>3 DEF EventsInv
        <4> QED BY <4>1, <4>2
      <3> QED BY <2>1, <3>1, <3>5, <3>6 DEF EventsInv, Alive
    <2> QED BY <1>7, <2>3, <2>4 DEF EventsTakes
  <1>8. CASE EventsStop
    <2>1. worker["events"].at = "recv" /\ worker'["events"].at = "done"
      BY <1>8 DEF EventsStop, Stops, Done, TypeInv, Trackers
    <2>2. UNCHANGED inbox /\ \A q \in Pids : ~ proc'[q].tracing
      BY <1>8 DEF EventsStop, TypeInv, Processes
    <2>3. \A q \in Pids : Collects(q)' = {}
      BY <2>1, <2>2 DEF EventsInv, Collects
    <2> QED BY <2>1, <2>2, <2>3 DEF EventsInv
  <1>9. CASE MapsTakes
    <2>1. worker'["events"] = worker["events"]
      BY <1>9 DEF MapsTakes, TypeInv, Trackers
    <2> QED BY <1>0, <1>9, <2>1, EventsSame DEF MapsTakes, Takes
  <1>10. CASE AsksForMap
    <2> DEFINE p == worker["maps"].pid
               two == <<Request("disable", NoOne), Request("enable", "maps")>>
    <2>1. p \in Pids
      BY <1>10 DEF AsksForMap, TypeInv, Trackers
    <2>2. /\ worker'["events"] = worker["events"]
          /\ reply'["events"] = reply["events"]
          /\ UNCHANGED proc
      BY <1>10 DEF AsksForMap, Waits, Idle, TypeInv, Trackers
    <2>3. CASE UNCHANGED inbox
      BY <1>0, <2>2, <2>3, EventsSame
    <2>4. CASE inbox' = [inbox EXCEPT ![p] = @ \o two]
      <3>1. inbox[p] \in Seq(Requests) /\ two \in Seq(Requests)
        BY <2>1, RequestTypes DEF TypeInv
      <3>2. /\ inbox'[p] = inbox[p] \o two
            /\ \A q \in Pids \ {p} : inbox'[q] = inbox[q]
        BY <2>1, <2>4 DEF TypeInv
      <3>3. \A i \in DOMAIN inbox'[p] :
                \/ /\ inbox'[p][i].cmd # "collect"
                   /\ inbox'[p][i].by # "events"
                \/ i \in DOMAIN inbox[p] /\ inbox'[p][i] = inbox[p][i]
        <4>1. \A i \in DOMAIN inbox'[p] :
                    \/ inbox'[p][i] \in {Request("disable", NoOne), Request("enable", "maps")}
                    \/ i \in DOMAIN inbox[p] /\ inbox'[p][i] = inbox[p][i]
          BY <3>1, <3>2, RequestTypes, SequenceFacts
        <4> QED BY <4>1, RequestFields
      <3>4. \A q \in Pids : \A i \in DOMAIN inbox'[q] : i + 0 = i
        BY <1>0 DEF TypeInv
      <3>5. \A q \in Pids : \A i \in DOMAIN inbox'[q] :
                \/ /\ inbox'[q][i].cmd # "collect"
                   /\ inbox'[q][i].by # "events"
                \/ /\ i + 0 \in DOMAIN inbox[q]
                   /\ inbox'[q][i] = inbox[q][i + 0]
        BY <3>2, <3>3, <3>4
      <3> QED BY <1>0, <2>2, <3>5, EventsFrame
    <2> QED BY <1>10, <2>3, <2>4 DEF AsksForMap
  <1>11. CASE MapsStop
    <2>1. /\ worker'["events"] = worker["events"]
          /\ UNCHANGED <<proc, reply>>
      BY <1>11 DEF MapsStop, Stops, Done, TypeInv, Trackers
    <2>2. ASSUME NEW q \in Pids, NEW i \in DOMAIN inbox'[q]
          PROVE  \/ inbox'[q][i].cmd # "collect" /\ inbox'[q][i].by # "events"
                 \/ i \in DOMAIN inbox[q] /\ inbox'[q][i] = inbox[q][i]
      <3>1. inbox[q] \in Seq(Requests)
        BY DEF TypeInv
      <3>2. \/ inbox'[q] = inbox[q]
            \/ inbox'[q] = Append(inbox[q], Request("disable", NoOne))
        BY <1>11 DEF MapsStop
      <3>3. \/ inbox'[q][i] = Request("disable", NoOne)
            \/ i \in DOMAIN inbox[q] /\ inbox'[q][i] = inbox[q][i]
        BY <3>1, <3>2, RequestTypes, SequenceFacts
      <3> QED BY <3>3, RequestFields
    <2>3. \A q \in Pids : \A i \in DOMAIN inbox'[q] : i + 0 = i
      BY <1>0 DEF TypeInv
    <2>4. \A q \in Pids : \A i \in DOMAIN inbox'[q] :
                \/ /\ inbox'[q][i].cmd # "collect"
                   /\ inbox'[q][i].by # "events"
                \/ /\ i + 0 \in DOMAIN inbox[q]
                   /\ inbox'[q][i] = inbox[q][i + 0]
      BY <2>2, <2>3
    <2> QED BY <1>0, <2>1, <2>4, EventsFrame
  <1>12. ASSUME NEW p \in Pids, OpensSocket(p) \/ Marks(p) PROVE EventsInv'
    <2>1. \A q \in Pids : proc'[q].tracing = proc[q].tracing
      <3>1. CASE OpensSocket(p)
        BY <3>1 DEF OpensSocket, TypeInv, Processes
      <3>2. CASE Marks(p)
        BY <3>2 DEF Marks, TypeInv, Processes
      <3> QED BY <1>12, <3>1, <3>2
    <2> QED BY <1>0, <1>12, <2>1, EventsSame DEF OpensSocket, Marks, trackVars
  <1>13. ASSUME NEW p \in Pids, NEW b \in BOOLEAN, ProcessStarts(p, b)
         PROVE  EventsInv'
    <2>1. \A q \in Pids : proc'[q].tracing = proc[q].tracing
      BY <1>13 DEF ProcessStarts, TypeInv, Processes
    <2> QED BY <1>0, <1>13, <2>1, EventsSame DEF ProcessStarts, trackVars
  <1>14. ASSUME NEW p \in Pids, NEW b \in BOOLEAN,
                ServesDisable(p) \/ ServesEnable(p, b)
         PROVE  EventsInv'
    <2>1. /\ inbox[p] # <<>> /\ inbox' = [inbox EXCEPT ![p] = Tail(@)]
          /\ worker'["events"] = worker["events"]
          /\ reply'["events"] = reply["events"]
      BY <1>14 DEF ServesDisable, ServesEnable, TypeInv, Trackers, trackVars
    <2>2. \A q \in Pids : proc'[q].tracing = proc[q].tracing
      <3>1. CASE ServesDisable(p)
        BY <3>1 DEF ServesDisable, TypeInv, Processes
      <3>2. CASE ServesEnable(p, b)
        BY <3>2 DEF ServesEnable, TypeInv, Processes
      <3> QED BY <1>14, <3>1, <3>2
    <2>3. \A i \in DOMAIN inbox'[p] :
                i + 1 \in DOMAIN inbox[p] /\ inbox'[p][i] = inbox[p][i + 1]
      BY <2>1, InboxTail
    <2>4. \A q \in Pids \ {p} : \A i \in DOMAIN inbox'[q] :
                i + 0 \in DOMAIN inbox[q] /\ inbox'[q][i] = inbox[q][i + 0]
      <3>1. \A q \in Pids : \A i \in DOMAIN inbox'[q] : i + 0 = i
        BY <1>0 DEF TypeInv
      <3> QED BY <2>1, <3>1, InboxTail
    <2>5. \A q \in Pids : \E d \in {0, 1} : \A i \in DOMAIN inbox'[q] :
                i + d \in DOMAIN inbox[q] /\ inbox'[q][i] = inbox[q][i + d]
      BY <2>3, <2>4
    <2> QED BY <1>0, <2>1, <2>2, <2>5, EventsFrame
  <1>15. ASSUME NEW p \in Pids, NEW b \in BOOLEAN, ServesCollect(p, b)
         PROVE  EventsInv'
    <2>1. /\ inbox[p] # <<>> /\ inbox' = [inbox EXCEPT ![p] = Tail(@)]
          /\ Head(inbox[p]).cmd = "collect" /\ UNCHANGED worker
      BY <1>15 DEF ServesCollect
    <2>2. 1 \in Collects(p)
      BY <2>1, InboxTail DEF Collects
    <2>3. worker["events"].at = "answer"
      BY <2>2 DEF EventsInv
    <2>4. \A q \in Pids : Collects(q)' = {}
      <3>1. \A q \in Pids \ {p} : Collects(q) = {} /\ Collects(q)' = Collects(q)
        BY <2>1, <2>2, InboxTail DEF EventsInv, Collects
      <3>2. \A i \in Collects(p)' : i \in Nat \ {0} /\ i + 1 \in Collects(p)
        BY <1>0, <2>1, InboxTail DEF Collects, TypeInv
      <3>3. \A i \in Collects(p) : i = 1
        BY <2>2 DEF EventsInv
      <3>4. Collects(p)' = {}
        BY <3>2, <3>3
      <3> QED BY <3>1, <3>4
    <2>5. \A q \in Pids : \A i \in DOMAIN inbox'[q] :
                inbox'[q][i].by = "events" <=> inbox'[q][i].cmd = "collect"
      <3>1. \A i \in DOMAIN inbox'[p] :
                i + 1 \in DOMAIN inbox[p] /\ inbox'[p][i] = inbox[p][i + 1]
        BY <2>1, InboxTail
      <3>2. \A q \in Pids \ {p} : inbox'[q] = inbox[q]
        BY <2>1, InboxTail
      <3> QED BY <3>1, <3>2 DEF EventsInv
    <2> QED BY <2>1, <2>3, <2>4, <2>5 DEF EventsInv, Alive
  <1>16. ASSUME NEW p \in Pids, Exits(p) PROVE EventsInv'
    <2>1. /\ UNCHANGED worker /\ inbox'[p] = <<>>
          /\ \A q \in Pids \ {p} : inbox'[q] = inbox[q]
      BY <1>16 DEF Exits, TypeInv
    <2>2. \A q \in Pids : proc'[q].tracing => proc[q].tracing
      BY <1>16 DEF Exits, NoProcess, TypeInv, Processes
    <2>3. Collects(p)' = {} /\ \A q \in Pids \ {p} : Collects(q)' = Collects(q)
      BY <2>1 DEF Collects
    <2>4. ASSUME NEW q \in Pids, Collects(q)' # {}
          PROVE  reply'["events"] = "asked"
      <3>1. q # p /\ Collects(q) # {}
        BY <2>3, <2>4
      <3>2. Collects(p) = {} /\ reply["events"] = "asked"
        BY <3>1 DEF EventsInv
      <3>3. ~ \E i \in DOMAIN inbox[p] : inbox[p][i].by = "events"
        BY <3>2 DEF EventsInv, Collects
      <3> QED BY <1>16, <3>2, <3>3 DEF Exits, Trackers
    <2>5. \A q \in Pids : \A i \in DOMAIN inbox'[q] :
                inbox'[q][i].by = "events" <=> inbox'[q][i].cmd = "collect"
      BY <2>1 DEF EventsInv
    <2>6. \A q \in Pids : Collects(q)' # {} => worker'["events"].at = "answer"
      BY <2>1, <2>3 DEF EventsInv
    <2>7. \A q, r \in Pids : \A i \in Collects(q)', j \in Collects(r)' :
                q = r /\ i = j
      BY <2>3 DEF EventsInv
    <2> QED BY <2>1, <2>2, <2>4, <2>5, <2>6, <2>7 DEF EventsInv, Alive
  <1> QED BY <1>1, <1>2, <1>3, <1>4, <1>5, <1>6, <1>7, <1>8, <1>9, <1>10, <1>11,
             <1>12, <1>13, <1>14, <1>15, <1>16, Steps

-----------------------------------------------------------------------------
(* The user_events file.                                                   *)

(* Only Builds starts the worker, and nothing brings it back.              *)
LEMMA WorkerLife ==
    ASSUME TypeInv, [Next]_vars, ~ Builds
    PROVE  /\ Alive' => Alive
           /\ worker["events"].at = "none" => worker'["events"].at = "none"
  <1>1. CASE UNCHANGED worker
    BY <1>1 DEF Alive
  <1>2. ASSUME NEW t \in Trackers, ReadsAnswer(t)
        PROVE  \/ worker'["events"] = worker["events"]
               \/ Alive
    BY <1>2 DEF ReadsAnswer, Idle, TypeInv, Trackers, Alive
  <1>3. CASE EventsTakes \/ EventsStop
    BY <1>3 DEF EventsTakes, EventsStop, Takes, Stops, Alive
  <1>4. CASE MapsTakes
    BY <1>4 DEF MapsTakes, TypeInv, Trackers, Alive
  <1>5. CASE AsksForMap
    BY <1>5 DEF AsksForMap, Waits, Idle, TypeInv, Trackers, Alive
  <1>6. CASE MapsStop
    BY <1>6 DEF MapsStop, Stops, Done, TypeInv, Trackers, Alive
  <1>7. \/ UNCHANGED worker \/ EventsTakes \/ EventsStop \/ MapsTakes
        \/ AsksForMap \/ MapsStop \/ \E t \in Trackers : ReadsAnswer(t)
    BY Steps DEF Quiet, ParsesRecord, CleansUpFailed, StopsEvents, JoinsEvents,
                 Exports, ServesDisable, OpensSocket, Marks, Exits,
                 ServesEnable, ServesCollect, ProcessStarts, trackVars
  <1> QED BY <1>1, <1>2, <1>3, <1>4, <1>5, <1>6, <1>7 DEF Alive

(* Only Recorder::run moves its program counter and its own state.         *)
LEMMA NextKeepsPc ==
    ASSUME [Next]_vars
    PROVE  MainStep \/ UNCHANGED <<pc, failed, scripted, hooks, factory>>
  <1>1. CASE MonitorExits \/ MonitorAtLimit \/ UNCHANGED vars
    BY <1>1 DEF MonitorExits, MonitorAtLimit, vars, mainVars
  <1>2. ASSUME NEW t \in Trackers, WorkerStep(t)
        PROVE  UNCHANGED <<pc, failed, scripted, hooks, factory>>
    BY <1>2 DEF WorkerStep, ReadsAnswer, EventsTakes, EventsStop, MapsTakes,
                AsksForMap, MapsStop, Takes, Stops, mainVars
  <1>3. ASSUME NEW p \in Pids, EnvVisits(p) \/ Serves(p) \/ ProcessStep(p)
        PROVE  UNCHANGED <<pc, failed, scripted, hooks, factory>>
    BY <1>3 DEF EnvVisits, Serves, ServesDisable, ServesEnable, ServesCollect,
                ProcessStep, OpensSocket, ProcessStarts, Marks, Exits, mainVars
  <1> QED BY <1>1, <1>2, <1>3 DEF Next

(* Every step keeps the file open as long as the worker may hold sessions. *)
LEMMA ControlStep ==
    TypeInv /\ ControlInv /\ [Next]_vars => ControlInv'
  <1> SUFFICES ASSUME TypeInv, ControlInv, [Next]_vars PROVE ControlInv'
    OBVIOUS
  <1>1. CASE Builds
    <2>1. worker'["events"].at = "none" \/ scripted
      BY <1>1 DEF Builds, ControlInv, Trackers
    <2>2. Alive' => scripted
      BY <2>1 DEF Alive
    <2> QED BY <1>1, <2>2 DEF Builds, Go, ControlInv
  <1>2. ASSUME ~ Builds, MainStep PROVE ControlInv'
    <2>1. /\ Alive' => Alive
          /\ worker["events"].at = "none" => worker'["events"].at = "none"
      BY <1>2, WorkerLife
    <2>2. CASE RunRefuses \/ \E script, limit \in BOOLEAN : RunStarts(script, limit)
      <3>1. ~ Alive
        BY <2>2 DEF RunRefuses, RunStarts, ControlInv, Alive
      <3> QED BY <2>1, <2>2, <3>1 DEF RunRefuses, RunStarts, Go, ControlInv
    <2>3. CASE BuildFails
      <3>1. ~ Alive
        BY <2>3 DEF BuildFails, ControlInv, Alive
      <3> QED BY <2>1, <2>3, <3>1 DEF BuildFails, Go, ControlInv
    <2>4. CASE Enables \/ LoopFails \/ UntilStops \/ Disables \/ JoinsEnv
      BY <2>1, <2>4 DEF Enables, LoopFails, UntilStops, Disables, JoinsEnv, Go,
                  ControlInv
    <2>5. CASE RunsParsedHooks \/ CleansUpFailed
      BY <2>1, <2>5 DEF RunsParsedHooks, CleansUpFailed, Go, ControlInv
    <2>6. ASSUME NEW cancel \in BOOLEAN, ParsesRecord(cancel) PROVE ControlInv'
      BY <2>1, <2>6 DEF ParsesRecord, ControlInv
    <2>7. CASE StopsEvents
      BY <2>1, <2>7 DEF StopsEvents, Go, ControlInv
    <2>8. CASE JoinsEvents
      <3>1. ~ Alive
        BY <2>8 DEF JoinsEvents, Alive
      <3> QED BY <2>1, <2>8, <3>1 DEF JoinsEvents, Go, ControlInv
    <2>9. CASE JoinsMaps
      BY <2>1, <2>9 DEF JoinsMaps, Go, ControlInv
    <2>10. CASE JoinsMonitor \/ Exports
      BY <2>1, <2>10 DEF JoinsMonitor, Exports, RunDropHooks, Go, ControlInv
    <2> QED BY <1>2, <2>2, <2>3, <2>4, <2>5, <2>6, <2>7, <2>8, <2>9, <2>10
            DEF MainStep
  <1>3. ASSUME ~ Builds, UNCHANGED <<pc, scripted, hooks, factory>>
        PROVE  ControlInv'
    <2>1. /\ Alive' => Alive
          /\ worker["events"].at = "none" => worker'["events"].at = "none"
      BY <1>3, WorkerLife
    <2> QED BY <1>3, <2>1 DEF ControlInv
  <1>4. MainStep \/ UNCHANGED <<pc, scripted, hooks, factory>>
    BY NextKeepsPc
  <1> QED BY <1>1, <1>2, <1>3, <1>4
-----------------------------------------------------------------------------
(* The processes with a perf map of their own.                             *)

(* A step that neither starts nor ends a process, and leaves an            *)
(* untouchable one alone.                                                  *)
LEMMA OwnFrame ==
    ASSUME NEW p \in Pids, OwnAt(p),
           /\ proc'[p].up = proc[p].up
           /\ proc'[p].gen = proc[p].gen
           /\ proc'[p].own = proc[p].own,
           Untouchable(p) => /\ proc'[p].map = proc[p].map
                             /\ files'[p] = files[p]
                             /\ Untouched(p)'
    PROVE  OwnAt(p)'
  BY DEF OwnAt, Untouchable

(* Every step keeps what is said of them.                                  *)
LEMMA OwnStep == TypeInv /\ OwnInv /\ [Next]_vars => OwnInv'
  <1> SUFFICES ASSUME TypeInv, OwnInv, [Next]_vars, NEW p \in Pids PROVE OwnAt(p)'
    BY DEF OwnInv
  <1>0. OwnAt(p) /\ (Untouchable(p) => Untouched(p))
    BY DEF OwnInv, OwnAt
  <1>1. CASE Quiet
    BY <1>0, <1>1, OwnFrame DEF Quiet, Untouched
  <1>2. CASE Builds
    <2>1. worker'["maps"].at # "answer"
      BY <1>2 DEF Builds, Trackers
    <2> QED BY <1>0, <1>2, <2>1, OwnFrame DEF Builds, Untouched, procVars
  <1>3. ASSUME NEW cancel \in BOOLEAN, ParsesRecord(cancel) PROVE OwnAt(p)'
    BY <1>0, <1>3, OwnFrame DEF ParsesRecord, Untouched, procVars
  <1>4. ASSUME CleansUpFailed \/ Exports PROVE OwnAt(p)'
    <2>1. UNCHANGED <<proc, inbox, known, worker>>
      BY <1>4 DEF CleansUpFailed, Exports, trackVars
    <2>2. RemovePerfMaps \/ UNCHANGED files
      BY <1>4 DEF CleansUpFailed, Exports, RunDropHooks
    <2>3. Untouchable(p) => files'[p] = files[p]
      BY <1>0, <2>2 DEF RemovePerfMaps, Untouched
    <2> QED BY <1>0, <2>1, <2>3, OwnFrame DEF Untouched
  <1>5. ASSUME StopsEvents \/ JoinsEvents PROVE OwnAt(p)'
    BY <1>0, <1>5, OwnFrame DEF StopsEvents, JoinsEvents, Untouched, procVars
  <1>6. ASSUME NEW t \in Trackers, ReadsAnswer(t) PROVE OwnAt(p)'
    <2>1. UNCHANGED <<proc, inbox, files>>
      BY <1>6 DEF ReadsAnswer, procVars
    <2>2. Untouched(p) => p \notin known'["maps"]
      BY <1>6 DEF ReadsAnswer, Untouched, TypeInv, Trackers
    <2>3. Untouched(p) => ~ (worker'["maps"].at = "answer" /\ worker'["maps"].pid = p)
      BY <1>6 DEF ReadsAnswer, Idle, Untouched, TypeInv, Trackers
    <2> QED BY <1>0, <2>1, <2>2, <2>3, OwnFrame DEF Untouched
  <1>7. CASE EventsTakes
    <2> DEFINE q == Head(chan["events"])
    <2>1. q \in Pids /\ UNCHANGED <<proc, files, known>>
      BY <1>7 DEF EventsTakes, Takes, TypeInv, Trackers
    <2>2. worker'["maps"] = worker["maps"]
      BY <1>7 DEF EventsTakes, Waits, TypeInv, Trackers
    <2>3. \/ inbox'[p] = inbox[p]
          \/ inbox'[p] = Append(inbox[p], Request("collect", "events"))
      BY <1>7, <2>1 DEF EventsTakes, TypeInv
    <2>4. inbox[p] \in Seq(Requests)
      BY DEF TypeInv
    <2>5. \A i \in DOMAIN inbox'[p] :
                \/ inbox'[p][i] = Request("collect", "events")
                \/ i \in DOMAIN inbox[p] /\ inbox'[p][i] = inbox[p][i]
      BY <2>3, <2>4, RequestTypes, SequenceFacts
    <2>6. Untouched(p) => Untouched(p)'
      BY <2>1, <2>2, <2>5, RequestFields DEF Untouched
    <2> QED BY <1>0, <2>1, <2>6, OwnFrame
  <1>8. CASE EventsStop
    <2>1. /\ proc'[p].up = proc[p].up /\ proc'[p].gen = proc[p].gen
          /\ proc'[p].own = proc[p].own /\ proc'[p].map = proc[p].map
      BY <1>8 DEF EventsStop, TypeInv, Processes
    <2>2. worker'["maps"] = worker["maps"] /\ UNCHANGED <<inbox, known, files>>
      BY <1>8 DEF EventsStop, Stops, Done, TypeInv, Trackers
    <2> QED BY <1>0, <2>1, <2>2, OwnFrame DEF Untouched
  <1>9. CASE MapsTakes
    <2>1. UNCHANGED <<proc, files, inbox, known>>
      BY <1>9 DEF MapsTakes, Takes
    <2>2. worker'["maps"] = worker["maps"] \/ worker'["maps"].at = "context"
      BY <1>9 DEF MapsTakes, TypeInv, Trackers
    <2> QED BY <1>0, <2>1, <2>2, OwnFrame DEF Untouched
  <1>10. CASE AsksForMap
    <2> DEFINE q == worker["maps"].pid
    <2>1. q \in Pids /\ UNCHANGED <<proc, files, known>>
      BY <1>10 DEF AsksForMap, TypeInv, Trackers
    <2>2. CASE worker' = Idle("maps") /\ UNCHANGED inbox
      <3>1. worker'["maps"].at = "recv"
        BY <2>2 DEF Idle, TypeInv, Trackers
      <3> QED BY <1>0, <2>1, <2>2, <3>1, OwnFrame DEF Untouched
    <2>3. CASE /\ Listens(q) /\ ~ HasPerfMapEnviron(q) /\ Waits("maps", q)
               /\ inbox' = [inbox EXCEPT ![q] =
                    @ \o <<Request("disable", NoOne), Request("enable", "maps")>>]
      <3>1. ~ Untouchable(q)
        <4>1. OwnAt(q)
          BY <2>1 DEF OwnInv
        <4> QED BY <2>3, <4>1 DEF Listens, HasPerfMapEnviron, Untouchable, OwnAt
      <3>2. worker'["maps"].pid = q
        BY <2>3 DEF Waits, TypeInv, Trackers
      <3>3. p # q => inbox'[p] = inbox[p]
        BY <2>1, <2>3 DEF TypeInv
      <3>4. Untouchable(p) => Untouched(p)'
        BY <1>0, <2>1, <3>1, <3>2, <3>3 DEF Untouched
      <3> QED BY <1>0, <2>1, <3>4, OwnFrame
    <2> QED BY <1>10, <2>2, <2>3 DEF AsksForMap
  <1>11. CASE MapsStop
    <2>1. UNCHANGED <<proc, files, known>> /\ worker'["maps"].at = "done"
      BY <1>11 DEF MapsStop, Stops, Done, TypeInv, Trackers
    <2>2. p \notin known["maps"] => inbox'[p] = inbox[p]
      BY <1>11 DEF MapsStop
    <2>3. Untouchable(p) => Untouched(p)'
      BY <1>0, <2>1, <2>2 DEF Untouched
    <2> QED BY <1>0, <2>1, <2>3, OwnFrame
  <1>12. ASSUME NEW q \in Pids, OpensSocket(q) \/ Marks(q) PROVE OwnAt(p)'
    <2>1. /\ proc'[p].up = proc[p].up /\ proc'[p].gen = proc[p].gen
          /\ proc'[p].own = proc[p].own /\ proc'[p].map = proc[p].map
      <3>1. CASE OpensSocket(q)
        BY <3>1 DEF OpensSocket, TypeInv, Processes
      <3>2. CASE Marks(q)
        BY <3>2 DEF Marks, TypeInv, Processes
      <3> QED BY <1>12, <3>1, <3>2
    <2>2. UNCHANGED <<worker, inbox, known, files>>
      BY <1>12 DEF OpensSocket, Marks, trackVars
    <2> QED BY <1>0, <2>1, <2>2, OwnFrame DEF Untouched
  <1>13. ASSUME NEW q \in Pids, NEW b \in BOOLEAN, ProcessStarts(q, b)
         PROVE  OwnAt(p)'
    <2>1. UNCHANGED <<worker, inbox, known>>
      BY <1>13 DEF ProcessStarts, trackVars
    <2>2. CASE p # q
      <3>1. proc'[p] = proc[p] /\ files'[p] = files[p]
        BY <1>13, <2>2 DEF ProcessStarts, TypeInv
      <3> QED BY <1>0, <2>1, <3>1, OwnFrame DEF Untouched
    <2>3. CASE p = q
      <3>1. /\ proc[p].gen \in Nat /\ proc'[p].gen = proc[p].gen + 1
            /\ proc'[p].own = b /\ proc'[p].map = b
        BY <1>13, <2>3 DEF ProcessStarts, TypeInv, Processes
      <3>2. b => files'[p] = "own"
        BY <1>13, <2>3 DEF ProcessStarts, TypeInv
      <3>3. Untouchable(p)' => Untouchable(p)
        BY <3>1 DEF Untouchable
      <3>4. Untouched(p) => Untouched(p)'
        BY <2>1 DEF Untouched
      <3> QED BY <1>0, <3>1, <3>2, <3>3, <3>4 DEF OwnAt
    <2> QED BY <2>2, <2>3
  <1>14. ASSUME NEW q \in Pids, NEW b \in BOOLEAN,
                \/ ServesDisable(q) \/ ServesEnable(q, b) \/ ServesCollect(q, b)
         PROVE  OwnAt(p)'
    <2>1. /\ inbox[q] # <<>> /\ inbox' = [inbox EXCEPT ![q] = Tail(@)]
          /\ UNCHANGED <<worker, known>>
      BY <1>14 DEF ServesDisable, ServesEnable, ServesCollect, trackVars
    <2>2. /\ proc'[p].up = proc[p].up /\ proc'[p].gen = proc[p].gen
          /\ proc'[p].own = proc[p].own
      <3>1. CASE ServesDisable(q)
        BY <3>1 DEF ServesDisable, TypeInv, Processes
      <3>2. CASE ServesEnable(q, b)
        BY <3>2 DEF ServesEnable, TypeInv, Processes
      <3>3. CASE ServesCollect(q, b)
        BY <3>3 DEF ServesCollect, TypeInv, Processes
      <3> QED BY <1>14, <3>1, <3>2, <3>3
    <2>3. ASSUME Untouched(p)
          PROVE  proc'[p].map = proc[p].map /\ files'[p] = files[p]
      <3>1. CASE p # q
        BY <1>14, <3>1 DEF ServesDisable, ServesEnable, ServesCollect, TypeInv
      <3>2. CASE p = q
        <4>1. Head(inbox[q]).cmd = "collect"
          BY <2>1, <2>3, <3>2, InboxTail, ZenonT(40) DEF Untouched
        <4>2. ServesCollect(q, b)
          BY <1>14, <4>1 DEF ServesDisable, ServesEnable
        <4> QED BY <4>2 DEF ServesCollect, TypeInv, Processes
      <3> QED BY <3>1, <3>2
    <2>4. Untouched(p) => Untouched(p)'
      <3>1. CASE p # q
        BY <2>1, <3>1, InboxTail DEF Untouched
      <3>2. CASE p = q
        <4>1. \A i \in DOMAIN inbox'[p] :
                    i + 1 \in DOMAIN inbox[p] /\ inbox'[p][i] = inbox[p][i + 1]
          BY <2>1, <3>2, InboxTail
        <4> QED BY <2>1, <4>1 DEF Untouched
      <3> QED BY <3>1, <3>2
    <2> QED BY <1>0, <2>2, <2>3, <2>4, OwnFrame
  <1>15. ASSUME NEW q \in Pids, Exits(q) PROVE OwnAt(p)'
    <2>1. UNCHANGED <<worker, known, files>>
      BY <1>15 DEF Exits
    <2>2. CASE p # q
      <3>1. proc'[p] = proc[p] /\ inbox'[p] = inbox[p]
        BY <1>15, <2>2 DEF Exits, TypeInv
      <3> QED BY <1>0, <2>1, <3>1, OwnFrame DEF Untouched
    <2>3. CASE p = q
      <3>1. proc'[p].gen = proc[p].gen /\ ~ proc'[p].up
        BY <1>15, <2>3 DEF Exits, NoProcess, TypeInv
      <3>2. proc[p].gen # 0
        BY <1>0, <1>15, <2>3 DEF Exits, OwnAt
      <3> QED BY <3>1, <3>2 DEF OwnAt, Untouchable
    <2> QED BY <2>2, <2>3
  <1> QED BY <1>1, <1>2, <1>3, <1>4, <1>5, <1>6, <1>7, <1>8, <1>9, <1>10, <1>11,
             <1>12, <1>13, <1>14, <1>15, Steps

-----------------------------------------------------------------------------
(* The maps worker and what it turned on.                                  *)

LEMMA MapsRequests ==
    /\ Request("collect", "events").cmd \notin {"enable", "disable"}
    /\ Request("collect", "events").by # "maps"
    /\ Request("disable", NoOne).cmd = "disable"
    /\ Request("disable", NoOne).by # "maps"
    /\ Request("enable", "maps").cmd = "enable"
    /\ Request("enable", "maps").by = "maps"
  BY DEF Request, NoOne

(* The last element of a sequence that gains or loses one.                 *)
LEMMA AppendLast ==
    ASSUME NEW S, NEW s \in Seq(S), NEW e \in S
    PROVE  Append(s, e) # <<>> /\ Last(Append(s, e)) = e
  <1>1. /\ Append(s, e) \in Seq(S) /\ Len(Append(s, e)) = Len(s) + 1
        /\ Append(s, e)[Len(s) + 1] = e /\ Len(s) \in Nat
    OBVIOUS
  <1>2. Append(s, e) # <<>>
    BY <1>1
  <1> QED BY <1>1, <1>2 DEF Last

LEMMA Emptiness ==
    ASSUME NEW S, NEW s \in Seq(S)
    PROVE  s = <<>> <=> Len(s) = 0
  OBVIOUS

LEMMA TailLast ==
    ASSUME NEW S, NEW s \in Seq(S), s # <<>>
    PROVE  /\ Tail(s) # <<>> => Last(Tail(s)) = Last(s)
           /\ Tail(s) = <<>> => Last(s) = Head(s)
  <1>1. /\ Len(Tail(s)) = Len(s) - 1 /\ Len(s) \in Nat \ {0}
        /\ Tail(s) \in Seq(S)
        /\ \A i \in 1 .. Len(s) - 1 : Tail(s)[i] = s[i + 1]
        /\ Head(s) = s[1]
    OBVIOUS
  <1>2. Tail(s) = <<>> <=> Len(Tail(s)) = 0
    BY <1>1, Emptiness
  <1>3. Tail(s) = <<>> <=> Len(s) = 1
    BY <1>1, <1>2
  <1> QED BY <1>1, <1>2, <1>3 DEF Last

(* Where two elements more are.                                            *)
LEMMA PairFacts ==
    ASSUME NEW S, NEW s \in Seq(S), NEW e \in S, NEW f \in S,
           NEW i \in DOMAIN (s \o <<e, f>>)
    PROVE  \/ i = Len(s) + 1 /\ (s \o <<e, f>>)[i] = e
           \/ i = Len(s) + 2 /\ (s \o <<e, f>>)[i] = f
           \/ i \in DOMAIN s /\ (s \o <<e, f>>)[i] = s[i]
  <1>1. i \in 1 .. Len(s) + 2 /\ Len(s) \in Nat
    OBVIOUS
  <1>2. CASE i = Len(s) + 1
    BY <1>2
  <1>3. CASE i = Len(s) + 2
    BY <1>3
  <1>4. CASE i \in 1 .. Len(s)
    BY <1>4
  <1> QED BY <1>1, <1>2, <1>3, <1>4

(* A step that neither asks a process anything nor answers for it.         *)
LEMMA MapFrame ==
    ASSUME NEW p \in Pids, MapAt(p),
           inbox'[p] = inbox[p],
           Turned(p)' = Turned(p),
           Listens(p) => Listens(p)',
           files'[p] = "ours" => files[p] = "ours",
           Asking(p) => Asking(p)',
           Accounted(p) => Accounted(p)',
           worker'["maps"].at = "done" => worker["maps"].at = "done"
    PROVE  MapAt(p)'
  BY DEF MapAt, Enabling, LastDisables

(* The special case of a maps worker that stays where it is.               *)
LEMMA MapSame ==
    ASSUME NEW p \in Pids, MapAt(p),
           inbox'[p] = inbox[p],
           Turned(p)' = Turned(p),
           Listens(p) => Listens(p)',
           files'[p] = "ours" => files[p] = "ours",
           worker'["maps"] = worker["maps"], reply'["maps"] = reply["maps"],
           known'["maps"] = known["maps"]
    PROVE  MapAt(p)'
  <1>1. (Asking(p) => Asking(p)') /\ (Accounted(p) => Accounted(p)')
    BY DEF Asking, Accounted
  <1> QED BY <1>1, MapFrame

(* Requests that are put behind those an inbox holds, none of them to      *)
(* enable a map.                                                           *)
LEMMA MapAppend ==
    ASSUME TypeInv, NEW p \in Pids, MapAt(p), NEW r \in Requests,
           r.cmd # "enable", r.by # "maps",
           inbox'[p] = Append(inbox[p], r)
    PROVE  /\ \A i \in DOMAIN inbox'[p] :
                    inbox'[p][i].by = "maps" <=> inbox'[p][i].cmd = "enable"
           /\ Enabling(p)' \subseteq Enabling(p)
  <1>1. inbox[p] \in Seq(Requests)
    BY DEF TypeInv
  <1>2. \A i \in DOMAIN inbox'[p] :
            \/ inbox'[p][i] = r
            \/ i \in DOMAIN inbox[p] /\ inbox'[p][i] = inbox[p][i]
    BY <1>1, SequenceFacts
  <1> QED BY <1>2 DEF MapAt, Enabling

(* Every step keeps what is said of the maps worker.                       *)
LEMMA MapsStep ==
    TypeInv /\ EventsInv /\ ControlInv /\ StopControl /\ MapsInv /\ [Next]_vars
        => MapsInv'
  <1> SUFFICES ASSUME TypeInv, EventsInv, ControlInv, StopControl, MapsInv,
                      [Next]_vars, NEW p \in Pids
               PROVE  MapAt(p)'
    BY DEF MapsInv
  <1>0. TypeInv' /\ MapAt(p)
    BY TypeStep DEF MapsInv
  <1>1. CASE Quiet
    BY <1>0, <1>1, MapSame DEF Quiet, Turned, Listens
  <1>2. CASE Builds
    <2>1. worker["maps"].at = "none" /\ known["maps"] = {}
      BY <1>2 DEF Builds, StopControl
    <2>2. worker'["maps"].at = "recv"
      BY <1>2 DEF Builds, Trackers
    <2>3. ~ Asking(p) /\ ~ Accounted(p)
      BY <2>1 DEF Asking, Accounted
    <2>4. UNCHANGED <<inbox, proc, files>>
      BY <1>2 DEF Builds, procVars
    <2> QED BY <1>0, <2>2, <2>3, <2>4, MapFrame DEF Turned, Listens
  <1>3. ASSUME NEW cancel \in BOOLEAN, ParsesRecord(cancel) PROVE MapAt(p)'
    BY <1>0, <1>3, MapSame DEF ParsesRecord, procVars, Turned, Listens
  <1>4. ASSUME CleansUpFailed \/ Exports PROVE MapAt(p)'
    <2>1. UNCHANGED <<proc, inbox, known, worker, reply>>
      BY <1>4 DEF CleansUpFailed, Exports, trackVars
    <2>2. RemovePerfMaps \/ UNCHANGED files
      BY <1>4 DEF CleansUpFailed, Exports, RunDropHooks
    <2>3. files'[p] = "ours" => files[p] = "ours"
      BY <2>2 DEF RemovePerfMaps
    <2> QED BY <1>0, <2>1, <2>3, MapSame DEF Turned, Listens
  <1>5. ASSUME StopsEvents \/ JoinsEvents PROVE MapAt(p)'
    BY <1>0, <1>5, MapSame DEF StopsEvents, JoinsEvents, procVars, Turned, Listens
  <1>6. ASSUME NEW t \in Trackers, ReadsAnswer(t) PROVE MapAt(p)'
    <2>1. UNCHANGED <<proc, inbox, files>>
      BY <1>6 DEF ReadsAnswer, procVars
    <2>2. CASE t = "events"
      <3>1. /\ worker'["maps"] = worker["maps"] /\ reply'["maps"] = reply["maps"]
            /\ known'["maps"] = known["maps"]
        BY <1>6, <2>2 DEF ReadsAnswer, Idle, TypeInv, Trackers
      <3> QED BY <1>0, <2>1, <3>1, MapSame DEF Turned, Listens
    <2>3. CASE t = "maps"
      <3>1. /\ worker'["maps"].at = "recv" /\ reply["maps"] # "asked"
            /\ known'["maps"] = IF reply["maps"] = "ok"
                    THEN known["maps"] \cup {worker["maps"].pid}
                    ELSE known["maps"]
        BY <1>6, <2>3 DEF ReadsAnswer, Idle, TypeInv, Trackers
      <3>2. ~ Asking(p) /\ (Accounted(p) => Accounted(p)')
        BY <3>1 DEF Asking, Accounted
      <3> QED BY <1>0, <2>1, <3>1, <3>2, MapFrame DEF Turned, Listens
    <2> QED BY <2>2, <2>3 DEF Trackers
  <1>7. CASE EventsTakes
    <2> DEFINE q == Head(chan["events"])
    <2>1. q \in Pids /\ UNCHANGED <<proc, files, known>>
      BY <1>7 DEF EventsTakes, Takes, TypeInv, Trackers
    <2>2. worker'["maps"] = worker["maps"] /\ reply'["maps"] = reply["maps"]
      BY <1>7 DEF EventsTakes, Waits, TypeInv, Trackers
    <2>3. worker["maps"].at # "done"
      <3>1. Alive
        BY <1>7 DEF EventsTakes, Takes, Alive
      <3> QED BY <3>1 DEF ControlInv, StopControl
    <2>4. CASE inbox'[p] = inbox[p]
      BY <1>0, <2>1, <2>2, <2>4, MapSame DEF Turned, Listens
    <2>5. CASE /\ Listens(p)
               /\ inbox'[p] = Append(inbox[p], Request("collect", "events"))
      <3>1. /\ \A i \in DOMAIN inbox'[p] :
                    inbox'[p][i].by = "maps" <=> inbox'[p][i].cmd = "enable"
            /\ Enabling(p)' \subseteq Enabling(p)
        BY <1>0, <2>5, RequestTypes, MapsRequests, MapAppend
      <3>2. /\ Listens(p)' /\ (Turned(p)' <=> Turned(p))
            /\ (Asking(p)' <=> Asking(p)) /\ (Accounted(p)' <=> Accounted(p))
        BY <2>1, <2>2, <2>5 DEF Listens, Turned, Asking, Accounted
      <3> QED BY <1>0, <2>1, <2>2, <2>3, <3>1, <3>2 DEF MapAt
    <2>6. \/ inbox'[p] = inbox[p]
          \/ Listens(p) /\ inbox'[p] = Append(inbox[p], Request("collect", "events"))
      BY <1>7, <2>1 DEF EventsTakes, TypeInv
    <2> QED BY <2>4, <2>5, <2>6
  <1>8. CASE EventsStop
    <2>1. /\ proc'[p].up = proc[p].up /\ proc'[p].sock = proc[p].sock
          /\ proc'[p].own = proc[p].own /\ proc'[p].map = proc[p].map
      BY <1>8 DEF EventsStop, TypeInv, Processes
    <2>2. worker'["maps"] = worker["maps"] /\ UNCHANGED <<inbox, known, reply, files>>
      BY <1>8 DEF EventsStop, Stops, Done, TypeInv, Trackers
    <2> QED BY <1>0, <2>1, <2>2, MapSame DEF Turned, Listens
  <1>9. CASE MapsTakes
    <2>1. UNCHANGED <<proc, files, inbox, known, reply>>
      BY <1>9 DEF MapsTakes, Takes
    <2>2. CASE worker' = worker
      BY <1>0, <2>1, <2>2, MapSame DEF Turned, Listens
    <2>3. CASE worker'["maps"].at = "context"
      <3>1. worker["maps"].at = "recv"
        BY <1>9 DEF MapsTakes, Takes
      <3>2. ~ Asking(p) /\ (Accounted(p) => Accounted(p)')
        BY <2>1, <3>1 DEF Asking, Accounted
      <3> QED BY <1>0, <2>1, <2>3, <3>2, MapFrame DEF Turned, Listens
    <2>4. worker' = worker \/ worker'["maps"].at = "context"
      BY <1>9 DEF MapsTakes, TypeInv, Trackers
    <2> QED BY <2>2, <2>3, <2>4
  <1>10. CASE AsksForMap
    <2> DEFINE q == worker["maps"].pid
               e == Request("disable", NoOne)
               f == Request("enable", "maps")
    <2>1. /\ q \in Pids /\ worker["maps"].at = "context"
          /\ UNCHANGED <<proc, files, known>>
      BY <1>10 DEF AsksForMap, TypeInv, Trackers
    <2>2. ~ Asking(p) /\ (Accounted(p) => Accounted(p)')
      BY <2>1 DEF Asking, Accounted
    <2>3. worker'["maps"].at # "done"
      BY <1>10 DEF AsksForMap, Waits, Idle, TypeInv, Trackers
    <2>4. CASE inbox'[p] = inbox[p]
      BY <1>0, <2>1, <2>2, <2>3, <2>4, MapFrame DEF Turned, Listens
    <2>5. CASE /\ p = q /\ Listens(p) /\ Waits("maps", p)
               /\ inbox'[p] = inbox[p] \o <<e, f>>
      <3>1. inbox[p] \in Seq(Requests) /\ Enabling(p) = {}
        BY <1>0, <2>2 DEF TypeInv, MapAt
      <3>2. \A i \in DOMAIN inbox'[p] :
                \/ i = Len(inbox[p]) + 1 /\ inbox'[p][i] = e
                \/ i = Len(inbox[p]) + 2 /\ inbox'[p][i] = f
                \/ i \in DOMAIN inbox[p] /\ inbox'[p][i] = inbox[p][i]
        <4>1. e \in Requests /\ f \in Requests
          BY RequestTypes
        <4> HIDE DEF e, f
        <4> DEFINE s == inbox[p]
        <4>2. s \in Seq(Requests)
          BY <3>1
        <4> HIDE DEF s
        <4>3. \A i \in DOMAIN (s \o <<e, f>>) :
                \/ i = Len(s) + 1 /\ (s \o <<e, f>>)[i] = e
                \/ i = Len(s) + 2 /\ (s \o <<e, f>>)[i] = f
                \/ i \in DOMAIN s /\ (s \o <<e, f>>)[i] = s[i]
          BY <4>1, <4>2, PairFacts
        <4>4. inbox'[p] = s \o <<e, f>>
          BY <2>5 DEF s
        <4> QED BY <4>3, <4>4, Zenon DEF s
      <3>3. /\ \A i \in DOMAIN inbox'[p] :
                    inbox'[p][i].by = "maps" <=> inbox'[p][i].cmd = "enable"
            /\ \A i \in Enabling(p)' : i = Len(inbox[p]) + 2
        BY <1>0, <3>1, <3>2, MapsRequests DEF MapAt, Enabling
      <3>4. Asking(p)'
        BY <2>5 DEF Waits, Asking, TypeInv, Trackers
      <3>5. Listens(p)' /\ (Turned(p)' <=> Turned(p))
        BY <2>1, <2>5 DEF Listens, Turned
      <3> QED BY <1>0, <2>1, <2>2, <2>3, <3>3, <3>4, <3>5 DEF MapAt
    <2>6. \/ inbox'[p] = inbox[p]
          \/ /\ p = q /\ Listens(p) /\ Waits("maps", p)
             /\ inbox'[p] = inbox[p] \o <<e, f>>
      BY <1>10, <2>1 DEF AsksForMap, TypeInv
    <2> QED BY <2>4, <2>5, <2>6
  <1>11. CASE MapsStop
    <2>1. /\ UNCHANGED <<proc, files, known, reply>>
          /\ worker["maps"].at = "recv" /\ worker'["maps"].at = "done"
      BY <1>11 DEF MapsStop, Stops, Done, TypeInv, Trackers
    <2>2. /\ ~ Asking(p) /\ (Accounted(p) => p \in known["maps"])
          /\ (Accounted(p) => Accounted(p)')
      BY <2>1 DEF Asking, Accounted
    <2>3. (Listens(p)' <=> Listens(p)) /\ (Turned(p)' <=> Turned(p))
      BY <2>1 DEF Listens, Turned
    <2>4. CASE p \in known["maps"] /\ Listens(p)
      <3>1. inbox'[p] = Append(inbox[p], Request("disable", NoOne))
        BY <1>11, <2>4 DEF MapsStop
      <3>2. /\ \A i \in DOMAIN inbox'[p] :
                    inbox'[p][i].by = "maps" <=> inbox'[p][i].cmd = "enable"
            /\ Enabling(p)' \subseteq Enabling(p)
        BY <1>0, <3>1, RequestTypes, MapsRequests, MapAppend
      <3>3. LastDisables(p)'
        <4>1. inbox[p] \in Seq(Requests)
          BY DEF TypeInv
        <4>2. inbox'[p] # <<>> /\ Last(inbox'[p]) = Request("disable", NoOne)
          BY <3>1, <4>1, RequestTypes, AppendLast
        <4> QED BY <4>2, MapsRequests DEF LastDisables
      <3> QED BY <1>0, <2>1, <2>2, <2>3, <2>4, <3>2, <3>3 DEF MapAt
    <2>5. CASE ~ (p \in known["maps"] /\ Listens(p))
      <3>1. inbox'[p] = inbox[p]
        BY <1>11, <2>5 DEF MapsStop
      <3>2. ~ Turned(p)
        BY <1>0, <2>2, <2>5 DEF MapAt
      <3> QED BY <1>0, <2>1, <2>2, <2>3, <3>1, <3>2 DEF MapAt, Enabling
    <2> QED BY <2>4, <2>5
  <1>12. ASSUME NEW q \in Pids, OpensSocket(q) \/ Marks(q) PROVE MapAt(p)'
    <2>1. /\ proc'[p].up = proc[p].up /\ (proc[p].sock => proc'[p].sock)
          /\ proc'[p].own = proc[p].own /\ proc'[p].map = proc[p].map
      <3>1. CASE OpensSocket(q)
        BY <3>1 DEF OpensSocket, TypeInv, Processes
      <3>2. CASE Marks(q)
        BY <3>2 DEF Marks, TypeInv, Processes
      <3> QED BY <1>12, <3>1, <3>2
    <2>2. UNCHANGED <<worker, inbox, known, files, reply>>
      BY <1>12 DEF OpensSocket, Marks, trackVars
    <2> QED BY <1>0, <2>1, <2>2, MapSame DEF Turned, Listens
  <1>13. ASSUME NEW q \in Pids, NEW b \in BOOLEAN, ProcessStarts(q, b)
         PROVE  MapAt(p)'
    <2>1. UNCHANGED <<worker, inbox, known, reply>>
      BY <1>13 DEF ProcessStarts, trackVars
    <2>2. CASE p # q
      <3>1. proc'[p] = proc[p] /\ files'[p] = files[p]
        BY <1>13, <2>2 DEF ProcessStarts, TypeInv
      <3> QED BY <1>0, <2>1, <3>1, MapSame DEF Turned, Listens
    <2>3. CASE p = q
      <3>1. ~ proc[p].up /\ proc'[p].own = b /\ proc'[p].map = b
        BY <1>13, <2>3 DEF ProcessStarts, TypeInv, Processes
      <3>2. inbox[p] = <<>> /\ ~ Turned(p) /\ ~ Turned(p)'
        BY <1>0, <3>1 DEF MapAt, Listens, Turned
      <3>3. files'[p] = "ours" => files[p] = "ours"
        BY <1>13, <2>3 DEF ProcessStarts, TypeInv
      <3>4. (Asking(p)' <=> Asking(p)) /\ (Accounted(p)' <=> Accounted(p))
        BY <2>1 DEF Asking, Accounted
      <3> QED BY <1>0, <2>1, <3>2, <3>3, <3>4 DEF MapAt, Enabling
    <2> QED BY <2>2, <2>3
  <1>14. ASSUME NEW q \in Pids, NEW b \in BOOLEAN,
                \/ ServesDisable(q) \/ ServesEnable(q, b) \/ ServesCollect(q, b)
         PROVE  MapAt(p)'
    <2>1. /\ inbox[q] # <<>> /\ inbox' = [inbox EXCEPT ![q] = Tail(@)]
          /\ UNCHANGED <<worker, known>>
      BY <1>14 DEF ServesDisable, ServesEnable, ServesCollect, trackVars
    <2>2. /\ proc'[p].up = proc[p].up /\ proc'[p].sock = proc[p].sock
          /\ proc'[p].own = proc[p].own
      <3>1. CASE ServesDisable(q)
        BY <3>1 DEF ServesDisable, TypeInv, Processes
      <3>2. CASE ServesEnable(q, b)
        BY <3>2 DEF ServesEnable, TypeInv, Processes
      <3>3. CASE ServesCollect(q, b)
        BY <3>3 DEF ServesCollect, TypeInv, Processes
      <3> QED BY <1>14, <3>1, <3>2, <3>3
    <2>3. ASSUME ServesEnable(q, b) PROVE Asking(q) /\ 1 \in Enabling(q)
      <3>1. 1 \in Enabling(q)
        BY <2>1, <2>3, InboxTail DEF ServesEnable, Enabling
      <3> QED BY <3>1 DEF MapsInv, MapAt
    <2>4. ~ ServesEnable(q, b) => reply'["maps"] = reply["maps"]
      BY <1>14 DEF ServesDisable, ServesCollect, trackVars, TypeInv, Trackers
    <2>5. CASE p # q
      <3>1. /\ inbox'[p] = inbox[p] /\ proc'[p].map = proc[p].map
            /\ files'[p] = files[p]
        BY <1>14, <2>5 DEF ServesDisable, ServesEnable, ServesCollect, TypeInv
      <3>2. ServesEnable(q, b) => reply["maps"] = "asked" /\ worker["maps"].pid = q
        BY <2>3 DEF Asking
      <3>3. (Asking(p) => Asking(p)') /\ (Accounted(p) => Accounted(p)')
        BY <2>1, <2>4, <2>5, <3>2 DEF Asking, Accounted
      <3> QED BY <1>0, <2>1, <2>2, <3>1, <3>3, MapFrame DEF Turned, Listens
    <2>6. CASE p = q
      <3>1. \A i \in DOMAIN inbox'[p] :
                i + 1 \in DOMAIN inbox[p] /\ inbox'[p][i] = inbox[p][i + 1]
        BY <2>1, <2>6, InboxTail
      <3>2. inbox[p] \in Seq(Requests) /\ inbox'[p] = Tail(inbox[p])
        BY <2>1, <2>6 DEF TypeInv
      <3>3. /\ \A i \in DOMAIN inbox'[p] :
                    inbox'[p][i].by = "maps" <=> inbox'[p][i].cmd = "enable"
            /\ \A i \in Enabling(p)' : i \in Nat \ {0} /\ i + 1 \in Enabling(p)
        <4>1. \A i \in DOMAIN inbox'[p] : i \in Nat \ {0}
          BY <1>0 DEF TypeInv
        <4> QED BY <1>0, <3>1, <4>1 DEF MapAt, Enabling
      <3>4. \A i, j \in Enabling(p)' : i = j
        <4>1. \A i, j \in Enabling(p)' : i + 1 = j + 1 /\ i \in Nat /\ j \in Nat
          BY <1>0, <3>3 DEF MapAt
        <4> QED BY <4>1
      <3>5. Listens(p)'
        BY <1>0, <2>1, <2>2, <2>6 DEF MapAt, Listens
      <3>6. Enabling(p)' # {} => Asking(p)'
        <4>1. CASE ServesEnable(q, b)
          <5>1. \A i \in Enabling(p) : i = 1
            BY <1>0, <2>3, <2>6, <4>1 DEF MapAt
          <5>2. Enabling(p)' = {}
            BY <3>3, <5>1
          <5> QED BY <5>2
        <4>2. CASE ~ ServesEnable(q, b)
          BY <1>0, <2>1, <2>4, <3>3, <4>2 DEF MapAt, Asking
        <4> QED BY <4>1, <4>2
      <3>7. files'[p] = "ours" \/ Turned(p)' => Accounted(p)'
        <4>1. CASE ServesEnable(q, b)
          <5>1. CASE b
            <6>1. reply'["maps"] = "ok"
              BY <4>1, <5>1 DEF ServesEnable, TypeInv, Trackers
            <6> QED BY <2>1, <2>3, <2>6, <4>1, <6>1 DEF Asking, Accounted
          <5>2. CASE ~ b
            <6>1. files'[p] = files[p] /\ proc'[p].map = proc[p].map
              BY <2>6, <4>1, <5>2 DEF ServesEnable, TypeInv, Processes
            <6>2. Accounted(p) => Accounted(p)'
              BY <2>1, <2>3, <4>1 DEF Accounted, Asking
            <6> QED BY <1>0, <2>2, <6>1, <6>2 DEF MapAt, Turned
          <5> QED BY <5>1, <5>2
        <4>2. CASE ServesDisable(q) \/ ServesCollect(q, b)
          <5>1. files' = files /\ (proc'[p].map => proc[p].map)
            <6>1. CASE ServesDisable(q)
              BY <2>6, <6>1 DEF ServesDisable, TypeInv, Processes
            <6>2. CASE ServesCollect(q, b)
              BY <2>6, <6>2 DEF ServesCollect, TypeInv, Processes
            <6> QED BY <4>2, <6>1, <6>2
          <5>2. ~ ServesEnable(q, b)
            BY <4>2 DEF ServesDisable, ServesCollect, ServesEnable
          <5>3. Accounted(p) => Accounted(p)'
            BY <2>1, <2>4, <5>2 DEF Accounted
          <5> QED BY <1>0, <2>2, <5>1, <5>3 DEF MapAt, Turned
        <4> QED BY <1>14, <4>1, <4>2
      <3>8. ASSUME worker'["maps"].at = "done", Turned(p)' PROVE LastDisables(p)'
        <4>1. ~ ServesEnable(q, b)
          BY <2>1, <2>3, <3>8 DEF Asking
        <4>2. ~ ServesDisable(q)
          BY <2>6, <3>8 DEF ServesDisable, Turned, TypeInv, Processes
        <4>3. ServesCollect(q, b)
          BY <1>14, <4>1, <4>2
        <4>4. Turned(p)
          BY <3>8, <2>6, <4>3 DEF ServesCollect, Turned, TypeInv, Processes
        <4>5. LastDisables(p)
          BY <1>0, <2>1, <3>8, <4>4 DEF MapAt
        <4>6. Head(inbox[p]).cmd # "disable"
          BY <2>6, <4>3 DEF ServesCollect
        <4>7. Tail(inbox[p]) # <<>>
          <5>1. Tail(inbox[p]) = <<>> => Last(inbox[p]) = Head(inbox[p])
            BY <3>2, <4>5, TailLast DEF LastDisables
          <5> QED BY <4>5, <4>6, <5>1 DEF LastDisables
        <4>8. Last(Tail(inbox[p])) = Last(inbox[p])
          BY <3>2, <4>5, <4>7, TailLast DEF LastDisables
        <4> QED BY <3>2, <4>5, <4>7, <4>8 DEF LastDisables
      <3> QED BY <3>3, <3>4, <3>5, <3>6, <3>7, <3>8 DEF MapAt
    <2> QED BY <2>5, <2>6
  <1>15. ASSUME NEW q \in Pids, Exits(q) PROVE MapAt(p)'
    <2>1. UNCHANGED <<worker, known, files>>
      BY <1>15 DEF Exits
    <2>2. reply["maps"] # "asked" => reply'["maps"] = reply["maps"]
      BY <1>15 DEF Exits, Trackers
    <2>3. Accounted(p) => Accounted(p)'
      BY <2>1, <2>2 DEF Accounted
    <2>4. CASE p # q
      <3>1. proc'[p] = proc[p] /\ inbox'[p] = inbox[p]
        BY <1>15, <2>4 DEF Exits, TypeInv
      <3>2. ASSUME Asking(p) PROVE Asking(p)'
        <4>1. ~ Asking(q)
          BY <2>4, <3>2 DEF Asking
        <4>2. ~ \E i \in DOMAIN inbox[q] : inbox[q][i].by = "maps"
          BY <4>1 DEF MapsInv, MapAt, Enabling
        <4>3. reply'["maps"] = reply["maps"]
          BY <1>15, <4>2 DEF Exits, Trackers
        <4> QED BY <2>1, <3>2, <4>3 DEF Asking
      <3> QED BY <1>0, <2>1, <2>3, <3>1, <3>2, MapFrame DEF Turned, Listens
    <2>5. CASE p = q
      <3>1. inbox'[p] = <<>> /\ ~ proc'[p].map
        BY <1>15, <2>5 DEF Exits, NoProcess, TypeInv
      <3>2. Enabling(p)' = {} /\ ~ Turned(p)'
        BY <3>1 DEF Enabling, Turned
      <3> QED BY <1>0, <2>1, <2>3, <3>1, <3>2 DEF MapAt
    <2> QED BY <2>4, <2>5
  <1> QED BY <1>1, <1>2, <1>3, <1>4, <1>5, <1>6, <1>7, <1>8, <1>9, <1>10, <1>11,
             <1>12, <1>13, <1>14, <1>15, Steps

(* Only Builds starts the maps worker, only MapsStop ends it.              *)
LEMMA MapsWorkerLife ==
    ASSUME TypeInv, [Next]_vars, ~ Builds
    PROVE  /\ worker["maps"].at = "none" =>
                    worker'["maps"].at = "none" /\ known'["maps"] = known["maps"]
           /\ worker["maps"].at = "done" => worker'["maps"].at = "done"
           /\ worker'["maps"].at = "done" => worker["maps"].at = "done" \/ MapsStop
  <1>1. CASE UNCHANGED <<worker, known>>
    BY <1>1
  <1>2. ASSUME NEW t \in Trackers, ReadsAnswer(t)
        PROVE  \/ /\ worker'["maps"] = worker["maps"]
                  /\ known'["maps"] = known["maps"]
               \/ worker["maps"].at = "answer" /\ worker'["maps"].at = "recv"
    BY <1>2 DEF ReadsAnswer, Idle, TypeInv, Trackers
  <1>3. CASE EventsTakes \/ EventsStop
    <2>1. worker'["maps"] = worker["maps"] /\ UNCHANGED known
      BY <1>3 DEF EventsTakes, EventsStop, Waits, Stops, Done, TypeInv, Trackers
    <2> QED BY <2>1
  <1>4. CASE MapsTakes
    <2>1. worker["maps"].at = "recv" /\ worker'["maps"].at \in {"recv", "context"}
      BY <1>4 DEF MapsTakes, Takes, TypeInv, Trackers
    <2> QED BY <2>1
  <1>5. CASE AsksForMap
    <2>1. worker["maps"].at = "context" /\ worker'["maps"].at \in {"recv", "answer"}
      BY <1>5 DEF AsksForMap, Waits, Idle, TypeInv, Trackers
    <2> QED BY <2>1
  <1>6. CASE MapsStop
    BY <1>6 DEF MapsStop, Stops
  <1>7. \/ UNCHANGED <<worker, known>> \/ EventsTakes \/ EventsStop \/ MapsTakes
        \/ AsksForMap \/ MapsStop \/ \E t \in Trackers : ReadsAnswer(t)
    BY Steps, ZenonT(40) DEF Quiet, ParsesRecord, CleansUpFailed, StopsEvents, JoinsEvents,
                 Exports, ServesDisable, OpensSocket, Marks, Exits,
                 ServesEnable, ServesCollect, ProcessStarts, trackVars
  <1> QED BY <1>1, <1>2, <1>3, <1>4, <1>5, <1>6, <1>7

(* JoinsEvents alone sends the stop.                                       *)
LEMMA StopLife ==
    ASSUME TypeInv, [Next]_vars, StopSent'
    PROVE  StopSent \/ JoinsEvents
  <1>0. chan["maps"] \in Seq(Pids \cup {Stop}) /\ Stop \notin Pids
    BY StopAssumption DEF TypeInv, Trackers
  <1>1. CASE chan'["maps"] = chan["maps"]
    BY <1>1 DEF StopSent
  <1>2. ASSUME NEW cancel \in BOOLEAN, ParsesRecord(cancel) PROVE StopSent
    <2>1. Head(ring) \in Pids
      BY <1>2 DEF ParsesRecord, TypeInv
    <2>2. chan'["maps"] = Append(chan["maps"], Head(ring))
      BY <1>2 DEF ParsesRecord, Tracked, Trackers
    <2>3. \A i \in DOMAIN chan'["maps"] :
              \/ chan'["maps"][i] = Head(ring)
              \/ i \in DOMAIN chan["maps"] /\ chan'["maps"][i] = chan["maps"][i]
      BY <1>0, <2>1, <2>2, SequenceFacts
    <2> QED BY <1>0, <2>1, <2>3 DEF StopSent
  <1>3. CASE StopsEvents
    <2>1. chan'["maps"] = chan["maps"]
      BY <1>3 DEF StopsEvents, SendsStop, TypeInv, Trackers
    <2> QED BY <1>1, <2>1
  <1>4. CASE EventsTakes \/ EventsStop
    <2>1. chan'["maps"] = chan["maps"]
      BY <1>4 DEF EventsTakes, EventsStop, Takes, Stops, TypeInv, Trackers
    <2> QED BY <1>1, <2>1
  <1>5. CASE MapsTakes \/ MapsStop
    <2>1. chan["maps"] # <<>> /\ chan'["maps"] = Tail(chan["maps"])
      BY <1>5 DEF MapsTakes, MapsStop, Takes, Stops, TypeInv, Trackers
    <2>2. \A i \in DOMAIN chan'["maps"] :
              i + 1 \in DOMAIN chan["maps"] /\ chan'["maps"][i] = chan["maps"][i + 1]
      BY <1>0, <2>1, TailFacts
    <2> QED BY <2>2 DEF StopSent
  <1>6. \/ UNCHANGED chan \/ EventsTakes \/ EventsStop \/ MapsTakes \/ MapsStop
        \/ StopsEvents \/ JoinsEvents \/ \E cancel \in BOOLEAN : ParsesRecord(cancel)
    BY Steps, ZenonT(40) DEF Quiet, Builds, CleansUpFailed, Exports, ReadsAnswer, AsksForMap,
                 ServesDisable, OpensSocket, Marks, Exits, ServesEnable,
                 ServesCollect, ProcessStarts, trackVars
  <1> QED BY <1>1, <1>2, <1>3, <1>4, <1>5, <1>6

(* How Recorder::run moves: it goes back to nothing it has left.           *)
LEMMA PcSteps ==
    ASSUME [Next]_vars, pc' # pc
    PROVE  \/ pc = "start" /\ pc' = "build"
           \/ RunRefuses \/ BuildFails \/ Builds
           \/ /\ pc \in {"enable", "record", "disable", "join_env", "parse_all",
                         "cleanup_failed", "drop_session"}
              /\ pc' \in {"record", "disable", "join_env", "parse_all",
                          "cleanup_failed", "drop_session", "join_events"}
           \/ JoinsEvents \/ JoinsMaps \/ JoinsMonitor \/ Exports
  <1>1. MainStep
    BY NextKeepsPc
  <1>2. CASE \E script, limit \in BOOLEAN : RunStarts(script, limit)
    BY <1>2 DEF RunStarts, Go
  <1>3. CASE \/ Enables \/ LoopFails \/ UntilStops \/ Disables \/ JoinsEnv
             \/ RunsParsedHooks \/ CleansUpFailed \/ StopsEvents
    BY <1>3 DEF Enables, LoopFails, UntilStops, Disables, JoinsEnv,
                RunsParsedHooks, CleansUpFailed, StopsEvents, Go
  <1>4. \A cancel \in BOOLEAN : ~ ParsesRecord(cancel)
    BY DEF ParsesRecord
  <1> QED BY <1>1, <1>2, <1>3, <1>4 DEF MainStep

(* Every step keeps where the maps worker is.                              *)
LEMMA StopStep ==
    TypeInv /\ StopControl /\ [Next]_vars => StopControl'
  <1> SUFFICES ASSUME TypeInv, StopControl, [Next]_vars PROVE StopControl'
    OBVIOUS
  <1>a. (StopSent \/ worker["maps"].at = "done") =>
            pc \in {"join_maps", "join_monitor", "export", "returned"}
    BY DEF StopControl
  <1>1. CASE Builds
    <2>1. worker'["maps"].at = "recv" /\ ~ StopSent'
      BY <1>1, <1>a DEF Builds, Trackers, StopSent
    <2> QED BY <1>1, <2>1 DEF Builds, Go, StopControl, StopSent
  <1>2. ASSUME ~ Builds PROVE StopControl'
    <2>1. /\ worker["maps"].at = "none" =>
                    worker'["maps"].at = "none" /\ known'["maps"] = known["maps"]
          /\ worker["maps"].at = "done" => worker'["maps"].at = "done"
          /\ worker'["maps"].at = "done" => worker["maps"].at = "done" \/ MapsStop
      BY <1>2, MapsWorkerLife
    <2>2. MapsStop => StopSent
      <3>1. chan["maps"] \in Seq(Pids \cup {Stop})
        BY DEF TypeInv, Trackers
      <3> QED BY <3>1, TailFacts DEF MapsStop, Stops, StopSent
    <2>3. (StopSent' \/ worker'["maps"].at = "done") =>
                \/ pc \in {"join_maps", "join_monitor", "export", "returned"}
                \/ JoinsEvents
      BY <1>a, <2>1, <2>2, StopLife
    <2>4. /\ pc \in {"start", "build"} =>
                    worker'["maps"].at = "none" /\ known'["maps"] = {}
          /\ pc \in {"join_monitor", "export", "returned"} =>
                    worker'["maps"].at \in {"none", "done"}
      BY <2>1 DEF StopControl
    <2>5. CASE pc' = pc
      <3>1. ~ JoinsEvents
        BY <2>5 DEF JoinsEvents, Go
      <3> QED BY <2>3, <2>4, <2>5, <3>1 DEF StopControl, StopSent
    <2>6. CASE pc' # pc
      <3>1. CASE pc = "start" /\ pc' = "build"
        <4>1. ~ JoinsEvents
          BY <3>1 DEF JoinsEvents
        <4> QED BY <2>3, <2>4, <3>1, <4>1 DEF StopControl, StopSent
      <3>2. CASE RunRefuses \/ BuildFails
        <4>1. pc \in {"start", "build"} /\ pc' \in {"join_monitor", "returned"}
          BY <3>2 DEF RunRefuses, BuildFails, Go
        <4> QED BY <2>4, <4>1 DEF StopControl
      <3>3. CASE /\ pc \in {"enable", "record", "disable", "join_env", "parse_all",
                         "cleanup_failed", "drop_session"}
                 /\ pc' \in {"record", "disable", "join_env", "parse_all",
                          "cleanup_failed", "drop_session", "join_events"}
        <4>1. ~ JoinsEvents
          BY <3>3 DEF JoinsEvents
        <4>2. ~ (StopSent' \/ worker'["maps"].at = "done")
          BY <2>3, <3>3, <4>1
        <4> QED BY <3>3, <4>2 DEF StopControl, StopSent
      <3>4. CASE JoinsEvents
        BY <3>4 DEF JoinsEvents, Go, StopControl
      <3>5. CASE JoinsMaps \/ JoinsMonitor \/ Exports
        <4>1. /\ pc' \in {"join_monitor", "export", "returned"}
              /\ worker["maps"].at \in {"none", "done"}
          BY <3>5 DEF JoinsMaps, JoinsMonitor, Exports, Go, StopControl
        <4>2. worker'["maps"].at \in {"none", "done"}
          BY <2>1, <4>1
        <4> QED BY <4>1, <4>2 DEF StopControl
      <3> QED BY <1>2, <2>6, <3>1, <3>2, <3>3, <3>4, <3>5, PcSteps
    <2> QED BY <2>5, <2>6
  <1> QED BY <1>1, <1>2

(* Only a server that turns a map on makes a file the tracker's.           *)
LEMMA FilesLife ==
    ASSUME TypeInv, [Next]_vars, NEW p \in Pids,
           \A q \in Pids, b \in BOOLEAN : ~ ServesEnable(q, b)
    PROVE  files'[p] \in {files[p], "own", "none"}
  <1>1. CASE CleansUpFailed \/ Exports
    BY <1>1 DEF CleansUpFailed, Exports, RunDropHooks, RemovePerfMaps
  <1>2. ASSUME NEW q \in Pids, NEW b \in BOOLEAN, ProcessStarts(q, b)
        PROVE  files'[p] \in {files[p], "own", "none"}
    BY <1>2 DEF ProcessStarts, TypeInv
  <1>3. \/ UNCHANGED files \/ CleansUpFailed \/ Exports
        \/ \E q \in Pids, b \in BOOLEAN : ProcessStarts(q, b)
    BY Steps DEF Quiet, Builds, ParsesRecord, StopsEvents, JoinsEvents,
                 ReadsAnswer, EventsTakes, EventsStop, MapsTakes, AsksForMap,
                 MapsStop, Takes, Stops, ServesDisable, OpensSocket, Marks,
                 Exits, ServesCollect, procVars
  <1> QED BY <1>1, <1>2, <1>3

(* Every step keeps a returned recording without files: the export removes *)
(* the ones that are known, which are all.                                 *)
LEMMA ClearedStep ==
    TypeInv /\ StopControl /\ MapsInv /\ ClearedInv /\ [Next]_vars => ClearedInv'
  <1> SUFFICES ASSUME TypeInv, StopControl, MapsInv, ClearedInv, [Next]_vars,
                      pc' = "returned", ~ failed', NEW p \in Pids
               PROVE  files'[p] # "ours"
    BY DEF ClearedInv, Returned
  <1>1. CASE pc = "returned"
    <2>1. worker["maps"].at \in {"none", "done"}
      BY <1>1 DEF StopControl
    <2>2. ~ failed
      <3>1. ~ MainStep
        BY <1>1 DEF MainStep, RunRefuses, RunStarts, BuildFails, Builds, Enables,
                    LoopFails, UntilStops, ParsesRecord, Disables, JoinsEnv,
                    RunsParsedHooks, CleansUpFailed, StopsEvents, JoinsEvents,
                    JoinsMaps, JoinsMonitor, Exports
      <3> QED BY <3>1, NextKeepsPc
    <2>3. files[p] # "ours"
      BY <1>1, <2>2 DEF ClearedInv, Returned
    <2>4. \A q \in Pids, b \in BOOLEAN : ~ ServesEnable(q, b)
      <3> SUFFICES ASSUME NEW q \in Pids, NEW b \in BOOLEAN, ServesEnable(q, b)
                   PROVE  FALSE
        OBVIOUS
      <3>1. inbox[q] \in Seq(Requests) /\ inbox[q] # <<>>
        BY DEF ServesEnable, TypeInv
      <3>2. 1 \in Enabling(q)
        BY <3>1, TailFacts DEF ServesEnable, Enabling
      <3> QED BY <2>1, <3>2 DEF MapsInv, MapAt, Asking
    <2>5. files'[p] \in {files[p], "own", "none"}
      BY <2>4, FilesLife
    <2> QED BY <2>3, <2>5
  <1>2. CASE pc = "start"
    <2>1. worker["maps"].at = "none" /\ known["maps"] = {}
      BY <1>2 DEF StopControl
    <2>2. files[p] # "ours"
      BY <2>1 DEF MapsInv, MapAt, Accounted
    <2>3. RunRefuses
      BY <1>2, PcSteps DEF BuildFails, Builds, JoinsEvents, JoinsMaps,
                           JoinsMonitor, Exports
    <2> QED BY <2>2, <2>3 DEF RunRefuses, Others, procVars
  <1>3. CASE Exports
    <2>1. worker["maps"].at \in {"none", "done"}
      BY <1>3 DEF Exports, StopControl
    <2>2. files[p] = "ours" => p \in known["maps"]
      BY <2>1 DEF MapsInv, MapAt, Accounted
    <2> QED BY <1>3, <2>2 DEF Exports, RunDropHooks, RemovePerfMaps
  <1>4. CASE JoinsMonitor
    BY <1>4 DEF JoinsMonitor, Go
  <1>5. pc = "returned" \/ RunRefuses \/ Exports \/ JoinsMonitor
    BY PcSteps DEF BuildFails, Builds, JoinsEvents, JoinsMaps, Go
  <1>6. RunRefuses => pc = "start"
    BY DEF RunRefuses
  <1> QED BY <1>1, <1>2, <1>3, <1>4, <1>5, <1>6

-----------------------------------------------------------------------------
(* The theorems.                                                           *)

(* What the start of Recorder::run satisfies.                              *)
LEMMA InitInv == Init => Inv
  <1> SUFFICES ASSUME Init PROVE Inv
    OBVIOUS
  <1>1. TypeInv
    <2>1. NoProcess \in Processes
      BY DEF NoProcess, Processes
    <2>2. [at |-> "none", pid |-> NoOne] \in Workers
      BY DEF Workers
    <2> QED BY <2>1, <2>2 DEF Init, TypeInv, Trackers
  <1>2. EventsInv
    BY DEF Init, EventsInv, Collects, Trackers, NoProcess, Alive
  <1>3. ControlInv
    BY DEF Init, ControlInv, Alive, Trackers
  <1>4. OwnInv
    BY DEF Init, OwnInv, OwnAt, Untouchable, Untouched, NoProcess, Trackers
  <1> QED BY <1>1, <1>2, <1>3, <1>4 DEF Inv

(* The inductive invariant of a recording: the types, the one request the  *)
(* events worker has under way, where Recorder::run is while that worker   *)
(* lives, and what nobody asks of a process with a perf map of its own.    *)
THEOREM RecordingInvariant == Spec => []Inv
  <1>1. Inv /\ [Next]_vars => Inv'
    BY TypeStep, EventsStep, ControlStep, OwnStep DEF Inv
  <1> QED BY <1>1, InitInv, PTL DEF Spec

(* On every way out of a capture the user_events file outlives every       *)
(* EventPipe session that writes to its tracepoints (hook_to_exporter),    *)
(* whatever the number of processes and of restarts under one id.          *)
THEOREM SessionsKeepTracepoints == Spec => []TracepointsOutliveSessions
  <1>1. Inv => TracepointsOutliveSessions
    BY DEF Inv, EventsInv, ControlInv, TracepointsOutliveSessions
  <1> QED BY <1>1, RecordingInvariant, PTL

(* The perf map a process has by its own environment is never turned off   *)
(* and its file never removed, unless its id was another process's before  *)
(* (PerfMapContext::has_perf_map_environ).                                 *)
THEOREM OwnMapsKept == Spec => []OwnPerfMapsKept
  <1>1. Inv => OwnPerfMapsKept
    BY DEF Inv, OwnInv, OwnAt, OwnPerfMapsKept
  <1> QED BY <1>1, RecordingInvariant, PTL
(* What the start satisfies of the perf maps.                              *)
LEMMA InitClean == Init => CleanInv
  <1> SUFFICES ASSUME Init PROVE CleanInv
    OBVIOUS
  <1>1. MapsInv
    BY DEF Init, MapsInv, MapAt, Enabling, Turned, LastDisables, NoProcess
  <1>2. StopControl
    BY DEF Init, StopControl, StopSent, Trackers
  <1>3. ClearedInv
    BY DEF Init, ClearedInv, Returned
  <1> QED BY <1>1, <1>2, <1>3 DEF CleanInv

(* What is inductive about the perf maps: a map or a file that the tracker *)
(* made is one its worker knows of or is just told of, at most one request *)
(* to enable is under way, and the worker ends before the export.          *)
THEOREM CleanInvariant == Spec => []CleanInv
  <1>1. Inv /\ CleanInv /\ [Next]_vars => CleanInv'
    BY MapsStep, StopStep, ClearedStep DEF Inv, CleanInv
  <1> QED BY <1>1, InitClean, RecordingInvariant, PTL DEF Spec

(* However the worker is interrupted: once it has ended, every map that it *)
(* turned on is off or about to be (PerfMapTracker::worker_thread_proc),   *)
(* and no file of one outlives a recording that did not fail               *)
(* (PerfMapContext::remove_perf_map).                                      *)
THEOREM PerfMapsAreCleared == Spec => []PerfMapsCleared
  <1>1. CleanInv => PerfMapsCleared
    BY DEF CleanInv, MapsInv, MapAt, ClearedInv, Turned, LastDisables,
           PerfMapsCleared
  <1> QED BY <1>1, CleanInvariant, PTL
=============================================================================

---------------------------- MODULE DotNetEvents ----------------------------
(***************************************************************************)
(* The .NET events of one provider on Linux                                *)
(* (helpers/dotnet/os/linux.rs): what a script subscribes to, the          *)
(* tracepoints the settings hook makes of it and asks the runtimes to      *)
(* write to, and the handler of a tracepoint, which reads the event's      *)
(* self-description, hands the payload to the subscribers' proxy events    *)
(* and records it, through the sampler that all events of the session      *)
(* share (helpers/exporting/mod.rs).                                       *)
(***************************************************************************)
EXTENDS DotNetMeta, FiniteSets

CONSTANTS
    Pids,           \* process ids
    Ids,            \* event ids
    Table,          \* [Pids \X generations -> [Ids -> event]]
    SubIds,         \* the ids a script may subscribe to
    SubNames,       \* the names a script may subscribe to
    Keywords,       \* the keyword masks record_provider may get for stacks
    Cuts,           \* how many tokens a metadata blob may miss at its end
    ReadFields(_),  \* the fields' parser: the format of a blob
    WriteFields(_, _), \* the blob a runtime writes of the fields, V2Params or not
    Layout(_),      \* the format that a description of fields says
    TopBit,         \* 1 << 31, which sets event ids apart from name ids
    MaxOps,         \* bound: calls of the script
    MaxEvents,      \* bound: events and exits of processes
    MaxGen          \* bound: processes that get one id, one after the other

ASSUME BoundsAssumption ==
    MaxOps \in Nat /\ MaxEvents \in Nat /\ MaxGen \in Nat \ {0}
ASSUME TopBitAssumption == TopBit \in Nat /\ MaxEvents < TopBit
ASSUME NumbersAssumption == Ids \subseteq Nat /\ Cuts \subseteq Nat

(* What the processes write: numbers and names, and fields that the parser *)
(* reads back.  That it does is what DotNetFields is checked for.          *)
ASSUME TableAssumption ==
    \A p \in Pids, gen \in 1 .. MaxGen, id \in Ids :
        LET e == Table[<<p, gen>>][id]
        IN /\ e.name \in STRING /\ e.version \in Nat /\ e.keywords \in Nat
           /\ WriteFields(e.fields, e.v2) \in Seq(Tokens)
           /\ ReadFields(WriteFields(e.fields, e.v2)) = Layout(e.fields)

VARIABLES
    phase,          \* "script", then "run"
    subs,           \* the subscriptions; a proxy event is its position here
    callbacks,      \* the flags of the record_provider calls
    cbStacks,       \* callback_callstacks
    points,         \* the tracepoints: "plain" and "stacks" list ids, "all"
    infos,          \* info_lookup of each tracepoint, by process and event
    eventNames,     \* event_names of "all": a name's id is its position
    layouts,        \* format_lookup of "all": the fields' blobs, and formats
    types,          \* record_types: by process and event
    formats,        \* record_formats: by format_key
    over,           \* the overrides of the shared sampler
    procs,          \* generation of each process id, and the metadata it sent
    count,          \* how many events and exits there were
    out,            \* the samples of the last step
    last            \* the event of the last step

conf == <<phase, subs, callbacks, cbStacks, points>>
tables == <<infos, eventNames, layouts, types, formats>>
runVars == <<tables, over, procs, count, out, last>>
vars == <<conf, runVars>>

Points == {"plain", "stacks", "all"}
NoOver == [version |-> NoValue, activity |-> NoValue]
EmptyInfo == [version |-> NoValue, keywords |-> NoValue, nameId |-> 0,
              logical |-> "", formatIndex |-> 0]
NoEvent == [kind |-> "none"]

Init ==
    /\ phase = "script" /\ subs = <<>> /\ callbacks = <<>>
    /\ cbStacks = FALSE
    /\ points = [t \in Points |-> [on |-> FALSE, ids |-> {}, stacks |-> FALSE]]
    /\ infos = [t \in Points |-> <<>>] /\ types = <<>>
    /\ eventNames = <<>> /\ layouts = <<>> /\ formats = <<>>
    /\ over = NoOver
    /\ procs = [p \in Pids |-> [gen |-> 1, sent |-> {}, missed |-> {}]]
    /\ count = 0 /\ out = <<>> /\ last = NoEvent

-----------------------------------------------------------------------------
(* The script.                                                             *)

Calls == Len(subs) + Len(callbacks)

(* new_event with an id: the flag is set on the event afterwards           *)
(* (without_callstacks), before the settings hook reads it.                *)
NewEventById(id, stacks) ==
    /\ phase = "script" /\ Calls < MaxOps
    /\ subs' = Append(subs, [by |-> "id", id |-> id, name |-> "",
                             stacks |-> stacks])
    /\ UNCHANGED <<phase, callbacks, cbStacks, points, runVars>>

(* new_event with a name: add_named_event reads the flag of an event that  *)
(* has just been made, which asks for callstacks whatever is set later.    *)
NewEventByName(name) ==
    /\ phase = "script" /\ Calls < MaxOps
    /\ subs' = Append(subs, [by |-> "name", id |-> 0, name |-> name,
                             stacks |-> TRUE])
    /\ cbStacks' = TRUE
    /\ UNCHANGED <<phase, callbacks, points, runVars>>

RecordProvider(mask) ==
    /\ phase = "script" /\ Calls < MaxOps
    /\ callbacks' = Append(callbacks, mask)
    /\ cbStacks' = (mask # {})
    /\ UNCHANGED <<phase, subs, points, runVars>>

-----------------------------------------------------------------------------
(* The settings hook.                                                      *)

Proxies == DOMAIN subs
ById(id) == {s \in Proxies : subs[s].by = "id" /\ subs[s].id = id}
ByName(name) == {s \in Proxies : subs[s].by = "name" /\ subs[s].name = name}

(* proxy_id_to_events: an id is listed with every flag it was asked with.  *)
IdsWith(stacks) ==
    {subs[s].id : s \in {q \in Proxies :
        subs[q].by = "id" /\ subs[q].stacks = stacks}}

Point(on, ids, stacks) == [on |-> on, ids |-> ids, stacks |-> stacks]

(* Mutant of TracepointsOf: every id goes to the tracepoint without stacks.*)
TracepointsOf_OneGroup ==
    [t \in Points |->
        CASE t = "plain" -> Point(IdsWith(FALSE) # {} \/ IdsWith(TRUE) # {},
                                  IdsWith(FALSE) \cup IdsWith(TRUE), FALSE)
          [] t = "stacks" -> Point(FALSE, {}, TRUE)
          [] t = "all" ->
                Point(callbacks # <<>> \/ \E s \in Proxies : subs[s].by = "name",
                      {}, cbStacks)]

TracepointsOf ==
    [t \in Points |->
        CASE t = "plain" -> Point(IdsWith(FALSE) # {}, IdsWith(FALSE), FALSE)
          [] t = "stacks" -> Point(IdsWith(TRUE) # {}, IdsWith(TRUE), TRUE)
          [] t = "all" ->
                Point(callbacks # <<>> \/ \E s \in Proxies : subs[s].by = "name",
                      {}, cbStacks)]

SettingsHook ==
    /\ phase = "script" /\ Calls > 0
    /\ phase' = "run" /\ points' = TracepointsOf
    /\ UNCHANGED <<subs, callbacks, cbStacks, runVars>>

-----------------------------------------------------------------------------
(* A runtime writes an event to one tracepoint that lists its id, else to  *)
(* the default one, else not at all.                                       *)

Route(id) ==
    LET listed == {t \in {"plain", "stacks"} : id \in points[t].ids}
    IN IF listed # {} THEN listed
       ELSE IF points["all"].on THEN {"all"} ELSE {}

Described(p, id) == Table[<<p, procs[p].gen>>][id]

(* The first event of an id carries the metadata, and any later one may.   *)
Extension(p, id, meta, activity, cut) ==
    LET e == Described(p, id)
        blob == MetaTokens(id, e, WriteFields(e.fields, e.v2))
    IN (IF meta THEN <<Label("meta", SubSeq(blob, 1, Len(blob) - cut))>>
        ELSE <<>>)
       \o (IF activity = NoValue THEN <<>> ELSE <<Label("activity", activity)>>)

-----------------------------------------------------------------------------
(* The handler of a tracepoint.                                            *)

Key(p, id) == <<p, id>>

HasMeta(ext) == \E i \in DOMAIN ext : ext[i].kind = "meta"
Meta(ext) == MetaParser(LabelData(ext, "meta", <<>>))

(* A value has the position that it got when it was first seen.            *)
Interned(list, x) == IF x \in ToSet(list) THEN list ELSE Append(list, x)
Position(list, x) == CHOOSE i \in DOMAIN list : list[i] = x

(* The names and the fields' blobs that were seen, on the default point.   *)
NewNames(t, meta) ==
    IF t = "all" /\ meta.name # "" THEN Interned(eventNames, meta.name)
    ELSE eventNames
NewLayouts(t, meta) ==
    IF t = "all" THEN Interned(layouts, meta.fields) ELSE layouts

(* The info of a metadata blob; names and formats on the default one only. *)
InfoOf(t, meta, names, blobs) ==
    [version |-> meta.version, keywords |-> meta.keywords,
     nameId |-> IF t = "all" /\ meta.name # "" THEN Position(names, meta.name) ELSE 0,
     logical |-> IF t = "all" /\ ByName(meta.name) # {} THEN meta.name ELSE "",
     formatIndex |-> IF t = "all" THEN Position(blobs, meta.fields) ELSE 0]

(* insert: a table with the value for the key, in place of any before it.  *)
Inserted(table, key, value) ==
    [k \in DOMAIN table \cup {key} |-> IF k = key THEN value ELSE table[k]]

(* Mutant of NewInfos: the process is left out of the key.                 *)
NewInfos_AnyPid(t, p, id, info) ==
    [infos EXCEPT ![t] = [k \in Pids \X {id} |-> info] @@ @]

NewInfos(t, p, id, info) ==
    [infos EXCEPT ![t] = Inserted(@, Key(p, id), info)]

InfoFor(table, key) == IF key \in DOMAIN table THEN table[key] ELSE EmptyInfo

(* The subscribers: by id, or by name on the default tracepoint.           *)
Subscribers(t, id, info) ==
    IF t # "all" THEN ById(id)
    ELSE IF info.logical # "" THEN ByName(info.logical) ELSE {}

(* A sample, with what the sampler says of it: the attributes are asked    *)
(* through the overrides, and frames may be cut to the IP.  The numbers    *)
(* are of the proxy event or of the record_provider call, or 0.            *)
Sample(proxy, record, type, stack, o) ==
    [proxy |-> proxy, record |-> record, type |-> type, stack |-> stack,
     version |-> o.version, activity |-> o.activity]

PlainType == [id |-> 0, name |-> "", format |-> <<>>]

(* The name "" stands for "Unknown" with the id of the type.               *)
NameOf(names, nameId) == IF nameId \in DOMAIN names THEN names[nameId] ELSE ""
FormatOf(blobs, index) ==
    IF index \in DOMAIN blobs THEN ReadFields(blobs[index]) ELSE <<>>

(* Mutant of FormatKey: events of one name share a type.                   *)
FormatKey_NameOnly(id, info) ==
    <<IF info.nameId # 0 THEN info.nameId ELSE TopBit + id, 0>>

(* An event without a name has its id, apart from the ids of names.        *)
FormatKey(id, info) ==
    <<IF info.nameId # 0 THEN info.nameId ELSE TopBit + id, info.formatIndex>>

(* The type that a process and an event id have; for a new pair the one    *)
(* that an event of this name and format has, whichever process sent it;   *)
(* else a new one.                                                         *)
TypeFor(p, id, info, names, blobs) ==
    IF Key(p, id) \in DOMAIN types THEN types[Key(p, id)]
    ELSE IF FormatKey(id, info) \in DOMAIN formats THEN formats[FormatKey(id, info)]
    ELSE [id |-> id, name |-> NameOf(names, info.nameId),
          format |-> FormatOf(blobs, info.formatIndex)]

(* override_callstacks: the keywords of the event against the mask.        *)
RecordStack(t, mask, info) ==
    points[t].stacks /\ ~ (info.keywords # NoValue /\ info.keywords \notin mask)

(* Mutant of AfterHandler: the overrides stay.                             *)
AfterHandler_Kept(o) == o

(* "Always clear overrides".                                               *)
AfterHandler(o) == NoOver

(* The metadata, if any, is entered first: the rest looks it up.           *)
Handle(t, p, id, ext) ==
    LET key == Key(p, id)
        info == InfoFor(infos'[t], key)
        o == [version |-> info.version,
              activity |-> LabelData(ext, "activity", NoValue)]
        type == TypeFor(p, id, info, eventNames', layouts')
        proxied == {Sample(s, 0, PlainType, points[t].stacks, o) :
                        s \in Subscribers(t, id, info)}
        recorded == {Sample(0, c, type, RecordStack(t, callbacks[c], info), o) :
                        c \in DOMAIN callbacks}
    IN /\ eventNames' = IF HasMeta(ext) THEN NewNames(t, Meta(ext)) ELSE eventNames
       /\ layouts' = IF HasMeta(ext) THEN NewLayouts(t, Meta(ext)) ELSE layouts
       /\ infos' = IF HasMeta(ext)
                   THEN NewInfos(t, p, id,
                                 InfoOf(t, Meta(ext), eventNames', layouts'))
                   ELSE infos
       /\ types' = IF callbacks = <<>> THEN types
                    ELSE Inserted(types, key, type)
       /\ formats' = IF callbacks = <<>> \/ key \in DOMAIN types THEN formats
                      ELSE Inserted(formats, FormatKey(id, info), type)
       /\ out' = SetToSeq(proxied) \o SetToSeq(recorded)
       /\ over' = AfterHandler(o)

-----------------------------------------------------------------------------
(* The events.                                                             *)

Wrote(p, id, t, activity, lost) ==
    [kind |-> "dotnet", pid |-> p, id |-> id, point |-> t,
     activity |-> activity, lost |-> lost]

Happens == phase = "run" /\ count < MaxEvents /\ count' = count + 1

(* A process writes an event, and its record is parsed.                    *)
EventArrives(p, id, t, meta, activity, cut) ==
    /\ Happens /\ t \in Route(id)
    /\ meta \/ (id \in procs[p].sent /\ cut = 0)
    /\ Handle(t, p, id, Extension(p, id, meta, activity, cut))
    /\ procs' = [procs EXCEPT ![p].sent = @ \cup {id},
                              ![p].missed = IF cut > 0 THEN @ \cup {id} ELSE @]
    /\ last' = Wrote(p, id, t, activity, FALSE)
    /\ UNCHANGED conf

(* The record is lost in the ring, with the metadata if it carried it.     *)
EventLost(p, id) ==
    /\ Happens /\ Route(id) # {} /\ id \notin procs[p].sent
    /\ procs' = [procs EXCEPT ![p].sent = @ \cup {id},
                              ![p].missed = @ \cup {id}]
    /\ out' = <<>> /\ last' = NoEvent
    /\ UNCHANGED <<conf, tables, over>>

(* A sample of any other event, a CPU profile say, by the same sampler.    *)
OtherSample ==
    /\ phase = "run" /\ last.kind # "other" /\ count' = count
    /\ out' = <<Sample(0, 0, PlainType, TRUE, over)>>
    /\ last' = [kind |-> "other"]
    /\ UNCHANGED <<conf, tables, over, procs>>

(* The process exits, and a new one gets its id.                           *)
Reuse(p) ==
    /\ Happens /\ procs[p].gen < MaxGen
    /\ procs' = [procs EXCEPT ![p] = [gen |-> @.gen + 1, sent |-> {},
                                      missed |-> {}]]
    /\ out' = <<>> /\ last' = NoEvent
    /\ UNCHANGED <<conf, tables, over>>

Next ==
    \/ \E id \in SubIds, stacks \in BOOLEAN : NewEventById(id, stacks)
    \/ \E name \in SubNames : NewEventByName(name)
    \/ \E mask \in Keywords : RecordProvider(mask)
    \/ SettingsHook
    \/ \E p \in Pids, id \in Ids :
        \/ \E t \in Points, meta \in BOOLEAN, activity \in {NoValue, 1},
              cut \in Cuts : EventArrives(p, id, t, meta, activity, cut)
        \/ EventLost(p, id)
    \/ OtherSample
    \/ \E p \in Pids : Reuse(p)

Spec == Init /\ [][Next]_vars

-----------------------------------------------------------------------------
(* Properties.                                                             *)

IsEvent == last.kind = "dotnet" /\ ~ last.lost

(* The metadata of the event's id reached the handler.                     *)
Known(e) == e.id \notin procs[e.pid].missed

SamplesOf(s) == {i \in DOMAIN out : out[i].proxy = s}

(* An event reaches everyone who subscribed to its id exactly once, on     *)
(* whichever tracepoint it comes, and everyone who subscribed to its name  *)
(* when its metadata was seen and nobody asked for its id; nobody else     *)
(* (register_dotnet_tracepoint).                                           *)
SubscribersServed ==
    IsEvent =>
        LET e == Described(last.pid, last.id)
            asked == ById(last.id)
        IN /\ \A s \in asked : Cardinality(SamplesOf(s)) = 1
           /\ \A s \in Proxies \ asked :
                /\ SamplesOf(s) # {} => subs[s].by = "name" /\ asked = {}
                /\ (asked = {} /\ Known(last)) =>
                     Cardinality(SamplesOf(s)) =
                        IF subs[s].by = "name" /\ subs[s].name = e.name /\ e.name # ""
                        THEN 1 ELSE 0

(* A record of a dynamic event carries the name and the layout of that     *)
(* event in the process that wrote it, whether the type is its own or one  *)
(* that a process with the same event made, and whoever else has the id,   *)
(* the name or the layout for another event; without its metadata, because *)
(* the id was subscribed to as well or the metadata was lost, it carries   *)
(* no name but its own id's (record_types, record_formats and format_key). *)
(* A process whose id was another's before is exempt (see the README).     *)
RecordTypeOwn ==
    IsEvent =>
        \A i \in {k \in DOMAIN out : out[k].record # 0} :
            LET e == Described(last.pid, last.id)
                type == out[i].type
            IN /\ type.name = "" => type.id = last.id
               /\ procs[last.pid].gen = 1 =>
                    IF last.point = "all" /\ Known(last)
                    THEN type.name = e.name /\ type.format = Layout(e.fields)
                    ELSE type.name \in {"", e.name}

(* The version and the activity of a sample are those of its own event,    *)
(* never what an event before it left in the sampler                       *)
(* (ExportSampler's overrides, shared by all events).                      *)
AttributesOwn ==
    \A i \in DOMAIN out :
        /\ last.kind = "other" =>
                out[i].version = NoValue /\ out[i].activity = NoValue
        /\ IsEvent =>
            /\ out[i].activity = last.activity
            /\ procs[last.pid].gen = 1 =>
                out[i].version \in
                    {NoValue, Described(last.pid, last.id).version}

(* Who asked for stacks of an id gets them, and who asked for none gets    *)
(* none, unless both were asked for one id; a recorded event has its stack *)
(* when its keywords are asked for, on the default tracepoint.             *)
StacksAsAsked ==
    IsEvent => \A i \in DOMAIN out :
        /\ out[i].proxy # 0 /\ subs[out[i].proxy].by = "id"
             /\ (\A s \in ById(last.id) :
                    subs[s].stacks = subs[out[i].proxy].stacks)
           => out[i].stack = subs[out[i].proxy].stacks
        /\ out[i].record # 0 /\ last.point = "all" /\ Known(last)
             /\ procs[last.pid].gen = 1
             /\ out[i].record = Len(callbacks)
           => LET wanted == Described(last.pid, last.id).keywords
                                \in callbacks[out[i].record]
              IN out[i].stack <=> wanted
=============================================================================

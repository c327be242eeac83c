---------------------------- MODULE ExportGraph -----------------------------
(***************************************************************************)
(* The call graph that the pprof and PerfView formats are written from     *)
(* (helpers/exporting/graph.rs, formats/pprof.rs, formats/perf_view.rs),   *)
(* without state of its own.                                               *)
(*                                                                         *)
(* A graph is a record of its tables: nodes, resolvables and strings, and  *)
(* the node that each call chain ended at.  Node 0 is the root.  Files and *)
(* symbols are numbers, their names slices of one.                         *)
(***************************************************************************)
EXTENDS ExportLookup, TraceTables

Unknown == <<0>>
NoTarget == [address |-> 0, resolvable |-> 0, method |-> 0]
Root == [target |-> NoTarget, parent |-> 0, kids |-> << >>, exclusive |-> 0,
         total |-> 0]

(* reset.                                                                  *)
NewGraph == [nodes |-> <<Root>>, resolvables |-> << << >> >>,
             strings |-> Intern(NewInterned, << >>), chains |-> << >>]

-----------------------------------------------------------------------------
(* The file that an address lies in, and the address in it.                *)
FileAt(maps, i) == IF i = 0 THEN Unknown ELSE <<maps[i].file>>
AddressAt(maps, i, ip) ==
    IF i = 0 \/ maps[i].anon THEN 0
    ELSE IF ip > KERNEL_START THEN ip
    ELSE ip - maps[i].start + maps[i].off

(* import_ip: the graph with the names it needs, and the target.           *)
Named(g, file, address, symbol) ==
    [g |-> [g EXCEPT !.strings = Intern(IF symbol = 0 THEN @
                                        ELSE Intern(@, <<symbol>>), file),
                     !.resolvables = Listed(@, file)],
     target |-> [address |-> address,
                 resolvable |-> IndexIn(g.resolvables, file),
                 method |-> IF symbol = 0 THEN 0
                            ELSE IdIn(g.strings, <<symbol>>)]]
Resolved(g, maps, i, ip, symbol) ==
    Named(g, FileAt(maps, i), AddressAt(maps, i, ip), symbol)
ImportTarget(g, maps, ip, time) ==
    Resolved(g, maps, FindIndex(maps, ip, time), ip, ImportIp(maps, ip, time))

(* A node and those above it, up to the root.                              *)
Lineage(nodes, id) ==
    LET up[i \in 0 .. id] == IF i = 0 THEN {0} ELSE {i} \cup up[nodes[i + 1].parent]
    IN  up[id]

(* charge: the nodes above the one given get the value.                    *)
Charge(nodes, id, value) ==
    LET above == Lineage(nodes, nodes[id + 1].parent)
    IN  [i \in DOMAIN nodes |-> IF i - 1 \in above
                                THEN [nodes[i] EXCEPT !.total = @ + value]
                                ELSE nodes[i]]

KidFor(nodes, parent, target) ==
    {k \in ToSet(nodes[parent + 1].kids) : nodes[k + 1].target = target}

(* Mutant of Merge: a child is looked for by its address alone. *)
Merge_ByAddress(nodes, parent, target, value) ==
    LET charged == [nodes EXCEPT ![parent + 1].total = @ + value]
        same == {k \in ToSet(nodes[parent + 1].kids) :
                    nodes[k + 1].target.address = target.address}
        id == Len(nodes)
    IN  IF same # {} THEN [nodes |-> charged, id |-> CHOOSE k \in same : TRUE]
        ELSE [nodes |-> Append([charged EXCEPT ![parent + 1].kids = Append(@, id)],
                               [Root EXCEPT !.parent = parent, !.target = target]),
              id |-> id]

(* merge: the parent gets the value; its child for the target, which is    *)
(* made when there is none.                                                *)
Merge(nodes, parent, target, value) ==
    LET charged == [nodes EXCEPT ![parent + 1].total = @ + value]
        same == KidFor(nodes, parent, target)
        id == Len(nodes)
    IN  IF same # {} THEN [nodes |-> charged, id |-> CHOOSE k \in same : TRUE]
        ELSE [nodes |-> Append([charged EXCEPT ![parent + 1].kids = Append(@, id)],
                               [Root EXCEPT !.parent = parent, !.target = target]),
              id |-> id]

(* A frame is imported and merged under the node reached so far.           *)
Reached(g, merged) == [g |-> [g EXCEPT !.nodes = merged.nodes], id |-> merged.id]
MergeTarget(st, imported, value) ==
    Reached(imported.g, Merge(imported.g.nodes, st.id, imported.target, value))
MergeFrame(st, maps, time, ip, value) ==
    MergeTarget(st, ImportTarget(st.g, maps, ip, time), value)

(* add_samples, for one sample: its call chain is imported at the time of  *)
(* the first sample that has it, and only charged from then on; the top    *)
(* frame is imported for each.                                             *)
MergeChain(g, m, maps, s, value) ==
    IF s.callstack \in DOMAIN g.chains
    THEN [g |-> [g EXCEPT !.nodes = Charge(@, g.chains[s.callstack], value)],
          id |-> g.chains[s.callstack]]
    ELSE FoldRight(LAMBDA ip, st : MergeFrame(st, maps, s.time, ip, value),
                   FromId(m.callstacks, s.callstack), [g |-> g, id |-> 0])
AddTop(top, chain, s, value) ==
    [top.g EXCEPT !.chains = (s.callstack :> chain.id) @@ @,
                  !.nodes[top.id + 1].exclusive = @ + value,
                  !.nodes[top.id + 1].total = @ + value]
AddBelow(chain, maps, s, value) ==
    AddTop(MergeFrame(chain, maps, s.time, s.ip, value), chain, s, value)
AddSampleToGraph(g, m, maps, s) ==
    AddBelow(MergeChain(g, m, maps, s, Convert(m, s.value)), maps, s,
             Convert(m, s.value))

-----------------------------------------------------------------------------
(* to_pprof.                                                               *)
Ids0(nodes) == 0 .. Len(nodes) - 1

(* write_samples: the nodes from a leaf to the root.                       *)
PathUp(nodes, id) ==
    LET up[i \in 0 .. id] == IF i = 0 THEN << >>
                             ELSE <<i>> \o up[nodes[i + 1].parent]
    IN  up[id]
PprofSamples(g) ==
    {[locations |-> PathUp(g.nodes, i), value |-> g.nodes[i + 1].exclusive] :
        i \in {i \in Ids0(g.nodes) : g.nodes[i + 1].exclusive > 0}}
PprofMappings(g) ==
    {[id |-> i, file |-> IdIn(g.strings, g.resolvables[i])] :
        i \in DOMAIN g.resolvables}
PprofLocations(g) ==
    {LET t == g.nodes[i + 1].target
     IN  [id |-> i, mapping |-> t.resolvable + 1, address |-> t.address,
          function |-> IF t.method # 0 THEN i ELSE 0] : i \in Ids0(g.nodes) \ {0}}
PprofFunctions(g) ==
    {[id |-> i, name |-> g.nodes[i + 1].target.method] :
        i \in {i \in Ids0(g.nodes) \ {0} : g.nodes[i + 1].target.method # 0}}
PprofStrings(g) ==
    [i \in 0 .. Len(g.strings.spans) - 1 |-> FromId(g.strings, i)]
ToPprof(g) ==
    [samples |-> PprofSamples(g), mappings |-> PprofMappings(g),
     locations |-> PprofLocations(g), functions |-> PprofFunctions(g),
     strings |-> PprofStrings(g)]

(* to_perf_view_xml: frames are the distinct targets, numbered as they are *)
(* met (in an order that is left open), stacks refer to them and to their  *)
(* caller, a sample to its stack.                                          *)
ToPerfView(g) ==
    LET ids == Ids0(g.nodes) \ {0}
        frames == SetToSeq({g.nodes[i + 1].target : i \in ids})
        frameId(t) == IndexIn(frames, t)
        text(t) == <<IF t.resolvable # 0 THEN g.resolvables[t.resolvable + 1]
                                         ELSE Unknown,
                     IF t.method # 0 THEN FromId(g.strings, t.method)
                                     ELSE <<-1, t.address>> >>
    IN  [frames |-> {[id |-> frameId(t), text |-> text(t)] : t \in ToSet(frames)},
         stacks |-> {[id |-> i, frame |-> frameId(g.nodes[i + 1].target),
                      caller |-> IF g.nodes[i + 1].parent = 0 THEN -1
                                 ELSE g.nodes[i + 1].parent] : i \in ids},
         samples |-> {[stack |-> i, metric |-> g.nodes[i + 1].exclusive] :
                        i \in {i \in ids : g.nodes[i + 1].exclusive > 0}}]
=============================================================================

--------------------------- MODULE PerfBuild_proofs --------------------------
(***************************************************************************)
(* For any number of CPUs and descriptors, any targets and any sequence of *)
(* calls and failures: every open perf event is known to the session under *)
(* its own descriptor, records into the ring of its CPU, and is closed     *)
(* when the session is gone.                                               *)
(***************************************************************************)
EXTENDS PerfBuild, SequenceTheorems, FiniteSetTheorems,
        WellFoundedInduction, TLAPS

(* ev is a sequence; what its elements have beyond the fields the          *)
(* invariant speaks of does not matter.                                    *)
EvSeq == ev \in Seq({ev[i] : i \in DOMAIN ev})

(* Every event has its CPU and the event whose ring it records into.       *)
EventInv == \A i \in DOMAIN ev : {"cpu", "out"} \subseteq DOMAIN ev[i]

(* A descriptor never refers to an event that was not created yet.         *)
TableInv ==
    /\ fdt \in [Fds -> Int]
    /\ \A f \in Fds : fdt[f] <= Len(ev)

(* ring_bufs and the perf descriptors of the process are the same thing.   *)
BufsInv ==
    /\ \A b \in bufs :
        /\ b = [id |-> b.id, fd |-> b.fd]
        /\ b.id \in DOMAIN ev /\ b.fd \in Fds /\ fdt[b.fd] = b.id
    /\ \A f \in Fds : fdt[f] \in DOMAIN ev => [id |-> fdt[f], fd |-> f] \in bufs

(* The leader of a CPU leads itself and everything else on that CPU.       *)
LeaderInv ==
    /\ \A c \in DOMAIN leader :
        /\ leader[c] \in DOMAIN ev
        /\ ev[leader[c]].cpu = c /\ ev[leader[c]].out = leader[c]
    /\ \A i \in DOMAIN ev :
        ev[i].cpu \in DOMAIN leader /\ ev[i].out = leader[ev[i].cpu]

(* The call that is running; an attach has the map's descriptor open.      *)
CallInv ==
    /\ cur = [fd |-> cur.fd, got |-> cur.got, filter |-> cur.filter,
              before |-> cur.before]
    /\ phase = "attaching" => cur.fd \in Fds /\ fdt[cur.fd] = BpfMap

(* Before the build and after the drop there are no buffers.               *)
PhaseInv == phase \in {"builder", "gone"} => bufs = {}

BuildInv ==
    /\ EvSeq /\ EventInv /\ TableInv /\ BufsInv /\ LeaderInv
    /\ CallInv /\ PhaseInv

-----------------------------------------------------------------------------
(* A set of naturals that is not empty has its least element.              *)
LEMMA LeastElement ==
    ASSUME NEW S, S \subseteq Nat, S # {}
    PROVE  Min(S) \in S /\ \A y \in S : Min(S) <= y
<1> DEFINE Below == {0 .. k : k \in S}
<1>1. Below \subseteq FiniteSubsetsOf(Nat)
    <2>1. \A k \in S : 0 .. k \in SUBSET Nat /\ IsFiniteSet(0 .. k)
        BY FS_Interval
    <2>2. QED
        BY <2>1 DEF FiniteSubsetsOf
<1>2. PICK m \in S : \A y \in Below : ~ (<<y, 0 .. m>> \in StrictSubsetOrdering(Nat))
    <2>1. Below # {}
        OBVIOUS
    <2>2. PICK x \in Below : \A y \in Below : ~ (<<y, x>> \in StrictSubsetOrdering(Nat))
        BY <1>1, <2>1, WFMin, FS_StrictSubsetOrderingWellFounded
    <2>3. QED
        BY <2>2
<1>3. ASSUME NEW y \in S PROVE m <= y
    <2>1. SUFFICES ASSUME y < m PROVE FALSE
        OBVIOUS
    <2>2. 0 .. y \subseteq 0 .. m /\ 0 .. y # 0 .. m
        BY <2>1
    <2>3. 0 .. y \in SUBSET Nat /\ 0 .. m \in SUBSET Nat /\ 0 .. y \in Below
        OBVIOUS
    <2>4. <<0 .. y, 0 .. m>> \in StrictSubsetOrdering(Nat)
        BY <2>2, <2>3, Zenon DEF StrictSubsetOrdering
    <2>5. QED
        BY <1>2, <2>3, <2>4
<1>4. QED
    BY <1>3 DEF Min

LEMMA LowestIsFree == FreeFds # {} => LowestFd \in Fds /\ fdt[LowestFd] = Free
<1>1. FreeFds \subseteq Nat
    BY MaxFdsAssumption DEF FreeFds, Fds
<1>2. QED
    BY <1>1, LeastElement DEF FreeFds, LowestFd

(* A sequence stays one when anything is appended to it.                   *)
LEMMA AppendAny ==
    ASSUME NEW s, s \in Seq({s[i] : i \in DOMAIN s}), NEW e, NEW t, t = Append(s, e)
    PROVE  /\ Len(s) \in Nat /\ DOMAIN s = 1 .. Len(s)
           /\ t \in Seq({t[i] : i \in DOMAIN t})
           /\ DOMAIN t = 1 .. Len(s) + 1 /\ Len(t) = Len(s) + 1
           /\ \A i \in DOMAIN s : t[i] = s[i]
           /\ t[Len(s) + 1] = e
<1> DEFINE S == {s[i] : i \in DOMAIN s} \cup {e}
<1>1. s \in Seq(S) /\ e \in S
    BY SeqMonotonic
<1>2. /\ Len(s) \in Nat /\ DOMAIN s = 1 .. Len(s)
      /\ t \in Seq(S) /\ Len(t) = Len(s) + 1 /\ DOMAIN t = 1 .. Len(s) + 1
      /\ \A i \in 1 .. Len(s) : t[i] = s[i]
      /\ t[Len(s) + 1] = e
    BY <1>1, AppendProperties, LenProperties
<1>3. t \in Seq({t[i] : i \in DOMAIN t})
    BY <1>2, SeqOfRange, RangeEquality
<1>4. QED
    BY <1>2, <1>3

(* A function on the indexes of a sequence is a sequence.                  *)
LEMMA SameLength ==
    ASSUME NEW s, s \in Seq({s[i] : i \in DOMAIN s}), NEW t,
           t = [i \in DOMAIN s |-> t[i]]
    PROVE  t \in Seq({t[i] : i \in DOMAIN t}) /\ DOMAIN t = DOMAIN s /\ Len(t) = Len(s)
<1> DEFINE T == {t[i] : i \in DOMAIN t}
<1>1. Len(s) \in Nat /\ DOMAIN s = 1 .. Len(s)
    BY LenProperties
<1>2. t \in [1 .. Len(s) -> T] /\ DOMAIN t = 1 .. Len(s)
    BY <1>1
<1>3. t \in Seq(T)
    BY <1>1, <1>2, SeqDef
<1>4. QED
    BY <1>1, <1>2, <1>3, LenProperties

-----------------------------------------------------------------------------
LEMMA InitBuild == Init => BuildInv
<1> SUFFICES ASSUME Init PROVE BuildInv
    OBVIOUS
<1> USE DEF Init
<1>1. EvSeq /\ DOMAIN ev = {} /\ Len(ev) = 0
    BY DEF EvSeq
<1>2. TableInv
    BY <1>1 DEF TableInv, Free
<1>3. EventInv /\ BufsInv /\ LeaderInv
    BY <1>1 DEF EventInv, BufsInv, LeaderInv
<1>4. CallInv /\ PhaseInv
    BY DEF CallInv, PhaseInv, NoCall
<1>5. QED
    BY <1>1, <1>2, <1>3, <1>4 DEF BuildInv

(* Steps that change neither descriptors nor events nor buffers.           *)
LEMMA QuietStep ==
    ASSUME BuildInv, UNCHANGED <<fdt, ev, bufs, leader>>, CallInv', PhaseInv'
    PROVE  BuildInv'
BY DEF BuildInv, EvSeq, EventInv, TableInv, BufsInv, LeaderInv

LEMMA OpenBufferKeeps == BuildInv /\ OpenBuffer => BuildInv'
<1> SUFFICES ASSUME BuildInv, OpenBuffer PROVE BuildInv'
    OBVIOUS
<1> DEFINE t == Head(todo)
           id == Len(ev) + 1
           leads == t.cpu \notin DOMAIN leader
           new == [kind |-> t.kind, pid |-> t.pid, cpu |-> t.cpu,
                   out |-> IF leads THEN id ELSE leader[t.cpu],
                   on |-> FALSE, filtered |-> FALSE]
<1>1. /\ LowestFd \in Fds /\ fdt[LowestFd] = Free
      /\ ev' = Append(ev, new)
      /\ fdt' = [fdt EXCEPT ![LowestFd] = id]
      /\ leader' = IF leads THEN Led(t.cpu, id) ELSE leader
      /\ bufs' = bufs \cup {[id |-> id, fd |-> LowestFd]}
      /\ cur' = [cur EXCEPT !.got = Append(@, id)]
      /\ phase' = phase /\ phase \in {"building", "adding", "attaching"}
    BY LowestIsFree DEF OpenBuffer, Opening
<1>2. /\ Len(ev) \in Nat /\ DOMAIN ev = 1 .. Len(ev)
      /\ EvSeq' /\ DOMAIN ev' = 1 .. id /\ Len(ev') = id
      /\ \A i \in DOMAIN ev : ev'[i] = ev[i]
      /\ ev'[id] = new
    <2>1. ev \in Seq({ev[i] : i \in DOMAIN ev}) /\ ev' = Append(ev, new)
        BY <1>1 DEF BuildInv, EvSeq
    <2> HIDE DEF new
    <2>2. QED
        BY <2>1, AppendAny DEF EvSeq
<1> HIDE DEF new
<1>3. /\ new.cpu = t.cpu /\ new.out = IF leads THEN id ELSE leader[t.cpu]
      /\ {"cpu", "out"} \subseteq DOMAIN new
    BY DEF new
<1> HIDE DEF t
<1>4. TableInv' /\ EventInv'
    BY <1>1, <1>2, <1>3 DEF BuildInv, TableInv, EventInv
<1>5. BufsInv'
    <2>1. ASSUME NEW b \in bufs'
          PROVE  /\ b = [id |-> b.id, fd |-> b.fd]
                 /\ b.id \in DOMAIN ev' /\ b.fd \in Fds /\ fdt'[b.fd] = b.id
        <3>1. CASE b \in bufs
            BY <1>1, <1>2, <3>1 DEF BuildInv, BufsInv, TableInv, Free
        <3>2. CASE b = [id |-> id, fd |-> LowestFd]
            BY <1>1, <1>2, <3>2 DEF BuildInv, TableInv
        <3>3. QED
            BY <1>1, <3>1, <3>2
    <2>2. ASSUME NEW f \in Fds, fdt'[f] \in DOMAIN ev'
          PROVE  [id |-> fdt'[f], fd |-> f] \in bufs'
        <3>1. CASE f = LowestFd
            BY <1>1, <3>1 DEF BuildInv, TableInv
        <3>2. CASE f # LowestFd
            BY <1>1, <1>2, <2>2, <3>2 DEF BuildInv, TableInv, BufsInv
        <3>3. QED
            BY <3>1, <3>2
    <2>3. QED
        BY <2>1, <2>2 DEF BufsInv
<1>6. LeaderInv'
    <2>1. /\ DOMAIN leader' = DOMAIN leader \cup {t.cpu}
          /\ \A c \in DOMAIN leader : leader'[c] = leader[c]
          /\ leads => leader'[t.cpu] = id
        <3>1. CASE leads
            BY <1>1, <3>1 DEF Led
        <3>2. CASE ~ leads
            BY <1>1, <3>2
        <3>3. QED
            BY <3>1, <3>2
    <2>2. ASSUME NEW c \in DOMAIN leader'
          PROVE  /\ leader'[c] \in DOMAIN ev'
                 /\ ev'[leader'[c]].cpu = c /\ ev'[leader'[c]].out = leader'[c]
        <3>1. CASE c \in DOMAIN leader
            BY <1>2, <2>1, <3>1 DEF BuildInv, LeaderInv
        <3>2. CASE leads /\ c = t.cpu
            BY <1>2, <1>3, <2>1, <3>2
        <3>3. QED
            BY <2>1, <3>1, <3>2
    <2>3. ASSUME NEW i \in DOMAIN ev'
          PROVE  ev'[i].cpu \in DOMAIN leader' /\ ev'[i].out = leader'[ev'[i].cpu]
        <3>1. CASE i \in DOMAIN ev
            BY <1>2, <2>1, <3>1 DEF BuildInv, LeaderInv
        <3>2. CASE i = id
            BY <1>2, <1>3, <2>1, <3>2
        <3>3. QED
            BY <1>2, <3>1, <3>2
    <2>4. QED
        BY <2>2, <2>3 DEF LeaderInv
<1>7. CallInv' /\ PhaseInv'
    <2>1. cur' = [fd |-> cur'.fd, got |-> cur'.got, filter |-> cur'.filter,
                  before |-> cur'.before] /\ cur'.fd = cur.fd
        BY <1>1 DEF BuildInv, CallInv
    <2>2. QED
        BY <1>1, <2>1 DEF BuildInv, CallInv, PhaseInv, Free, BpfMap, TableInv
<1>8. QED
    BY <1>2, <1>4, <1>5, <1>6, <1>7 DEF BuildInv

(* Steps that open or close a descriptor that is no perf event's.          *)
LEMMA OtherDescriptor ==
    ASSUME BuildInv, UNCHANGED <<ev, bufs, leader>>,
           NEW f, NEW v \in {Free, BpfMap, Foreign},
           fdt' = [fdt EXCEPT ![f] = v], f \in Fds => fdt[f] \notin DOMAIN ev,
           CallInv', PhaseInv'
    PROVE  BuildInv'
<1>1. Len(ev) \in Nat /\ DOMAIN ev = 1 .. Len(ev)
    BY LenProperties DEF BuildInv, EvSeq
<1>2. TableInv'
    <2>1. v \in Int /\ v <= Len(ev)
        BY <1>1 DEF Free, BpfMap, Foreign
    <2>2. fdt' \in [Fds -> Int] /\ \A g \in Fds : fdt'[g] \in {fdt[g], v}
        BY <2>1 DEF BuildInv, TableInv
    <2>3. QED
        BY <2>1, <2>2 DEF BuildInv, TableInv
<1>3. BufsInv'
    BY <1>1 DEF BuildInv, TableInv, BufsInv, Free, BpfMap, Foreign
<1>4. QED
    BY <1>2, <1>3 DEF BuildInv, EvSeq, EventInv, LeaderInv

(* Steps that change what an event does, and not where it records.         *)
LEMMA EventStep ==
    ASSUME BuildInv, UNCHANGED <<fdt, bufs, leader>>,
           ev' = [i \in DOMAIN ev |-> ev'[i]],
           \A i \in DOMAIN ev : /\ ev'[i].cpu = ev[i].cpu /\ ev'[i].out = ev[i].out
                                 /\ DOMAIN ev'[i] = DOMAIN ev[i],
           CallInv', PhaseInv'
    PROVE  BuildInv'
<1>1. EvSeq' /\ DOMAIN ev' = DOMAIN ev /\ Len(ev') = Len(ev)
    BY SameLength DEF BuildInv, EvSeq
<1>2. TableInv' /\ BufsInv'
    BY <1>1 DEF BuildInv, TableInv, BufsInv
<1>3. LeaderInv' /\ EventInv'
    BY <1>1 DEF BuildInv, LeaderInv, EventInv
<1>4. QED
    BY <1>1, <1>2, <1>3 DEF BuildInv

LEMMA TableClears ==
    ASSUME NEW S, NEW t \in [S -> Int], NEW d
    PROVE  LET u == [t EXCEPT ![d] = 0]
           IN  u \in [S -> Int] /\ \A g \in S : u[g] \in {t[g], 0}
<1> DEFINE u == [t EXCEPT ![d] = 0]
<1>1. u = [g \in S |-> IF g = d THEN 0 ELSE t[g]]
    OBVIOUS
<1> HIDE DEF u
<1>2. ASSUME NEW g \in S PROVE u[g] \in {t[g], 0} /\ u[g] \in Int
    <2>1. u[g] = IF g = d THEN 0 ELSE t[g]
        BY <1>1
    <2>2. QED
        BY <2>1
<1>3. u \in [S -> Int]
    BY <1>1, <1>2
<1>4. QED
    BY <1>2, <1>3 DEF u

LEMMA DropBufferKeeps ==
    ASSUME BuildInv, NEW b \in bufs, DropBuffer(b) PROVE BuildInv'
<1>1. Len(ev) \in Nat /\ DOMAIN ev = 1 .. Len(ev)
    BY LenProperties DEF BuildInv, EvSeq
<1>2. TableInv'
    <2>1. fdt' \in [Fds -> Int] /\ \A g \in Fds : fdt'[g] \in {fdt[g], 0}
        BY TableClears DEF DropBuffer, Free, BuildInv, TableInv
    <2>2. QED
        BY <1>1, <2>1 DEF BuildInv, TableInv, DropBuffer
<1>3. BufsInv'
    <2>1. ASSUME NEW c \in bufs' PROVE c.fd # b.fd
        BY <2>1, Zenon DEF BuildInv, BufsInv, DropBuffer
    <2>2. ASSUME NEW c \in bufs'
          PROVE  /\ c = [id |-> c.id, fd |-> c.fd]
                 /\ c.id \in DOMAIN ev' /\ c.fd \in Fds /\ fdt'[c.fd] = c.id
        BY <2>1 DEF BuildInv, BufsInv, DropBuffer, TableInv
    <2>3. ASSUME NEW f \in Fds, fdt'[f] \in DOMAIN ev'
          PROVE  [id |-> fdt'[f], fd |-> f] \in bufs'
        <3>1. f # b.fd
            BY <1>1, <2>3 DEF BuildInv, BufsInv, DropBuffer, TableInv, Free
        <3>2. fdt'[f] = fdt[f] /\ [id |-> fdt[f], fd |-> f] \in bufs
            BY <2>3, <3>1 DEF BuildInv, BufsInv, DropBuffer, TableInv
        <3>3. QED
            BY <3>1, <3>2 DEF DropBuffer
    <2>4. QED
        BY <2>2, <2>3 DEF BufsInv
<1>4. CallInv' /\ PhaseInv'
    BY <1>1 DEF BuildInv, CallInv, PhaseInv, DropBuffer
<1>5. QED
    BY <1>2, <1>3, <1>4 DEF BuildInv, EvSeq, EventInv, LeaderInv, DropBuffer

LEMMA BuilderStepKeeps == BuildInv /\ BuilderStep => BuildInv'
<1> SUFFICES ASSUME BuildInv, BuilderStep PROVE BuildInv'
    OBVIOUS
<1>1. /\ UNCHANGED <<fdt, ev, bufs, leader, cur>>
      /\ phase = "builder" /\ phase' \in {"builder", "gone", "building"}
    BY DEF BuilderStep, WithTargetPid, WithTargetCpu, WithPageCount,
           WithWakeupWatermark, WithEvents, TakeEvents, Option, BuildRejected,
           Build, kernelVars, sourceVars
<1>2. CallInv' /\ PhaseInv'
    BY <1>1 DEF BuildInv, CallInv, PhaseInv
<1>3. QED
    BY <1>1, <1>2, QuietStep

LEMMA SessionStepKeeps == BuildInv /\ SessionStep => BuildInv'
<1> SUFFICES ASSUME BuildInv, SessionStep PROVE BuildInv'
    OBVIOUS
<1> USE DEF kernelVars, sourceVars
<1>1. Len(ev) \in Nat /\ DOMAIN ev = 1 .. Len(ev)
    BY LenProperties DEF BuildInv, EvSeq
<1>2. CASE OpenBuffer
    BY <1>2, OpenBufferKeeps
<1>3. CASE OpenFails
    <2>1. CallInv' /\ PhaseInv'
        BY <1>3 DEF OpenFails, CallInv, PhaseInv, NoCall, Opening
    <2>2. CASE phase = "attaching"
        <3>1. fdt' = [fdt EXCEPT ![cur.fd] = Free] /\ UNCHANGED <<ev, bufs, leader>>
            BY <1>3, <2>2 DEF OpenFails
        <3>2. fdt[cur.fd] \notin DOMAIN ev
            BY <1>1, <2>2 DEF BuildInv, CallInv, BpfMap
        <3>3. QED
            BY <2>1, <3>1, <3>2, OtherDescriptor
    <2>3. CASE phase # "attaching"
        BY <1>3, <2>1, <2>3, QuietStep DEF OpenFails
    <2>4. QED
        BY <2>2, <2>3
<1>4. CASE BuildDone \/ AttachDone
    <2>1. CallInv' /\ PhaseInv'
        BY <1>4 DEF BuildDone, AttachDone, CallInv, PhaseInv, NoCall
    <2>2. QED
        BY <1>4, <2>1, QuietStep DEF BuildDone, AttachDone
<1>5. ASSUME NEW failed \in SUBSET {b.id : b \in bufs}, AddEventDone(failed)
      PROVE  BuildInv'
    <2>1. CallInv' /\ PhaseInv'
        BY <1>5 DEF AddEventDone, CallInv, PhaseInv, NoCall
    <2>2. /\ ev' = [i \in DOMAIN ev |-> ev'[i]]
          /\ \A i \in DOMAIN ev : /\ ev'[i].cpu = ev[i].cpu /\ ev'[i].out = ev[i].out
                                  /\ DOMAIN ev'[i] = DOMAIN ev[i]
        BY <1>5 DEF AddEventDone, BuildInv, EventInv
    <2>3. QED
        BY <1>5, <2>1, <2>2, EventStep DEF AddEventDone
<1>6. CASE SetMapElement
    <2>1. CallInv' /\ PhaseInv'
        BY <1>6 DEF SetMapElement, BuildInv, CallInv, PhaseInv
    <2>2. QED
        BY <1>6, <2>1, QuietStep DEF SetMapElement
<1>7. CASE SetMapElementFails
    <2>1. CallInv' /\ PhaseInv'
        BY <1>7 DEF SetMapElementFails, CallInv, PhaseInv, NoCall
    <2>2. fdt' = [fdt EXCEPT ![cur.fd] = Free] /\ UNCHANGED <<ev, bufs, leader>>
        BY <1>7 DEF SetMapElementFails
    <2>3. fdt[cur.fd] \notin DOMAIN ev
        BY <1>1, <1>7 DEF SetMapElementFails, BuildInv, CallInv, BpfMap
    <2>4. QED
        BY <2>1, <2>2, <2>3, OtherDescriptor
<1>8. ASSUME NEW b \in bufs, SwitchBuffer(b)
      PROVE  BuildInv'
    <2>1. CallInv' /\ PhaseInv'
        BY <1>8 DEF SwitchBuffer, BuildInv, CallInv, PhaseInv
    <2>2. /\ ev' = [i \in DOMAIN ev |-> ev'[i]]
          /\ \A i \in DOMAIN ev : /\ ev'[i].cpu = ev[i].cpu /\ ev'[i].out = ev[i].out
                                  /\ DOMAIN ev'[i] = DOMAIN ev[i]
        <3> DEFINE k == fdt[b.fd]
                   v == phase = "enable"
        <3>1. ev' = [ev EXCEPT ![k] = [ev[k] EXCEPT !.on = v]]
            BY <1>8 DEF SwitchBuffer
        <3> HIDE DEF k, v
        <3>2. \A i \in DOMAIN ev : {"cpu", "out"} \subseteq DOMAIN ev[i]
            BY DEF BuildInv, EventInv
        <3>3. QED
            BY <3>1, <3>2
    <2>3. QED
        BY <1>8, <2>1, <2>2, EventStep DEF SwitchBuffer
<1>9. ASSUME NEW b \in bufs, DropBuffer(b)
      PROVE  BuildInv'
    BY <1>9, DropBufferKeeps
<1>10. CASE SwitchFails \/ SwitchDone \/ DropDone
    <2>1. CallInv' /\ PhaseInv'
        BY <1>10 DEF SwitchFails, SwitchDone, DropDone, BuildInv, CallInv, PhaseInv
    <2>2. QED
        BY <1>10, <2>1, QuietStep DEF SwitchFails, SwitchDone, DropDone
<1>11. CASE DropFile
    <2>1. CallInv' /\ PhaseInv'
        BY <1>11 DEF DropFile, BuildInv, CallInv, PhaseInv
    <2>2. /\ fdt' = [fdt EXCEPT ![Head(files)] = Free] /\ UNCHANGED <<ev, bufs, leader>>
          /\ bufs = {}
        BY <1>11 DEF DropFile
    <2>3. Head(files) \in Fds => fdt[Head(files)] \notin DOMAIN ev
        BY <2>2 DEF BuildInv, BufsInv
    <2>4. QED
        BY <2>1, <2>2, <2>3, OtherDescriptor
<1>12. QED
    BY <1>2, <1>3, <1>4, <1>5, <1>6, <1>7, <1>8, <1>9, <1>10, <1>11 DEF SessionStep

LEMMA CallStepKeeps == BuildInv /\ (CallStep \/ ForeignOpen) => BuildInv'
<1> SUFFICES ASSUME BuildInv, CallStep \/ ForeignOpen PROVE BuildInv'
    OBVIOUS
<1> USE DEF kernelVars, sourceVars
<1>1. Len(ev) \in Nat /\ DOMAIN ev = 1 .. Len(ev)
    BY LenProperties DEF BuildInv, EvSeq
<1>2. ASSUME NEW noCpuMask \in BOOLEAN, NEW filter \in BOOLEAN,
             AddEvent(noCpuMask, filter)
      PROVE  BuildInv'
    <2>1. PhaseInv'
        BY <1>2 DEF AddEvent, Call, PhaseInv
    <2>2. CallInv'
        BY <1>2 DEF AddEvent, Call, BuildInv, CallInv, NoCall
    <2>3. QED
        BY <1>2, <2>1, <2>2, QuietStep DEF AddEvent
<1>3. ASSUME NEW noCpuMask \in BOOLEAN, AttachToBpfMap(noCpuMask)
      PROVE  BuildInv'
    <2>1. LowestFd \in Fds /\ fdt[LowestFd] = Free
        BY <1>3, LowestIsFree DEF AttachToBpfMap
    <2>2. /\ fdt' = [fdt EXCEPT ![LowestFd] = BpfMap]
          /\ cur' = [NoCall EXCEPT !.fd = LowestFd]
          /\ phase' = "attaching" /\ UNCHANGED <<ev, bufs, leader>>
        BY <1>3 DEF AttachToBpfMap
    <2>3. CallInv' /\ PhaseInv'
        BY <2>1, <2>2 DEF CallInv, PhaseInv, NoCall, BuildInv, TableInv
    <2>4. fdt[LowestFd] \notin DOMAIN ev
        BY <1>1, <2>1 DEF Free
    <2>5. QED
        BY <2>2, <2>3, <2>4, OtherDescriptor
<1>4. CASE Switch("enable") \/ Switch("disable") \/ DropSession
    <2>1. CallInv' /\ PhaseInv'
        BY <1>4 DEF Switch, DropSession, Call, BuildInv, CallInv, PhaseInv
    <2>2. QED
        BY <1>4, <2>1, QuietStep DEF Switch, DropSession
<1>5. CASE ForeignOpen
    <2>1. LowestFd \in Fds /\ fdt[LowestFd] = Free
        BY <1>5, LowestIsFree DEF ForeignOpen
    <2>2. CallInv' /\ PhaseInv'
        BY <1>5 DEF ForeignOpen, CallInv, PhaseInv, BuildInv
    <2>3. fdt[LowestFd] \notin DOMAIN ev
        BY <1>1, <2>1 DEF Free
    <2>4. fdt' = [fdt EXCEPT ![LowestFd] = Foreign] /\ UNCHANGED <<ev, bufs, leader>>
        BY <1>5 DEF ForeignOpen
    <2>5. QED
        BY <2>2, <2>3, <2>4, OtherDescriptor
<1>6. QED
    BY <1>2, <1>3, <1>4, <1>5 DEF CallStep

-----------------------------------------------------------------------------
(* The inductive invariant of the descriptors, buffers and leaders of a    *)
(* session (RingBufDataSource, CpuRingBuf, PerfSession) holds whatever is  *)
(* called and whatever fails.                                              *)
THEOREM BuildInvariant == Spec => []BuildInv
<1>1. BuildInv /\ [Next]_vars => BuildInv'
    <2> SUFFICES ASSUME BuildInv, [Next]_vars PROVE BuildInv'
        OBVIOUS
    <2>1. CASE UNCHANGED vars
        BY <2>1 DEF vars, kernelVars, sourceVars, BuildInv, EvSeq, EventInv, TableInv,
                    BufsInv, LeaderInv, CallInv, PhaseInv
    <2>2. QED
        BY <2>1, BuilderStepKeeps, SessionStepKeeps, CallStepKeeps DEF Next
<1>2. QED
    BY <1>1, InitBuild, PTL DEF Spec

(* A perf event with an open descriptor is in ring_bufs under one that is  *)
(* still its own (add_cpu_bufs inserts before it can fail again).          *)
THEOREM RecordingKnown == Spec => []RecordingIsKnown
<1>1. BuildInv => RecordingIsKnown
    BY DEF BuildInv, BufsInv, RecordingIsKnown
<1>2. QED
    BY <1>1, BuildInvariant, PTL

(* Every buffer is redirected to the leader of its own CPU, which leads    *)
(* itself (redirect_to, create_reader).                                    *)
THEOREM RingOfOwnCpu == Spec => []OwnCpuRing
<1>1. BuildInv => OwnCpuRing
    BY DEF BuildInv, BufsInv, LeaderInv, OwnCpuRing
<1>2. QED
    BY <1>1, BuildInvariant, PTL

(* A session that is gone has closed every perf descriptor it opened, also *)
(* when build() failed half way and when attach_to_bpf_map closed a        *)
(* descriptor more than once.                                              *)
THEOREM PerfFdsClosed == Spec => []NoPerfFdLeaks
<1>1. BuildInv => NoPerfFdLeaks
    BY DEF BuildInv, BufsInv, PhaseInv, NoPerfFdLeaks
<1>2. QED
    BY <1>1, BuildInvariant, PTL
=============================================================================

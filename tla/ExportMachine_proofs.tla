------------------------ MODULE ExportMachine_proofs ------------------------
(***************************************************************************)
(* For every set of threads, every mapping and every number of records:    *)
(* the sort of the replay is a stable sort, and the replay gives all there *)
(* is; a wait that the exporter records is one that its thread really had; *)
(* the lookup of mappings finds what a scan of all of them would, every    *)
(* sample finds the mapping that held its code, and its address resolves   *)
(* to the name of the symbol that covers it.                               *)
(***************************************************************************)
EXTENDS ExportMachine, FiniteSetTheorems, SequenceTheorems, WellFoundedInduction,
        TLAPS

IsSeq(s) == s \in Seq({s[i] : i \in DOMAIN s})

Timed(s) == IsSeq(s) /\ \A i \in DOMAIN s : s[i].time \in Nat

-----------------------------------------------------------------------------
(* The sort.                                                               *)

Precedes(s, i, j) ==
    s[i].time < s[j].time \/ (s[i].time = s[j].time /\ i < j)

LEMMA SeqDomain ==
    ASSUME NEW s, IsSeq(s)
    PROVE  DOMAIN s = 1 .. Len(s) /\ Len(s) \in Nat
  BY LenProperties DEF IsSeq

(* What is not after an element is counted.                                *)
LEMMA NotAfterCount ==
    ASSUME NEW s, Timed(s), NEW i \in DOMAIN s
    PROVE  /\ IsFiniteSet(NotAfter(s, i))
           /\ Cardinality(NotAfter(s, i)) \in DOMAIN s
  <1>1. DOMAIN s = 1 .. Len(s) /\ Len(s) \in Nat
    BY SeqDomain DEF Timed
  <1>2. IsFiniteSet(1 .. Len(s)) /\ Cardinality(1 .. Len(s)) = Len(s)
    <2>1. 1 \in Int /\ Len(s) \in Int
      BY <1>1
    <2>2. /\ IsFiniteSet(1 .. Len(s))
          /\ Cardinality(1 .. Len(s)) = IF 1 > Len(s) THEN 0 ELSE Len(s) - 1 + 1
      BY <2>1, FS_Interval, Zenon
    <2> QED BY <1>1, <2>2
  <1>3. NotAfter(s, i) \subseteq 1 .. Len(s) /\ i \in NotAfter(s, i)
    BY <1>1 DEF NotAfter
  <1>4. /\ IsFiniteSet(NotAfter(s, i))
        /\ Cardinality(NotAfter(s, i)) <= Len(s)
    BY <1>2, <1>3, FS_Subset
  <1>5. Cardinality(NotAfter(s, i)) \in Nat
    BY <1>4, FS_CardinalityType
  <1>6. Cardinality(NotAfter(s, i)) # 0
    BY <1>3, <1>4, FS_EmptySet
  <1> QED BY <1>1, <1>4, <1>5, <1>6

(* An element that precedes another has fewer before it.                   *)
LEMMA PrecedesCount ==
    ASSUME NEW s, Timed(s), NEW i \in DOMAIN s, NEW j \in DOMAIN s,
           Precedes(s, i, j)
    PROVE  Cardinality(NotAfter(s, i)) < Cardinality(NotAfter(s, j))
  <1>1. DOMAIN s = 1 .. Len(s) /\ Len(s) \in Nat
    BY SeqDomain DEF Timed
  <1>2. \A k \in DOMAIN s : s[k].time \in Nat /\ k \in Nat
    BY <1>1 DEF Timed
  <1>3. NotAfter(s, i) \subseteq NotAfter(s, j)
    BY <1>2 DEF NotAfter, Precedes
  <1>4. j \in NotAfter(s, j) /\ j \notin NotAfter(s, i)
    BY <1>2 DEF NotAfter, Precedes
  <1>5. /\ IsFiniteSet(NotAfter(s, i)) /\ IsFiniteSet(NotAfter(s, j))
        /\ Cardinality(NotAfter(s, i)) \in Nat
        /\ Cardinality(NotAfter(s, j)) \in Nat
    BY <1>1, NotAfterCount
  <1>6. /\ Cardinality(NotAfter(s, i)) <= Cardinality(NotAfter(s, j))
        /\ Cardinality(NotAfter(s, i)) # Cardinality(NotAfter(s, j))
    BY <1>3, <1>4, <1>5, FS_Subset
  <1> QED BY <1>5, <1>6

(* Of two elements one precedes the other.                                 *)
LEMMA PrecedesTotal ==
    ASSUME NEW s, Timed(s), NEW i \in DOMAIN s, NEW j \in DOMAIN s, i # j
    PROVE  Precedes(s, i, j) \/ Precedes(s, j, i)
  <1>1. DOMAIN s = 1 .. Len(s) /\ Len(s) \in Nat
    BY SeqDomain DEF Timed
  <1>2. s[i].time \in Nat /\ s[j].time \in Nat /\ i \in Nat /\ j \in Nat
    BY <1>1 DEF Timed
  <1> QED BY <1>2 DEF Precedes

(* Every place of the order is one element's.                              *)
LEMMA ComesExists ==
    ASSUME NEW s, Timed(s), NEW k \in DOMAIN s
    PROVE  /\ Comes(s, k) \in DOMAIN s
           /\ Cardinality(NotAfter(s, Comes(s, k))) = k
  <1> DEFINE D == DOMAIN s
             f == [i \in D |-> Cardinality(NotAfter(s, i))]
  <1>1. D = 1 .. Len(s) /\ Len(s) \in Nat
    BY SeqDomain DEF Timed
  <1>2. IsFiniteSet(D)
    BY <1>1, FS_Interval
  <1>3. f \in [D -> D]
    BY NotAfterCount
  <1>4. \A i, j \in D : f[i] = f[j] => i = j
    <2> SUFFICES ASSUME NEW i \in D, NEW j \in D, i # j PROVE f[i] # f[j]
      OBVIOUS
    <2>1. f[i] \in Nat /\ f[j] \in Nat
      BY <1>1, <1>3
    <2>2. f[i] < f[j] \/ f[j] < f[i]
      BY PrecedesTotal, PrecedesCount
    <2> QED BY <2>1, <2>2
  <1>5. f \in Injection(D, D)
    BY <1>3, <1>4 DEF Injection, IsInjective
  <1>6. f \in Surjection(D, D)
    BY <1>2, <1>5, FS_Injection
  <1>7. \E i \in D : Cardinality(NotAfter(s, i)) = k
    BY <1>6 DEF Surjection
  <1> QED BY <1>7 DEF Comes

(* SortByTime is a stable sort, for every sequence of any length: the      *)
(* elements come in the order of their times, those of one time in the     *)
(* order they had, and each of them once (sort in ExportProcess).          *)
THEOREM StableSort ==
    ASSUME NEW s, Timed(s)
    PROVE  /\ DOMAIN SortByTime(s) = DOMAIN s
           /\ \A k \in DOMAIN s : /\ Comes(s, k) \in DOMAIN s
                                  /\ SortByTime(s)[k] = s[Comes(s, k)]
           /\ \A i \in DOMAIN s : \E k \in DOMAIN s : Comes(s, k) = i
           /\ \A k, l \in DOMAIN s :
                    k < l => Precedes(s, Comes(s, k), Comes(s, l))
  <1>1. \A k \in DOMAIN s : /\ Comes(s, k) \in DOMAIN s
                            /\ Cardinality(NotAfter(s, Comes(s, k))) = k
    BY ComesExists
  <1>2. DOMAIN s = 1 .. Len(s) /\ Len(s) \in Nat
    BY SeqDomain DEF Timed
  <1>3. \A i \in DOMAIN s : \E k \in DOMAIN s : Comes(s, k) = i
    <2> SUFFICES ASSUME NEW i \in DOMAIN s
                 PROVE  \E k \in DOMAIN s : Comes(s, k) = i
      OBVIOUS
    <2> DEFINE k == Cardinality(NotAfter(s, i))
    <2>1. k \in DOMAIN s
      BY NotAfterCount
    <2>2. Comes(s, k) \in DOMAIN s /\ Cardinality(NotAfter(s, Comes(s, k))) = k
      BY <1>1, <2>1
    <2>3. ASSUME Comes(s, k) # i PROVE FALSE
      <3>1. \/ Cardinality(NotAfter(s, i)) < Cardinality(NotAfter(s, Comes(s, k)))
            \/ Cardinality(NotAfter(s, Comes(s, k))) < Cardinality(NotAfter(s, i))
        BY <2>2, <2>3, PrecedesTotal, PrecedesCount
      <3> QED BY <1>2, <2>1, <2>2, <3>1
    <2> QED BY <2>1, <2>3
  <1>4. ASSUME NEW k \in DOMAIN s, NEW l \in DOMAIN s, k < l
        PROVE  Precedes(s, Comes(s, k), Comes(s, l))
    <2>1. k \in Nat /\ l \in Nat
      BY <1>2
    <2>2. Comes(s, k) # Comes(s, l)
      BY <1>1, <1>4, <2>1
    <2>3. ~ Precedes(s, Comes(s, l), Comes(s, k))
      <3>1. Precedes(s, Comes(s, l), Comes(s, k)) => l < k
        BY <1>1, PrecedesCount
      <3> QED BY <1>4, <2>1, <3>1
    <2> QED BY <1>1, <2>2, <2>3, PrecedesTotal
  <1> QED BY <1>1, <1>3, <1>4 DEF SortByTime
-----------------------------------------------------------------------------
(* The inductive invariant of the waits.                                   *)

(* What is kept of a switch out until the thread runs again.               *)
WaitOf(t, chain) ==
    [kind |-> "wait", time |-> chain, dur |-> 0, tid |-> t,
     ip |-> KERNEL_START, chain |-> chain, real |-> FALSE, at |-> NoPage]

States == {"off", "run", "sampled", "switched"}

ThreadShape(r) ==
    /\ r = [proc |-> r.proc, dead |-> r.dead, state |-> r.state,
            out |-> r.out, chain |-> r.chain]
    /\ r.state \in States

StashShape(t) ==
    /\ Stash(t) = [start |-> Stash(t).start, sample |-> Stash(t).sample]
    /\ Stash(t).start \in Nat
    /\ Stash(t).sample # NoSample =>
            Stash(t).sample = WaitOf(t, Stash(t).sample.chain)

ThreadsInv ==
    /\ clock \in Nat
    /\ DOMAIN thread = Ids
    /\ \A t \in Ids : ThreadShape(thread[t]) /\ StashShape(t)

(* What the stash holds in each state of a thread whose id is its first    *)
(* owner's: both halves of a wait, in whichever order they came, are of    *)
(* the last switch out.                                                    *)
WaitAt(t) ==
    /\ thread[t].proc = 0 => thread[t].state = "off" /\ Stash(t).start = 0
    /\ thread[t].state = "run" => Stash(t).start = 0 /\ Stash(t).sample = NoSample
    /\ thread[t].state = "sampled" =>
            Stash(t).start = 0 /\ Stash(t).sample.chain = thread[t].chain
    /\ thread[t].state = "switched" =>
            Stash(t).start \in {0, thread[t].out} /\ Stash(t).sample = NoSample
    /\ thread[t].state = "off" =>
            \/ Stash(t).start = 0 \/ Stash(t).sample = NoSample
            \/ /\ Stash(t).start = thread[t].out
               /\ Stash(t).sample.chain = thread[t].chain

WaitInv == \A t \in Ids \ reused : WaitAt(t)

ProcShape(e) ==
    e = [root |-> e.root, create |-> e.create, exit |-> e.exit,
         samples |-> e.samples, maps |-> e.maps]

Real(s) == s.real \/ s.tid \in reused

SamplesInv ==
    \A p \in DOMAIN procs :
        /\ ProcShape(procs[p]) /\ Timed(procs[p].samples)
        /\ \A i \in DOMAIN procs[p].samples : Real(procs[p].samples[i])

MachineInv == ThreadsInv /\ WaitInv /\ SamplesInv

-----------------------------------------------------------------------------
(* Threads and their stashes.                                              *)

(* A thread that a step leaves alone.                                      *)
LEMMA ThreadFrame ==
    ASSUME NEW t \in Ids, ThreadShape(thread[t]), StashShape(t),
           thread'[t] = thread[t], Stash(t)' = Stash(t)
    PROVE  ThreadShape(thread[t])' /\ StashShape(t)' /\ (WaitAt(t) => WaitAt(t)')
  BY DEF ThreadShape, StashShape, WaitAt

(* The steps that touch no thread and no stash.                            *)
Aloof == UNCHANGED <<thread, cswitches, reused>> /\ clock' \in Nat

LEMMA Steps ==
    ASSUME [Next]_vars, ThreadsInv
    PROVE  \/ Aloof
           \/ \E t, c \in Ids : Fork(t, c) \/ Clone(t, c)
           \/ \E t \in Ids : \/ CswitchSample(t) \/ SwitchOut(t)
                             \/ SwitchIn(t) \/ Exit(t)
  <1>0. \A n \in Nat : clock + n \in Nat
    BY DEF ThreadsInv
  <1>1. ASSUME NEW s \in Sampled PROVE s[2] \in Nat
    BY SampledAssumption
  <1>2. CASE UNCHANGED vars
    BY <1>2 DEF vars, kernelVars, machineVars, Aloof, ThreadsInv
  <1>3. CASE EnvStep
    BY <1>0, <1>3 DEF EnvStep, EnvComm, EnvRead, EnvWrite, Event, Aloof,
                      kernelVars, machineVars, ThreadsInv
  <1>4. CASE Export
    BY <1>4 DEF Export, Aloof, kernelVars, ThreadsInv
  <1>5. CASE KernelStep
    <2>1. ASSUME NEW t \in Ids, NEW range \in Ranges, MmapNoExec(t, range)
          PROVE  Aloof
      BY <1>0, <2>1 DEF MmapNoExec, Event, Aloof, machineVars
    <2>2. ASSUME NEW t \in Ids, Exec(t) PROVE Aloof
      BY <1>0, <2>2 DEF Exec, Event, Aloof
    <2>3. ASSUME NEW t \in Ids, NEW range \in Ranges, NEW off \in Offsets,
                 Mmap(t, range, off)
          PROVE  Aloof
      BY <1>0, <2>3 DEF Mmap, Event, Aloof
    <2>4. ASSUME NEW t \in Ids, NEW s \in Sampled, CpuSample(t, s[1], s[2])
          PROVE  Aloof
      BY <1>0, <1>1, <2>4 DEF CpuSample, Event, Aloof, kernelVars
    <2>5. ASSUME NEW s \in Sampled, OutsideSample(s[1], s[2]) PROVE Aloof
      BY <1>0, <1>1, <2>5 DEF OutsideSample, Event, Aloof, kernelVars
    <2>6. CASE OutsideFork \/ OutsideOther
      BY <1>0, <2>6 DEF OutsideFork, OutsideOther, Event, Aloof, kernelVars
    <2> QED BY <1>5, <2>1, <2>2, <2>3, <2>4, <2>5, <2>6 DEF KernelStep
  <1> QED BY <1>2, <1>3, <1>4, <1>5 DEF Next

(* Every step keeps the threads and what is stashed of them.               *)
LEMMA ThreadsStep ==
    ThreadsInv /\ WaitInv /\ [Next]_vars => ThreadsInv' /\ WaitInv'
  <1> SUFFICES ASSUME ThreadsInv, WaitInv, [Next]_vars
               PROVE  ThreadsInv' /\ WaitInv'
    OBVIOUS
  <1>0. clock + 1 \in Nat
    BY DEF ThreadsInv
  <1>1. \A t \in Ids : ThreadShape(thread[t]) /\ StashShape(t)
    BY DEF ThreadsInv
  <1>2. CASE Aloof
    <2>1. \A t \in Ids : Stash(t)' = Stash(t)
      BY <1>2 DEF Aloof, Stash
    <2> QED BY <1>1, <1>2, <2>1, ThreadFrame DEF Aloof, ThreadsInv, WaitInv
  <1>a. ASSUME clock' \in Nat, DOMAIN thread' = Ids, reused \subseteq reused',
               NEW u \in Ids,
               \A t \in Ids \ {u} : thread'[t] = thread[t] /\ Stash(t)' = Stash(t),
               ThreadShape(thread[u])', StashShape(u)',
               u \notin reused' => WaitAt(u)'
        PROVE  ThreadsInv' /\ WaitInv'
    BY <1>1, <1>a, ThreadFrame DEF ThreadsInv, WaitInv
  <1>3. ASSUME NEW t \in Ids, NEW c \in Ids, Fork(t, c) \/ Clone(t, c)
        PROVE  ThreadsInv' /\ WaitInv'
    <2>1. /\ clock' \in Nat /\ UNCHANGED cswitches
          /\ \E g : NewThread(t, c, g)
      BY <1>0, <1>3 DEF Fork, Clone, Event, machineVars
    <2>2. PICK g : NewThread(t, c, g)
      BY <2>1
    <2>3. /\ DOMAIN thread' = Ids /\ reused \subseteq reused'
          /\ thread'[c] = [NoThread EXCEPT !.proc = g]
          /\ \A u \in Ids \ {c} : thread'[u] = thread[u]
          /\ c \notin reused' => thread[c].proc = 0 /\ c \notin reused
      BY <2>2 DEF NewThread, ThreadsInv
    <2>4. \A u \in Ids : Stash(u)' = Stash(u)
      BY <2>1 DEF Stash
    <2>5. /\ ThreadShape(thread[c])'
          /\ thread'[c].state = "off"
      BY <2>3 DEF NoThread, ThreadShape, States
    <2>6. StashShape(c)'
      BY <1>1, <2>4 DEF StashShape
    <2>7. c \notin reused' => Stash(c)'.start = 0
      BY <2>3, <2>4 DEF WaitInv, WaitAt
    <2>8. c \notin reused' => WaitAt(c)'
      BY <2>5, <2>7 DEF WaitAt
    <2> QED BY <1>a, <2>1, <2>3, <2>4, <2>5, <2>6, <2>8
  <1>4. ASSUME NEW t \in Ids, Exit(t) PROVE ThreadsInv' /\ WaitInv'
    <2>1. clock' \in Nat /\ UNCHANGED <<cswitches, reused>>
      BY <1>0, <1>4 DEF Exit, Event
    <2>2. /\ DOMAIN thread' = Ids
          /\ thread'[t] = [thread[t] EXCEPT !.dead = TRUE]
          /\ \A u \in Ids \ {t} : thread'[u] = thread[u]
      BY <1>4 DEF Exit, ThreadsInv
    <2>3. \A u \in Ids : Stash(u)' = Stash(u)
      BY <2>1 DEF Stash
    <2>4. /\ thread'[t].state = thread[t].state /\ thread'[t].out = thread[t].out
          /\ thread'[t].chain = thread[t].chain /\ thread'[t].proc = thread[t].proc
          /\ ThreadShape(thread[t])'
      BY <1>1, <2>2 DEF ThreadShape
    <2>5. StashShape(t)'
      BY <1>1, <2>3 DEF StashShape
    <2>6. t \notin reused' => WaitAt(t)'
      BY <2>1, <2>3, <2>4 DEF WaitAt, WaitInv
    <2> QED BY <1>a, <2>1, <2>2, <2>3, <2>4, <2>5, <2>6
  <1>5. ASSUME NEW t \in Ids, CswitchSample(t) PROVE ThreadsInv' /\ WaitInv'
    <2>1. clock' \in Nat /\ UNCHANGED reused
      BY <1>0, <1>5 DEF CswitchSample, Event
    <2>2. /\ DOMAIN thread' = Ids
          /\ thread'[t] = [thread[t] EXCEPT
                !.state = IF @ = "run" THEN "sampled" ELSE "off", !.chain = clock']
          /\ \A u \in Ids \ {t} : thread'[u] = thread[u]
          /\ thread[t].proc # 0 /\ thread[t].state \in {"run", "switched"}
      BY <1>5 DEF CswitchSample, ThreadsInv
    <2>3. /\ Stash(t)' = [Stash(t) EXCEPT !.sample = WaitOf(t, clock')]
          /\ \A u \in Ids \ {t} : Stash(u)' = Stash(u)
      BY <1>5 DEF CswitchSample, SetStash, Stash, WaitOf
    <2>4. /\ thread'[t].state = IF thread[t].state = "run" THEN "sampled" ELSE "off"
          /\ thread'[t].out = thread[t].out /\ thread'[t].chain = clock'
          /\ thread'[t].proc = thread[t].proc
          /\ ThreadShape(thread[t])'
      BY <1>1, <2>2 DEF ThreadShape, States
    <2>5. /\ Stash(t)'.start = Stash(t).start
          /\ Stash(t)'.sample = WaitOf(t, clock')
          /\ Stash(t)' = [start |-> Stash(t).start, sample |-> WaitOf(t, clock')]
      BY <1>1, <2>3 DEF StashShape
    <2>6. WaitOf(t, clock').chain = clock'
      BY DEF WaitOf
    <2>7. StashShape(t)'
      BY <1>1, <2>5, <2>6 DEF StashShape
    <2>8. t \notin reused' => WaitAt(t)'
      BY <2>1, <2>2, <2>4, <2>5, <2>6 DEF WaitAt, WaitInv
    <2> QED BY <1>a, <2>1, <2>2, <2>3, <2>4, <2>7, <2>8
  <1>6. ASSUME NEW t \in Ids, SwitchOut(t) PROVE ThreadsInv' /\ WaitInv'
    <2>1. clock' \in Nat /\ UNCHANGED reused
      BY <1>0, <1>6 DEF SwitchOut, Event
    <2>2. /\ DOMAIN thread' = Ids
          /\ thread'[t] = [thread[t] EXCEPT
                !.state = IF @ = "run" THEN "switched" ELSE "off", !.out = clock']
          /\ \A u \in Ids \ {t} : thread'[u] = thread[u]
          /\ thread[t].proc # 0 /\ thread[t].state \in {"run", "sampled"}
      BY <1>6 DEF SwitchOut, ThreadsInv
    <2>3. /\ \/ Stash(t)' = [Stash(t) EXCEPT !.start = clock']
             \/ Stash(t)' = Stash(t) /\ Stash(t).sample = NoSample
                    /\ Stash(t).start = 0
          /\ \A u \in Ids \ {t} : Stash(u)' = Stash(u)
      BY <1>6 DEF SwitchOut, Stash
    <2>4. /\ thread'[t].state = IF thread[t].state = "run" THEN "switched" ELSE "off"
          /\ thread'[t].out = clock' /\ thread'[t].chain = thread[t].chain
          /\ thread'[t].proc = thread[t].proc
          /\ ThreadShape(thread[t])'
      BY <1>1, <2>2 DEF ThreadShape, States
    <2>5. /\ Stash(t)'.sample = Stash(t).sample
          /\ Stash(t)' = [start |-> Stash(t)'.start, sample |-> Stash(t).sample]
          /\ \/ Stash(t)'.start = clock'
             \/ Stash(t)'.start = 0
      BY <1>1, <2>3 DEF StashShape
    <2>6. StashShape(t)'
      BY <1>1, <2>1, <2>5 DEF StashShape
    <2>7. t \notin reused' => WaitAt(t)'
      BY <2>1, <2>2, <2>4, <2>5 DEF WaitAt, WaitInv
    <2> QED BY <1>a, <2>1, <2>2, <2>3, <2>4, <2>6, <2>7
  <1>7. ASSUME NEW t \in Ids, SwitchIn(t) PROVE ThreadsInv' /\ WaitInv'
    <2>1. clock' \in Nat /\ UNCHANGED reused
      BY <1>0, <1>7 DEF SwitchIn, Event
    <2>2. /\ DOMAIN thread' = Ids
          /\ thread'[t] = [thread[t] EXCEPT !.state = "run"]
          /\ \A u \in Ids \ {t} : thread'[u] = thread[u]
          /\ thread[t].proc # 0
      BY <1>7 DEF SwitchIn, ThreadsInv
    <2>3. /\ Stash(t)' = [start |-> 0, sample |-> NoSample]
          /\ \A u \in Ids \ {t} : Stash(u)' = Stash(u)
      BY <1>7 DEF SwitchIn, Stash
    <2>4. /\ thread'[t].state = "run" /\ thread'[t].proc # 0
          /\ ThreadShape(thread[t])'
      BY <1>1, <2>2 DEF ThreadShape, States
    <2>5. StashShape(t)' /\ WaitAt(t)'
      BY <2>3, <2>4 DEF StashShape, WaitAt
    <2> QED BY <1>a, <2>1, <2>2, <2>3, <2>4, <2>5
  <1> QED BY <1>2, <1>3, <1>4, <1>5, <1>6, <1>7, Steps
-----------------------------------------------------------------------------
(* The samples.                                                            *)

(* A sequence that gets one element more.                                  *)
LEMMA AppendIsSeq ==
    ASSUME NEW s, IsSeq(s), NEW x
    PROVE  /\ IsSeq(Append(s, x))
           /\ \A i \in DOMAIN Append(s, x) :
                    \/ Append(s, x)[i] = x
                    \/ i \in DOMAIN s /\ Append(s, x)[i] = s[i]
  <1> DEFINE S == {s[i] : i \in DOMAIN s} \cup {x}
             a == Append(s, x)
             T == {a[i] : i \in DOMAIN a}
  <1>1. s \in Seq(S)
    BY SeqMonotonic DEF IsSeq
  <1>2. a \in Seq(S) /\ Len(a) = Len(s) + 1 /\ Len(s) \in Nat
    BY <1>1
  <1>3. \A i \in DOMAIN a : a[i] = x \/ (i \in DOMAIN s /\ a[i] = s[i])
    BY <1>1
  <1>4. a \in [1 .. Len(a) -> T] /\ Len(a) \in Nat
    <2>1. a \in [1 .. Len(a) -> S] /\ DOMAIN a = 1 .. Len(a)
      BY <1>2, LenProperties
    <2> HIDE DEF a, S
    <2> QED BY <1>2, <2>1
  <1>5. a \in Seq(T)
    <2> HIDE DEF a, T
    <2> QED BY <1>4, SeqDef
  <1> QED BY <1>3, <1>5 DEF IsSeq

(* The sorted samples are the samples.                                     *)
LEMMA SortKeeps ==
    ASSUME NEW s, Timed(s)
    PROVE  /\ Timed(SortByTime(s))
           /\ \A k \in DOMAIN SortByTime(s) :
                    \E i \in DOMAIN s : SortByTime(s)[k] = s[i]
  <1> DEFINE z == SortByTime(s)
             T == {z[k] : k \in DOMAIN z}
  <1>1. DOMAIN s = 1 .. Len(s) /\ Len(s) \in Nat
    BY SeqDomain DEF Timed
  <1>2. DOMAIN z = DOMAIN s /\ \A k \in DOMAIN s : \E i \in DOMAIN s : z[k] = s[i]
    BY StableSort
  <1>3. z \in [1 .. Len(s) -> T]
    <2>1. z = [k \in DOMAIN s |-> z[k]]
      BY DEF SortByTime
    <2> HIDE DEF z
    <2> QED BY <1>1, <1>2, <2>1
  <1>4. z \in Seq(T)
    <2> HIDE DEF z, T
    <2> QED BY <1>1, <1>3, SeqDef
  <1> QED BY <1>2, <1>4 DEF Timed, IsSeq

(* A process that gets other mappings, and other samples.                  *)
LEMMA ProcMaps ==
    ASSUME NEW r, ProcShape(r), NEW l
    PROVE  /\ ProcShape([r EXCEPT !.maps = l])
           /\ [r EXCEPT !.maps = l].samples = r.samples
  <1> DEFINE x == [r EXCEPT !.maps = l]
  <1>1. x = [root |-> r.root, create |-> r.create, exit |-> r.exit,
             samples |-> r.samples, maps |-> l]
    BY DEF ProcShape
  <1> HIDE DEF x
  <1>2. ProcShape(x) /\ x.samples = r.samples
    BY <1>1 DEF ProcShape
  <1> QED BY <1>2 DEF x

LEMMA ProcBoth ==
    ASSUME NEW r, ProcShape(r), NEW k, NEW l
    PROVE  /\ ProcShape([r EXCEPT !.samples = k, !.maps = l])
           /\ [r EXCEPT !.samples = k, !.maps = l].samples = k
  <1> DEFINE y == [r EXCEPT !.samples = k]
             x == [y EXCEPT !.maps = l]
  <1>1. y = [root |-> r.root, create |-> r.create, exit |-> r.exit,
             samples |-> k, maps |-> r.maps]
    BY DEF ProcShape
  <1>2. ProcShape(y) /\ y.samples = k
    <2> HIDE DEF y
    <2> QED BY <1>1 DEF ProcShape
  <1>3. ProcShape(x) /\ x.samples = k
    <2> HIDE DEF y
    <2> QED BY <1>2, ProcMaps
  <1>4. [r EXCEPT !.samples = k, !.maps = l] = x
    OBVIOUS
  <1> HIDE DEF x
  <1> QED BY <1>3, <1>4

LEMMA ProcRoot ==
    ASSUME NEW r, ProcShape(r), NEW c, NEW root
    PROVE  /\ ProcShape([r EXCEPT !.create = c, !.root = root])
           /\ [r EXCEPT !.create = c, !.root = root].samples = r.samples
  <1> DEFINE y == [r EXCEPT !.create = c]
             x == [y EXCEPT !.root = root]
  <1>1. y = [root |-> r.root, create |-> c, exit |-> r.exit,
             samples |-> r.samples, maps |-> r.maps]
    BY DEF ProcShape
  <1>2. x = [root |-> root, create |-> c, exit |-> r.exit,
             samples |-> r.samples, maps |-> r.maps]
    <2> HIDE DEF y
    <2> QED BY <1>1
  <1>3. [r EXCEPT !.create = c, !.root = root] = x
    OBVIOUS
  <1> HIDE DEF x
  <1>4. ProcShape(x) /\ x.samples = r.samples
    BY <1>2 DEF ProcShape
  <1> QED BY <1>3, <1>4

(* A process whose samples did not change, or that has none.               *)
KeptAt(p) ==
    /\ ProcShape(procs'[p])
    /\ \/ procs'[p].samples = << >>
       \/ p \in DOMAIN procs /\ procs'[p].samples = procs[p].samples

LEMMA SamplesKept ==
    ASSUME SamplesInv, reused \subseteq reused',
           \A p \in DOMAIN procs' : KeptAt(p)
    PROVE  SamplesInv'
  <1> SUFFICES ASSUME NEW p \in DOMAIN procs'
               PROVE  /\ ProcShape(procs'[p]) /\ Timed(procs'[p].samples)
                      /\ \A i \in DOMAIN procs'[p].samples :
                            Real(procs[p].samples[i])'
    BY DEF SamplesInv
  <1>1. Timed(<< >>)
    BY DEF Timed, IsSeq
  <1>2. CASE procs'[p].samples = << >>
    BY <1>1, <1>2 DEF KeptAt
  <1>3. CASE p \in DOMAIN procs /\ procs'[p].samples = procs[p].samples
    BY <1>3 DEF KeptAt, SamplesInv, Real
  <1> QED BY <1>2, <1>3 DEF KeptAt

(* What the machine's entry of a process is.                               *)
LEMMA EntryKept ==
    ASSUME SamplesInv, NEW p
    PROVE  /\ ProcShape(Entry(p)) /\ Timed(Entry(p).samples)
           /\ \A i \in DOMAIN Entry(p).samples : Real(Entry(p).samples[i])
           /\ Entry(p).samples = << >> \/ p \in DOMAIN procs
           /\ p \in DOMAIN procs => Entry(p).samples = procs[p].samples
  <1>1. CASE p \in DOMAIN procs
    BY <1>1 DEF Entry, SamplesInv
  <1>2. CASE p \notin DOMAIN procs
    <2>1. Entry(p) = NewProcess
      BY <1>2 DEF Entry
    <2>2. ProcShape(NewProcess) /\ NewProcess.samples = << >>
      BY DEF NewProcess, ProcShape
    <2>3. Timed(<< >>)
      BY DEF Timed, IsSeq
    <2> QED BY <1>2, <2>1, <2>2, <2>3
  <1> QED BY <1>1, <1>2

(* The updates that add no sample.                                         *)
LEMMA SetKept ==
    ASSUME SamplesInv, NEW pid, NEW e, ProcShape(e),
           e.samples = Entry(pid).samples, procs' = SetProc(pid, e)
    PROVE  \A p \in DOMAIN procs' : KeptAt(p)
  <1> SUFFICES ASSUME NEW p \in DOMAIN procs' PROVE KeptAt(p)
    OBVIOUS
  <1>1. CASE p = pid
    BY <1>1, EntryKept DEF SetProc, KeptAt
  <1>2. CASE p # pid
    BY <1>2 DEF SetProc, KeptAt, SamplesInv
  <1> QED BY <1>1, <1>2

LEMMA TableKept ==
    ASSUME SamplesInv, NEW pid
    PROVE  /\ UNCHANGED procs => \A p \in DOMAIN procs' : KeptAt(p)
           /\ procs' = AddCommExec(pid) => \A p \in DOMAIN procs' : KeptAt(p)
           /\ procs' = AddCommExit(pid) => \A p \in DOMAIN procs' : KeptAt(p)
           /\ \A lo, hi, page, stale : AddMmapExec(pid, lo, hi, page, stale) =>
                    \A p \in DOMAIN procs' : KeptAt(p)
           /\ \A ppid : procs' = ForkExec(pid, ppid) =>
                    \A p \in DOMAIN procs' : KeptAt(p)
  <1>0. ProcShape(Entry(pid))
    BY EntryKept
  <1>1. UNCHANGED procs => \A p \in DOMAIN procs' : KeptAt(p)
    BY DEF KeptAt, SamplesInv
  <1>2. ASSUME procs' = AddCommExec(pid) PROVE \A p \in DOMAIN procs' : KeptAt(p)
    <2> DEFINE e == [Entry(pid) EXCEPT !.create = clock',
                                       !.root = @ \/ pid \in Openable]
    <2>1. ProcShape(e) /\ e.samples = Entry(pid).samples
      BY <1>0, ProcRoot, Zenon
    <2> QED BY <1>1, <1>2, <2>1, SetKept DEF AddCommExec
  <1>3. ASSUME procs' = AddCommExit(pid) PROVE \A p \in DOMAIN procs' : KeptAt(p)
    <2> DEFINE e == [Entry(pid) EXCEPT !.exit = clock']
    <2>1. ProcShape(e) /\ e.samples = Entry(pid).samples
      BY <1>0 DEF ProcShape
    <2> QED BY <1>1, <1>3, <2>1, SetKept DEF AddCommExit
  <1>4. ASSUME NEW lo, NEW hi, NEW page, NEW stale,
               AddMmapExec(pid, lo, hi, page, stale)
        PROVE  \A p \in DOMAIN procs' : KeptAt(p)
    <2> DEFINE m == [time |-> clock', start |-> lo, end |-> hi, off |-> page.off,
                     file |-> page.file, stale |-> stale, id |-> mapIndex,
                     syms |-> {}]
               maps == Append(Entry(pid).maps, m)
               e == [Entry(pid) EXCEPT !.maps = maps]
    <2>1. ProcShape(e) /\ e.samples = Entry(pid).samples
      <3> HIDE DEF maps
      <3> QED BY <1>0, ProcMaps
    <2>2. UNCHANGED procs \/ procs' = SetProc(pid, e)
      BY <1>4 DEF AddMmapExec, AddMapping
    <2> QED BY <1>1, <2>1, <2>2, SetKept
  <1>5. ASSUME NEW ppid, procs' = ForkExec(pid, ppid), NEW p \in DOMAIN procs'
        PROVE  KeptAt(p)
    <2>1. CASE p = pid
      BY <1>5, <2>1 DEF ForkExec, KeptAt, NewProcess, ProcShape
    <2>2. CASE p # pid
      <3>1. procs'[p] = Entry(p)
        BY <1>5, <2>2 DEF ForkExec
      <3> QED BY <3>1, EntryKept DEF KeptAt
    <2> QED BY <2>1, <2>2
  <1> QED BY <1>1, <1>2, <1>3, <1>4, <1>5

(* A sample that is real, or of an id that had another owner.              *)
LEMMA SamplesAdded ==
    ASSUME SamplesInv, UNCHANGED reused, NEW pid, NEW x, x.time \in Nat, Real(x),
           procs' = AddSample(pid, x)
    PROVE  SamplesInv'
  <1>1. /\ ProcShape(Entry(pid)) /\ Timed(Entry(pid).samples)
        /\ \A i \in DOMAIN Entry(pid).samples : Real(Entry(pid).samples[i])
    BY EntryKept
  <1>2. CASE procs' = SetProc(pid, Entry(pid))
    BY <1>1, <1>2, SetKept, SamplesKept
  <1>3. CASE procs' = SetProc(pid, [Entry(pid) EXCEPT !.samples = Append(@, x)])
    <2> DEFINE s == Append(Entry(pid).samples, x)
               e == [Entry(pid) EXCEPT !.samples = s]
    <2>1. ProcShape(e) /\ e.samples = s
      BY <1>1 DEF ProcShape
    <2>2. /\ IsSeq(s)
          /\ \A i \in DOMAIN s :
                \/ s[i] = x
                \/ i \in DOMAIN Entry(pid).samples /\ s[i] = Entry(pid).samples[i]
      BY <1>1, AppendIsSeq DEF Timed
    <2>3. Timed(s) /\ \A i \in DOMAIN s : Real(s[i])
      BY <1>1, <2>2 DEF Timed
    <2>4. procs'[pid] = e /\ \A p \in DOMAIN procs' \ {pid} :
                p \in DOMAIN procs /\ procs'[p] = procs[p]
      BY <1>3 DEF SetProc
    <2> HIDE DEF s, e
    <2> QED BY <2>1, <2>3, <2>4 DEF SamplesInv, Real
  <1> QED BY <1>2, <1>3 DEF AddSample

(* Every step keeps the samples real.                                      *)
LEMMA SamplesStep ==
    MachineInv /\ [Next]_vars => SamplesInv'
  <1> SUFFICES ASSUME MachineInv, [Next]_vars PROVE SamplesInv'
    OBVIOUS
  <1>0. ThreadsInv /\ WaitInv /\ SamplesInv /\ clock \in Nat
    BY DEF MachineInv, ThreadsInv
  <1>1. CASE UNCHANGED vars
    BY <1>0, <1>1, TableKept, SamplesKept DEF vars, kernelVars, machineVars
  <1>2. CASE EnvStep
    <2>1. UNCHANGED reused
      BY <1>2 DEF EnvStep, EnvComm, EnvRead, EnvWrite, kernelVars
    <2>2. \/ UNCHANGED procs \/ \E p : procs' = AddCommExec(p)
          \/ \E p, lo, hi, page, stale : AddMmapExec(p, lo, hi, page, stale)
      <3>1. ASSUME NEW p \in Ids, EnvComm(p) PROVE procs' = AddCommExec(p)
        BY <3>1 DEF EnvComm
      <3>2. ASSUME NEW p \in Ids, EnvRead(p) PROVE UNCHANGED procs
        BY <3>2 DEF EnvRead, machineVars
      <3>3. ASSUME NEW r \in env.regions, EnvWrite(r)
            PROVE  \E p, lo, hi, page, stale : AddMmapExec(p, lo, hi, page, stale)
        BY <3>3 DEF EnvWrite
      <3> QED BY <1>2, <3>1, <3>2, <3>3 DEF EnvStep
    <2> QED BY <1>0, <2>1, <2>2, TableKept, SamplesKept
  <1>3. CASE Export
    <2> DEFINE added == AddKernelMappings(procs)
               resolved == ResolveElfSymbols(added)
    <2>1. /\ DOMAIN added = DOMAIN procs
          /\ \A p \in DOMAIN procs : /\ ProcShape(added[p])
                                     /\ added[p].samples = procs[p].samples
      <3>1. \A p \in DOMAIN procs : \/ added[p] = procs[p]
                                    \/ \E m : added[p] = AddMapping(procs[p], m)
        BY DEF AddKernelMappings
      <3>2. DOMAIN added = DOMAIN procs
        BY DEF AddKernelMappings
      <3> HIDE DEF added
      <3>3. \A p \in DOMAIN procs : \A m :
                /\ ProcShape(AddMapping(procs[p], m))
                /\ AddMapping(procs[p], m).samples = procs[p].samples
        BY <1>0, SMTT(40) DEF AddMapping, ProcShape, SamplesInv
      <3> QED BY <1>0, <3>1, <3>2, <3>3 DEF SamplesInv
    <2>2. /\ DOMAIN resolved = DOMAIN procs
          /\ \A p \in DOMAIN procs : /\ ProcShape(resolved[p])
                                     /\ resolved[p].samples = procs[p].samples
      <3> HIDE DEF added
      <3>1. \A p \in DOMAIN added :
                \/ resolved[p] = added[p]
                \/ \E maps : resolved[p] = [added[p] EXCEPT !.maps = maps]
        BY DEF ResolveElfSymbols
      <3>2. DOMAIN resolved = DOMAIN added
        BY DEF ResolveElfSymbols
      <3> HIDE DEF resolved
      <3>3. \A p \in DOMAIN procs : \A maps :
                /\ ProcShape([added[p] EXCEPT !.maps = maps])
                /\ [added[p] EXCEPT !.maps = maps].samples = procs[p].samples
        BY <2>1, ProcMaps
      <3>4. ASSUME NEW p \in DOMAIN procs
            PROVE  /\ ProcShape(resolved[p])
                   /\ resolved[p].samples = procs[p].samples
        <4>1. CASE resolved[p] = added[p]
          BY <2>1, <4>1
        <4>2. CASE \E maps : resolved[p] = [added[p] EXCEPT !.maps = maps]
          BY <3>3, <4>2
        <4> QED BY <2>1, <3>1, <4>1, <4>2
      <3> QED BY <2>1, <3>2, <3>4
    <2> HIDE DEF resolved, added
    <2>3. /\ procs' = [p \in DOMAIN procs |-> [resolved[p] EXCEPT
                        !.samples = SortByTime(@), !.maps = SortByTime(@)]]
          /\ UNCHANGED reused
      BY <1>3 DEF Export, kernelVars, resolved, added
    <2>4. ASSUME NEW p \in DOMAIN procs
          PROVE  /\ ProcShape(procs'[p])
                 /\ procs'[p].samples = SortByTime(procs[p].samples)
      <3> DEFINE samples == SortByTime(procs[p].samples)
                 maps == SortByTime(resolved[p].maps)
      <3>1. procs'[p] = [resolved[p] EXCEPT !.samples = samples, !.maps = maps]
        <4>1. procs'[p] = [resolved[p] EXCEPT !.samples = SortByTime(@), !.maps = SortByTime(@)]
          BY <2>3
        <4>2. SortByTime(resolved[p].samples) = samples
          BY <2>2
        <4> QED BY <4>1, <4>2, Zenon
      <3> HIDE DEF samples, maps
      <3>2. ProcShape(procs'[p]) /\ procs'[p].samples = samples
        <4>1. ProcShape(resolved[p])
          BY <2>2
        <4>2. LET r == resolved[p]
              IN  /\ ProcShape([r EXCEPT !.samples = samples, !.maps = maps])
                  /\ [r EXCEPT !.samples = samples, !.maps = maps].samples = samples
          BY <4>1, ProcBoth, Zenon
        <4> QED BY <3>1, <4>2, Zenon
      <3> QED BY <3>2 DEF samples
    <2>5. ASSUME NEW p \in DOMAIN procs
          PROVE  /\ Timed(procs'[p].samples)
                 /\ \A k \in DOMAIN procs'[p].samples :
                        \E i \in DOMAIN procs[p].samples :
                            procs'[p].samples[k] = procs[p].samples[i]
      <3>1. Timed(procs[p].samples)
        BY <1>0 DEF SamplesInv
      <3> QED BY <2>4, <3>1, SortKeeps
    <2>6. DOMAIN procs' = DOMAIN procs
      BY <2>3
    <2>7. ASSUME NEW p \in DOMAIN procs, NEW k \in DOMAIN procs'[p].samples
          PROVE  Real(procs[p].samples[k])'
      <3>1. PICK i \in DOMAIN procs[p].samples :
                    procs'[p].samples[k] = procs[p].samples[i]
        BY <2>5
      <3>2. Real(procs[p].samples[i])
        BY <1>0 DEF SamplesInv
      <3>3. LET x == procs'[p].samples[k] IN x.real \/ x.tid \in reused'
        <4>1. LET x == procs[p].samples[i] IN x.real \/ x.tid \in reused
          BY <3>2, Zenon DEF Real
        <4>2. reused' = reused
          BY <2>3
        <4> QED BY <3>1, <4>1, <4>2, Zenon
      <3> QED BY <3>3, Zenon DEF Real
    <2> QED BY <2>4, <2>5, <2>6, <2>7 DEF SamplesInv
  <1>4. CASE KernelStep
    <2>1. ASSUME NEW t \in Ids, NEW c \in Ids, Fork(t, c) \/ Clone(t, c)
          PROVE  SamplesInv'
      <3>1. reused \subseteq reused'
        BY <2>1 DEF Fork, Clone, NewThread
      <3>2. UNCHANGED procs \/ procs' = ForkExec(c, PidOf(t))
        BY <2>1 DEF Fork, Clone, machineVars
      <3> QED BY <1>0, <3>1, <3>2, TableKept, SamplesKept
    <2>2. ASSUME NEW t \in Ids, Exec(t) \/ Exit(t) PROVE SamplesInv'
      <3>1. UNCHANGED reused
        BY <2>2 DEF Exec, Exit
      <3>2. procs' = AddCommExec(t) \/ procs' = AddCommExit(PidOf(t))
        BY <2>2 DEF Exec, Exit
      <3> QED BY <1>0, <3>1, <3>2, TableKept, SamplesKept
    <2>3. ASSUME NEW t \in Ids, NEW range \in Ranges, MmapNoExec(t, range)
          PROVE  SamplesInv'
      BY <1>0, <2>3, TableKept, SamplesKept DEF MmapNoExec, machineVars
    <2>4. ASSUME NEW t \in Ids, NEW range \in Ranges, NEW off \in Offsets,
                 Mmap(t, range, off)
          PROVE  SamplesInv'
      <3>1. /\ UNCHANGED reused
            /\ AddMmapExec(PidOf(t), range[1], range[2],
                           [file |-> clock', off |-> off], FALSE)
        BY <2>4 DEF Mmap
      <3> QED BY <1>0, <3>1, TableKept, SamplesKept
    <2>5. ASSUME NEW t \in Ids, CswitchSample(t) \/ SwitchOut(t) PROVE SamplesInv'
      BY <1>0, <2>5, TableKept, SamplesKept DEF CswitchSample, SwitchOut
    <2>6. CASE OutsideFork \/ OutsideOther
      <3>1. UNCHANGED reused
        BY <2>6 DEF OutsideFork, OutsideOther, kernelVars
      <3>2. \/ procs' = ForkExec(0, 0) \/ procs' = AddCommExec(0)
            \/ procs' = AddCommExit(0)
            \/ \E lo, hi, page, stale : AddMmapExec(0, lo, hi, page, stale)
        BY <2>6 DEF OutsideFork, OutsideOther
      <3> QED BY <1>0, <3>1, <3>2, TableKept, SamplesKept
    <2>7. ASSUME NEW s \in Sampled PROVE clock + s[2] \in Nat
      BY <1>0, SampledAssumption
    <2>8. ASSUME NEW s \in Sampled, OutsideSample(s[1], s[2]) PROVE SamplesInv'
      <3> DEFINE x == [kind |-> "cpu", time |-> clock', dur |-> 0, tid |-> 0,
                       ip |-> s[1], chain |-> clock', real |-> TRUE, at |-> NoPage]
      <3>1. /\ procs' = AddSample(0, x) /\ clock' \in Nat /\ UNCHANGED reused
        BY <2>7, <2>8 DEF OutsideSample, Event, kernelVars
      <3>2. x.time \in Nat /\ Real(x)
        BY <3>1 DEF Real
      <3> HIDE DEF x
      <3> QED BY <1>0, <3>1, <3>2, SamplesAdded
    <2>9. ASSUME NEW t \in Ids, NEW s \in Sampled, CpuSample(t, s[1], s[2])
          PROVE  SamplesInv'
      <3> DEFINE x == [kind |-> "cpu", time |-> clock', dur |-> 0, tid |-> t,
                       ip |-> s[1], chain |-> clock', real |-> TRUE,
                       at |-> IF s[1] < KERNEL_START /\ s[1] \in ProcessOf(t).known
                              THEN ProcessOf(t).page[s[1]] ELSE NoPage]
      <3>1. procs' = AddSample(PidOf(t), x) /\ clock' \in Nat /\ UNCHANGED reused
        BY <2>7, <2>9 DEF CpuSample, Event, kernelVars
      <3>2. x.time \in Nat /\ Real(x)
        BY <3>1 DEF Real
      <3> HIDE DEF x
      <3> QED BY <1>0, <3>1, <3>2, SamplesAdded
    <2>10. ASSUME NEW t \in Ids, SwitchIn(t) PROVE SamplesInv'
      <3>0. UNCHANGED reused
        BY <2>10 DEF SwitchIn
      <3>1. CASE ~ RecordWait(t)
        BY <1>0, <2>10, <3>0, <3>1, TableKept, SamplesKept DEF SwitchIn
      <3>2. CASE RecordWait(t)
        <4> DEFINE start == Stash(t).start
                   real == /\ start = thread[t].out
                           /\ Stash(t).sample.chain = thread[t].chain
                   x == [Stash(t).sample EXCEPT !.time = start,
                            !.dur = clock' - start, !.real = real]
        <4>1. procs' = AddSample(PidOf(t), x) /\ thread[t].state = "off"
          BY <2>10, <3>2 DEF SwitchIn
        <4>2. /\ Stash(t).sample = WaitOf(t, Stash(t).sample.chain)
              /\ start \in Nat /\ start # 0 /\ Stash(t).sample # NoSample
          BY <1>0, <3>2 DEF ThreadsInv, StashShape, RecordWait
        <4>3. t \notin reused => real
          BY <1>0, <4>1, <4>2 DEF WaitInv, WaitAt
        <4>4. x.time = start /\ x.tid = t /\ x.real = real
          BY <4>2 DEF WaitOf
        <4>5. x.time \in Nat /\ Real(x)
          BY <4>2, <4>3, <4>4 DEF Real
        <4> HIDE DEF x
        <4> QED BY <1>0, <3>0, <4>1, <4>5, SamplesAdded
      <3> QED BY <3>1, <3>2
    <2> QED BY <1>4, <2>1, <2>2, <2>3, <2>4, <2>5, <2>6, <2>8, <2>9, <2>10
            DEF KernelStep
  <1> QED BY <1>1, <1>2, <1>3, <1>4 DEF Next

-----------------------------------------------------------------------------
(* The theorems.                                                           *)

(* What the start of a capture satisfies.                                  *)
LEMMA InitMachine == Init => MachineInv
  <1> SUFFICES ASSUME Init PROVE MachineInv
    OBVIOUS
  <1>1. \A t \in Ids : Stash(t) = [start |-> 0, sample |-> NoSample]
    BY DEF Init, Stash
  <1>2. \A t \in Ids : thread[t] \in {NoThread, [NoThread EXCEPT !.proc = 1,
                                                                !.state = "run"]}
    BY DEF Init
  <1>3. \A t \in Ids : ThreadShape(thread[t])
    <2>1. ThreadShape(NoThread)
      BY DEF NoThread, ThreadShape, States
    <2>2. ThreadShape([NoThread EXCEPT !.proc = 1, !.state = "run"])
      <3>1. ASSUME NEW d
            PROVE  LET r == [proc |-> 0, dead |-> d, state |-> "off",
                             out |-> 0, chain |-> 0]
                   IN  ThreadShape([r EXCEPT !.proc = 1, !.state = "run"])
        <4> DEFINE r == [proc |-> 0, dead |-> d, state |-> "off",
                         out |-> 0, chain |-> 0]
                   y == [r EXCEPT !.proc = 1]
                   x == [y EXCEPT !.state = "run"]
        <4>1. y = [proc |-> 1, dead |-> d, state |-> "off", out |-> 0, chain |-> 0]
          OBVIOUS
        <4>2. x = [proc |-> 1, dead |-> d, state |-> "run", out |-> 0, chain |-> 0]
          <5> HIDE DEF y
          <5> QED BY <4>1
        <4>3. [r EXCEPT !.proc = 1, !.state = "run"] = x
          <5> HIDE DEF r
          <5> QED OBVIOUS
        <4> HIDE DEF x
        <4>4. ThreadShape(x)
          BY <4>2 DEF ThreadShape, States
        <4> QED BY <4>3, <4>4
      <3> QED BY <3>1, Zenon DEF NoThread
    <2> QED BY <1>2, <2>1, <2>2
  <1>4. \A t \in Ids : StashShape(t)
    BY <1>1 DEF StashShape
  <1>5. \A t \in Ids : WaitAt(t)
    <2>1. /\ NoThread.proc = 0 /\ NoThread.state = "off"
          /\ [NoThread EXCEPT !.proc = 1, !.state = "run"].proc = 1
          /\ [NoThread EXCEPT !.proc = 1, !.state = "run"].state = "run"
      BY DEF NoThread
    <2>2. ASSUME NEW t \in Ids
          PROVE  \/ thread[t].proc = 0 /\ thread[t].state = "off"
                 \/ thread[t].proc = 1 /\ thread[t].state = "run"
      BY <1>2, <2>1
    <2> QED BY <1>1, <2>2 DEF WaitAt
  <1>6. ThreadsInv
    BY <1>3, <1>4 DEF Init, ThreadsInv
  <1>7. SamplesInv
    BY DEF Init, SamplesInv
  <1> QED BY <1>5, <1>6, <1>7 DEF MachineInv, WaitInv

(* The inductive invariant of the waits: what is stashed of a thread in    *)
(* each state that the kernel has it in, and samples that are real.        *)
THEOREM MachineInvariant == Spec => []MachineInv
  <1>1. MachineInv /\ [Next]_vars => MachineInv'
    BY ThreadsStep, SamplesStep DEF MachineInv
  <1> QED BY <1>1, InitMachine, PTL DEF Spec

(* Every wait the exporter records has the start and the call chain of the *)
(* last switch out of its thread, whichever of the two records came first, *)
(* whatever was lost of the first wait, and after the export as before it  *)
(* (the cswitch callbacks of hook_to_perf_session).                        *)
THEOREM WaitsAreReal == Spec => []WaitIsReal
  <1>1. MachineInv => WaitIsReal
    BY DEF MachineInv, SamplesInv, WaitIsReal, Real
  <1> QED BY <1>1, MachineInvariant, PTL

-----------------------------------------------------------------------------
(* Numbers and lists.                                                      *)

(* Of the numbers up to n in a set there is a greatest.                    *)
LEMMA Greatest ==
    ASSUME NEW n \in Nat, NEW S, S \subseteq 0 .. n, S # {}
    PROVE  \E m \in S : \A y \in S : y <= m
  <1> DEFINE Above == {x .. n : x \in S}
  <1>1. Above \subseteq FiniteSubsetsOf(Nat)
    <2>1. \A x \in S : x .. n \in SUBSET Nat /\ IsFiniteSet(x .. n)
      BY FS_Interval
    <2> QED BY <2>1 DEF FiniteSubsetsOf
  <1>2. PICK m \in S : \A y \in Above : ~ (<<y, m .. n>> \in StrictSubsetOrdering(Nat))
    <2>1. Above # {}
      OBVIOUS
    <2>2. PICK x \in Above : \A y \in Above : ~ (<<y, x>> \in StrictSubsetOrdering(Nat))
      BY <1>1, <2>1, WFMin, FS_StrictSubsetOrderingWellFounded
    <2> QED BY <2>2
  <1>3. ASSUME NEW y \in S, y > m PROVE FALSE
    <2>1. y .. n \subseteq m .. n /\ y .. n # m .. n
      <3>1. m \in m .. n /\ m \notin y .. n
        BY <1>3
      <3>2. \A k \in y .. n : k \in m .. n
        BY <1>3
      <3> QED BY <3>1, <3>2
    <2>2. y .. n \in SUBSET Nat /\ m .. n \in SUBSET Nat /\ y .. n \in Above
      OBVIOUS
    <2>3. <<y .. n, m .. n>> \in StrictSubsetOrdering(Nat)
      BY <2>1, <2>2, Zenon DEF StrictSubsetOrdering
    <2> QED BY <1>2, <2>2, <2>3
  <1> QED BY <1>3

(* The least of a set of numbers.                                          *)
LEMMA MinIsLeast ==
    ASSUME NEW S, S \subseteq Nat, S # {}
    PROVE  Min(S) \in S /\ \A y \in S : Min(S) <= y
  <1>1. PICK x \in S : TRUE
    OBVIOUS
  <1> DEFINE Below == {x - y : y \in S \cap 0 .. x}
  <1>2. Below \subseteq 0 .. x /\ Below # {} /\ x \in Nat
    <2>1. x \in Nat /\ x \in S \cap 0 .. x
      BY <1>1
    <2> QED BY <2>1
  <1>3. PICK m \in Below : \A y \in Below : y <= m
    BY <1>2, Greatest
  <1>4. PICK l \in S \cap 0 .. x : m = x - l
    OBVIOUS
  <1>5. ASSUME NEW y \in S PROVE l <= y
    <2> HIDE DEF Below
    <2>0. y \in Nat
      OBVIOUS
    <2>1. CASE y <= x
      <3>1. y \in S \cap 0 .. x
        BY <1>2, <2>0, <2>1
      <3>2. x - y <= m
        BY <1>3, <3>1 DEF Below
      <3> QED BY <1>2, <1>4, <2>0, <3>2
    <2>2. CASE ~ (y <= x)
      BY <1>2, <1>4, <2>0, <2>2
    <2> QED BY <2>1, <2>2
  <1>6. \E z \in S : \A y \in S : z <= y
    BY <1>5
  <1> QED BY <1>6, Zenon DEF Min

(* What another entry leaves of a list, and what it adds.                  *)
LEMMA AppendFacts ==
    ASSUME NEW s, IsSeq(s), NEW x
    PROVE  /\ IsSeq(Append(s, x))
           /\ DOMAIN Append(s, x) = DOMAIN s \cup {Len(s) + 1}
           /\ Len(s) + 1 \notin DOMAIN s /\ Append(s, x)[Len(s) + 1] = x
           /\ \A i \in DOMAIN s : Append(s, x)[i] = s[i]
  <1> DEFINE S == {s[i] : i \in DOMAIN s} \cup {x}
  <1>1. s \in Seq(S) /\ x \in S
    BY SeqMonotonic DEF IsSeq
  <1>2. DOMAIN s = 1 .. Len(s) /\ Len(s) \in Nat
    BY SeqDomain
  <1>3. /\ DOMAIN Append(s, x) = 1 .. Len(s) + 1
        /\ Append(s, x)[Len(s) + 1] = x
        /\ \A i \in 1 .. Len(s) : Append(s, x)[i] = s[i]
    <2> HIDE DEF S
    <2> QED BY <1>1, AppendProperties, LenProperties
  <1>4. 1 .. Len(s) + 1 = (1 .. Len(s)) \cup {Len(s) + 1}
    BY <1>2
  <1> QED BY <1>2, <1>3, <1>4, AppendIsSeq

-----------------------------------------------------------------------------
(* The replay of a process.                                                *)

(* A list in the order of time.                                            *)
TimeList(s) ==
    /\ Timed(s) /\ \A i \in DOMAIN s : s[i].time < MaxTime
    /\ \A i, j \in DOMAIN s : i < j => s[i].time <= s[j].time

Replayable(e) ==
    /\ TimeList(e.samples) /\ TimeList(e.maps)
    /\ e.create \in Nat /\ e.create < MaxTime /\ e.exit \in Nat /\ e.exit < MaxTime

(* Where a cursor stands: what is before it is not later, what is behind   *)
(* it is not earlier.                                                      *)
Cursor(s, i, time) ==
    /\ i \in 1 .. Len(s) + 1
    /\ \A j \in DOMAIN s : IF j < i THEN s[j].time <= time ELSE time <= s[j].time

Flag(given, at, time) ==
    /\ given \in BOOLEAN
    /\ given => at <= time
    /\ ~ given => at = 0 \/ at > time

ReplayAt(e, r) ==
    /\ r.time \in Nat /\ r.time <= MaxTime
    /\ Cursor(e.samples, r.si, r.time) /\ Cursor(e.maps, r.mi, r.time)
    /\ Flag(r.created, e.create, r.time) /\ Flag(r.exited, e.exit, r.time)
    /\ r.time < MaxTime => \/ SampleEvent(e, r) \/ MappingEvent(e, r)
                           \/ CreatedEvent(e, r) \/ ExitedEvent(e, r)

(* Where a cursor goes that gives what it stands at.                       *)
Moved(s, i, time) == IF i <= Len(s) /\ s[i].time = time THEN i + 1 ELSE i

(* The times that are ahead.                                               *)
Ahead(s, i) == {s[j].time : j \in {i} \cap DOMAIN s}

Behind(s, k, time) ==
    /\ k \in 1 .. Len(s) + 1
    /\ \A j \in DOMAIN s : j < k => s[j].time <= time
    /\ \A t \in Ahead(s, k) : t \in Nat /\ time <= t /\ t < MaxTime

LEMMA MovedOn ==
    ASSUME NEW s, TimeList(s), NEW i, NEW time \in Nat, Cursor(s, i, time)
    PROVE  Behind(s, Moved(s, i, time), time)
  <1> DEFINE k == Moved(s, i, time)
  <1>1. DOMAIN s = 1 .. Len(s) /\ Len(s) \in Nat
    BY SeqDomain DEF TimeList, Timed
  <1>2. k \in 1 .. Len(s) + 1 /\ (k = i \/ (k = i + 1 /\ i \in DOMAIN s /\ s[i].time = time))
    BY <1>1 DEF Moved, Cursor
  <1>3. i \in Nat /\ \A j \in DOMAIN s : j \in Nat /\ s[j].time \in Nat
    BY <1>1, SeqDomain DEF Cursor, TimeList, Timed
  <1> HIDE DEF k
  <1>4. ASSUME NEW j \in DOMAIN s, j < k PROVE s[j].time <= time
    <2>1. j < i \/ (j = i /\ s[i].time = time)
      BY <1>2, <1>3, <1>4
    <2> QED BY <1>3, <2>1 DEF Cursor
  <1>5. ASSUME NEW t \in Ahead(s, k) PROVE t \in Nat /\ time <= t /\ t < MaxTime
    <2>1. k \in DOMAIN s /\ t = s[k].time
      BY <1>5 DEF Ahead
    <2>2. CASE k = i
      BY <1>3, <2>1, <2>2 DEF Cursor, TimeList
    <2>3. CASE k = i + 1 /\ i \in DOMAIN s /\ s[i].time = time
      BY <1>3, <2>1, <2>3 DEF TimeList
    <2> QED BY <1>2, <2>2, <2>3
  <1> QED BY <1>2, <1>4, <1>5 DEF k, Behind

LEMMA NextCursor ==
    ASSUME NEW s, TimeList(s), NEW k, NEW time \in Nat, Behind(s, k, time),
           NEW next \in Nat, time <= next, \A t \in Ahead(s, k) : next <= t
    PROVE  Cursor(s, k, next)
  <1>1. DOMAIN s = 1 .. Len(s) /\ Len(s) \in Nat
    BY SeqDomain DEF TimeList, Timed
  <1>2. k \in 1 .. Len(s) + 1 /\ \A j \in DOMAIN s : j < k => s[j].time <= time
    BY DEF Behind
  <1>4. ASSUME NEW j \in DOMAIN s, ~ (j < k) PROVE next <= s[j].time
    <2>1. k \in DOMAIN s /\ j \in Nat /\ (k = j \/ k < j)
      BY <1>1, <1>2, <1>4
    <2>2. s[k].time \in Ahead(s, k)
      BY <2>1 DEF Ahead
    <2>3. next <= s[k].time /\ s[k].time <= s[j].time
      BY <2>1, <2>2 DEF TimeList, Timed
    <2> QED BY <2>1, <2>3 DEF TimeList, Timed
  <1>5. ASSUME NEW j \in DOMAIN s, j < k PROVE s[j].time <= next
    BY <1>2, <1>5 DEF TimeList, Timed
  <1> QED BY <1>2, <1>4, <1>5 DEF Cursor

(* What may be ahead of a flag.                                            *)
Pending(given, at) == {t \in {at} : ~ given /\ t # 0}

(* The earliest time ahead, and the replay that goes there.                *)
NextTime(e, si, mi, created, exited) ==
    Min((Ahead(e.samples, si) \cup Ahead(e.maps, mi)
            \cup Pending(created, e.create) \cup Pending(exited, e.exit))
        \cup {MaxTime})

Towards(e, si, mi, created, exited, next) ==
    [time |-> next, si |-> si, mi |-> mi,
     created |-> created \/ e.create \in {0, next},
     exited |-> exited \/ e.exit \in {0, next}]

LEMMA AdvanceIs ==
    ASSUME NEW e, NEW r, NEW si, NEW mi,
           si = Moved(e.samples, r.si, r.time), mi = Moved(e.maps, r.mi, r.time)
    PROVE  Advance(e, r) = Towards(e, si, mi, r.created, r.exited,
                                   NextTime(e, si, mi, r.created, r.exited))
  BY Zenon DEF Advance, NextTime, Towards, Moved, Ahead, Pending, SampleEvent,
               MappingEvent

LEMMA Reaches ==
    ASSUME NEW e, Replayable(e), NEW time \in Nat, time <= MaxTime,
           NEW si, Behind(e.samples, si, time), NEW mi, Behind(e.maps, mi, time),
           NEW created, Flag(created, e.create, time),
           NEW exited, Flag(exited, e.exit, time),
           NEW next, next = NextTime(e, si, mi, created, exited)
    PROVE  /\ ReplayAt(e, Towards(e, si, mi, created, exited, next))
           /\ next \in Nat /\ time <= next
           /\ \/ next \in Ahead(e.samples, si) \/ next \in Ahead(e.maps, mi)
              \/ next \in Pending(created, e.create) \/ next \in Pending(exited, e.exit)
              \/ next = MaxTime
           /\ \A t \in Pending(created, e.create) \cup Pending(exited, e.exit) : next <= t
  <1>1. PICK samples, maps : samples = e.samples /\ maps = e.maps
    OBVIOUS
  <1> DEFINE all == (Ahead(samples, si) \cup Ahead(maps, mi)
                      \cup Pending(created, e.create) \cup Pending(exited, e.exit))
                    \cup {MaxTime}
  <1>2. \A t \in Ahead(samples, si) \cup Ahead(maps, mi) :
            t \in Nat /\ time <= t /\ t < MaxTime
    BY <1>1 DEF Behind
  <1>3. \A t \in Pending(created, e.create) \cup Pending(exited, e.exit) :
            t \in Nat /\ time <= t /\ t < MaxTime
    BY <1>1 DEF Pending, Flag, Replayable
  <1>4. next = Min(all) /\ \A t \in all : t \in Nat /\ time <= t
    BY <1>1, <1>2, <1>3, MaxTimeAssumption DEF NextTime
  <1>5. MaxTime \in all
    OBVIOUS
  <1> HIDE DEF all
  <1>6. next \in all /\ \A t \in all : next <= t
    <2>1. all \subseteq Nat /\ all # {}
      BY <1>4, <1>5
    <2> QED BY <1>4, <2>1, MinIsLeast
  <1>7. next \in Nat /\ time <= next /\ next <= MaxTime
    BY <1>1, <1>4, <1>5, <1>6
  <1>8. /\ \A t \in Ahead(samples, si) : next <= t
        /\ \A t \in Ahead(maps, mi) : next <= t
        /\ \A t \in Pending(created, e.create) : next <= t
        /\ \A t \in Pending(exited, e.exit) : next <= t
    BY <1>6 DEF all
  <1>9. Cursor(samples, si, next) /\ Cursor(maps, mi, next)
    BY <1>1, <1>7, <1>8, NextCursor DEF Replayable
  <1> DEFINE a == Towards(e, si, mi, created, exited, next)
  <1>10. /\ a.time = next /\ a.si = si /\ a.mi = mi
         /\ a.created = (created \/ e.create \in {0, next})
         /\ a.exited = (exited \/ e.exit \in {0, next})
    BY DEF Towards
  <1> HIDE DEF a
  <1>11. Flag(a.created, e.create, next) /\ Flag(a.exited, e.exit, next)
    <2>1. ASSUME NEW given \in BOOLEAN, NEW at \in Nat, given => at <= time,
                 \A t \in Pending(given, at) : next <= t, NEW after,
                 after = (given \/ at \in {0, next})
          PROVE  Flag(after, at, next)
      <3>1. after \in BOOLEAN /\ (after => at <= next)
        BY <1>7, <2>1
      <3>2. ASSUME ~ after PROVE at > next
        <4>1. ~ given /\ at # 0 /\ at # next
          BY <2>1, <3>2
        <4>2. at \in Pending(given, at)
          BY <4>1 DEF Pending
        <4>3. next <= at
          BY <2>1, <4>2
        <4> QED BY <1>7, <4>1, <4>3
      <3> QED BY <3>1, <3>2 DEF Flag
    <2> QED BY <1>1, <1>8, <1>10, <2>1 DEF Flag, Replayable
  <1>12. next < MaxTime => \/ SampleEvent(e, a) \/ MappingEvent(e, a)
                           \/ CreatedEvent(e, a) \/ ExitedEvent(e, a)
    <2>1. CASE next \in Ahead(samples, si)
      BY <1>1, <1>10, <2>1, SeqDomain DEF Ahead, SampleEvent, Replayable, TimeList, Timed
    <2>2. CASE next \in Ahead(maps, mi)
      BY <1>1, <1>10, <2>2, SeqDomain DEF Ahead, MappingEvent, Replayable, TimeList, Timed
    <2>3. CASE next \in Pending(created, e.create)
      BY <1>10, <2>3 DEF Pending, CreatedEvent
    <2>4. CASE next \in Pending(exited, e.exit)
      BY <1>10, <2>4 DEF Pending, ExitedEvent
    <2>5. CASE next = MaxTime
      BY <1>7, <2>5
    <2> QED BY <1>6, <2>1, <2>2, <2>3, <2>4, <2>5 DEF all
  <1>13. ReplayAt(e, a)
    BY <1>1, <1>7, <1>9, <1>10, <1>11, <1>12 DEF ReplayAt
  <1>14. \/ next \in Ahead(samples, si) \/ next \in Ahead(maps, mi)
         \/ next \in Pending(created, e.create) \/ next \in Pending(exited, e.exit)
         \/ next = MaxTime
    BY <1>6 DEF all
  <1> QED BY <1>1, <1>7, <1>8, <1>13, <1>14 DEF a

(* An advance gives what the replay stands at, and never goes back.        *)
LEMMA AdvanceAt ==
    ASSUME NEW e, Replayable(e), NEW r, ReplayAt(e, r)
    PROVE  /\ ReplayAt(e, Advance(e, r))
           /\ r.time <= Advance(e, r).time
           /\ Advance(e, r).si = Moved(e.samples, r.si, r.time)
           /\ Advance(e, r).mi = Moved(e.maps, r.mi, r.time)
           /\ r.time < MaxTime =>
                SampleEvent(e, r) \/ MappingEvent(e, r) \/ r.time < Advance(e, r).time
           /\ e.create > r.time => Advance(e, r).time <= e.create
           /\ e.exit > r.time => Advance(e, r).time <= e.exit
  <1>1. PICK si, mi : si = Moved(e.samples, r.si, r.time) /\ mi = Moved(e.maps, r.mi, r.time)
    OBVIOUS
  <1>2. PICK next : next = NextTime(e, si, mi, r.created, r.exited)
    OBVIOUS
  <1>3. Behind(e.samples, si, r.time) /\ Behind(e.maps, mi, r.time)
    BY <1>1, MovedOn DEF ReplayAt, Replayable
  <1>4. PICK time, created, exited :
            time = r.time /\ created = r.created /\ exited = r.exited
    OBVIOUS
  <1> DEFINE a == Towards(e, si, mi, created, exited, next)
  <1>5. /\ ReplayAt(e, a) /\ next \in Nat /\ time <= next
        /\ \/ next \in Ahead(e.samples, si) \/ next \in Ahead(e.maps, mi)
           \/ next \in Pending(created, e.create) \/ next \in Pending(exited, e.exit)
           \/ next = MaxTime
        /\ \A t \in Pending(created, e.create) \cup Pending(exited, e.exit) : next <= t
    <2>1. /\ time \in Nat /\ time <= MaxTime
          /\ Behind(e.samples, si, time) /\ Behind(e.maps, mi, time)
          /\ Flag(created, e.create, time) /\ Flag(exited, e.exit, time)
          /\ next = NextTime(e, si, mi, created, exited)
      BY <1>2, <1>3, <1>4 DEF ReplayAt
    <2> HIDE DEF a
    <2> QED BY <2>1, Reaches DEF a
  <1>6. Advance(e, r) = a
    BY <1>1, <1>2, <1>4, AdvanceIs
  <1>7. a.time = next /\ a.si = si /\ a.mi = mi
    BY DEF Towards
  <1> HIDE DEF a
  <1>8. ASSUME r.time < MaxTime, ~ SampleEvent(e, r), ~ MappingEvent(e, r)
        PROVE  time # next
    <2>1. /\ DOMAIN e.samples = 1 .. Len(e.samples) /\ Len(e.samples) \in Nat
          /\ DOMAIN e.maps = 1 .. Len(e.maps) /\ Len(e.maps) \in Nat
      BY SeqDomain DEF Replayable, TimeList, Timed
    <2>2. si = r.si /\ mi = r.mi
      BY <1>1, <1>8 DEF SampleEvent, MappingEvent, Moved
    <2>3. time \notin Ahead(e.samples, si) /\ time \notin Ahead(e.maps, mi)
      BY <1>4, <1>8, <2>1, <2>2 DEF Ahead, SampleEvent, MappingEvent
    <2>4. time \notin Pending(created, e.create) /\ time \notin Pending(exited, e.exit)
      BY <1>4 DEF ReplayAt, Replayable, Flag, Pending
    <2> QED BY <1>4, <1>5, <1>8, <2>3, <2>4, MaxTimeAssumption DEF ReplayAt
  <1>9. r.time < MaxTime => SampleEvent(e, r) \/ MappingEvent(e, r) \/ time < next
    BY <1>4, <1>5, <1>8 DEF ReplayAt
  <1>10. /\ e.create > time => next <= e.create
         /\ e.exit > time => next <= e.exit
    <2>1. ASSUME e.create > time PROVE e.create \in Pending(created, e.create)
      BY <1>4, <2>1 DEF ReplayAt, Replayable, Flag, Pending
    <2>2. ASSUME e.exit > time PROVE e.exit \in Pending(exited, e.exit)
      BY <1>4, <2>2 DEF ReplayAt, Replayable, Flag, Pending
    <2> QED BY <1>5, <2>1, <2>2
  <1> QED BY <1>1, <1>4, <1>5, <1>6, <1>7, <1>9, <1>10

(* The start of a replay gives nothing.                                    *)
LEMMA StartAt ==
    ASSUME NEW e, Replayable(e)
    PROVE  /\ ReplayAt(e, StartOfReplay(e))
           /\ StartOfReplay(e).si = 1 /\ StartOfReplay(e).mi = 1
           /\ e.create # 0 => StartOfReplay(e).time <= e.create
           /\ e.exit # 0 => StartOfReplay(e).time <= e.exit
  <1> DEFINE r == [time |-> MaxTime, si |-> 1, mi |-> 1,
                   created |-> FALSE, exited |-> FALSE]
  <1>1. ASSUME NEW s, TimeList(s)
        PROVE  Moved(s, 1, MaxTime) = 1 /\ Behind(s, 1, 0)
    <2>1. /\ DOMAIN s = 1 .. Len(s) /\ Len(s) \in Nat
          /\ \A i \in DOMAIN s : s[i].time \in Nat /\ s[i].time < MaxTime
      BY <1>1, SeqDomain DEF TimeList, Timed
    <2> QED BY <2>1, MaxTimeAssumption DEF Moved, Behind, Ahead
  <1>2. PICK next : next = NextTime(e, 1, 1, FALSE, FALSE)
    OBVIOUS
  <1> DEFINE a == Towards(e, 1, 1, FALSE, FALSE, next)
  <1>3. StartOfReplay(e) = a
    <2>1. /\ r.si = 1 /\ r.mi = 1 /\ r.time = MaxTime /\ r.created = FALSE
          /\ r.exited = FALSE
      OBVIOUS
    <2>2. StartOfReplay(e) = Advance(e, r)
      BY DEF StartOfReplay
    <2> HIDE DEF r
    <2>3. 1 = Moved(e.samples, r.si, r.time) /\ 1 = Moved(e.maps, r.mi, r.time)
      BY <1>1, <2>1 DEF Replayable
    <2>4. Advance(e, r) = Towards(e, 1, 1, r.created, r.exited,
                                  NextTime(e, 1, 1, r.created, r.exited))
      BY <2>3, AdvanceIs
    <2> QED BY <1>2, <2>1, <2>2, <2>4
  <1>4. /\ ReplayAt(e, a)
        /\ e.create # 0 => next <= e.create
        /\ e.exit # 0 => next <= e.exit
    <2>1. Flag(FALSE, e.create, 0) /\ Flag(FALSE, e.exit, 0)
      BY DEF Flag, Replayable
    <2>2. Behind(e.samples, 1, 0) /\ Behind(e.maps, 1, 0)
      BY <1>1 DEF Replayable
    <2>3. PICK zero, no : zero = 0 /\ no = FALSE
      OBVIOUS
    <2>4. /\ ReplayAt(e, Towards(e, 1, 1, no, no, next))
          /\ \A t \in Pending(no, e.create) \cup Pending(no, e.exit) : next <= t
      <3>1. zero \in Nat /\ zero <= MaxTime
        BY <2>3, MaxTimeAssumption
      <3>2. /\ Flag(no, e.create, zero) /\ Flag(no, e.exit, zero)
            /\ Behind(e.samples, 1, zero) /\ Behind(e.maps, 1, zero)
            /\ next = NextTime(e, 1, 1, no, no)
        BY <1>2, <2>1, <2>2, <2>3
      <3> QED BY <3>1, <3>2, Reaches
    <2>5. /\ e.create # 0 => e.create \in Pending(no, e.create)
          /\ e.exit # 0 => e.exit \in Pending(no, e.exit)
      BY <2>3 DEF Pending
    <2> QED BY <2>3, <2>4, <2>5
  <1>5. a.si = 1 /\ a.mi = 1 /\ a.time = next
    BY DEF Towards
  <1> HIDE DEF a
  <1> QED BY <1>3, <1>4, <1>5

-----------------------------------------------------------------------------
(* Every call gives something.                                             *)

(* The things before the cursors, and the flags whose time has passed.     *)
Given(e, r) ==
    ({"sample"} \X {i \in DOMAIN e.samples : i < r.si})
        \cup ({"map"} \X {i \in DOMAIN e.maps : i < r.mi})
        \cup ({k \in {"create"} : e.create < r.time} \X {0})
        \cup ({k \in {"exit"} : e.exit < r.time} \X {0})

LEMMA GivenIs ==
    ASSUME NEW e, NEW r, NEW x
    PROVE  /\ x \in Given(e, r) <=>
                \/ \E i \in DOMAIN e.samples : x = <<"sample", i>> /\ i < r.si
                \/ \E i \in DOMAIN e.maps : x = <<"map", i>> /\ i < r.mi
                \/ x = <<"create", 0>> /\ e.create < r.time
                \/ x = <<"exit", 0>> /\ e.exit < r.time
           /\ Given(e, r) \subseteq Things(e)
  BY DEF Given, Things

LEMMA Gives ==
    ASSUME NEW e, Replayable(e), NEW r, ReplayAt(e, r), r.time < MaxTime
    PROVE  /\ Given(e, r) \subseteq Given(e, Advance(e, r))
           /\ Given(e, r) # Given(e, Advance(e, r))
  <1>1. PICK a : a = Advance(e, r)
    OBVIOUS
  <1>2. /\ ReplayAt(e, a) /\ r.time <= a.time
        /\ a.si = Moved(e.samples, r.si, r.time) /\ a.mi = Moved(e.maps, r.mi, r.time)
    BY <1>1, AdvanceAt
  <1>3. /\ DOMAIN e.samples = 1 .. Len(e.samples) /\ Len(e.samples) \in Nat
        /\ DOMAIN e.maps = 1 .. Len(e.maps) /\ Len(e.maps) \in Nat
    BY SeqDomain DEF Replayable, TimeList, Timed
  <1>4. /\ r.si \in Nat \ {0} /\ r.mi \in Nat \ {0} /\ r.time \in Nat /\ a.time \in Nat
        /\ a.si = r.si \/ a.si = r.si + 1
        /\ a.mi = r.mi \/ a.mi = r.mi + 1
    BY <1>2, <1>3 DEF ReplayAt, Cursor, Moved
  <1>5. e.create \in Nat /\ e.exit \in Nat
    BY DEF Replayable
  <1>6. ASSUME NEW x \in Given(e, r) PROVE x \in Given(e, a)
    <2>1. CASE \E i \in DOMAIN e.samples : x = <<"sample", i>> /\ i < r.si
      BY <1>3, <1>4, <2>1, GivenIs
    <2>2. CASE \E i \in DOMAIN e.maps : x = <<"map", i>> /\ i < r.mi
      BY <1>3, <1>4, <2>2, GivenIs
    <2>3. CASE x = <<"create", 0>> /\ e.create < r.time
      <3>1. e.create < a.time
        BY <1>2, <1>4, <1>5, <2>3
      <3> QED BY <2>3, <3>1, GivenIs
    <2>4. CASE x = <<"exit", 0>> /\ e.exit < r.time
      <3>1. e.exit < a.time
        BY <1>2, <1>4, <1>5, <2>4
      <3> QED BY <2>4, <3>1, GivenIs
    <2> QED BY <2>1, <2>2, <2>3, <2>4, GivenIs
  <1>7. \E x : x \in Given(e, a) /\ x \notin Given(e, r)
    <2>1. CASE SampleEvent(e, r)
      <3>1. r.si \in DOMAIN e.samples /\ a.si = r.si + 1
        BY <1>2, <1>3, <1>4, <2>1 DEF SampleEvent, Moved
      <3>2. <<"sample", r.si>> \in Given(e, a) /\ <<"sample", r.si>> \notin Given(e, r)
        BY <1>4, <3>1, GivenIs
      <3> QED BY <3>2
    <2>2. CASE MappingEvent(e, r)
      <3>1. r.mi \in DOMAIN e.maps /\ a.mi = r.mi + 1
        BY <1>2, <1>3, <1>4, <2>2 DEF MappingEvent, Moved
      <3>2. <<"map", r.mi>> \in Given(e, a) /\ <<"map", r.mi>> \notin Given(e, r)
        BY <1>4, <3>1, GivenIs
      <3> QED BY <3>2
    <2>3. CASE ~ SampleEvent(e, r) /\ ~ MappingEvent(e, r)
      <3>1. CreatedEvent(e, r) \/ ExitedEvent(e, r)
        BY <2>3 DEF ReplayAt
      <3>2. r.time < a.time
        BY <1>1, <2>3, AdvanceAt
      <3>3. CASE CreatedEvent(e, r)
        <4>1. <<"create", 0>> \in Given(e, a) /\ <<"create", 0>> \notin Given(e, r)
          BY <1>4, <1>5, <3>2, <3>3, GivenIs DEF CreatedEvent
        <4> QED BY <4>1
      <3>4. CASE ExitedEvent(e, r)
        <4>1. <<"exit", 0>> \in Given(e, a) /\ <<"exit", 0>> \notin Given(e, r)
          BY <1>4, <1>5, <3>2, <3>4, GivenIs DEF ExitedEvent
        <4> QED BY <4>1
      <3> QED BY <3>1, <3>3, <3>4
    <2> QED BY <2>1, <2>2, <2>3
  <1> QED BY <1>1, <1>6, <1>7

LEMMA NotAllGiven ==
    ASSUME NEW e, Replayable(e), NEW r, ReplayAt(e, r), r.time < MaxTime
    PROVE  Given(e, r) # Things(e)
  <1>1. /\ DOMAIN e.samples = 1 .. Len(e.samples) /\ Len(e.samples) \in Nat
        /\ DOMAIN e.maps = 1 .. Len(e.maps) /\ Len(e.maps) \in Nat
    BY SeqDomain DEF Replayable, TimeList, Timed
  <1>2. r.si \in Nat \ {0} /\ r.mi \in Nat \ {0} /\ r.time \in Nat
    BY <1>1 DEF ReplayAt, Cursor
  <1>3. CASE SampleEvent(e, r)
    <2>1. <<"sample", r.si>> \in Things(e)
      BY <1>1, <1>2, <1>3 DEF SampleEvent, Things
    <2>2. <<"sample", r.si>> \notin Given(e, r)
      BY <1>2, GivenIs
    <2> QED BY <2>1, <2>2
  <1>4. CASE MappingEvent(e, r)
    <2>1. <<"map", r.mi>> \in Things(e)
      BY <1>1, <1>2, <1>4 DEF MappingEvent, Things
    <2>2. <<"map", r.mi>> \notin Given(e, r)
      BY <1>2, GivenIs
    <2> QED BY <2>1, <2>2
  <1>5. <<"create", 0>> \in Things(e) /\ <<"exit", 0>> \in Things(e)
    BY DEF Things
  <1>6. CASE CreatedEvent(e, r)
    <2>1. <<"create", 0>> \notin Given(e, r)
      BY <1>2, <1>6, GivenIs DEF CreatedEvent
    <2> QED BY <1>5, <2>1
  <1>7. CASE ExitedEvent(e, r)
    <2>1. <<"exit", 0>> \notin Given(e, r)
      BY <1>2, <1>7, GivenIs DEF ExitedEvent
    <2> QED BY <1>5, <2>1
  <1> QED BY <1>3, <1>4, <1>6, <1>7 DEF ReplayAt

-----------------------------------------------------------------------------
(* The loop.                                                               *)

StartState(table) ==
    [at |-> [p \in DOMAIN table |-> StartOfReplay(table[p])], log |-> << >>]

IsLoop(table, f, most) ==
    f = [n \in 0 .. most |-> IF n = 0 THEN StartState(table)
                             ELSE ReplayRound(table, f[n - 1])]

(* A state after each round, up to any number of them.                     *)
LEMMA LoopExists ==
    ASSUME NEW table, NEW most \in Nat
    PROVE  \E f : IsLoop(table, f, most)
  <1> DEFINE Bad == {m \in Nat : ~ \E f : IsLoop(table, f, m)}
  <1>1. SUFFICES ASSUME Bad # {} PROVE FALSE
    OBVIOUS
  <1>2. PICK m : m = Min(Bad)
    OBVIOUS
  <1>3. m \in Bad /\ \A n \in Bad : m <= n
    <2>1. Bad \subseteq Nat
      OBVIOUS
    <2> HIDE DEF Bad
    <2> QED BY <1>1, <1>2, <2>1, MinIsLeast
  <1>4. m \in Nat /\ ~ \E f : IsLoop(table, f, m)
    BY <1>3
  <1>5. CASE m = 0
    <2>1. IsLoop(table, [n \in 0 .. 0 |-> StartState(table)], 0)
      BY DEF IsLoop
    <2> QED BY <1>4, <1>5, <2>1
  <1>6. CASE m # 0
    <2>1. m - 1 \in Nat /\ m - 1 \notin Bad
      BY <1>3, <1>4, <1>6
    <2>2. PICK g : IsLoop(table, g, m - 1)
      BY <2>1
    <2> DEFINE f == [n \in 0 .. m |-> IF n = m THEN ReplayRound(table, g[m - 1]) ELSE g[n]]
               step(n) == IF n = 0 THEN StartState(table) ELSE ReplayRound(table, f[n - 1])
    <2>3. \A n \in 0 .. m - 1 : g[n] = IF n = 0 THEN StartState(table)
                                       ELSE ReplayRound(table, g[n - 1])
      BY <2>2 DEF IsLoop
    <2>4. ASSUME NEW n \in 0 .. m PROVE f[n] = step(n)
      <3>1. CASE n = m
        <4>1. f[n - 1] = g[m - 1] /\ f[n] = ReplayRound(table, g[m - 1])
          BY <1>4, <1>6, <3>1
        <4> QED BY <1>6, <3>1, <4>1
      <3>2. CASE n # m /\ n # 0
        <4>1. n \in 0 .. m - 1 /\ n - 1 \in 0 .. m /\ n - 1 # m
          BY <1>4, <3>2
        <4>2. f[n] = g[n] /\ f[n - 1] = g[n - 1]
          BY <3>2, <4>1
        <4>3. g[n] = ReplayRound(table, g[n - 1])
          BY <2>3, <3>2, <4>1
        <4> QED BY <3>2, <4>2, <4>3
      <3>3. CASE n # m /\ n = 0
        BY <1>4, <2>3, <3>3
      <3> QED BY <3>1, <3>2, <3>3
    <2>5. f = [n \in 0 .. m |-> step(n)]
      <3>1. f = [n \in 0 .. m |-> f[n]]
        OBVIOUS
      <3> HIDE DEF f
      <3> QED BY <2>4, <3>1
    <2>6. IsLoop(table, f, m)
      <3> HIDE DEF f
      <3> QED BY <2>5 DEF IsLoop
    <2> QED BY <1>4, <2>6
  <1> QED BY <1>5, <1>6

LEMMA StateSteps ==
    ASSUME NEW table, NEW most \in Nat
    PROVE  /\ StateAfter(table, most)[0] = StartState(table)
           /\ \A n \in 1 .. most : StateAfter(table, most)[n] =
                    ReplayRound(table, StateAfter(table, most)[n - 1])
  <1>1. PICK f : f = StateAfter(table, most)
    OBVIOUS
  <1>2. f = CHOOSE g : IsLoop(table, g, most)
    BY <1>1 DEF StateAfter, IsLoop, StartState
  <1>3. IsLoop(table, f, most)
    BY <1>2, LoopExists
  <1>4. \A n \in 0 .. most : f[n] = IF n = 0 THEN StartState(table)
                                    ELSE ReplayRound(table, f[n - 1])
    BY <1>3 DEF IsLoop
  <1> QED BY <1>1, <1>4

-----------------------------------------------------------------------------
(* What the rounds gave of a process.                                      *)

CallsOf(l, p, i) == {c \in l[i].calls : c.pid = p}

SampleRounds(l, p, k) == {i \in DOMAIN l : \E c \in CallsOf(l, p, i) : c.sample = k}
MapRounds(l, p, k) == {i \in DOMAIN l : \E c \in CallsOf(l, p, i) : c.map = k}
CreatedRounds(l, p) == {i \in DOMAIN l : \E c \in CallsOf(l, p, i) : c.created}
ExitedRounds(l, p) == {i \in DOMAIN l : \E c \in CallsOf(l, p, i) : c.exited}

(* One thing of a list, given once when it is before the cursor.           *)
OnceBefore(l, rounds, k, cursor, time) ==
    IF k < cursor THEN \E i \in DOMAIN l : rounds = {i} /\ l[i].time = time
                  ELSE rounds = {}

FlagGiven(rounds, at, time) ==
    /\ at # 0 /\ at < time => rounds # {}
    /\ at = 0 => rounds = {}

ProcessGiven(l, p, e, r) ==
    /\ \A k \in DOMAIN e.samples :
            OnceBefore(l, SampleRounds(l, p, k), k, r.si, e.samples[k].time)
    /\ \A k \in DOMAIN e.maps :
            OnceBefore(l, MapRounds(l, p, k), k, r.mi, e.maps[k].time)
    /\ FlagGiven(CreatedRounds(l, p), e.create, r.time)
    /\ FlagGiven(ExitedRounds(l, p), e.exit, r.time)

(* A round without a call for the process.                                 *)
LEMMA NotCalled ==
    ASSUME NEW l, IsSeq(l), NEW x, NEW p, \A c \in x.calls : c.pid # p,
           NEW e, NEW r, ProcessGiven(l, p, e, r)
    PROVE  ProcessGiven(Append(l, x), p, e, r)
  <1>1. PICK a : a = Append(l, x)
    OBVIOUS
  <1>2. /\ DOMAIN a = DOMAIN l \cup {Len(l) + 1} /\ Len(l) + 1 \notin DOMAIN l
        /\ a[Len(l) + 1] = x /\ \A i \in DOMAIN l : a[i] = l[i]
    BY <1>1, AppendFacts
  <1>3. CallsOf(a, p, Len(l) + 1) = {} /\ \A i \in DOMAIN l : CallsOf(a, p, i) = CallsOf(l, p, i)
    BY <1>2 DEF CallsOf
  <1>4. /\ \A k : SampleRounds(a, p, k) = SampleRounds(l, p, k)
        /\ \A k : MapRounds(a, p, k) = MapRounds(l, p, k)
        /\ CreatedRounds(a, p) = CreatedRounds(l, p)
        /\ ExitedRounds(a, p) = ExitedRounds(l, p)
    BY <1>2, <1>3 DEF SampleRounds, MapRounds, CreatedRounds, ExitedRounds
  <1>5. \A rounds, k, cursor, time :
            OnceBefore(l, rounds, k, cursor, time) => OnceBefore(a, rounds, k, cursor, time)
    BY <1>2 DEF OnceBefore
  <1> QED BY <1>1, <1>4, <1>5, Zenon DEF ProcessGiven

(* A thing of a list, when the cursor stands at one of them or none.       *)
Grown(l, a, n) ==
    /\ DOMAIN a = DOMAIN l \cup {n} /\ n \notin DOMAIN l
    /\ \A i \in DOMAIN l : a[i] = l[i]

(* A round gives what a cursor stands at, if it is of the round's time.    *)
GivesAt(s, cursor, time, given) ==
    given = IF cursor <= Len(s) /\ s[cursor].time = time THEN cursor ELSE 0

WithRound(before, n, given, k, after) ==
    after = IF given = k THEN before \cup {n} ELSE before

LEMMA OnceMoved ==
    ASSUME NEW l, NEW a, NEW n, Grown(l, a, n), NEW s, TimeList(s),
           NEW time, a[n].time = time,
           NEW cursor, Cursor(s, cursor, time), NEW k \in DOMAIN s,
           NEW before, OnceBefore(l, before, k, cursor, s[k].time), before \subseteq DOMAIN l,
           NEW given, GivesAt(s, cursor, time, given),
           NEW after, WithRound(before, n, given, k, after)
    PROVE  OnceBefore(a, after, k, Moved(s, cursor, time), s[k].time)
  <1>0. /\ given = (IF cursor <= Len(s) /\ s[cursor].time = time THEN cursor ELSE 0)
        /\ after = IF given = k THEN before \cup {n} ELSE before
    BY DEF GivesAt, WithRound
  <1> USE <1>0
  <1>1. /\ DOMAIN s = 1 .. Len(s) /\ Len(s) \in Nat /\ k \in Nat \ {0} /\ k <= Len(s)
        /\ cursor \in Nat \ {0}
    BY SeqDomain DEF TimeList, Timed, Cursor
  <1>2. CASE k < cursor
    <2>1. given # k /\ after = before
      BY <1>1, <1>2
    <2>2. k < Moved(s, cursor, time)
      BY <1>1, <1>2 DEF Moved
    <2> QED BY <1>2, <2>1, <2>2 DEF OnceBefore, Grown
  <1>3. CASE k = cursor /\ s[cursor].time = time
    <2>1. given = k /\ Moved(s, cursor, time) = k + 1
      BY <1>1, <1>3 DEF Moved
    <2>2. before = {} /\ after = {n}
      BY <1>1, <1>3, <2>1 DEF OnceBefore, Grown
    <2>3. k < k + 1
      BY <1>1
    <2> QED BY <1>3, <2>1, <2>2, <2>3 DEF OnceBefore, Grown
  <1>4. CASE ~ (k < cursor) /\ ~ (k = cursor /\ s[cursor].time = time)
    <2>1. given # k
      BY <1>1, <1>4
    <2>2. before = {} /\ after = {}
      BY <1>4, <2>1 DEF OnceBefore, Grown
    <2>3. ~ (k < Moved(s, cursor, time))
      BY <1>1, <1>4 DEF Moved
    <2> QED BY <2>2, <2>3 DEF OnceBefore, Grown
  <1> QED BY <1>2, <1>3, <1>4

LEMMA FlagMoved ==
    ASSUME NEW at \in Nat, NEW time \in Nat, NEW next \in Nat, NEW n,
           at > time => next <= at,
           NEW before, FlagGiven(before, at, time),
           NEW after, after = before \cup {i \in {n} : at # 0 /\ at = time}
    PROVE  FlagGiven(after, at, next)
  BY DEF FlagGiven

(* A round with the process's call, which then advances.                   *)
LEMMA Called ==
    ASSUME NEW l, IsSeq(l), NEW p, NEW e, Replayable(e), NEW r, ReplayAt(e, r),
           NEW x, x.time = r.time, {c \in x.calls : c.pid = p} = {Call(p, e, r)},
           ProcessGiven(l, p, e, r)
    PROVE  ProcessGiven(Append(l, x), p, e, Advance(e, r))
  <1>1. PICK a, n : a = Append(l, x) /\ n = Len(l) + 1
    OBVIOUS
  <1>2. Grown(l, a, n) /\ a[n] = x
    BY <1>1, AppendFacts DEF Grown
  <1>3. PICK c : c = Call(p, e, r)
    OBVIOUS
  <1>4. CallsOf(a, p, n) = {c} /\ \A i \in DOMAIN l : CallsOf(a, p, i) = CallsOf(l, p, i)
    BY <1>2, <1>3 DEF CallsOf, Grown
  <1>5. /\ \A k : SampleRounds(a, p, k) =
                IF c.sample = k THEN SampleRounds(l, p, k) \cup {n} ELSE SampleRounds(l, p, k)
        /\ \A k : MapRounds(a, p, k) =
                IF c.map = k THEN MapRounds(l, p, k) \cup {n} ELSE MapRounds(l, p, k)
        /\ CreatedRounds(a, p) = CreatedRounds(l, p) \cup {i \in {n} : c.created}
        /\ ExitedRounds(a, p) = ExitedRounds(l, p) \cup {i \in {n} : c.exited}
    BY <1>2, <1>4 DEF SampleRounds, MapRounds, CreatedRounds, ExitedRounds, Grown
  <1>6. /\ c.sample = IF SampleEvent(e, r) THEN r.si ELSE 0
        /\ c.map = IF MappingEvent(e, r) THEN r.mi ELSE 0
        /\ c.created = CreatedEvent(e, r) /\ c.exited = ExitedEvent(e, r)
    BY <1>3 DEF Call
  <1>7. PICK d : d = Advance(e, r)
    OBVIOUS
  <1>8. /\ ReplayAt(e, d)
        /\ d.si = Moved(e.samples, r.si, r.time) /\ d.mi = Moved(e.maps, r.mi, r.time)
        /\ e.create > r.time => d.time <= e.create
        /\ e.exit > r.time => d.time <= e.exit
    BY <1>7, AdvanceAt
  <1>9. \A k \in DOMAIN e.samples :
            OnceBefore(a, SampleRounds(a, p, k), k, d.si, e.samples[k].time)
    <2> SUFFICES ASSUME NEW k \in DOMAIN e.samples
                 PROVE  OnceBefore(a, SampleRounds(a, p, k), k, d.si, e.samples[k].time)
      OBVIOUS
    <2>1. PICK s, cursor, time, given, before, after :
            /\ s = e.samples /\ cursor = r.si /\ time = r.time /\ given = c.sample
            /\ before = SampleRounds(l, p, k) /\ after = SampleRounds(a, p, k)
      OBVIOUS
    <2>2. /\ TimeList(s) /\ a[n].time = time /\ Cursor(s, cursor, time) /\ k \in DOMAIN s
      BY <1>2, <2>1 DEF Replayable, ReplayAt
    <2>3. OnceBefore(l, before, k, cursor, s[k].time) /\ before \subseteq DOMAIN l
      BY <2>1 DEF ProcessGiven, SampleRounds
    <2>4. GivesAt(s, cursor, time, given)
      BY <1>6, <2>1 DEF SampleEvent, GivesAt
    <2>5. WithRound(before, n, given, k, after)
      BY <1>5, <2>1 DEF WithRound
    <2>6. OnceBefore(a, after, k, Moved(s, cursor, time), s[k].time)
      BY <1>2, <2>2, <2>3, <2>4, <2>5, OnceMoved
    <2> QED BY <1>8, <2>1, <2>6
  <1>10. \A k \in DOMAIN e.maps :
            OnceBefore(a, MapRounds(a, p, k), k, d.mi, e.maps[k].time)
    <2> SUFFICES ASSUME NEW k \in DOMAIN e.maps
                 PROVE  OnceBefore(a, MapRounds(a, p, k), k, d.mi, e.maps[k].time)
      OBVIOUS
    <2>1. PICK s, cursor, time, given, before, after :
            /\ s = e.maps /\ cursor = r.mi /\ time = r.time /\ given = c.map
            /\ before = MapRounds(l, p, k) /\ after = MapRounds(a, p, k)
      OBVIOUS
    <2>2. /\ TimeList(s) /\ a[n].time = time /\ Cursor(s, cursor, time) /\ k \in DOMAIN s
      BY <1>2, <2>1 DEF Replayable, ReplayAt
    <2>3. OnceBefore(l, before, k, cursor, s[k].time) /\ before \subseteq DOMAIN l
      BY <2>1 DEF ProcessGiven, MapRounds
    <2>4. GivesAt(s, cursor, time, given)
      BY <1>6, <2>1 DEF MappingEvent, GivesAt
    <2>5. WithRound(before, n, given, k, after)
      BY <1>5, <2>1 DEF WithRound
    <2>6. OnceBefore(a, after, k, Moved(s, cursor, time), s[k].time)
      BY <1>2, <2>2, <2>3, <2>4, <2>5, OnceMoved
    <2> QED BY <1>8, <2>1, <2>6
  <1>11. r.time \in Nat /\ d.time \in Nat /\ e.create \in Nat /\ e.exit \in Nat
    BY <1>8 DEF ReplayAt, Replayable
  <1>12. FlagGiven(CreatedRounds(a, p), e.create, d.time)
    <2>1. CreatedRounds(a, p) = CreatedRounds(l, p)
                \cup {i \in {n} : e.create # 0 /\ e.create = r.time}
      BY <1>5, <1>6 DEF CreatedEvent
    <2> QED BY <1>8, <1>11, <2>1, FlagMoved DEF ProcessGiven
  <1>13. FlagGiven(ExitedRounds(a, p), e.exit, d.time)
    <2>1. ExitedRounds(a, p) = ExitedRounds(l, p)
                \cup {i \in {n} : e.exit # 0 /\ e.exit = r.time}
      BY <1>5, <1>6 DEF ExitedEvent
    <2> QED BY <1>8, <1>11, <2>1, FlagMoved DEF ProcessGiven
  <1> QED BY <1>1, <1>7, <1>9, <1>10, <1>12, <1>13 DEF ProcessGiven

-----------------------------------------------------------------------------
(* The state after a number of rounds.                                     *)

(* The rounds so far are in the order of time, none is later than where a  *)
(* process's replay stands, and they gave what is before its cursors.      *)
LoopState(table, st) ==
    /\ st = [at |-> st.at, log |-> st.log] /\ DOMAIN st.at = DOMAIN table
    /\ IsSeq(st.log)
    /\ \A i \in DOMAIN st.log : st.log[i].time \in Nat
    /\ \A i, j \in DOMAIN st.log : i < j => st.log[i].time <= st.log[j].time
    /\ \A p \in DOMAIN table :
            /\ ReplayAt(table[p], st.at[p])
            /\ ProcessGiven(st.log, p, table[p], st.at[p])
            /\ \A i \in DOMAIN st.log : st.log[i].time <= st.at[p].time

Finished(table, st) == \A p \in DOMAIN table : st.at[p].time = MaxTime

AllGiven(table, st) == UNION {{p} \X Given(table[p], st.at[p]) : p \in DOMAIN table}

ReplayTable(table) == \A p \in DOMAIN table : Replayable(table[p])

LEMMA StartLoop ==
    ASSUME NEW table, ReplayTable(table)
    PROVE  LoopState(table, StartState(table))
  <1>1. PICK st : st = StartState(table)
    OBVIOUS
  <1>2. /\ st = [at |-> st.at, log |-> st.log] /\ DOMAIN st.at = DOMAIN table
        /\ st.log = << >> /\ \A p \in DOMAIN table : st.at[p] = StartOfReplay(table[p])
    BY <1>1 DEF StartState
  <1>3. IsSeq(st.log) /\ DOMAIN st.log = {}
    BY <1>2 DEF IsSeq
  <1>4. ASSUME NEW p \in DOMAIN table
        PROVE  ReplayAt(table[p], st.at[p]) /\ ProcessGiven(st.log, p, table[p], st.at[p])
    <2>1. PICK e, r, l : e = table[p] /\ r = st.at[p] /\ l = st.log
      OBVIOUS
    <2>2. /\ Replayable(e) /\ ReplayAt(e, r) /\ r.si = 1 /\ r.mi = 1
          /\ e.create # 0 => r.time <= e.create
          /\ e.exit # 0 => r.time <= e.exit
      BY <1>2, <2>1, StartAt DEF ReplayTable
    <2>3. /\ \A k : SampleRounds(l, p, k) = {} /\ MapRounds(l, p, k) = {}
          /\ CreatedRounds(l, p) = {} /\ ExitedRounds(l, p) = {}
      BY <1>3, <2>1 DEF SampleRounds, MapRounds, CreatedRounds, ExitedRounds
    <2>4. /\ \A k \in DOMAIN e.samples : ~ (k < r.si)
          /\ \A k \in DOMAIN e.maps : ~ (k < r.mi)
      BY <2>2, SeqDomain DEF Replayable, TimeList, Timed
    <2>5. /\ FlagGiven({}, e.create, r.time) /\ FlagGiven({}, e.exit, r.time)
      BY <2>2 DEF FlagGiven, Replayable, ReplayAt
    <2>6. ProcessGiven(l, p, e, r)
      BY <2>3, <2>4, <2>5 DEF ProcessGiven, OnceBefore
    <2> QED BY <2>1, <2>2, <2>6
  <1>5. LoopState(table, st)
    BY <1>2, <1>3, <1>4 DEF LoopState
  <1> QED BY <1>1, <1>5

RoundAt(table, st, t) ==
    /\ t <= MaxTime /\ (t = MaxTime <=> Finished(table, st))
    /\ \A p \in DOMAIN table : t <= st.at[p].time
    /\ t < MaxTime => \E p \in DOMAIN table : st.at[p].time = t
    /\ t = MaxTime => ReplayRound(table, st) = st
    /\ t < MaxTime => ReplayRound(table, st) =
        [at |-> [p \in DOMAIN table |->
                    IF st.at[p].time = t THEN Advance(table[p], st.at[p])
                                         ELSE st.at[p]],
         log |-> Append(st.log,
            [time |-> t,
             calls |-> {Call(p, table[p], st.at[p]) :
                            p \in {q \in DOMAIN table : st.at[q].time = t}}])]

(* A round that calls: the parts of the state after it.                    *)
LEMMA RoundIs ==
    ASSUME NEW table, NEW st, LoopState(table, st)
    PROVE  \E t \in Nat : RoundAt(table, st, t)
  <1> DEFINE times == {st.at[p].time : p \in DOMAIN table} \cup {MaxTime}
  <1>1. PICK t : t = Min(times)
    OBVIOUS
  <1>2. times \subseteq Nat /\ times # {}
    BY MaxTimeAssumption DEF LoopState, ReplayAt
  <1>3. t \in times /\ \A y \in times : t <= y
    <2> HIDE DEF times
    <2> QED BY <1>1, <1>2, MinIsLeast
  <1>4. t \in Nat /\ t <= MaxTime /\ \A p \in DOMAIN table : t <= st.at[p].time
    BY <1>2, <1>3
  <1>9. t < MaxTime => t # MaxTime
    BY <1>4, MaxTimeAssumption
  <1>5. t < MaxTime => \E p \in DOMAIN table : st.at[p].time = t
    BY <1>3, <1>9
  <1>6. t = MaxTime <=> Finished(table, st)
    <2>1. ASSUME t = MaxTime, NEW p \in DOMAIN table PROVE st.at[p].time = MaxTime
      BY <1>4, <2>1 DEF LoopState, ReplayAt
    <2>2. Finished(table, st) => t = MaxTime
      BY <1>3, <1>4, <1>5 DEF Finished
    <2> QED BY <2>1, <2>2 DEF Finished
  <1> DEFINE now(u) == {q \in DOMAIN table : st.at[q].time = u}
             at(u) == [p \in DOMAIN table |-> IF p \in now(u)
                            THEN Advance(table[p], st.at[p]) ELSE st.at[p]]
  <1>7. ReplayRound(table, st) =
            IF t = MaxTime THEN st
            ELSE [at |-> at(t),
                  log |-> Append(st.log, [time |-> t,
                            calls |-> {Call(p, table[p], st.at[p]) : p \in now(t)}])]
    BY <1>1 DEF ReplayRound
  <1>8. at(t) = [p \in DOMAIN table |->
                    IF st.at[p].time = t THEN Advance(table[p], st.at[p]) ELSE st.at[p]]
    OBVIOUS
  <1> HIDE DEF at
  <1>10. RoundAt(table, st, t)
    BY <1>4, <1>5, <1>6, <1>7, <1>8, <1>9, Zenon DEF RoundAt
  <1> QED BY <1>4, <1>10

(* A round keeps the state, and gives something unless all is given.       *)
LEMMA RoundKeeps ==
    ASSUME NEW table, ReplayTable(table), NEW st, LoopState(table, st),
           NEW sn, sn = ReplayRound(table, st)
    PROVE  /\ LoopState(table, sn)
           /\ Finished(table, st) => sn = st
           /\ ~ Finished(table, st) =>
                /\ AllGiven(table, st) \subseteq AllGiven(table, sn)
                /\ AllGiven(table, st) # AllGiven(table, sn)
  <1>0. PICK t \in Nat : RoundAt(table, st, t)
    BY RoundIs
  <1>1. /\ t <= MaxTime /\ (t = MaxTime <=> Finished(table, st))
        /\ \A p \in DOMAIN table : t <= st.at[p].time
        /\ t < MaxTime => \E p \in DOMAIN table : st.at[p].time = t
        /\ t = MaxTime => ReplayRound(table, st) = st
        /\ t < MaxTime => ReplayRound(table, st) =
            [at |-> [p \in DOMAIN table |->
                        IF st.at[p].time = t THEN Advance(table[p], st.at[p])
                                             ELSE st.at[p]],
             log |-> Append(st.log,
                [time |-> t,
                 calls |-> {Call(p, table[p], st.at[p]) :
                                p \in {q \in DOMAIN table : st.at[q].time = t}}])]
    BY <1>0, Zenon DEF RoundAt
  <1>2. CASE t = MaxTime
    BY <1>1, <1>2
  <1>3. CASE t < MaxTime
    <2>0. ~ Finished(table, st)
      BY <1>1, <1>3, MaxTimeAssumption
    <2>1. PICK l, x :
            /\ l = st.log
            /\ x = [time |-> t,
                    calls |-> {Call(p, table[p], st.at[p]) :
                                    p \in {q \in DOMAIN table : st.at[q].time = t}}]
      OBVIOUS
    <2>2. /\ sn = [at |-> sn.at, log |-> sn.log] /\ DOMAIN sn.at = DOMAIN table
          /\ sn.log = Append(l, x)
          /\ \A p \in DOMAIN table :
                sn.at[p] = IF st.at[p].time = t THEN Advance(table[p], st.at[p])
                                                ELSE st.at[p]
      BY <1>1, <1>3, <2>1
    <2>3. PICK a, n : a = sn.log /\ n = Len(l) + 1
      OBVIOUS
    <2>4. IsSeq(l) /\ IsSeq(a) /\ Grown(l, a, n) /\ a[n] = x /\ x.time = t
      BY <2>1, <2>2, <2>3, AppendFacts DEF LoopState, Grown
    <2>5. \A p \in DOMAIN table : t <= st.at[p].time /\ st.at[p].time <= sn.at[p].time
                                  /\ sn.at[p].time \in Nat /\ st.at[p].time \in Nat
      <3> SUFFICES ASSUME NEW p \in DOMAIN table
                   PROVE  t <= st.at[p].time /\ st.at[p].time <= sn.at[p].time
                          /\ sn.at[p].time \in Nat /\ st.at[p].time \in Nat
        OBVIOUS
      <3>1. PICK e, r : e = table[p] /\ r = st.at[p]
        OBVIOUS
      <3>2. Replayable(e) /\ ReplayAt(e, r)
        BY <3>1 DEF LoopState, ReplayTable
      <3>3. r.time <= Advance(e, r).time /\ Advance(e, r).time \in Nat /\ r.time \in Nat
        BY <3>2, AdvanceAt DEF ReplayAt
      <3> QED BY <1>1, <2>2, <3>1, <3>3
    <2>6. ASSUME NEW p \in DOMAIN table
          PROVE  ReplayAt(table[p], sn.at[p]) /\ ProcessGiven(a, p, table[p], sn.at[p])
      <3>1. PICK e, r : e = table[p] /\ r = st.at[p]
        OBVIOUS
      <3>2. Replayable(e) /\ ReplayAt(e, r) /\ ProcessGiven(l, p, e, r)
        BY <2>1, <3>1 DEF LoopState, ReplayTable
      <3>3. CASE r.time = t
        <4>1. {c \in x.calls : c.pid = p} = {Call(p, e, r)}
          BY <2>1, <3>1, <3>3 DEF Call
        <4>2. ProcessGiven(Append(l, x), p, e, Advance(e, r))
          BY <2>4, <3>2, <3>3, <4>1, Called
        <4>3. ReplayAt(e, Advance(e, r))
          BY <3>2, AdvanceAt
        <4> QED BY <2>2, <2>3, <3>1, <3>3, <4>2, <4>3
      <3>4. CASE r.time # t
        <4>1. \A c \in x.calls : c.pid # p
          BY <2>1, <3>1, <3>4 DEF Call
        <4>2. ProcessGiven(Append(l, x), p, e, r)
          BY <2>4, <3>2, <4>1, NotCalled
        <4> QED BY <2>2, <2>3, <3>1, <3>2, <3>4, <4>2
      <3> QED BY <3>3, <3>4
    <2>7. \A i \in DOMAIN a : a[i].time \in Nat
      BY <2>1, <2>4 DEF LoopState, Grown
    <2>8. \A i \in DOMAIN l : l[i].time \in Nat /\ l[i].time <= t
      <3>1. PICK p \in DOMAIN table : st.at[p].time = t
        BY <1>1, <1>3
      <3> QED BY <2>1, <3>1 DEF LoopState
    <2>9. ASSUME NEW i \in DOMAIN a, NEW j \in DOMAIN a, i < j
          PROVE  a[i].time <= a[j].time
      <3>1. DOMAIN l = 1 .. Len(l) /\ Len(l) \in Nat
        BY <2>4, SeqDomain
      <3>2. i \in DOMAIN l
        BY <2>3, <2>4, <2>9, <3>1 DEF Grown
      <3>3. CASE j \in DOMAIN l
        BY <2>1, <2>4, <2>9, <3>2, <3>3 DEF Grown, LoopState
      <3>4. CASE j = n
        BY <2>4, <2>8, <3>2, <3>4 DEF Grown
      <3> QED BY <2>4, <3>3, <3>4 DEF Grown
    <2>10. ASSUME NEW p \in DOMAIN table, NEW i \in DOMAIN a
           PROVE  a[i].time <= sn.at[p].time
      <3>1. a[i].time \in Nat /\ a[i].time <= t
        BY <2>4, <2>8 DEF Grown
      <3> QED BY <2>5, <3>1
    <2>11. LoopState(table, sn)
      BY <2>2, <2>3, <2>4, <2>6, <2>7, <2>9, <2>10 DEF LoopState
    <2>12. \A p \in DOMAIN table :
              /\ Given(table[p], st.at[p]) \subseteq Given(table[p], sn.at[p])
              /\ st.at[p].time = t =>
                    Given(table[p], st.at[p]) # Given(table[p], sn.at[p])
      <3> SUFFICES ASSUME NEW p \in DOMAIN table
                   PROVE  /\ Given(table[p], st.at[p]) \subseteq Given(table[p], sn.at[p])
                          /\ st.at[p].time = t =>
                                Given(table[p], st.at[p]) # Given(table[p], sn.at[p])
        OBVIOUS
      <3>1. PICK e, r : e = table[p] /\ r = st.at[p]
        OBVIOUS
      <3>2. Replayable(e) /\ ReplayAt(e, r)
        BY <3>1 DEF LoopState, ReplayTable
      <3> QED BY <1>3, <2>2, <3>1, <3>2, Gives
    <2>13. AllGiven(table, st) \subseteq AllGiven(table, sn)
      BY <2>12 DEF AllGiven
    <2>14. AllGiven(table, st) # AllGiven(table, sn)
      <3>1. PICK p \in DOMAIN table : st.at[p].time = t
        BY <1>1, <1>3
      <3>2. PICK y \in Given(table[p], sn.at[p]) : y \notin Given(table[p], st.at[p])
        BY <2>12, <3>1
      <3>3. <<p, y>> \in AllGiven(table, sn)
        BY <3>2 DEF AllGiven
      <3>4. <<p, y>> \notin AllGiven(table, st)
        BY <3>2 DEF AllGiven
      <3> QED BY <3>3, <3>4
    <2> QED BY <2>0, <2>11, <2>13, <2>14
  <1> QED BY <1>1, <1>2, <1>3, MaxTimeAssumption

-----------------------------------------------------------------------------
(* The loop gives all.                                                     *)

LEMMA ThingsFinite ==
    ASSUME NEW table, ReplayTable(table), IsFiniteSet(DOMAIN table)
    PROVE  IsFiniteSet(AllThings(table))
  <1>1. ASSUME NEW p \in DOMAIN table PROVE IsFiniteSet({p} \X Things(table[p]))
    <2>1. PICK e : e = table[p]
      OBVIOUS
    <2>2. /\ DOMAIN e.samples = 1 .. Len(e.samples) /\ Len(e.samples) \in Nat
          /\ DOMAIN e.maps = 1 .. Len(e.maps) /\ Len(e.maps) \in Nat
      BY <2>1, SeqDomain DEF ReplayTable, Replayable, TimeList, Timed
    <2>3. IsFiniteSet(DOMAIN e.samples) /\ IsFiniteSet(DOMAIN e.maps)
      BY <2>2, FS_Interval, SMTT(40)
    <2>4. /\ IsFiniteSet({"sample"}) /\ IsFiniteSet({"map"}) /\ IsFiniteSet({0})
          /\ IsFiniteSet({p}) /\ IsFiniteSet({"create"})
      BY FS_Singleton
    <2>5. IsFiniteSet({"create", "exit"})
      <3>1. {"create", "exit"} = {"create"} \cup {"exit"}
        OBVIOUS
      <3> QED BY <2>4, <3>1, FS_AddElement
    <2>6. /\ IsFiniteSet({"sample"} \X DOMAIN e.samples)
          /\ IsFiniteSet({"map"} \X DOMAIN e.maps)
          /\ IsFiniteSet({"create", "exit"} \X {0})
      BY <2>3, <2>4, <2>5, FS_Product
    <2>7. IsFiniteSet(Things(e))
      BY <2>6, FS_Union DEF Things
    <2> QED BY <2>1, <2>4, <2>7, FS_Product
  <1> DEFINE S == DOMAIN table
             T == {{p} \X Things(table[p]) : p \in S}
             f == [p \in S |-> {p} \X Things(table[p])]
  <1>2. f \in [S -> T] /\ \A t \in T : \E p \in S : f[p] = t
    OBVIOUS
  <1>3. f \in Surjection(S, T)
    <2> HIDE DEF f, T
    <2> QED BY <1>2 DEF Surjection
  <1>4. IsFiniteSet(T)
    <2> HIDE DEF f, T
    <2> QED BY <1>3, FS_Surjection
  <1>5. \A t \in T : IsFiniteSet(t)
    BY <1>1
  <1>6. IsFiniteSet(UNION T)
    <2> HIDE DEF T
    <2> QED BY <1>4, <1>5, FS_UNION
  <1> QED BY <1>6 DEF AllThings

LEMMA GivenOfThings ==
    ASSUME NEW table, ReplayTable(table), NEW st, LoopState(table, st)
    PROVE  /\ AllGiven(table, st) \subseteq AllThings(table)
           /\ ~ Finished(table, st) => AllGiven(table, st) # AllThings(table)
  <1>1. \A p \in DOMAIN table : Given(table[p], st.at[p]) \subseteq Things(table[p])
    BY GivenIs
  <1>2. AllGiven(table, st) \subseteq AllThings(table)
    BY <1>1 DEF AllGiven, AllThings
  <1>3. ASSUME ~ Finished(table, st) PROVE AllGiven(table, st) # AllThings(table)
    <2>1. PICK p \in DOMAIN table : st.at[p].time # MaxTime
      BY <1>3 DEF Finished
    <2>2. PICK e, r : e = table[p] /\ r = st.at[p]
      OBVIOUS
    <2>3. Replayable(e) /\ ReplayAt(e, r) /\ r.time < MaxTime
      BY <2>1, <2>2, MaxTimeAssumption DEF LoopState, ReplayTable, ReplayAt
    <2>4. PICK y \in Things(e) : y \notin Given(e, r)
      <3>1. Given(e, r) \subseteq Things(e)
        BY <1>1, <2>2
      <3>2. Given(e, r) # Things(e)
        BY <2>3, NotAllGiven
      <3> QED BY <3>1, <3>2
    <2>5. <<p, y>> \in AllThings(table)
      BY <2>2, <2>4 DEF AllThings
    <2>6. <<p, y>> \notin AllGiven(table, st)
      BY <2>2, <2>4 DEF AllGiven
    <2> QED BY <2>5, <2>6
  <1> QED BY <1>2, <1>3

(* After n rounds all is given, or n things at least.                      *)
RanTo(table, st, n) ==
    /\ LoopState(table, st)
    /\ Finished(table, st) \/ Cardinality(AllGiven(table, st)) >= n

LEMMA RoundRuns ==
    ASSUME NEW table, ReplayTable(table), IsFiniteSet(AllThings(table)), NEW st,
           NEW n \in Nat, RanTo(table, st, n), NEW sn, sn = ReplayRound(table, st)
    PROVE  RanTo(table, sn, n + 1)
  <1>1. /\ LoopState(table, sn)
        /\ Finished(table, st) => sn = st
        /\ ~ Finished(table, st) =>
                /\ AllGiven(table, st) \subseteq AllGiven(table, sn)
                /\ AllGiven(table, st) # AllGiven(table, sn)
    BY RoundKeeps DEF RanTo
  <1>2. CASE Finished(table, st)
    BY <1>1, <1>2 DEF RanTo
  <1>3. CASE ~ Finished(table, st)
    <2>1. PICK G, H : G = AllGiven(table, st) /\ H = AllGiven(table, sn)
      OBVIOUS
    <2>2. G \in SUBSET H /\ G # H /\ IsFiniteSet(H) /\ IsFiniteSet(G)
      BY <1>1, <1>3, <2>1, GivenOfThings, FS_Subset
    <2>3. Cardinality(G) <= Cardinality(H) /\ Cardinality(G) # Cardinality(H)
      BY <2>2, FS_Subset
    <2>4. Cardinality(G) \in Nat /\ Cardinality(H) \in Nat
      BY <2>2, FS_CardinalityType
    <2>5. Cardinality(G) >= n
      BY <1>3, <2>1 DEF RanTo
    <2>6. Cardinality(H) >= n + 1
      BY <2>3, <2>4, <2>5
    <2> QED BY <1>1, <2>1, <2>6 DEF RanTo
  <1> QED BY <1>2, <1>3

LEMMA LoopRuns ==
    ASSUME NEW table, ReplayTable(table), IsFiniteSet(AllThings(table)), NEW most \in Nat
    PROVE  \A n \in 0 .. most : RanTo(table, StateAfter(table, most)[n], n)
  <1> DEFINE Bad == {n \in 0 .. most : ~ RanTo(table, StateAfter(table, most)[n], n)}
  <1>1. SUFFICES ASSUME Bad # {} PROVE FALSE
    OBVIOUS
  <1>2. PICK n : n = Min(Bad)
    OBVIOUS
  <1>3. n \in Bad /\ \A m \in Bad : n <= m
    <2>1. Bad \subseteq Nat
      OBVIOUS
    <2> HIDE DEF Bad
    <2> QED BY <1>1, <1>2, <2>1, MinIsLeast
  <1>4. n \in 0 .. most /\ ~ RanTo(table, StateAfter(table, most)[n], n)
    BY <1>3
  <1>5. CASE n = 0
    <2>1. PICK st : st = StartState(table)
      OBVIOUS
    <2>2. LoopState(table, st)
      BY <2>1, StartLoop
    <2>3. Cardinality(AllGiven(table, st)) \in Nat
      BY <2>2, GivenOfThings, FS_Subset, FS_CardinalityType
    <2>4. RanTo(table, st, 0)
      BY <2>2, <2>3 DEF RanTo
    <2> QED BY <1>4, <1>5, <2>1, <2>4, StateSteps
  <1>6. CASE n # 0
    <2>1. n - 1 \in 0 .. most /\ n - 1 \in Nat /\ n \in 1 .. most /\ (n - 1) + 1 = n
      BY <1>4, <1>6
    <2>2. n - 1 \notin Bad
      BY <1>3, <2>1
    <2>3. PICK st, sn, m : /\ st = StateAfter(table, most)[n - 1]
                           /\ sn = StateAfter(table, most)[n] /\ m = n - 1
      OBVIOUS
    <2>4. RanTo(table, st, m) /\ m \in Nat /\ m + 1 = n
      BY <2>1, <2>2, <2>3
    <2>5. sn = ReplayRound(table, st)
      BY <2>1, <2>3, StateSteps
    <2> QED BY <1>4, <2>3, <2>4, <2>5, RoundRuns
  <1> QED BY <1>5, <1>6

(* A list whose times are known is in their order once it is sorted.       *)
LEMMA SortedTimes ==
    ASSUME NEW s, Timed(s), NEW now \in Nat, now < MaxTime,
           \A i \in DOMAIN s : s[i].time <= now
    PROVE  TimeList(SortByTime(s))
  <1> DEFINE z == SortByTime(s)
  <1>1. /\ DOMAIN z = DOMAIN s
        /\ \A k \in DOMAIN s : Comes(s, k) \in DOMAIN s /\ z[k] = s[Comes(s, k)]
        /\ \A k, l \in DOMAIN s : k < l => Precedes(s, Comes(s, k), Comes(s, l))
    BY StableSort
  <1>2. Timed(z)
    BY SortKeeps
  <1> HIDE DEF z
  <1>3. ASSUME NEW i \in DOMAIN z PROVE z[i].time < MaxTime
    <2>1. Comes(s, i) \in DOMAIN s /\ z[i].time = s[Comes(s, i)].time
      BY <1>1
    <2>2. z[i].time \in Nat /\ z[i].time <= now
      BY <1>2, <2>1 DEF Timed
    <2> QED BY <2>2, MaxTimeAssumption
  <1>4. ASSUME NEW i \in DOMAIN z, NEW j \in DOMAIN z, i < j
        PROVE  z[i].time <= z[j].time
    <2>1. Precedes(s, Comes(s, i), Comes(s, j))
      BY <1>1, <1>4
    <2>2. z[i].time < z[j].time \/ z[i].time = z[j].time
      BY <1>1, <2>1 DEF Precedes
    <2>3. z[i].time \in Nat /\ z[j].time \in Nat
      BY <1>2 DEF Timed
    <2> QED BY <2>2, <2>3
  <1> QED BY <1>2, <1>3, <1>4 DEF TimeList, z

(* What a replay must give of a process: each sample and each mapping in   *)
(* one round, of its time, and the creation and the exit if there were.    *)
GivenOnce(l, rounds, time) == \E i \in DOMAIN l : rounds = {i} /\ l[i].time = time

ReplayOf(l, p, e) ==
    /\ \A k \in DOMAIN e.samples :
            GivenOnce(l, SampleRounds(l, p, k), e.samples[k].time)
    /\ \A k \in DOMAIN e.maps : GivenOnce(l, MapRounds(l, p, k), e.maps[k].time)
    /\ e.create # 0 <=> CreatedRounds(l, p) # {}
    /\ e.exit # 0 <=> ExitedRounds(l, p) # {}

(* replay_by_time: for any processes whose lists are sorted by time, the   *)
(* rounds are in the order of time and give each sample and mapping once,  *)
(* however many share a time, and the loop ends.                           *)
THEOREM ReplayGivesAll ==
    ASSUME NEW table, ReplayTable(table), IsFiniteSet(DOMAIN table)
    PROVE  /\ \A i, j \in DOMAIN ReplayRounds(table) : i < j =>
                    ReplayRounds(table)[i].time <= ReplayRounds(table)[j].time
           /\ \A p \in DOMAIN table : ReplayOf(ReplayRounds(table), p, table[p])
  <1>1. PICK most : most = Cardinality(AllThings(table))
    OBVIOUS
  <1>2. IsFiniteSet(AllThings(table)) /\ most \in Nat
    BY <1>1, ThingsFinite, FS_CardinalityType
  <1>3. PICK st : st = StateAfter(table, most)[most]
    OBVIOUS
  <1>4. RanTo(table, st, most)
    BY <1>2, <1>3, LoopRuns
  <1>5. Finished(table, st)
    <2>1. SUFFICES ASSUME ~ Finished(table, st) PROVE FALSE
      OBVIOUS
    <2>2. PICK G, H : G = AllGiven(table, st) /\ H = AllThings(table)
      OBVIOUS
    <2>3. G \in SUBSET H /\ G # H
      BY <1>4, <2>1, <2>2, GivenOfThings DEF RanTo
    <2>4. Cardinality(G) <= Cardinality(H) /\ Cardinality(G) # Cardinality(H)
      BY <1>2, <2>2, <2>3, FS_Subset
    <2>5. Cardinality(G) \in Nat
      BY <1>2, <2>2, <2>3, FS_Subset, FS_CardinalityType
    <2>6. Cardinality(G) >= Cardinality(H)
      BY <1>1, <1>4, <2>1, <2>2 DEF RanTo
    <2> QED BY <1>1, <1>2, <2>2, <2>4, <2>5, <2>6
  <1>6. PICK l : l = st.log
    OBVIOUS
  <1>7. l = ReplayRounds(table)
    BY <1>1, <1>3, <1>6 DEF ReplayRounds
  <1>8. \A i, j \in DOMAIN l : i < j => l[i].time <= l[j].time
    BY <1>4, <1>6 DEF RanTo, LoopState
  <1>9. ASSUME NEW p \in DOMAIN table PROVE ReplayOf(l, p, table[p])
    <2>1. PICK e, r : e = table[p] /\ r = st.at[p]
      OBVIOUS
    <2>2. /\ Replayable(e) /\ ReplayAt(e, r) /\ ProcessGiven(l, p, e, r)
          /\ r.time = MaxTime
      BY <1>4, <1>5, <1>6, <2>1 DEF ReplayTable, RanTo, LoopState, Finished
    <2>3. ASSUME NEW s, TimeList(s), NEW i, Cursor(s, i, MaxTime), NEW k \in DOMAIN s
          PROVE  k < i
      BY <2>3, MaxTimeAssumption DEF Cursor, TimeList, Timed
    <2>4. /\ \A k \in DOMAIN e.samples : k < r.si
          /\ \A k \in DOMAIN e.maps : k < r.mi
      BY <2>2, <2>3 DEF Replayable, ReplayAt
    <2>5. /\ e.create # 0 <=> CreatedRounds(l, p) # {}
          /\ e.exit # 0 <=> ExitedRounds(l, p) # {}
      BY <2>2 DEF ProcessGiven, FlagGiven, Replayable
    <2>6. ReplayOf(l, p, e)
      BY <2>2, <2>4, <2>5 DEF ProcessGiven, OnceBefore, ReplayOf, GivenOnce
    <2> QED BY <2>1, <2>6
  <1> QED BY <1>7, <1>8, <1>9

-----------------------------------------------------------------------------
(* The lookup.                                                             *)

(* The mappings of a process are a list with natural bounds.               *)
Bounded(maps) ==
    /\ DOMAIN maps \subseteq Nat
    /\ \A i \in DOMAIN maps : maps[i].start \in Nat /\ maps[i].end \in Nat

LEMMA ItemFacts ==
    ASSUME NEW maps, Bounded(maps), NEW item \in Items(maps)
    PROVE  /\ item.index \in DOMAIN maps /\ item.address \in Nat /\ item.pos \in Nat
           /\ item.valid => item.address = maps[item.index].start
           /\ ~ item.valid => item.address = maps[item.index].end
  BY DEF Items, Bounded

(* Between the start of a mapping and its end index_set has it.            *)
LEMMA LiveBetween ==
    ASSUME NEW maps, Bounded(maps), NEW i \in DOMAIN maps,
           NEW first \in Items(maps), first.valid, first.index = i,
           NEW item \in Items(maps), UpTo(first, item),
           item.address < maps[i].end
    PROVE  i \in IndexSet(Items(maps), item)
  <1>1. ASSUME NEW e \in Items(maps), ~ e.valid, e.index = i, UpTo(e, item)
        PROVE  FALSE
    BY <1>1, ItemFacts DEF UpTo
  <1> QED BY <1>1 DEF IndexSet

(* AddressLookup finds every mapping that covers an address and does not   *)
(* end there, whichever other mappings there are and however they overlap. *)
LEMMA LookupComplete ==
    ASSUME NEW maps, Bounded(maps), NEW ip \in Nat, NEW i \in DOMAIN maps,
           maps[i].start <= ip, ip < maps[i].end
    PROVE  i \in LookupFind(BuildLookup(maps), ip)
  <1> DEFINE items == Items(maps)
             lookup == BuildLookup(maps)
             first == [address |-> maps[i].start, pos |-> 2 * i, index |-> i,
                       valid |-> TRUE]
             Entry0(item) == [address |-> item.address, live |-> IndexSet(items, item)]
  <1>1. /\ first \in items /\ first.valid /\ first.index = i
        /\ first.address = maps[i].start /\ first.pos \in Nat
        /\ maps[i].start \in Nat /\ maps[i].end \in Nat
    <2>1. first \in items
      BY Zenon DEF Items
    <2>2. first.valid /\ first.index = i /\ first.address = maps[i].start
      BY Zenon
    <2>3. maps[i].start \in Nat /\ maps[i].end \in Nat /\ i \in Nat
      BY DEF Bounded
    <2>4. first.pos \in Nat
      BY <2>3
    <2> HIDE DEF first, items
    <2> QED BY <2>1, <2>2, <2>3, <2>4
  <1> HIDE DEF first
  <1>2. ASSUME NEW item \in items, UpTo(first, item), item.address <= ip
        PROVE  i \in IndexSet(items, item) /\ Entry0(item) \in lookup
    <2>1. item.address < maps[i].end
      BY <1>1, <1>2, ItemFacts
    <2>2. i \in IndexSet(items, item)
      BY <1>1, <1>2, <2>1, LiveBetween
    <2> HIDE DEF items
    <2> QED BY <2>2 DEF BuildLookup, items
  <1>3. UpTo(first, first)
    BY <1>1 DEF UpTo
  <1> DEFINE S == {entry.address : entry \in {entry \in lookup : entry.address <= ip}}
  <1>4. \A entry \in lookup : \E item \in items : entry = Entry0(item)
    BY DEF BuildLookup
  <1>5. \A item \in items : item.address \in Nat
    BY ItemFacts
  <1> HIDE DEF items, lookup
  <1>6. maps[i].start \in S
    <2>1. Entry0(first) \in lookup /\ Entry0(first).address = maps[i].start
      BY <1>1, <1>2, <1>3
    <2> HIDE DEF Entry0
    <2> QED BY <2>1
  <1>7. S \subseteq 0 .. ip
    BY <1>4, <1>5
  <1>8. PICK m \in S : \A y \in S : y <= m
    BY <1>6, <1>7, Greatest
  <1>9. PICK last \in items : Entry0(last) \in lookup /\ last.address = m
    BY <1>4, <1>8
  <1>10. m \in Nat /\ m <= ip /\ maps[i].start <= m
    BY <1>6, <1>7, <1>8
  <1>11. \E item \in items : /\ i \in IndexSet(items, item) /\ Entry0(item) \in lookup
                             /\ item.address = m
    <2>1. CASE m = maps[i].start
      BY <1>1, <1>2, <1>3, <1>10, <2>1
    <2>2. CASE m # maps[i].start
      <3>1. UpTo(first, last)
        BY <1>1, <1>9, <1>10, <2>2 DEF UpTo
      <3> QED BY <1>2, <1>9, <1>10, <3>1
    <2> QED BY <2>1, <2>2
  <1>12. PICK item \in items : /\ i \in IndexSet(items, item) /\ Entry0(item) \in lookup
                               /\ item.address = m
    BY <1>11
  <1>13. \A other \in lookup : other.address <= ip => other.address <= m
    BY <1>8
  <1> DEFINE entry == Entry0(item)
  <1>14. /\ entry \in lookup /\ entry.address = m /\ i \in entry.live
    BY <1>12
  <1> HIDE DEF entry
  <1> QED BY <1>10, <1>13, <1>14 DEF LookupFind, lookup

(* The lookup finds indexes of mappings.                                   *)
LEMMA LookupInDomain ==
    ASSUME NEW maps, Bounded(maps), NEW ip
    PROVE  LookupFind(BuildLookup(maps), ip) \subseteq DOMAIN maps
  <1>1. \A item \in Items(maps) : item.index \in DOMAIN maps
    BY ItemFacts
  <1>2. ASSUME NEW last PROVE IndexSet(Items(maps), last) \subseteq DOMAIN maps
    BY <1>1 DEF IndexSet
  <1>3. ASSUME NEW entry \in BuildLookup(maps) PROVE entry.live \subseteq DOMAIN maps
    <2>1. PICK item \in Items(maps) :
              entry = [address |-> item.address, live |-> IndexSet(Items(maps), item)]
      BY <1>3 DEF BuildLookup
    <2> QED BY <1>2, <2>1
  <1> QED BY <1>3 DEF LookupFind

(* The lookup that many mappings make worth building finds the same        *)
(* mappings as the scan over few: the two ways of                          *)
(* ExportMappingLookup::find_index agree, but where a mapping ends at the  *)
(* address itself.                                                         *)
THEOREM LookupIsScan ==
    ASSUME NEW maps, Bounded(maps), NEW ip \in Nat,
           \A i \in DOMAIN maps : maps[i].end # ip
    PROVE  {i \in LookupFind(BuildLookup(maps), ip) : ContainsIp(maps[i], ip)} =
                {i \in DOMAIN maps : ContainsIp(maps[i], ip)}
  <1>1. LookupFind(BuildLookup(maps), ip) \subseteq DOMAIN maps
    BY LookupInDomain
  <1>2. ASSUME NEW i \in DOMAIN maps, ContainsIp(maps[i], ip)
        PROVE  i \in LookupFind(BuildLookup(maps), ip)
    <2>1. maps[i].start <= ip /\ ip < maps[i].end
      BY <1>2 DEF ContainsIp, Bounded
    <2> QED BY <2>1, LookupComplete
  <1> QED BY <1>1, <1>2

(* The mapping that a list has for an address at a time: the only one with *)
(* the latest time of those that cover it.                                 *)
Latest(maps, i, ip, time) ==
    /\ i \in DOMAIN maps /\ ContainsIp(maps[i], ip) /\ maps[i].time <= time
    /\ \A j \in DOMAIN maps :
            j # i /\ ContainsIp(maps[j], ip) /\ maps[j].time <= time =>
                maps[j].time < maps[i].time

LEMMA LatestIsFound ==
    ASSUME NEW maps, Bounded(maps), NEW ip \in Nat, NEW time, NEW i,
           \A j \in DOMAIN maps : maps[j].time \in Nat,
           Len(maps) >= MinLookup => \A j \in DOMAIN maps : maps[j].end # ip,
           Latest(maps, i, ip, time)
    PROVE  FindIndex(maps, ip, time) = i
  <1> DEFINE among == IF Len(maps) >= MinLookup
                      THEN LookupFind(BuildLookup(maps), ip) ELSE DOMAIN maps
             hits == {j \in among : ContainsIp(maps[j], ip) /\ maps[j].time <= time}
  <1>1. {j \in among : ContainsIp(maps[j], ip)} =
            {j \in DOMAIN maps : ContainsIp(maps[j], ip)}
    BY LookupIsScan
  <1>2. hits = {j \in DOMAIN maps : ContainsIp(maps[j], ip) /\ maps[j].time <= time}
    <2> HIDE DEF among
    <2> QED BY <1>1
  <1>3. FindIndex(maps, ip, time) =
            IF hits = {} THEN 0
            ELSE CHOOSE k \in hits : \A j \in hits :
                    \/ maps[j].time < maps[k].time
                    \/ maps[j].time = maps[k].time /\ k <= j
    BY DEF FindIndex
  <1> HIDE DEF hits, among
  <1>4. i \in hits /\ \A j \in hits : j # i => maps[j].time < maps[i].time
    BY <1>2 DEF Latest
  <1>5. \A j \in hits : j \in Nat /\ maps[j].time \in Nat
    BY <1>2 DEF Bounded
  <1>6. \A j \in hits : \/ maps[j].time < maps[i].time
                        \/ maps[j].time = maps[i].time /\ i <= j
    BY <1>4, <1>5
  <1>7. ASSUME NEW k \in hits,
               \A j \in hits : \/ maps[j].time < maps[k].time
                               \/ maps[j].time = maps[k].time /\ k <= j
        PROVE  k = i
    BY <1>4, <1>5, <1>7
  <1> QED BY <1>3, <1>4, <1>6, <1>7

-----------------------------------------------------------------------------
(* What a list of mappings has for an address at a time.                   *)

Finds(maps, ip, time, page) ==
    \E i \in DOMAIN maps :
        /\ Latest(maps, i, ip, time)
        /\ maps[i].file = page.file
        /\ maps[i].off + (ip - maps[i].start) = page.off

Fresh(maps) == \A i \in DOMAIN maps : ~ maps[i].stale

(* An entry that is not there yet at the time, or not for the address,     *)
(* hides nothing.                                                          *)
LEMMA FindsBeside ==
    ASSUME NEW maps, IsSeq(maps), NEW m, NEW ip, NEW time, NEW page,
           Finds(maps, ip, time, page), ~ (ContainsIp(m, ip) /\ m.time <= time)
    PROVE  Finds(Append(maps, m), ip, time, page)
  <1> DEFINE all == Append(maps, m)
             n == Len(maps) + 1
  <1>1. /\ DOMAIN all = DOMAIN maps \cup {n} /\ n \notin DOMAIN maps /\ all[n] = m
        /\ \A i \in DOMAIN maps : all[i] = maps[i]
    BY AppendFacts
  <1> HIDE DEF all, n
  <1>2. PICK i \in DOMAIN maps :
            /\ Latest(maps, i, ip, time)
            /\ maps[i].file = page.file
            /\ maps[i].off + (ip - maps[i].start) = page.off
    BY DEF Finds
  <1>3. Latest(all, i, ip, time)
    BY <1>1, <1>2 DEF Latest
  <1>4. Finds(all, ip, time, page)
    BY <1>1, <1>2, <1>3 DEF Finds
  <1> QED BY <1>4 DEF all

(* The newest entry is the one that is found where it is mapped.           *)
LEMMA FindsNewest ==
    ASSUME NEW maps, IsSeq(maps), NEW m, NEW ip, NEW time, NEW page,
           \A i \in DOMAIN maps : maps[i].time < m.time,
           ContainsIp(m, ip), m.time <= time, m.file = page.file,
           m.off + (ip - m.start) = page.off
    PROVE  Finds(Append(maps, m), ip, time, page)
  <1> DEFINE all == Append(maps, m)
             n == Len(maps) + 1
  <1>1. /\ DOMAIN all = DOMAIN maps \cup {n} /\ n \notin DOMAIN maps /\ all[n] = m
        /\ \A i \in DOMAIN maps : all[i] = maps[i]
    BY AppendFacts
  <1> HIDE DEF all, n
  <1>3. Latest(all, n, ip, time)
    BY <1>1 DEF Latest
  <1>4. Finds(all, ip, time, page)
    BY <1>1, <1>3 DEF Finds
  <1> QED BY <1>4 DEF all

(* Time passes.                                                            *)
LEMMA FindsLater ==
    ASSUME NEW maps, NEW ip, NEW time \in Nat, NEW later \in Nat, time <= later,
           \A i \in DOMAIN maps : maps[i].time \in Nat /\ maps[i].time <= time,
           NEW page, Finds(maps, ip, time, page)
    PROVE  Finds(maps, ip, later, page)
  <1>1. \A i \in DOMAIN maps : maps[i].time <= later /\ maps[i].time <= time
    OBVIOUS
  <1>2. \A i \in DOMAIN maps : Latest(maps, i, ip, time) => Latest(maps, i, ip, later)
    BY <1>1 DEF Latest
  <1> QED BY <1>2 DEF Finds

(* Symbols are added to the entries.                                       *)
SameMapping(m, k) ==
    /\ m.time = k.time /\ m.start = k.start /\ m.end = k.end
    /\ m.off = k.off /\ m.file = k.file /\ m.stale = k.stale

(* Another order of the entries, with other symbols, finds the same.       *)
LEMMA FindsReordered ==
    ASSUME NEW maps, NEW other, NEW f,
           \A k \in DOMAIN other :
                f[k] \in DOMAIN maps /\ SameMapping(other[k], maps[f[k]]),
           \A k, l \in DOMAIN other : f[k] = f[l] => k = l,
           \A i \in DOMAIN maps : \E k \in DOMAIN other : f[k] = i,
           NEW ip, NEW time, NEW page, Finds(maps, ip, time, page)
    PROVE  Finds(other, ip, time, page)
  <1>1. PICK i \in DOMAIN maps :
            /\ Latest(maps, i, ip, time)
            /\ maps[i].file = page.file
            /\ maps[i].off + (ip - maps[i].start) = page.off
    BY DEF Finds
  <1>2. PICK k \in DOMAIN other : f[k] = i
    BY <1>1
  <1>3. ContainsIp(other[k], ip) /\ other[k].time <= time
    BY <1>1, <1>2 DEF Latest, SameMapping, ContainsIp
  <1>4. ASSUME NEW l \in DOMAIN other, l # k, ContainsIp(other[l], ip),
               other[l].time <= time
        PROVE  other[l].time < other[k].time
    <2>1. f[l] # i /\ f[l] \in DOMAIN maps /\ SameMapping(other[l], maps[f[l]])
      BY <1>2, <1>4
    <2>2. ContainsIp(maps[f[l]], ip) /\ maps[f[l]].time <= time
      BY <1>4, <2>1 DEF SameMapping, ContainsIp
    <2>3. maps[f[l]].time < maps[i].time
      BY <1>1, <2>1, <2>2 DEF Latest
    <2> QED BY <1>2, <2>1, <2>3 DEF SameMapping
  <1>5. Latest(other, k, ip, time)
    BY <1>3, <1>4 DEF Latest
  <1>6. other[k].file = page.file /\ other[k].off + (ip - other[k].start) = page.off
    BY <1>1, <1>2 DEF SameMapping
  <1> QED BY <1>5, <1>6 DEF Finds

-----------------------------------------------------------------------------
(* The inductive invariant of the mappings.                                *)

MapShape(m) ==
    /\ m = [time |-> m.time, start |-> m.start, end |-> m.end, off |-> m.off,
            file |-> m.file, stale |-> m.stale, id |-> m.id, syms |-> m.syms]
    /\ m.time \in Nat /\ m.start \in Nat /\ m.end \in Nat /\ m.off \in Nat

MapList(maps, now) ==
    /\ IsSeq(maps)
    /\ \A i \in DOMAIN maps : MapShape(maps[i]) /\ maps[i].time <= now

(* A sample finds what was in its page at its time.                        *)
SampleFound(maps, s, now) ==
    s.at # NoPage =>
        /\ s.ip \in UserAddresses /\ s.time \in Nat /\ s.time <= now
        /\ Fresh(maps) => Finds(maps, s.ip, s.time, s.at)

TableAt(e, now) ==
    /\ MapList(e.maps, now)
    /\ \A i \in DOMAIN e.samples : SampleFound(e.maps, e.samples[i], now)

MapsInv == \A p \in DOMAIN procs : TableAt(procs[p], clock)

(* The regions that the environment thread has yet to write.               *)
EnvInv ==
    /\ env = [comms |-> env.comms, read |-> env.read, regions |-> env.regions]
    /\ \A r \in env.regions :
            r.pid \in Ids /\ r.lo \in Nat /\ r.hi \in Nat /\ r.page.off \in Nat

(* What was reported of a process finds what its pages hold now.           *)
Told(q, maps, now) ==
    Fresh(maps) =>
        \A a \in q.known \cap UserAddresses : Finds(maps, a, now, q.page[a])

PageShape(q) ==
    /\ q = [pid |-> q.pid, known |-> q.known, page |-> q.page]
    /\ DOMAIN q.page = UserAddresses
    /\ \A a \in UserAddresses :
            /\ q.page[a] = [file |-> q.page[a].file, off |-> q.page[a].off]
            /\ q.page[a].off \in Nat

Lives(t) == thread[t].proc # 0 /\ ~ thread[t].dead

(* A thread's process has a leader that lives, whose id is the process's,  *)
(* and no other living process has that id.                                *)
LiveAt(t) ==
    Lives(t) =>
        /\ thread[t].proc \in DOMAIN process
        /\ PidOf(t) \in Ids /\ Lives(PidOf(t))
        /\ thread[PidOf(t)].proc = thread[t].proc
        /\ PageShape(ProcessOf(t))
        /\ Told(ProcessOf(t), Entry(PidOf(t)).maps, clock)

LiveInv == IsSeq(process) /\ \A t \in Ids : LiveAt(t)

PagesInv == MapsInv /\ (phase = "trace" => EnvInv /\ LiveInv)

-----------------------------------------------------------------------------
(* Steps of one process's table.                                           *)

LEMMA ListLater ==
    ASSUME NEW maps, NEW now \in Nat, NEW later \in Nat, now <= later,
           MapList(maps, now)
    PROVE  MapList(maps, later)
  BY DEF MapList, MapShape

LEMMA FoundLater ==
    ASSUME NEW maps, NEW now \in Nat, NEW later \in Nat, now <= later,
           NEW s, SampleFound(maps, s, now)
    PROVE  SampleFound(maps, s, later)
  BY DEF SampleFound

LEMMA TableLater ==
    ASSUME NEW e, NEW f, NEW now \in Nat, NEW later \in Nat, now <= later,
           TableAt(e, now), f.maps = e.maps, f.samples = e.samples
    PROVE  TableAt(f, later)
  BY ListLater, FoundLater DEF TableAt

LEMMA TableSampled ==
    ASSUME NEW e, NEW f, NEW now \in Nat, NEW later \in Nat, now <= later,
           TableAt(e, now), IsSeq(e.samples), NEW x, SampleFound(e.maps, x, later),
           f.maps = e.maps, f.samples = Append(e.samples, x)
    PROVE  TableAt(f, later)
  <1>1. MapList(f.maps, later)
    BY ListLater DEF TableAt
  <1>2. ASSUME NEW i \in DOMAIN f.samples PROVE SampleFound(f.maps, f.samples[i], later)
    <2>1. f.samples[i] = x \/ (i \in DOMAIN e.samples /\ f.samples[i] = e.samples[i])
      BY AppendIsSeq
    <2> QED BY <2>1, FoundLater DEF TableAt
  <1> QED BY <1>1, <1>2 DEF TableAt

(* A mapping that is newer than the samples.                               *)
LEMMA ListMapped ==
    ASSUME NEW maps, NEW now \in Nat, NEW later \in Nat, now <= later,
           MapList(maps, now), NEW m, MapShape(m), m.time <= later
    PROVE  MapList(Append(maps, m), later)
  <1>1. IsSeq(Append(maps, m))
    BY AppendIsSeq DEF MapList
  <1>2. ASSUME NEW i \in DOMAIN Append(maps, m)
        PROVE  MapShape(Append(maps, m)[i]) /\ Append(maps, m)[i].time <= later
    <2>1. \/ Append(maps, m)[i] = m
          \/ i \in DOMAIN maps /\ Append(maps, m)[i] = maps[i]
      BY AppendIsSeq DEF MapList
    <2>2. MapList(maps, later)
      BY ListLater
    <2> QED BY <2>1, <2>2 DEF MapList
  <1> QED BY <1>1, <1>2 DEF MapList

LEMMA FreshMapped ==
    ASSUME NEW maps, IsSeq(maps), NEW m, Fresh(Append(maps, m))
    PROVE  Fresh(maps) /\ ~ m.stale
  <1> DEFINE all == Append(maps, m)
  <1>1. /\ Len(maps) + 1 \in DOMAIN all /\ all[Len(maps) + 1] = m
        /\ \A i \in DOMAIN maps : i \in DOMAIN all /\ all[i] = maps[i]
    BY AppendFacts
  <1>2. \A i \in DOMAIN all : ~ all[i].stale
    BY Zenon DEF Fresh
  <1> HIDE DEF all
  <1> QED BY <1>1, <1>2, Zenon DEF Fresh

LEMMA TableMapped ==
    ASSUME NEW e, NEW f, NEW now \in Nat, NEW later \in Nat, now < later,
           TableAt(e, now), NEW m, MapShape(m), m.time = later,
           f.maps = Append(e.maps, m), f.samples = e.samples
    PROVE  TableAt(f, later)
  <1>1. MapList(f.maps, later)
    BY ListMapped DEF TableAt
  <1>2. ASSUME NEW i \in DOMAIN f.samples PROVE SampleFound(f.maps, f.samples[i], later)
    <2> DEFINE s == e.samples[i]
    <2>1. SampleFound(e.maps, s, now) /\ f.samples[i] = s
      BY DEF TableAt
    <2> HIDE DEF s
    <2> SUFFICES ASSUME s.at # NoPage
                 PROVE  /\ s.ip \in UserAddresses /\ s.time \in Nat /\ s.time <= later
                        /\ Fresh(f.maps) => Finds(f.maps, s.ip, s.time, s.at)
      BY <2>1 DEF SampleFound
    <2>2. s.ip \in UserAddresses /\ s.time \in Nat /\ s.time <= now
      BY <2>1 DEF SampleFound
    <2>3. ASSUME Fresh(f.maps) PROVE Finds(f.maps, s.ip, s.time, s.at)
      <3>1. IsSeq(e.maps)
        BY DEF TableAt, MapList
      <3>2. Finds(e.maps, s.ip, s.time, s.at)
        BY <2>1, <2>3, <3>1, FreshMapped DEF SampleFound
      <3>3. ~ (m.time <= s.time)
        BY <2>2
      <3> QED BY <3>1, <3>2, <3>3, FindsBeside
    <2> QED BY <2>2, <2>3
  <1> QED BY <1>1, <1>2 DEF TableAt

(* Steps of what was reported of a process.                                *)
LEMMA ToldLater ==
    ASSUME NEW q, NEW maps, NEW now \in Nat, NEW later \in Nat, now <= later,
           MapList(maps, now), Told(q, maps, now)
    PROVE  Told(q, maps, later)
  <1>1. \A i \in DOMAIN maps : maps[i].time \in Nat /\ maps[i].time <= now
    BY DEF MapList, MapShape
  <1> QED BY <1>1, FindsLater DEF Told

LEMMA ToldLess ==
    ASSUME NEW q, NEW r, NEW maps, NEW now, Told(q, maps, now),
           \A a \in r.known \cap UserAddresses :
                a \in q.known /\ r.page[a] = q.page[a]
    PROVE  Told(r, maps, now)
  BY DEF Told

(* A mapping is reported that holds what the pages do.                     *)
LEMMA ToldMapped ==
    ASSUME NEW q, NEW r, NEW maps, NEW now \in Nat, NEW later \in Nat, now < later,
           MapList(maps, now), Told(q, maps, now),
           NEW m, MapShape(m), m.time = later,
           m.stale \/ \A a \in r.known \cap UserAddresses :
                        IF ContainsIp(m, a)
                        THEN /\ r.page[a].file = m.file
                             /\ r.page[a].off = m.off + (a - m.start)
                        ELSE a \in q.known /\ r.page[a] = q.page[a]
    PROVE  Told(r, Append(maps, m), later)
  <1> SUFFICES ASSUME Fresh(Append(maps, m)), NEW a \in r.known \cap UserAddresses
               PROVE  Finds(Append(maps, m), a, later, r.page[a])
    BY DEF Told
  <1>1. IsSeq(maps) /\ Fresh(maps) /\ ~ m.stale
    BY FreshMapped DEF MapList
  <1>2. CASE ContainsIp(m, a)
    <2>1. \A i \in DOMAIN maps : maps[i].time < m.time
      BY DEF MapList, MapShape
    <2>2. r.page[a].file = m.file /\ r.page[a].off = m.off + (a - m.start)
      BY <1>1, <1>2
    <2>3. m.time <= later
      OBVIOUS
    <2> QED BY <1>1, <1>2, <2>1, <2>2, <2>3, FindsNewest
  <1>3. CASE ~ ContainsIp(m, a)
    <2>1. a \in q.known /\ r.page[a] = q.page[a]
      BY <1>1, <1>3
    <2>2. Told(q, maps, later)
      BY ToldLater
    <2>3. Finds(maps, a, later, q.page[a])
      BY <1>1, <2>1, <2>2 DEF Told
    <2>4. Finds(Append(maps, m), a, later, q.page[a])
      BY <1>1, <1>3, <2>3, FindsBeside
    <2> QED BY <2>1, <2>4
  <1> QED BY <1>2, <1>3

-----------------------------------------------------------------------------
(* What the machine's interface does to the table of a process.            *)

LEMMA RootMaps ==
    ASSUME NEW r, ProcShape(r), NEW c, NEW root
    PROVE  /\ [r EXCEPT !.create = c, !.root = root].maps = r.maps
           /\ [r EXCEPT !.create = c, !.root = root].samples = r.samples
  <1> DEFINE y == [r EXCEPT !.create = c]
             x == [y EXCEPT !.root = root]
  <1>1. y = [root |-> r.root, create |-> c, exit |-> r.exit,
             samples |-> r.samples, maps |-> r.maps]
    BY DEF ProcShape
  <1>2. x.maps = r.maps /\ x.samples = r.samples
    <2> HIDE DEF y
    <2> QED BY <1>1
  <1>3. [r EXCEPT !.create = c, !.root = root] = x
    OBVIOUS
  <1> HIDE DEF x
  <1> QED BY <1>2, <1>3

LEMMA EntryTable ==
    ASSUME MapsInv, clock \in Nat, NEW p
    PROVE  TableAt(Entry(p), clock)
  <1>1. CASE p \in DOMAIN procs
    BY <1>1 DEF Entry, MapsInv
  <1>2. CASE p \notin DOMAIN procs
    <2>1. Entry(p).maps = << >> /\ Entry(p).samples = << >>
      BY <1>2 DEF Entry, NewProcess
    <2> QED BY <2>1 DEF TableAt, MapList, IsSeq
  <1> QED BY <1>1, <1>2

Clocked == clock \in Nat /\ clock' \in Nat /\ clock <= clock'

MapsKept == \A p : Entry(p)'.maps = Entry(p).maps

LEMMA SetTable ==
    ASSUME MapsInv, Clocked, NEW pid, NEW e, procs' = SetProc(pid, e),
           TableAt(e, clock')
    PROVE  /\ MapsInv' /\ Entry(pid)' = e
           /\ \A p : p # pid => Entry(p)' = Entry(p)
  <1>1. /\ DOMAIN procs' = DOMAIN procs \cup {pid} /\ procs'[pid] = e
        /\ \A p \in DOMAIN procs \ {pid} : procs'[p] = procs[p]
    BY DEF SetProc
  <1>2. Entry(pid)' = e /\ \A p : p # pid => Entry(p)' = Entry(p)
    BY <1>1 DEF Entry
  <1>3. ASSUME NEW p \in DOMAIN procs' PROVE TableAt(procs'[p], clock')
    <2>1. CASE p = pid
      BY <1>1, <2>1
    <2>2. CASE p # pid
      <3>1. TableAt(procs[p], clock) /\ procs'[p] = procs[p]
        BY <1>1, <2>2 DEF MapsInv
      <3> QED BY <3>1, TableLater DEF Clocked
    <2> QED BY <2>1, <2>2
  <1> QED BY <1>2, <1>3 DEF MapsInv

(* The table does not change, but for the time.                            *)
LEMMA TablesKept ==
    ASSUME MapsInv, Clocked, UNCHANGED procs
    PROVE  MapsInv' /\ MapsKept
  <1>1. \A p \in DOMAIN procs : TableAt(procs[p], clock')
    BY TableLater DEF MapsInv, Clocked
  <1> QED BY <1>1 DEF MapsInv, MapsKept, Entry

(* One process's entry is replaced by one with its mappings and samples.   *)
LEMMA SetKeepsMaps ==
    ASSUME MapsInv, Clocked, NEW pid, NEW e, procs' = SetProc(pid, e),
           e.maps = Entry(pid).maps, e.samples = Entry(pid).samples
    PROVE  MapsInv' /\ MapsKept
  <1>1. TableAt(e, clock')
    BY EntryTable, TableLater DEF Clocked
  <1> QED BY <1>1, SetTable DEF MapsKept

LEMMA CommTable ==
    ASSUME MapsInv, SamplesInv, Clocked, NEW pid,
           procs' = AddCommExec(pid) \/ procs' = AddCommExit(pid)
    PROVE  MapsInv' /\ MapsKept
  <1>0. ProcShape(Entry(pid))
    BY EntryKept
  <1>1. CASE UNCHANGED procs
    BY <1>1, TablesKept
  <1>2. CASE procs' = SetProc(pid, [Entry(pid) EXCEPT !.create = clock',
                                        !.root = @ \/ pid \in Openable])
    <2> DEFINE e == [Entry(pid) EXCEPT !.create = clock',
                                       !.root = @ \/ pid \in Openable]
    <2>1. e.maps = Entry(pid).maps /\ e.samples = Entry(pid).samples
      <3>1. ASSUME NEW root
            PROVE  LET x == [Entry(pid) EXCEPT !.create = clock', !.root = root]
                   IN  x.maps = Entry(pid).maps /\ x.samples = Entry(pid).samples
        BY <1>0, RootMaps, Zenon
      <3> QED BY <3>1, Zenon
    <2> HIDE DEF e
    <2> QED BY <1>2, <2>1, SetKeepsMaps DEF e
  <1>3. CASE procs' = SetProc(pid, [Entry(pid) EXCEPT !.exit = clock'])
    <2> DEFINE e == [Entry(pid) EXCEPT !.exit = clock']
    <2>1. e.maps = Entry(pid).maps /\ e.samples = Entry(pid).samples
      BY <1>0 DEF ProcShape
    <2> HIDE DEF e
    <2> QED BY <1>3, <2>1, SetKeepsMaps DEF e
  <1> QED BY <1>1, <1>2, <1>3 DEF AddCommExec, AddCommExit

LEMMA SampleTable ==
    ASSUME MapsInv, SamplesInv, Clocked, NEW pid, NEW x, procs' = AddSample(pid, x),
           SampleFound(Entry(pid).maps, x, clock')
    PROVE  MapsInv' /\ MapsKept
  <1>0. ProcShape(Entry(pid)) /\ IsSeq(Entry(pid).samples)
    BY EntryKept DEF Timed
  <1>1. CASE procs' = SetProc(pid, Entry(pid))
    BY <1>1, SetKeepsMaps
  <1>2. CASE procs' = SetProc(pid, [Entry(pid) EXCEPT !.samples = Append(@, x)])
    <2> DEFINE s == Append(Entry(pid).samples, x)
               e == [Entry(pid) EXCEPT !.samples = s]
    <2>1. e.maps = Entry(pid).maps /\ e.samples = s
      <3> HIDE DEF s
      <3> QED BY <1>0 DEF ProcShape
    <2>2. procs' = SetProc(pid, e)
      BY <1>2
    <2> HIDE DEF e
    <2>3. TableAt(e, clock')
      BY <1>0, <2>1, EntryTable, TableSampled DEF Clocked
    <2> QED BY <2>1, <2>2, <2>3, SetTable DEF MapsKept
  <1> QED BY <1>1, <1>2 DEF AddSample

MapOf(lo, hi, page, stale) ==
    [time |-> clock', start |-> lo, end |-> hi, off |-> page.off,
     file |-> page.file, stale |-> stale, id |-> mapIndex, syms |-> {}]

LEMMA MmapTable ==
    ASSUME MapsInv, SamplesInv, Clocked, clock < clock', NEW pid, pid # 0,
           NEW lo \in Nat, NEW hi \in Nat, NEW page, page.off \in Nat, NEW stale,
           AddMmapExec(pid, lo, hi, page, stale)
    PROVE  /\ MapsInv' /\ MapShape(MapOf(lo, hi, page, stale))
           /\ Entry(pid)'.maps = Append(Entry(pid).maps, MapOf(lo, hi, page, stale))
           /\ \A p : p # pid => Entry(p)'.maps = Entry(p).maps
  <1>0. ProcShape(Entry(pid))
    BY EntryKept
  <1> DEFINE m == MapOf(lo, hi, page, stale)
             maps == Append(Entry(pid).maps, m)
             e == [Entry(pid) EXCEPT !.maps = maps]
  <1>1. MapShape(m) /\ m.time = clock'
    BY DEF MapOf, MapShape, Clocked
  <1>2. procs' = SetProc(pid, e)
    BY DEF AddMmapExec, AddMapping, MapOf
  <1>3. e.maps = maps /\ e.samples = Entry(pid).samples
    <2> HIDE DEF maps
    <2> QED BY <1>0 DEF ProcShape
  <1> HIDE DEF e, m
  <1>4. TableAt(e, clock')
    BY <1>1, <1>3, EntryTable, TableMapped DEF Clocked
  <1> QED BY <1>1, <1>2, <1>3, <1>4, SetTable DEF m

LEMMA ForkTable ==
    ASSUME MapsInv, SamplesInv, Clocked, NEW pid, NEW ppid,
           procs' = ForkExec(pid, ppid)
    PROVE  /\ MapsInv' /\ Entry(pid)'.maps = Entry(ppid).maps
           /\ \A p : p # pid => Entry(p)'.maps = Entry(p).maps
  <1> DEFINE e == [NewProcess EXCEPT !.root = Entry(ppid).root,
                                     !.maps = Entry(ppid).maps]
  <1>1. /\ DOMAIN procs' = DOMAIN procs \cup {pid, ppid} /\ procs'[pid] = e
        /\ \A p \in DOMAIN procs' \ {pid} : procs'[p] = Entry(p)
    BY DEF ForkExec
  <1>2. e.maps = Entry(ppid).maps /\ e.samples = << >>
    BY DEF NewProcess
  <1> HIDE DEF e
  <1>3. Entry(pid)' = e /\ \A p \in DOMAIN procs' \ {pid} : Entry(p)' = Entry(p)
    BY <1>1 DEF Entry
  <1>4. \A p : p # pid => Entry(p)' = Entry(p)
    <2>1. \A p : p \notin DOMAIN procs' => Entry(p)' = NewProcess /\ Entry(p) = NewProcess
      BY <1>1 DEF Entry
    <2> QED BY <1>3, <2>1
  <1>5. TableAt(e, clock')
    BY <1>2, EntryTable, ListLater DEF TableAt, Clocked
  <1>6. \A p : TableAt(Entry(p), clock')
    BY EntryTable, TableLater DEF Clocked
  <1>7. \A p \in DOMAIN procs' : TableAt(procs'[p], clock')
    BY <1>1, <1>5, <1>6
  <1> QED BY <1>2, <1>3, <1>4, <1>7 DEF MapsInv

-----------------------------------------------------------------------------
(* Threads, their processes and what their pages hold.                     *)

(* The threads of a process have the id of its leader in common, and those *)
(* of two processes do not.                                                *)
LEMMA LeaderOf ==
    ASSUME LiveInv, NEW t \in Ids, Lives(t), NEW u \in Ids, Lives(u)
    PROVE  PidOf(t) = PidOf(u) <=> thread[t].proc = thread[u].proc
  <1>1. /\ thread[PidOf(t)].proc = thread[t].proc
        /\ thread[PidOf(u)].proc = thread[u].proc
    BY DEF LiveInv, LiveAt
  <1> QED BY <1>1 DEF PidOf, ProcessOf

SameThreads ==
    \A t \in Ids : /\ thread'[t].proc = thread[t].proc
                   /\ thread'[t].dead = thread[t].dead

(* The threads stay, the pages of their processes may change.              *)
LEMMA LiveStep ==
    ASSUME LiveInv, SameThreads, IsSeq(process'), DOMAIN process' = DOMAIN process,
           \A g \in DOMAIN process : process'[g].pid = process[g].pid,
           \A t \in Ids : \A p : Lives(t) /\ p = PidOf(t) =>
                /\ PageShape(process'[thread[t].proc])
                /\ Told(process'[thread[t].proc], Entry(p)'.maps, clock')
    PROVE  LiveInv'
  <1> SUFFICES ASSUME NEW t \in Ids, Lives(t)' PROVE LiveAt(t)'
    BY DEF LiveInv, LiveAt
  <1>1. Lives(t) /\ LiveAt(t)
    BY DEF SameThreads, Lives, LiveInv
  <1>2. thread'[t].proc = thread[t].proc /\ thread[t].proc \in DOMAIN process
    BY <1>1 DEF SameThreads, LiveAt
  <1>3. PICK p : p = PidOf(t)
    OBVIOUS
  <1>4. PidOf(t)' = p
    BY <1>2, <1>3 DEF PidOf, ProcessOf
  <1>5. p \in Ids /\ Lives(p)' /\ thread'[p].proc = thread'[t].proc
    <2>1. p \in Ids /\ Lives(p) /\ thread[p].proc = thread[t].proc
      BY <1>1, <1>3 DEF LiveAt, Lives
    <2> QED BY <1>2, <2>1 DEF SameThreads, Lives
  <1>6. ProcessOf(t)' = process'[thread[t].proc]
    BY <1>2 DEF ProcessOf
  <1>7. PageShape(ProcessOf(t)') /\ Told(ProcessOf(t)', Entry(p)'.maps, clock')
    BY <1>1, <1>3, <1>6
  <1> QED BY <1>2, <1>4, <1>5, <1>7 DEF LiveAt, Lives, Entry

(* Nothing that the machine was told of changes.                           *)
LEMMA LiveKept ==
    ASSUME LiveInv, MapsInv, Clocked, SameThreads, UNCHANGED process, MapsKept
    PROVE  LiveInv'
  <1>1. ASSUME NEW t \in Ids, NEW p, Lives(t), p = PidOf(t)
        PROVE  /\ PageShape(process'[thread[t].proc])
               /\ Told(process'[thread[t].proc], Entry(p)'.maps, clock')
    <2> DEFINE q == process[thread[t].proc]
               maps == Entry(p).maps
    <2>1. PageShape(q) /\ Told(q, maps, clock)
      BY <1>1 DEF LiveInv, LiveAt, ProcessOf
    <2>2. MapList(maps, clock)
      BY EntryTable DEF TableAt, Clocked
    <2>3. Entry(p)'.maps = maps /\ process'[thread[t].proc] = q
      BY DEF MapsKept
    <2> HIDE DEF q, maps
    <2>4. Told(q, maps, clock')
      BY <2>1, <2>2, ToldLater DEF Clocked
    <2> QED BY <2>1, <2>3, <2>4
  <1> QED BY <1>1, LiveStep DEF LiveInv

(* The pages of one process change, and what was told of them.             *)
LEMMA LivePages ==
    ASSUME LiveInv, MapsInv, Clocked, SameThreads, NEW t \in Ids, Lives(t),
           NEW pid, pid = PidOf(t), NEW q,
           process' = [process EXCEPT ![thread[t].proc] = q],
           q.pid = pid, PageShape(q), Told(q, Entry(pid)'.maps, clock'),
           \A p : p # pid => Entry(p)'.maps = Entry(p).maps
    PROVE  LiveInv'
  <1> DEFINE g == thread[t].proc
  <1>1. g \in DOMAIN process /\ IsSeq(process)
    BY DEF LiveInv, LiveAt
  <1>2. /\ DOMAIN process' = DOMAIN process /\ process'[g] = q
        /\ \A k \in DOMAIN process \ {g} : process'[k] = process[k]
    BY <1>1
  <1>3. IsSeq(process')
    <2>1. DOMAIN process = 1 .. Len(process) /\ Len(process) \in Nat
      BY <1>1, SeqDomain
    <2>2. process' = [k \in 1 .. Len(process) |-> process'[k]]
      BY <2>1
    <2> DEFINE S == {process'[k] : k \in DOMAIN process'}
    <2>3. \A k \in 1 .. Len(process) : process'[k] \in S
      BY <1>2, <2>1
    <2> HIDE DEF S
    <2>4. process' \in [1 .. Len(process) -> S]
      BY <2>2, <2>3
    <2>5. process' \in Seq(S)
      BY <2>1, <2>4, SeqDef, ZenonT(40)
    <2> QED BY <2>5 DEF IsSeq, S
  <1>4. \A k \in DOMAIN process : process'[k].pid = process[k].pid
    BY <1>2 DEF PidOf, ProcessOf
  <1>5. ASSUME NEW u \in Ids, NEW p, Lives(u), p = PidOf(u)
        PROVE  /\ PageShape(process'[thread[u].proc])
               /\ Told(process'[thread[u].proc], Entry(p)'.maps, clock')
    <2>1. CASE thread[u].proc = g
      <3>1. p = pid
        BY <1>5, <2>1 DEF PidOf, ProcessOf
      <3> QED BY <1>2, <2>1, <3>1
    <2>2. CASE thread[u].proc # g
      <3> DEFINE r == process[thread[u].proc]
                 maps == Entry(p).maps
      <3>1. thread[u].proc \in DOMAIN process /\ PageShape(r) /\ Told(r, maps, clock)
        BY <1>5 DEF LiveInv, LiveAt, ProcessOf
      <3>2. p # pid
        BY <1>5, <2>2, LeaderOf
      <3>3. Entry(p)'.maps = maps /\ process'[thread[u].proc] = r
        BY <1>2, <2>2, <3>1, <3>2
      <3>4. MapList(maps, clock)
        BY EntryTable DEF TableAt, Clocked
      <3> HIDE DEF r, maps
      <3>5. Told(r, maps, clock')
        BY <3>1, <3>4, ToldLater DEF Clocked
      <3> QED BY <3>1, <3>3, <3>5
    <2> QED BY <2>1, <2>2
  <1> QED BY <1>2, <1>3, <1>4, <1>5, LiveStep

(* A step that gives a process other pages.                                *)
PageOf(pid, known, page) == [pid |-> pid, known |-> known, page |-> page]

LEMMA KnownSet ==
    ASSUME NEW r, PageShape(r), NEW known
    PROVE  [r EXCEPT !.known = known] = PageOf(r.pid, known, r.page)
  BY DEF PageShape, PageOf

LEMMA PageSet ==
    ASSUME NEW r, PageShape(r), NEW known, NEW page
    PROVE  [r EXCEPT !.known = known, !.page = page] = PageOf(r.pid, known, page)
  <1> DEFINE y == [r EXCEPT !.known = known]
  <1>1. y = PageOf(r.pid, known, r.page)
    BY KnownSet
  <1> HIDE DEF y
  <1>2. [y EXCEPT !.page = page] = PageOf(r.pid, known, page)
    BY <1>1 DEF PageOf
  <1> QED BY <1>2 DEF y

(* The records of the kernel, one by one.                                  *)
LEMMA EventClock ==
    ASSUME clock \in Nat, NEW tick \in Nat, Event(tick)
    PROVE  Clocked /\ clock' = clock + tick
  BY DEF Clocked, Event

LEMMA StartedThread ==
    ASSUME ThreadsInv, NEW t \in Ids, NEW c \in Ids, NEW g, NewThread(t, c, g)
    PROVE  /\ Lives(t) /\ ~ Lives(c) /\ thread'[c].proc = g /\ ~ thread'[c].dead
           /\ \A u \in Ids \ {c} : thread'[u] = thread[u]
  <1>1. Lives(t) /\ ~ Lives(c)
    BY DEF NewThread, Runs, Lives
  <1>2. /\ thread'[c] = [NoThread EXCEPT !.proc = g]
        /\ \A u \in Ids \ {c} : thread'[u] = thread[u]
    BY DEF NewThread, ThreadsInv
  <1>3. thread'[c].proc = g /\ thread'[c].dead = FALSE
    BY <1>2, Zenon DEF NoThread
  <1> QED BY <1>1, <1>2, <1>3

LEMMA CloneLive ==
    ASSUME ThreadsInv, MapsInv, LiveInv, NEW t \in Ids, NEW c \in Ids, Clone(t, c)
    PROVE  MapsInv' /\ LiveInv'
  <1>1. Clocked /\ UNCHANGED <<process, procs>> /\ NewThread(t, c, thread[t].proc)
    BY EventClock DEF Clone, ThreadsInv, machineVars
  <1>2. MapsInv' /\ MapsKept
    BY <1>1, TablesKept
  <1>3. /\ Lives(t) /\ ~ Lives(c) /\ thread'[c].proc = thread[t].proc
        /\ \A u \in Ids \ {c} : thread'[u] = thread[u]
    BY <1>1, StartedThread
  <1>4. ASSUME NEW u \in Ids, Lives(u)' PROVE LiveAt(u)'
    <2>1. PICK v \in Ids : Lives(v) /\ thread'[u].proc = thread[v].proc
      BY <1>3, <1>4 DEF Lives
    <2>2. LiveAt(v)
      BY DEF LiveInv
    <2>3. PICK p : p = PidOf(v)
      OBVIOUS
    <2>4. /\ thread[v].proc \in DOMAIN process /\ p \in Ids /\ Lives(p)
          /\ thread[p].proc = thread[v].proc /\ PageShape(ProcessOf(v))
          /\ Told(ProcessOf(v), Entry(p).maps, clock)
      BY <2>1, <2>2, <2>3 DEF LiveAt, Lives
    <2>5. ProcessOf(u)' = ProcessOf(v) /\ PidOf(u)' = p
      BY <1>1, <2>1, <2>3 DEF ProcessOf, PidOf
    <2>6. p # c /\ thread'[p] = thread[p]
      BY <1>3, <2>4
    <2>7. Lives(p)' /\ thread'[p].proc = thread'[u].proc
      BY <2>1, <2>4, <2>6 DEF Lives
    <2>8. Told(ProcessOf(v), Entry(p).maps, clock')
      <3>1. MapList(Entry(p).maps, clock)
        BY <1>1, EntryTable DEF TableAt, Clocked
      <3> QED BY <1>1, <2>4, <3>1, ToldLater DEF Clocked
    <2>9. Entry(p)'.maps = Entry(p).maps
      BY <1>2 DEF MapsKept
    <2>10. PageShape(ProcessOf(u)') /\ Told(ProcessOf(u)', Entry(p)'.maps, clock')
      BY <2>4, <2>5, <2>8, <2>9
    <2> QED BY <1>1, <2>1, <2>4, <2>5, <2>7, <2>10 DEF LiveAt, Lives, Entry
  <1> QED BY <1>1, <1>2, <1>4 DEF LiveInv, LiveAt

LEMMA ExitLive ==
    ASSUME ThreadsInv, SamplesInv, MapsInv, LiveInv, NEW t \in Ids, Exit(t)
    PROVE  MapsInv' /\ LiveInv'
  <1>1. Clocked /\ UNCHANGED process /\ procs' = AddCommExit(PidOf(t))
    BY EventClock DEF Exit, ThreadsInv
  <1>2. MapsInv' /\ MapsKept
    <2>1. PICK p : p = PidOf(t)
      OBVIOUS
    <2> QED BY <1>1, <2>1, CommTable
  <1>3. /\ Lives(t)
        /\ t = PidOf(t) => ThreadsOf(thread[t].proc) = {t}
        /\ thread'[t].dead
        /\ \A u \in Ids \ {t} : thread'[u] = thread[u]
    BY DEF Exit, ThreadsInv, Runs, Lives
  <1>4. ASSUME NEW u \in Ids, Lives(u)' PROVE LiveAt(u)'
    <2>1. u # t /\ Lives(u) /\ thread'[u] = thread[u] /\ LiveAt(u)
      BY <1>3, <1>4 DEF Lives, LiveInv
    <2>3. PICK p : p = PidOf(u)
      OBVIOUS
    <2>4. /\ thread[u].proc \in DOMAIN process /\ p \in Ids /\ Lives(p)
          /\ thread[p].proc = thread[u].proc /\ PageShape(ProcessOf(u))
          /\ Told(ProcessOf(u), Entry(p).maps, clock)
      BY <2>1, <2>3 DEF LiveAt, Lives
    <2>5. ProcessOf(u)' = ProcessOf(u) /\ PidOf(u)' = p
      BY <1>1, <2>1, <2>3 DEF ProcessOf, PidOf
    <2>6. p # t
      <3>1. ASSUME p = t PROVE FALSE
        <4>1. PidOf(t) = t
          BY <2>3, <2>4, <3>1 DEF PidOf, ProcessOf
        <4>2. u \in ThreadsOf(thread[t].proc)
          BY <2>1, <2>4, <3>1 DEF ThreadsOf, Lives
        <4> QED BY <1>3, <2>1, <4>1, <4>2
      <3> QED BY <3>1
    <2>7. Lives(p)' /\ thread'[p].proc = thread'[u].proc
      BY <1>3, <2>1, <2>4, <2>6 DEF Lives
    <2>8. Told(ProcessOf(u), Entry(p).maps, clock')
      <3>1. MapList(Entry(p).maps, clock)
        BY <1>1, EntryTable DEF TableAt, Clocked
      <3> QED BY <1>1, <2>4, <3>1, ToldLater DEF Clocked
    <2>9. Entry(p)'.maps = Entry(p).maps
      BY <1>2 DEF MapsKept
    <2>10. PageShape(ProcessOf(u)') /\ Told(ProcessOf(u)', Entry(p)'.maps, clock')
      BY <2>4, <2>5, <2>8, <2>9
    <2> QED BY <1>1, <2>1, <2>4, <2>5, <2>7, <2>10 DEF LiveAt, Lives, Entry
  <1> QED BY <1>1, <1>2, <1>4 DEF LiveInv, LiveAt

LEMMA ForkLive ==
    ASSUME ThreadsInv, SamplesInv, MapsInv, LiveInv, NEW t \in Ids, NEW c \in Ids,
           Fork(t, c)
    PROVE  MapsInv' /\ LiveInv'
  <1> DEFINE q == [ProcessOf(t) EXCEPT !.pid = c]
             n == Len(process) + 1
  <1>1. /\ Clocked /\ process' = Append(process, q)
        /\ procs' = ForkExec(c, PidOf(t)) /\ NewThread(t, c, n)
    BY EventClock DEF Fork, ThreadsInv
  <1>2. /\ Lives(t) /\ ~ Lives(c) /\ thread'[c].proc = n
        /\ \A u \in Ids \ {c} : thread'[u] = thread[u]
    BY <1>1, StartedThread
  <1>3. PICK pp : pp = PidOf(t)
    OBVIOUS
  <1>4. /\ MapsInv' /\ Entry(c)'.maps = Entry(pp).maps
        /\ \A p : p # c => Entry(p)'.maps = Entry(p).maps
    BY <1>1, <1>3, ForkTable
  <1>5. /\ PageShape(ProcessOf(t)) /\ Told(ProcessOf(t), Entry(pp).maps, clock)
    BY <1>2, <1>3 DEF LiveInv, LiveAt
  <1>6. PageShape(q) /\ q.pid = c /\ q.known = ProcessOf(t).known
            /\ q.page = ProcessOf(t).page
    BY <1>5 DEF PageShape
  <1> HIDE DEF q, n
  <1>7. /\ IsSeq(process') /\ DOMAIN process' = DOMAIN process \cup {n}
        /\ process'[n] = q /\ \A k \in DOMAIN process : process'[k] = process[k]
    BY <1>1, AppendFacts DEF LiveInv, n
  <1>a. ASSUME NEW p, NEW r, Told(r, Entry(p).maps, clock)
        PROVE  Told(r, Entry(p).maps, clock')
    <2>1. MapList(Entry(p).maps, clock)
      BY <1>1, EntryTable DEF TableAt, Clocked
    <2> QED BY <1>1, <1>a, <2>1, ToldLater DEF Clocked
  <1>8. LiveAt(c)'
    <2>1. ProcessOf(c)' = q /\ PidOf(c)' = c
      BY <1>2, <1>6, <1>7 DEF ProcessOf, PidOf
    <2>2. Told(q, Entry(pp).maps, clock)
      BY <1>5, <1>6, ToldLess
    <2>3. Told(q, Entry(c)'.maps, clock')
      BY <1>4, <1>a, <2>2
    <2> QED BY <1>2, <1>6, <1>7, <2>1, <2>3 DEF LiveAt, Lives, Entry
  <1>9. ASSUME NEW u \in Ids, u # c, Lives(u)' PROVE LiveAt(u)'
    <2>1. Lives(u) /\ thread'[u] = thread[u] /\ LiveAt(u)
      BY <1>2, <1>9 DEF Lives, LiveInv
    <2>3. PICK p : p = PidOf(u)
      OBVIOUS
    <2>4. /\ thread[u].proc \in DOMAIN process /\ p \in Ids /\ Lives(p)
          /\ thread[p].proc = thread[u].proc /\ PageShape(ProcessOf(u))
          /\ Told(ProcessOf(u), Entry(p).maps, clock)
      BY <2>1, <2>3 DEF LiveAt, Lives
    <2>5. ProcessOf(u)' = ProcessOf(u) /\ PidOf(u)' = p
      BY <1>7, <2>1, <2>3, <2>4 DEF ProcessOf, PidOf
    <2>6. p # c /\ thread'[p] = thread[p]
      BY <1>2, <2>4
    <2>7. Lives(p)' /\ thread'[p].proc = thread'[u].proc
      BY <2>1, <2>4, <2>6 DEF Lives
    <2>8. Told(ProcessOf(u), Entry(p)'.maps, clock')
      BY <1>4, <1>a, <2>4, <2>6
    <2> QED BY <1>7, <2>1, <2>4, <2>5, <2>7, <2>8 DEF LiveAt, Lives, Entry
  <1> QED BY <1>4, <1>7, <1>8, <1>9 DEF LiveInv, LiveAt

LEMMA ExecLive ==
    ASSUME ThreadsInv, SamplesInv, MapsInv, LiveInv, NEW t \in Ids, Exec(t)
    PROVE  MapsInv' /\ LiveInv'
  <1> DEFINE g == thread[t].proc
             page == [a \in UserAddresses |-> NoPage]
             q == PageOf(process[g].pid, {}, page)
  <1>1. /\ Clocked /\ UNCHANGED thread /\ procs' = AddCommExec(t)
        /\ Lives(t) /\ PidOf(t) = t
        /\ process' = [process EXCEPT ![g].known = {}, ![g].page = page]
    BY EventClock DEF Exec, ThreadsInv, Runs, Lives
  <1>2. MapsInv' /\ MapsKept
    BY <1>1, CommTable
  <1>3. g \in DOMAIN process /\ PageShape(process[g])
    BY <1>1 DEF LiveInv, LiveAt, ProcessOf
  <1>4. process' = [process EXCEPT ![g] = q]
    <2> HIDE DEF page, g
    <2>1. process' = [process EXCEPT ![g] = [process[g] EXCEPT !.known = {}, !.page = page]]
      BY <1>1, <1>3
    <2>2. [process[g] EXCEPT !.known = {}, !.page = page] = q
      BY <1>3, PageSet
    <2> QED BY <2>1, <2>2, Zenon
  <1>5. PageShape(q) /\ q.pid = t /\ q.known = {}
    BY <1>1 DEF PageOf, PageShape, NoPage, PidOf, ProcessOf
  <1> HIDE DEF q
  <1>6. Told(q, Entry(t)'.maps, clock')
    BY <1>5 DEF Told
  <1> QED BY <1>1, <1>2, <1>4, <1>5, <1>6, LivePages DEF MapsKept, SameThreads

LEMMA NoExecLive ==
    ASSUME ThreadsInv, SamplesInv, MapsInv, LiveInv, NEW t \in Ids,
           NEW range \in Ranges, MmapNoExec(t, range)
    PROVE  MapsInv' /\ LiveInv'
  <1> DEFINE g == thread[t].proc
             over == range[1] .. range[2]
             known == process[g].known \ over
             page == [a \in UserAddresses |->
                        IF a \in over THEN NoPage ELSE process[g].page[a]]
             q == PageOf(process[g].pid, known, page)
  <1>1. /\ Clocked /\ UNCHANGED <<thread, procs>> /\ Lives(t)
        /\ process' = [process EXCEPT ![g].known = known, ![g].page = page]
    BY EventClock DEF MmapNoExec, ThreadsInv, Runs, Lives, machineVars
  <1>2. MapsInv' /\ MapsKept
    BY <1>1, TablesKept
  <1>3. PICK pid : pid = PidOf(t)
    OBVIOUS
  <1>4. /\ g \in DOMAIN process /\ PageShape(process[g])
        /\ Told(process[g], Entry(pid).maps, clock)
    BY <1>1, <1>3 DEF LiveInv, LiveAt, ProcessOf
  <1>5. process' = [process EXCEPT ![g] = q]
    <2> HIDE DEF known, page, g
    <2>1. process' = [process EXCEPT ![g] = [process[g] EXCEPT !.known = known, !.page = page]]
      BY <1>1, <1>4
    <2>2. [process[g] EXCEPT !.known = known, !.page = page] = q
      BY <1>4, PageSet
    <2> QED BY <2>1, <2>2, Zenon
  <1>6. PageShape(q) /\ q.pid = pid
    BY <1>3, <1>4 DEF PageOf, PageShape, NoPage, PidOf, ProcessOf
  <1>7. \A a \in q.known \cap UserAddresses :
            a \in process[g].known /\ q.page[a] = process[g].page[a]
    BY DEF PageOf
  <1> HIDE DEF q
  <1>8. Told(q, Entry(pid)'.maps, clock')
    <2>1. Told(q, Entry(pid).maps, clock)
      BY <1>4, <1>7, ToldLess
    <2>2. MapList(Entry(pid).maps, clock)
      BY <1>1, EntryTable DEF TableAt, Clocked
    <2>3. Told(q, Entry(pid).maps, clock')
      BY <1>1, <2>1, <2>2, ToldLater DEF Clocked
    <2> QED BY <1>2, <2>3 DEF MapsKept
  <1> QED BY <1>1, <1>2, <1>3, <1>5, <1>6, <1>8, LivePages DEF MapsKept, SameThreads

LEMMA MmapLive ==
    ASSUME ThreadsInv, SamplesInv, MapsInv, LiveInv, NEW t \in Ids,
           NEW range \in Ranges, NEW off \in Offsets, Mmap(t, range, off)
    PROVE  MapsInv' /\ LiveInv'
  <1> DEFINE g == thread[t].proc
             lo == range[1]
             hi == range[2]
             known == process[g].known \cup lo .. hi
             page == [a \in UserAddresses |->
                        IF a \in lo .. hi
                        THEN [file |-> clock', off |-> off + (a - lo)]
                        ELSE process[g].page[a]]
             q == PageOf(process[g].pid, known, page)
             part == [file |-> clock', off |-> off]
             m == MapOf(lo, hi, part, FALSE)
  <1>0. lo \in Nat /\ hi \in Nat /\ off \in Nat
    BY RangesAssumption
  <1>1. /\ Clocked /\ clock' = clock + 1 /\ UNCHANGED thread /\ Lives(t)
        /\ AddMmapExec(PidOf(t), lo, hi, part, FALSE)
        /\ process' = [process EXCEPT ![g].known = known, ![g].page = page]
    BY EventClock DEF Mmap, ThreadsInv, Runs, Lives
  <1>3. PICK pid : pid = PidOf(t)
    OBVIOUS
  <1>4. /\ g \in DOMAIN process /\ PageShape(process[g]) /\ pid \in Ids
        /\ Told(process[g], Entry(pid).maps, clock)
    BY <1>1, <1>3 DEF LiveInv, LiveAt, ProcessOf
  <1>5. process' = [process EXCEPT ![g] = q]
    <2> HIDE DEF known, page, g
    <2>1. process' = [process EXCEPT ![g] = [process[g] EXCEPT !.known = known, !.page = page]]
      BY <1>1, <1>4
    <2>2. [process[g] EXCEPT !.known = known, !.page = page] = q
      BY <1>4, PageSet
    <2> QED BY <2>1, <2>2, Zenon
  <1>6. PageShape(q) /\ q.pid = pid
    <2>1. ASSUME NEW a \in UserAddresses
          PROVE  /\ page[a] = [file |-> page[a].file, off |-> page[a].off]
                 /\ page[a].off \in Nat
      BY <1>0, <1>4, KernelAssumption DEF PageShape, UserAddresses
    <2> HIDE DEF page
    <2>2. DOMAIN page = UserAddresses
      BY DEF page
    <2> QED BY <1>3, <2>1, <2>2 DEF PageOf, PageShape, PidOf, ProcessOf
  <1>7. /\ MapsInv' /\ MapShape(m)
        /\ Entry(pid)'.maps = Append(Entry(pid).maps, m)
        /\ \A p : p # pid => Entry(p)'.maps = Entry(p).maps
    <2>1. pid # 0 /\ clock < clock' /\ part.off \in Nat
      BY <1>0, <1>1, <1>4, IdsAssumption DEF Clocked
    <2>2. AddMmapExec(pid, lo, hi, part, FALSE)
      BY <1>1, <1>3
    <2> HIDE DEF part, lo, hi
    <2> QED BY <1>0, <1>1, <2>1, <2>2, MmapTable
  <1>8. Told(q, Append(Entry(pid).maps, m), clock')
    <2>1. MapList(Entry(pid).maps, clock)
      BY <1>1, EntryTable DEF TableAt, Clocked
    <2>2. /\ m.time = clock' /\ m.start = lo /\ m.end = hi /\ m.off = off
          /\ m.file = clock'
      BY Zenon DEF MapOf
    <2>3. ASSUME NEW a \in q.known \cap UserAddresses
          PROVE  IF ContainsIp(m, a)
                 THEN /\ q.page[a].file = m.file
                      /\ q.page[a].off = m.off + (a - m.start)
                 ELSE a \in process[g].known /\ q.page[a] = process[g].page[a]
      <3>1. ContainsIp(m, a) <=> a \in lo .. hi
        <4>1. a \in Nat
          BY KernelAssumption DEF UserAddresses
        <4> HIDE DEF m, lo, hi
        <4> QED BY <1>0, <2>2, <4>1 DEF ContainsIp
      <3>2. /\ q.known = known /\ q.page = page
        BY DEF PageOf
      <3> HIDE DEF m, q
      <3> QED BY <2>2, <2>3, <3>1, <3>2
    <2> DEFINE old == process[g]
               maps == Entry(pid).maps
    <2>4. /\ clock \in Nat /\ clock' \in Nat /\ clock < clock'
          /\ MapList(maps, clock) /\ Told(old, maps, clock)
      BY <1>1, <1>4, <2>1 DEF Clocked
    <2> HIDE DEF m, q, old, maps
    <2>5. \A a \in q.known \cap UserAddresses :
            IF ContainsIp(m, a)
            THEN q.page[a].file = m.file /\ q.page[a].off = m.off + (a - m.start)
            ELSE a \in old.known /\ q.page[a] = old.page[a]
      BY <2>3 DEF old
    <2>6. Told(q, Append(maps, m), clock')
      BY <1>7, <2>2, <2>4, <2>5, ToldMapped
    <2> QED BY <2>6 DEF maps
  <1> HIDE DEF q, m
  <1>9. Told(q, Entry(pid)'.maps, clock')
    BY <1>7, <1>8
  <1>10. SameThreads
    BY <1>1 DEF SameThreads
  <1> QED BY <1>1, <1>3, <1>5, <1>6, <1>7, <1>9, <1>10, LivePages

(* The environment thread writes a region.                                 *)
LEMMA EnvWriteLive ==
    ASSUME ThreadsInv, SamplesInv, MapsInv, LiveInv, EnvInv,
           NEW r \in env.regions, EnvWrite(r)
    PROVE  MapsInv' /\ LiveInv'
  <1> DEFINE current == Alive(r.pid) /\ r \in Regions(r.pid, ProcessOf(r.pid).page)
             g == thread[r.pid].proc
  <1>0. /\ r.pid \in Ids /\ r.lo \in Nat /\ r.hi \in Nat /\ r.page.off \in Nat
    BY DEF EnvInv
  <1>1. /\ Clocked /\ clock' = clock + 1 /\ UNCHANGED thread
        /\ AddMmapExec(r.pid, r.lo, r.hi, r.page, ~ current)
        /\ process' = IF ~ current THEN process
                      ELSE [process EXCEPT ![g].known = @ \cup r.lo .. r.hi]
    BY EventClock DEF EnvWrite, ThreadsInv
  <1> HIDE DEF current
  <1>2. PICK pid, lo, hi, part, stale :
            /\ pid = r.pid /\ lo = r.lo /\ hi = r.hi /\ part = r.page
            /\ stale = ~ current
    OBVIOUS
  <1> DEFINE m == MapOf(lo, hi, part, stale)
  <1>3. AddMmapExec(pid, lo, hi, part, stale)
    BY <1>1, <1>2, Zenon
  <1>4. /\ MapsInv' /\ MapShape(m)
        /\ Entry(pid)'.maps = Append(Entry(pid).maps, m)
        /\ \A p : p # pid => Entry(p)'.maps = Entry(p).maps
    <2>1. pid # 0 /\ clock < clock' /\ lo \in Nat /\ hi \in Nat /\ part.off \in Nat
      BY <1>0, <1>1, <1>2, IdsAssumption DEF Clocked
    <2> QED BY <1>1, <1>3, <2>1, MmapTable
  <1>5. /\ m.time = clock' /\ m.start = lo /\ m.end = hi /\ m.off = part.off
        /\ m.file = part.file /\ m.stale = stale
    BY Zenon DEF MapOf
  <1> HIDE DEF m
  <1>6. SameThreads
    BY <1>1 DEF SameThreads
  <1>7. \A p : MapList(Entry(p).maps, clock)
    BY <1>1, EntryTable DEF TableAt, Clocked
  <1>8. CASE ~ current
    <2>1. m.stale
      BY <1>2, <1>5, <1>8, Zenon
    <2>2. ASSUME NEW u \in Ids, NEW p, Lives(u), p = PidOf(u)
          PROVE  /\ PageShape(process'[thread[u].proc])
                 /\ Told(process'[thread[u].proc], Entry(p)'.maps, clock')
      <3> DEFINE q == process[thread[u].proc]
                 maps == Entry(p).maps
      <3>1. /\ PageShape(q) /\ Told(q, maps, clock)
            /\ process'[thread[u].proc] = q
        BY <1>1, <1>8, <2>2 DEF LiveInv, LiveAt, ProcessOf
      <3>2. MapList(maps, clock)
        BY <1>7
      <3>3. clock \in Nat /\ clock' \in Nat /\ clock < clock'
        BY <1>1 DEF Clocked
      <3>4. Entry(p)'.maps = IF p = pid THEN Append(maps, m) ELSE maps
        BY <1>4
      <3> HIDE DEF q, maps
      <3>5. Told(q, Append(maps, m), clock')
        BY <1>4, <1>5, <2>1, <3>1, <3>2, <3>3, ToldMapped
      <3>6. Told(q, maps, clock')
        BY <3>1, <3>2, <3>3, ToldLater
      <3> QED BY <3>1, <3>4, <3>5, <3>6
    <2>3. process' = process /\ IsSeq(process)
      BY <1>1, <1>8 DEF LiveInv
    <2>4. LiveInv'
      BY <1>6, <2>2, <2>3, LiveStep
    <2> QED BY <1>4, <2>4
  <1>9. CASE current
    <2> DEFINE old == process[g]
               known == old.known \cup lo .. hi
               q == PageOf(old.pid, known, old.page)
    <2>1. /\ Lives(pid) /\ PidOf(pid) = pid /\ thread[pid].proc = g
          /\ r \in Regions(pid, old.page)
      BY <1>2, <1>9 DEF current, Alive, Lives, ProcessOf
    <2>2. /\ g \in DOMAIN process /\ PageShape(old) /\ old.pid = pid
          /\ Told(old, Entry(pid).maps, clock)
      BY <1>0, <1>2, <2>1 DEF LiveInv, LiveAt, ProcessOf, PidOf
    <2>3. /\ part = old.page[lo]
          /\ \A a \in lo .. hi : old.page[a] =
                [file |-> part.file, off |-> part.off + (a - lo)]
      <3> HIDE DEF old
      <3>1. PICK x \in UserAddresses \X UserAddresses :
                /\ OnePart(old.page, x[1], x[2])
                /\ r = [pid |-> pid, lo |-> x[1], hi |-> x[2], page |-> old.page[x[1]]]
        BY <2>1 DEF Regions
      <3>2. lo = x[1] /\ hi = x[2] /\ part = old.page[lo]
        BY <1>2, <3>1
      <3>3. OnePart(old.page, lo, hi)
        BY <3>1, <3>2
      <3> QED BY <3>2, <3>3 DEF OnePart
    <2>4. process' = [process EXCEPT ![g] = q]
      <3> HIDE DEF known, g
      <3>1. process' = [process EXCEPT ![g] = [process[g] EXCEPT !.known = known]]
        <4>1. process' = [process EXCEPT ![g].known = @ \cup lo .. hi]
          BY <1>1, <1>2, <1>9, Zenon DEF g
        <4> QED BY <2>2, <4>1 DEF known
      <3>2. [process[g] EXCEPT !.known = known] = q
        BY <2>2, KnownSet
      <3> QED BY <3>1, <3>2, Zenon
    <2>5. PageShape(q) /\ q.pid = pid /\ q.known = known /\ q.page = old.page
      <3> HIDE DEF old
      <3> QED BY <2>2 DEF PageOf, PageShape
    <2> HIDE DEF q
    <2>6. ASSUME NEW a \in q.known \cap UserAddresses
          PROVE  IF ContainsIp(m, a)
                 THEN /\ q.page[a].file = m.file
                      /\ q.page[a].off = m.off + (a - m.start)
                 ELSE a \in old.known /\ q.page[a] = old.page[a]
      <3>1. ContainsIp(m, a) <=> a \in lo .. hi
        <4>1. a \in Nat /\ lo \in Nat /\ hi \in Nat
          BY <1>0, <1>2, KernelAssumption DEF UserAddresses
        <4> QED BY <1>5, <4>1 DEF ContainsIp
      <3> HIDE DEF old
      <3>2. CASE a \in lo .. hi
        <4>1. q.page[a] = [file |-> m.file, off |-> m.off + (a - m.start)]
          BY <1>5, <2>3, <2>5, <3>2
        <4> QED BY <3>1, <3>2, <4>1
      <3>3. CASE a \notin lo .. hi
        BY <2>5, <2>6, <3>1, <3>3
      <3> QED BY <3>2, <3>3
    <2>7. Told(q, Entry(pid)'.maps, clock')
      <3> DEFINE maps == Entry(pid).maps
      <3>1. /\ clock \in Nat /\ clock' \in Nat /\ clock < clock'
            /\ MapList(maps, clock) /\ Told(old, maps, clock)
        BY <1>1, <1>7, <2>2 DEF Clocked
      <3> HIDE DEF old, maps
      <3>2. Told(q, Append(maps, m), clock')
        BY <1>4, <1>5, <2>6, <3>1, ToldMapped
      <3> QED BY <1>4, <3>2 DEF maps
    <2>8. pid \in Ids /\ process' = [process EXCEPT ![thread[pid].proc] = q]
      BY <1>0, <1>2, <2>1, <2>4
    <2>9. LiveInv'
      BY <1>1, <1>4, <1>6, <2>1, <2>5, <2>7, <2>8, LivePages
    <2> QED BY <1>4, <2>9
  <1> QED BY <1>8, <1>9

-----------------------------------------------------------------------------
(* The export: a mapping for the kernel, symbols, and the sort.            *)

LEMMA FunctionIsSeq ==
    ASSUME NEW s, IsSeq(s), NEW r, DOMAIN r = DOMAIN s,
           r = [i \in DOMAIN r |-> r[i]]
    PROVE  IsSeq(r)
  <1>1. DOMAIN s = 1 .. Len(s) /\ Len(s) \in Nat
    BY SeqDomain
  <1> DEFINE S == {r[i] : i \in DOMAIN r}
  <1>2. \A i \in DOMAIN r : r[i] \in S
    OBVIOUS
  <1> HIDE DEF S
  <1>3. r \in [1 .. Len(s) -> S]
    BY <1>1, <1>2
  <1>4. r \in Seq(S)
    BY <1>1, <1>3, SeqDef
  <1> QED BY <1>4 DEF IsSeq, S

LEMMA KernelTable ==
    ASSUME NEW e, NEW f, NEW now \in Nat, TableAt(e, now), NEW m, MapShape(m),
           m.time = 0, m.start = KERNEL_START,
           f.maps = Append(e.maps, m), f.samples = e.samples
    PROVE  TableAt(f, now)
  <1>1. MapList(f.maps, now)
    BY ListMapped DEF TableAt
  <1>2. ASSUME NEW i \in DOMAIN f.samples PROVE SampleFound(f.maps, f.samples[i], now)
    <2> DEFINE s == e.samples[i]
    <2>1. SampleFound(e.maps, s, now) /\ f.samples[i] = s
      BY DEF TableAt
    <2> HIDE DEF s
    <2> SUFFICES ASSUME s.at # NoPage
                 PROVE  /\ s.ip \in UserAddresses /\ s.time \in Nat /\ s.time <= now
                        /\ Fresh(f.maps) => Finds(f.maps, s.ip, s.time, s.at)
      BY <2>1 DEF SampleFound
    <2>2. s.ip \in UserAddresses /\ s.time \in Nat /\ s.time <= now
      BY <2>1 DEF SampleFound
    <2>3. ASSUME Fresh(f.maps) PROVE Finds(f.maps, s.ip, s.time, s.at)
      <3>1. IsSeq(e.maps)
        BY DEF TableAt, MapList
      <3>2. Finds(e.maps, s.ip, s.time, s.at)
        BY <2>1, <2>3, <3>1, FreshMapped DEF SampleFound
      <3>3. ~ ContainsIp(m, s.ip)
        BY <2>2, KernelAssumption DEF ContainsIp, UserAddresses
      <3> QED BY <3>1, <3>2, <3>3, FindsBeside
    <2> QED BY <2>2, <2>3
  <1> QED BY <1>1, <1>2 DEF TableAt

(* The mappings and the samples come in another order, with symbols.       *)
Reorders(f, e, order) ==
    /\ IsSeq(f.maps)
    /\ \A k \in DOMAIN f.maps : /\ order[k] \in DOMAIN e.maps /\ MapShape(f.maps[k])
                                /\ SameMapping(f.maps[k], e.maps[order[k]])
    /\ \A k, l \in DOMAIN f.maps : order[k] = order[l] => k = l
    /\ \A i \in DOMAIN e.maps : \E k \in DOMAIN f.maps : order[k] = i
    /\ \A k \in DOMAIN f.samples : \E i \in DOMAIN e.samples :
            f.samples[k] = e.samples[i]

LEMMA OrderedTable ==
    ASSUME NEW e, NEW f, NEW now \in Nat, TableAt(e, now), NEW order,
           Reorders(f, e, order)
    PROVE  TableAt(f, now)
  <1>1. MapList(f.maps, now)
    BY DEF Reorders, TableAt, MapList, SameMapping
  <1>2. Fresh(f.maps) => Fresh(e.maps)
    BY DEF Reorders, Fresh, SameMapping
  <1>3. ASSUME NEW k \in DOMAIN f.samples PROVE SampleFound(f.maps, f.samples[k], now)
    <2>1. PICK i \in DOMAIN e.samples : f.samples[k] = e.samples[i]
      BY DEF Reorders
    <2> DEFINE s == e.samples[i]
    <2>2. SampleFound(e.maps, s, now)
      BY DEF TableAt
    <2> HIDE DEF s
    <2>3. ASSUME Finds(e.maps, s.ip, s.time, s.at)
          PROVE  Finds(f.maps, s.ip, s.time, s.at)
      <3> DEFINE maps == e.maps
                 other == f.maps
      <3>1. /\ \A l \in DOMAIN other :
                    order[l] \in DOMAIN maps /\ SameMapping(other[l], maps[order[l]])
            /\ \A j, l \in DOMAIN other : order[j] = order[l] => j = l
            /\ \A j \in DOMAIN maps : \E l \in DOMAIN other : order[l] = j
            /\ Finds(maps, s.ip, s.time, s.at)
        BY <2>3 DEF Reorders
      <3> HIDE DEF maps, other
      <3>2. Finds(other, s.ip, s.time, s.at)
        BY <3>1, FindsReordered
      <3> QED BY <3>2 DEF other
    <2>4. SampleFound(f.maps, s, now)
      BY <1>2, <2>2, <2>3 DEF SampleFound
    <2> QED BY <2>1, <2>4 DEF s
  <1> QED BY <1>1, <1>3 DEF TableAt

LEMMA SymbolsKeep ==
    ASSUME NEW m, MapShape(m), NEW ips, NEW symbols
    PROVE  /\ MapShape(AddMatchingSymbols(m, ips, symbols))
           /\ SameMapping(AddMatchingSymbols(m, ips, symbols), m)
  <1>1. PICK syms : AddMatchingSymbols(m, ips, symbols) = [m EXCEPT !.syms = syms]
    BY DEF AddMatchingSymbols
  <1> DEFINE x == [m EXCEPT !.syms = syms]
  <1>2. x = [time |-> m.time, start |-> m.start, end |-> m.end, off |-> m.off,
             file |-> m.file, stale |-> m.stale, id |-> m.id, syms |-> syms]
    BY DEF MapShape
  <1> HIDE DEF x
  <1>3. MapShape(x) /\ SameMapping(x, m)
    BY <1>2 DEF MapShape, SameMapping
  <1> QED BY <1>1, <1>3 DEF x

LEMMA ResolvedTable ==
    ASSUME NEW e, NEW f, NEW now \in Nat, TableAt(e, now), f.samples = e.samples,
           DOMAIN f.maps = DOMAIN e.maps, f.maps = [i \in DOMAIN f.maps |-> f.maps[i]],
           \A i \in DOMAIN e.maps :
                \/ f.maps[i] = e.maps[i]
                \/ \E ips, symbols :
                        f.maps[i] = AddMatchingSymbols(e.maps[i], ips, symbols)
    PROVE  TableAt(f, now)
  <1> DEFINE order == [i \in DOMAIN e.maps |-> i]
  <1>1. IsSeq(f.maps)
    BY FunctionIsSeq DEF TableAt, MapList
  <1>2. \A i \in DOMAIN e.maps :
            MapShape(f.maps[i]) /\ SameMapping(f.maps[i], e.maps[i])
    <2>1. \A i \in DOMAIN e.maps : MapShape(e.maps[i])
      BY DEF TableAt, MapList
    <2>2. \A m : SameMapping(m, m)
      BY DEF SameMapping
    <2> QED BY <2>1, <2>2, SymbolsKeep
  <1>3. \A i \in DOMAIN e.maps : order[i] = i
    OBVIOUS
  <1> HIDE DEF order
  <1>4. Reorders(f, e, order)
    BY <1>1, <1>2, <1>3 DEF Reorders
  <1> QED BY <1>4, OrderedTable

LEMMA SortedTable ==
    ASSUME NEW e, NEW f, NEW now \in Nat, TableAt(e, now), Timed(e.samples),
           f.maps = SortByTime(e.maps), f.samples = SortByTime(e.samples)
    PROVE  TableAt(f, now)
  <1> DEFINE order == [k \in DOMAIN e.maps |-> Comes(e.maps, k)]
  <1>1. Timed(e.maps)
    BY DEF TableAt, MapList, MapShape, Timed
  <1>2. /\ DOMAIN f.maps = DOMAIN e.maps
        /\ \A k \in DOMAIN e.maps : /\ order[k] \in DOMAIN e.maps
                                    /\ f.maps[k] = e.maps[order[k]]
        /\ \A i \in DOMAIN e.maps : \E k \in DOMAIN e.maps : order[k] = i
    BY <1>1, StableSort
  <1>3. \A k, l \in DOMAIN e.maps : order[k] = order[l] => k = l
    BY <1>1, ComesExists
  <1>4. f.maps = [k \in DOMAIN f.maps |-> f.maps[k]]
    BY DEF SortByTime
  <1> HIDE DEF order
  <1>5. IsSeq(f.maps)
    BY <1>1, <1>2, <1>4, FunctionIsSeq DEF Timed
  <1>6. \A k \in DOMAIN f.samples : \E i \in DOMAIN e.samples :
            f.samples[k] = e.samples[i]
    BY StableSort
  <1>7. \A k \in DOMAIN e.maps :
            MapShape(f.maps[k]) /\ SameMapping(f.maps[k], e.maps[order[k]])
    BY <1>2 DEF TableAt, MapList, SameMapping
  <1>8. Reorders(f, e, order)
    BY <1>2, <1>3, <1>5, <1>6, <1>7 DEF Reorders
  <1> QED BY <1>8, OrderedTable

(* What the export makes of a process: symbols and a mapping may be added, *)
(* and its lists are sorted.                                               *)
SameLife(f, e) == f.create = e.create /\ f.exit = e.exit

Makes(f, e, r, now) ==
    /\ TableAt(r, now) /\ ProcShape(r) /\ r.samples = e.samples /\ SameLife(f, e)
    /\ f.samples = SortByTime(r.samples) /\ f.maps = SortByTime(r.maps)

LEMMA ExportMakes ==
    ASSUME MachineInv, MapsInv, Export, NEW p \in DOMAIN procs
    PROVE  \E r : Makes(procs'[p], procs[p], r, clock)
  <1>0. SamplesInv /\ clock \in Nat /\ clock' = clock
    BY DEF Export, MachineInv, ThreadsInv
  <1> DEFINE added == AddKernelMappings(procs)
             resolved == ResolveElfSymbols(added)
  <1>1. procs'[p] = [resolved[p] EXCEPT !.samples = SortByTime(@), !.maps = SortByTime(@)]
    BY DEF Export
  <1>2. DOMAIN added = DOMAIN procs
    BY DEF AddKernelMappings
  <1>3. /\ TableAt(procs[p], clock) /\ ProcShape(procs[p])
        /\ Timed(procs[p].samples)
    BY <1>0 DEF MapsInv, SamplesInv
  <1>4. /\ TableAt(added[p], clock) /\ ProcShape(added[p])
        /\ added[p].samples = procs[p].samples /\ SameLife(added[p], procs[p])
    <2>1. \/ added[p] = procs[p]
          \/ \E id, syms : added[p] = AddMapping(procs[p],
                [time |-> 0, start |-> KERNEL_START, end |-> KERNEL_END,
                 off |-> 0, file |-> 0, stale |-> FALSE, id |-> id, syms |-> syms])
      BY DEF AddKernelMappings
    <2> HIDE DEF added
    <2>2. ASSUME NEW id, NEW syms, NEW stale,
                 added[p] = AddMapping(procs[p],
                    [time |-> 0, start |-> KERNEL_START, end |-> KERNEL_END,
                     off |-> 0, file |-> 0, stale |-> stale, id |-> id,
                     syms |-> syms])
          PROVE  /\ TableAt(added[p], clock) /\ ProcShape(added[p])
                 /\ added[p].samples = procs[p].samples
                 /\ SameLife(added[p], procs[p])
      <3> DEFINE m == [time |-> 0, start |-> KERNEL_START, end |-> KERNEL_END,
                       off |-> 0, file |-> 0, stale |-> stale, id |-> id,
                       syms |-> syms]
                 maps == Append(procs[p].maps, m)
      <3>1. MapShape(m) /\ m.time = 0 /\ m.start = KERNEL_START
        BY KernelAssumption DEF MapShape
      <3>2. added[p] = [procs[p] EXCEPT !.maps = maps]
        BY <2>2 DEF AddMapping
      <3> HIDE DEF m
      <3>3. /\ added[p].maps = maps /\ added[p].samples = procs[p].samples
            /\ ProcShape(added[p]) /\ SameLife(added[p], procs[p])
        <4> HIDE DEF maps
        <4> QED BY <1>3, <3>2 DEF ProcShape, SameLife
      <3>4. TableAt(added[p], clock)
        BY <1>0, <1>3, <3>1, <3>3, KernelTable
      <3> QED BY <3>3, <3>4
    <2>3. CASE added[p] = procs[p]
      BY <1>3, <2>3 DEF SameLife
    <2> QED BY <2>1, <2>2, <2>3, Zenon
  <1>5. /\ TableAt(resolved[p], clock) /\ ProcShape(resolved[p])
        /\ resolved[p].samples = procs[p].samples /\ SameLife(resolved[p], procs[p])
    <2> HIDE DEF added
    <2> DEFINE Res(m, ips) == IF m.file = 0 THEN m
                              ELSE AddMatchingSymbols(m, ips, FileSymbols)
               ips(i) == {ip \in SampledIps(added[p]) \ KernelIps(added[p]) :
                              ContainsIp(added[p].maps[i], ip)}
               maps == [i \in DOMAIN added[p].maps |-> Res(added[p].maps[i], ips(i))]
    <2>1. \/ resolved[p] = added[p]
          \/ resolved[p] = [added[p] EXCEPT !.maps = maps]
      BY <1>2 DEF ResolveElfSymbols
    <2>2. DOMAIN maps = DOMAIN added[p].maps
      OBVIOUS
    <2>3. ASSUME NEW i \in DOMAIN added[p].maps
          PROVE  \/ maps[i] = added[p].maps[i]
                 \/ \E x, symbols :
                      maps[i] = AddMatchingSymbols(added[p].maps[i], x, symbols)
      <3>1. maps[i] = Res(added[p].maps[i], ips(i))
        OBVIOUS
      <3> HIDE DEF ips, maps
      <3> QED BY <3>1
    <2>4. maps = [i \in DOMAIN maps |-> maps[i]]
      <3> HIDE DEF Res, ips
      <3> QED OBVIOUS
    <2> HIDE DEF resolved, maps
    <2>5. CASE resolved[p] = added[p]
      BY <1>4, <2>5
    <2>6. CASE resolved[p] = [added[p] EXCEPT !.maps = maps]
      <3> DEFINE f == resolved[p]
      <3>1. /\ f.maps = maps /\ f.samples = added[p].samples /\ ProcShape(f)
            /\ SameLife(f, added[p])
        BY <1>4, <2>6 DEF ProcShape, SameLife
      <3> HIDE DEF f
      <3>2. TableAt(f, clock)
        BY <1>0, <1>4, <2>2, <2>3, <2>4, <3>1, ResolvedTable
      <3> QED BY <1>4, <3>1, <3>2 DEF f, SameLife
    <2> QED BY <2>1, <2>5, <2>6
  <1> HIDE DEF added, resolved
  <1>r. PICK r : r = resolved[p]
    OBVIOUS
  <1> DEFINE samples == SortByTime(r.samples)
             maps == SortByTime(r.maps)
  <1>6. procs'[p] = [r EXCEPT !.samples = samples, !.maps = maps]
    BY <1>1, <1>r
  <1>7. TableAt(r, clock) /\ ProcShape(r) /\ r.samples = procs[p].samples
        /\ SameLife(r, procs[p])
    BY <1>5, <1>r
  <1>8. procs'[p].samples = samples /\ procs'[p].maps = maps /\ SameLife(procs'[p], r)
    <2> HIDE DEF samples, maps
    <2> DEFINE y == [r EXCEPT !.samples = samples]
               x == [y EXCEPT !.maps = maps]
    <2>1. y = [root |-> r.root, create |-> r.create, exit |-> r.exit,
               samples |-> samples, maps |-> r.maps]
      BY <1>7 DEF ProcShape
    <2>2. x.samples = samples /\ x.maps = maps /\ SameLife(x, r)
      <3> HIDE DEF y
      <3> QED BY <2>1 DEF SameLife
    <2>3. procs'[p] = x
      BY <1>6
    <2> HIDE DEF x
    <2> QED BY <2>2, <2>3
  <1>9. Makes(procs'[p], procs[p], r, clock)
    BY <1>7, <1>8 DEF Makes, SameLife
  <1> QED BY <1>9

LEMMA ExportTable ==
    ASSUME MachineInv, MapsInv, Export
    PROVE  MapsInv'
  <1>1. SamplesInv /\ clock \in Nat /\ clock' = clock /\ DOMAIN procs' = DOMAIN procs
    BY DEF Export, MachineInv, ThreadsInv
  <1>2. ASSUME NEW p \in DOMAIN procs PROVE TableAt(procs'[p], clock)
    <2>1. PICK r : Makes(procs'[p], procs[p], r, clock)
      BY ExportMakes
    <2>2. Timed(r.samples)
      BY <1>1, <2>1 DEF Makes, SamplesInv
    <2> QED BY <1>1, <2>1, <2>2, SortedTable DEF Makes
  <1> QED BY <1>1, <1>2 DEF MapsInv

-----------------------------------------------------------------------------
(* Every step.                                                             *)

LEMMA SampleLive ==
    ASSUME MachineInv, MapsInv, LiveInv, NEW t \in Ids, NEW s \in Sampled,
           CpuSample(t, s[1], s[2])
    PROVE  MapsInv' /\ LiveInv'
  <1>0. s[1] \in Nat /\ s[2] \in Nat /\ clock \in Nat /\ SamplesInv
    BY SampledAssumption DEF MachineInv, ThreadsInv
  <1>1. PICK pid, ip, q : pid = PidOf(t) /\ ip = s[1] /\ q = ProcessOf(t)
    OBVIOUS
  <1> DEFINE at == IF ip < KERNEL_START /\ ip \in q.known THEN q.page[ip] ELSE NoPage
             x == [kind |-> "cpu", time |-> clock', dur |-> 0, tid |-> t, ip |-> ip,
                   chain |-> clock', real |-> TRUE, at |-> at]
             maps == Entry(pid).maps
  <1>2. /\ Clocked /\ UNCHANGED <<thread, process>> /\ Lives(t)
        /\ procs' = AddSample(pid, x)
    BY <1>0, <1>1, EventClock DEF CpuSample, kernelVars, Runs, Lives
  <1>3. Told(q, maps, clock) /\ MapList(maps, clock)
    BY <1>0, <1>1, <1>2, EntryTable DEF LiveInv, LiveAt, TableAt
  <1>4. Told(q, maps, clock')
    <2> HIDE DEF maps
    <2> QED BY <1>2, <1>3, ToldLater DEF Clocked
  <1>5. x.at = at /\ x.ip = ip /\ x.time = clock'
    BY Zenon
  <1> HIDE DEF x, maps
  <1>6. SampleFound(maps, x, clock')
    <2> SUFFICES ASSUME at # NoPage
                 PROVE  /\ ip \in UserAddresses /\ clock' \in Nat /\ clock' <= clock'
                        /\ Fresh(maps) => Finds(maps, ip, clock', at)
      BY <1>5 DEF SampleFound
    <2>1. ip \in UserAddresses /\ ip \in q.known /\ at = q.page[ip]
      BY <1>0, <1>1, KernelAssumption DEF UserAddresses
    <2> HIDE DEF at
    <2> QED BY <1>2, <1>4, <2>1 DEF Told, Clocked
  <1>7. MapsInv' /\ MapsKept
    BY <1>0, <1>2, <1>6, SampleTable DEF maps
  <1> QED BY <1>2, <1>7, LiveKept DEF SameThreads

LEMMA SwitchLive ==
    ASSUME MachineInv, MapsInv, LiveInv, NEW t \in Ids,
           CswitchSample(t) \/ SwitchOut(t) \/ SwitchIn(t)
    PROVE  MapsInv' /\ LiveInv'
  <1>0. ThreadsInv /\ SamplesInv /\ clock \in Nat /\ 1 \in Nat
    BY DEF MachineInv, ThreadsInv
  <1>1. Clocked /\ UNCHANGED process
    BY <1>0, EventClock DEF CswitchSample, SwitchOut, SwitchIn
  <1>2. SameThreads
    <2>1. PICK x, y, z : \/ thread' = [thread EXCEPT ![t].state = x, ![t].chain = y]
                         \/ thread' = [thread EXCEPT ![t].state = x, ![t].out = z]
                         \/ thread' = [thread EXCEPT ![t].state = x]
      BY DEF CswitchSample, SwitchOut, SwitchIn
    <2>2. thread[t] = [proc |-> thread[t].proc, dead |-> thread[t].dead,
                       state |-> thread[t].state, out |-> thread[t].out,
                       chain |-> thread[t].chain] /\ DOMAIN thread = Ids
      BY <1>0 DEF ThreadsInv, ThreadShape
    <2>3. \A u \in Ids \ {t} : thread'[u] = thread[u]
      BY <2>1, <2>2
    <2>4. thread'[t].proc = thread[t].proc /\ thread'[t].dead = thread[t].dead
      BY <2>1, <2>2
    <2> QED BY <2>3, <2>4 DEF SameThreads
  <1>3. MapsInv' /\ MapsKept
    <2>1. CASE UNCHANGED procs
      BY <1>1, <2>1, TablesKept
    <2>2. CASE SwitchIn(t) /\ RecordWait(t)
      <3> DEFINE start == Stash(t).start
                 real == /\ start = thread[t].out
                         /\ Stash(t).sample.chain = thread[t].chain
                 x == [Stash(t).sample EXCEPT !.time = start,
                          !.dur = clock' - start, !.real = real]
      <3>1. procs' = AddSample(PidOf(t), x)
        BY <2>2 DEF SwitchIn
      <3>2. Stash(t).sample = WaitOf(t, Stash(t).sample.chain)
        BY <1>0, <2>2 DEF ThreadsInv, StashShape, RecordWait
      <3>3. x.at = NoPage
        BY <3>2 DEF WaitOf
      <3> HIDE DEF x
      <3>4. PICK pid, y : pid = PidOf(t) /\ y = x
        OBVIOUS
      <3>5. SampleFound(Entry(pid).maps, y, clock')
        BY <3>3, <3>4 DEF SampleFound
      <3> QED BY <1>0, <1>1, <3>1, <3>4, <3>5, SampleTable
    <2>3. UNCHANGED procs \/ (SwitchIn(t) /\ RecordWait(t))
      BY DEF CswitchSample, SwitchOut, SwitchIn
    <2> QED BY <2>1, <2>2, <2>3
  <1> QED BY <1>1, <1>2, <1>3, LiveKept

LEMMA OutsideLive ==
    ASSUME MachineInv, MapsInv, LiveInv,
           \/ \E s \in Sampled : OutsideSample(s[1], s[2])
           \/ OutsideFork \/ OutsideOther
    PROVE  MapsInv' /\ LiveInv'
  <1>0. ThreadsInv /\ SamplesInv /\ clock \in Nat /\ \A s \in Sampled : s[2] \in Nat
    BY SampledAssumption DEF MachineInv, ThreadsInv
  <1>1. Clocked /\ UNCHANGED <<thread, process>>
    BY <1>0, EventClock DEF OutsideSample, OutsideFork, OutsideOther, kernelVars
  <1>2. MapsInv' /\ MapsKept
    <2>1. ASSUME NEW s \in Sampled, OutsideSample(s[1], s[2]) PROVE MapsInv' /\ MapsKept
      <3> DEFINE x == [kind |-> "cpu", time |-> clock', dur |-> 0, tid |-> 0,
                       ip |-> s[1], chain |-> clock', real |-> TRUE, at |-> NoPage]
      <3>1. procs' = AddSample(0, x) /\ x.at = NoPage
        BY <2>1, Zenon DEF OutsideSample
      <3> HIDE DEF x
      <3>2. PICK y : y = x
        OBVIOUS
      <3>3. SampleFound(Entry(0).maps, y, clock')
        BY <3>1, <3>2 DEF SampleFound
      <3> QED BY <1>0, <1>1, <3>1, <3>2, <3>3, SampleTable
    <2>2. CASE OutsideFork
      BY <1>0, <1>1, <2>2, ForkTable DEF OutsideFork, MapsKept
    <2>3. CASE OutsideOther
      <3>1. \/ procs' = AddCommExec(0) \/ procs' = AddCommExit(0) \/ UNCHANGED procs
        BY <2>3 DEF OutsideOther, AddMmapExec
      <3> QED BY <1>0, <1>1, <3>1, CommTable, TablesKept
    <2> QED BY <2>1, <2>2, <2>3
  <1> QED BY <1>1, <1>2, LiveKept DEF SameThreads

LEMMA EnvLive ==
    ASSUME MachineInv, MapsInv, LiveInv, EnvInv, EnvStep
    PROVE  MapsInv' /\ LiveInv' /\ EnvInv'
  <1>0. ThreadsInv /\ SamplesInv /\ clock \in Nat /\ 1 \in Nat
    BY DEF MachineInv, ThreadsInv
  <1>1. ASSUME NEW p \in Ids, EnvComm(p) PROVE MapsInv' /\ LiveInv' /\ EnvInv'
    <2>1. /\ Clocked /\ UNCHANGED <<thread, process>> /\ procs' = AddCommExec(p)
          /\ env' = [env EXCEPT !.comms = @ \cup {p}]
      BY <1>0, <1>1, EventClock DEF EnvComm, kernelVars
    <2>2. MapsInv' /\ MapsKept
      BY <1>0, <2>1, CommTable
    <2>3. LiveInv'
      BY <2>1, <2>2, LiveKept DEF SameThreads
    <2>4. env'.regions = env.regions /\ EnvInv'
      BY <2>1 DEF EnvInv
    <2> QED BY <2>2, <2>3, <2>4
  <1>2. ASSUME NEW p \in Ids, EnvRead(p) PROVE MapsInv' /\ LiveInv' /\ EnvInv'
    <2> DEFINE page == ProcessOf(p).page
               regions == Regions(p, page)
               read == env.read \cup {p}
    <2>1. /\ Clocked /\ UNCHANGED <<thread, process, procs>> /\ Lives(p)
          /\ env' = [env EXCEPT !.read = read, !.regions = regions]
      BY <1>0, <1>2 DEF EnvRead, kernelVars, machineVars, Clocked, Alive, Lives
    <2>2. MapsInv' /\ MapsKept
      BY <2>1, TablesKept
    <2>3. LiveInv'
      BY <2>1, <2>2, LiveKept DEF SameThreads
    <2>4. PageShape(ProcessOf(p))
      BY <2>1 DEF LiveInv, LiveAt
    <2>5. \A r \in regions :
            r.pid \in Ids /\ r.lo \in Nat /\ r.hi \in Nat /\ r.page.off \in Nat
      <3>1. \A a \in UserAddresses : a \in Nat /\ page[a].off \in Nat
        <4>1. PICK q : q = ProcessOf(p)
          OBVIOUS
        <4>2. page = q.page /\ PageShape(q)
          BY <2>4, <4>1
        <4>3. \A a \in UserAddresses : a \in Nat
          BY KernelAssumption DEF UserAddresses
        <4> HIDE DEF page
        <4> QED BY <4>2, <4>3 DEF PageShape
      <3> HIDE DEF page
      <3>2. \A r \in regions : \E x \in UserAddresses \X UserAddresses :
                r = [pid |-> p, lo |-> x[1], hi |-> x[2], page |-> page[x[1]]]
        BY DEF Regions
      <3> HIDE DEF regions
      <3> QED BY <3>1, <3>2
    <2> HIDE DEF regions, read
    <2>6. env' = [comms |-> env.comms, read |-> read, regions |-> regions]
      <3> DEFINE y == [env EXCEPT !.read = read]
      <3>1. y = [comms |-> env.comms, read |-> read, regions |-> env.regions]
        BY DEF EnvInv
      <3>2. env' = [y EXCEPT !.regions = regions]
        BY <2>1
      <3> HIDE DEF y
      <3> QED BY <3>1, <3>2
    <2>7. EnvInv'
      BY <2>5, <2>6 DEF EnvInv
    <2> QED BY <2>2, <2>3, <2>7
  <1>3. ASSUME NEW r \in env.regions, EnvWrite(r) PROVE MapsInv' /\ LiveInv' /\ EnvInv'
    <2>1. MapsInv' /\ LiveInv'
      BY <1>0, <1>3, EnvWriteLive
    <2>2. env' = [env EXCEPT !.regions = @ \ {r}]
      BY <1>3 DEF EnvWrite
    <2>3. EnvInv'
      BY <2>2 DEF EnvInv
    <2> QED BY <2>1, <2>3
  <1> QED BY <1>1, <1>2, <1>3 DEF EnvStep

LEMMA PagesStep ==
    MachineInv /\ PagesInv /\ [Next]_vars => PagesInv'
  <1> SUFFICES ASSUME MachineInv, PagesInv, [Next]_vars PROVE PagesInv'
    OBVIOUS
  <1>0. ThreadsInv /\ SamplesInv /\ clock \in Nat /\ MapsInv
    BY DEF MachineInv, ThreadsInv, PagesInv
  <1>1. CASE UNCHANGED vars
    <2>1. MapsInv'
      BY <1>0, <1>1 DEF vars, kernelVars, machineVars, MapsInv
    <2>2. EnvInv => EnvInv'
      BY <1>1 DEF vars, EnvInv
    <2>3. LiveInv => LiveInv'
      <3>1. Clocked /\ SameThreads /\ UNCHANGED process /\ MapsKept
        BY <1>0, <1>1 DEF vars, kernelVars, machineVars, Clocked, SameThreads,
                          MapsKept, Entry
      <3> QED BY <1>0, <3>1, LiveKept
    <2> QED BY <1>1, <2>1, <2>2, <2>3 DEF PagesInv, vars
  <1>2. CASE Export
    <2>1. phase' # "trace"
      BY <1>2 DEF Export
    <2> QED BY <1>0, <1>2, <2>1, ExportTable DEF PagesInv
  <1>3. CASE EnvStep
    <2>1. phase = "trace"
      BY <1>3 DEF EnvStep, EnvComm, EnvRead, EnvWrite, Event
    <2> QED BY <1>0, <1>3, <2>1, EnvLive DEF PagesInv
  <1>4. CASE KernelStep
    <2>1. phase = "trace" /\ UNCHANGED env
      BY <1>4, ZenonT(40) DEF KernelStep, Fork, Clone, Exec, MmapNoExec, Mmap, CpuSample,
                  CswitchSample, SwitchOut, SwitchIn, Exit, OutsideSample,
                  OutsideFork, OutsideOther, Event
    <2>2. LiveInv /\ EnvInv /\ EnvInv'
      BY <2>1 DEF PagesInv, EnvInv
    <2>3. MapsInv' /\ LiveInv'
      BY <1>0, <1>4, <2>2, ForkLive, CloneLive, ExecLive, NoExecLive, MmapLive,
         SampleLive, SwitchLive, ExitLive, OutsideLive DEF KernelStep
    <2> QED BY <2>2, <2>3 DEF PagesInv
  <1> QED BY <1>1, <1>2, <1>3, <1>4 DEF Next

LEMMA InitPages == Init => PagesInv
  <1> SUFFICES ASSUME Init PROVE PagesInv
    OBVIOUS
  <1> DEFINE page == [a \in UserAddresses |-> [file |-> 1, off |-> a]]
  <1>1. MapsInv /\ EnvInv
    BY DEF Init, MapsInv, EnvInv
  <1>2. process = <<PageOf(1, {}, page)>>
    BY DEF Init, PageOf
  <1>3. PageShape(PageOf(1, {}, page)) /\ PageOf(1, {}, page).pid = 1
    BY KernelAssumption DEF PageShape, PageOf, UserAddresses
  <1>4. /\ IsSeq(process) /\ 1 \in DOMAIN process /\ process[1].pid = 1
        /\ process[1].known = {} /\ PageShape(process[1])
    <2>1. PICK q : q = PageOf(1, {}, page)
      OBVIOUS
    <2>2. PageShape(q) /\ q.pid = 1 /\ q.known = {}
      BY <1>3, <2>1 DEF PageOf
    <2>3. process = <<q>>
      BY <1>2, <2>1
    <2>4. IsSeq(process) /\ 1 \in DOMAIN process /\ process[1] = q
      BY <2>3 DEF IsSeq
    <2> QED BY <2>2, <2>4
  <1>5. \A t \in Ids : IF t = 1 THEN thread[t].proc = 1 /\ ~ thread[t].dead
                                ELSE thread[t].proc = 0
    BY DEF Init, NoThread
  <1>6. ASSUME NEW t \in Ids, Lives(t) PROVE LiveAt(t)
    <2>1. t = 1 /\ thread[1].proc = 1
      BY <1>5, <1>6 DEF Lives
    <2>2. ProcessOf(1) = process[1] /\ PidOf(1) = 1
      BY <1>4, <2>1 DEF ProcessOf, PidOf
    <2>3. Told(process[1], Entry(1).maps, clock)
      BY <1>4 DEF Told
    <2> QED BY <1>4, <1>6, <2>1, <2>2, <2>3 DEF LiveAt
  <1> QED BY <1>1, <1>4, <1>6 DEF PagesInv, LiveInv, LiveAt

(* What the exporter was told of a process finds what its pages hold, from *)
(* its leader's first record to its last, and each sample finds what was   *)
(* in its page at its time, whatever is mapped over it later.              *)
THEOREM PagesInvariant == Spec => []PagesInv
  <1>1. MachineInv /\ PagesInv /\ [Next]_vars => PagesInv'
    BY PagesStep
  <1> QED BY <1>1, InitPages, MachineInvariant, PTL DEF Spec

(* What a reported sample finds in a table.                                *)
LEMMA ReportedFound ==
    ASSUME NEW e, NEW now, TableAt(e, now), NEW i \in DOMAIN e.samples,
           NEW s, s = e.samples[i], Reported(e, s)
    PROVE  \E found \in DOMAIN e.maps :
                /\ FindIndex(e.maps, s.ip, s.time) = found /\ found # 0
                /\ s.ip \in UserAddresses /\ ContainsIp(e.maps[found], s.ip)
                /\ e.maps[found].file = s.at.file
                /\ e.maps[found].off + (s.ip - e.maps[found].start) = s.at.off
  <1> DEFINE maps == e.maps
  <1>1. MapList(maps, now) /\ SampleFound(maps, s, now)
    BY DEF TableAt
  <1>2. /\ s.at # NoPage /\ Fresh(maps)
        /\ Len(maps) >= MinLookup => \A j \in DOMAIN maps : maps[j].end # s.ip
    BY DEF Reported, Fresh
  <1> HIDE DEF maps
  <1>3. s.ip \in UserAddresses /\ s.ip \in Nat /\ Finds(maps, s.ip, s.time, s.at)
    BY <1>1, <1>2, KernelAssumption DEF SampleFound, UserAddresses
  <1>4. PICK found \in DOMAIN maps :
            /\ Latest(maps, found, s.ip, s.time)
            /\ maps[found].file = s.at.file
            /\ maps[found].off + (s.ip - maps[found].start) = s.at.off
    BY <1>3 DEF Finds
  <1>5. /\ Bounded(maps) /\ \A j \in DOMAIN maps : maps[j].time \in Nat
        /\ found # 0
    <2>1. DOMAIN maps = 1 .. Len(maps) /\ Len(maps) \in Nat
      BY <1>1, SeqDomain DEF MapList
    <2> QED BY <1>1, <2>1 DEF MapList, MapShape, Bounded
  <1>6. FindIndex(maps, s.ip, s.time) = found
    BY <1>2, <1>3, <1>4, <1>5, LatestIsFound
  <1>7. ContainsIp(maps[found], s.ip)
    BY <1>4 DEF Latest
  <1> QED BY <1>3, <1>4, <1>5, <1>6, <1>7 DEF maps

(* After the export every sample finds, by its address and time, the       *)
(* mapping of the file that held the code it ran, with the offset in it:   *)
(* for every number of processes, mappings and samples, on both sides of   *)
(* the length from which find_index uses the lookup.                       *)
THEOREM SamplesFindMappings == Spec => []SampleFindsItsMapping
  <1>1. PagesInv => SampleFindsItsMapping
    <2> SUFFICES ASSUME PagesInv, phase = "done", NEW p \in DOMAIN procs,
                        NEW i \in DOMAIN procs[p].samples,
                        Reported(procs[p], procs[p].samples[i])
                 PROVE  LET e == procs[p]
                            s == e.samples[i]
                            found == FindIndex(e.maps, s.ip, s.time)
                        IN  /\ found # 0
                            /\ e.maps[found].file = s.at.file
                            /\ e.maps[found].off + (s.ip - e.maps[found].start)
                                    = s.at.off
      BY Zenon DEF SampleFindsItsMapping
    <2> DEFINE e == procs[p]
               s == e.samples[i]
    <2>1. /\ TableAt(e, clock) /\ Reported(e, s)
          /\ i \in DOMAIN e.samples /\ s = e.samples[i]
      BY DEF PagesInv, MapsInv
    <2> HIDE DEF e, s
    <2>2. PICK now : now = clock
      OBVIOUS
    <2>3. \E found \in DOMAIN e.maps :
            /\ FindIndex(e.maps, s.ip, s.time) = found /\ found # 0
            /\ e.maps[found].file = s.at.file
            /\ e.maps[found].off + (s.ip - e.maps[found].start) = s.at.off
      BY <2>1, <2>2, ReportedFound
    <2> QED BY <2>3 DEF e, s
  <1> QED BY <1>1, PagesInvariant, PTL

-----------------------------------------------------------------------------
(* The symbols of a mapping.                                               *)

(* An address that is not below the start of a symbol is its start, or     *)
(* some address above the start comes first.                               *)
LEMMA FirstAbove ==
    ASSUME NEW ips, ips \subseteq Nat, NEW start \in Nat, NEW ip \in ips, start <= ip
    PROVE  LET above == {x \in ips : x > start}
           IN  start \in ips \/ (above # {} /\ Min(above) \in Nat /\ Min(above) <= ip)
  <1> DEFINE above == {x \in ips : x > start}
  <1>1. CASE ip = start
    BY <1>1
  <1>2. CASE ip # start
    <2>0. ip \in Nat /\ ip > start
      BY <1>2
    <2>1. ip \in above /\ above \subseteq Nat
      BY <2>0
    <2> HIDE DEF above
    <2>2. Min(above) \in above /\ Min(above) <= ip
      BY <2>1, MinIsLeast
    <2> QED BY <2>1, <2>2 DEF above
  <1> QED BY <1>1, <1>2

(* The part of a symbol that is mapped covers an address when the symbol   *)
(* covers the offset that is mapped there.                                 *)
LEMMA VaRange ==
    ASSUME NEW m, MapShape(m), NEW f, f.start \in Nat, f.end \in Nat,
           NEW ip \in Nat, ContainsIp(m, ip)
    PROVE  LET va == FileToVaRange(m, f)
           IN  /\ va # << >> => va[1] \in Nat /\ va[2] \in Nat
               /\ m.off + (ip - m.start) \in f.start .. f.end <=>
                        va # << >> /\ va[1] <= ip /\ ip <= va[2]
  <1>0. /\ m.start \in Nat /\ m.end \in Nat /\ m.off \in Nat
        /\ m.start <= ip /\ ip <= m.end
    BY DEF MapShape, ContainsIp
  <1> DEFINE last == m.off + (m.end - m.start)
             from == Max({f.start, m.off})
             to == Min({f.end, last})
             va == FileToVaRange(m, f)
             off == m.off + (ip - m.start)
  <1>1. last \in Nat /\ off \in Nat /\ m.off <= off /\ off <= last
    BY <1>0
  <1>2. from = IF f.start >= m.off THEN f.start ELSE m.off
    BY <1>0 DEF Max
  <1>3. to = IF f.end <= last THEN f.end ELSE last
    BY <1>1 DEF Min
  <1>4. va = IF f.end < m.off \/ f.start > last THEN << >>
             ELSE <<m.start + (from - m.off), m.start + (to - m.off)>>
    BY DEF FileToVaRange
  <1> HIDE DEF last, from, to, va
  <1>5. from \in Nat /\ to \in Nat /\ m.off <= from
    BY <1>0, <1>1, <1>2, <1>3
  <1>6. CASE f.end < m.off \/ f.start > last
    BY <1>0, <1>1, <1>4, <1>6 DEF va
  <1>7. CASE ~ (f.end < m.off \/ f.start > last)
    <2>1. va = <<m.start + (from - m.off), m.start + (to - m.off)>>
      BY <1>4, <1>7
    <2>2. va # << >> /\ va[1] = m.start + (from - m.off) /\ va[2] = m.start + (to - m.off)
      BY <2>1
    <2>3. m.off <= to
      BY <1>0, <1>1, <1>3, <1>7
    <2>4. va[1] \in Nat /\ va[2] \in Nat
      BY <1>0, <1>5, <2>2, <2>3, SMTT(40)
    <2>5. off \in f.start .. f.end <=> va[1] <= ip /\ ip <= va[2]
      <3>1. off \in f.start .. f.end <=> f.start <= off /\ off <= f.end
        BY <1>1
      <3>2. f.start <= off <=> from <= off
        BY <1>0, <1>1, <1>2
      <3>3. off <= f.end <=> off <= to
        BY <1>1, <1>3
      <3>4. from <= off <=> va[1] <= ip
        BY <1>0, <1>5, <2>2, SMTT(40)
      <3>5. off <= to <=> ip <= va[2]
        BY <1>0, <1>5, <2>2, SMTT(40)
      <3> HIDE DEF off
      <3> QED BY <3>1, <3>2, <3>3, <3>4, <3>5
    <2> QED BY <2>2, <2>4, <2>5 DEF va
  <1> QED BY <1>6, <1>7

(* The symbols that are kept of a file for the samples of a mapping name   *)
(* those of its addresses that were sampled.                               *)
Covering(syms, ip) == {s \in syms : s.start <= ip /\ ip <= s.end}
NamesAt(syms, ip) == {s.name : s \in Covering(syms, ip)}
InFile(symbols, off) == {f \in symbols : off \in f.start .. f.end}
NamesIn(symbols, off) == {f.name : f \in InFile(symbols, off)}

(* The symbols that are kept for a mapping of a file name each address     *)
(* that was asked for as all the symbols of the file would.                *)
LEMMA MatchedSymbols ==
    ASSUME NEW m, MapShape(m), m.syms = {}, NEW ips, ips \subseteq Nat,
           NEW ip \in ips, ContainsIp(m, ip), NEW symbols,
           \A f \in symbols : f.start \in Nat /\ f.end \in Nat
    PROVE  NamesAt(AddMatchingSymbols(m, ips, symbols).syms, ip) =
                NamesIn(symbols, m.off + (ip - m.start))
  <1> DEFINE off == m.off + (ip - m.start)
             Va(f) == FileToVaRange(m, f)
             needed == {f \in symbols : /\ Va(f) # << >>
                                        /\ NeedsSymbol(ips, Va(f)[1], Va(f)[2])}
             Sym(f) == [name |-> f.name, start |-> Va(f)[1], end |-> Va(f)[2]]
             syms == {Sym(f) : f \in needed}
  <1>1. AddMatchingSymbols(m, ips, symbols).syms = syms
    <2> DEFINE x == [m EXCEPT !.syms = @ \cup syms]
    <2>1. AddMatchingSymbols(m, ips, symbols) = x
      BY DEF AddMatchingSymbols
    <2>2. x.syms = m.syms \cup syms
      <3> HIDE DEF syms
      <3> QED BY DEF MapShape
    <2> HIDE DEF x, syms
    <2> QED BY <2>1, <2>2
  <1>2. ASSUME NEW f \in symbols
        PROVE  off \in f.start .. f.end <=>
                    f \in needed /\ Va(f)[1] <= ip /\ ip <= Va(f)[2]
    <2>1. /\ Va(f) # << >> => Va(f)[1] \in Nat /\ Va(f)[2] \in Nat
          /\ off \in f.start .. f.end <=> Va(f) # << >> /\ Va(f)[1] <= ip /\ ip <= Va(f)[2]
      BY VaRange
    <2> HIDE DEF Va, off
    <2>2. ASSUME Va(f) # << >>, Va(f)[1] <= ip, ip <= Va(f)[2]
          PROVE  NeedsSymbol(ips, Va(f)[1], Va(f)[2])
      <3>1. PICK start, end : start = Va(f)[1] /\ end = Va(f)[2]
        OBVIOUS
      <3>2. /\ start \in Nat /\ end \in Nat /\ ip \in Nat
            /\ start <= ip /\ ip <= end
        BY <2>1, <2>2, <3>1
      <3> DEFINE above == {x \in ips : x > start}
      <3>3. start \in ips \/ (above # {} /\ Min(above) \in Nat /\ Min(above) <= ip)
        BY <3>2, FirstAbove
      <3> HIDE DEF above
      <3>4. start \in ips \/ (above # {} /\ Min(above) <= end)
        BY <3>2, <3>3
      <3> QED BY <3>1, <3>4 DEF NeedsSymbol, above
    <2> QED BY <2>1, <2>2
  <1>3. \A f : Sym(f).name = f.name /\ Sym(f).start = Va(f)[1] /\ Sym(f).end = Va(f)[2]
    OBVIOUS
  <1> HIDE DEF Va, off, Sym, needed
  <1>4. Covering(syms, ip) = {Sym(f) : f \in {f \in symbols : off \in f.start .. f.end}}
    <2>1. needed \subseteq symbols
      BY DEF needed
    <2> QED BY <1>2, <1>3, <2>1 DEF Covering
  <1> HIDE DEF syms
  <1> QED BY <1>1, <1>3, <1>4 DEF off, NamesAt, NamesIn, InFile

(* A symbol of the kernel is a line of kallsyms and ends before the next.  *)
LEMMA KernelSymbolIs ==
    ASSUME NEW k \in KernelSymbols(Kallsyms)
    PROVE  \E i \in DOMAIN Kallsyms :
            /\ k.name = i /\ k.start = Kallsyms[i].address
            /\ k.end = IF i = Len(Kallsyms) THEN KERNEL_END
                       ELSE Kallsyms[i + 1].address - 1
            /\ k = [name |-> k.name, start |-> k.start, end |-> k.end]
  BY DEF KernelSymbols

LEMMA Lines ==
    /\ Len(Kallsyms) \in Nat /\ DOMAIN Kallsyms = 1 .. Len(Kallsyms)
    /\ \A i \in DOMAIN Kallsyms : Kallsyms[i].address \in 0 .. KERNEL_END
  <1> DEFINE Line == [address : 0 .. KERNEL_END, text : BOOLEAN]
  <1>1. Kallsyms \in Seq(Line)
    BY KallsymsAssumption
  <1>2. \A l \in Line : l.address \in 0 .. KERNEL_END
    OBVIOUS
  <1> HIDE DEF Line
  <1>3. /\ Len(Kallsyms) \in Nat /\ DOMAIN Kallsyms = 1 .. Len(Kallsyms)
        /\ \A i \in DOMAIN Kallsyms : Kallsyms[i] \in Line
    BY <1>1
  <1> QED BY <1>2, <1>3

(* A symbol covers no address of a later one.                              *)
LEMMA NextStarts ==
    ASSUME NEW k \in KernelSymbols(Kallsyms), NEW n \in KernelSymbols(Kallsyms),
           NEW ip \in Nat, ip <= k.end,
           k.start < n.start \/ k.name < n.name
    PROVE  ip < n.start
  <1>1. PICK i \in DOMAIN Kallsyms :
            /\ k.name = i /\ k.start = Kallsyms[i].address
            /\ k.end = IF i = Len(Kallsyms) THEN KERNEL_END
                       ELSE Kallsyms[i + 1].address - 1
    BY KernelSymbolIs
  <1>2. PICK j \in DOMAIN Kallsyms : n.name = j /\ n.start = Kallsyms[j].address
    BY KernelSymbolIs
  <1>3. i \in Nat /\ j \in Nat /\ i >= 1 /\ j <= Len(Kallsyms) /\ i <= Len(Kallsyms)
    BY Lines
  <1>4. i < j
    <2>1. CASE j < i
      BY <1>1, <1>2, <1>3, <2>1, Lines, KallsymsAssumption, KernelAssumption
    <2>2. CASE i = j
      BY <1>1, <1>2, <1>3, <2>2, Lines, KernelAssumption
    <2> QED BY <1>3, <2>1, <2>2
  <1>5. i + 1 \in DOMAIN Kallsyms /\ i # Len(Kallsyms)
    BY <1>3, <1>4, Lines
  <1>6. Kallsyms[i + 1].address <= Kallsyms[j].address
    <2>1. CASE i + 1 = j
      BY <2>1, <1>5, Lines, KernelAssumption
    <2>2. CASE i + 1 # j
      BY <1>3, <1>4, <1>5, <2>2, KallsymsAssumption
    <2> QED BY <2>1, <2>2
  <1>7. /\ Kallsyms[i + 1].address \in Nat /\ Kallsyms[j].address \in Nat
        /\ ip <= Kallsyms[i + 1].address - 1
    BY <1>1, <1>5, Lines
  <1> QED BY <1>2, <1>6, <1>7

InKernel(ip) == {k \in KernelSymbols(Kallsyms) : ip \in k.start .. k.end}

(* At most one symbol of the kernel covers an address.                     *)
LEMMA OneInKernel ==
    ASSUME NEW ip \in Nat, NEW k \in InKernel(ip)
    PROVE  /\ k \in KernelSymbols(Kallsyms) /\ k.start \in Nat /\ k.start <= ip
           /\ ip <= k.end /\ k.end \in Int /\ k.end <= KERNEL_END /\ k.name # 0
           /\ \A n \in InKernel(ip) : n = k
  <1>0. \A n \in InKernel(ip) : n \in KernelSymbols(Kallsyms) /\ ip \in n.start .. n.end
    BY DEF InKernel
  <1>1. ASSUME NEW n \in InKernel(ip)
        PROVE  \E i \in DOMAIN Kallsyms :
                    /\ n.name = i /\ i \in Nat /\ i # 0 /\ n.start \in Nat
                    /\ n.end \in Int /\ n.end <= KERNEL_END
                    /\ n.start <= ip /\ ip <= n.end
    <2>1. PICK i \in DOMAIN Kallsyms :
            /\ n.name = i /\ n.start = Kallsyms[i].address
            /\ n.end = IF i = Len(Kallsyms) THEN KERNEL_END
                       ELSE Kallsyms[i + 1].address - 1
      BY <1>0, KernelSymbolIs
    <2>2. i \in Nat /\ i # 0 /\ n.start \in Nat
      BY <2>1, Lines
    <2>3. n.end \in Int /\ n.end <= KERNEL_END
      <3>1. CASE i = Len(Kallsyms)
        BY <2>1, <3>1, KernelAssumption
      <3>2. CASE i # Len(Kallsyms)
        <4>1. Kallsyms[i + 1].address \in 0 .. KERNEL_END
          BY <3>2, Lines
        <4> QED BY <2>1, <3>2, <4>1, KernelAssumption
      <3> QED BY <3>1, <3>2
    <2>4. n.start <= ip /\ ip <= n.end
      BY <1>0, <2>2, <2>3
    <2> QED BY <2>1, <2>2, <2>3, <2>4
  <1>2. ASSUME NEW n \in InKernel(ip) PROVE n = k
    <2>1. ~ (k.name < n.name) /\ ~ (n.name < k.name)
      BY <1>0, <1>1, <1>2, NextStarts
    <2>2. k.name = n.name
      BY <1>1, <2>1
    <2> QED BY <1>0, <2>2, KernelSymbolIs
  <1> QED BY <1>0, <1>1, <1>2

(* What is kept of the kernel's symbols for a process covers its addresses *)
(* as the kernel's symbols do, but for a symbol's last address.            *)
LEMMA KernelSymbolsKept ==
    ASSUME NEW all, all \subseteq Nat, NEW ips, ips \subseteq all, NEW ip \in ips,
           NEW syms, syms = KernelMappingSymbols(MatchedKernelSymbols(Kallsyms, all), ips)
    PROVE  /\ Covering(syms, ip) \subseteq InKernel(ip)
           /\ (\A k \in InKernel(ip) : k.end # ip) => Covering(syms, ip) = InKernel(ip)
  <1> DEFINE matched == MatchedKernelSymbols(Kallsyms, all)
  <1>1. matched \subseteq KernelSymbols(Kallsyms) /\ syms \subseteq matched
    BY DEF MatchedKernelSymbols, KernelMappingSymbols
  <1>2. \A s \in KernelSymbols(Kallsyms) : s.start \in Nat /\ s.end \in Int
    <2>1. ASSUME NEW s \in KernelSymbols(Kallsyms) PROVE s.start \in Nat /\ s.end \in Int
      <3>1. PICK i \in DOMAIN Kallsyms :
            /\ s.start = Kallsyms[i].address
            /\ s.end = IF i = Len(Kallsyms) THEN KERNEL_END
                       ELSE Kallsyms[i + 1].address - 1
        BY KernelSymbolIs
      <3>2. i # Len(Kallsyms) => Kallsyms[i + 1].address \in Nat
        BY Lines
      <3> QED BY <3>1, <3>2, Lines, KernelAssumption
    <2> QED BY <2>1
  <1>3. Covering(syms, ip) \subseteq InKernel(ip)
    BY <1>1, <1>2 DEF Covering, InKernel
  <1>4. ASSUME NEW k \in InKernel(ip), k.end # ip PROVE k \in Covering(syms, ip)
    <2>1. /\ k \in KernelSymbols(Kallsyms) /\ k.start \in Nat /\ k.start <= ip
          /\ ip <= k.end /\ k.end \in Int /\ ip \in Nat
      BY OneInKernel
    <2>2. ip < k.end
      BY <1>4, <2>1
    <2>3. k \in matched
      <3> DEFINE above == {x \in all : x > k.start}
      <3>1. k.start \in all \/ (above # {} /\ Min(above) \in Nat /\ Min(above) <= ip)
        BY <2>1, FirstAbove
      <3> HIDE DEF above
      <3>2. k.start \in all \/ (above # {} /\ Min(above) < k.end)
        BY <2>1, <2>2, <3>1
      <3> QED BY <2>1, <3>2 DEF MatchedKernelSymbols, above
    <2>4. ASSUME NEW n \in matched, n.start > k.start, n.start <= ip PROVE FALSE
      BY <1>1, <1>2, <2>1, <2>4, NextStarts
    <2>5. k \in syms
      BY <2>1, <2>2, <2>3, <2>4 DEF KernelMappingSymbols
    <2> QED BY <2>1, <2>5 DEF Covering
  <1> QED BY <1>3, <1>4

(* An address has the name of the symbol that covers it in the mapping     *)
(* that is found.                                                          *)
LEMMA Named ==
    ASSUME NEW maps, NEW ip, NEW time, NEW i, FindIndex(maps, ip, time) = i, i # 0,
           NEW names, NamesAt(maps[i].syms, ip) = names,
           0 \notin names, \A x, y \in names : x = y
    PROVE  {ImportIp(maps, ip, time)} \ {0} = names
  <1> DEFINE covering == Covering(maps[i].syms, ip)
             name == IF i = 0 \/ covering = {} THEN 0
                     ELSE (CHOOSE s \in covering : TRUE).name
  <1>1. ImportIp(maps, ip, time) = name
    BY DEF ImportIp, Covering
  <1>2. names = {s.name : s \in covering}
    BY DEF NamesAt
  <1> HIDE DEF covering
  <1>3. CASE covering = {}
    <2>1. name = 0 /\ names = {}
      BY <1>2, <1>3
    <2> QED BY <1>1, <2>1
  <1>4. CASE covering # {}
    <2>1. (CHOOSE s \in covering : TRUE) \in covering
      BY <1>4
    <2>2. name \in names
      BY <1>2, <1>4, <2>1
    <2> HIDE DEF name
    <2>3. names = {name} /\ name # 0
      BY <2>2
    <2> QED BY <1>1, <2>3
  <1> QED BY <1>3, <1>4

LEMMA Unnamed ==
    ASSUME NEW maps, NEW ip, NEW time, NEW i, FindIndex(maps, ip, time) = i,
           i = 0 \/ Covering(maps[i].syms, ip) = {}
    PROVE  ImportIp(maps, ip, time) = 0
  BY DEF ImportIp, Covering

-----------------------------------------------------------------------------
(* Before the export no mapping has symbols, and all are the user's.       *)

RawMap(m) == m.syms = {} /\ m.file # 0 /\ m.end < KERNEL_START

RawTable(e) ==
    /\ \A i \in DOMAIN e.maps : RawMap(e.maps[i])
    /\ \A i \in DOMAIN e.samples : e.samples[i].ip \in 0 .. KERNEL_END

RawTables == \A p \in DOMAIN procs : RawTable(procs[p])

RawInv ==
    phase = "trace" =>
        /\ RawTables
        /\ \A r \in env.regions : r.page.file # 0 /\ r.hi < KERNEL_START

(* Steps of one process.                                                   *)
LEMMA EntryRaw ==
    ASSUME RawTables, NEW p
    PROVE  RawTable(Entry(p))
  <1>1. CASE p \in DOMAIN procs
    BY <1>1 DEF Entry, RawTables
  <1>2. CASE p \notin DOMAIN procs
    BY <1>2 DEF Entry, NewProcess, RawTable
  <1> QED BY <1>1, <1>2

LEMMA SetRaw ==
    ASSUME RawTables, NEW pid, NEW e, procs' = SetProc(pid, e), RawTable(e)
    PROVE  RawTables'
  <1>1. /\ DOMAIN procs' = DOMAIN procs \cup {pid} /\ procs'[pid] = e
        /\ \A p \in DOMAIN procs \ {pid} : procs'[p] = procs[p]
    BY DEF SetProc
  <1>2. \A p \in DOMAIN procs' : RawTable(procs'[p])
    BY <1>1 DEF RawTables
  <1> QED BY <1>2 DEF RawTables

LEMMA SetSameRaw ==
    ASSUME RawTables, NEW pid, NEW e, procs' = SetProc(pid, e),
           e.maps = Entry(pid).maps, e.samples = Entry(pid).samples
    PROVE  RawTables'
  <1>1. RawTable(e)
    BY EntryRaw DEF RawTable
  <1> QED BY <1>1, SetRaw

LEMMA CommRaw ==
    ASSUME RawTables, SamplesInv, NEW pid,
           procs' = AddCommExec(pid) \/ procs' = AddCommExit(pid)
    PROVE  RawTables'
  <1>0. ProcShape(Entry(pid))
    BY EntryKept
  <1>1. CASE UNCHANGED procs
    BY <1>1 DEF RawTables
  <1>2. CASE procs' = SetProc(pid, [Entry(pid) EXCEPT !.create = clock',
                                        !.root = @ \/ pid \in Openable])
    <2> DEFINE e == [Entry(pid) EXCEPT !.create = clock',
                                       !.root = @ \/ pid \in Openable]
    <2>1. e.maps = Entry(pid).maps /\ e.samples = Entry(pid).samples
      <3>1. ASSUME NEW root
            PROVE  LET x == [Entry(pid) EXCEPT !.create = clock', !.root = root]
                   IN  x.maps = Entry(pid).maps /\ x.samples = Entry(pid).samples
        BY <1>0, RootMaps, Zenon
      <3> QED BY <3>1, Zenon
    <2> HIDE DEF e
    <2> QED BY <1>2, <2>1, SetSameRaw DEF e
  <1>3. CASE procs' = SetProc(pid, [Entry(pid) EXCEPT !.exit = clock'])
    <2> DEFINE e == [Entry(pid) EXCEPT !.exit = clock']
    <2>1. e.maps = Entry(pid).maps /\ e.samples = Entry(pid).samples
      BY <1>0 DEF ProcShape
    <2> HIDE DEF e
    <2> QED BY <1>3, <2>1, SetSameRaw DEF e
  <1> QED BY <1>1, <1>2, <1>3 DEF AddCommExec, AddCommExit

LEMMA SampleRaw ==
    ASSUME RawTables, SamplesInv, NEW pid, NEW x, procs' = AddSample(pid, x),
           x.ip \in 0 .. KERNEL_END
    PROVE  RawTables'
  <1>0. ProcShape(Entry(pid)) /\ IsSeq(Entry(pid).samples)
    BY EntryKept DEF Timed
  <1>1. CASE procs' = SetProc(pid, Entry(pid))
    BY <1>1, SetSameRaw
  <1>2. CASE procs' = SetProc(pid, [Entry(pid) EXCEPT !.samples = Append(@, x)])
    <2> DEFINE s == Append(Entry(pid).samples, x)
               e == [Entry(pid) EXCEPT !.samples = s]
    <2>1. e.maps = Entry(pid).maps /\ e.samples = s
      <3> HIDE DEF s
      <3> QED BY <1>0 DEF ProcShape
    <2>2. procs' = SetProc(pid, e)
      BY <1>2
    <2>3. \A i \in DOMAIN s : s[i] = x \/ (/\ i \in DOMAIN Entry(pid).samples
                                           /\ s[i] = Entry(pid).samples[i])
      BY <1>0, AppendIsSeq
    <2> HIDE DEF e, s
    <2>4. RawTable(e)
      BY <2>1, <2>3, EntryRaw DEF RawTable
    <2> QED BY <2>2, <2>4, SetRaw
  <1> QED BY <1>1, <1>2 DEF AddSample

LEMMA MmapRaw ==
    ASSUME RawTables, SamplesInv, MapsInv, clock \in Nat, NEW pid, NEW lo, NEW hi,
           NEW page, NEW stale, page.file # 0, hi < KERNEL_START,
           AddMmapExec(pid, lo, hi, page, stale)
    PROVE  RawTables'
  <1>0. ProcShape(Entry(pid)) /\ IsSeq(Entry(pid).maps)
    BY EntryKept, EntryTable DEF TableAt, MapList
  <1> DEFINE m == MapOf(lo, hi, page, stale)
             maps == Append(Entry(pid).maps, m)
             e == [Entry(pid) EXCEPT !.maps = maps]
  <1>1. RawMap(m)
    BY DEF MapOf, RawMap
  <1>2. UNCHANGED procs \/ procs' = SetProc(pid, e)
    BY DEF AddMmapExec, AddMapping, MapOf
  <1>3. e.maps = maps /\ e.samples = Entry(pid).samples
    <2> HIDE DEF maps
    <2> QED BY <1>0 DEF ProcShape
  <1> HIDE DEF e, m
  <1>4. \A i \in DOMAIN maps : maps[i] = m \/ (/\ i \in DOMAIN Entry(pid).maps
                                               /\ maps[i] = Entry(pid).maps[i])
    BY <1>0, AppendIsSeq
  <1> HIDE DEF maps
  <1>5. RawTable(e)
    BY <1>1, <1>3, <1>4, EntryRaw DEF RawTable
  <1>6. CASE UNCHANGED procs
    BY <1>6 DEF RawTables
  <1> QED BY <1>2, <1>5, <1>6, SetRaw

LEMMA ForkRaw ==
    ASSUME RawTables, NEW pid, NEW ppid, procs' = ForkExec(pid, ppid)
    PROVE  RawTables'
  <1> DEFINE e == [NewProcess EXCEPT !.root = Entry(ppid).root,
                                     !.maps = Entry(ppid).maps]
  <1>1. /\ procs'[pid] = e
        /\ \A p \in DOMAIN procs' \ {pid} : procs'[p] = Entry(p)
        /\ pid \in DOMAIN procs'
    BY DEF ForkExec
  <1>2. e.maps = Entry(ppid).maps /\ e.samples = << >>
    BY DEF NewProcess
  <1> HIDE DEF e
  <1>3. RawTable(e)
    BY <1>2, EntryRaw DEF RawTable
  <1>4. \A p \in DOMAIN procs' : RawTable(procs'[p])
    BY <1>1, <1>3, EntryRaw
  <1> QED BY <1>4 DEF RawTables

(* Every step keeps it.                                                    *)
LEMMA RawStep ==
    MachineInv /\ MapsInv /\ RawInv /\ [Next]_vars => RawInv'
  <1> SUFFICES ASSUME MachineInv, MapsInv, RawInv, [Next]_vars PROVE RawInv'
    OBVIOUS
  <1>0. ThreadsInv /\ SamplesInv /\ clock \in Nat
    BY DEF MachineInv, ThreadsInv
  <1>1. CASE UNCHANGED vars
    BY <1>1 DEF vars, kernelVars, machineVars, RawInv, RawTables
  <1>2. CASE Export
    BY <1>2 DEF Export, RawInv
  <1>3. CASE EnvStep
    <2>1. /\ phase = "trace" /\ RawTables
          /\ \A r \in env.regions : r.page.file # 0 /\ r.hi < KERNEL_START
      BY <1>3 DEF EnvStep, EnvComm, EnvRead, EnvWrite, Event, RawInv
    <2>2. ASSUME NEW p \in Ids, EnvComm(p) PROVE RawInv'
      <3>1. env' = [env EXCEPT !.comms = @ \cup {p}] /\ procs' = AddCommExec(p)
        BY <2>2 DEF EnvComm
      <3>2. \A r \in env'.regions : r \in env.regions
        BY <3>1
      <3> QED BY <1>0, <2>1, <3>1, <3>2, CommRaw DEF RawInv
    <2>3. ASSUME NEW p \in Ids, EnvRead(p) PROVE RawInv'
      <3>1. PICK q : q = ProcessOf(p).page
        OBVIOUS
      <3> DEFINE regions == Regions(p, q)
      <3>2. /\ UNCHANGED procs
            /\ env' = [env EXCEPT !.read = @ \cup {p}, !.regions = regions]
        BY <2>3, <3>1 DEF EnvRead, machineVars
      <3>3. \A r \in regions : r.page.file # 0 /\ r.hi < KERNEL_START
        <4>1. ASSUME NEW r \in regions PROVE r.page.file # 0 /\ r.hi < KERNEL_START
          <5>1. PICK lo \in UserAddresses, hi \in UserAddresses :
                    /\ r = [pid |-> p, lo |-> lo, hi |-> hi, page |-> q[lo]]
                    /\ OnePart(q, lo, hi)
            BY DEF Regions
          <5>2. q[lo].file # 0 /\ hi < KERNEL_START
            BY <5>1, KernelAssumption DEF OnePart, UserAddresses
          <5> QED BY <5>1, <5>2
        <4> QED BY <4>1
      <3> HIDE DEF regions
      <3>4. env'.regions \subseteq regions \cup env.regions
        BY <3>2
      <3> QED BY <2>1, <3>2, <3>3, <3>4 DEF RawInv, RawTables
    <2>4. ASSUME NEW r \in env.regions, EnvWrite(r) PROVE RawInv'
      <3>1. PICK stale : AddMmapExec(r.pid, r.lo, r.hi, r.page, stale)
        BY <2>4 DEF EnvWrite
      <3>2. env' = [env EXCEPT !.regions = @ \ {r}]
        BY <2>4 DEF EnvWrite
      <3>3. \A x \in env'.regions : x \in env.regions
        BY <3>2
      <3>4. RawTables'
        BY <1>0, <2>1, <3>1, MmapRaw
      <3> QED BY <2>1, <3>3, <3>4 DEF RawInv
    <2> QED BY <1>3, <2>2, <2>3, <2>4 DEF EnvStep
  <1>4. CASE KernelStep
    <2>0. phase = "trace" /\ UNCHANGED env
      BY <1>4, ZenonT(40) DEF KernelStep, Fork, Clone, Exec, MmapNoExec, Mmap, CpuSample,
                  CswitchSample, SwitchOut, SwitchIn, Exit, OutsideSample,
                  OutsideFork, OutsideOther, Event
    <2>1. UNCHANGED env /\ RawTables /\ \A r \in env.regions :
                r.page.file # 0 /\ r.hi < KERNEL_START
      BY <2>0 DEF RawInv
    <2>2. RawTables' => RawInv'
      BY <2>1 DEF RawInv
    <2>3. UNCHANGED procs => RawTables'
      BY <2>1 DEF RawTables
    <2>4. ASSUME NEW t \in Ids, NEW c \in Ids, Fork(t, c) \/ Clone(t, c)
          PROVE  RawTables'
      <3>1. UNCHANGED procs \/ procs' = ForkExec(c, PidOf(t))
        BY <2>4 DEF Fork, Clone, machineVars
      <3>2. PICK p : p = PidOf(t)
        OBVIOUS
      <3> QED BY <2>1, <2>3, <3>1, <3>2, ForkRaw
    <2>5. ASSUME NEW t \in Ids, Exec(t) \/ Exit(t) PROVE RawTables'
      <3>1. procs' = AddCommExec(t) \/ procs' = AddCommExit(PidOf(t))
        BY <2>5 DEF Exec, Exit
      <3>2. PICK p : p = PidOf(t)
        OBVIOUS
      <3> QED BY <1>0, <2>1, <3>1, <3>2, CommRaw
    <2>6. ASSUME NEW t \in Ids, NEW range \in Ranges, MmapNoExec(t, range)
          PROVE  RawTables'
      BY <2>3, <2>6 DEF MmapNoExec, machineVars
    <2>7. ASSUME NEW t \in Ids, NEW range \in Ranges, NEW off \in Offsets,
                 Mmap(t, range, off)
          PROVE  RawTables'
      <3>1. PICK p, page : p = PidOf(t) /\ page = [file |-> clock', off |-> off]
        OBVIOUS
      <3>2. AddMmapExec(p, range[1], range[2], page, FALSE)
        BY <2>7, <3>1 DEF Mmap
      <3>3. page.file # 0 /\ range[2] < KERNEL_START
        BY <1>0, <2>7, <3>1, AddressAssumption DEF Mmap, Event
      <3> QED BY <1>0, <2>1, <3>2, <3>3, MmapRaw
    <2>8. ASSUME NEW t \in Ids, CswitchSample(t) \/ SwitchOut(t) PROVE RawTables'
      BY <2>3, <2>8 DEF CswitchSample, SwitchOut
    <2>9. ASSUME NEW t \in Ids, SwitchIn(t) PROVE RawTables'
      <3>1. CASE ~ RecordWait(t)
        BY <2>3, <2>9, <3>1 DEF SwitchIn
      <3>2. CASE RecordWait(t)
        <4> DEFINE start == Stash(t).start
                   real == /\ start = thread[t].out
                           /\ Stash(t).sample.chain = thread[t].chain
                   x == [Stash(t).sample EXCEPT !.time = start,
                            !.dur = clock' - start, !.real = real]
        <4>1. procs' = AddSample(PidOf(t), x)
          BY <2>9, <3>2 DEF SwitchIn
        <4>2. Stash(t).sample = WaitOf(t, Stash(t).sample.chain)
          BY <1>0, <3>2 DEF ThreadsInv, StashShape, RecordWait
        <4>3. x.ip = KERNEL_START
          BY <4>2 DEF WaitOf
        <4> HIDE DEF x
        <4>4. PICK p, y : p = PidOf(t) /\ y = x
          OBVIOUS
        <4>5. y.ip \in 0 .. KERNEL_END
          BY <4>3, <4>4, AddressAssumption, KernelAssumption
        <4> QED BY <1>0, <2>1, <4>1, <4>4, <4>5, SampleRaw
      <3> QED BY <3>1, <3>2
    <2>10. \A s \in Sampled : s[1] \in 0 .. KERNEL_END
      BY SampledAssumption, AddressAssumption, KernelAssumption
    <2>11. ASSUME NEW t \in Ids, NEW s \in Sampled, CpuSample(t, s[1], s[2])
           PROVE  RawTables'
      <3>1. PICK at : procs' = AddSample(PidOf(t),
                [kind |-> "cpu", time |-> clock', dur |-> 0, tid |-> t, ip |-> s[1],
                 chain |-> clock', real |-> TRUE, at |-> at])
        BY <2>11 DEF CpuSample
      <3> DEFINE x == [kind |-> "cpu", time |-> clock', dur |-> 0, tid |-> t,
                       ip |-> s[1], chain |-> clock', real |-> TRUE, at |-> at]
      <3>2. procs' = AddSample(PidOf(t), x) /\ x.ip = s[1]
        BY <3>1
      <3> HIDE DEF x
      <3>3. PICK p, y : p = PidOf(t) /\ y = x
        OBVIOUS
      <3> QED BY <1>0, <2>1, <2>10, <3>2, <3>3, SampleRaw
    <2>12. ASSUME NEW s \in Sampled, OutsideSample(s[1], s[2]) PROVE RawTables'
      <3> DEFINE x == [kind |-> "cpu", time |-> clock', dur |-> 0, tid |-> 0,
                       ip |-> s[1], chain |-> clock', real |-> TRUE, at |-> NoPage]
      <3>1. procs' = AddSample(0, x) /\ x.ip = s[1]
        BY <2>12 DEF OutsideSample
      <3> HIDE DEF x
      <3>2. PICK y : y = x
        OBVIOUS
      <3> QED BY <1>0, <2>1, <2>10, <3>1, <3>2, SampleRaw
    <2>13. CASE OutsideFork
      BY <2>1, <2>2, <2>13, ForkRaw DEF OutsideFork
    <2>14. CASE OutsideOther
      <3>1. procs' = AddCommExec(0) \/ procs' = AddCommExit(0) \/ UNCHANGED procs
        BY <2>14 DEF OutsideOther, AddMmapExec
      <3> QED BY <1>0, <2>1, <2>2, <2>3, <3>1, CommRaw
    <2> QED BY <1>4, <2>2, <2>4, <2>5, <2>6, <2>7, <2>8, <2>9, <2>11, <2>12,
               <2>13, <2>14 DEF KernelStep
  <1> QED BY <1>1, <1>2, <1>3, <1>4 DEF Next

-----------------------------------------------------------------------------
(* What the export makes of a process.                                     *)

UserIps(e, m) == {ip \in SampledIps(e) \ KernelIps(e) : ContainsIp(m, ip)}

(* A mapping that was reported, with the symbols that its samples need.    *)
UserMapping(m, e) ==
    \E i \in DOMAIN e.maps :
        /\ SameMapping(m, e.maps[i])
        /\ e.root => m.syms = AddMatchingSymbols(e.maps[i], UserIps(e, e.maps[i]),
                                                 FileSymbols).syms

(* The mapping of the kernel, for a process that has addresses in it.      *)
KernelMapping(m, e, all) ==
    /\ m.time = 0 /\ m.start = KERNEL_START /\ m.end = KERNEL_END /\ m.file = 0
    /\ m.syms = KernelMappingSymbols(MatchedKernelSymbols(Kallsyms, all), KernelIps(e))

ExportMaps(maps, e, all) ==
    /\ \A k \in DOMAIN maps : UserMapping(maps[k], e) \/ KernelMapping(maps[k], e, all)
    /\ KernelIps(e) # {} =>
            \E n \in DOMAIN maps :
                /\ KernelMapping(maps[n], e, all)
                /\ \A k \in DOMAIN maps \ {n} : UserMapping(maps[k], e)

Exported(f, e, all) ==
    /\ f.root = e.root
    /\ \A k \in DOMAIN f.samples : \E i \in DOMAIN e.samples : f.samples[k] = e.samples[i]
    /\ ExportMaps(f.maps, e, all)

(* The kernel's mapping comes after the others.                            *)
LEMMA AddedMapping ==
    ASSUME NEW e, ProcShape(e), IsSeq(e.maps), NEW m, NEW a, a = AddMapping(e, m)
    PROVE  /\ ProcShape(a) /\ a.root = e.root /\ a.samples = e.samples
           /\ DOMAIN a.maps = DOMAIN e.maps \cup {Len(e.maps) + 1}
           /\ Len(e.maps) + 1 \notin DOMAIN e.maps /\ a.maps[Len(e.maps) + 1] = m
           /\ \A i \in DOMAIN e.maps : a.maps[i] = e.maps[i]
  <1> DEFINE maps == Append(e.maps, m)
  <1>1. a = [e EXCEPT !.maps = maps]
    BY DEF AddMapping
  <1>2. ProcShape(a) /\ a.root = e.root /\ a.samples = e.samples /\ a.maps = maps
    <2> HIDE DEF maps
    <2> QED BY <1>1 DEF ProcShape
  <1> QED BY <1>2, AppendFacts

(* Symbols are added where there is a file.                                *)
LEMMA ResolvedMaps ==
    ASSUME NEW e, RawTable(e), NEW a, a.root = e.root, a.samples = e.samples, NEW all,
           NEW n,
           \A i \in DOMAIN a.maps \ {n} : i \in DOMAIN e.maps /\ a.maps[i] = e.maps[i],
           n \in DOMAIN a.maps => KernelMapping(a.maps[n], e, all),
           KernelIps(e) # {} => n \in DOMAIN a.maps,
           NEW maps, DOMAIN maps = DOMAIN a.maps,
           \A i \in DOMAIN a.maps :
                maps[i] = IF ~ a.root \/ a.maps[i].file = 0 THEN a.maps[i]
                          ELSE AddMatchingSymbols(a.maps[i], UserIps(a, a.maps[i]),
                                                  FileSymbols),
           \A i \in DOMAIN e.maps : MapShape(e.maps[i])
    PROVE  ExportMaps(maps, e, all)
  <1>1. \A m : UserIps(a, m) = UserIps(e, m)
    BY DEF UserIps, SampledIps, KernelIps
  <1>2. ASSUME NEW i \in DOMAIN maps, i # n PROVE UserMapping(maps[i], e)
    <2>1. /\ i \in DOMAIN e.maps /\ a.maps[i] = e.maps[i] /\ e.maps[i].file # 0
          /\ MapShape(e.maps[i])
      BY <1>2 DEF RawTable, RawMap
    <2>2. CASE e.root
      <3>1. maps[i] = AddMatchingSymbols(e.maps[i], UserIps(e, e.maps[i]), FileSymbols)
        BY <1>1, <2>1, <2>2
      <3>2. SameMapping(maps[i], e.maps[i])
        BY <2>1, <3>1, SymbolsKeep
      <3> QED BY <2>1, <3>1, <3>2, Zenon DEF UserMapping
    <2>3. CASE ~ e.root
      <3>1. maps[i] = e.maps[i]
        BY <2>1, <2>3
      <3>2. SameMapping(maps[i], e.maps[i])
        BY <3>1 DEF SameMapping
      <3> QED BY <2>1, <2>3, <3>2, Zenon DEF UserMapping
    <2> QED BY <2>2, <2>3
  <1>3. ASSUME n \in DOMAIN maps PROVE KernelMapping(maps[n], e, all)
    <2>1. maps[n] = a.maps[n]
      BY <1>3 DEF KernelMapping
    <2> QED BY <1>3, <2>1
  <1> QED BY <1>2, <1>3, Zenon DEF ExportMaps

(* The sort keeps them all.                                                *)
LEMMA SortedMaps ==
    ASSUME NEW maps, Timed(maps), NEW e, NEW all, ExportMaps(maps, e, all)
    PROVE  ExportMaps(SortByTime(maps), e, all)
  <1> DEFINE sorted == SortByTime(maps)
             order == [k \in DOMAIN maps |-> Comes(maps, k)]
  <1>1. /\ DOMAIN sorted = DOMAIN maps
        /\ \A k \in DOMAIN maps : order[k] \in DOMAIN maps /\ sorted[k] = maps[order[k]]
        /\ \A i \in DOMAIN maps : \E k \in DOMAIN maps : order[k] = i
    BY StableSort
  <1>2. \A k, l \in DOMAIN maps : order[k] = order[l] => k = l
    BY ComesExists
  <1> HIDE DEF sorted, order
  <1>3. ASSUME KernelIps(e) # {}
        PROVE  \E n \in DOMAIN sorted :
                /\ KernelMapping(sorted[n], e, all)
                /\ \A k \in DOMAIN sorted \ {n} : UserMapping(sorted[k], e)
    <2>1. PICK i \in DOMAIN maps : /\ KernelMapping(maps[i], e, all)
                                   /\ \A k \in DOMAIN maps \ {i} : UserMapping(maps[k], e)
      BY <1>3 DEF ExportMaps
    <2>2. PICK n \in DOMAIN maps : order[n] = i
      BY <1>1
    <2>3. ASSUME NEW k \in DOMAIN maps, k # n PROVE UserMapping(sorted[k], e)
      <3>1. order[k] \in DOMAIN maps \ {i}
        BY <1>1, <1>2, <2>2, <2>3
      <3> QED BY <1>1, <2>1, <3>1
    <2> QED BY <1>1, <2>1, <2>2, <2>3
  <1>4. \A k \in DOMAIN sorted :
            UserMapping(sorted[k], e) \/ KernelMapping(sorted[k], e, all)
    BY <1>1 DEF ExportMaps
  <1>5. ExportMaps(sorted, e, all)
    BY <1>3, <1>4 DEF ExportMaps
  <1> QED BY <1>5 DEF sorted

AllKernelIps ==
    UNION {KernelIps(procs[q]) : q \in {q \in DOMAIN procs : KernelIps(procs[q]) # {}}}

LEMMA RecordSet ==
    ASSUME NEW r, ProcShape(r), NEW k, NEW l
    PROVE  /\ [r EXCEPT !.samples = k, !.maps = l].root = r.root
           /\ [r EXCEPT !.samples = k, !.maps = l].samples = k
           /\ [r EXCEPT !.samples = k, !.maps = l].maps = l
  <1> DEFINE y == [r EXCEPT !.samples = k]
             x == [y EXCEPT !.maps = l]
  <1>1. y = [root |-> r.root, create |-> r.create, exit |-> r.exit,
             samples |-> k, maps |-> r.maps]
    BY DEF ProcShape
  <1>2. x.root = r.root /\ x.samples = k /\ x.maps = l
    <2> HIDE DEF y
    <2> QED BY <1>1
  <1>3. [r EXCEPT !.samples = k, !.maps = l] = x
    OBVIOUS
  <1> HIDE DEF x
  <1> QED BY <1>2, <1>3

(* What a process has when the kernel's mapping, if any, is added at n.    *)
AddedAt(a, e, n) ==
    /\ ProcShape(a) /\ a.root = e.root /\ a.samples = e.samples
    /\ DOMAIN a.maps \subseteq DOMAIN e.maps \cup {n} /\ IsSeq(a.maps)
    /\ \A i \in DOMAIN a.maps : MapShape(a.maps[i])
    /\ \A i \in DOMAIN a.maps \ {n} : a.maps[i] = e.maps[i]
    /\ n \in DOMAIN a.maps => KernelMapping(a.maps[n], e, AllKernelIps)
    /\ KernelIps(e) # {} => n \in DOMAIN a.maps

(* capture_and_resolve_symbols, of one process.                            *)
LEMMA ExportOne ==
    ASSUME MachineInv, MapsInv, RawTables, Export, NEW p \in DOMAIN procs
    PROVE  DOMAIN procs' = DOMAIN procs /\ Exported(procs'[p], procs[p], AllKernelIps)
  <1> DEFINE added == AddKernelMappings(procs)
             resolved == ResolveElfSymbols(added)
  <1>e. PICK e : e = procs[p]
    OBVIOUS
  <1>1. /\ ProcShape(e) /\ Timed(e.samples) /\ RawTable(e) /\ MapList(e.maps, clock)
    BY <1>e DEF MachineInv, SamplesInv, RawTables, MapsInv, TableAt
  <1>2. DOMAIN added = DOMAIN procs
    BY DEF AddKernelMappings
  <1>3. \/ added[p] = e /\ KernelIps(e) = {}
        \/ \E m : added[p] = AddMapping(e, m) /\ MapShape(m) /\ KernelMapping(m, e, AllKernelIps)
    <2> DEFINE kernel == {q \in DOMAIN procs : KernelIps(procs[q]) # {}}
               M(id, syms) == [time |-> 0, start |-> KERNEL_START, end |-> KERNEL_END,
                    off |-> 0, file |-> 0, stale |-> FALSE, id |-> id, syms |-> syms]
               syms == KernelMappingSymbols(
                            MatchedKernelSymbols(Kallsyms, AllKernelIps), KernelIps(e))
               id == mapIndex + Cardinality({q \in kernel : q < p})
    <2>1. added[p] = IF p \notin kernel THEN e ELSE AddMapping(e, M(id, syms))
      BY <1>e DEF AddKernelMappings, AllKernelIps
    <2>2. ASSUME NEW i, NEW s PROVE /\ MapShape(M(i, s)) /\ M(i, s).syms = s
                                    /\ M(i, s).time = 0 /\ M(i, s).start = KERNEL_START
                                    /\ M(i, s).end = KERNEL_END /\ M(i, s).file = 0
      BY KernelAssumption DEF MapShape
    <2>3. p \in kernel <=> KernelIps(e) # {}
      BY <1>e
    <2> HIDE DEF M, syms, id, added, kernel
    <2>4. KernelMapping(M(id, syms), e, AllKernelIps)
      BY <2>2 DEF KernelMapping, syms
    <2> QED BY <2>1, <2>2, <2>3, <2>4
  <1> HIDE DEF added
  <1>a. PICK a : a = added[p]
    OBVIOUS
  <1>4. \E n : AddedAt(a, e, n)
    <2>1. CASE a = e /\ KernelIps(e) = {}
      <3>1. DOMAIN e.maps = 1 .. Len(e.maps)
        BY <1>1, SeqDomain DEF MapList
      <3>2. 0 \notin DOMAIN e.maps
        BY <3>1
      <3>3. AddedAt(a, e, 0)
        BY <1>1, <2>1, <3>2 DEF MapList, AddedAt
      <3> QED BY <3>3
    <2>2. ASSUME NEW m, a = AddMapping(e, m), MapShape(m), KernelMapping(m, e, AllKernelIps)
          PROVE  \E n : AddedAt(a, e, n)
      <3>1. PICK n : n = Len(e.maps) + 1
        OBVIOUS
      <3>2. /\ ProcShape(a) /\ a.root = e.root /\ a.samples = e.samples
            /\ DOMAIN a.maps = DOMAIN e.maps \cup {n}
            /\ n \notin DOMAIN e.maps /\ a.maps[n] = m
            /\ \A i \in DOMAIN e.maps : a.maps[i] = e.maps[i]
        BY <1>1, <2>2, <3>1, AddedMapping DEF MapList
      <3>3. IsSeq(a.maps)
        <4> DEFINE maps == Append(e.maps, m)
        <4>1. a = [e EXCEPT !.maps = maps]
          BY <2>2 DEF AddMapping
        <4>2. a.maps = maps
          <5> HIDE DEF maps
          <5> QED BY <1>1, <4>1 DEF ProcShape
        <4> QED BY <1>1, <4>2, AppendFacts DEF MapList
      <3>4. \A i \in DOMAIN a.maps : MapShape(a.maps[i])
        BY <1>1, <2>2, <3>2 DEF MapList
      <3>5. AddedAt(a, e, n)
        BY <2>2, <3>2, <3>3, <3>4 DEF AddedAt
      <3> QED BY <3>5
    <2> QED BY <1>3, <1>a, <2>1, <2>2
  <1>b. PICK n : AddedAt(a, e, n)
    BY <1>4
  <1>5. /\ ProcShape(a) /\ a.root = e.root /\ a.samples = e.samples
        /\ DOMAIN a.maps \subseteq DOMAIN e.maps \cup {n} /\ IsSeq(a.maps)
        /\ \A i \in DOMAIN a.maps : MapShape(a.maps[i])
        /\ \A i \in DOMAIN a.maps \ {n} : a.maps[i] = e.maps[i]
        /\ n \in DOMAIN a.maps => KernelMapping(a.maps[n], e, AllKernelIps)
        /\ KernelIps(e) # {} => n \in DOMAIN a.maps
    BY <1>b DEF AddedAt
  <1>r. PICK r : r = resolved[p]
    OBVIOUS
  <1>6. /\ ProcShape(r) /\ r.root = e.root /\ r.samples = e.samples
        /\ DOMAIN r.maps = DOMAIN a.maps /\ IsSeq(r.maps)
        /\ \A i \in DOMAIN a.maps :
                r.maps[i] = IF ~ a.root \/ a.maps[i].file = 0 THEN a.maps[i]
                            ELSE AddMatchingSymbols(a.maps[i], UserIps(a, a.maps[i]),
                                                    FileSymbols)
    <2> DEFINE Res(m) == IF m.file = 0 THEN m
                         ELSE AddMatchingSymbols(m, UserIps(a, m), FileSymbols)
               maps == [i \in DOMAIN a.maps |-> Res(a.maps[i])]
    <2>1. r = IF ~ a.root THEN a ELSE [a EXCEPT !.maps = maps]
      BY <1>2, <1>a, <1>r, Zenon DEF ResolveElfSymbols, UserIps
    <2>2. /\ DOMAIN maps = DOMAIN a.maps /\ \A i \in DOMAIN a.maps : maps[i] = Res(a.maps[i])
          /\ maps = [i \in DOMAIN maps |-> maps[i]]
      <3> HIDE DEF Res
      <3> QED OBVIOUS
    <2> HIDE DEF maps
    <2>3. CASE ~ a.root
      BY <1>5, <2>1, <2>3
    <2>4. CASE a.root
      <3>1. ProcShape(r) /\ r.root = a.root /\ r.samples = a.samples /\ r.maps = maps
        BY <1>5, <2>1, <2>4 DEF ProcShape
      <3>2. IsSeq(maps)
        BY <1>5, <2>2, FunctionIsSeq
      <3> QED BY <1>5, <2>2, <2>4, <3>1, <3>2
    <2> QED BY <2>3, <2>4
  <1>7. \A i \in DOMAIN e.maps : MapShape(e.maps[i])
    BY <1>1 DEF MapList
  <1>8. ExportMaps(r.maps, e, AllKernelIps)
    <2>1. \A i \in DOMAIN a.maps \ {n} : i \in DOMAIN e.maps /\ a.maps[i] = e.maps[i]
      BY <1>5
    <2> QED BY <1>1, <1>5, <1>6, <1>7, <2>1, ResolvedMaps
  <1>9. Timed(r.maps)
    <2>1. ASSUME NEW i \in DOMAIN r.maps PROVE r.maps[i].time \in Nat
      <3>1. MapShape(a.maps[i])
        BY <1>5, <1>6, <2>1
      <3>2. MapShape(r.maps[i])
        BY <1>6, <2>1, <3>1, SymbolsKeep
      <3> QED BY <3>2 DEF MapShape
    <2> QED BY <1>6, <2>1 DEF Timed
  <1> DEFINE samples == SortByTime(r.samples)
             maps == SortByTime(r.maps)
  <1>10. /\ DOMAIN procs' = DOMAIN procs
         /\ procs'[p] = [r EXCEPT !.samples = samples, !.maps = maps]
    BY <1>r DEF Export, added
  <1>11. /\ procs'[p].root = e.root /\ procs'[p].samples = samples
         /\ procs'[p].maps = maps
    <2> HIDE DEF samples, maps
    <2> QED BY <1>6, <1>10, RecordSet
  <1>12. \A k \in DOMAIN samples : \E i \in DOMAIN e.samples : samples[k] = e.samples[i]
    BY <1>1, <1>6, SortKeeps
  <1>13. ExportMaps(maps, e, AllKernelIps)
    BY <1>8, <1>9, SortedMaps
  <1> HIDE DEF samples, maps
  <1> QED BY <1>e, <1>10, <1>11, <1>12, <1>13 DEF Exported

(* Where one mapping alone covers an address no other is found.            *)
LEMMA OnlyFound ==
    ASSUME NEW maps, Bounded(maps), NEW ip, NEW time, NEW n,
           \A j \in DOMAIN maps : ContainsIp(maps[j], ip) => j = n
    PROVE  FindIndex(maps, ip, time) \in {0, n}
  <1> DEFINE among == IF Len(maps) >= MinLookup
                      THEN LookupFind(BuildLookup(maps), ip) ELSE DOMAIN maps
             hits == {j \in among : ContainsIp(maps[j], ip) /\ maps[j].time <= time}
  <1>1. FindIndex(maps, ip, time) =
            IF hits = {} THEN 0
            ELSE CHOOSE k \in hits : \A j \in hits :
                    \/ maps[j].time < maps[k].time
                    \/ maps[j].time = maps[k].time /\ k <= j
    BY DEF FindIndex
  <1>2. among \subseteq DOMAIN maps
    BY LookupInDomain
  <1>3. hits \subseteq {n} /\ \A j \in hits : j \in Nat
    <2> HIDE DEF among
    <2> QED BY <1>2 DEF Bounded
  <1> HIDE DEF hits
  <1>4. CASE hits = {}
    BY <1>1, <1>4
  <1>5. CASE hits # {}
    <2>1. hits = {n} /\ n \in Nat
      BY <1>3, <1>5
    <2>2. \E k \in hits : \A j \in hits :
                    \/ maps[j].time < maps[k].time
                    \/ maps[j].time = maps[k].time /\ k <= j
      BY <2>1
    <2>3. (CHOOSE k \in hits : \A j \in hits :
                    \/ maps[j].time < maps[k].time
                    \/ maps[j].time = maps[k].time /\ k <= j) \in hits
      BY <2>2, Zenon
    <2>4. FindIndex(maps, ip, time) \in hits
      BY <1>1, <1>5, <2>3, Zenon
    <2> QED BY <2>1, <2>4
  <1> QED BY <1>4, <1>5

-----------------------------------------------------------------------------
(* Names.                                                                  *)

(* Symbols that share an offset have one name.                             *)
OneName ==
    \A f, g \in FileSymbols : \A off \in Nat :
        off \in f.start .. f.end /\ off \in g.start .. g.end => f.name = g.name

UserNamed(e, s) ==
    Reported(e, s) /\ e.root =>
        {ImportIp(e.maps, s.ip, s.time)} \ {0} = NamesIn(FileSymbols, s.at.off)

KernelNamed(e, s) ==
    s.ip >= KERNEL_START /\ (\A k \in InKernel(s.ip) : k.end # s.ip) =>
        {ImportIp(e.maps, s.ip, s.time)} \ {0} = {k.name : k \in InKernel(s.ip)}

(* A sample of a mapped file resolves to its symbol.                       *)
LEMMA UserResolves ==
    ASSUME OneName, NEW e, RawTable(e), NEW now, MapList(e.maps, now), NEW f, NEW all,
           Exported(f, e, all), TableAt(f, now), NEW i \in DOMAIN f.samples,
           NEW s, s = f.samples[i]
    PROVE  UserNamed(f, s)
  <1> SUFFICES ASSUME Reported(f, s), f.root
               PROVE  {ImportIp(f.maps, s.ip, s.time)} \ {0} =
                            NamesIn(FileSymbols, s.at.off)
    BY DEF UserNamed
  <1>1. PICK found \in DOMAIN f.maps :
                /\ FindIndex(f.maps, s.ip, s.time) = found /\ found # 0
                /\ s.ip \in UserAddresses /\ ContainsIp(f.maps[found], s.ip)
                /\ f.maps[found].file = s.at.file
                /\ f.maps[found].off + (s.ip - f.maps[found].start) = s.at.off
    BY ReportedFound
  <1>2. s.ip \in Nat /\ s.ip < KERNEL_START
    BY <1>1, KernelAssumption DEF UserAddresses
  <1>3. UserMapping(f.maps[found], e)
    <2>1. ~ KernelMapping(f.maps[found], e, all)
      BY <1>1, <1>2, KernelAssumption DEF KernelMapping, ContainsIp
    <2> QED BY <2>1 DEF Exported, ExportMaps
  <1>4. PICK j \in DOMAIN e.maps :
            /\ SameMapping(f.maps[found], e.maps[j])
            /\ e.root => f.maps[found].syms =
                    AddMatchingSymbols(e.maps[j], UserIps(e, e.maps[j]), FileSymbols).syms
    BY <1>3 DEF UserMapping
  <1> DEFINE m == e.maps[j]
             ips == UserIps(e, m)
  <1>5. MapShape(m) /\ m.syms = {}
    BY DEF MapList, RawTable, RawMap
  <1>6. ContainsIp(m, s.ip) /\ m.off + (s.ip - m.start) = s.at.off
    BY <1>1, <1>4 DEF SameMapping, ContainsIp
  <1>7. /\ f.maps[found].syms = AddMatchingSymbols(m, ips, FileSymbols).syms
    BY <1>4 DEF Exported
  <1>8. ips \subseteq Nat /\ s.ip \in ips
    <2>1. \A x \in SampledIps(e) : x \in Nat
      BY KernelAssumption DEF SampledIps, RawTable
    <2>2. s.ip \in SampledIps(e) /\ s.ip \notin KernelIps(e)
      BY <1>2, KernelAssumption DEF Exported, SampledIps, KernelIps
    <2> HIDE DEF m
    <2> QED BY <1>6, <2>1, <2>2 DEF UserIps
  <1> DEFINE names == NamesIn(FileSymbols, s.at.off)
  <1> HIDE DEF m, ips
  <1>9. NamesAt(f.maps[found].syms, s.ip) = names
    <2>1. \A g \in FileSymbols : g.start \in Nat /\ g.end \in Nat
      BY FileSymbolsAssumption
    <2>2. PICK ip : ip = s.ip
      OBVIOUS
    <2>3. ContainsIp(m, ip) /\ ip \in ips /\ ips \subseteq Nat
      BY <1>6, <1>8, <2>2
    <2>4. NamesAt(AddMatchingSymbols(m, ips, FileSymbols).syms, ip) =
                NamesIn(FileSymbols, m.off + (ip - m.start))
      BY <1>5, <2>1, <2>3, MatchedSymbols
    <2> QED BY <1>6, <1>7, <2>2, <2>4
  <1>10. 0 \notin names /\ \A x, y \in names : x = y
    <2>1. s.at.off \in Nat
      BY <1>2, <1>5, <1>6 DEF MapShape, ContainsIp
    <2> QED BY <2>1, FileSymbolsAssumption DEF NamesIn, InFile, OneName
  <1> HIDE DEF names
  <1>11. {ImportIp(f.maps, s.ip, s.time)} \ {0} = names
    <2>1. PICK maps, ip, time : maps = f.maps /\ ip = s.ip /\ time = s.time
      OBVIOUS
    <2> QED BY <1>1, <1>9, <1>10, <2>1, Named
  <1> QED BY <1>11 DEF names

(* A sample of the kernel resolves to its symbol.                          *)
LEMMA KernelResolves ==
    ASSUME NEW e, RawTable(e), NEW f, NEW all, all \subseteq Nat,
           KernelIps(e) # {} => KernelIps(e) \subseteq all,
           Exported(f, e, all), NEW now, MapList(f.maps, now), Timed(f.samples),
           NEW i \in DOMAIN f.samples, NEW s, s = f.samples[i]
    PROVE  KernelNamed(f, s)
  <1> SUFFICES ASSUME s.ip >= KERNEL_START, \A k \in InKernel(s.ip) : k.end # s.ip
               PROVE  {ImportIp(f.maps, s.ip, s.time)} \ {0} =
                            {k.name : k \in InKernel(s.ip)}
    BY DEF KernelNamed
  <1>1. PICK maps, ip, time : maps = f.maps /\ ip = s.ip /\ time = s.time
    OBVIOUS
  <1>2. /\ ip \in 0 .. KERNEL_END /\ ip \in KernelIps(e)
        /\ time \in Nat
    <2>1. PICK j \in DOMAIN e.samples : s = e.samples[j]
      BY DEF Exported
    <2> QED BY <1>1, <2>1 DEF RawTable, KernelIps, SampledIps, Timed
  <1>3. ip \in Nat /\ ip <= KERNEL_END /\ ip >= KERNEL_START
    BY <1>1, <1>2, KernelAssumption
  <1>4. PICK n \in DOMAIN maps : /\ KernelMapping(maps[n], e, all)
                                 /\ \A k \in DOMAIN maps \ {n} : UserMapping(maps[k], e)
    BY <1>1, <1>2 DEF Exported, ExportMaps
  <1>5. \A k \in DOMAIN maps : /\ maps[k].time \in Nat /\ maps[k].start \in Nat
                               /\ maps[k].end \in Nat /\ k \in Nat /\ k # 0
    <2>1. DOMAIN maps = 1 .. Len(maps) /\ Len(maps) \in Nat
      BY <1>1, SeqDomain DEF MapList
    <2>2. \A k \in DOMAIN maps : k \in Nat /\ k # 0
      BY <2>1
    <2>3. \A k \in DOMAIN maps : MapShape(maps[k])
      BY <1>1 DEF MapList
    <2> QED BY <2>2, <2>3 DEF MapShape
  <1>6. Bounded(maps)
    BY <1>5 DEF Bounded
  <1>7. \A k \in DOMAIN maps \ {n} : maps[k].end < KERNEL_START
    BY <1>4 DEF UserMapping, RawTable, RawMap, SameMapping
  <1>8. \A k \in DOMAIN maps \ {n} : ~ ContainsIp(maps[k], ip) /\ maps[k].end # ip
    BY <1>3, <1>5, <1>7, KernelAssumption DEF ContainsIp
  <1> DEFINE names == {k.name : k \in InKernel(ip)}
  <1>9. /\ Covering(maps[n].syms, ip) \subseteq InKernel(ip)
        /\ Covering(maps[n].syms, ip) = InKernel(ip)
    <2>1. maps[n].syms = KernelMappingSymbols(MatchedKernelSymbols(Kallsyms, all),
                                              KernelIps(e))
      BY <1>4 DEF KernelMapping
    <2>2. PICK ips, syms : ips = KernelIps(e) /\ syms = maps[n].syms
      OBVIOUS
    <2>3. ips \subseteq all /\ ip \in ips /\ \A k \in InKernel(ip) : k.end # ip
      BY <1>1, <1>2, <2>2
    <2>4. syms = KernelMappingSymbols(MatchedKernelSymbols(Kallsyms, all), ips)
      BY <2>1, <2>2
    <2> QED BY <2>2, <2>3, <2>4, KernelSymbolsKept
  <1>10. 0 \notin names /\ \A x, y \in names : x = y
    BY <1>3, OneInKernel
  <1>11. CASE ip # KERNEL_END
    <2>1. maps[n].end # ip /\ ContainsIp(maps[n], ip) /\ maps[n].time <= time
      BY <1>2, <1>3, <1>4, <1>11 DEF KernelMapping, ContainsIp
    <2>2. Latest(maps, n, ip, time)
      BY <1>8, <2>1 DEF Latest
    <2>3. FindIndex(maps, ip, time) = n
      BY <1>3, <1>5, <1>6, <1>8, <2>1, <2>2, LatestIsFound
    <2>4. NamesAt(maps[n].syms, ip) = names
      BY <1>9 DEF NamesAt
    <2> HIDE DEF names
    <2>5. {ImportIp(maps, ip, time)} \ {0} = names
      BY <1>5, <1>10, <2>3, <2>4, Named
    <2> QED BY <1>1, <2>5 DEF names
  <1>12. CASE ip = KERNEL_END
    <2>1. InKernel(ip) = {}
      <3>1. ASSUME NEW k \in InKernel(ip) PROVE FALSE
        BY <1>1, <1>3, <1>12, <3>1, OneInKernel, KernelAssumption
      <3> QED BY <3>1
    <2>2. PICK j : j = FindIndex(maps, ip, time)
      OBVIOUS
    <2>3. j \in {0, n}
      BY <1>6, <1>8, <2>2, OnlyFound
    <2>4. j = 0 \/ Covering(maps[j].syms, ip) = {}
      BY <1>9, <2>1, <2>3
    <2>5. ImportIp(maps, ip, time) = 0
      BY <2>2, <2>4, Unnamed
    <2> QED BY <1>1, <2>1, <2>5
  <1> QED BY <1>11, <1>12

LEMMA InitRaw == Init => RawInv
  BY DEF Init, RawInv, RawTables

(* Before the export no mapping has a symbol, each is of a file and ends   *)
(* below the kernel's addresses.                                           *)
THEOREM RawInvariant == Spec => []RawInv
  <1>1. MachineInv /\ PagesInv /\ RawInv /\ [Next]_vars => RawInv'
    BY RawStep DEF PagesInv
  <1> QED BY <1>1, InitRaw, MachineInvariant, PagesInvariant, PTL DEF Spec

(* What the export leaves of a sample.                                     *)
LEMMA ExportResolves ==
    ASSUME OneName, MachineInv, MachineInv', PagesInv, PagesInv', RawInv, Export,
           NEW p \in DOMAIN procs', NEW f, f = procs'[p],
           NEW i \in DOMAIN f.samples, NEW s, s = f.samples[i]
    PROVE  UserNamed(f, s) /\ KernelNamed(f, s)
  <1>1. RawTables /\ MapsInv /\ MapsInv'
    BY DEF Export, RawInv, PagesInv
  <1>2. DOMAIN procs' = DOMAIN procs /\ \A q \in DOMAIN procs :
            Exported(procs'[q], procs[q], AllKernelIps)
    <2>1. DOMAIN procs' = DOMAIN procs
      BY DEF Export
    <2>2. ASSUME NEW q \in DOMAIN procs
          PROVE  Exported(procs'[q], procs[q], AllKernelIps)
      BY <1>1, ExportOne
    <2> QED BY <2>1, <2>2
  <1>3. PICK e, all : e = procs[p] /\ all = AllKernelIps
    OBVIOUS
  <1>4. RawTable(e) /\ MapList(e.maps, clock) /\ Exported(f, e, all)
    BY <1>1, <1>2, <1>3 DEF RawTables, MapsInv, TableAt
  <1>5. PICK now : now = clock'
    OBVIOUS
  <1>6. TableAt(f, now) /\ MapList(f.maps, now) /\ Timed(f.samples)
    BY <1>1, <1>5 DEF MapsInv, TableAt, MachineInv, SamplesInv
  <1>8. all \subseteq Nat /\ (KernelIps(e) # {} => KernelIps(e) \subseteq all)
    <2>1. \A q \in DOMAIN procs : \A x \in KernelIps(procs[q]) : x \in Nat
      BY <1>1, KernelAssumption DEF RawTables, RawTable, KernelIps, SampledIps
    <2> QED BY <1>2, <1>3, <2>1 DEF AllKernelIps
  <1>7. MapList(e.maps, now)
    BY <1>4, <1>5 DEF Export
  <1>9. UserNamed(f, s)
    BY <1>4, <1>6, <1>7, UserResolves
  <1>10. KernelNamed(f, s)
    BY <1>4, <1>6, <1>8, KernelResolves
  <1> QED BY <1>9, <1>10

(* Only the export ends the trace.                                         *)
LEMMA SymbolsStep ==
    ASSUME OneName
    PROVE  /\ MachineInv /\ MachineInv' /\ PagesInv /\ PagesInv' /\ RawInv
           /\ SymbolsResolve /\ [Next]_vars
           => SymbolsResolve'
  <1> SUFFICES ASSUME MachineInv, MachineInv', PagesInv, PagesInv', RawInv,
                      SymbolsResolve, [Next]_vars
               PROVE  SymbolsResolve'
    OBVIOUS
  <1>1. CASE UNCHANGED vars
    BY <1>1 DEF vars, machineVars, SymbolsResolve
  <1>2. CASE KernelStep \/ EnvStep
    <2>1. phase' # "done"
      BY <1>2, ZenonT(40) DEF KernelStep, EnvStep, EnvComm, EnvRead, EnvWrite, Fork, Clone,
                  Exec, MmapNoExec, Mmap, CpuSample, CswitchSample, SwitchOut,
                  SwitchIn, Exit, OutsideSample, OutsideFork, OutsideOther, Event
    <2> QED BY <2>1 DEF SymbolsResolve
  <1>3. CASE Export
    <2>1. ASSUME NEW p \in DOMAIN procs', NEW i \in DOMAIN procs'[p].samples
          PROVE  LET e == procs'[p]
                     s == e.samples[i]
                     name == ImportIp(e.maps, s.ip, s.time)
                     inFile == {f \in FileSymbols : s.at.off \in f.start .. f.end}
                     inKernel == {k \in KernelSymbols(Kallsyms) :
                                      s.ip \in k.start .. k.end}
                 IN  /\ Reported(e, s) /\ e.root =>
                            {name} \ {0} = {f.name : f \in inFile}
                     /\ s.ip >= KERNEL_START /\ (\A k \in inKernel : k.end # s.ip) =>
                            {name} \ {0} = {k.name : k \in inKernel}
      <3>1. PICK e, s : e = procs'[p] /\ s = e.samples[i]
        OBVIOUS
      <3>2. i \in DOMAIN e.samples
        BY <3>1
      <3>3. UserNamed(e, s) /\ KernelNamed(e, s)
        BY <1>3, <3>1, <3>2, ExportResolves
      <3> QED BY <3>1, <3>3, Zenon DEF UserNamed, KernelNamed, NamesIn, InFile, InKernel
    <2> QED BY <2>1, Zenon DEF SymbolsResolve
  <1> QED BY <1>1, <1>2, <1>3 DEF Next

(* After the export the address of every sample resolves to the name of    *)
(* its file's symbol, or of the kernel's, that covers it, and to none when *)
(* none does: what symbol matching drops and the lookup passes over is     *)
(* never needed.  Symbols of one file that share an offset have one name:  *)
(* of two aliases only one can be the answer.                              *)
THEOREM SymbolsAlwaysResolve ==
    ASSUME OneName
    PROVE  Spec => []SymbolsResolve
  <1>1. Init => SymbolsResolve
    BY DEF Init, SymbolsResolve
  <1>2. /\ MachineInv /\ MachineInv' /\ PagesInv /\ PagesInv' /\ RawInv
        /\ SymbolsResolve /\ [Next]_vars
        => SymbolsResolve'
    BY SymbolsStep
  <1> QED BY <1>1, <1>2, RawInvariant, MachineInvariant, PagesInvariant, PTL DEF Spec

-----------------------------------------------------------------------------
(* No time that the exporter keeps is later than the clock.                *)

TimesAt(e, now) ==
    /\ e.create \in Nat /\ e.create <= now /\ e.exit \in Nat /\ e.exit <= now
    /\ \A i \in DOMAIN e.samples : e.samples[i].time \in Nat /\ e.samples[i].time <= now

TableTimes ==
    IsFiniteSet(DOMAIN procs) /\ \A p \in DOMAIN procs : TimesAt(procs[p], clock)

TimesInv == TableTimes /\ \A t \in Ids : Stash(t).start <= clock

(* Steps of one process.                                                   *)
LEMMA TimesLater ==
    ASSUME NEW e, NEW now \in Nat, NEW later \in Nat, now <= later, TimesAt(e, now)
    PROVE  TimesAt(e, later)
  BY DEF TimesAt

LEMMA EntryTimes ==
    ASSUME TableTimes, Clocked, NEW p
    PROVE  TimesAt(Entry(p), clock) /\ TimesAt(Entry(p), clock')
  <1>1. CASE p \in DOMAIN procs
    BY <1>1, TimesLater DEF Entry, TableTimes, Clocked
  <1>2. CASE p \notin DOMAIN procs
    <2>1. /\ Entry(p).create = 0 /\ Entry(p).exit = 0
          /\ Entry(p).samples = << >>
      BY <1>2 DEF Entry, NewProcess
    <2> QED BY <2>1 DEF TimesAt, Clocked
  <1> QED BY <1>1, <1>2

LEMMA KeptTimes ==
    ASSUME TableTimes, Clocked, UNCHANGED procs
    PROVE  TableTimes'
  BY TimesLater DEF TableTimes, Clocked

LEMMA SetTimes ==
    ASSUME TableTimes, Clocked, NEW pid, NEW e, procs' = SetProc(pid, e),
           TimesAt(e, clock')
    PROVE  TableTimes'
  <1>1. /\ DOMAIN procs' = DOMAIN procs \cup {pid} /\ procs'[pid] = e
        /\ \A p \in DOMAIN procs \ {pid} : procs'[p] = procs[p]
    BY DEF SetProc
  <1>2. ASSUME NEW p \in DOMAIN procs' PROVE TimesAt(procs'[p], clock')
    BY <1>1, TimesLater DEF TableTimes, Clocked
  <1>3. IsFiniteSet(DOMAIN procs')
    BY <1>1, FS_AddElement DEF TableTimes
  <1> QED BY <1>2, <1>3 DEF TableTimes

LEMMA CommFields ==
    ASSUME NEW r, ProcShape(r), NEW c, NEW root
    PROVE  /\ [r EXCEPT !.create = c, !.root = root].create = c
           /\ [r EXCEPT !.create = c, !.root = root].exit = r.exit
           /\ [r EXCEPT !.create = c, !.root = root].samples = r.samples
  <1> DEFINE y == [r EXCEPT !.create = c]
             x == [y EXCEPT !.root = root]
  <1>1. y = [root |-> r.root, create |-> c, exit |-> r.exit,
             samples |-> r.samples, maps |-> r.maps]
    BY DEF ProcShape
  <1>2. x.create = c /\ x.exit = r.exit /\ x.samples = r.samples
    <2> HIDE DEF y
    <2> QED BY <1>1
  <1>3. [r EXCEPT !.create = c, !.root = root] = x
    OBVIOUS
  <1> HIDE DEF x
  <1> QED BY <1>2, <1>3

LEMMA CommTimes ==
    ASSUME TableTimes, Clocked, SamplesInv, NEW pid,
           procs' = AddCommExec(pid) \/ procs' = AddCommExit(pid)
    PROVE  TableTimes'
  <1>0. ProcShape(Entry(pid)) /\ TimesAt(Entry(pid), clock')
    BY EntryKept, EntryTimes
  <1>1. CASE UNCHANGED procs
    BY <1>1, KeptTimes
  <1>2. CASE procs' = SetProc(pid, [Entry(pid) EXCEPT !.create = clock',
                                        !.root = @ \/ pid \in Openable])
    <2> DEFINE e == [Entry(pid) EXCEPT !.create = clock',
                                       !.root = @ \/ pid \in Openable]
    <2>1. e.create = clock' /\ e.exit = Entry(pid).exit /\ e.samples = Entry(pid).samples
      <3>1. ASSUME NEW root
            PROVE  /\ [Entry(pid) EXCEPT !.create = clock', !.root = root].create = clock'
                   /\ [Entry(pid) EXCEPT !.create = clock', !.root = root].exit
                        = Entry(pid).exit
                   /\ [Entry(pid) EXCEPT !.create = clock', !.root = root].samples
                        = Entry(pid).samples
        <4>1. PICK r, c : r = Entry(pid) /\ c = clock'
          OBVIOUS
        <4>2. ProcShape(r)
          BY <1>0, <4>1
        <4>3. /\ [r EXCEPT !.create = c, !.root = root].create = c
              /\ [r EXCEPT !.create = c, !.root = root].exit = r.exit
              /\ [r EXCEPT !.create = c, !.root = root].samples = r.samples
          BY <4>2, CommFields
        <4> QED BY <4>1, <4>3
      <3> QED BY <3>1, Zenon
    <2> HIDE DEF e
    <2>2. TimesAt(e, clock')
      BY <1>0, <2>1 DEF TimesAt, Clocked
    <2> QED BY <1>2, <2>2, SetTimes DEF e
  <1>3. CASE procs' = SetProc(pid, [Entry(pid) EXCEPT !.exit = clock'])
    <2> DEFINE e == [Entry(pid) EXCEPT !.exit = clock']
    <2>1. e.create = Entry(pid).create /\ e.exit = clock' /\ e.samples = Entry(pid).samples
      BY <1>0 DEF ProcShape
    <2> HIDE DEF e
    <2>2. TimesAt(e, clock')
      BY <1>0, <2>1 DEF TimesAt, Clocked
    <2> QED BY <1>3, <2>2, SetTimes DEF e
  <1> QED BY <1>1, <1>2, <1>3 DEF AddCommExec, AddCommExit

LEMMA SampleTimes ==
    ASSUME TableTimes, Clocked, SamplesInv, NEW pid, NEW x, procs' = AddSample(pid, x),
           x.time \in Nat, x.time <= clock'
    PROVE  TableTimes'
  <1>0. /\ ProcShape(Entry(pid)) /\ IsSeq(Entry(pid).samples)
        /\ TimesAt(Entry(pid), clock')
    BY EntryKept, EntryTimes DEF Timed
  <1>1. CASE procs' = SetProc(pid, Entry(pid))
    BY <1>0, <1>1, SetTimes
  <1>2. CASE procs' = SetProc(pid, [Entry(pid) EXCEPT !.samples = Append(@, x)])
    <2> DEFINE s == Append(Entry(pid).samples, x)
               e == [Entry(pid) EXCEPT !.samples = s]
    <2>1. e.create = Entry(pid).create /\ e.exit = Entry(pid).exit /\ e.samples = s
      <3> HIDE DEF s
      <3> QED BY <1>0 DEF ProcShape
    <2>2. procs' = SetProc(pid, e)
      BY <1>2
    <2>3. \A i \in DOMAIN s : s[i] = x \/ (/\ i \in DOMAIN Entry(pid).samples
                                           /\ s[i] = Entry(pid).samples[i])
      BY <1>0, AppendIsSeq
    <2> HIDE DEF e, s
    <2>4. TimesAt(e, clock')
      BY <1>0, <2>1, <2>3 DEF TimesAt
    <2> QED BY <2>2, <2>4, SetTimes
  <1> QED BY <1>1, <1>2 DEF AddSample

LEMMA MmapTimes ==
    ASSUME TableTimes, Clocked, SamplesInv, NEW pid, NEW lo, NEW hi, NEW page, NEW stale,
           AddMmapExec(pid, lo, hi, page, stale)
    PROVE  TableTimes'
  <1>0. ProcShape(Entry(pid)) /\ TimesAt(Entry(pid), clock')
    BY EntryKept, EntryTimes
  <1> DEFINE maps == Append(Entry(pid).maps, MapOf(lo, hi, page, stale))
             e == [Entry(pid) EXCEPT !.maps = maps]
  <1>1. UNCHANGED procs \/ procs' = SetProc(pid, e)
    BY DEF AddMmapExec, AddMapping, MapOf
  <1>2. e.create = Entry(pid).create /\ e.exit = Entry(pid).exit
        /\ e.samples = Entry(pid).samples
    <2> HIDE DEF maps
    <2> QED BY <1>0 DEF ProcShape
  <1> HIDE DEF e
  <1>3. TimesAt(e, clock')
    BY <1>0, <1>2 DEF TimesAt
  <1> QED BY <1>1, <1>3, KeptTimes, SetTimes

LEMMA ForkTimes ==
    ASSUME TableTimes, Clocked, NEW pid, NEW ppid, procs' = ForkExec(pid, ppid)
    PROVE  TableTimes'
  <1> DEFINE e == [NewProcess EXCEPT !.root = Entry(ppid).root,
                                     !.maps = Entry(ppid).maps]
  <1>1. /\ procs'[pid] = e
        /\ \A p \in DOMAIN procs' \ {pid} : procs'[p] = Entry(p)
        /\ DOMAIN procs' = (DOMAIN procs \cup {pid}) \cup {ppid}
    BY DEF ForkExec
  <1>2. e.create = 0 /\ e.exit = 0 /\ e.samples = << >>
    BY DEF NewProcess
  <1> HIDE DEF e
  <1>3. TimesAt(e, clock')
    BY <1>2 DEF TimesAt, Clocked
  <1>4. \A p \in DOMAIN procs' : TimesAt(procs'[p], clock')
    BY <1>1, <1>3, EntryTimes
  <1>5. IsFiniteSet(DOMAIN procs')
    <2>1. IsFiniteSet(DOMAIN procs \cup {pid})
      BY FS_AddElement DEF TableTimes
    <2>2. IsFiniteSet((DOMAIN procs \cup {pid}) \cup {ppid})
      BY <2>1, FS_AddElement
    <2> QED BY <1>1, <2>2
  <1> QED BY <1>4, <1>5 DEF TableTimes
LEMMA SwitchTimes ==
    ASSUME TimesInv, Clocked, SamplesInv, ThreadsInv, NEW t \in Ids, SwitchIn(t)
    PROVE  TableTimes'
  <1>1. CASE ~ RecordWait(t)
    BY <1>1, KeptTimes DEF SwitchIn, TimesInv
  <1>2. CASE RecordWait(t)
    <2> DEFINE start == Stash(t).start
               real == /\ start = thread[t].out
                       /\ Stash(t).sample.chain = thread[t].chain
               x == [Stash(t).sample EXCEPT !.time = start,
                        !.dur = clock' - start, !.real = real]
    <2>1. procs' = AddSample(PidOf(t), x)
      BY <1>2 DEF SwitchIn
    <2>2. Stash(t).sample = WaitOf(t, Stash(t).sample.chain) /\ start \in Nat
      BY <1>2 DEF ThreadsInv, StashShape, RecordWait
    <2>3. x.time = start
      <3> HIDE DEF start, real
      <3> QED BY <2>2 DEF WaitOf
    <2>4. start <= clock'
      BY <2>2 DEF TimesInv, Clocked
    <2> HIDE DEF x
    <2>5. PICK p, y : p = PidOf(t) /\ y = x
      OBVIOUS
    <2>6. y.time \in Nat /\ y.time <= clock'
      BY <2>2, <2>3, <2>4, <2>5
    <2> QED BY <2>1, <2>5, <2>6, SampleTimes DEF TimesInv
  <1> QED BY <1>1, <1>2

(* A step of the kernel or of the environment thread.                      *)
LEMMA TablesTimed ==
    ASSUME TimesInv, SamplesInv, ThreadsInv, KernelStep \/ EnvStep
    PROVE  TableTimes' /\ Clocked
  <1>0. TableTimes /\ \A s \in Sampled : s[2] \in Nat
    BY SampledAssumption DEF TimesInv
  <1>1. Clocked
    <2>1. clock \in Nat /\ clock + 1 \in Nat /\ clock <= clock + 1
      BY DEF ThreadsInv
    <2>2. Event(1) => Clocked
      BY <2>1, EventClock
    <2>3. \A s \in Sampled : Event(s[2]) => Clocked
      BY <1>0, <2>1, EventClock
    <2>4. UNCHANGED clock => Clocked
      BY <2>1 DEF Clocked
    <2>5. EnvStep => Event(1) \/ UNCHANGED clock
      BY DEF EnvStep, EnvComm, EnvRead, EnvWrite
    <2>6. KernelStep => Event(1) \/ \E s \in Sampled : Event(s[2])
      <3>1. \A t, c \in Ids : Fork(t, c) \/ Clone(t, c) => Event(1)
        BY DEF Fork, Clone
      <3>2. \A t \in Ids : Exec(t) \/ CswitchSample(t) \/ SwitchOut(t) \/ SwitchIn(t)
                            \/ Exit(t) => Event(1)
        BY DEF Exec, CswitchSample, SwitchOut, SwitchIn, Exit
      <3>3. \A t \in Ids, range \in Ranges : MmapNoExec(t, range) => Event(1)
        BY DEF MmapNoExec
      <3>4. \A t \in Ids, range \in Ranges, off \in Offsets : Mmap(t, range, off) => Event(1)
        BY DEF Mmap
      <3>5. \A t \in Ids, s \in Sampled : CpuSample(t, s[1], s[2]) => Event(s[2])
        BY DEF CpuSample
      <3>6. \A s \in Sampled : OutsideSample(s[1], s[2]) => Event(s[2])
        BY DEF OutsideSample
      <3>7. OutsideFork \/ OutsideOther => Event(1)
        BY DEF OutsideFork, OutsideOther
      <3> QED BY <3>1, <3>2, <3>3, <3>4, <3>5, <3>6, <3>7 DEF KernelStep
    <2> QED BY <2>2, <2>3, <2>4, <2>5, <2>6
  <1>2. UNCHANGED procs => TableTimes'
    BY <1>0, <1>1, KeptTimes
  <1>3. ASSUME EnvStep PROVE TableTimes'
    <2>1. ASSUME NEW p \in Ids, EnvComm(p) PROVE TableTimes'
      BY <1>0, <1>1, <2>1, CommTimes DEF EnvComm
    <2>2. ASSUME NEW p \in Ids, EnvRead(p) PROVE TableTimes'
      BY <1>2, <2>2 DEF EnvRead, machineVars
    <2>3. ASSUME NEW r \in env.regions, EnvWrite(r) PROVE TableTimes'
      <3>1. PICK pid, lo, hi, page, stale : AddMmapExec(pid, lo, hi, page, stale)
        BY <2>3 DEF EnvWrite
      <3> QED BY <1>0, <1>1, <3>1, MmapTimes
    <2> QED BY <1>3, <2>1, <2>2, <2>3 DEF EnvStep
  <1>4. ASSUME KernelStep PROVE TableTimes'
    <2>1. ASSUME NEW t \in Ids, NEW c \in Ids, Fork(t, c) \/ Clone(t, c)
          PROVE  TableTimes'
      <3>1. UNCHANGED procs \/ procs' = ForkExec(c, PidOf(t))
        BY <2>1 DEF Fork, Clone, machineVars
      <3>2. PICK p : p = PidOf(t)
        OBVIOUS
      <3> QED BY <1>0, <1>1, <1>2, <3>1, <3>2, ForkTimes
    <2>2. ASSUME NEW t \in Ids, Exec(t) \/ Exit(t) PROVE TableTimes'
      <3>1. procs' = AddCommExec(t) \/ procs' = AddCommExit(PidOf(t))
        BY <2>2 DEF Exec, Exit
      <3>2. PICK p : p = PidOf(t)
        OBVIOUS
      <3> QED BY <1>0, <1>1, <3>1, <3>2, CommTimes
    <2>3. ASSUME NEW t \in Ids, NEW range \in Ranges, MmapNoExec(t, range)
          PROVE  TableTimes'
      BY <1>2, <2>3 DEF MmapNoExec, machineVars
    <2>4. ASSUME NEW t \in Ids, NEW range \in Ranges, NEW off \in Offsets,
                 Mmap(t, range, off)
          PROVE  TableTimes'
      <3>1. PICK pid, lo, hi, page, stale : AddMmapExec(pid, lo, hi, page, stale)
        BY <2>4 DEF Mmap
      <3> QED BY <1>0, <1>1, <3>1, MmapTimes
    <2>5. ASSUME NEW t \in Ids, CswitchSample(t) \/ SwitchOut(t) PROVE TableTimes'
      BY <1>2, <2>5 DEF CswitchSample, SwitchOut
    <2>6. ASSUME NEW t \in Ids, SwitchIn(t) PROVE TableTimes'
      BY <1>1, <2>6, SwitchTimes
    <2>7. ASSUME NEW t \in Ids, NEW s \in Sampled, CpuSample(t, s[1], s[2])
          PROVE  TableTimes'
      <3>1. PICK at : procs' = AddSample(PidOf(t),
                [kind |-> "cpu", time |-> clock', dur |-> 0, tid |-> t, ip |-> s[1],
                 chain |-> clock', real |-> TRUE, at |-> at])
        BY <2>7 DEF CpuSample
      <3> DEFINE x == [kind |-> "cpu", time |-> clock', dur |-> 0, tid |-> t,
                       ip |-> s[1], chain |-> clock', real |-> TRUE, at |-> at]
      <3>2. procs' = AddSample(PidOf(t), x) /\ x.time = clock'
        BY <3>1
      <3> HIDE DEF x
      <3>3. PICK p, y : p = PidOf(t) /\ y = x
        OBVIOUS
      <3>4. y.time \in Nat /\ y.time <= clock'
        BY <1>1, <3>2, <3>3 DEF Clocked
      <3> QED BY <1>0, <1>1, <3>2, <3>3, <3>4, SampleTimes
    <2>8. ASSUME NEW s \in Sampled, OutsideSample(s[1], s[2]) PROVE TableTimes'
      <3> DEFINE x == [kind |-> "cpu", time |-> clock', dur |-> 0, tid |-> 0,
                       ip |-> s[1], chain |-> clock', real |-> TRUE, at |-> NoPage]
      <3>1. procs' = AddSample(0, x) /\ x.time = clock'
        BY <2>8 DEF OutsideSample
      <3> HIDE DEF x
      <3>2. PICK y : y = x
        OBVIOUS
      <3>3. y.time \in Nat /\ y.time <= clock'
        BY <1>1, <3>1, <3>2 DEF Clocked
      <3> QED BY <1>0, <1>1, <3>1, <3>2, <3>3, SampleTimes
    <2>9. CASE OutsideFork
      BY <1>0, <1>1, <2>9, ForkTimes DEF OutsideFork
    <2>10. CASE OutsideOther
      <3>1. procs' = AddCommExec(0) \/ procs' = AddCommExit(0) \/ UNCHANGED procs
        BY <2>10 DEF OutsideOther, AddMmapExec
      <3> QED BY <1>0, <1>1, <1>2, <3>1, CommTimes
    <2> QED BY <1>4, <2>1, <2>2, <2>3, <2>4, <2>5, <2>6, <2>7, <2>8, <2>9,
               <2>10 DEF KernelStep
  <1> QED BY <1>1, <1>3, <1>4

(* A stash keeps its start, or gets that of the record or none.            *)
LEMMA StashTimes ==
    ASSUME TimesInv, ThreadsInv, Clocked, KernelStep \/ EnvStep, NEW u \in Ids
    PROVE  Stash(u)'.start <= clock'
  <1>0. StashShape(u) /\ Stash(u).start \in Nat /\ Stash(u).start <= clock
    BY DEF ThreadsInv, StashShape, TimesInv
  <1>1. Stash(u)'.start \in {Stash(u).start, 0, clock'} => Stash(u)'.start <= clock'
    BY <1>0 DEF Clocked
  <1>2. UNCHANGED cswitches => Stash(u)'.start = Stash(u).start
    BY DEF Stash
  <1>3. ASSUME NEW t \in Ids, CswitchSample(t)
        PROVE  Stash(u)'.start = Stash(u).start
    <2>1. PICK sample : cswitches' = SetStash(t, [Stash(t) EXCEPT !.sample = sample])
      BY <1>3 DEF CswitchSample
    <2>2. CASE u = t
      <3>1. Stash(u)' = [Stash(u) EXCEPT !.sample = sample]
        BY <2>1, <2>2 DEF SetStash, Stash
      <3> QED BY <1>0, <3>1 DEF StashShape
    <2>3. CASE u # t
      BY <2>1, <2>3 DEF SetStash, Stash
    <2> QED BY <2>2, <2>3
  <1>4. ASSUME NEW t \in Ids, SwitchOut(t)
        PROVE  Stash(u)'.start \in {Stash(u).start, 0, clock'}
    <2>1. \/ Stash(u)' = Stash(u)
          \/ Stash(u)' = [Stash(u) EXCEPT !.start = clock']
      BY <1>4 DEF SwitchOut, Stash
    <2> QED BY <1>0, <2>1 DEF StashShape
  <1>5. ASSUME NEW t \in Ids, SwitchIn(t)
        PROVE  Stash(u)'.start \in {Stash(u).start, 0}
    <2>1. \/ Stash(u)' = Stash(u)
          \/ Stash(u)' = [start |-> 0, sample |-> NoSample]
      BY <1>5 DEF SwitchIn, Stash
    <2> QED BY <2>1
  <1>6. \/ UNCHANGED cswitches
        \/ \E t \in Ids : CswitchSample(t) \/ SwitchOut(t) \/ SwitchIn(t)
    BY DEF KernelStep, EnvStep, EnvComm, EnvRead, EnvWrite, Fork, Clone, Exec,
           MmapNoExec, Mmap, CpuSample, Exit, OutsideSample, OutsideFork, OutsideOther,
           machineVars
  <1> QED BY <1>1, <1>2, <1>3, <1>4, <1>5, <1>6
-----------------------------------------------------------------------------
(* The replay of the export.                                               *)

(* What the export leaves is still timed, and can be replayed.             *)
LEMMA ExportTimes ==
    ASSUME MachineInv, MapsInv, TimesInv, Export
    PROVE  TimesInv' /\ (clock < MaxTime => ReplayTable(procs'))
  <1>1. /\ SamplesInv /\ clock \in Nat /\ clock' = clock /\ UNCHANGED cswitches
        /\ DOMAIN procs' = DOMAIN procs
    BY DEF Export, MachineInv, ThreadsInv
  <1>2. ASSUME NEW p \in DOMAIN procs
        PROVE  /\ TimesAt(procs'[p], clock)
               /\ clock < MaxTime => Replayable(procs'[p])
    <2>1. PICK r : Makes(procs'[p], procs[p], r, clock)
      BY <1>1, ExportMakes
    <2>2. PICK e, f : e = procs[p] /\ f = procs'[p]
      OBVIOUS
    <2>3. /\ Timed(e.samples) /\ TimesAt(e, clock)
          /\ f.samples = SortByTime(e.samples) /\ f.maps = SortByTime(r.maps)
          /\ f.create = e.create /\ f.exit = e.exit /\ MapList(r.maps, clock)
      BY <1>1, <2>1, <2>2 DEF Makes, SameLife, SamplesInv, TimesInv, TableTimes, TableAt
    <2>4. Timed(r.maps) /\ \A i \in DOMAIN r.maps : r.maps[i].time <= clock
      BY <2>3 DEF MapList, MapShape, Timed
    <2>5. \A k \in DOMAIN f.samples : \E i \in DOMAIN e.samples :
                f.samples[k] = e.samples[i]
      BY <2>3, SortKeeps
    <2>6. TimesAt(f, clock)
      BY <2>3, <2>5 DEF TimesAt
    <2>7. ASSUME clock < MaxTime PROVE Replayable(f)
      <3>1. TimeList(f.samples)
        BY <1>1, <2>3, <2>7, SortedTimes DEF TimesAt
      <3>2. TimeList(f.maps)
        BY <1>1, <2>3, <2>4, <2>7, SortedTimes
      <3>3. /\ f.create \in Nat /\ f.create < MaxTime
            /\ f.exit \in Nat /\ f.exit < MaxTime
        BY <1>1, <2>6, <2>7, MaxTimeAssumption DEF TimesAt
      <3> QED BY <3>1, <3>2, <3>3 DEF Replayable
    <2> QED BY <2>2, <2>6, <2>7
  <1>3. \A t \in Ids : Stash(t)' = Stash(t)
    BY <1>1 DEF Stash
  <1> QED BY <1>1, <1>2, <1>3 DEF TimesInv, TableTimes, ReplayTable

LEMMA TimesStep ==
    MachineInv /\ MapsInv /\ TimesInv /\ [Next]_vars => TimesInv'
  <1> SUFFICES ASSUME MachineInv, MapsInv, TimesInv, [Next]_vars PROVE TimesInv'
    OBVIOUS
  <1>1. CASE UNCHANGED vars
    BY <1>1 DEF vars, machineVars, TimesInv, TableTimes, Stash
  <1>2. CASE Export
    BY <1>2, ExportTimes
  <1>3. CASE KernelStep \/ EnvStep
    BY <1>3, TablesTimed, StashTimes DEF MachineInv, TimesInv
  <1> QED BY <1>1, <1>2, <1>3 DEF Next

LEMMA InitTimes == Init => TimesInv
  <1> SUFFICES ASSUME Init PROVE TimesInv
    OBVIOUS
  <1>1. clock = 1 /\ DOMAIN procs = {} /\ DOMAIN cswitches = {}
    BY DEF Init
  <1>2. \A t \in Ids : Stash(t).start = 0
    BY <1>1 DEF Stash
  <1>3. IsFiniteSet(DOMAIN procs)
    BY <1>1, FS_EmptySet
  <1> QED BY <1>1, <1>2, <1>3 DEF TimesInv, TableTimes

(* No time that the exporter keeps of a process, and no start of a wait    *)
(* that it has yet to record, is later than the clock.                     *)
THEOREM TimesInvariant == Spec => []TimesInv
  <1>1. MachineInv /\ PagesInv /\ TimesInv /\ [Next]_vars => TimesInv'
    BY TimesStep DEF PagesInv
  <1> QED BY <1>1, InitTimes, MachineInvariant, PagesInvariant, PTL DEF Spec

(* A sample, or a mapping, that is given once.                             *)
LEMMA OneRound ==
    ASSUME NEW l, NEW rounds, NEW time, GivenOnce(l, rounds, time)
    PROVE  Cardinality(rounds) = 1 /\ \A i \in rounds : l[i].time = time
  BY FS_Singleton DEF GivenOnce

AllReplayed(l, table) ==
    /\ \A i, j \in DOMAIN l : i < j => l[i].time <= l[j].time
    /\ \A p \in DOMAIN table :
        /\ \A k \in DOMAIN table[p].samples :
            /\ Cardinality(SampleRounds(l, p, k)) = 1
            /\ \A i \in SampleRounds(l, p, k) : l[i].time = table[p].samples[k].time
        /\ \A k \in DOMAIN table[p].maps :
            /\ Cardinality(MapRounds(l, p, k)) = 1
            /\ \A i \in MapRounds(l, p, k) : l[i].time = table[p].maps[k].time
        /\ table[p].create # 0 <=> CreatedRounds(l, p) # {}
        /\ table[p].exit # 0 <=> ExitedRounds(l, p) # {}

LEMMA ExactIs == ReplayExact <=> (phase = "done" => AllReplayed(log, procs))
  <1>1. /\ \A l, p, k : SampleRounds(l, p, k) =
              {i \in DOMAIN l : \E c \in l[i].calls : c.pid = p /\ c.sample = k}
        /\ \A l, p, k : MapRounds(l, p, k) =
              {i \in DOMAIN l : \E c \in l[i].calls : c.pid = p /\ c.map = k}
        /\ \A l, p : CreatedRounds(l, p) =
              {i \in DOMAIN l : \E c \in l[i].calls : c.pid = p /\ c.created}
        /\ \A l, p : ExitedRounds(l, p) =
              {i \in DOMAIN l : \E c \in l[i].calls : c.pid = p /\ c.exited}
    BY DEF SampleRounds, MapRounds, CreatedRounds, ExitedRounds, CallsOf
  <1> QED BY <1>1, Zenon DEF ReplayExact, AllReplayed

ReplayedInTime ==
    clock < MaxTime /\ phase = "done" => AllReplayed(log, procs)

LEMMA ReplayStep ==
    /\ MachineInv /\ PagesInv /\ TimesInv /\ TimesInv' /\ ReplayedInTime /\ [Next]_vars
    => ReplayedInTime'
  <1> SUFFICES ASSUME MachineInv, PagesInv, TimesInv, TimesInv', ReplayedInTime,
                      [Next]_vars, clock' < MaxTime
               PROVE  phase' = "done" => AllReplayed(log', procs')
    BY DEF ReplayedInTime
  <1>1. CASE UNCHANGED vars
    BY <1>1 DEF vars, machineVars, ReplayedInTime
  <1>2. CASE KernelStep \/ EnvStep
    <2>1. phase' # "done"
      BY <1>2, ZenonT(40) DEF KernelStep, EnvStep, EnvComm, EnvRead, EnvWrite, Fork, Clone,
                  Exec, MmapNoExec, Mmap, CpuSample, CswitchSample, SwitchOut,
                  SwitchIn, Exit, OutsideSample, OutsideFork, OutsideOther, Event
    <2> QED BY <2>1
  <1>3. CASE Export
    <2>1. PICK table, l : table = procs' /\ l = log'
      OBVIOUS
    <2>2. ReplayTable(table) /\ IsFiniteSet(DOMAIN table) /\ l = ReplayRounds(table)
      <3>1. clock' = clock /\ log' = ReplayRounds(procs')
        BY <1>3 DEF Export
      <3>2. ReplayTable(procs')
        BY <1>3, <3>1, ExportTimes DEF PagesInv
      <3> QED BY <2>1, <3>1, <3>2 DEF TimesInv, TableTimes
    <2>3. /\ \A i, j \in DOMAIN l : i < j => l[i].time <= l[j].time
          /\ \A p \in DOMAIN table : ReplayOf(l, p, table[p])
      BY <2>2, ReplayGivesAll
    <2>4. AllReplayed(l, table)
      BY <2>3, OneRound DEF ReplayOf, AllReplayed
    <2> QED BY <2>1, <2>4
  <1> QED BY <1>1, <1>2, <1>3 DEF Next

(* After the export the replay gives every sample and every mapping of     *)
(* every process once, at its time and in the order of time over all       *)
(* processes, and each creation and exit: with any number of processes,    *)
(* however many things share a time, as long as no record has the time     *)
(* that stands for the end (u64::MAX).                                     *)
THEOREM ReplayAlwaysExact == Spec => [](clock < MaxTime => ReplayExact)
  <1>1. Init => ReplayedInTime
    BY DEF Init, ReplayedInTime
  <1>2. ReplayedInTime => (clock < MaxTime => ReplayExact)
    BY ExactIs DEF ReplayedInTime
  <1> QED BY <1>1, <1>2, ReplayStep, TimesInvariant, MachineInvariant, PagesInvariant,
             PTL DEF Spec
=============================================================================

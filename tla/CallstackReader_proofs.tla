----------------------- MODULE CallstackReader_proofs -----------------------
(***************************************************************************)
(* For any words on the stack and in the registers, any modules and any    *)
(* rules of their files: the unwinder's loop ends, with at most MaxFrames  *)
(* frames, each but the first inside of a module of the process.           *)
(***************************************************************************)
EXTENDS CallstackReader, SequenceTheorems, FiniteSetTheorems, WellFoundedInduction, TLAPS

-----------------------------------------------------------------------------
(* Frames.                                                                 *)

IsSeq(s) == \E T : s \in Seq(T)

LEMMA Pushed ==
    ASSUME NEW s, IsSeq(s), NEW x
    PROVE  /\ IsSeq(Append(s, x)) /\ Len(s) \in Nat /\ Len(Append(s, x)) = Len(s) + 1
           /\ Append(s, x)[Len(s) + 1] = x
           /\ \A i \in 1 .. Len(s) : Append(s, x)[i] = s[i]
  <1>1. PICK T : s \in Seq(T)
    BY DEF IsSeq
  <1>2. s \in Seq(T \cup {x})
    BY <1>1, SeqMonotonic
  <1>3. /\ Append(s, x) \in Seq(T \cup {x}) /\ Len(s) \in Nat
        /\ Len(Append(s, x)) = Len(s) + 1 /\ Append(s, x)[Len(s) + 1] = x
        /\ \A i \in 1 .. Len(s) : Append(s, x)[i] = s[i]
    BY <1>2, AppendProperties
  <1> QED BY <1>3 DEF IsSeq

LEMMA Dropped ==
    ASSUME NEW s, IsSeq(s), Len(s) > 1
    PROVE  /\ IsSeq(Front(s)) /\ Len(s) \in Nat /\ Len(Front(s)) = Len(s) - 1
           /\ \A i \in 1 .. Len(s) - 1 : Front(s)[i] = s[i]
  <1>1. PICK T : s \in Seq(T)
    BY DEF IsSeq
  <1>2. Len(s) \in Nat /\ Len(s) - 1 \in 0 .. Len(s) /\ 1 \in 1 .. Len(s) + 1
    BY <1>1
  <1>3. /\ Front(s) \in Seq(T) /\ Len(Front(s)) = Len(s) - 1
        /\ \A i \in 1 .. Len(s) - 1 : Front(s)[i] = s[i]
    BY <1>1, <1>2 DEF Front
  <1> QED BY <1>2, <1>3 DEF IsSeq

-----------------------------------------------------------------------------
(* Whatever is found out about the frame below, the frames so far stay.    *)

Fields == {"rip", "rsp", "cache", "ip", "error", "reg", "offsets", "frames", "running"}
IsUnwinder(u) == DOMAIN u = Fields

Keeps(u, v) ==
    IsUnwinder(v) /\ v.rip = u.rip /\ v.frames = u.frames /\ v.running = u.running

LEMMA KeepsMore ==
    ASSUME NEW u, NEW v, NEW w, Keeps(u, v), Keeps(v, w)
    PROVE  Keeps(u, w)
  BY DEF Keeps

LEMMA SetKeeps ==
    ASSUME NEW u, IsUnwinder(u), NEW x
    PROVE  /\ Keeps(u, u)
           /\ Keeps(u, [u EXCEPT !.ip = x]) /\ Keeps(u, [u EXCEPT !.error = x])
           /\ Keeps(u, [u EXCEPT !.cache = x]) /\ Keeps(u, [u EXCEPT !.offsets = x])
           /\ Keeps(u, [u EXCEPT !.reg = x])
  BY DEF IsUnwinder, Keeps, Fields

LEMMA PrologKeeps ==
    ASSUME NEW u, IsUnwinder(u), NEW mods, NEW stack
    PROVE  Keeps(u, UnwindProlog(u, mods, stack))
  BY DEF UnwindProlog, IsUnwinder, Keeps, Fields

LEMMA CheckedKeeps ==
    ASSUME NEW u, IsUnwinder(u), NEW found, NEW cfa, NEW rbp, NEW ip
    PROVE  Keeps(u, CheckedFrame(u, found, cfa, rbp, ip))
  BY DEF CheckedFrame, IsUnwinder, Keeps, Fields

LEMMA CachedKeeps ==
    ASSUME NEW u, IsUnwinder(u), NEW i, NEW key, NEW rva, NEW stack
    PROVE  Keeps(u, UnwindCached(u, i, key, rva, stack))
  <1>1. CASE i = 0
    BY <1>1 DEF UnwindCached, IsUnwinder, Keeps, Fields
  <1>2. CASE i # 0
    BY <1>2, CheckedKeeps DEF UnwindCached, FrameBy, FrameAtCfa
  <1> QED BY <1>1, <1>2

LEMMA ModuleKeeps ==
    ASSUME NEW u, IsUnwinder(u), NEW files, NEW key, NEW rva, NEW stack
    PROVE  Keeps(u, UnwindModule(u, files, key, rva, stack))
  <1> DEFINE v == [u EXCEPT !.cache = FillCache(@, files, key, rva)]
  <1>1. Keeps(u, v)
    BY SetKeeps
  <1>2. UnwindModule(u, files, key, rva, stack) =
            UnwindCached(v, FrameFor(v.cache, key, rva), key, rva, stack)
    BY DEF UnwindModule, UnwindWith
  <1> HIDE DEF v
  <1>3. IsUnwinder(v)
    BY <1>1 DEF Keeps
  <1>4. Keeps(v, UnwindModule(u, files, key, rva, stack))
    BY <1>2, <1>3, CachedKeeps
  <1> QED BY <1>1, <1>4, KeepsMore

LEMMA OrPrologKeeps ==
    ASSUME NEW u, NEW v, Keeps(u, v), NEW mods, NEW stack
    PROVE  Keeps(u, OrProlog(v, mods, stack))
  <1> DEFINE w == [v EXCEPT !.error = ""]
  <1>1. IsUnwinder(v)
    BY DEF Keeps
  <1>2. Keeps(v, w)
    BY <1>1, SetKeeps
  <1>3. OrProlog(v, mods, stack) = v \/ OrProlog(v, mods, stack) = UnwindProlog(w, mods, stack)
    BY DEF OrProlog
  <1> HIDE DEF w
  <1>4. Keeps(w, UnwindProlog(w, mods, stack))
    BY <1>2, PrologKeeps DEF Keeps
  <1>5. Keeps(u, UnwindProlog(w, mods, stack))
    BY <1>2, <1>4, KeepsMore
  <1> QED BY <1>3, <1>5

LEMMA NextKeeps ==
    ASSUME NEW u, IsUnwinder(u), NEW files, NEW mods, NEW stack
    PROVE  Keeps(u, NextFrame(u, files, mods, stack))
  <1> DEFINE module == mods[FindModule(mods, u.rip)]
  <1>1. Keeps(u, UnwindModule(u, files, module.key, Rva(module, u.rip), stack))
    BY ModuleKeeps
  <1>2. Keeps(u, OrProlog(UnwindModule(u, files, module.key, Rva(module, u.rip), stack),
                          mods, stack))
    BY <1>1, OrPrologKeeps
  <1>3. Keeps(u, UnwindProlog(u, mods, stack))
    BY PrologKeeps
  <1> QED BY <1>2, <1>3 DEF NextFrame, FrameBelow

LEMMA RecoverKeeps ==
    ASSUME NEW u, IsUnwinder(u), NEW before, NEW mods, NEW stack
    PROVE  Keeps(u, Recover(u, before, mods, stack))
  <1> DEFINE v == [u EXCEPT !.reg[REG_RSP] = before.reg[REG_RSP],
                            !.reg[REG_RBP] = before.reg[REG_RBP]]
             w == UnwindProlog(v, mods, stack)
  <1>1. Keeps(u, v)
    BY DEF IsUnwinder, Keeps, Fields
  <1>2. Keeps(v, w)
    <2> HIDE DEF v
    <2> QED BY <1>1, PrologKeeps DEF Keeps
  <1>3. /\ Keeps(u, u)
        /\ \/ Recover(u, before, mods, stack) = u
           \/ Recover(u, before, mods, stack) = OrAgain(u, w)
    BY SetKeeps DEF Recover
  <1> HIDE DEF v, w
  <1>4. Keeps(u, w) /\ IsUnwinder(w)
    BY <1>1, <1>2, KeepsMore DEF Keeps
  <1>5. Keeps(w, [w EXCEPT !.ip = u.ip]) /\ Keeps(w, [w EXCEPT !.error = ""])
    BY <1>4, SetKeeps
  <1>6. Keeps(u, OrAgain(u, w))
    BY <1>4, <1>5, KeepsMore DEF OrAgain
  <1> QED BY <1>3, <1>6

-----------------------------------------------------------------------------
(* One pass of the loop.                                                   *)

(* After n passes the loop still runs, with n frames below the first of    *)
(* which only the last one has yet to be looked for in the modules, or it  *)
(* has ended and every frame was found.                                    *)
After(u, n, mods) ==
    /\ IsUnwinder(u) /\ IsSeq(u.frames) /\ Len(u.frames) \in 1 .. MaxFrames
    /\ IF u.running
       THEN /\ Len(u.frames) = n + 1 /\ u.rip = u.frames[n + 1]
            /\ \A i \in 2 .. n : InModule(mods, u.frames[i])
       ELSE /\ u.running = FALSE
            /\ \A i \in 2 .. Len(u.frames) : InModule(mods, u.frames[i])

LEMMA StopAfter ==
    ASSUME NEW u, IsUnwinder(u), IsSeq(u.frames), NEW n \in Nat, Len(u.frames) = n + 1,
           n <= MaxFrames, NEW mods, \A i \in 2 .. n : InModule(mods, u.frames[i])
    PROVE  After(Stopped(u), n + 1, mods)
  <1> DEFINE v == Stopped(u)
  <1>1. IsUnwinder(v) /\ v.running = FALSE
        /\ v.frames = IF Len(u.frames) > 1 THEN Front(u.frames) ELSE u.frames
    BY DEF Stopped, IsUnwinder, Fields
  <1> HIDE DEF v
  <1>2. MaxFrames \in Nat \ {0}
    BY UnwindAssumption
  <1>3. CASE n = 0
    <2>1. v.frames = u.frames /\ Len(v.frames) = 1
      BY <1>1, <1>3
    <2>2. After(v, n + 1, mods)
      <3>0. 2 .. 1 = {} /\ 1 \in 1 .. MaxFrames
        BY <1>2
      <3>1. \A i \in 2 .. Len(v.frames) : FALSE
        BY <2>1, <3>0, Zenon
      <3>2. Len(v.frames) \in 1 .. MaxFrames
        BY <2>1, <3>0, Zenon
      <3> QED BY <1>1, <2>1, <3>1, <3>2 DEF After
    <2> QED BY <2>2 DEF v
  <1>4. CASE n > 0
    <2>1. /\ v.frames = Front(u.frames) /\ IsSeq(v.frames) /\ Len(v.frames) = n
          /\ \A i \in 1 .. n : v.frames[i] = u.frames[i]
      BY <1>1, <1>4, Dropped
    <2>2. After(v, n + 1, mods)
      <3>1. \A i \in 2 .. Len(v.frames) : InModule(mods, v.frames[i])
        BY <1>4, <2>1
      <3>2. Len(v.frames) \in 1 .. MaxFrames
        BY <1>2, <1>4, <2>1
      <3> QED BY <1>1, <2>1, <3>1, <3>2 DEF After
    <2> QED BY <2>2 DEF v
  <1> QED BY <1>3, <1>4

LEMMA StepAfter ==
    ASSUME NEW n \in Nat, NEW u, NEW mods, After(u, n, mods), NEW files, NEW stack
    PROVE  After(UnwindStep(u, files, mods, stack), n + 1, mods)
  <1> DEFINE next == NextFrame(u, files, mods, stack)
             v == Recover(next, u, mods, stack)
             w == PushFrame(v)
  <1>0. MaxFrames \in Nat \ {0} /\ IsUnwinder(u) /\ IsSeq(u.frames)
        /\ Len(u.frames) \in 1 .. MaxFrames
    BY UnwindAssumption DEF After
  <1>1. CASE ~u.running
    <2>1. UnwindStep(u, files, mods, stack) = u
      BY <1>1 DEF UnwindStep
    <2> QED BY <1>1, <2>1 DEF After
  <1>2. CASE u.running
    <2>1. /\ Len(u.frames) = n + 1 /\ u.rip = u.frames[n + 1] /\ n + 1 <= MaxFrames
          /\ \A i \in 2 .. n : InModule(mods, u.frames[i])
      BY <1>0, <1>2 DEF After
    <2>2. CASE ~InModule(mods, u.rip)
      <3>1. UnwindStep(u, files, mods, stack) = Stopped(u)
        BY <1>2, <2>2 DEF UnwindStep
      <3>2. n <= MaxFrames
        BY <1>0, <2>1
      <3> QED BY <1>0, <2>1, <3>1, <3>2, StopAfter
    <2>3. CASE InModule(mods, u.rip)
      <3>1. UnwindStep(u, files, mods, stack) = TakeFrame(u, next, mods, stack)
        BY <1>2, <2>3 DEF UnwindStep
      <3>2. Keeps(u, next)
        BY <1>0, NextKeeps
      <3>3. \A i \in 2 .. n + 1 : InModule(mods, u.frames[i])
        <4>1. \A i \in 2 .. n + 1 : i \in 2 .. n \/ i = n + 1
          OBVIOUS
        <4> QED BY <2>1, <2>3, <4>1
      <3>4. CASE next.ip = None
        <4> DEFINE e == [next EXCEPT !.running = FALSE]
        <4>1. UnwindStep(u, files, mods, stack) = e
          BY <3>1, <3>4 DEF TakeFrame
        <4>2. IsUnwinder(e) /\ e.running = FALSE /\ e.frames = u.frames
          BY <3>2 DEF Keeps, IsUnwinder, Fields
        <4> HIDE DEF e
        <4> QED BY <1>0, <2>1, <3>3, <4>1, <4>2 DEF After
      <3>5. CASE next.ip # None
        <4> HIDE DEF next
        <4>1. UnwindStep(u, files, mods, stack) = AfterFrame(w)
          BY <3>1, <3>5 DEF TakeFrame
        <4>2. Keeps(u, v)
          BY <3>2, RecoverKeeps, KeepsMore DEF Keeps
        <4> HIDE DEF v
        <4>3. /\ IsUnwinder(w) /\ w.running = u.running /\ w.rip = v.ip
              /\ w.frames = Append(u.frames, v.ip)
          BY <4>2 DEF PushFrame, Keeps, IsUnwinder, Fields
        <4> HIDE DEF w
        <4>4. /\ IsSeq(w.frames) /\ Len(w.frames) = n + 2 /\ w.frames[n + 2] = w.rip
              /\ \A i \in 1 .. n + 1 : w.frames[i] = u.frames[i]
          BY <1>0, <2>1, <4>3, Pushed
        <4>5. \A i \in 2 .. n + 1 : InModule(mods, w.frames[i])
          BY <3>3, <4>4
        <4>6. CASE Len(w.frames) > MaxFrames \/ w.rip = 0
          <5>1. AfterFrame(w) = Stopped(w)
            BY <4>6 DEF AfterFrame
          <5>2. PICK m \in Nat : m = n + 1
            OBVIOUS
          <5>3. /\ Len(w.frames) = m + 1 /\ m <= MaxFrames
                /\ \A i \in 2 .. m : InModule(mods, w.frames[i])
            BY <2>1, <4>4, <4>5, <5>2
          <5>4. After(Stopped(w), m + 1, mods)
            BY <4>3, <4>4, <5>3, StopAfter
          <5>5. Stopped(w).running = FALSE
            BY <4>3 DEF Stopped, IsUnwinder, Fields
          <5> QED BY <4>1, <5>1, <5>4, <5>5 DEF After
        <4>7. CASE ~(Len(w.frames) > MaxFrames \/ w.rip = 0)
          <5>1. AfterFrame(w) = w
            BY <4>7 DEF AfterFrame
          <5>2. Len(w.frames) \in 1 .. MaxFrames
            BY <1>0, <4>4, <4>7
          <5>3. PICK m \in Nat : m = n + 1
            OBVIOUS
          <5>4. /\ Len(w.frames) = m + 1 /\ w.rip = w.frames[m + 1]
                /\ \A i \in 2 .. m : InModule(mods, w.frames[i])
            BY <4>4, <4>5, <5>3
          <5>5. After(w, m, mods)
            BY <1>2, <4>3, <4>4, <5>2, <5>4 DEF After
          <5> QED BY <4>1, <5>1, <5>3, <5>5
        <4> QED BY <4>6, <4>7
      <3> QED BY <3>4, <3>5
    <2> QED BY <2>2, <2>3
  <1> QED BY <1>1, <1>2

-----------------------------------------------------------------------------
(* Induction, on sets of numbers.                                          *)

LEMMA Greatest ==
    ASSUME NEW n \in Nat, NEW S, S \subseteq 0 .. n, S # {}
    PROVE  \E m \in S : \A y \in S : y <= m
  <1> DEFINE Above == {x .. n : x \in S}
  <1>1. Above \subseteq FiniteSubsetsOf(Nat)
    <2>1. \A x \in S : x .. n \in SUBSET Nat /\ IsFiniteSet(x .. n)
      BY FS_Interval
    <2> QED BY <2>1 DEF FiniteSubsetsOf
  <1>2. PICK m \in S : \A y \in Above : ~ (<<y, m .. n>> \in StrictSubsetOrdering(Nat))
    <2>1. Above # {}
      OBVIOUS
    <2>2. PICK x \in Above : \A y \in Above : ~ (<<y, x>> \in StrictSubsetOrdering(Nat))
      BY <1>1, <2>1, WFMin, FS_StrictSubsetOrderingWellFounded
    <2> QED BY <2>2
  <1>3. ASSUME NEW y \in S, y > m PROVE FALSE
    <2>1. y .. n \subseteq m .. n /\ y .. n # m .. n
      <3>1. m \in m .. n /\ m \notin y .. n
        BY <1>3
      <3>2. \A k \in y .. n : k \in m .. n
        BY <1>3
      <3> QED BY <3>1, <3>2
    <2>2. y .. n \in SUBSET Nat /\ m .. n \in SUBSET Nat /\ y .. n \in Above
      OBVIOUS
    <2>3. <<y .. n, m .. n>> \in StrictSubsetOrdering(Nat)
      BY <2>1, <2>2, Zenon DEF StrictSubsetOrdering
    <2> QED BY <1>2, <2>2, <2>3
  <1> QED BY <1>3

(* What holds at 1, and one further wherever it holds, holds up to n + 1.  *)
LEMMA UpTo ==
    ASSUME NEW n \in Nat, NEW S, 1 \in S, \A k \in 1 .. n : k \in S => k + 1 \in S
    PROVE  1 .. n + 1 \subseteq S
  <1> DEFINE Left == {n + 1 - k : k \in (1 .. n + 1) \ S}
  <1>1. SUFFICES ASSUME (1 .. n + 1) \ S # {} PROVE FALSE
    OBVIOUS
  <1>2. Left \subseteq 0 .. n /\ Left # {}
    <2>1. \A k \in 1 .. n + 1 : n + 1 - k \in 0 .. n
      OBVIOUS
    <2> QED BY <1>1, <2>1
  <1>3. PICK l \in Left : \A y \in Left : y <= l
    BY <1>2, Greatest
  <1>4. PICK k \in (1 .. n + 1) \ S : l = n + 1 - k
    OBVIOUS
  <1>5. k # 1 /\ k - 1 \in 1 .. n
    BY <1>4
  <1>6. k - 1 \in S
    <2>1. CASE k - 1 \notin S
      <3>1. n + 1 - (k - 1) \in Left
        BY <1>5, <2>1
      <3>2. n + 1 - (k - 1) <= n + 1 - k
        BY <1>3, <1>4, <3>1
      <3> QED BY <1>4, <3>2
    <2> QED BY <2>1
  <1>7. (k - 1) + 1 \in S
    BY <1>5, <1>6
  <1> QED BY <1>4, <1>7

-----------------------------------------------------------------------------
(* The passes of the loop, as the function that UnwindAll is defined by.   *)

IsPasses(f, u, files, mods, stack, n) ==
    f = [j \in 0 .. n |-> IF j = 0 THEN u ELSE UnwindStep(f[j - 1], files, mods, stack)]

LEMMA PassesExist ==
    ASSUME NEW u, NEW files, NEW mods, NEW stack, NEW n \in Nat
    PROVE  \E f : IsPasses(f, u, files, mods, stack, n)
  <1> DEFINE S == {k \in Nat : \E f : IsPasses(f, u, files, mods, stack, k - 1)}
  <1>1. 1 \in S
    <2>1. [j \in 0 .. 1 - 1 |-> u] =
            [j \in 0 .. 1 - 1 |-> IF j = 0 THEN u
                ELSE UnwindStep([i \in 0 .. 1 - 1 |-> u][j - 1], files, mods, stack)]
      OBVIOUS
    <2> QED BY <2>1 DEF IsPasses
  <1>2. ASSUME NEW k \in 1 .. n, k \in S PROVE k + 1 \in S
    <2>1. PICK g : IsPasses(g, u, files, mods, stack, k - 1)
      BY <1>2
    <2> DEFINE f == [j \in 0 .. k |-> IF j = k THEN UnwindStep(g[k - 1], files, mods, stack)
                                      ELSE g[j]]
               step(j) == IF j = 0 THEN u ELSE UnwindStep(f[j - 1], files, mods, stack)
    <2>2. \A j \in 0 .. k - 1 :
            g[j] = IF j = 0 THEN u ELSE UnwindStep(g[j - 1], files, mods, stack)
      BY <2>1 DEF IsPasses
    <2>3. ASSUME NEW j \in 0 .. k PROVE f[j] = step(j)
      <3>1. CASE j = k
        <4>1. f[j - 1] = g[k - 1] /\ f[j] = UnwindStep(g[k - 1], files, mods, stack)
          BY <3>1
        <4> QED BY <3>1, <4>1
      <3>2. CASE j # k /\ j # 0
        <4>1. f[j - 1] = g[j - 1] /\ f[j] = g[j] /\ j \in 0 .. k - 1
          BY <3>2
        <4> QED BY <2>2, <3>2, <4>1
      <3>3. CASE j # k /\ j = 0
        BY <2>2, <3>3
      <3> QED BY <3>1, <3>2, <3>3
    <2>4. f = [j \in 0 .. k |-> step(j)]
      <3>1. f = [j \in 0 .. k |-> f[j]]
        OBVIOUS
      <3> HIDE DEF f
      <3> QED BY <2>3, <3>1
    <2>5. IsPasses(f, u, files, mods, stack, k)
      <3> HIDE DEF f
      <3> QED BY <2>4 DEF IsPasses
    <2>6. (k + 1) - 1 = k
      OBVIOUS
    <2> QED BY <2>5, <2>6
  <1>3. 1 .. n + 1 \subseteq S
    <2> HIDE DEF S
    <2> QED BY <1>1, <1>2, UpTo
  <1>4. n + 1 \in S /\ (n + 1) - 1 = n
    BY <1>3
  <1> QED BY <1>4

LEMMA Passes ==
    ASSUME NEW u, NEW files, NEW mods, NEW stack
    PROVE  \E f : /\ UnwindAll(u, files, mods, stack) = f[MaxFrames + 1]
                  /\ f[0] = u
                  /\ \A k \in 0 .. MaxFrames :
                        f[k + 1] = UnwindStep(f[k], files, mods, stack)
  <1> DEFINE n == MaxFrames + 1
             f == CHOOSE g : IsPasses(g, u, files, mods, stack, n)
  <1>0. MaxFrames \in Nat /\ n \in Nat
    BY UnwindAssumption
  <1>1. UnwindAll(u, files, mods, stack) = f[n]
    BY DEF UnwindAll, IsPasses
  <1>2. IsPasses(f, u, files, mods, stack, n)
    BY <1>0, PassesExist
  <1> HIDE DEF f
  <1>3. \A j \in 0 .. n : f[j] = IF j = 0 THEN u ELSE UnwindStep(f[j - 1], files, mods, stack)
    BY <1>2 DEF IsPasses
  <1>4. ASSUME NEW k \in 0 .. MaxFrames PROVE f[k + 1] = UnwindStep(f[k], files, mods, stack)
    <2>1. k + 1 \in 0 .. n /\ k + 1 # 0 /\ (k + 1) - 1 = k
      BY <1>0
    <2> QED BY <1>3, <2>1
  <1>5. f[0] = u
    BY <1>0, <1>3
  <1> QED BY <1>1, <1>4, <1>5

-----------------------------------------------------------------------------
(* The walk: whatever the registers, the stack and the files have, it ends *)
(* with at most MaxFrames frames, each but the first inside of a module    *)
(* (x64unwinder.rs, unwind).                                               *)
LEMMA UnwindCapped ==
    ASSUME NEW regs, NEW known, NEW files, NEW mods, NEW stack,
           NEW u, u = UnwindAll(StartUnwind(known, regs), files, mods, stack)
    PROVE  /\ IsSeq(u.frames) /\ Len(u.frames) \in 1 .. MaxFrames
           /\ \A i \in 2 .. Len(u.frames) : InModule(mods, u.frames[i])
  <1> DEFINE start == StartUnwind(known, regs)
  <1>0. MaxFrames \in Nat \ {0}
    BY UnwindAssumption
  <1>1. After(start, 0, mods)
    <2>1. /\ IsUnwinder(start) /\ start.running = TRUE /\ start.rip = regs.rip
          /\ start.frames = <<regs.rip>>
      BY DEF StartUnwind, IsUnwinder, Fields
    <2> HIDE DEF start
    <2>2. /\ start.frames \in Seq({regs.rip}) /\ Len(start.frames) = 1
          /\ start.frames[1] = regs.rip
      BY <2>1
    <2>3. 1 \in 1 .. MaxFrames /\ 2 .. 0 = {} /\ 0 + 1 = 1
      BY <1>0
    <2> QED BY <2>1, <2>2, <2>3 DEF After, IsSeq
  <1> HIDE DEF start
  <1>2. PICK f : /\ UnwindAll(start, files, mods, stack) = f[MaxFrames + 1] /\ f[0] = start
                 /\ \A k \in 0 .. MaxFrames : f[k + 1] = UnwindStep(f[k], files, mods, stack)
    BY Passes
  <1> DEFINE S == {k \in Nat : After(f[k - 1], k - 1, mods)}
  <1>3. 1 \in S
    BY <1>1, <1>2
  <1>4. ASSUME NEW k \in 1 .. MaxFrames + 1, k \in S PROVE k + 1 \in S
    <2>1. PICK n \in 0 .. MaxFrames : n = k - 1 /\ k = n + 1 /\ (k + 1) - 1 = n + 1
      BY <1>0
    <2>2. After(f[n], n, mods)
      BY <1>4, <2>1
    <2>3. After(f[n + 1], n + 1, mods)
      BY <1>0, <1>2, <2>2, StepAfter
    <2> QED BY <2>1, <2>3
  <1>5. 1 .. (MaxFrames + 1) + 1 \subseteq S
    <2> HIDE DEF S
    <2> QED BY <1>0, <1>3, <1>4, UpTo
  <1>6. PICK n \in Nat : n = MaxFrames + 1 /\ n + 1 \in 1 .. (MaxFrames + 1) + 1 /\ (n + 1) - 1 = n
    BY <1>0
  <1>7. After(u, n, mods)
    BY <1>2, <1>5, <1>6 DEF start
  <1>8. ~u.running
    BY <1>0, <1>6, <1>7 DEF After
  <1> QED BY <1>7, <1>8 DEF After

(* Whenever frames were read from a stack without meaning, there are at    *)
(* least one and at most MaxFrames of them, and each but the first, which  *)
(* is the IP as it was given, is an address inside of a module that the    *)
(* machine has for the process (x64unwinder.rs, unwind and its recovery).  *)
THEOREM GarbageAlwaysSafe == Spec => []GarbageSafe
  <1>1. Init => GarbageSafe
    BY DEF Init, GarbageSafe, NoRead
  <1>2. ASSUME GarbageSafe, [Next]_vars PROVE GarbageSafe'
    <2>1. CASE Take
      BY <2>1 DEF Take, GarbageSafe, NoRead
    <2>2. CASE read = NoRead /\ Records
      <3>1. Record => read' = read
        BY DEF Record
      <3>2. Records => Record
        <4>1. \A pid : Exec(pid) => Record
          BY Zenon DEF Exec
        <4>2. \A pid, ppid : Fork(pid, ppid) => Record
          BY Zenon DEF Fork
        <4>3. \A pid, thread : Exit(pid, thread) => Record
          BY Zenon DEF Exit
        <4>4. \A pid, map, opens : Mmap(pid, map, opens) => Record
          BY DEF Mmap
        <4> QED BY <4>1, <4>2, <4>3, <4>4, Zenon DEF Records
      <3>3. read' = read
        BY <2>2, <3>1, <3>2
      <3> QED BY <2>2, <3>3 DEF GarbageSafe, NoRead
    <2>3. ASSUME NEW pid, NEW calls, NEW point, NEW size, NEW kernel, NEW plain,
                 Sample(pid, calls, point, size, kernel, plain)
          PROVE  GarbageSafe'
      <3> DEFINE s == SampleOf(pid, Thread(calls, point), calls, point, size, kernel, plain)
      <3>1. s.kind = "stack"
        BY DEF SampleOf
      <3> HIDE DEF s
      <3>2. \E fs, e : read' = [s EXCEPT !.frames = fs, !.error = e]
        BY <2>3 DEF Sample, ReadFrames, FramesRead, s
      <3>3. read'.kind # "garbage"
        BY <3>1, <3>2
      <3> QED BY <3>3 DEF GarbageSafe
    <2>4. ASSUME NEW pid, NEW stack, NEW rip, NEW rbp, GarbageSample(pid, stack, rip, rbp)
          PROVE  GarbageSafe'
      <3> DEFINE s == [kind |-> "garbage", pid |-> pid, stack |-> stack, rip |-> rip,
                       rbp |-> rbp, rsp |-> StackTop, regs |-> TRUE, ip |-> << >>,
                       chain |-> << >>, frames |-> << >>, error |-> ""]
                 mods == SortModules(machine[pid].mods)
                 u == UnwindAll(StartUnwind(cache, s), fds, mods, stack)
      <3>1. /\ s.pid = pid /\ s.stack = stack /\ s.regs = TRUE /\ FromCallchain(s) = << >>
        BY DEF FromCallchain
      <3>2. mode = "dwarf" /\ pid \in DOMAIN machine /\ ReadFrames(s)
        BY <2>4 DEF GarbageSample
      <3>2a. DOMAIN s = {"kind", "pid", "stack", "rip", "rbp", "rsp", "regs", "ip", "chain",
                         "frames", "error"}
        OBVIOUS
      <3> HIDE DEF s
      <3>3. Unwound(s) = u
        BY <3>1, <3>2 DEF Unwound
      <3> HIDE DEF u
      <3>4. read' = [s EXCEPT !.frames = << >> \o u.frames, !.error = u.error]
        BY <3>1, <3>2, <3>3 DEF ReadFrames, FramesRead
      <3>5. machine'[pid].mods = mods
        BY <3>1, <3>2 DEF ReadFrames, FramesRead
      <3>6. /\ IsSeq(u.frames) /\ Len(u.frames) \in 1 .. MaxFrames
            /\ \A i \in 2 .. Len(u.frames) : InModule(mods, u.frames[i])
        BY UnwindCapped DEF u
      <3>7. << >> \o u.frames = u.frames
        BY <3>6, ConcatEmptySeq DEF IsSeq
      <3>8. read'.frames = u.frames /\ read'.pid = pid
        BY <3>1, <3>2a, <3>4, <3>7
      <3> QED BY <3>5, <3>6, <3>8 DEF GarbageSafe
    <2>5. CASE UNCHANGED vars
      BY <1>2, <2>5 DEF vars, GarbageSafe
    <2> QED BY <1>2, <2>1, <2>2, <2>3, <2>4, <2>5 DEF Next, Samples
  <1> QED BY <1>1, <1>2, PTL DEF Spec
=============================================================================

-------------------------- MODULE PerfDecode_proofs --------------------------
(***************************************************************************)
(* For any number of registers, depth of call chains, size of raw data, of *)
(* the stack and of other records, every set of builders and any run of    *)
(* records: the fields of a record are where the kernel wrote them, and    *)
(* the time that the rings are merged by is the time its callback sees.    *)
(***************************************************************************)
EXTENDS PerfDecode, SequenceTheorems, FiniteSetTheorems, WellFoundedInduction, TLAPS

-----------------------------------------------------------------------------
(* Induction, on sets of numbers.                                          *)

LEMMA Greatest ==
    ASSUME NEW n \in Nat, NEW S, S \subseteq 0 .. n, S # {}
    PROVE  \E m \in S : \A y \in S : y <= m
  <1> DEFINE Above == {x .. n : x \in S}
  <1>1. Above \subseteq FiniteSubsetsOf(Nat)
    <2>1. \A x \in S : x .. n \in SUBSET Nat /\ IsFiniteSet(x .. n)
      BY FS_Interval
    <2> QED BY <2>1 DEF FiniteSubsetsOf
  <1>2. PICK m \in S : \A y \in Above : ~ (<<y, m .. n>> \in StrictSubsetOrdering(Nat))
    <2>1. Above # {}
      OBVIOUS
    <2>2. PICK x \in Above : \A y \in Above : ~ (<<y, x>> \in StrictSubsetOrdering(Nat))
      BY <1>1, <2>1, WFMin, FS_StrictSubsetOrderingWellFounded
    <2> QED BY <2>2
  <1>3. ASSUME NEW y \in S, y > m PROVE FALSE
    <2>1. y .. n \subseteq m .. n /\ y .. n # m .. n
      <3>1. m \in m .. n /\ m \notin y .. n
        BY <1>3
      <3>2. \A k \in y .. n : k \in m .. n
        BY <1>3
      <3> QED BY <3>1, <3>2
    <2>2. y .. n \in SUBSET Nat /\ m .. n \in SUBSET Nat /\ y .. n \in Above
      OBVIOUS
    <2>3. <<y .. n, m .. n>> \in StrictSubsetOrdering(Nat)
      BY <2>1, <2>2, Zenon DEF StrictSubsetOrdering
    <2> QED BY <1>2, <2>2, <2>3
  <1> QED BY <1>3

(* What holds at 1, and one further wherever it holds, holds up to n + 1.  *)
LEMMA UpTo ==
    ASSUME NEW n \in Nat, NEW S, 1 \in S, \A k \in 1 .. n : k \in S => k + 1 \in S
    PROVE  1 .. n + 1 \subseteq S
  <1> DEFINE Left == {n + 1 - k : k \in (1 .. n + 1) \ S}
  <1>1. SUFFICES ASSUME (1 .. n + 1) \ S # {} PROVE FALSE
    OBVIOUS
  <1>2. Left \subseteq 0 .. n /\ Left # {}
    <2>1. \A k \in 1 .. n + 1 : n + 1 - k \in 0 .. n
      OBVIOUS
    <2> QED BY <1>1, <2>1
  <1>3. PICK l \in Left : \A y \in Left : y <= l
    BY <1>2, Greatest
  <1>4. PICK k \in (1 .. n + 1) \ S : l = n + 1 - k
    OBVIOUS
  <1>5. k # 1 /\ k - 1 \in 1 .. n
    BY <1>4
  <1>6. k - 1 \in S
    <2>1. CASE k - 1 \notin S
      <3>1. n + 1 - (k - 1) \in Left
        BY <1>5, <2>1
      <3>2. n + 1 - (k - 1) <= n + 1 - k
        BY <1>3, <1>4, <3>1
      <3> QED BY <1>4, <3>2
    <2> QED BY <2>1
  <1>7. (k - 1) + 1 \in S
    BY <1>5, <1>6
  <1> QED BY <1>4, <1>7

-----------------------------------------------------------------------------
(* Where pieces start.                                                     *)

PieceNames == FieldNames \cup {"int", "unused", "data"}
Pieces == {p \in [field : PieceNames, size : Nat, int : Nat] : p.field = "int" => p.size > 0}

IsStart(s, f, n) ==
    f = [j \in 1 .. n + 1 |-> IF j = 1 THEN 8 ELSE f[j - 1] + s[j - 1].size]

LEMMA StartExists ==
    ASSUME NEW s, NEW n \in Nat
    PROVE  \E f : IsStart(s, f, n)
  <1> DEFINE S == {k \in Nat : \E f : IsStart(s, f, k - 1)}
  <1>1. 1 \in S
    <2>1. IsStart(s, [j \in 1 .. (1 - 1) + 1 |-> 8], 1 - 1)
      BY DEF IsStart
    <2> QED BY <2>1
  <1>2. ASSUME NEW k \in 1 .. n, k \in S PROVE k + 1 \in S
    <2>1. PICK g : IsStart(s, g, k - 1)
      BY <1>2
    <2> DEFINE f == [j \in 1 .. k + 1 |-> IF j = k + 1 THEN g[k] + s[k].size ELSE g[j]]
               step(j) == IF j = 1 THEN 8 ELSE f[j - 1] + s[j - 1].size
    <2>2. \A j \in 1 .. k : g[j] = IF j = 1 THEN 8 ELSE g[j - 1] + s[j - 1].size
      BY <2>1 DEF IsStart
    <2>3. ASSUME NEW j \in 1 .. k + 1 PROVE f[j] = step(j)
      <3>1. CASE j = k + 1
        <4>1. f[j - 1] = g[k] /\ f[j] = g[k] + s[k].size
          BY <3>1
        <4> QED BY <3>1, <4>1
      <3>2. CASE j # k + 1 /\ j # 1
        <4>1. f[j - 1] = g[j - 1] /\ f[j] = g[j] /\ j \in 1 .. k
          BY <3>2
        <4> QED BY <2>2, <3>2, <4>1
      <3>3. CASE j # k + 1 /\ j = 1
        BY <2>2, <3>3
      <3> QED BY <3>1, <3>2, <3>3
    <2>4. f = [j \in 1 .. k + 1 |-> step(j)]
      <3>1. f = [j \in 1 .. k + 1 |-> f[j]]
        OBVIOUS
      <3> HIDE DEF f
      <3> QED BY <2>3, <3>1
    <2>5. IsStart(s, f, k)
      <3> HIDE DEF f
      <3> QED BY <2>4 DEF IsStart
    <2>6. (k + 1) - 1 = k
      OBVIOUS
    <2> QED BY <2>5, <2>6
  <1>3. 1 .. n + 1 \subseteq S
    <2> HIDE DEF S
    <2> QED BY <1>1, <1>2, UpTo
  <1>4. n + 1 \in S /\ (n + 1) - 1 = n
    BY <1>3
  <1> QED BY <1>4

LEMMA StartSteps ==
    ASSUME NEW s, Len(s) \in Nat
    PROVE  /\ Start(s, 1) = 8
           /\ \A k \in 1 .. Len(s) : Start(s, k + 1) = Start(s, k) + s[k].size
  <1> DEFINE f == CHOOSE g : IsStart(s, g, Len(s))
  <1>1. \A k : Start(s, k) = f[k]
    BY DEF Start, IsStart
  <1>2. IsStart(s, f, Len(s))
    BY StartExists
  <1> HIDE DEF f
  <1>3. \A j \in 1 .. Len(s) + 1 : f[j] = IF j = 1 THEN 8 ELSE f[j - 1] + s[j - 1].size
    BY <1>2 DEF IsStart
  <1>4. ASSUME NEW k \in 1 .. Len(s) PROVE f[k + 1] = f[k] + s[k].size
    <2>1. k + 1 \in 1 .. Len(s) + 1 /\ k + 1 # 1 /\ (k + 1) - 1 = k
      OBVIOUS
    <2> QED BY <1>3, <2>1
  <1> QED BY <1>1, <1>3, <1>4

(* Where the next piece would start.                                       *)
End(s) == Start(s, Len(s) + 1)

Begins(p, s) == Len(p) <= Len(s) /\ \A i \in 1 .. Len(p) : s[i] = p[i]

LEMMA StartIsNat ==
    ASSUME NEW s \in Seq(Pieces)
    PROVE  \A k \in 1 .. Len(s) + 1 : Start(s, k) \in Nat
  <1> DEFINE S == {k \in 1 .. Len(s) + 1 : Start(s, k) \in Nat}
  <1>1. Len(s) \in Nat /\ \A k \in 1 .. Len(s) : s[k].size \in Nat
    BY DEF Pieces
  <1>2. 1 \in S
    BY <1>1, StartSteps
  <1>3. ASSUME NEW k \in 1 .. Len(s), k \in S PROVE k + 1 \in S
    BY <1>1, <1>3, StartSteps
  <1>4. 1 .. Len(s) + 1 \subseteq S
    <2> HIDE DEF S
    <2> QED BY <1>1, <1>2, <1>3, UpTo
  <1> QED BY <1>4

LEMMA StartsAgree ==
    ASSUME NEW s \in Seq(Pieces), NEW p \in Seq(Pieces), Begins(p, s)
    PROVE  \A k \in 1 .. Len(p) + 1 : Start(s, k) = Start(p, k)
  <1> DEFINE S == {k \in 1 .. Len(p) + 1 : Start(s, k) = Start(p, k)}
  <1>1. Len(s) \in Nat /\ Len(p) \in Nat /\ Len(p) <= Len(s)
    BY DEF Begins
  <1>2. 1 \in S
    BY <1>1, StartSteps
  <1>3. ASSUME NEW k \in 1 .. Len(p), k \in S PROVE k + 1 \in S
    <2>1. k \in 1 .. Len(s) /\ s[k] = p[k]
      BY <1>1 DEF Begins
    <2>2. Start(s, k + 1) = Start(s, k) + s[k].size
      BY <1>1, <2>1, StartSteps
    <2>3. Start(p, k + 1) = Start(p, k) + p[k].size
      BY <1>1, StartSteps
    <2> QED BY <1>3, <2>1, <2>2, <2>3
  <1>4. 1 .. Len(p) + 1 \subseteq S
    <2> HIDE DEF S
    <2> QED BY <1>1, <1>2, <1>3, UpTo
  <1> QED BY <1>4

(* An integer has a size: nothing after it starts where it does.           *)
LEMMA StartsGrow ==
    ASSUME NEW s \in Seq(Pieces), NEW i \in 1 .. Len(s)
    PROVE  \A k \in 1 .. Len(s) + 1 : k > i => Start(s, k) >= Start(s, i) + s[i].size
  <1> DEFINE S == {k \in 1 .. Len(s) + 1 : k > i => Start(s, k) >= Start(s, i) + s[i].size}
  <1>1. Len(s) \in Nat /\ \A k \in 1 .. Len(s) : s[k].size \in Nat
    BY DEF Pieces
  <1>2. 1 \in S
    BY <1>1
  <1>3. ASSUME NEW k \in 1 .. Len(s), k \in S PROVE k + 1 \in S
    <2>1. /\ Start(s, k + 1) = Start(s, k) + s[k].size
          /\ Start(s, k) \in Nat /\ s[k].size \in Nat
          /\ Start(s, i) \in Nat /\ s[i].size \in Nat
      BY <1>1, StartSteps, StartIsNat
    <2>2. CASE k > i
      <3>1. Start(s, k) >= Start(s, i) + s[i].size
        BY <1>3, <2>2
      <3> QED BY <2>1, <3>1
    <2>3. CASE k = i
      <3>1. Start(s, k + 1) >= Start(s, i) + s[i].size
        BY <2>1, <2>3
      <3> QED BY <3>1
    <2>4. CASE k < i
      BY <2>4
    <2> QED BY <2>2, <2>3, <2>4
  <1>4. 1 .. Len(s) + 1 \subseteq S
    <2> HIDE DEF S
    <2> QED BY <1>1, <1>2, <1>3, UpTo
  <1> QED BY <1>4

(* A piece behind what the record begins with.                             *)
LEMMA Behind ==
    ASSUME NEW s \in Seq(Pieces), NEW p \in Seq(Pieces), NEW x \in Pieces,
           Begins(p \o <<x>>, s)
    PROVE  /\ Begins(p, s) /\ p \o <<x>> \in Seq(Pieces)
           /\ Len(p) + 1 \in 1 .. Len(s) /\ s[Len(p) + 1] = x
           /\ Start(s, Len(p) + 1) = End(p) /\ End(p) \in Nat
           /\ End(p \o <<x>>) = End(p) + x.size
  <1> DEFINE q == p \o <<x>>
  <1>1. /\ q \in Seq(Pieces) /\ Len(p) \in Nat /\ Len(q) = Len(p) + 1
        /\ q[Len(p) + 1] = x /\ \A i \in 1 .. Len(p) : q[i] = p[i]
    OBVIOUS
  <1> HIDE DEF q
  <1>2. Begins(q, s)
    BY DEF q
  <1>3. Begins(p, s) /\ Begins(p, q)
    BY <1>1, <1>2 DEF Begins
  <1>4. Len(p) + 1 \in 1 .. Len(s) /\ s[Len(p) + 1] = x
    BY <1>1, <1>2 DEF Begins
  <1>5. Start(s, Len(p) + 1) = End(p) /\ End(p) \in Nat
    BY <1>1, <1>3, StartsAgree, StartIsNat DEF End
  <1>6. End(q) = End(p) + x.size
    <2>1. Start(q, Len(p) + 1) = End(p)
      BY <1>1, <1>3, StartsAgree DEF End
    <2>2. Start(q, (Len(p) + 1) + 1) = Start(q, Len(p) + 1) + q[Len(p) + 1].size
      BY <1>1, StartSteps, SMTT(40)
    <2> QED BY <1>1, <2>1, <2>2 DEF End
  <1> QED BY <1>1, <1>3, <1>4, <1>5, <1>6 DEF q

-----------------------------------------------------------------------------
(* What the kernel wrote.                                                  *)

FieldsOf(s) == {s[k].field : k \in 1 .. Len(s)}

OnePerField(s) ==
    \A i, j \in 1 .. Len(s) : s[i].field = s[j].field /\ s[i].field # "int" => i = j

LEMMA FieldAt ==
    ASSUME NEW s \in Seq(Pieces), OnePerField(s), NEW k \in 1 .. Len(s), s[k].field # "int"
    PROVE  Layout(s).at[s[k].field] = <<Start(s, k), Start(s, k) + s[k].size>>
  <1> DEFINE j == CHOOSE i \in 1 .. Len(s) : s[i].field = s[k].field
  <1>1. j \in 1 .. Len(s) /\ s[j].field = s[k].field
    OBVIOUS
  <1>2. j = k
    <2> HIDE DEF j
    <2> QED BY <1>1 DEF OnePerField
  <1>3. Layout(s).at[s[k].field] = <<Start(s, j), Start(s, j) + s[j].size>>
    BY DEF Layout
  <1> QED BY <1>2, <1>3

LEMMA LayoutDomain ==
    ASSUME NEW s
    PROVE  DOMAIN Layout(s).at = FieldsOf(s) \ {"int"} /\ Layout(s).size = End(s)
  BY DEF Layout, FieldsOf, End

LEMMA IntAt ==
    ASSUME NEW s \in Seq(Pieces), NEW k \in 1 .. Len(s), s[k].field = "int"
    PROVE  ReadInt(Layout(s), Start(s, k)) = s[k].int
  <1> DEFINE o == Start(s, k)
             Ints == {i \in 1 .. Len(s) : s[i].field = "int"}
             j == CHOOSE i \in 1 .. Len(s) : s[i].field = "int" /\ Start(s, i) = o
  <1>1. j \in 1 .. Len(s) /\ s[j].field = "int" /\ Start(s, j) = o
    OBVIOUS
  <1>2. j = k
    <2> HIDE DEF j, o
    <2>1. /\ s[j].size \in Nat /\ s[j].size > 0 /\ s[k].size \in Nat /\ s[k].size > 0
          /\ Start(s, j) \in Nat /\ Start(s, k) \in Nat /\ j \in Int /\ k \in Int
          /\ Len(s) \in Nat
      <3>1. Len(s) \in Nat /\ j \in 1 .. Len(s) /\ s[j] \in Pieces /\ s[k] \in Pieces
        BY <1>1
      <3>2. s[j].size \in Nat /\ s[j].size > 0 /\ s[k].size \in Nat /\ s[k].size > 0
        BY <1>1, <3>1 DEF Pieces
      <3>3. j \in 1 .. Len(s) + 1 /\ k \in 1 .. Len(s) + 1
        BY <3>1
      <3>4. Start(s, j) \in Nat /\ Start(s, k) \in Nat
        BY <3>3, StartIsNat
      <3> QED BY <3>1, <3>2, <3>4
    <2>2. CASE j > k
      <3>1. Start(s, j) >= Start(s, k) + s[k].size
        BY <1>1, <2>1, <2>2, StartsGrow
      <3> QED BY <1>1, <2>1, <3>1 DEF o
    <2>3. CASE k > j
      <3>1. Start(s, k) >= Start(s, j) + s[j].size
        BY <1>1, <2>1, <2>3, StartsGrow
      <3> QED BY <1>1, <2>1, <3>1 DEF o
    <2> QED BY <2>1, <2>2, <2>3
  <1>3. o \in {Start(s, i) : i \in Ints}
    OBVIOUS
  <1>4. /\ DOMAIN Layout(s).ints = {Start(s, i) : i \in Ints}
        /\ Layout(s).ints[o] = s[j].int
    BY <1>3 DEF Layout
  <1> QED BY <1>2, <1>3, <1>4 DEF ReadInt

-----------------------------------------------------------------------------
(* How far a record is decoded: w is behind p, the record begins with p,   *)
(* and the fields that are done are those of the record.                   *)

Agree(s, p, w, done) ==
    /\ Begins(p, s) /\ p \in Seq(Pieces) /\ w.o = End(p) /\ End(p) \in Nat
    /\ w = [o |-> w.o, f |-> w.f] /\ w.f = [f \in FieldNames |-> w.f[f]]
    /\ FieldsOf(p) \subseteq done \cup {"int"}
    /\ \A f \in done \cap FieldNames :
            w.f[f] = IF f \in FieldsOf(p) THEN Layout(s).at[f] ELSE Unset

LEMMA FieldsOfNext ==
    ASSUME NEW p \in Seq(Pieces), NEW x \in Pieces
    PROVE  FieldsOf(p \o <<x>>) = FieldsOf(p) \cup {x.field}
  <1> DEFINE q == p \o <<x>>
  <1>1. /\ Len(p) \in Nat /\ Len(q) = Len(p) + 1
        /\ q[Len(p) + 1] = x /\ \A i \in 1 .. Len(p) : q[i] = p[i]
    OBVIOUS
  <1> HIDE DEF q
  <1>2. 1 .. Len(q) = 1 .. Len(p) \cup {Len(p) + 1}
    BY <1>1
  <1>3. FieldsOf(q) = FieldsOf(p) \cup {x.field}
    BY <1>1, <1>2 DEF FieldsOf
  <1> QED BY <1>3 DEF q

LEMMA Updated ==
    ASSUME NEW s \in Seq(Pieces), OnePerField(s), NEW p, NEW w, NEW done,
           Agree(s, p, w, done), NEW x \in Pieces, NEW q, q = p \o <<x>>, Begins(q, s),
           NEW field \in FieldNames \ done, NEW size, x.field = field, x.size = size
    PROVE  Agree(s, q, Update(w, field, size), done \cup {field})
  <1> DEFINE v == Update(w, x.field, x.size)
  <1>1. /\ p \in Seq(Pieces) /\ w.o = End(p) /\ End(p) \in Nat
        /\ w = [o |-> w.o, f |-> w.f] /\ w.f = [f \in FieldNames |-> w.f[f]]
        /\ FieldsOf(p) \subseteq done \cup {"int"}
        /\ \A f \in done \cap FieldNames :
                w.f[f] = IF f \in FieldsOf(p) THEN Layout(s).at[f] ELSE Unset
    BY DEF Agree
  <1>2. /\ q \in Seq(Pieces) /\ Begins(q, s) /\ End(q) = End(p) + x.size
        /\ Len(p) + 1 \in 1 .. Len(s) /\ s[Len(p) + 1] = x
        /\ Start(s, Len(p) + 1) = End(p) /\ x.size \in Nat
    BY <1>1, Behind DEF Pieces
  <1>3. x.field # "int"
    BY DEF FieldNames
  <1>4. Layout(s).at[x.field] = <<End(p), End(p) + x.size>>
    BY <1>2, <1>3, FieldAt
  <1>5. FieldsOf(q) = FieldsOf(p) \cup {x.field}
    BY <1>1, FieldsOfNext
  <1>6. /\ v.o = End(q) /\ v = [o |-> v.o, f |-> v.f]
        /\ v.f = [f \in FieldNames |-> v.f[f]]
        /\ v.f[x.field] = <<End(p), End(p) + x.size>>
        /\ \A f \in FieldNames \ {x.field} : v.f[f] = w.f[f]
    BY <1>1, <1>2 DEF Update
  <1> HIDE DEF v
  <1>7. \A f \in (done \cup {x.field}) \cap FieldNames :
            v.f[f] = IF f \in FieldsOf(q) THEN Layout(s).at[f] ELSE Unset
    BY <1>1, <1>4, <1>5, <1>6
  <1>8. Agree(s, q, v, done \cup {x.field})
    BY <1>1, <1>2, <1>5, <1>6, <1>7, SMTT(40) DEF Agree
  <1> QED BY <1>8 DEF v

LEMMA ResetKeeps ==
    ASSUME NEW s, NEW p, NEW w, NEW done, Agree(s, p, w, done),
           NEW f \in FieldNames \ done
    PROVE  Agree(s, p, Reset(w, f), done \cup {f})
  <1> DEFINE v == Reset(w, f)
  <1>1. f # "int"
    BY DEF FieldNames
  <1>2. /\ v.o = w.o /\ v = [o |-> v.o, f |-> v.f]
        /\ v.f = [g \in FieldNames |-> v.f[g]] /\ v.f[f] = Unset
        /\ \A g \in FieldNames \ {f} : v.f[g] = w.f[g]
    BY DEF Agree, Reset
  <1> HIDE DEF v
  <1>3. f \notin FieldsOf(p)
    BY <1>1 DEF Agree
  <1>4. Agree(s, p, v, done \cup {f})
    BY <1>2, <1>3 DEF Agree
  <1> QED BY <1>4 DEF v

(* An integer, or what is not read, is passed over.                        *)
Skip(w, size) == [w EXCEPT !.o = @ + size]

LEMMA Passed ==
    ASSUME NEW s \in Seq(Pieces), NEW p, NEW w, NEW done, Agree(s, p, w, done),
           NEW x \in Pieces, NEW q, q = p \o <<x>>, Begins(q, s),
           NEW field, NEW size, x.field = field, x.size = size, field \notin FieldNames
    PROVE  /\ Agree(s, q, Skip(w, size), done \cup {field})
           /\ field = "int" => ReadInt(Layout(s), w.o) = x.int
  <1> DEFINE v == Skip(w, x.size)
  <1>1. p \in Seq(Pieces) /\ w.o = End(p) /\ End(p) \in Nat
    BY DEF Agree
  <1>2. /\ q \in Seq(Pieces) /\ Begins(q, s) /\ End(q) = End(p) + x.size
        /\ Len(p) + 1 \in 1 .. Len(s) /\ s[Len(p) + 1] = x
        /\ Start(s, Len(p) + 1) = End(p) /\ x.size \in Nat
    BY <1>1, Behind DEF Pieces
  <1>3. FieldsOf(q) = FieldsOf(p) \cup {x.field}
    BY <1>1, FieldsOfNext
  <1>4. v.o = End(q) /\ v.f = w.f /\ v = [o |-> v.o, f |-> v.f] /\ End(q) \in Nat
    <2>1. w = [o |-> w.o, f |-> w.f]
      BY DEF Agree
    <2>2. v = [o |-> w.o + x.size, f |-> w.f]
      BY <2>1 DEF Skip
    <2> HIDE DEF v
    <2> QED BY <1>1, <1>2, <2>2
  <1>5. x.field = "int" => ReadInt(Layout(s), w.o) = x.int
    BY <1>1, <1>2, IntAt
  <1> HIDE DEF v
  <1>6. Agree(s, q, v, done \cup {x.field})
    BY <1>2, <1>3, <1>4 DEF Agree
  <1> QED BY <1>5, <1>6 DEF v

-----------------------------------------------------------------------------
(* Records, piece by piece.                                                *)

LEMMA Pair ==
    ASSUME NEW x \in Pieces, NEW y \in Pieces
    PROVE  <<x>> \o <<y>> = <<x, y>>
  <1>1. <<x>> \in Seq(Pieces) /\ <<y>> \in Seq(Pieces) /\ <<x, y>> \in Seq(Pieces)
    OBVIOUS
  <1>2. /\ <<x>> \o <<y>> \in Seq(Pieces) /\ Len(<<x>> \o <<y>>) = 2
        /\ \A i \in 1 .. 2 : (<<x>> \o <<y>>)[i] = IF i <= 1 THEN <<x>>[i] ELSE <<y>>[i - 1]
    BY <1>1, ConcatProperties
  <1>3. Len(<<x, y>>) = 2 /\ \A i \in 1 .. 2 : <<x, y>>[i] = (<<x>> \o <<y>>)[i]
    BY <1>2
  <1> QED BY <1>1, <1>2, <1>3, SeqEqual

LEMMA Triple ==
    ASSUME NEW x \in Pieces, NEW y \in Pieces, NEW z \in Pieces
    PROVE  <<x, y>> \o <<z>> = <<x, y, z>>
  <1>1. <<x, y>> \in Seq(Pieces) /\ <<z>> \in Seq(Pieces) /\ <<x, y, z>> \in Seq(Pieces)
    OBVIOUS
  <1>2. /\ <<x, y>> \o <<z>> \in Seq(Pieces) /\ Len(<<x, y>> \o <<z>>) = 3
        /\ \A i \in 1 .. 3 : (<<x, y>> \o <<z>>)[i] = IF i <= 2 THEN <<x, y>>[i] ELSE <<z>>[i - 2]
    BY <1>1, ConcatProperties
  <1>3. Len(<<x, y, z>>) = 3 /\ \A i \in 1 .. 3 : <<x, y, z>>[i] = (<<x, y>> \o <<z>>)[i]
    BY <1>2
  <1> QED BY <1>1, <1>2, <1>3, SeqEqual

LEMMA Quadruple ==
    ASSUME NEW x \in Pieces, NEW y \in Pieces, NEW z \in Pieces, NEW u \in Pieces
    PROVE  <<x, y, z>> \o <<u>> = <<x, y, z, u>>
  <1>1. /\ <<x, y, z>> \in Seq(Pieces) /\ <<u>> \in Seq(Pieces)
        /\ <<x, y, z, u>> \in Seq(Pieces)
    OBVIOUS
  <1>2. /\ <<x, y, z>> \o <<u>> \in Seq(Pieces) /\ Len(<<x, y, z>> \o <<u>>) = 4
        /\ \A i \in 1 .. 4 :
                (<<x, y, z>> \o <<u>>)[i] = IF i <= 3 THEN <<x, y, z>>[i] ELSE <<u>>[i - 3]
    BY <1>1, ConcatProperties
  <1>3. /\ Len(<<x, y, z, u>>) = 4
        /\ \A i \in 1 .. 4 : <<x, y, z, u>>[i] = (<<x, y, z>> \o <<u>>)[i]
    BY <1>2
  <1> QED BY <1>1, <1>2, <1>3, SeqEqual

LEMMA Split ==
    ASSUME NEW p \in Seq(Pieces), NEW x \in Pieces, NEW y \in Pieces
    PROVE  p \o <<x, y>> = (p \o <<x>>) \o <<y>>
  <1>1. <<x>> \in Seq(Pieces) /\ <<y>> \in Seq(Pieces)
    OBVIOUS
  <1>2. (p \o <<x>>) \o <<y>> = p \o (<<x>> \o <<y>>)
    BY <1>1, ConcatAssociative
  <1> QED BY <1>2, Pair

LEMMA SplitThree ==
    ASSUME NEW p \in Seq(Pieces), NEW x \in Pieces, NEW y \in Pieces, NEW z \in Pieces
    PROVE  p \o <<x, y, z>> = ((p \o <<x>>) \o <<y>>) \o <<z>>
  <1>1. <<x, y>> \in Seq(Pieces) /\ <<z>> \in Seq(Pieces)
    OBVIOUS
  <1>2. (p \o <<x, y>>) \o <<z>> = p \o (<<x, y>> \o <<z>>)
    BY <1>1, ConcatAssociative
  <1> QED BY <1>2, Split, Triple

LEMMA SplitFour ==
    ASSUME NEW p \in Seq(Pieces), NEW x \in Pieces, NEW y \in Pieces, NEW z \in Pieces,
           NEW u \in Pieces
    PROVE  p \o <<x, y, z, u>> = (((p \o <<x>>) \o <<y>>) \o <<z>>) \o <<u>>
  <1>1. <<x, y, z>> \in Seq(Pieces) /\ <<u>> \in Seq(Pieces)
    OBVIOUS
  <1>2. (p \o <<x, y, z>>) \o <<u>> = p \o (<<x, y, z>> \o <<u>>)
    BY <1>1, ConcatAssociative
  <1>3. <<x, y, z>> \o <<u>> = <<x, y, z, u>>
    BY Quadruple
  <1>4. p \o <<x, y, z>> = ((p \o <<x>>) \o <<y>>) \o <<z>>
    BY SplitThree
  <1> QED BY <1>2, <1>3, <1>4, Zenon

LEMMA BeginsBefore ==
    ASSUME NEW s, NEW p \in Seq(Pieces), NEW q \in Seq(Pieces), Begins(p \o q, s),
           Len(s) \in Nat
    PROVE  Begins(p, s)
  <1> DEFINE r == p \o q
  <1>1. /\ Len(r) = Len(p) + Len(q) /\ Len(p) \in Nat /\ Len(q) \in Nat
        /\ \A i \in 1 .. Len(p) : r[i] = p[i]
    OBVIOUS
  <1>2. Begins(r, s)
    OBVIOUS
  <1> HIDE DEF r
  <1> QED BY <1>1, <1>2 DEF Begins

(* No field comes twice.                                                   *)
Laid(p, has) ==
    p \in Seq(Pieces) /\ OnePerField(p) /\ FieldsOf(p) \subseteq has \cup {"int"}

LEMMA LaidNext ==
    ASSUME NEW p, NEW has, Laid(p, has), NEW x \in Pieces,
           x.field \notin has \/ x.field = "int"
    PROVE  Laid(p \o <<x>>, has \cup {x.field})
  <1> DEFINE q == p \o <<x>>
  <1>1. /\ p \in Seq(Pieces) /\ Len(p) \in Nat /\ Len(q) = Len(p) + 1
        /\ q[Len(p) + 1] = x /\ \A i \in 1 .. Len(p) : q[i] = p[i]
        /\ q \in Seq(Pieces)
    BY DEF Laid
  <1>2. FieldsOf(q) = FieldsOf(p) \cup {x.field}
    BY <1>1, FieldsOfNext
  <1> HIDE DEF q
  <1>3. \A i \in 1 .. Len(p) : q[i].field \in FieldsOf(p)
    BY <1>1 DEF FieldsOf
  <1>4. OnePerField(q)
    <2> SUFFICES ASSUME NEW i \in 1 .. Len(q), NEW j \in 1 .. Len(q),
                        q[i].field = q[j].field, q[i].field # "int"
                 PROVE  i = j
      BY DEF OnePerField
    <2>1. i \in 1 .. Len(p) \/ i = Len(p) + 1
      BY <1>1
    <2>2. j \in 1 .. Len(p) \/ j = Len(p) + 1
      BY <1>1
    <2>3. CASE i \in 1 .. Len(p) /\ j \in 1 .. Len(p)
      BY <1>1, <2>3 DEF Laid, OnePerField
    <2>4. CASE i = Len(p) + 1 /\ j \in 1 .. Len(p)
      BY <1>1, <1>3, <2>4 DEF Laid
    <2>5. CASE i \in 1 .. Len(p) /\ j = Len(p) + 1
      BY <1>1, <1>3, <2>5 DEF Laid
    <2> QED BY <2>1, <2>2, <2>3, <2>4, <2>5
  <1> QED BY <1>1, <1>2, <1>4 DEF Laid, q

-----------------------------------------------------------------------------
(* The pieces of a sample.                                                 *)

SampleAttributes ==
    {a \in SUBSET (CommonFormats \cup {"RAW"} \cup OptionFormats) : CommonFormats \subseteq a}

ValuesOfSample ==
    {v \in [frames : Nat, raw : Nat, abi : {0, 2}, stack : Nat] :
        (4 + v.raw) % 8 = 0 /\ v.stack <= StackBytes}

LEMMA PieceIs ==
    ASSUME NEW field \in FieldNames \cup {"unused", "data"}, NEW size \in Nat
    PROVE  Piece(field, size) \in Pieces /\ Piece(field, size).field = field
           /\ Piece(field, size).size = size
  BY DEF Piece, Pieces, PieceNames, FieldNames

LEMMA CountIs ==
    ASSUME NEW size \in Nat \ {0}, NEW n \in Nat
    PROVE  Count(size, n) \in Pieces /\ Count(size, n).field = "int"
           /\ Count(size, n).size = size /\ Count(size, n).int = n
  BY DEF Count, Pieces, PieceNames

(* The record up to each of the pieces that it may have.                   *)
IdPart(a) == If("IDENTIFIER" \in a, <<Piece("id", 8)>>)
IpPart(a) == If("IP" \in a, <<Piece("ip", 8)>>)
ThreadPart == <<Piece("pid", 4), Piece("tid", 4), Piece("time", 8)>>
ChainPart(a, v) ==
    If("CALLCHAIN" \in a, <<Count(8, v.frames), Piece("callchain", 8 * v.frames)>>)
RawPart(a, v) == If("RAW" \in a, <<Count(4, v.raw), Piece("raw", v.raw)>>)
RegsPart(a, v) ==
    If("REGS_USER" \in a,
       <<Count(8, v.abi), Piece("regs", IF v.abi = 0 THEN 0 ELSE 8 * Regs)>>)
StackDump(v) ==
    IF v.abi = 0 THEN <<Count(8, 0)>>
    ELSE <<Count(8, StackBytes), Piece("stack", v.stack),
           Piece("unused", StackBytes - v.stack), Count(8, v.stack)>>
StackPart(a, v) == If("STACK_USER" \in a, StackDump(v))
CgroupPart(a) == If("CGROUP" \in a, <<Piece("cgroup", 8)>>)

ToThread(a) == (IdPart(a) \o IpPart(a)) \o ThreadPart
ToChain(a, v) == ToThread(a) \o ChainPart(a, v)
ToRaw(a, v) == ToChain(a, v) \o RawPart(a, v)
ToRegs(a, v) == ToRaw(a, v) \o RegsPart(a, v)
ToStack(a, v) == ToRegs(a, v) \o StackPart(a, v)

LEMMA SampleIs ==
    ASSUME NEW a, NEW v
    PROVE  SamplePieces(a, v) = ToStack(a, v) \o CgroupPart(a)
  BY DEF SamplePieces, IdPart, IpPart, ThreadPart, ChainPart, RawPart, RegsPart, StackPart,
         StackDump, CgroupPart, ToThread, ToChain, ToRaw, ToRegs, ToStack

LEMMA LaidOne ==
    ASSUME NEW p, NEW has, Laid(p, has), NEW x \in Pieces, x.field \notin has,
           NEW part, part = << >> \/ part = <<x>>
    PROVE  Laid(p \o part, has \cup {x.field})
  <1>1. CASE part = <<x>>
    BY <1>1, LaidNext
  <1>2. CASE part = << >>
    <2>1. p \o part = p
      BY <1>2, ConcatEmptySeq DEF Laid
    <2> QED BY <2>1 DEF Laid
  <1> QED BY <1>1, <1>2

LEMMA LaidCounted ==
    ASSUME NEW p, NEW has, Laid(p, has), NEW c \in Pieces, c.field = "int",
           NEW x \in Pieces, x.field \notin has, x.field # "int",
           NEW part, part = << >> \/ part = <<c, x>>
    PROVE  Laid(p \o part, has \cup {"int", x.field})
  <1>1. CASE part = <<c, x>>
    <2>1. p \o part = (p \o <<c>>) \o <<x>>
      BY <1>1, Split DEF Laid
    <2>2. Laid(p \o <<c>>, has \cup {"int"})
      BY LaidNext
    <2>3. Laid((p \o <<c>>) \o <<x>>, (has \cup {"int"}) \cup {x.field})
      BY <2>2, LaidNext
    <2>4. (has \cup {"int"}) \cup {x.field} = has \cup {"int", x.field}
      OBVIOUS
    <2> QED BY <2>1, <2>3, <2>4
  <1>2. CASE part = << >>
    <2>1. p \o part = p
      BY <1>2, ConcatEmptySeq DEF Laid
    <2> QED BY <2>1 DEF Laid
  <1> QED BY <1>1, <1>2

LEMMA DumpIs ==
    ASSUME NEW v \in ValuesOfSample, v.abi # 0, NEW p \in Seq(Pieces)
    PROVE  p \o StackDump(v) =
                (((p \o <<Count(8, StackBytes)>>) \o <<Piece("stack", v.stack)>>)
                    \o <<Piece("unused", StackBytes - v.stack)>>) \o <<Count(8, v.stack)>>
  <1> DEFINE c == Count(8, StackBytes)
             x == Piece("stack", v.stack)
             u == Piece("unused", StackBytes - v.stack)
             d == Count(8, v.stack)
  <1>1. v.stack \in Nat /\ StackBytes \in Nat /\ StackBytes - v.stack \in Nat
    BY SizesAssumption DEF ValuesOfSample
  <1>2. c \in Pieces /\ d \in Pieces
    BY <1>1, CountIs
  <1>3. x \in Pieces /\ u \in Pieces
    BY <1>1, PieceIs DEF FieldNames
  <1>4. StackDump(v) = <<c, x, u, d>>
    BY DEF StackDump
  <1> HIDE DEF c, x, u, d
  <1>5. \A e1, e2, e3, e4 \in Pieces :
            p \o <<e1, e2, e3, e4>> = (((p \o <<e1>>) \o <<e2>>) \o <<e3>>) \o <<e4>>
    BY SplitFour
  <1>6. \A e3, e4 \in Pieces :
            p \o <<c, x, e3, e4>> = (((p \o <<c>>) \o <<x>>) \o <<e3>>) \o <<e4>>
    BY <1>2, <1>3, <1>5, Zenon
  <1>7. p \o <<c, x, u, d>> = (((p \o <<c>>) \o <<x>>) \o <<u>>) \o <<d>>
    BY <1>2, <1>3, <1>6, Zenon
  <1> QED BY <1>4, <1>7 DEF c, x, u, d

LEMMA LaidStack ==
    ASSUME NEW v \in ValuesOfSample, NEW a, NEW p, NEW has, Laid(p, has),
           has \cap {"stack", "unused"} = {}
    PROVE  Laid(p \o StackPart(a, v), has \cup {"int", "stack", "unused"})
  <1> DEFINE c == Count(8, StackBytes)
             x == Piece("stack", v.stack)
             u == Piece("unused", StackBytes - v.stack)
             d == Count(8, v.stack)
             z == Count(8, 0)
  <1>1. /\ v.stack \in Nat /\ StackBytes \in Nat /\ StackBytes - v.stack \in Nat
        /\ "stack" \in FieldNames /\ p \in Seq(Pieces)
    BY SizesAssumption DEF ValuesOfSample, FieldNames, Laid
  <1>2. /\ c \in Pieces /\ c.field = "int" /\ d \in Pieces /\ d.field = "int"
        /\ z \in Pieces /\ z.field = "int"
    BY <1>1, CountIs
  <1>3. x \in Pieces /\ x.field = "stack" /\ u \in Pieces /\ u.field = "unused"
    BY <1>1, PieceIs
  <1>4. StackDump(v) = IF v.abi = 0 THEN <<z>> ELSE <<c, x, u, d>>
    BY DEF StackDump
  <1> HIDE DEF c, x, u, d, z
  <1>5. CASE "STACK_USER" \notin a
    <2>1. p \o StackPart(a, v) = p
      BY <1>1, <1>5, ConcatEmptySeq DEF If, StackPart
    <2> QED BY <2>1 DEF Laid
  <1>6. CASE "STACK_USER" \in a /\ v.abi = 0
    <2>1. p \o StackPart(a, v) = p \o <<z>>
      BY <1>4, <1>6 DEF If, StackPart
    <2>2. Laid(p \o <<z>>, has \cup {"int"})
      BY <1>2, LaidNext
    <2> QED BY <2>1, <2>2 DEF Laid
  <1>7. CASE "STACK_USER" \in a /\ v.abi # 0
    <2>0. StackPart(a, v) = StackDump(v)
      BY <1>7 DEF If, StackPart
    <2>1. p \o StackPart(a, v) = (((p \o <<c>>) \o <<x>>) \o <<u>>) \o <<d>>
      BY <1>1, <1>7, <2>0, DumpIs DEF c, x, u, d
    <2>2. Laid(p \o <<c>>, has \cup {"int"})
      BY <1>2, LaidNext
    <2>3. Laid((p \o <<c>>) \o <<x>>, (has \cup {"int"}) \cup {"stack"})
      BY <1>3, <2>2, LaidNext
    <2>4. Laid(((p \o <<c>>) \o <<x>>) \o <<u>>,
               ((has \cup {"int"}) \cup {"stack"}) \cup {"unused"})
      BY <1>3, <2>3, LaidNext
    <2>5. Laid((((p \o <<c>>) \o <<x>>) \o <<u>>) \o <<d>>,
               (((has \cup {"int"}) \cup {"stack"}) \cup {"unused"}) \cup {"int"})
      BY <1>2, <2>4, LaidNext
    <2>6. (((has \cup {"int"}) \cup {"stack"}) \cup {"unused"}) \cup {"int"}
            = has \cup {"int", "stack", "unused"}
      OBVIOUS
    <2> QED BY <2>1, <2>5, <2>6
  <1> QED BY <1>5, <1>6, <1>7

LEMMA EmptyLaid == Laid(<< >>, {})
  <1>1. << >> \in Seq(Pieces) /\ Len(<< >>) = 0
    BY EmptySeq
  <1>2. 1 .. 0 = {}
    OBVIOUS
  <1> QED BY <1>1, <1>2 DEF Laid, OnePerField, FieldsOf

(* A sample and what it begins with are laid out.                          *)
LEMMA SampleLaid ==
    ASSUME NEW a \in SampleAttributes, NEW v \in ValuesOfSample
    PROVE  /\ \E has : Laid(IdPart(a) \o IpPart(a), has)
           /\ \E has : Laid(ToThread(a), has)
           /\ \E has : Laid(ToChain(a, v), has)
           /\ \E has : Laid(ToRaw(a, v), has)
           /\ \E has : Laid(ToRegs(a, v), has)
           /\ \E has : Laid(ToStack(a, v), has)
           /\ \E has : Laid(SamplePieces(a, v), has)
  <1>1. /\ v.frames \in Nat /\ v.raw \in Nat /\ v.abi \in {0, 2} /\ v.abi \in Nat
        /\ Regs \in Nat /\ 8 * v.frames \in Nat
        /\ (IF v.abi = 0 THEN 0 ELSE 8 * Regs) \in Nat
    BY SizesAssumption DEF ValuesOfSample
  <1>2. Laid(IdPart(a), {"id"})
    <2>1. Piece("id", 8) \in Pieces /\ Piece("id", 8).field = "id"
      BY PieceIs DEF FieldNames
    <2>2. Laid(<< >> \o <<Piece("id", 8)>>, {} \cup {"id"})
      BY <2>1, EmptyLaid, LaidNext
    <2>3. << >> \o <<Piece("id", 8)>> = <<Piece("id", 8)>>
      <3>1. <<Piece("id", 8)>> \in Seq(Pieces)
        BY <2>1
      <3> QED BY <3>1, ConcatEmptySeq
    <2>4. IdPart(a) = <<Piece("id", 8)>> /\ {} \cup {"id"} = {"id"}
      BY DEF IdPart, If, SampleAttributes, CommonFormats
    <2> QED BY <2>2, <2>3, <2>4
  <1>3. Laid(IdPart(a) \o IpPart(a), {"id", "ip"})
    <2>1. Piece("ip", 8) \in Pieces /\ Piece("ip", 8).field = "ip"
      BY PieceIs DEF FieldNames
    <2>0. IpPart(a) = << >> \/ IpPart(a) = <<Piece("ip", 8)>>
      BY DEF IpPart, If
    <2>2. Laid(IdPart(a) \o IpPart(a), {"id"} \cup {"ip"})
      BY <1>2, <2>0, <2>1, LaidOne
    <2>3. {"id"} \cup {"ip"} = {"id", "ip"}
      OBVIOUS
    <2> QED BY <2>2, <2>3
  <1>4. Laid(ToThread(a), {"id", "ip", "pid", "tid", "time"})
    <2> DEFINE p == IdPart(a) \o IpPart(a)
               x == Piece("pid", 4)
               y == Piece("tid", 4)
               z == Piece("time", 8)
    <2>1. /\ x \in Pieces /\ x.field = "pid" /\ y \in Pieces /\ y.field = "tid"
          /\ z \in Pieces /\ z.field = "time"
      BY PieceIs DEF FieldNames
    <2>2. p \in Seq(Pieces) /\ ToThread(a) = p \o <<x, y, z>> /\ Laid(p, {"id", "ip"})
      BY <1>3 DEF Laid, ToThread, ThreadPart
    <2> HIDE DEF p, x, y, z
    <2>3. ToThread(a) = ((p \o <<x>>) \o <<y>>) \o <<z>>
      BY <2>1, <2>2, SplitThree
    <2>4. Laid(p \o <<x>>, {"id", "ip"} \cup {"pid"})
      BY <2>1, <2>2, LaidNext
    <2>5. Laid((p \o <<x>>) \o <<y>>, ({"id", "ip"} \cup {"pid"}) \cup {"tid"})
      BY <2>1, <2>4, LaidNext
    <2>6. Laid(((p \o <<x>>) \o <<y>>) \o <<z>>,
               (({"id", "ip"} \cup {"pid"}) \cup {"tid"}) \cup {"time"})
      BY <2>1, <2>5, LaidNext
    <2>7. (({"id", "ip"} \cup {"pid"}) \cup {"tid"}) \cup {"time"}
            = {"id", "ip", "pid", "tid", "time"}
      OBVIOUS
    <2> QED BY <2>3, <2>6, <2>7
  <1>5. Laid(ToChain(a, v), {"id", "ip", "pid", "tid", "time"} \cup {"int", "callchain"})
    <2>1. Count(8, v.frames) \in Pieces /\ Count(8, v.frames).field = "int"
      BY <1>1, CountIs
    <2>2. /\ Piece("callchain", 8 * v.frames) \in Pieces
          /\ Piece("callchain", 8 * v.frames).field = "callchain"
      BY <1>1, PieceIs DEF FieldNames
    <2>3. \/ ChainPart(a, v) = << >>
          \/ ChainPart(a, v) = <<Count(8, v.frames), Piece("callchain", 8 * v.frames)>>
      BY DEF ChainPart, If
    <2> QED BY <1>4, <2>1, <2>2, <2>3, LaidCounted DEF ToChain
  <1>6. Laid(ToRaw(a, v), ({"id", "ip", "pid", "tid", "time"} \cup {"int", "callchain"})
                            \cup {"int", "raw"})
    <2>1. Count(4, v.raw) \in Pieces /\ Count(4, v.raw).field = "int"
      BY <1>1, CountIs
    <2>2. Piece("raw", v.raw) \in Pieces /\ Piece("raw", v.raw).field = "raw"
      BY <1>1, PieceIs DEF FieldNames
    <2>3. RawPart(a, v) = << >> \/ RawPart(a, v) = <<Count(4, v.raw), Piece("raw", v.raw)>>
      BY DEF RawPart, If
    <2> QED BY <1>5, <2>1, <2>2, <2>3, LaidCounted DEF ToRaw
  <1>7. Laid(ToRegs(a, v), (({"id", "ip", "pid", "tid", "time"} \cup {"int", "callchain"})
                            \cup {"int", "raw"}) \cup {"int", "regs"})
    <2> DEFINE size == IF v.abi = 0 THEN 0 ELSE 8 * Regs
    <2>1. Count(8, v.abi) \in Pieces /\ Count(8, v.abi).field = "int"
      BY <1>1, CountIs
    <2>2. Piece("regs", size) \in Pieces /\ Piece("regs", size).field = "regs"
      BY <1>1, PieceIs DEF FieldNames
    <2>3. RegsPart(a, v) = << >> \/ RegsPart(a, v) = <<Count(8, v.abi), Piece("regs", size)>>
      BY DEF RegsPart, If
    <2> HIDE DEF size
    <2> QED BY <1>6, <2>1, <2>2, <2>3, LaidCounted DEF ToRegs
  <1> DEFINE H == ((({"id", "ip", "pid", "tid", "time"} \cup {"int", "callchain"})
                    \cup {"int", "raw"}) \cup {"int", "regs"}) \cup {"int", "stack", "unused"}
  <1>8. Laid(ToStack(a, v), H)
    BY <1>7, LaidStack DEF ToStack
  <1>9. Laid(SamplePieces(a, v), H \cup {"cgroup"})
    <2>1. Piece("cgroup", 8) \in Pieces /\ Piece("cgroup", 8).field = "cgroup"
      BY PieceIs DEF FieldNames
    <2>2. "cgroup" \notin H
      OBVIOUS
    <2>3. CgroupPart(a) = << >> \/ CgroupPart(a) = <<Piece("cgroup", 8)>>
      BY DEF CgroupPart, If
    <2> HIDE DEF H
    <2> QED BY <1>8, <2>1, <2>2, <2>3, SampleIs, LaidOne
  <1> QED BY <1>3, <1>4, <1>5, <1>6, <1>7, <1>8, <1>9

LEMMA PartsAre ==
    ASSUME NEW a, NEW v \in ValuesOfSample
    PROVE  /\ ThreadPart \in Seq(Pieces) /\ IdPart(a) \in Seq(Pieces)
           /\ IpPart(a) \in Seq(Pieces)
           /\ ChainPart(a, v) \in Seq(Pieces) /\ RawPart(a, v) \in Seq(Pieces)
           /\ RegsPart(a, v) \in Seq(Pieces) /\ StackPart(a, v) \in Seq(Pieces)
           /\ CgroupPart(a) \in Seq(Pieces)
  <1> DEFINE regs == IF v.abi = 0 THEN 0 ELSE 8 * Regs
  <1>1. /\ v.frames \in Nat /\ v.raw \in Nat /\ v.abi \in Nat /\ v.stack \in Nat
        /\ 8 * v.frames \in Nat /\ regs \in Nat /\ StackBytes \in Nat
        /\ StackBytes - v.stack \in Nat
    BY SizesAssumption DEF ValuesOfSample
  <1>2. \A x, y, z, u \in Pieces :
            /\ <<x>> \in Seq(Pieces) /\ <<x, y>> \in Seq(Pieces)
            /\ <<x, y, z>> \in Seq(Pieces) /\ <<x, y, z, u>> \in Seq(Pieces)
            /\ << >> \in Seq(Pieces)
    OBVIOUS
  <1>3. \A b, p : p \in Seq(Pieces) => If(b, p) \in Seq(Pieces)
    BY DEF If
  <1>4. ThreadPart \in Seq(Pieces)
    <2> DEFINE x == Piece("pid", 4)
               y == Piece("tid", 4)
               z == Piece("time", 8)
    <2>1. x \in Pieces /\ y \in Pieces /\ z \in Pieces
      BY PieceIs DEF FieldNames
    <2>2. ThreadPart = <<x, y, z>>
      BY DEF ThreadPart
    <2> HIDE DEF x, y, z
    <2> QED BY <1>2, <2>1, <2>2
  <1>5. IdPart(a) \in Seq(Pieces) /\ IpPart(a) \in Seq(Pieces) /\ CgroupPart(a) \in Seq(Pieces)
    <2>1. /\ Piece("id", 8) \in Pieces /\ Piece("ip", 8) \in Pieces
          /\ Piece("cgroup", 8) \in Pieces
      BY PieceIs DEF FieldNames
    <2>2. /\ <<Piece("id", 8)>> \in Seq(Pieces) /\ <<Piece("ip", 8)>> \in Seq(Pieces)
          /\ <<Piece("cgroup", 8)>> \in Seq(Pieces)
      BY <1>2, <2>1
    <2> QED BY <1>3, <2>2 DEF IdPart, IpPart, CgroupPart
  <1>6. ChainPart(a, v) \in Seq(Pieces)
    <2>1. Count(8, v.frames) \in Pieces /\ Piece("callchain", 8 * v.frames) \in Pieces
      BY <1>1, CountIs, PieceIs DEF FieldNames
    <2>2. <<Count(8, v.frames), Piece("callchain", 8 * v.frames)>> \in Seq(Pieces)
      BY <1>2, <2>1
    <2> QED BY <1>3, <2>2 DEF ChainPart
  <1>7. RawPart(a, v) \in Seq(Pieces)
    <2>1. Count(4, v.raw) \in Pieces /\ Piece("raw", v.raw) \in Pieces
      BY <1>1, CountIs, PieceIs DEF FieldNames
    <2>2. <<Count(4, v.raw), Piece("raw", v.raw)>> \in Seq(Pieces)
      BY <1>2, <2>1
    <2> QED BY <1>3, <2>2 DEF RawPart
  <1>8. RegsPart(a, v) \in Seq(Pieces)
    <2> HIDE DEF regs
    <2>1. Count(8, v.abi) \in Pieces /\ Piece("regs", regs) \in Pieces
      BY <1>1, CountIs, PieceIs DEF FieldNames
    <2>2. <<Count(8, v.abi), Piece("regs", regs)>> \in Seq(Pieces)
      BY <1>2, <2>1
    <2>3. If("REGS_USER" \in a, <<Count(8, v.abi), Piece("regs", regs)>>) \in Seq(Pieces)
      BY <1>3, <2>2
    <2> QED BY <2>3 DEF RegsPart, regs
  <1>9. StackPart(a, v) \in Seq(Pieces)
    <2> DEFINE c == Count(8, StackBytes)
               x == Piece("stack", v.stack)
               u == Piece("unused", StackBytes - v.stack)
               d == Count(8, v.stack)
               z == Count(8, 0)
    <2>1. c \in Pieces /\ x \in Pieces /\ u \in Pieces /\ d \in Pieces /\ z \in Pieces
      <3>1. "stack" \in FieldNames
        BY DEF FieldNames
      <3>2. x \in Pieces /\ u \in Pieces
        BY <1>1, <3>1, PieceIs
      <3>3. c \in Pieces /\ d \in Pieces /\ z \in Pieces
        BY <1>1, CountIs
      <3> QED BY <3>2, <3>3
    <2>2. StackDump(v) = IF v.abi = 0 THEN <<z>> ELSE <<c, x, u, d>>
      BY DEF StackDump
    <2> HIDE DEF c, x, u, d, z
    <2>3. <<z>> \in Seq(Pieces) /\ <<c, x, u, d>> \in Seq(Pieces)
      BY <2>1
    <2>4. StackDump(v) \in Seq(Pieces)
      BY <2>2, <2>3
    <2> QED BY <1>3, <2>4 DEF StackPart
  <1> QED BY <1>4, <1>5, <1>6, <1>7, <1>8, <1>9

-----------------------------------------------------------------------------
(* The decoder, part by part.                                              *)

LEMMA PartOrNothing ==
    ASSUME NEW p \in Seq(Pieces)
    PROVE  p \o << >> = p
  BY ConcatEmptySeq

LEMMA DecodedOne ==
    ASSUME NEW s \in Seq(Pieces), OnePerField(s), NEW p, NEW w, NEW done,
           Agree(s, p, w, done), NEW a, NEW format, NEW field \in FieldNames \ done,
           NEW size \in Nat, NEW part, Begins(p \o part, s),
           format \in a => part = <<Piece(field, size)>>, format \notin a => part = << >>
    PROVE  Agree(s, p \o part, DecodeFixed(a, w, format, field, size), done \cup {field})
  <1> DEFINE x == Piece(field, size)
  <1>1. x \in Pieces /\ x.field = field /\ x.size = size
    BY PieceIs
  <1> HIDE DEF x
  <1>2. CASE format \in a
    <2>1. part = <<x>>
      BY <1>2 DEF x
    <2>2. Agree(s, p \o part, Update(w, field, size), done \cup {field})
      BY <1>1, <2>1, Updated
    <2> QED BY <1>2, <2>2 DEF DecodeFixed
  <1>3. CASE format \notin a
    <2>1. p \o part = p
      BY <1>3, PartOrNothing DEF Agree
    <2>2. Agree(s, p, Reset(w, field), done \cup {field})
      BY ResetKeeps
    <2> QED BY <1>3, <2>1, <2>2 DEF DecodeFixed
  <1> QED BY <1>2, <1>3

(* What no builder asks for.                                               *)
LEMMA DecodedNone ==
    ASSUME NEW s, NEW p, NEW w, NEW done, Agree(s, p, w, done), NEW a, NEW format,
           format \notin a, NEW field \in FieldNames \ done, NEW size
    PROVE  Agree(s, p, DecodeFixed(a, w, format, field, size), done \cup {field})
  BY ResetKeeps DEF DecodeFixed

(* A count, and as many bytes as the decoder takes from it.                *)
LEMMA DecodedPair ==
    ASSUME NEW s \in Seq(Pieces), OnePerField(s), NEW p, NEW w, NEW done,
           Agree(s, p, w, done), NEW width \in Nat \ {0}, NEW count \in Nat,
           NEW field \in FieldNames \ done, NEW size \in Nat, NEW part,
           Begins(p \o part, s), part = <<Count(width, count), Piece(field, size)>>
    PROVE  /\ Agree(s, p \o part, Update(Skip(w, width), field, size),
                    done \cup {"int", field})
           /\ ReadInt(Layout(s), w.o) = count
  <1> DEFINE c == Count(width, count)
             x == Piece(field, size)
             v == Skip(w, width)
  <1>0. part = <<c, x>>
    OBVIOUS
  <1>1. c \in Pieces /\ c.field = "int" /\ c.size = width /\ c.int = count
    BY CountIs
  <1>2. x \in Pieces /\ x.field = field /\ x.size = size /\ "int" \notin FieldNames
    BY PieceIs DEF FieldNames
  <1>3. p \in Seq(Pieces) /\ Len(s) \in Nat
    BY DEF Agree
  <1>4. p \o <<c, x>> = (p \o <<c>>) \o <<x>>
    BY <1>1, <1>2, <1>3, Split
  <1>a. Begins(p \o <<c, x>>, s)
    BY <1>0
  <1> HIDE DEF c, x
  <1>5. Begins((p \o <<c>>) \o <<x>>, s)
    BY <1>4, <1>a, Zenon
  <1>6. Begins(p \o <<c>>, s)
    <2>1. p \o <<c>> \in Seq(Pieces) /\ <<x>> \in Seq(Pieces)
      BY <1>1, <1>2, <1>3
    <2> QED BY <1>3, <1>5, <2>1, BeginsBefore
  <1>7. Agree(s, p \o <<c>>, v, done \cup {"int"}) /\ ReadInt(Layout(s), w.o) = count
    BY <1>1, <1>2, <1>6, Passed
  <1>8. field \in FieldNames \ (done \cup {"int"})
    BY <1>2
  <1> HIDE DEF v
  <1>9. Agree(s, (p \o <<c>>) \o <<x>>, Update(v, field, size), (done \cup {"int"}) \cup {field})
    BY <1>2, <1>5, <1>7, <1>8, Updated
  <1>10. (done \cup {"int"}) \cup {field} = done \cup {"int", field}
    OBVIOUS
  <1> QED BY <1>0, <1>4, <1>7, <1>9, <1>10 DEF v

LEMMA DecodedThread ==
    ASSUME NEW s \in Seq(Pieces), OnePerField(s), NEW p, NEW w, NEW done,
           Agree(s, p, w, done), NEW a, {"TID", "TIME"} \subseteq a,
           done \cap {"pid", "tid", "time"} = {}, Begins(p \o ThreadPart, s)
    PROVE  Agree(s, p \o ThreadPart,
                 DecodeFixed(a, DecodeFixed(a, DecodeFixed(a, w, "TID", "pid", 4),
                                            "TID", "tid", 4), "TIME", "time", 8),
                 done \cup {"pid", "tid", "time"})
  <1> DEFINE x == Piece("pid", 4)
             y == Piece("tid", 4)
             z == Piece("time", 8)
             p1 == p \o <<x>>
             p2 == p1 \o <<y>>
             w1 == DecodeFixed(a, w, "TID", "pid", 4)
             w2 == DecodeFixed(a, w1, "TID", "tid", 4)
             w3 == DecodeFixed(a, w2, "TIME", "time", 8)
  <1>1. x \in Pieces /\ y \in Pieces /\ z \in Pieces
    BY PieceIs DEF FieldNames
  <1>2. p \in Seq(Pieces) /\ Len(s) \in Nat /\ {"pid", "tid", "time"} \subseteq FieldNames
    BY DEF Agree, FieldNames
  <1>3. p \o ThreadPart = p2 \o <<z>>
    <2>1. ThreadPart = <<x, y, z>>
      BY DEF ThreadPart
    <2> HIDE DEF x, y, z
    <2> QED BY <1>1, <1>2, <2>1, SplitThree, ZenonT(40)
  <1>4. /\ p1 \in Seq(Pieces) /\ p2 \in Seq(Pieces)
        /\ <<y>> \in Seq(Pieces) /\ <<z>> \in Seq(Pieces)
    BY <1>1, <1>2
  <1> HIDE DEF p2
  <1>5. Begins(p2 \o <<z>>, s)
    BY <1>3
  <1>6. Begins(p2, s)
    BY <1>2, <1>4, <1>5, BeginsBefore
  <1>7. Begins(p1 \o <<y>>, s)
    BY <1>6 DEF p2
  <1>8. Begins(p1, s)
    BY <1>2, <1>4, <1>7, BeginsBefore
  <1> HIDE DEF w1, w2, w3
  <1>9. Agree(s, p1, w1, done \cup {"pid"})
    BY <1>2, <1>8, DecodedOne DEF w1
  <1> HIDE DEF p1
  <1>10. Agree(s, p1 \o <<y>>, w2, (done \cup {"pid"}) \cup {"tid"})
    BY <1>2, <1>7, <1>9, DecodedOne DEF w2
  <1>11. Agree(s, p2, w2, (done \cup {"pid"}) \cup {"tid"})
    BY <1>10 DEF p2
  <1>12. Agree(s, p2 \o <<z>>, w3, ((done \cup {"pid"}) \cup {"tid"}) \cup {"time"})
    BY <1>2, <1>5, <1>11, DecodedOne DEF w3
  <1>13. ((done \cup {"pid"}) \cup {"tid"}) \cup {"time"} = done \cup {"pid", "tid", "time"}
    OBVIOUS
  <1> QED BY <1>3, <1>12, <1>13 DEF w1, w2, w3

LEMMA DecodedChain ==
    ASSUME NEW a, NEW v \in ValuesOfSample, NEW s \in Seq(Pieces), OnePerField(s),
           NEW p, NEW w, NEW done, Agree(s, p, w, done), "callchain" \notin done,
           Begins(p \o ChainPart(a, v), s)
    PROVE  \E more : /\ Agree(s, p \o ChainPart(a, v),
                              DecodeCounted(a, "CALLCHAIN", "callchain", 8, 8, w, Layout(s)),
                              more)
                     /\ more \in {done \cup {"callchain"}, done \cup {"int", "callchain"}}
  <1>1. v.frames \in Nat /\ 8 * v.frames \in Nat /\ "callchain" \in FieldNames
    BY DEF ValuesOfSample, FieldNames
  <1>2. CASE "CALLCHAIN" \in a
    <2>1. ChainPart(a, v) = <<Count(8, v.frames), Piece("callchain", 8 * v.frames)>>
      BY <1>2 DEF ChainPart, If
    <2>2. /\ Agree(s, p \o ChainPart(a, v),
                   Update(Skip(w, 8), "callchain", 8 * v.frames),
                   done \cup {"int", "callchain"})
          /\ ReadInt(Layout(s), w.o) = v.frames
      BY <1>1, <2>1, DecodedPair, SMTT(40)
    <2> QED BY <1>2, <2>2 DEF DecodeCounted, Skip
  <1>3. CASE "CALLCHAIN" \notin a
    <2>1. ChainPart(a, v) = << >> /\ p \o << >> = p
      BY <1>3, PartOrNothing DEF ChainPart, If, Agree
    <2>2. Agree(s, p, Reset(w, "callchain"), done \cup {"callchain"})
      BY <1>1, ResetKeeps
    <2> QED BY <1>3, <2>1, <2>2 DEF DecodeCounted
  <1> QED BY <1>2, <1>3

LEMMA DecodedRaw ==
    ASSUME NEW a, NEW v \in ValuesOfSample, NEW s \in Seq(Pieces), OnePerField(s),
           NEW p, NEW w, NEW done, Agree(s, p, w, done), "raw" \notin done,
           Begins(p \o RawPart(a, v), s)
    PROVE  \E more : /\ Agree(s, p \o RawPart(a, v), DecodeRaw(a, w, Layout(s)), more)
                     /\ more \in {done \cup {"raw"}, done \cup {"int", "raw"}}
  <1>1. v.raw \in Nat /\ "raw" \in FieldNames
    BY DEF ValuesOfSample, FieldNames
  <1>2. CASE "RAW" \in a
    <2> DEFINE u == Update(Skip(w, 4), "raw", v.raw)
    <2>1. RawPart(a, v) = <<Count(4, v.raw), Piece("raw", v.raw)>>
      BY <1>2 DEF RawPart, If
    <2>2. /\ Agree(s, p \o RawPart(a, v), u, done \cup {"int", "raw"})
          /\ ReadInt(Layout(s), w.o) = v.raw
      BY <1>1, <2>1, DecodedPair
    <2>3. Align8(4 + v.raw) = 4 + v.raw
      BY <1>1, SMTT(40) DEF Align8, ValuesOfSample
    <2>4. DecodeRaw(a, w, Layout(s)) = [u EXCEPT !.o = @ + (4 + v.raw) - (4 + v.raw)]
      BY <1>2, <2>2, <2>3 DEF DecodeRaw, Skip
    <2> HIDE DEF u
    <2>5. [u EXCEPT !.o = @ + (4 + v.raw) - (4 + v.raw)] = u
      <3>1. u = [o |-> u.o, f |-> u.f] /\ u.o \in Nat
        BY <2>2 DEF Agree
      <3>2. u.o + (4 + v.raw) - (4 + v.raw) = u.o
        BY <1>1, <3>1
      <3> QED BY <3>1, <3>2
    <2> QED BY <2>2, <2>4, <2>5
  <1>3. CASE "RAW" \notin a
    <2>1. RawPart(a, v) = << >> /\ p \o << >> = p
      BY <1>3, PartOrNothing DEF RawPart, If, Agree
    <2>2. Agree(s, p, Reset(w, "raw"), done \cup {"raw"})
      BY <1>1, ResetKeeps
    <2> QED BY <1>3, <2>1, <2>2 DEF DecodeRaw
  <1> QED BY <1>2, <1>3

LEMMA DecodedRegs ==
    ASSUME NEW a, NEW v \in ValuesOfSample, NEW s \in Seq(Pieces), OnePerField(s),
           NEW p, NEW w, NEW done, Agree(s, p, w, done), "regs" \notin done,
           Begins(p \o RegsPart(a, v), s)
    PROVE  \E more : /\ Agree(s, p \o RegsPart(a, v), DecodeRegs(a, w, Layout(s)), more)
                     /\ more \in {done \cup {"regs"}, done \cup {"int", "regs"}}
  <1> DEFINE size == IF v.abi = 0 THEN 0 ELSE 8 * Regs
  <1>1. v.abi \in Nat /\ "regs" \in FieldNames /\ size \in Nat /\ size = Regs * (v.abi * 4)
    BY SizesAssumption DEF ValuesOfSample, FieldNames
  <1>2. CASE "REGS_USER" \in a
    <2>1. RegsPart(a, v) = <<Count(8, v.abi), Piece("regs", size)>>
      BY <1>2 DEF RegsPart, If
    <2> HIDE DEF size
    <2>2. /\ Agree(s, p \o RegsPart(a, v), Update(Skip(w, 8), "regs", size),
                   done \cup {"int", "regs"})
          /\ ReadInt(Layout(s), w.o) = v.abi
      BY <1>1, <2>1, DecodedPair, SMTT(40)
    <2> QED BY <1>1, <1>2, <2>2 DEF DecodeRegs, Skip
  <1>3. CASE "REGS_USER" \notin a
    <2>1. RegsPart(a, v) = << >> /\ p \o << >> = p
      BY <1>3, PartOrNothing DEF RegsPart, If, Agree
    <2>2. Agree(s, p, Reset(w, "regs"), done \cup {"regs"})
      BY <1>1, ResetKeeps
    <2> QED BY <1>3, <2>1, <2>2 DEF DecodeRegs
  <1> QED BY <1>2, <1>3

(* The size of the dump, the dump with what was not read of the stack, and *)
(* how much was.                                                           *)
LEMMA DecodedDump ==
    ASSUME NEW v \in ValuesOfSample, NEW s \in Seq(Pieces), OnePerField(s),
           NEW p, NEW w, NEW done, Agree(s, p, w, done),
           done \cap {"stack", "unused"} = {}, v.abi # 0, Begins(p \o StackDump(v), s)
    PROVE  /\ ReadInt(Layout(s), w.o) = StackBytes
           /\ ReadInt(Layout(s), w.o + 8 + StackBytes) = v.stack
           /\ Agree(s, p \o StackDump(v),
                    Skip(Skip(Update(Skip(w, 8), "stack", v.stack), StackBytes - v.stack), 8),
                    done \cup {"int", "stack", "unused"})
  <1> DEFINE c == Count(8, StackBytes)
             x == Piece("stack", v.stack)
             u == Piece("unused", StackBytes - v.stack)
             d == Count(8, v.stack)
             p1 == p \o <<c>>
             p2 == p1 \o <<x>>
             p3 == p2 \o <<u>>
             w1 == Skip(w, 8)
             w2 == Update(w1, "stack", v.stack)
             w3 == Skip(w2, StackBytes - v.stack)
             w4 == Skip(w3, 8)
  <1>1. /\ v.stack \in Nat /\ StackBytes \in Nat /\ StackBytes - v.stack \in Nat
        /\ "stack" \in FieldNames /\ "int" \notin FieldNames /\ "unused" \notin FieldNames
        /\ p \in Seq(Pieces) /\ Len(s) \in Nat /\ w.o \in Nat
    BY SizesAssumption DEF ValuesOfSample, FieldNames, Agree
  <1>2. /\ c \in Pieces /\ c.field = "int" /\ c.size = 8 /\ c.int = StackBytes
        /\ d \in Pieces /\ d.field = "int" /\ d.size = 8 /\ d.int = v.stack
    BY <1>1, CountIs
  <1>3. /\ x \in Pieces /\ x.field = "stack" /\ x.size = v.stack
        /\ u \in Pieces /\ u.field = "unused" /\ u.size = StackBytes - v.stack
    BY <1>1, PieceIs
  <1>5. p \o StackDump(v) = p3 \o <<d>>
    BY <1>1, DumpIs
  <1> HIDE DEF c, x, u, d
  <1>6. /\ p1 \in Seq(Pieces) /\ p2 \in Seq(Pieces) /\ p3 \in Seq(Pieces)
        /\ <<x>> \in Seq(Pieces) /\ <<u>> \in Seq(Pieces) /\ <<d>> \in Seq(Pieces)
    BY <1>1, <1>2, <1>3
  <1>b. p1 = p \o <<c>> /\ p2 = p1 \o <<x>> /\ p3 = p2 \o <<u>>
    OBVIOUS
  <1> HIDE DEF p1, p2, p3
  <1>7. Begins(p3 \o <<d>>, s)
    BY <1>5
  <1>8. Begins(p3, s) /\ Begins(p2, s) /\ Begins(p1, s)
    <2>1. Begins(p3, s)
      BY <1>1, <1>6, <1>7, BeginsBefore
    <2>2. Begins(p2, s)
      BY <1>1, <1>6, <1>b, <2>1, BeginsBefore
    <2>3. Begins(p1, s)
      BY <1>1, <1>6, <1>b, <2>2, BeginsBefore
    <2> QED BY <2>1, <2>2, <2>3
  <1> HIDE DEF w1, w2, w3, w4
  <1>11. Agree(s, p1, w1, done \cup {"int"}) /\ ReadInt(Layout(s), w.o) = StackBytes
    <2>1. p1 = p \o <<c>> /\ Begins(p1, s)
      BY <1>8, <1>b
    <2>a. c \in Pieces /\ c.field = "int" /\ c.size = 8 /\ "int" \notin FieldNames
      BY <1>1, <1>2
    <2>2. Agree(s, p1, Skip(w, 8), done \cup {"int"}) /\ ReadInt(Layout(s), w.o) = c.int
      BY <2>1, <2>a, Passed, ZenonT(40)
    <2> QED BY <1>2, <2>2 DEF w1
  <1>12. Agree(s, p2, w2, (done \cup {"int"}) \cup {"stack"})
    BY <1>1, <1>3, <1>8, <1>11, <1>b, Updated DEF w2
  <1>14. Agree(s, p3, w3, ((done \cup {"int"}) \cup {"stack"}) \cup {"unused"})
    BY <1>1, <1>3, <1>8, <1>12, <1>b, Passed DEF w3
  <1>16. /\ Agree(s, p3 \o <<d>>, w4,
                  (((done \cup {"int"}) \cup {"stack"}) \cup {"unused"}) \cup {"int"})
         /\ ReadInt(Layout(s), w3.o) = v.stack
    BY <1>1, <1>2, <1>7, <1>14, Passed, ZenonT(40) DEF w4
  <1>17. w3.o = w.o + 8 + StackBytes
    <2>1. w1.o = w.o + 8
      BY DEF w1, Skip, Agree
    <2>2. w2.o = w1.o + v.stack
      BY DEF w2, Update
    <2>3. w3.o = w2.o + (StackBytes - v.stack)
      BY DEF w3, w2, Update, Skip
    <2> QED BY <1>1, <2>1, <2>2, <2>3
  <1>18. (((done \cup {"int"}) \cup {"stack"}) \cup {"unused"}) \cup {"int"}
            = done \cup {"int", "stack", "unused"}
    OBVIOUS
  <1>19. Agree(s, p \o StackDump(v), w4, done \cup {"int", "stack", "unused"})
    BY <1>5, <1>16, <1>18
  <1> QED BY <1>11, <1>16, <1>17, <1>19 DEF w1, w2, w3, w4

LEMMA DecodedStack ==
    ASSUME NEW a, NEW v \in ValuesOfSample, NEW s \in Seq(Pieces), OnePerField(s),
           NEW p, NEW w, NEW done, Agree(s, p, w, done),
           done \cap {"stack", "unused"} = {}, Begins(p \o StackPart(a, v), s)
    PROVE  \E more : /\ Agree(s, p \o StackPart(a, v), DecodeStack(a, w, Layout(s)), more)
                     /\ done \cup {"stack"} \subseteq more
                     /\ more \subseteq done \cup {"int", "stack", "unused"}
  <1>1. /\ v.stack \in Nat /\ StackBytes \in Nat /\ StackBytes - v.stack \in Nat
        /\ StackBytes # 0 /\ "stack" \in FieldNames /\ "int" \notin FieldNames
        /\ p \in Seq(Pieces) /\ w.o \in Nat /\ w = [o |-> w.o, f |-> w.f]
    BY SizesAssumption DEF ValuesOfSample, FieldNames, Agree
  <1>2. CASE "STACK_USER" \notin a
    <2>1. StackPart(a, v) = << >> /\ p \o << >> = p
      BY <1>1, <1>2, PartOrNothing DEF StackPart, If
    <2>2. Agree(s, p, Reset(w, "stack"), done \cup {"stack"})
      BY <1>1, ResetKeeps
    <2>3. DecodeStack(a, w, Layout(s)) = Reset(w, "stack")
      BY <1>2 DEF DecodeStack
    <2> QED BY <2>1, <2>2, <2>3
  <1>3. CASE "STACK_USER" \in a /\ v.abi = 0
    <2> DEFINE z == Count(8, 0)
    <2>1. StackPart(a, v) = <<z>>
      BY <1>3 DEF StackPart, StackDump, If
    <2>2. z \in Pieces /\ z.field = "int" /\ z.size = 8 /\ z.int = 0
      BY CountIs
    <2> HIDE DEF z
    <2>3. /\ Agree(s, p \o <<z>>, Skip(w, 8), done \cup {"int"})
          /\ ReadInt(Layout(s), w.o) = 0
      BY <1>1, <2>1, <2>2, Passed, ZenonT(40)
    <2>4. Agree(s, p \o <<z>>, Reset(Skip(w, 8), "stack"), (done \cup {"int"}) \cup {"stack"})
      BY <1>1, <2>3, ResetKeeps
    <2>5. DecodeStack(a, w, Layout(s)) = [Reset(w, "stack") EXCEPT !.o = w.o + 8]
      BY <1>3, <2>3 DEF DecodeStack
    <2>6. [Reset(w, "stack") EXCEPT !.o = w.o + 8] = Reset(Skip(w, 8), "stack")
      BY <1>1 DEF Reset, Skip
    <2> QED BY <2>1, <2>4, <2>5, <2>6
  <1>4. CASE "STACK_USER" \in a /\ v.abi # 0
    <2> DEFINE t == Skip(Skip(Update(Skip(w, 8), "stack", v.stack), StackBytes - v.stack), 8)
    <2>1. StackPart(a, v) = StackDump(v)
      BY <1>4 DEF StackPart, If
    <2>2. /\ ReadInt(Layout(s), w.o) = StackBytes
          /\ ReadInt(Layout(s), w.o + 8 + StackBytes) = v.stack
          /\ Agree(s, p \o StackDump(v), t, done \cup {"int", "stack", "unused"})
      BY <1>4, <2>1, DecodedDump
    <2>3. DecodeStack(a, w, Layout(s)) =
                [o |-> w.o + 8 + StackBytes + 8,
                 f |-> [w.f EXCEPT !["stack"] = <<w.o + 8, w.o + 8 + v.stack>>]]
      BY <1>1, <1>4, <2>2 DEF DecodeStack
    <2>4. t = [o |-> ((w.o + 8) + v.stack) + (StackBytes - v.stack) + 8,
               f |-> [w.f EXCEPT !["stack"] = <<w.o + 8, (w.o + 8) + v.stack>>]]
      <3>1. \A o, f, size : Skip([o |-> o, f |-> f], size) = [o |-> o + size, f |-> f]
        BY DEF Skip
      <3>2. Skip(w, 8) = [o |-> w.o + 8, f |-> w.f]
        BY <1>1 DEF Skip
      <3>3. Update(Skip(w, 8), "stack", v.stack) =
                [o |-> (w.o + 8) + v.stack,
                 f |-> [w.f EXCEPT !["stack"] = <<w.o + 8, (w.o + 8) + v.stack>>]]
        BY <3>2 DEF Update
      <3>4. Skip(Update(Skip(w, 8), "stack", v.stack), StackBytes - v.stack) =
                [o |-> ((w.o + 8) + v.stack) + (StackBytes - v.stack),
                 f |-> [w.f EXCEPT !["stack"] = <<w.o + 8, (w.o + 8) + v.stack>>]]
        BY <3>1, <3>3
      <3> QED BY <3>1, <3>4
    <2>5. ((w.o + 8) + v.stack) + (StackBytes - v.stack) + 8 = w.o + 8 + StackBytes + 8
      <3>1. w.o \in Nat /\ v.stack \in Nat /\ StackBytes \in Nat
        BY <1>1
      <3> QED BY <3>1
    <2>6. t = DecodeStack(a, w, Layout(s))
      BY <2>3, <2>4, <2>5
    <2> HIDE DEF t
    <2> QED BY <2>1, <2>2, <2>6
  <1> QED BY <1>2, <1>3, <1>4

FixedDone == {"id", "ip", "pid", "tid", "time", "address", "stream_id", "cpu",
              "period", "read"}

LEMMA DecodedFixed ==
    ASSUME NEW a \in SampleAttributes, NEW v \in ValuesOfSample, NEW s \in Seq(Pieces),
           OnePerField(s), IdPart(a) \o IpPart(a) \in Seq(Pieces), Begins(ToThread(a), s),
           NEW f, f = [g \in FieldNames |-> f[g]]
    PROVE  Agree(s, ToThread(a), DecodeFixedFields(a, f), FixedDone)
  <1> DEFINE w0 == [o |-> 8, f |-> f]
             w1 == DecodeFixed(a, w0, "IDENTIFIER", "id", 8)
             w2 == DecodeFixed(a, w1, "IP", "ip", 8)
             w3 == DecodeFixed(a, w2, "TID", "pid", 4)
             w4 == DecodeFixed(a, w3, "TID", "tid", 4)
             w5 == DecodeFixed(a, w4, "TIME", "time", 8)
             w6 == DecodeFixed(a, w5, "ADDR", "address", 8)
             w7 == DecodeFixed(a, w6, "STREAM_ID", "stream_id", 8)
             w8 == DecodeFixed(a, w7, "CPU", "cpu", 8)
             w9 == DecodeFixed(a, w8, "PERIOD", "period", 8)
             w10 == DecodeFixed(a, w9, "READ", "read", 8)
  <1>1. /\ {"IDENTIFIER", "TID", "TIME"} \subseteq a
        /\ a \cap {"ADDR", "ID", "STREAM_ID", "CPU", "PERIOD", "READ"} = {}
    BY DEF SampleAttributes, CommonFormats, OptionFormats
  <1>2. FixedDone \subseteq FieldNames /\ Len(s) \in Nat /\ << >> \in Seq(Pieces)
    BY DEF FixedDone, FieldNames
  <1>3. DecodeFixedFields(a, f) = w10
    BY <1>1 DEF DecodeFixedFields
  <1>4. Begins(IdPart(a) \o IpPart(a), s) /\ Begins(IdPart(a), s)
    <2>1. ThreadPart \in Seq(Pieces)
      BY PartsAre
    <2>2. Begins(IdPart(a) \o IpPart(a), s)
      BY <1>2, <2>1, BeginsBefore DEF ToThread
    <2> QED BY <1>2, <2>2, PartsAre, BeginsBefore
  <1>5. Agree(s, << >>, w0, {})
    <2>1. Len(<< >>) = 0 /\ 1 .. 0 = {}
      OBVIOUS
    <2>2. End(<< >>) = 8
      BY <2>1, StartSteps DEF End
    <2>3. w0.o = 8 /\ w0.f = f /\ w0 = [o |-> w0.o, f |-> w0.f]
      OBVIOUS
    <2> HIDE DEF w0
    <2>4. FieldsOf(<< >>) = {} /\ Begins(<< >>, s)
      BY <1>2, <2>1 DEF FieldsOf, Begins
    <2> QED BY <1>2, <2>2, <2>3, <2>4 DEF Agree
  <1> HIDE DEF w0, w1, w2, w3, w4, w5, w6, w7, w8, w9, w10
  <1>6. Agree(s, IdPart(a), w1, {"id"})
    <2>1. << >> \o IdPart(a) = IdPart(a)
      BY ConcatEmptySeq
    <2>2. "IDENTIFIER" \in a => IdPart(a) = <<Piece("id", 8)>>
      BY DEF IdPart, If
    <2>3. Agree(s, << >> \o IdPart(a), w1, {} \cup {"id"})
      BY <1>1, <1>2, <1>4, <1>5, <2>1, <2>2, DecodedOne DEF w1, FixedDone
    <2>4. {} \cup {"id"} = {"id"}
      OBVIOUS
    <2> QED BY <2>1, <2>3, <2>4
  <1>7. Agree(s, IdPart(a) \o IpPart(a), w2, {"id"} \cup {"ip"})
    <2>1. /\ "IP" \in a => IpPart(a) = <<Piece("ip", 8)>>
          /\ "IP" \notin a => IpPart(a) = << >>
      BY DEF IpPart, If
    <2>2. "ip" \in FieldNames \ {"id"}
      BY DEF FieldNames
    <2> QED BY <1>4, <1>6, <2>1, <2>2, DecodedOne DEF w2
  <1>8. Agree(s, ToThread(a), w5, ({"id"} \cup {"ip"}) \cup {"pid", "tid", "time"})
    <2>1. ({"id"} \cup {"ip"}) \cap {"pid", "tid", "time"} = {}
      OBVIOUS
    <2> QED BY <1>1, <1>7, <2>1, DecodedThread DEF w3, w4, w5, ToThread
  <1> DEFINE D == {"id", "ip", "pid", "tid", "time"}
  <1>9. Agree(s, ToThread(a), w5, D)
    <2>1. ({"id"} \cup {"ip"}) \cup {"pid", "tid", "time"} = D
      OBVIOUS
    <2> QED BY <1>8, <2>1
  <1>10. /\ "address" \in FieldNames \ D /\ "stream_id" \in FieldNames \ (D \cup {"address"})
         /\ "cpu" \in FieldNames \ ((D \cup {"address"}) \cup {"stream_id"})
         /\ "period" \in FieldNames \ (((D \cup {"address"}) \cup {"stream_id"}) \cup {"cpu"})
         /\ "read" \in FieldNames \ ((((D \cup {"address"}) \cup {"stream_id"}) \cup {"cpu"})
                                        \cup {"period"})
         /\ ((((D \cup {"address"}) \cup {"stream_id"}) \cup {"cpu"}) \cup {"period"})
                \cup {"read"} = FixedDone
    BY DEF FieldNames, FixedDone
  <1> HIDE DEF D
  <1>11. Agree(s, ToThread(a), w6, D \cup {"address"})
    BY <1>1, <1>9, <1>10, DecodedNone DEF w6
  <1>12. Agree(s, ToThread(a), w7, (D \cup {"address"}) \cup {"stream_id"})
    BY <1>1, <1>10, <1>11, DecodedNone DEF w7
  <1>13. Agree(s, ToThread(a), w8, ((D \cup {"address"}) \cup {"stream_id"}) \cup {"cpu"})
    BY <1>1, <1>10, <1>12, DecodedNone DEF w8
  <1>14. Agree(s, ToThread(a), w9,
               (((D \cup {"address"}) \cup {"stream_id"}) \cup {"cpu"}) \cup {"period"})
    BY <1>1, <1>10, <1>13, DecodedNone DEF w9
  <1>15. Agree(s, ToThread(a), w10, FixedDone)
    BY <1>1, <1>10, <1>14, DecodedNone DEF w10
  <1> QED BY <1>3, <1>15

(* The last field, which stands behind fields that are not parsed.         *)
LEMMA DecodedCgroup ==
    ASSUME NEW a \in SampleAttributes, NEW s \in Seq(Pieces), OnePerField(s), NEW p, NEW w,
           NEW done, Agree(s, p, w, done), "cgroup" \notin done,
           Begins(p \o CgroupPart(a), s)
    PROVE  Agree(s, p \o CgroupPart(a), DecodeCgroup(a, w), done \cup {"cgroup"})
  <1>1. a \cap UnparsedBeforeCgroup = {}
    BY DEF SampleAttributes, CommonFormats, OptionFormats, UnparsedBeforeCgroup
  <1>2. DecodeCgroup(a, w) = DecodeFixed(a, w, "CGROUP", "cgroup", 8)
    BY <1>1 DEF DecodeCgroup, DecodeFixed
  <1>3. "cgroup" \in FieldNames \ done
    BY DEF FieldNames
  <1>4. /\ "CGROUP" \in a => CgroupPart(a) = <<Piece("cgroup", 8)>>
        /\ "CGROUP" \notin a => CgroupPart(a) = << >>
    BY DEF CgroupPart, If
  <1> QED BY <1>2, <1>3, <1>4, DecodedOne

LEMMA SampleBegins ==
    ASSUME NEW a \in SampleAttributes, NEW v \in ValuesOfSample,
           NEW s, s = SamplePieces(a, v)
    PROVE  /\ s \in Seq(Pieces) /\ OnePerField(s)
           /\ s = ToStack(a, v) \o CgroupPart(a) /\ Begins(s, s)
           /\ Begins(ToStack(a, v), s) /\ Begins(ToRegs(a, v), s) /\ Begins(ToRaw(a, v), s)
           /\ Begins(ToChain(a, v), s) /\ Begins(ToThread(a), s)
           /\ IdPart(a) \o IpPart(a) \in Seq(Pieces)
  <1>1. /\ s \in Seq(Pieces) /\ OnePerField(s) /\ Len(s) \in Nat
        /\ IdPart(a) \o IpPart(a) \in Seq(Pieces) /\ ToThread(a) \in Seq(Pieces)
        /\ ToChain(a, v) \in Seq(Pieces) /\ ToRaw(a, v) \in Seq(Pieces)
        /\ ToRegs(a, v) \in Seq(Pieces) /\ ToStack(a, v) \in Seq(Pieces)
    BY SampleLaid DEF Laid
  <1>2. s = ToStack(a, v) \o CgroupPart(a) /\ Begins(s, s)
    BY <1>1, SampleIs, SMTT(40) DEF Begins
  <1>3. Begins(ToStack(a, v), s)
    BY <1>1, <1>2, PartsAre, BeginsBefore
  <1>4. Begins(ToRegs(a, v), s)
    BY <1>1, <1>3, PartsAre, BeginsBefore DEF ToStack
  <1>5. Begins(ToRaw(a, v), s)
    BY <1>1, <1>4, PartsAre, BeginsBefore DEF ToRegs
  <1>6. Begins(ToChain(a, v), s)
    BY <1>1, <1>5, PartsAre, BeginsBefore DEF ToRaw
  <1>7. Begins(ToThread(a), s)
    BY <1>1, <1>6, PartsAre, BeginsBefore DEF ToChain
  <1> QED BY <1>1, <1>2, <1>3, <1>4, <1>5, <1>6, <1>7

(* The whole sample: every field is where the kernel put it or unset,      *)
(* whatever the fields were before.                                        *)
LEMMA SampleDecoded ==
    ASSUME NEW a \in SampleAttributes, NEW v \in ValuesOfSample,
           NEW f, f = [g \in FieldNames |-> f[g]]
    PROVE  LET l == Layout(SamplePieces(a, v))
               d == DecodeSample(a, l, f)
           IN  /\ d = [g \in FieldNames |-> d[g]]
               /\ \A g \in FieldNames : d[g] = IF g \in DOMAIN l.at THEN l.at[g] ELSE Unset
  <1> DEFINE s == SamplePieces(a, v)
             l == Layout(s)
             d == DecodeSample(a, l, f)
             fixed == DecodeFixedFields(a, f)
             chain == DecodeCounted(a, "CALLCHAIN", "callchain", 8, 8, fixed, l)
             raw == DecodeRaw(a, chain, l)
             branch == DecodeCounted(a, "BRANCH_STACK", "branch_stack", 8, 24, raw, l)
             regs == DecodeRegs(a, branch, l)
             stack == DecodeStack(a, regs, l)
             cgroup == DecodeCgroup(a, stack)
  <1>1. /\ s \in Seq(Pieces) /\ OnePerField(s)
        /\ s = ToStack(a, v) \o CgroupPart(a) /\ Begins(s, s)
        /\ Begins(ToStack(a, v), s) /\ Begins(ToRegs(a, v), s) /\ Begins(ToRaw(a, v), s)
        /\ Begins(ToChain(a, v), s) /\ Begins(ToThread(a), s)
        /\ IdPart(a) \o IpPart(a) \in Seq(Pieces)
    BY SampleBegins
  <1>2. d = cgroup.f
    BY DEF DecodeSample
  <1>3. branch = Reset(raw, "branch_stack")
    BY DEF SampleAttributes, CommonFormats, OptionFormats, DecodeCounted
  <1> HIDE DEF s, d, fixed, chain, raw, branch, regs, stack, cgroup
  <1>4. Agree(s, ToThread(a), fixed, FixedDone)
    BY <1>1, DecodedFixed DEF fixed
  <1>5. PICK done1 : /\ Agree(s, ToChain(a, v), chain, done1)
                     /\ done1 \in {FixedDone \cup {"callchain"},
                                   FixedDone \cup {"int", "callchain"}}
    <2>1. "callchain" \notin FixedDone
      BY DEF FixedDone
    <2> QED BY <1>1, <1>4, <2>1, DecodedChain DEF ToChain, chain
  <1>6. PICK done2 : /\ Agree(s, ToRaw(a, v), raw, done2)
                     /\ done2 \in {done1 \cup {"raw"}, done1 \cup {"int", "raw"}}
    <2>1. "raw" \notin done1
      BY <1>5 DEF FixedDone
    <2> QED BY <1>1, <1>5, <2>1, DecodedRaw DEF ToRaw, raw
  <1>7. Agree(s, ToRaw(a, v), branch, done2 \cup {"branch_stack"})
    <2>1. "branch_stack" \in FieldNames \ done2
      BY <1>5, <1>6 DEF FixedDone, FieldNames
    <2> QED BY <1>3, <1>6, <2>1, ResetKeeps
  <1>8. PICK done3 : /\ Agree(s, ToRegs(a, v), regs, done3)
                     /\ done3 \in {(done2 \cup {"branch_stack"}) \cup {"regs"},
                                   (done2 \cup {"branch_stack"}) \cup {"int", "regs"}}
    <2>1. "regs" \notin done2 \cup {"branch_stack"}
      BY <1>5, <1>6 DEF FixedDone
    <2> QED BY <1>1, <1>7, <2>1, DecodedRegs DEF ToRegs, regs
  <1>9. PICK done4 : /\ Agree(s, ToStack(a, v), stack, done4)
                     /\ done3 \cup {"stack"} \subseteq done4
                     /\ done4 \subseteq done3 \cup {"int", "stack", "unused"}
    <2>1. done3 \cap {"stack", "unused"} = {}
      BY <1>5, <1>6, <1>8 DEF FixedDone
    <2>2. s \in Seq(Pieces) /\ OnePerField(s) /\ Begins(ToRegs(a, v) \o StackPart(a, v), s)
      BY <1>1 DEF ToStack
    <2>3. \E more : /\ Agree(s, ToRegs(a, v) \o StackPart(a, v),
                             DecodeStack(a, regs, Layout(s)), more)
                    /\ done3 \cup {"stack"} \subseteq more
                    /\ more \subseteq done3 \cup {"int", "stack", "unused"}
      BY <1>8, <2>1, <2>2, DecodedStack
    <2> QED BY <2>3 DEF ToStack, stack
  <1>10. Agree(s, s, cgroup, done4 \cup {"cgroup"})
    <2>1. "cgroup" \notin done4
      BY <1>5, <1>6, <1>8, <1>9 DEF FixedDone
    <2> QED BY <1>1, <1>9, <2>1, DecodedCgroup DEF cgroup
  <1>11. FieldNames \subseteq done4 \cup {"cgroup"}
    BY <1>5, <1>6, <1>8, <1>9 DEF FixedDone, FieldNames
  <1>12. /\ d = [g \in FieldNames |-> d[g]]
         /\ \A g \in FieldNames : d[g] = IF g \in FieldsOf(s) THEN l.at[g] ELSE Unset
    BY <1>2, <1>10, <1>11 DEF Agree
  <1>13. \A g \in FieldNames : g \in FieldsOf(s) <=> g \in DOMAIN l.at
    BY LayoutDomain DEF FieldNames
  <1> QED BY <1>12, <1>13 DEF d, s

-----------------------------------------------------------------------------
(* Where the time and the id of a record are.                              *)

LEMMA PieceAt ==
    ASSUME NEW s \in Seq(Pieces), OnePerField(s), NEW p \in Seq(Pieces), NEW x \in Pieces,
           NEW q, q = p \o <<x>>, Begins(q, s), x.field # "int"
    PROVE  /\ x.field \in DOMAIN Layout(s).at
           /\ Layout(s).at[x.field] = <<End(p), End(p) + x.size>>
           /\ Begins(p, s) /\ q \in Seq(Pieces) /\ End(p) \in Nat /\ End(q) = End(p) + x.size
  <1>1. /\ Begins(p, s) /\ q \in Seq(Pieces) /\ End(p) \in Nat /\ End(q) = End(p) + x.size
        /\ Len(p) + 1 \in 1 .. Len(s) /\ s[Len(p) + 1] = x
        /\ Start(s, Len(p) + 1) = End(p)
    BY Behind
  <1>2. Layout(s).at[x.field] = <<End(p), End(p) + x.size>>
    BY <1>1, FieldAt
  <1>3. x.field \in FieldsOf(s) \ {"int"}
    BY <1>1 DEF FieldsOf
  <1> QED BY <1>1, <1>2, <1>3, LayoutDomain

LEMMA EmptyEnds == << >> \in Seq(Pieces) /\ End(<< >>) = 8
  <1>1. Len(<< >>) = 0
    OBVIOUS
  <1> QED BY <1>1, StartSteps DEF End

LEMMA HeadIs ==
    ASSUME NEW a \in SampleAttributes
    PROVE  8 * Cardinality({"IDENTIFIER", "IP", "TID"} \cap a) = IF "IP" \in a THEN 24 ELSE 16
  <1>1. IsFiniteSet({"IDENTIFIER"}) /\ Cardinality({"IDENTIFIER"}) = 1
    BY FS_Singleton
  <1>2. /\ IsFiniteSet({"IDENTIFIER"} \cup {"TID"})
        /\ Cardinality({"IDENTIFIER"} \cup {"TID"}) = 2
    BY <1>1, FS_AddElement
  <1>3. Cardinality(({"IDENTIFIER"} \cup {"TID"}) \cup {"IP"}) = 3
    <2>1. "IP" \notin {"IDENTIFIER"} \cup {"TID"}
      OBVIOUS
    <2> QED BY <1>2, <2>1, FS_AddElement
  <1>4. {"IDENTIFIER", "TID"} \subseteq a
    BY DEF SampleAttributes, CommonFormats
  <1>5. CASE "IP" \in a
    <2>1. {"IDENTIFIER", "IP", "TID"} \cap a = ({"IDENTIFIER"} \cup {"TID"}) \cup {"IP"}
      BY <1>4, <1>5
    <2> QED BY <1>3, <1>5, <2>1
  <1>6. CASE "IP" \notin a
    <2>1. {"IDENTIFIER", "IP", "TID"} \cap a = {"IDENTIFIER"} \cup {"TID"}
      BY <1>4, <1>6
    <2> QED BY <1>2, <1>6, <2>1
  <1> QED BY <1>5, <1>6

LEMMA SampleTime ==
    ASSUME NEW a \in SampleAttributes, NEW v \in ValuesOfSample
    PROVE  LET at == Layout(SamplePieces(a, v)).at
               t == 8 + 8 * Cardinality({"IDENTIFIER", "IP", "TID"} \cap a)
           IN  /\ "id" \in DOMAIN at /\ at["id"] = <<8, 16>>
               /\ "time" \in DOMAIN at /\ at["time"] = <<t, t + 8>>
  <1> DEFINE s == SamplePieces(a, v)
             at == Layout(s).at
             none == << >>
             i == Piece("id", 8)
             ip == Piece("ip", 8)
             x == Piece("pid", 4)
             y == Piece("tid", 4)
             z == Piece("time", 8)
             h == IdPart(a) \o IpPart(a)
             h1 == h \o <<x>>
             h2 == h1 \o <<y>>
             h3 == h2 \o <<z>>
  <1>1. /\ s \in Seq(Pieces) /\ OnePerField(s) /\ Begins(ToThread(a), s)
        /\ h \in Seq(Pieces) /\ Len(s) \in Nat
    BY SampleBegins
  <1>2. /\ i \in Pieces /\ i.field = "id" /\ i.size = 8
        /\ x \in Pieces /\ x.field = "pid" /\ x.size = 4
        /\ y \in Pieces /\ y.field = "tid" /\ y.size = 4
        /\ z \in Pieces /\ z.field = "time" /\ z.size = 8
        /\ ip \in Pieces /\ ip.field = "ip" /\ ip.size = 8
    BY PieceIs DEF FieldNames
  <1>a. h1 = h \o <<x>> /\ h2 = h1 \o <<y>> /\ h3 = h2 \o <<z>> /\ h = IdPart(a) \o IpPart(a)
    OBVIOUS
  <1>3. ToThread(a) = h3
    <2>1. ToThread(a) = h \o <<x, y, z>>
      BY DEF ToThread, ThreadPart
    <2> HIDE DEF h, x, y, z
    <2>2. h \in Seq(Pieces) /\ x \in Pieces /\ y \in Pieces /\ z \in Pieces
      BY <1>1, <1>2
    <2>3. h \o <<x, y, z>> = ((h \o <<x>>) \o <<y>>) \o <<z>>
      BY <2>2, SplitThree
    <2> QED BY <2>1, <2>3
  <1>4. IdPart(a) = none \o <<i>> /\ IdPart(a) \in Seq(Pieces) /\ none \in Seq(Pieces)
        /\ End(none) = 8
    <2>1. IdPart(a) = <<i>>
      BY DEF IdPart, If, SampleAttributes, CommonFormats
    <2>2. <<i>> \in Seq(Pieces)
      BY <1>2
    <2> QED BY <2>1, <2>2, ConcatEmptySeq, EmptyEnds
  <1>5. /\ "IP" \in a => IpPart(a) = <<ip>>
        /\ "IP" \notin a => IpPart(a) = << >>
    BY DEF IpPart, If
  <1> HIDE DEF s, none, i, ip, x, y, z, h, h1, h2, h3
  <1>6. h1 \in Seq(Pieces) /\ h2 \in Seq(Pieces)
    BY <1>1, <1>2, <1>a
  <1>7. /\ "time" \in DOMAIN at /\ at["time"] = <<End(h2), End(h2) + 8>> /\ Begins(h2, s)
    <2>1. Begins(h3, s)
      BY <1>1, <1>3
    <2> QED BY <1>1, <1>2, <1>a, <1>6, <2>1, PieceAt
  <1> HIDE DEF at
  <1>8. End(h2) = End(h1) + 4 /\ Begins(h1, s)
    BY <1>1, <1>2, <1>a, <1>6, <1>7, PieceAt
  <1>9. End(h1) = End(h) + 4 /\ Begins(h, s) /\ End(h) \in Nat
    BY <1>1, <1>2, <1>a, <1>6, <1>8, PieceAt
  <1>10. Begins(IdPart(a), s)
    <2>1. IpPart(a) \in Seq(Pieces)
      BY PartsAre
    <2> QED BY <1>1, <1>4, <1>9, <1>a, <2>1, BeginsBefore
  <1>11. /\ "id" \in DOMAIN at /\ at["id"] = <<8, 16>> /\ End(IdPart(a)) = 16
    <2>0. PICK q : q = IdPart(a)
      OBVIOUS
    <2>1. q = none \o <<i>> /\ Begins(q, s) /\ q \in Seq(Pieces)
      BY <1>4, <1>10, <2>0
    <2>2. /\ s \in Seq(Pieces) /\ OnePerField(s) /\ none \in Seq(Pieces) /\ i \in Pieces
          /\ i.field = "id" /\ i.size = 8
      BY <1>1, <1>2, <1>4
    <2>3. /\ "id" \in DOMAIN Layout(s).at
          /\ Layout(s).at["id"] = <<End(none), End(none) + 8>> /\ End(q) = End(none) + 8
      <3>1. i.field # "int" /\ i.field \in FieldNames
        BY <2>2 DEF FieldNames
      <3>2. /\ Len(none) + 1 \in 1 .. Len(s) /\ s[Len(none) + 1] = i
            /\ Start(s, Len(none) + 1) = End(none) /\ End(q) = End(none) + i.size
        BY <2>1, <2>2, Behind
      <3>3. Layout(s).at[i.field] = <<End(none), End(none) + i.size>>
        BY <2>2, <3>1, <3>2, FieldAt
      <3>4. i.field \in FieldsOf(s) \ {"int"}
        BY <3>1, <3>2 DEF FieldsOf
      <3> QED BY <2>2, <3>2, <3>3, <3>4, LayoutDomain
    <2> QED BY <1>4, <2>0, <2>3 DEF at
  <1>12. End(h) = IF "IP" \in a THEN 24 ELSE 16
    <2>1. CASE "IP" \in a
      <3>0. PICK q : q = IdPart(a)
        OBVIOUS
      <3>2. h = q \o <<ip>> /\ q \in Seq(Pieces)
        BY <1>4, <1>5, <1>a, <2>1, <3>0
      <3>4. /\ s \in Seq(Pieces) /\ OnePerField(s) /\ Begins(h, s) /\ ip \in Pieces
            /\ ip.field = "ip" /\ ip.size = 8 /\ h \in Seq(Pieces)
        BY <1>1, <1>2, <1>9
      <3>1. End(h) = End(q) + ip.size
        BY <3>2, <3>4, Behind
      <3>3. End(h) = End(IdPart(a)) + 8
        BY <3>0, <3>1, <3>4
      <3> QED BY <1>11, <2>1, <3>3
    <2>2. CASE "IP" \notin a
      <3>1. h = IdPart(a)
        BY <1>4, <1>5, <1>a, <2>2, PartOrNothing
      <3> QED BY <1>11, <2>2, <3>1
    <2> QED BY <2>1, <2>2
  <1> DEFINE t == 8 + 8 * Cardinality({"IDENTIFIER", "IP", "TID"} \cap a)
  <1>13. End(h2) = t
    BY <1>8, <1>9, <1>12, HeadIs
  <1> HIDE DEF t
  <1>14. "time" \in DOMAIN at /\ at["time"] = <<t, t + 8>>
    BY <1>7, <1>13
  <1> QED BY <1>11, <1>14 DEF t, at, s

-----------------------------------------------------------------------------
(* The trailer of every other record.                                      *)

LEMMA TrailerLaid ==
    ASSUME NEW size \in Nat
    PROVE  LET l == Layout(TrailerPieces(size))
           IN  /\ l.size = 32 + size /\ l.at["data"] = <<8, 8 + size>>
               /\ l.at["pid"] = <<8 + size, 12 + size>>
               /\ l.at["tid"] = <<12 + size, 16 + size>>
               /\ l.at["time"] = <<16 + size, 24 + size>>
               /\ l.at["id"] = <<24 + size, 32 + size>>
  <1> DEFINE d == Piece("data", size)
             x == Piece("pid", 4)
             y == Piece("tid", 4)
             z == Piece("time", 8)
             i == Piece("id", 8)
             s == <<d, x, y, z, i>>
  <1>1. /\ d \in Pieces /\ d.field = "data" /\ d.size = size
        /\ x \in Pieces /\ x.field = "pid" /\ x.size = 4
        /\ y \in Pieces /\ y.field = "tid" /\ y.size = 4
        /\ z \in Pieces /\ z.field = "time" /\ z.size = 8
        /\ i \in Pieces /\ i.field = "id" /\ i.size = 8
    BY PieceIs DEF FieldNames
  <1>2. TrailerPieces(size) = s
    BY DEF TrailerPieces
  <1> HIDE DEF d, x, y, z, i
  <1>3. /\ s \in Seq(Pieces) /\ Len(s) = 5
        /\ s[1] = d /\ s[2] = x /\ s[3] = y /\ s[4] = z /\ s[5] = i
    BY <1>1
  <1> HIDE DEF s
  <1>a. Len(s) \in Nat /\ Len(s) = 5 /\ 1 .. Len(s) = 1 .. 5
    BY <1>3
  <1>4. /\ s[1].field = "data" /\ s[2].field = "pid" /\ s[3].field = "tid"
        /\ s[4].field = "time" /\ s[5].field = "id"
        /\ s[1].size = size /\ s[2].size = 4 /\ s[3].size = 4 /\ s[4].size = 8
        /\ s[5].size = 8
    BY <1>1, <1>3
  <1>5. OnePerField(s)
    <2>1. \A k \in 1 .. 5 : k = 1 \/ k = 2 \/ k = 3 \/ k = 4 \/ k = 5
      OBVIOUS
    <2> SUFFICES ASSUME NEW j \in 1 .. 5, NEW k \in 1 .. 5, s[j].field = s[k].field
                 PROVE  j = k
      BY <1>3 DEF OnePerField
    <2> QED BY <1>4, <2>1
  <1>6. /\ Start(s, 1) = 8 /\ Start(s, 2) = 8 + size /\ Start(s, 3) = 12 + size
        /\ Start(s, 4) = 16 + size /\ Start(s, 5) = 24 + size /\ Start(s, 6) = 32 + size
    <2>1. /\ Start(s, 1) = 8
          /\ \A k \in 1 .. 5 : Start(s, k + 1) = Start(s, k) + s[k].size
      BY <1>a, StartSteps
    <2>2. Start(s, 2) = 8 + size
      <3>1. Start(s, 1 + 1) = Start(s, 1) + s[1].size
        BY <2>1
      <3> QED BY <1>4, <2>1, <3>1
    <2>3. Start(s, 3) = 12 + size
      <3>1. Start(s, 2 + 1) = Start(s, 2) + s[2].size
        BY <2>1
      <3> QED BY <1>4, <2>2, <3>1
    <2>4. Start(s, 4) = 16 + size
      <3>1. Start(s, 3 + 1) = Start(s, 3) + s[3].size
        BY <2>1
      <3> QED BY <1>4, <2>3, <3>1
    <2>5. Start(s, 5) = 24 + size
      <3>1. Start(s, 4 + 1) = Start(s, 4) + s[4].size
        BY <2>1
      <3> QED BY <1>4, <2>4, <3>1
    <2>6. Start(s, 6) = 32 + size
      <3>1. Start(s, 5 + 1) = Start(s, 5) + s[5].size
        BY <2>1
      <3> QED BY <1>4, <2>5, <3>1
    <2> QED BY <2>1, <2>2, <2>3, <2>4, <2>5, <2>6
  <1>7. ASSUME NEW k \in 1 .. 5
        PROVE  Layout(s).at[s[k].field] = <<Start(s, k), Start(s, k) + s[k].size>>
    <2>1. s[k].field # "int"
      <3>1. k = 1 \/ k = 2 \/ k = 3 \/ k = 4 \/ k = 5
        OBVIOUS
      <3> QED BY <1>4, <3>1
    <2> QED BY <1>3, <1>5, <2>1, FieldAt
  <1>8. Layout(s).at["data"] = <<8, 8 + size>>
    BY <1>4, <1>6, <1>7
  <1>9. Layout(s).at["pid"] = <<8 + size, 12 + size>>
    BY <1>4, <1>6, <1>7
  <1>10. Layout(s).at["tid"] = <<12 + size, 16 + size>>
    BY <1>4, <1>6, <1>7
  <1>11. Layout(s).at["time"] = <<16 + size, 24 + size>>
    BY <1>4, <1>6, <1>7
  <1>12. Layout(s).at["id"] = <<24 + size, 32 + size>>
    BY <1>4, <1>6, <1>7
  <1>13. Layout(s).size = 32 + size
    <2>1. Len(s) + 1 = 6
      BY <1>a
    <2>2. End(s) = 32 + size
      BY <1>6, <2>1 DEF End
    <2> QED BY <2>2, LayoutDomain
  <1> QED BY <1>2, <1>8, <1>9, <1>10, <1>11, <1>12, <1>13

LEMMA TrailerDecoded ==
    ASSUME NEW a, {"IDENTIFIER", "TID", "TIME"} \subseteq a,
           a \cap {"ID", "STREAM_ID", "CPU"} = {}, NEW size \in Nat, NEW l,
           l.size = 32 + size, NEW f, f = [g \in FieldNames |-> f[g]]
    PROVE  LET d == DecodeTrailer(a, l, f)
           IN  /\ d = [g \in FieldNames |-> d[g]]
               /\ d["pid"] = <<8 + size, 12 + size>> /\ d["tid"] = <<12 + size, 16 + size>>
               /\ d["time"] = <<16 + size, 24 + size>> /\ d["id"] = <<24 + size, 32 + size>>
               /\ d["cpu"] = Unset /\ d["stream_id"] = Unset
  <1> DEFINE d == DecodeTrailer(a, l, f)
             pid == Update([o |-> l.size - TrailerSize(a), f |-> f], "pid", 4)
             tid == Update(pid, "tid", 4)
             time == Update(tid, "time", 8)
             id == Reset(time, "id")
             stream == Reset(id, "stream_id")
             cpu == Reset(stream, "cpu")
  <1>1. d = Update(cpu, "id", 8).f
    BY DEF DecodeTrailer, DecodeFixed
  <1>2. l.size - TrailerSize(a) = 8 + size
    <2>1. TrailerSize(a) = 24
      BY DEF TrailerSize
    <2> QED BY <2>1
  <1>3. {"pid", "tid", "time", "id", "stream_id", "cpu"} \subseteq FieldNames
    BY DEF FieldNames
  <1>4. /\ pid.o = 12 + size /\ pid.f = [g \in FieldNames |-> pid.f[g]]
        /\ pid.f["pid"] = <<8 + size, 12 + size>>
    BY <1>2, <1>3 DEF Update
  <1> HIDE DEF pid
  <1>5. /\ tid.o = 16 + size /\ tid.f = [g \in FieldNames |-> tid.f[g]]
        /\ tid.f["pid"] = <<8 + size, 12 + size>> /\ tid.f["tid"] = <<12 + size, 16 + size>>
    BY <1>3, <1>4 DEF Update
  <1> HIDE DEF tid
  <1>6. /\ time.o = 24 + size /\ time.f = [g \in FieldNames |-> time.f[g]]
        /\ time.f["pid"] = <<8 + size, 12 + size>> /\ time.f["tid"] = <<12 + size, 16 + size>>
        /\ time.f["time"] = <<16 + size, 24 + size>> /\ time = [o |-> time.o, f |-> time.f]
    BY <1>3, <1>5 DEF Update
  <1> HIDE DEF time
  <1>7. /\ id.o = 24 + size /\ id.f = [g \in FieldNames |-> id.f[g]]
        /\ id.f["pid"] = <<8 + size, 12 + size>> /\ id.f["tid"] = <<12 + size, 16 + size>>
        /\ id.f["time"] = <<16 + size, 24 + size>> /\ id = [o |-> id.o, f |-> id.f]
    BY <1>3, <1>6 DEF Reset
  <1> HIDE DEF id
  <1>8. /\ stream.o = 24 + size /\ stream.f = [g \in FieldNames |-> stream.f[g]]
        /\ stream.f["pid"] = <<8 + size, 12 + size>>
        /\ stream.f["tid"] = <<12 + size, 16 + size>>
        /\ stream.f["time"] = <<16 + size, 24 + size>> /\ stream.f["stream_id"] = Unset
        /\ stream = [o |-> stream.o, f |-> stream.f]
    BY <1>3, <1>7 DEF Reset
  <1> HIDE DEF stream
  <1>9. /\ cpu.o = 24 + size /\ cpu.f = [g \in FieldNames |-> cpu.f[g]]
        /\ cpu.f["pid"] = <<8 + size, 12 + size>> /\ cpu.f["tid"] = <<12 + size, 16 + size>>
        /\ cpu.f["time"] = <<16 + size, 24 + size>> /\ cpu.f["stream_id"] = Unset
        /\ cpu.f["cpu"] = Unset
    BY <1>3, <1>8 DEF Reset
  <1> HIDE DEF cpu, d
  <1> QED BY <1>1, <1>3, <1>9 DEF Update, d

-----------------------------------------------------------------------------
(* The records that come were written like that.                           *)

WrittenSample(r) ==
    /\ r.entry = "SAMPLE" /\ r.a \in SampleAttributes
    /\ \E v \in ValuesOfSample : r.l = Layout(SamplePieces(r.a, v))
WrittenOther(r) ==
    /\ r.entry # "SAMPLE" /\ r.a = CommonFormats \cup RawFormats(r.kind)
    /\ \E size \in Nat : r.l = Layout(TrailerPieces(size))

LEMMA RecordsWritten ==
    ASSUME NEW r \in Records
    PROVE  WrittenSample(r) \/ WrittenOther(r)
  <1>1. PICK kind \in Kinds : r \in Others(kind) \/ r \in Samples(kind)
    BY DEF Records
  <1>2. CASE r \in Others(kind)
    <2>1. PICK e \in OtherEntries, size \in OtherSizes :
                r = [entry |-> e, kind |-> kind, a |-> Attributes(kind, {}), event |-> 1,
                     pay |-> NoPayload, l |-> Layout(TrailerPieces(size))]
      BY <1>2 DEF Others
    <2>2. /\ r.entry # "SAMPLE" /\ r.a = CommonFormats \cup RawFormats(r.kind)
          /\ r.l = Layout(TrailerPieces(size)) /\ size \in Nat
      BY <2>1, ValuesAssumption DEF OtherEntries, Attributes
    <2> QED BY <2>2 DEF WrittenOther
  <1>3. CASE r \in Samples(kind)
    <2>1. PICK options \in OptionSets(kind) :
            \E a \in {Attributes(kind, options), WithoutCallstack(Attributes(kind, options))} :
            \E v \in SampleValues(kind, a), id \in EventIds \cup {255} :
                r = Sample(kind, a, v, id, NoPayload)
      BY <1>3 DEF Samples
    <2>2. PICK a \in {Attributes(kind, options), WithoutCallstack(Attributes(kind, options))} :
            \E v \in SampleValues(kind, a), id \in EventIds \cup {255} :
                r = Sample(kind, a, v, id, NoPayload)
      BY <2>1
    <2>3. PICK v \in SampleValues(kind, a), id \in EventIds \cup {255} :
                r = Sample(kind, a, v, id, NoPayload)
      BY <2>2
    <2>4. r.entry = "SAMPLE" /\ r.a = a /\ r.l = Layout(SamplePieces(a, v))
      BY <2>3 DEF Sample
    <2>5. a \in SampleAttributes
      <3>1. options \subseteq OptionFormats
        BY DEF OptionSets
      <3>2. Attributes(kind, options) \in SampleAttributes
        BY <3>1 DEF Attributes, SampleAttributes, RawFormats
      <3>3. \A x \in SampleAttributes : WithoutCallstack(x) \in SampleAttributes
        BY DEF SampleAttributes, WithoutCallstack, CommonFormats, OptionFormats
      <3> QED BY <3>2, <3>3
    <2>6. v \in ValuesOfSample
      <3>1. /\ v \in [frames : Depths \cup {0}, raw : RawSizes \cup {4}, abi : {0, 2},
                       stack : StackSizes \cup {0}]
            /\ v.stack <= StackBytes
        BY DEF SampleValues
      <3>2. /\ v = [frames |-> v.frames, raw |-> v.raw, abi |-> v.abi, stack |-> v.stack]
            /\ v.frames \in Depths \cup {0} /\ v.raw \in RawSizes \cup {4}
            /\ v.abi \in {0, 2} /\ v.stack \in StackSizes \cup {0}
        BY <3>1
      <3>3. v.frames \in Nat /\ v.raw \in Nat /\ v.stack \in Nat
        BY <3>2, ValuesAssumption
      <3>4. \A raw \in RawSizes \cup {4} : (4 + raw) % 8 = 0
        BY ValuesAssumption
      <3>5. v \in [frames : Nat, raw : Nat, abi : {0, 2}, stack : Nat]
        BY <3>2, <3>3
      <3> QED BY <3>1, <3>2, <3>4, <3>5 DEF ValuesOfSample
    <2> QED BY <2>4, <2>5, <2>6 DEF WrittenSample
  <1> QED BY <1>1, <1>2, <1>3

-----------------------------------------------------------------------------
(* The size of a payload is a number.                                      *)

IsSeq(x) == \E T : x \in Seq(T)

IsJoin(s, f, n) == f = [i \in 1 .. n |-> IF i = 1 THEN s[i] ELSE f[i - 1] \o s[i]]

LEMMA JoinExists ==
    ASSUME NEW s, NEW n \in Nat \ {0}
    PROVE  \E f : IsJoin(s, f, n)
  <1> DEFINE S == {k \in Nat : \E f : IsJoin(s, f, k)}
  <1>1. 1 \in S
    <2>1. IsJoin(s, [i \in 1 .. 1 |-> s[i]], 1)
      BY DEF IsJoin
    <2> QED BY <2>1
  <1>2. ASSUME NEW k \in 1 .. n - 1, k \in S PROVE k + 1 \in S
    <2>1. PICK g : IsJoin(s, g, k)
      BY <1>2
    <2> DEFINE f == [i \in 1 .. k + 1 |-> IF i = k + 1 THEN g[k] \o s[k + 1] ELSE g[i]]
               step(i) == IF i = 1 THEN s[i] ELSE f[i - 1] \o s[i]
    <2>2. \A i \in 1 .. k : g[i] = IF i = 1 THEN s[i] ELSE g[i - 1] \o s[i]
      BY <2>1 DEF IsJoin
    <2>3. ASSUME NEW i \in 1 .. k + 1 PROVE f[i] = step(i)
      <3>1. CASE i = k + 1
        <4>1. i - 1 = k /\ k \in 1 .. k + 1 /\ k # k + 1 /\ i # 1
          BY <3>1
        <4>2. f[k] = g[k] /\ f[i] = g[k] \o s[k + 1]
          BY <3>1, <4>1
        <4> QED BY <3>1, <4>1, <4>2
      <3>2. CASE i # k + 1 /\ i # 1
        <4>1. f[i - 1] = g[i - 1] /\ f[i] = g[i] /\ i \in 1 .. k
          BY <3>2
        <4> QED BY <2>2, <3>2, <4>1
      <3>3. CASE i # k + 1 /\ i = 1
        BY <2>2, <3>3
      <3> QED BY <3>1, <3>2, <3>3
    <2>4. f = [i \in 1 .. k + 1 |-> step(i)]
      <3>1. f = [i \in 1 .. k + 1 |-> f[i]]
        OBVIOUS
      <3> HIDE DEF f
      <3> QED BY <2>3, <3>1
    <2>5. IsJoin(s, f, k + 1)
      <3> HIDE DEF f
      <3> QED BY <2>4 DEF IsJoin
    <2> HIDE DEF f
    <2> QED BY <2>5
  <1>3. 1 .. (n - 1) + 1 \subseteq S
    <2>1. n - 1 \in Nat
      OBVIOUS
    <2> HIDE DEF S
    <2> QED BY <1>1, <1>2, <2>1, UpTo
  <1>4. n \in 1 .. (n - 1) + 1
    OBVIOUS
  <1> QED BY <1>3, <1>4

LEMMA Joined ==
    ASSUME NEW n \in Nat, NEW s, s = [i \in 1 .. n |-> s[i]], \A i \in 1 .. n : IsSeq(s[i])
    PROVE  IsSeq(FlattenSeq(s))
  <1> DEFINE of(i) == CHOOSE T : s[i] \in Seq(T)
             S == UNION {of(i) : i \in 1 .. n}
             Q == Seq(S)
  <1>1. \A i \in 1 .. n : s[i] \in Q
    <2> TAKE i \in 1 .. n
    <2>1. s[i] \in Seq(of(i)) /\ of(i) \subseteq S
      BY DEF IsSeq
    <2> HIDE DEF of, S
    <2> QED BY <2>1, SeqMonotonic
  <1> HIDE DEF S
  <1>2. s \in Seq(Q) /\ Len(s) = n
    <2>1. s \in [1 .. n -> Q]
      BY <1>1
    <2> HIDE DEF Q
    <2> QED BY <2>1
  <1>3. CASE n = 0
    <2>1. FlattenSeq(s) = s
      BY <1>2, <1>3 DEF FlattenSeq
    <2> QED BY <1>2, <2>1 DEF IsSeq
  <1>4. CASE n # 0
    <2> DEFINE f == CHOOSE g : IsJoin(s, g, n)
    <2>1. FlattenSeq(s) = f[n]
      BY <1>2, <1>4 DEF FlattenSeq, IsJoin
    <2>2. IsJoin(s, f, n)
      BY <1>4, JoinExists
    <2> HIDE DEF f
    <2>3. \A i \in 1 .. n : f[i] = IF i = 1 THEN s[i] ELSE f[i - 1] \o s[i]
      BY <2>2 DEF IsJoin
    <2> DEFINE Joins == {i \in 1 .. n : f[i] \in Q}
    <2>4. 1 \in Joins
      BY <1>1, <1>4, <2>3
    <2>5. ASSUME NEW k \in 1 .. n - 1, k \in Joins PROVE k + 1 \in Joins
      <3>1. k + 1 \in 1 .. n /\ k + 1 # 1 /\ (k + 1) - 1 = k
        OBVIOUS
      <3>2. f[k + 1] = f[k] \o s[k + 1]
        BY <2>3, <3>1
      <3>3. f[k] \in Seq(S) /\ s[k + 1] \in Seq(S)
        BY <1>1, <2>5, <3>1
      <3>4. f[k + 1] \in Seq(S)
        BY <3>2, <3>3, ConcatProperties
      <3> QED BY <3>1, <3>4
    <2>6. 1 .. (n - 1) + 1 \subseteq Joins
      <3>1. n - 1 \in Nat
        BY <1>4
      <3> HIDE DEF Joins
      <3> QED BY <2>4, <2>5, <3>1, UpTo
    <2>7. f[n] \in Seq(S)
      BY <1>4, <2>6
    <2> QED BY <2>1, <2>7 DEF IsSeq
  <1> QED BY <1>3, <1>4

LEMMA ConcatIsSeq ==
    ASSUME NEW x, IsSeq(x), NEW y, IsSeq(y)
    PROVE  IsSeq(x \o y) /\ Len(x) \in Nat
  <1>1. PICK T : x \in Seq(T)
    BY DEF IsSeq
  <1>2. PICK U : y \in Seq(U)
    BY DEF IsSeq
  <1>3. x \in Seq(T \cup U) /\ y \in Seq(T \cup U)
    BY <1>1, <1>2, SeqMonotonic
  <1>4. x \o y \in Seq(T \cup U)
    BY <1>3, ConcatProperties
  <1> QED BY <1>1, <1>4 DEF IsSeq

LEMMA TuplesAreSeq ==
    /\ IsSeq(<< >>) /\ \A x : IsSeq(<<x>>) /\ \A y : IsSeq(<<x, y>>)
    /\ \A x, y, z : IsSeq(<<x, y, z>>) /\ \A u : IsSeq(<<x, y, z, u>>)
  <1>1. IsSeq(<< >>)
    BY EmptySeq DEF IsSeq
  <1>2. ASSUME NEW x, NEW y PROVE IsSeq(<<x>>) /\ IsSeq(<<x, y>>)
    <2>1. <<x>> \in Seq({x, y}) /\ <<x, y>> \in Seq({x, y})
      OBVIOUS
    <2> QED BY <2>1 DEF IsSeq
  <1>3. ASSUME NEW x, NEW y, NEW z, NEW u PROVE IsSeq(<<x, y, z>>) /\ IsSeq(<<x, y, z, u>>)
    <2>1. <<x, y, z>> \in Seq({x, y, z, u}) /\ <<x, y, z, u>> \in Seq({x, y, z, u})
      OBVIOUS
    <2> QED BY <2>1 DEF IsSeq
  <1> QED BY <1>1, <1>2, <1>3

LEMMA EncodedIsSeq ==
    ASSUME NEW format, NEW values, Len(format) \in Nat,
           \A i \in 1 .. Len(format) : IsSeq(values[i])
    PROVE  Len(Encoded(format, values)) \in Nat
  <1> DEFINE m == Len(format)
             fixed == [i \in 1 .. m |-> FixedBytes(format, values, i)]
             dynamic == [i \in 1 .. m |-> IF Dynamic(format[i]) THEN values[i] ELSE << >>]
  <1>1. ASSUME NEW i \in 1 .. m PROVE IsSeq(FixedBytes(format, values, i))
    <2> DEFINE f == format[i]
               v == values[i]
               at == DynamicStart(format, values, i)
               prefix == <<Len(v) \div TryGetElementSize(f.type), 0>>
               absolute == <<at, 0, Len(v), 0>>
               relative == <<at - FixedEnd(format, values, i), 0, Len(v), 0>>
    <2>1. IsSeq(v) /\ IsSeq(<<0>>) /\ IsSeq(<<0, 0>>) /\ IsSeq(prefix)
      BY TuplesAreSeq
    <2>2. IsSeq(absolute) /\ IsSeq(relative)
      BY TuplesAreSeq
    <2>3. \/ FixedBytes(format, values, i) = v \o <<0>>
          \/ FixedBytes(format, values, i) = v \o <<0, 0>>
          \/ FixedBytes(format, values, i) = prefix \o v
          \/ FixedBytes(format, values, i) = absolute
          \/ FixedBytes(format, values, i) = relative
          \/ FixedBytes(format, values, i) = v
      BY DEF FixedBytes
    <2>4. IsSeq(v \o <<0>>) /\ IsSeq(v \o <<0, 0>>) /\ IsSeq(prefix \o v)
      <3> HIDE DEF v, prefix
      <3> QED BY <2>1, ConcatIsSeq
    <2> QED BY <2>1, <2>2, <2>3, <2>4
  <1>2. IsSeq(FlattenSeq(fixed))
    <2>1. fixed = [i \in 1 .. m |-> fixed[i]] /\ \A i \in 1 .. m : IsSeq(fixed[i])
      BY <1>1
    <2> HIDE DEF fixed
    <2> QED BY <2>1, Joined
  <1>3. IsSeq(FlattenSeq(dynamic))
    <2>1. dynamic = [i \in 1 .. m |-> dynamic[i]] /\ \A i \in 1 .. m : IsSeq(dynamic[i])
      BY TuplesAreSeq
    <2> HIDE DEF dynamic
    <2> QED BY <2>1, Joined
  <1>4. Encoded(format, values) = FlattenSeq(fixed) \o FlattenSeq(dynamic)
    BY DEF Encoded
  <1> HIDE DEF fixed, dynamic
  <1>5. IsSeq(FlattenSeq(fixed) \o FlattenSeq(dynamic))
    BY <1>2, <1>3, ConcatIsSeq
  <1> QED BY <1>4, <1>5, ConcatIsSeq

(* A payload that the data of can be read.                                 *)
Sized(pay) ==
    /\ Len(pay.format) \in Nat /\ pay.cut \in Int
    /\ \A i \in 1 .. Len(pay.format) : IsSeq(pay.values[i])

LEMMA DataIsSized ==
    ASSUME NEW pay, Sized(pay)
    PROVE  Len(Data(pay)) \in Nat
  <1> DEFINE bytes == Encoded(pay.format, pay.values)
             end == Min({pay.cut, Len(bytes)})
             T == {bytes[i] : i \in 1 .. end}
  <1>1. Len(bytes) \in Nat
    BY EncodedIsSeq DEF Sized
  <1>2. end \in Int
    <2>1. pay.cut \in Int /\ Len(bytes) \in Int
      BY <1>1 DEF Sized
    <2> HIDE DEF bytes
    <2>2. \E x \in {pay.cut, Len(bytes)} : \A y \in {pay.cut, Len(bytes)} : x <= y
      BY <2>1
    <2> QED BY <2>1, <2>2 DEF Min
  <1>3. Data(pay) = SubSeq(bytes, 1, end)
    BY DEF Data
  <1> HIDE DEF bytes, end
  <1>4. Len(SubSeq(bytes, 1, end)) = IF 1 <= end THEN end - 1 + 1 ELSE 0
    <2>1. \A i \in 1 .. end : bytes[i] \in T
      OBVIOUS
    <2> HIDE DEF T
    <2> QED BY <1>2, <2>1, SubSeqProperties
  <1> QED BY <1>2, <1>3, <1>4

LEMMA ValuesAreSeq ==
    ASSUME NEW f \in PayloadFields, NEW w \in Values(f)
    PROVE  IsSeq(w)
  <1>0. /\ f.loc \in {"Static", "StaticString", "StaticUTF16String", "StaticLenPrefixArray",
                      "DynRelative", "DynAbsolute"}
        /\ f.loc = "Static" => f.size = 1
    BY DEF PayloadFields
  <1>1. \/ w = [k \in 1 .. 1 |-> 7]
        \/ w \in {<< >>, <<1, 2>>} \/ w \in {<< >>, <<0, 1, 2, 0>>}
        \/ w \in {<< >>, <<3, 0>>} \/ w \in {<< >>, <<4, 0>>}
    <2>1. CASE f.loc = "Static"
      BY <1>0, <2>1 DEF Values
    <2>2. CASE f.loc = "StaticString"
      BY <2>2 DEF Values
    <2>3. CASE f.loc = "StaticUTF16String"
      BY <2>3 DEF Values
    <2>4. CASE f.loc = "StaticLenPrefixArray"
      BY <2>4 DEF Values
    <2>5. CASE f.loc \in {"DynRelative", "DynAbsolute"}
      BY <2>5 DEF Values
    <2> QED BY <1>0, <2>1, <2>2, <2>3, <2>4, <2>5
  <1>2. IsSeq([k \in 1 .. 1 |-> 7])
    <2>1. [k \in 1 .. 1 |-> 7] \in Seq({7})
      OBVIOUS
    <2> QED BY <2>1 DEF IsSeq
  <1> QED BY <1>1, <1>2, TuplesAreSeq

LEMMA PayloadsSized ==
    ASSUME NEW id, NEW pay \in Payloads(id)
    PROVE  Sized(pay)
  <1> DEFINE All(fs) == UNION {Values(f) : f \in ToSet(fs)}
             Valued(fs) == {w \in [1 .. Len(fs) -> All(fs)] :
                               \A k \in 1 .. Len(fs) : w[k] \in Values(fs[k])}
             Cuts(fs, vs) ==
                {[format |-> <<CommonType>> \o fs, values |-> <<<<id, 0>>>> \o vs, cut |-> c,
                  filter |-> << >>] :
                    c \in 2 .. Len(Encoded(<<CommonType>> \o fs, <<<<id, 0>>>> \o vs))}
             Shapes == UNION {[1 .. m -> PayloadFields] : m \in 1 .. MaxFields}
  <1>1. PICK fs \in Shapes : \E vs \in Valued(fs) : pay \in Cuts(fs, vs)
    <2>1. Payloads(id) = UNION {UNION {Cuts(fs, vs) : vs \in Valued(fs)} : fs \in Shapes}
      BY DEF Payloads
    <2> HIDE DEF Valued, Cuts, Shapes
    <2> QED BY <2>1
  <1>2. PICK m \in 1 .. MaxFields : fs \in [1 .. m -> PayloadFields]
    OBVIOUS
  <1>3. m \in Nat /\ fs \in Seq(PayloadFields) /\ Len(fs) = m
    BY <1>2, BoundsAssumption
  <1> HIDE DEF All
  <1>4. PICK vs \in Valued(fs) : pay \in Cuts(fs, vs)
    BY <1>1
  <1>4a. PICK c \in 2 .. Len(Encoded(<<CommonType>> \o fs, <<<<id, 0>>>> \o vs)) :
            pay = [format |-> <<CommonType>> \o fs, values |-> <<<<id, 0>>>> \o vs, cut |-> c,
                   filter |-> << >>]
    BY <1>4
  <1> DEFINE first == <<id, 0>>
             T == All(fs) \cup {first}
  <1>5. vs \in Seq(T) /\ Len(vs) = m /\ \A k \in 1 .. m : vs[k] \in Values(fs[k])
    <2>1. vs \in [1 .. m -> T] /\ \A k \in 1 .. m : vs[k] \in Values(fs[k])
      BY <1>3, <1>4
    <2> HIDE DEF T
    <2> QED BY <1>3, <2>1
  <1>6. \A k \in 1 .. m : IsSeq(vs[k])
    BY <1>2, <1>5, ValuesAreSeq
  <1>7. IsSeq(first)
    BY TuplesAreSeq
  <1>8. pay.cut \in Int /\ pay.format = <<CommonType>> \o fs /\ pay.values = <<first>> \o vs
    BY <1>4a
  <1>9. first \in T
    OBVIOUS
  <1> HIDE DEF T, first
  <1>10. Len(<<CommonType>> \o fs) = 1 + m
    <2>1. <<CommonType>> \in Seq(PayloadFields \cup {CommonType}) /\ Len(<<CommonType>>) = 1
      OBVIOUS
    <2>2. fs \in Seq(PayloadFields \cup {CommonType})
      BY <1>3, SeqMonotonic
    <2> QED BY <1>3, <2>1, <2>2, ConcatProperties
  <1>11. \A i \in 1 .. 1 + m : (<<first>> \o vs)[i] = IF i <= 1 THEN <<first>>[i] ELSE vs[i - 1]
    <2>1. <<first>> \in Seq(T) /\ Len(<<first>>) = 1
      BY <1>9
    <2> QED BY <1>3, <1>5, <2>1, ConcatProperties
  <1>12. \A i \in 1 .. 1 + m : IsSeq((<<first>> \o vs)[i])
    <2> TAKE i \in 1 .. 1 + m
    <2>1. CASE i = 1
      <3>1. (<<first>> \o vs)[i] = first
        BY <1>11, <2>1
      <3> QED BY <1>7, <3>1
    <2>2. CASE i # 1
      <3>1. (<<first>> \o vs)[i] = vs[i - 1] /\ i - 1 \in 1 .. m
        BY <1>3, <1>11, <2>2
      <3> QED BY <1>6, <3>1
    <2> QED BY <2>1, <2>2
  <1> QED BY <1>3, <1>8, <1>10, <1>12 DEF Sized

LEMMA TwoAreSized ==
    ASSUME NEW pay, pay.cut \in Int, NEW x, NEW y, pay.format = <<x, y>>,
           NEW u, NEW v, pay.values = <<u, v>>, IsSeq(u), IsSeq(v)
    PROVE  Sized(pay)
  <1>1. Len(pay.format) = 2 /\ \A i \in 1 .. 2 : pay.values[i] = u \/ pay.values[i] = v
    OBVIOUS
  <1> QED BY <1>1 DEF Sized

LEMMA NumberPayloadSized ==
    ASSUME NEW id, NEW type, NEW b, NEW c \in Int, NEW op, NEW number
    PROVE  Sized(NumberPayload(id, type, b, c, op, number))
  <1> DEFINE pay == NumberPayload(id, type, b, c, op, number)
             y == [type |-> type, loc |-> "Static", size |-> Width(type)]
             u == <<id, 0>>
             v == IF Width(type) = 1 THEN <<b>> ELSE <<b, b>>
  <1>1. IsSeq(u)
    BY TuplesAreSeq
  <1>2. IsSeq(v)
    <2>1. IsSeq(<<b>>) /\ IsSeq(<<b, b>>)
      BY TuplesAreSeq
    <2> QED BY <2>1
  <1>3. pay.cut \in Int /\ pay.format = <<CommonType, y>> /\ pay.values = <<u, v>>
    BY DEF NumberPayload
  <1> HIDE DEF y, u, v, pay
  <1>4. Sized(pay)
    BY <1>1, <1>2, <1>3, TwoAreSized
  <1> QED BY <1>4 DEF pay

LEMMA NumericFiltersSized ==
    ASSUME NEW id, NEW pay \in NumericFilters(id)
    PROVE  Sized(pay)
  <1>1. PICK type \in {"u8", "s8", "u16", "s16"}, b \in {0, 127, 128, 255}, c \in {3, 4},
             op \in NumericOps \cup {"contains"}, number \in {-1, 0, 127, 128, 255, 32639} :
            pay = NumberPayload(id, type, b, c, op, number)
    BY DEF NumericFilters
  <1> QED BY <1>1, NumberPayloadSized

LEMMA TextIsSeq ==
    ASSUME NEW type, NEW text \in Texts(type)
    PROVE  Len(text) \in Nat /\ IsSeq(text)
  <1>1. text \in {<<1>>, <<2, 1>>, <<513, 256>>, <<1, 2, 1>>}
    BY DEF Texts
  <1>2. /\ <<1>> \in Seq(Nat) /\ <<2, 1>> \in Seq(Nat)
        /\ <<513, 256>> \in Seq(Nat) /\ <<1, 2, 1>> \in Seq(Nat)
    OBVIOUS
  <1>3. text \in Seq(Nat)
    BY <1>1, <1>2, ZenonT(40)
  <1> QED BY <1>3 DEF IsSeq

LEMMA TextFiltersSized ==
    ASSUME NEW id, NEW pay \in TextFilters(id)
    PROVE  Sized(pay)
  <1>1. PICK f \in {[type |-> "char", loc |-> "StaticString", size |-> 0],
                    [type |-> "wchar", loc |-> "StaticUTF16String", size |-> 0]} :
            \E text \in Texts(f.type) :
                /\ pay.format = <<CommonType, f>>
                /\ pay.values = <<<<id, 0>>, OperandBytes(f.type, text)>>
                /\ pay.cut = 255
    BY DEF TextFilters
  <1>2. PICK text \in Texts(f.type) :
                /\ pay.format = <<CommonType, f>>
                /\ pay.values = <<<<id, 0>>, OperandBytes(f.type, text)>>
                /\ pay.cut = 255
    BY <1>1
  <1> DEFINE u == <<id, 0>>
             v == OperandBytes(f.type, text)
             wide == [k \in 1 .. Len(text) |-> <<text[k] % 256, (text[k] \div 256) % 256>>]
  <1>3. Len(text) \in Nat /\ IsSeq(text)
    BY TextIsSeq
  <1>4. IsSeq(FlattenSeq(wide))
    <2>1. wide = [k \in 1 .. Len(text) |-> wide[k]] /\ \A k \in 1 .. Len(text) : IsSeq(wide[k])
      BY TuplesAreSeq, ZenonT(40)
    <2> HIDE DEF wide
    <2> QED BY <1>3, <2>1, Joined
  <1>5. IsSeq(v) /\ IsSeq(u)
    BY <1>3, <1>4, TuplesAreSeq DEF OperandBytes
  <1>6. pay.cut \in Int /\ pay.format = <<CommonType, f>> /\ pay.values = <<u, v>>
    BY <1>2
  <1> HIDE DEF u, v
  <1> QED BY <1>5, <1>6, TwoAreSized

-----------------------------------------------------------------------------
(* What is left behind by a record that was parsed.                        *)

Exact(r, f, o) ==
    IF r.entry = "SAMPLE"
    THEN \A g \in FieldNames : f[g] = IF g \in DOMAIN r.l.at THEN r.l.at[g] ELSE Unset
    ELSE /\ \A g \in {"pid", "tid", "time", "id"} : f[g] = r.l.at[g]
         /\ f["cpu"] = Unset /\ f["stream_id"] = Unset /\ o.data[1] = r.l.at["data"][1]

AsMerged(r, f) ==
    /\ f["time"] = <<ReadTimeOffset(r), ReadTimeOffset(r) + 8>>
    /\ f["id"] = <<ReadIdOffset(r), ReadIdOffset(r) + 8>>

LEMMA SampleLeaves ==
    ASSUME NEW r, WrittenSample(r), NEW f, f = [g \in FieldNames |-> f[g]], NEW o,
           NEW d, d = DecodeSample(r.a, r.l, f)
    PROVE  d = [g \in FieldNames |-> d[g]] /\ Exact(r, d, o) /\ AsMerged(r, d)
  <1>1. r.a \in SampleAttributes /\ r.entry = "SAMPLE"
    BY DEF WrittenSample
  <1>2. PICK v \in ValuesOfSample : r.l = Layout(SamplePieces(r.a, v))
    BY DEF WrittenSample
  <1>4. /\ d = [g \in FieldNames |-> d[g]]
        /\ \A g \in FieldNames : d[g] = IF g \in DOMAIN r.l.at THEN r.l.at[g] ELSE Unset
    BY <1>1, <1>2, SampleDecoded
  <1>5. /\ "id" \in DOMAIN r.l.at /\ r.l.at["id"] = <<8, 16>>
        /\ "time" \in DOMAIN r.l.at
        /\ r.l.at["time"] = <<ReadTimeOffset(r), ReadTimeOffset(r) + 8>>
    <2>1. ReadTimeOffset(r) = 8 + 8 * Cardinality({"IDENTIFIER", "IP", "TID"} \cap r.a)
      BY <1>1 DEF ReadTimeOffset
    <2> QED BY <1>1, <1>2, <2>1, SampleTime
  <1>6. ReadIdOffset(r) = 8
    BY <1>1 DEF ReadIdOffset
  <1>7. "id" \in FieldNames /\ "time" \in FieldNames
    BY DEF FieldNames
  <1>8. AsMerged(r, d)
    BY <1>4, <1>5, <1>6, <1>7 DEF AsMerged
  <1>9. Exact(r, d, o)
    BY <1>1, <1>4 DEF Exact
  <1> QED BY <1>4, <1>8, <1>9

LEMMA OtherLeaves ==
    ASSUME NEW r, WrittenOther(r), NEW f, f = [g \in FieldNames |-> f[g]], NEW o,
           NEW d, d = DecodeTrailer(r.a, r.l, f), o.data = <<8, r.l.size>>
    PROVE  d = [g \in FieldNames |-> d[g]] /\ Exact(r, d, o) /\ AsMerged(r, d)
  <1>1. /\ {"IDENTIFIER", "TID", "TIME"} \subseteq r.a
        /\ r.a \cap {"ID", "STREAM_ID", "CPU"} = {} /\ r.entry # "SAMPLE"
    BY DEF WrittenOther, CommonFormats, RawFormats
  <1>2. PICK size \in Nat : r.l = Layout(TrailerPieces(size))
    BY DEF WrittenOther
  <1>3. /\ r.l.size = 32 + size /\ r.l.at["data"] = <<8, 8 + size>>
        /\ r.l.at["pid"] = <<8 + size, 12 + size>>
        /\ r.l.at["tid"] = <<12 + size, 16 + size>>
        /\ r.l.at["time"] = <<16 + size, 24 + size>>
        /\ r.l.at["id"] = <<24 + size, 32 + size>>
    BY <1>2, TrailerLaid
  <1>4. /\ d = [g \in FieldNames |-> d[g]]
        /\ d["pid"] = <<8 + size, 12 + size>> /\ d["tid"] = <<12 + size, 16 + size>>
        /\ d["time"] = <<16 + size, 24 + size>> /\ d["id"] = <<24 + size, 32 + size>>
        /\ d["cpu"] = Unset /\ d["stream_id"] = Unset
    BY <1>1, <1>3, TrailerDecoded
  <1>5. ReadTimeOffset(r) = 16 + size /\ ReadIdOffset(r) = 24 + size
    BY <1>1, <1>3 DEF ReadTimeOffset, ReadIdOffset
  <1>6. AsMerged(r, d)
    BY <1>4, <1>5 DEF AsMerged
  <1>7. Exact(r, d, o)
    BY <1>1, <1>3, <1>4 DEF Exact
  <1> QED BY <1>4, <1>6, <1>7

LEMMA PayloadWritten ==
    ASSUME NEW pay, Sized(pay), NEW id
    PROVE  WrittenSample(Sample("tracepoint", Attributes("tracepoint", {}),
                                [NoValues EXCEPT !.raw = Align8(4 + Len(Data(pay))) - 4],
                                id, pay))
  <1> DEFINE a == Attributes("tracepoint", {})
             v == [NoValues EXCEPT !.raw = Align8(4 + Len(Data(pay))) - 4]
             r == Sample("tracepoint", a, v, id, pay)
  <1>1. a \in SampleAttributes
    BY DEF Attributes, SampleAttributes, CommonFormats, RawFormats
  <1>2. v \in ValuesOfSample
    <2>1. PICK m \in Nat : m = Len(Data(pay))
      BY DataIsSized
    <2>2. v = [frames |-> 0, raw |-> Align8(4 + m) - 4, abi |-> 0, stack |-> 0]
      BY <2>1 DEF NoValues
    <2>3. Align8(4 + m) - 4 \in Nat /\ (4 + (Align8(4 + m) - 4)) % 8 = 0
      BY DEF Align8
    <2> HIDE DEF v
    <2> QED BY <2>2, <2>3, SizesAssumption DEF ValuesOfSample
  <1>3. r.entry = "SAMPLE" /\ r.a = a /\ r.l = Layout(SamplePieces(a, v))
    BY DEF Sample
  <1> HIDE DEF a, v, r
  <1>4. WrittenSample(r)
    BY <1>1, <1>2, <1>3 DEF WrittenSample
  <1> QED BY <1>4 DEF a, v, r

-----------------------------------------------------------------------------
(* The theorems.                                                           *)

(* The fields live on from record to record: of what the earlier ones left *)
(* behind, only that the fields are there is needed.                       *)
DecodeInv ==
    /\ fields = [g \in FieldNames |-> fields[g]]
    /\ parsed = 0 \/ (Exact(rec, fields, out) /\ AsMerged(rec, fields))

LEMMA ParseLeaves ==
    ASSUME fields = [g \in FieldNames |-> fields[g]], NEW r, ParsePerfData(r),
           WrittenSample(r) \/ WrittenOther(r)
    PROVE  DecodeInv'
  <1>1. rec' = r /\ out' = Process(r, fields')
    BY DEF ParsePerfData
  <1>2. CASE WrittenSample(r)
    <2>1. fields' = DecodeSample(r.a, r.l, fields)
      BY <1>2 DEF ParsePerfData, WrittenSample
    <2>2. /\ fields' = [g \in FieldNames |-> fields'[g]]
          /\ Exact(r, fields', out') /\ AsMerged(r, fields')
      BY <1>2, <2>1, SampleLeaves
    <2> QED BY <1>1, <2>2 DEF DecodeInv
  <1>3. CASE WrittenOther(r)
    <2>1. fields' = DecodeTrailer(r.a, r.l, fields)
      BY <1>3 DEF ParsePerfData, WrittenOther
    <2>2. out'.data = <<8, r.l.size>>
      BY <1>1, <1>3 DEF Process, EventData, WrittenOther
    <2>3. /\ fields' = [g \in FieldNames |-> fields'[g]]
          /\ Exact(r, fields', out') /\ AsMerged(r, fields')
      BY <1>3, <2>1, <2>2, OtherLeaves
    <2> QED BY <1>1, <2>3 DEF DecodeInv
  <1> QED BY <1>2, <1>3

LEMMA DecodeInit == Init => DecodeInv
  BY DEF Init, DecodeInv

LEMMA DecodeNext == DecodeInv /\ [Next]_vars => DecodeInv'
  <1> SUFFICES ASSUME DecodeInv, [Next]_vars PROVE DecodeInv'
    OBVIOUS
  <1>0. fields = [g \in FieldNames |-> fields[g]]
    BY DEF DecodeInv
  <1>1. ASSUME NEW r \in Records, RecordStep(r) PROVE DecodeInv'
    BY <1>0, <1>1, RecordsWritten, ParseLeaves DEF RecordStep
  <1>2. ASSUME NEW pay, Sized(pay), PayloadStep(pay) PROVE DecodeInv'
    BY <1>0, <1>2, PayloadWritten, ParseLeaves DEF PayloadStep
  <1>3. ASSUME NEW pay \in Payloads(Min(EventIds)), PayloadStep(pay) PROVE DecodeInv'
    BY <1>2, <1>3, PayloadsSized
  <1>4. ASSUME NEW pay \in NumericFilters(Min(EventIds)), PayloadStep(pay) PROVE DecodeInv'
    BY <1>2, <1>4, NumericFiltersSized
  <1>5. ASSUME NEW pay \in TextFilters(Min(EventIds)), PayloadStep(pay) PROVE DecodeInv'
    BY <1>2, <1>5, TextFiltersSized
  <1>6. CASE UNCHANGED vars
    BY <1>6 DEF vars, DecodeInv, Exact, AsMerged, ReadTimeOffset, ReadIdOffset
  <1> QED BY <1>1, <1>3, <1>4, <1>5, <1>6 DEF Next

(* Whatever records came before, what parse_perf_data leaves in the shared *)
(* fields is the last record's.                                            *)
THEOREM DecodeInvariant == Spec => []DecodeInv
  BY DecodeInit, DecodeNext, PTL DEF Spec

(* For any sizes and any run of records of any builders: parse_perf_data   *)
(* finds every field of a sample where the kernel wrote it, a field that   *)
(* the sample does not have is unset, and the fields of another record are *)
(* those of its trailer.                                                   *)
THEOREM FieldsAlwaysExact == Spec => []FieldsExact
  <1>1. DecodeInv => FieldsExact
    BY DEF DecodeInv, Exact, FieldsExact
  <1> QED BY <1>1, DecodeInvariant, PTL

(* The time and the id that RingBufDataSource::read_time looks at to merge *)
(* the rings are those that parse_perf_data gives to the callbacks.        *)
THEOREM MergeAlwaysSeesCallbackTime == Spec => []MergeSeesCallbackTime
  <1>1. DecodeInv => MergeSeesCallbackTime
    BY DEF DecodeInv, AsMerged, MergeSeesCallbackTime
  <1> QED BY <1>1, DecodeInvariant, PTL
=============================================================================

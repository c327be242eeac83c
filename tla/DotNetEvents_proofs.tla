------------------------ MODULE DotNetEvents_proofs ------------------------
(***************************************************************************)
(* Proofs about DotNetEvents: what a subscriber gets and what a record     *)
(* says, for any scripts, processes, event ids and descriptions, and any   *)
(* number of events.                                                       *)
(***************************************************************************)
EXTENDS DotNetEvents, FiniteSetTheorems, SequenceTheorems, TLAPS

-----------------------------------------------------------------------------
(* The labels of an extension.                                             *)

(* An extension of at most three known labels is read whole.               *)
LEMMA ParsedAll ==
    ASSUME NEW S, NEW ext \in Seq(S), Len(ext) <= 3,
           \A i \in 1 .. Len(ext) : ext[i].kind \in LabelKinds
    PROVE  ParsedLabels(ext) = ext
<1> DEFINE bad == SelectInSeq(ext, LAMBDA l : l.kind \notin LabelKinds)
<1>1. {i \in 1 .. Len(ext) : ext[i].kind \notin LabelKinds} = {}
  OBVIOUS
<1>2. bad = 0
  BY <1>1 DEF SelectInSeq
<1> HIDE DEF bad
<1>3. ParsedLabels(ext) = SubSeq(ext, 1, Len(ext))
  <2>1. Len(ext) \in Nat
    OBVIOUS
  <2>2. ParsedLabels(ext) = SubSeq(ext, 1, IF Len(ext) < 3 THEN Len(ext) ELSE 3)
    BY <1>2 DEF ParsedLabels, bad
  <2>3. (IF Len(ext) < 3 THEN Len(ext) ELSE 3) = Len(ext)
    <3>1. \A n \in Nat : n <= 3 => (IF n < 3 THEN n ELSE 3) = n
      OBVIOUS
    <3> QED
      BY <2>1, <3>1
  <2> QED
    BY <2>2, <2>3
<1> QED
  BY <1>3

(* The data of the only label of its kind.                                 *)
LEMMA LabelAt ==
    ASSUME NEW ext, NEW kind, NEW none, NEW k \in 1 .. Len(ext), Len(ext) \in Nat,
           ParsedLabels(ext) = ext,
           \A i \in 1 .. Len(ext) : ext[i].kind = kind <=> i = k
    PROVE  LabelData(ext, kind, none) = ext[k].data
<1>1. {i \in 1 .. Len(ext) : ext[i].kind = kind} = {k}
  OBVIOUS
<1>2. Max({k}) = k
  BY DEF Max
<1>3. SelectLastInSeq(ext, LAMBDA l : l.kind = kind) = k
  BY <1>1, <1>2 DEF SelectLastInSeq
<1> QED
  BY <1>3 DEF LabelData

LEMMA LabelMissing ==
    ASSUME NEW ext, NEW kind, NEW none, ParsedLabels(ext) = ext,
           \A i \in 1 .. Len(ext) : ext[i].kind # kind
    PROVE  LabelData(ext, kind, none) = none
<1>1. {i \in 1 .. Len(ext) : ext[i].kind = kind} = {}
  OBVIOUS
<1>2. SelectLastInSeq(ext, LAMBDA l : l.kind = kind) = 0
  BY <1>1 DEF SelectLastInSeq
<1> QED
  BY <1>2 DEF LabelData

(* The extension of an event, whatever the metadata's data is.             *)
Labels(meta, data, activity) ==
    (IF meta THEN <<Label("meta", data)>> ELSE <<>>)
        \o (IF activity = NoValue THEN <<>> ELSE <<Label("activity", activity)>>)

LEMMA TwoLabels ==
    ASSUME NEW a, NEW b
    PROVE  <<a>> \o <<b>> = <<a, b>>
<1> DEFINE S == {a, b}
           l == <<a>>
           r == <<b>>
           u == l \o r
           v == <<a, b>>
<1>1. l \in Seq(S) /\ r \in Seq(S) /\ v \in Seq(S)
  OBVIOUS
<1>2. Len(l) = 1 /\ Len(r) = 1 /\ Len(v) = 2 /\ l[1] = a /\ r[1] = b /\ v[1] = a /\ v[2] = b
  OBVIOUS
<1> HIDE DEF l, r, v, S
<1>3. u \in Seq(S) /\ Len(u) = 2 /\ u[1] = a /\ u[2] = b
  <2>1. u \in Seq(S) /\ Len(u) = Len(l) + Len(r)
    BY <1>1
  <2>2. u[1] = l[1]
    BY <1>1, <1>2, SMTT(40)
  <2>3. u[2] = r[2 - Len(l)]
    <3>1. \A i \in 1 .. Len(l) + Len(r) :
              u[i] = IF i <= Len(l) THEN l[i] ELSE r[i - Len(l)]
      BY <1>1, ConcatProperties
    <3>2. 2 \in 1 .. Len(l) + Len(r) /\ ~ (2 <= Len(l))
      BY <1>2
    <3> QED
      BY <3>1, <3>2
  <2> QED
    BY <1>2, <2>1, <2>2, <2>3
<1> HIDE DEF u
<1>4. \A i \in 1 .. 2 : u[i] = v[i]
  BY <1>2, <1>3
<1>5. u = v
  BY <1>1, <1>2, <1>3, <1>4
<1> QED
  BY <1>5 DEF u, v, l, r

LEMMA LabelsRead ==
    ASSUME NEW meta \in BOOLEAN, NEW data, NEW activity
    PROVE  LET ext == Labels(meta, data, activity)
           IN /\ (\E i \in DOMAIN ext : ext[i].kind = "meta") <=> meta
              /\ LabelData(ext, "meta", <<>>) = IF meta THEN data ELSE <<>>
              /\ LabelData(ext, "activity", NoValue) = activity
<1> DEFINE ml == Label("meta", data)
           al == Label("activity", activity)
           L == {ml, al}
           ext == Labels(meta, data, activity)
<1>k. /\ ml.kind = "meta" /\ ml.data = data
      /\ al.kind = "activity" /\ al.data = activity
      /\ ml.kind \in LabelKinds /\ al.kind \in LabelKinds
  BY DEF Label, LabelKinds
<1>m. ml \in L /\ al \in L
  OBVIOUS
<1>1. CASE meta /\ activity # NoValue
  <2> HIDE DEF ml, al, L
  <2>1. ext = <<ml, al>>
    <3>1. ext = <<ml>> \o <<al>>
      BY <1>1 DEF Labels, ml, al
    <3> QED
      BY <3>1, TwoLabels
  <2>2. /\ ext \in Seq(L) /\ Len(ext) = 2 /\ DOMAIN ext = 1 .. 2
        /\ ext[1] = ml /\ ext[2] = al
    BY <2>1, <1>m
  <2> HIDE DEF ext
  <2>3. ParsedLabels(ext) = ext
    <3>1. \A i \in 1 .. Len(ext) : ext[i].kind \in LabelKinds
      BY <2>2, <1>k
    <3>2. Len(ext) <= 3
      BY <2>2
    <3> QED
      BY <2>2, <3>1, <3>2, ParsedAll
  <2>4. LabelData(ext, "meta", <<>>) = data
    <3>1. \A i \in 1 .. Len(ext) : ext[i].kind = "meta" <=> i = 1
      BY <2>2, <1>k
    <3> QED
      BY <2>2, <2>3, <3>1, <1>k, LabelAt
  <2>5. LabelData(ext, "activity", NoValue) = activity
    <3>1. \A i \in 1 .. Len(ext) : ext[i].kind = "activity" <=> i = 2
      BY <2>2, <1>k
    <3> QED
      BY <2>2, <2>3, <3>1, <1>k, LabelAt
  <2>6. \E i \in DOMAIN ext : ext[i].kind = "meta"
    BY <2>2, <1>k
  <2> QED
    BY <1>1, <2>4, <2>5, <2>6 DEF ext
<1>2. CASE meta /\ activity = NoValue
  <2> HIDE DEF ml, al, L
  <2>1. ext = <<ml>>
    BY <1>2 DEF Labels, ml
  <2>2. ext \in Seq(L) /\ Len(ext) = 1 /\ DOMAIN ext = 1 .. 1 /\ ext[1] = ml
    BY <2>1, <1>m
  <2> HIDE DEF ext
  <2>3. ParsedLabels(ext) = ext
    <3>1. \A i \in 1 .. Len(ext) : ext[i].kind \in LabelKinds
      BY <2>2, <1>k
    <3>2. Len(ext) <= 3
      BY <2>2
    <3> QED
      BY <2>2, <3>1, <3>2, ParsedAll
  <2>4. LabelData(ext, "meta", <<>>) = data
    <3>1. \A i \in 1 .. Len(ext) : ext[i].kind = "meta" <=> i = 1
      BY <2>2, <1>k
    <3> QED
      BY <2>2, <2>3, <3>1, <1>k, LabelAt, SMTT(40)
  <2>5. LabelData(ext, "activity", NoValue) = NoValue
    <3>1. \A i \in 1 .. Len(ext) : ext[i].kind # "activity"
      BY <2>2, <1>k
    <3> QED
      BY <2>3, <3>1, LabelMissing
  <2>6. \E i \in DOMAIN ext : ext[i].kind = "meta"
    BY <2>2, <1>k
  <2> QED
    BY <1>2, <2>4, <2>5, <2>6 DEF ext
<1>3. CASE ~ meta /\ activity # NoValue
  <2> HIDE DEF ml, al, L
  <2>1. ext = <<al>>
    BY <1>3 DEF Labels, al
  <2>2. ext \in Seq(L) /\ Len(ext) = 1 /\ DOMAIN ext = 1 .. 1 /\ ext[1] = al
    BY <2>1, <1>m
  <2> HIDE DEF ext
  <2>3. ParsedLabels(ext) = ext
    <3>1. \A i \in 1 .. Len(ext) : ext[i].kind \in LabelKinds
      BY <2>2, <1>k
    <3>2. Len(ext) <= 3
      BY <2>2
    <3> QED
      BY <2>2, <3>1, <3>2, ParsedAll
  <2>4. LabelData(ext, "meta", <<>>) = <<>>
    <3>1. \A i \in 1 .. Len(ext) : ext[i].kind # "meta"
      BY <2>2, <1>k
    <3> QED
      BY <2>3, <3>1, LabelMissing
  <2>5. LabelData(ext, "activity", NoValue) = activity
    <3>1. \A i \in 1 .. Len(ext) : ext[i].kind = "activity" <=> i = 1
      BY <2>2, <1>k
    <3> QED
      BY <2>2, <2>3, <3>1, <1>k, LabelAt
  <2>6. ~ \E i \in DOMAIN ext : ext[i].kind = "meta"
    BY <2>2, <1>k
  <2> QED
    BY <1>3, <2>4, <2>5, <2>6 DEF ext
<1>4. CASE ~ meta /\ activity = NoValue
  <2>1. ext = <<>>
    BY <1>4 DEF Labels
  <2>2. ext \in Seq(L) /\ Len(ext) = 0 /\ DOMAIN ext = {}
    BY <2>1
  <2> HIDE DEF ext
  <2>3. ParsedLabels(ext) = ext
    <3>1. \A i \in 1 .. Len(ext) : ext[i].kind \in LabelKinds
      BY <2>2
    <3>2. Len(ext) <= 3
      BY <2>2
    <3> QED
      BY <2>2, <3>1, <3>2, ParsedAll
  <2>4. LabelData(ext, "meta", <<>>) = <<>>
    BY <2>2, <2>3, LabelMissing
  <2>5. LabelData(ext, "activity", NoValue) = NoValue
    BY <2>2, <2>3, LabelMissing
  <2> QED
    BY <1>4, <2>2, <2>4, <2>5 DEF ext
<1> QED
  BY <1>1, <1>2, <1>3, <1>4

-----------------------------------------------------------------------------
(* A set that is handed over one by one.                                   *)

LEMMA SetInTurn ==
    ASSUME NEW S, IsFiniteSet(S)
    PROVE  /\ SetToSeq(S) \in Seq(S)
           /\ \A x \in S : \E k \in 1 .. Len(SetToSeq(S)) : SetToSeq(S)[k] = x
           /\ \A i, j \in 1 .. Len(SetToSeq(S)) :
                SetToSeq(S)[i] = SetToSeq(S)[j] => i = j
<1> DEFINE n == Cardinality(S)
<1>1. n \in Nat /\ ExistsBijection(1 .. n, S)
  BY FS_CardinalityType
<1> HIDE DEF n
<1>2. PICK f \in [1 .. n -> S] :
        IsInjective(f) /\ \A x \in S : \E k \in 1 .. n : f[k] = x
  BY <1>1 DEF ExistsBijection, Bijection, Injection, Surjection
<1> DEFINE q == SetToSeq(S)
<1>3. q \in [1 .. n -> S] /\ IsInjective(q)
  BY <1>2 DEF SetToSeq, n
<1> HIDE DEF q
<1>4. q \in Seq(S) /\ Len(q) = n /\ DOMAIN q = 1 .. n
  BY <1>1, <1>3, SeqDef
<1>5. q \in Injection(1 .. n, S) /\ IsFiniteSet(1 .. n)
  BY <1>1, <1>3, FS_Interval DEF Injection
<1>6. Cardinality(1 .. n) = Cardinality(S)
  BY <1>1, FS_Interval DEF n
<1>7. \A x \in S : \E k \in 1 .. n : q[k] = x
  <2>1. q \in Surjection(1 .. n, S)
    BY <1>5, <1>6, FS_Injection
  <2> QED
    BY <2>1 DEF Surjection
<1> QED
  BY <1>3, <1>4, <1>7 DEF q, IsInjective

EachOnce(q, U) ==
    /\ \A i \in DOMAIN q : q[i] \in U
    /\ \A x \in U : \E k \in DOMAIN q : \A i \in DOMAIN q : q[i] = x <=> i = k

(* Two disjoint sets, one after the other: each member has one place.      *)
LEMMA TwoInTurn ==
    ASSUME NEW S, IsFiniteSet(S), NEW T, IsFiniteSet(T), S \cap T = {},
           NEW q, q = SetToSeq(S) \o SetToSeq(T)
    PROVE  EachOnce(q, S \cup T)
<1> DEFINE U == S \cup T
           l == SetToSeq(S)
           r == SetToSeq(T)
           m == Len(l)
           n == Len(r)
<1>1. /\ l \in Seq(S) /\ \A x \in S : \E k \in 1 .. m : l[k] = x
      /\ \A i, j \in 1 .. m : l[i] = l[j] => i = j
  BY SetInTurn
<1>2. /\ r \in Seq(T) /\ \A x \in T : \E k \in 1 .. n : r[k] = x
      /\ \A i, j \in 1 .. n : r[i] = r[j] => i = j
  BY SetInTurn
<1>3. l \in Seq(U) /\ r \in Seq(U) /\ m \in Nat /\ n \in Nat
  BY <1>1, <1>2
<1>4. q = l \o r
  OBVIOUS
<1> HIDE DEF l, r
<1>5. /\ DOMAIN q = 1 .. m + n
      /\ \A i \in 1 .. m + n : q[i] = IF i <= m THEN l[i] ELSE r[i - m]
  BY <1>3, <1>4, ConcatProperties
<1>6. (\A i \in 1 .. m : l[i] \in S) /\ (\A i \in 1 .. n : r[i] \in T)
  BY <1>1, <1>2, SMTT(40)
<1> HIDE DEF m, n, U
<1>7. \A i \in 1 .. m + n : /\ i <= m => i \in 1 .. m /\ q[i] = l[i]
                            /\ ~ i <= m => i - m \in 1 .. n /\ q[i] = r[i - m]
  BY <1>3, <1>5
<1>8. ASSUME NEW x \in S
      PROVE  \E k \in DOMAIN q : \A i \in DOMAIN q : q[i] = x <=> i = k
  <2>1. PICK k \in 1 .. m : l[k] = x
    BY <1>1 DEF m
  <2>2. k \in 1 .. m + n /\ k <= m
    BY <1>3, <2>1
  <2>3. q[k] = x
    BY <1>7, <2>1, <2>2
  <2>4. \A i \in 1 .. m + n : q[i] = x => i = k
    BY <1>1, <1>6, <1>7, <2>1 DEF m
  <2> QED
    BY <1>5, <2>2, <2>3, <2>4
<1>9. ASSUME NEW x \in T
      PROVE  \E k \in DOMAIN q : \A i \in DOMAIN q : q[i] = x <=> i = k
  <2>1. PICK j \in 1 .. n : r[j] = x
    BY <1>2 DEF n
  <2> DEFINE k == m + j
  <2>2. k \in 1 .. m + n /\ ~ k <= m /\ k - m = j
    BY <1>3, <2>1
  <2>3. q[k] = x
    BY <1>7, <2>1, <2>2
  <2>4. \A i \in 1 .. m + n : q[i] = x => i = k
    <3> TAKE i \in 1 .. m + n
    <3> HAVE q[i] = x
    <3>1. ~ i <= m
      BY <1>6, <1>7
    <3>2. r[i - m] = r[j] /\ i - m \in 1 .. n
      BY <1>7, <2>1, <3>1
    <3>3. i - m = j
      BY <1>2, <2>1, <3>2 DEF n
    <3> QED
      BY <1>3, <3>3
  <2> QED
    BY <1>5, <2>2, <2>3, <2>4
<1>10. \A i \in DOMAIN q : q[i] \in S \cup T
  BY <1>5, <1>6, <1>7
<1>11. \A x \in S \cup T : \E k \in DOMAIN q :
          \A i \in DOMAIN q : q[i] = x <=> i = k
  BY <1>8, <1>9
<1> QED
  BY <1>10, <1>11, Zenon DEF EachOnce

(* The positions of one sample.                                            *)
LEMMA OnePlace ==
    ASSUME NEW I, NEW k \in I, NEW P, P = {i \in I : i = k}
    PROVE  Cardinality(P) = 1
<1>1. P = {k}
  OBVIOUS
<1> QED
  BY <1>1, FS_Singleton

-----------------------------------------------------------------------------
(* The metadata, whole or cut.                                             *)

Blob(id, e) == MetaTokens(id, e, WriteFields(e.fields, e.v2))
CutBlob(id, e, cut) == SubSeq(Blob(id, e), 1, Len(Blob(id, e)) - cut)

(* An event as the table describes it.                                     *)
Descriptions == {Table[<<p, gen>>][id] : p \in Pids, gen \in 1 .. MaxGen, id \in Ids}

LEMMA DescriptionType ==
    ASSUME NEW e \in Descriptions
    PROVE  /\ e.name \in STRING /\ e.version \in Nat /\ e.keywords \in Nat
           /\ WriteFields(e.fields, e.v2) \in Seq(Tokens)
           /\ ReadFields(WriteFields(e.fields, e.v2)) = Layout(e.fields)
<1>1. PICK p \in Pids, gen \in 1 .. MaxGen, id \in Ids : e = Table[<<p, gen>>][id]
  BY DEF Descriptions
<1> QED
  BY <1>1, TableAssumption

LEMMA BlobTokens ==
    ASSUME NEW id \in Int, NEW e \in Descriptions
    PROVE  LET w == WriteFields(e.fields, e.v2)
           IN /\ Blob(id, e) \in Seq(Tokens) /\ Len(Blob(id, e)) = Len(w) + 5
              /\ Blob(id, e)[2].str = e.name /\ Blob(id, e)[3].int = e.keywords
              /\ Blob(id, e)[4].int = e.version
              /\ \A i \in 1 .. Len(w) : Blob(id, e)[i + 5] = w[i]
<1> DEFINE w == WriteFields(e.fields, e.v2)
           h == <<Num(id), Txt(e.name), Num(e.keywords), Num(e.version), Num(4)>>
           b == h \o w
<1>1. w \in Seq(Tokens) /\ e.name \in STRING /\ e.version \in Nat /\ e.keywords \in Nat
  BY DescriptionType
<1>2. /\ \A n \in Int : Num(n) \in Tokens /\ Num(n).int = n
      /\ \A s \in STRING : Txt(s) \in Tokens /\ Txt(s).str = s
  BY DEF Num, Txt, Tokens
<1>3. /\ Num(id) \in Tokens /\ Txt(e.name) \in Tokens /\ Num(e.keywords) \in Tokens
      /\ Num(e.version) \in Tokens /\ Num(4) \in Tokens
  <2>1. id \in Int /\ e.keywords \in Int /\ e.version \in Int /\ 4 \in Int
    BY <1>1
  <2> QED
    BY <1>1, <1>2, <2>1, Zenon
<1>4. /\ h \in Seq(Tokens) /\ Len(h) = 5 /\ h[2] = Txt(e.name)
      /\ h[3] = Num(e.keywords) /\ h[4] = Num(e.version)
  BY <1>3
<1> HIDE DEF w, h
<1>5. /\ b \in Seq(Tokens) /\ Len(b) = 5 + Len(w) /\ Len(w) \in Nat
      /\ \A i \in 1 .. 5 + Len(w) : b[i] = IF i <= 5 THEN h[i] ELSE w[i - 5]
  <2>1. b \in Seq(Tokens) /\ Len(b) = Len(h) + Len(w)
        /\ \A i \in 1 .. Len(h) + Len(w) : b[i] = IF i <= Len(h) THEN h[i] ELSE w[i - Len(h)]
    BY <1>1, <1>4, ConcatProperties
  <2>2. Len(w) \in Nat
    BY <1>1, LenProperties
  <2> QED
    BY <1>4, <2>1, <2>2
<1> HIDE DEF b
<1>6. \A i \in 1 .. Len(w) : b[i + 5] = w[i]
  <2> TAKE i \in 1 .. Len(w)
  <2>1. i + 5 \in 1 .. 5 + Len(w) /\ ~ (i + 5 <= 5) /\ (i + 5) - 5 = i
    BY <1>5
  <2> QED
    BY <1>5, <2>1
<1>7. b[2] = h[2] /\ b[3] = h[3] /\ b[4] = h[4]
  BY <1>5
<1>8. b = Blob(id, e)
  BY DEF b, h, w, Blob, MetaTokens
<1>9. b[2].str = e.name /\ b[3].int = e.keywords /\ b[4].int = e.version
  <2>1. e.keywords \in Int /\ e.version \in Int
    BY <1>1
  <2> QED
    BY <1>1, <1>2, <1>4, <1>7, <2>1, ZenonT(40)
<1>10. Len(b) = Len(w) + 5
  BY <1>5
<1> QED
  BY <1>5, <1>6, <1>8, <1>9, <1>10 DEF w

(* What is read of a blob that was cut is the event's own, or nothing.     *)
LEMMA CutRead ==
    ASSUME NEW id \in Int, NEW e \in Descriptions, NEW cut \in Cuts,
           NEW m, m = MetaParser(CutBlob(id, e, cut))
    PROVE  /\ m.version \in {NoValue, e.version} /\ m.name \in {"", e.name}
           /\ m.fields \in Seq(Tokens)
<1> DEFINE b == Blob(id, e)
           n == Len(b)
           c == CutBlob(id, e, cut)
<1>1. /\ b \in Seq(Tokens) /\ n \in Nat /\ b[2].str = e.name /\ b[4].int = e.version
      /\ e.name \in STRING
  BY BlobTokens, DescriptionType
<1> HIDE DEF b
<1>2. c = SubSeq(b, 1, n - cut) /\ n - cut \in Int /\ n - cut <= n
  BY <1>1, NumbersAssumption DEF b, CutBlob
<1> HIDE DEF c
<1>3. \A i \in 1 .. n - cut : b[i] \in Tokens
  BY <1>1, <1>2
<1>4. /\ Len(c) = IF 1 <= n - cut THEN n - cut - 1 + 1 ELSE 0
      /\ \A i \in 1 .. n - cut - 1 + 1 : c[i] = b[1 + i - 1]
      /\ c \in Seq(Tokens)
  BY <1>2, <1>3, SubSeqProperties
<1>5. Len(c) > 1 => c[2] = b[2]
  BY <1>2, <1>4
<1>6. Len(c) > 3 => c[4] = b[4]
  BY <1>2, <1>4
<1>7. MetaParser(c).version \in {NoValue, e.version}
  BY <1>1, <1>6 DEF MetaParser
<1>8. MetaParser(c).name \in {"", e.name}
  BY <1>1, <1>5 DEF MetaParser
<1>9. MetaParser(c).fields \in Seq(Tokens)
  <2>1. Len(c) \in Nat
    BY <1>4
  <2>4. MetaParser(c).fields = SubSeq(c, 6, Len(c))
    BY DEF MetaParser
  <2>2. \A i \in 6 .. Len(c) : c[i] \in Tokens
    BY <1>4, <2>1
  <2>3. SubSeq(c, 6, Len(c)) \in Seq(Tokens)
    BY <2>1, <2>2, SubSeqProperties
  <2> QED
    BY <2>3, <2>4
<1>10. m = MetaParser(c)
  BY DEF c
<1> QED
  BY <1>7, <1>8, <1>9, <1>10, Zenon

(* A blob that is whole says all that the event is.                        *)
LEMMA WholeRead ==
    ASSUME NEW id \in Int, NEW e \in Descriptions
    PROVE  MetaParser(CutBlob(id, e, 0)) =
                [name |-> e.name, keywords |-> e.keywords, version |-> e.version,
                 fields |-> WriteFields(e.fields, e.v2)]
<1> DEFINE b == Blob(id, e)
           w == WriteFields(e.fields, e.v2)
           f == SubSeq(b, 6, Len(b))
<1>1. /\ b \in Seq(Tokens) /\ Len(b) = Len(w) + 5
      /\ b[2].str = e.name /\ b[3].int = e.keywords /\ b[4].int = e.version
      /\ \A i \in 1 .. Len(w) : b[i + 5] = w[i]
  BY BlobTokens
<1>2. w \in Seq(Tokens) /\ ReadFields(w) = Layout(e.fields)
  BY DescriptionType
<1>3. CutBlob(id, e, 0) = b
  <2>1. Len(b) - 0 = Len(b)
    BY <1>1
  <2>2. SubSeq(b, 1, Len(b)) = b
    BY <1>1
  <2> QED
    BY <2>1, <2>2 DEF CutBlob
<1> HIDE DEF b, w
<1>4. f = w
  <2>1. Len(b) \in Nat /\ Len(w) \in Nat
    BY <1>1, <1>2
  <2>2. \A i \in 6 .. Len(b) : b[i] \in Tokens
    BY <1>1, <2>1
  <2>3. /\ f \in Seq(Tokens)
        /\ Len(f) = IF 6 <= Len(b) THEN Len(b) - 6 + 1 ELSE 0
        /\ \A i \in 1 .. Len(b) - 6 + 1 : f[i] = b[6 + i - 1]
    BY <2>1, <2>2, SubSeqProperties
  <2> HIDE DEF f
  <2>4. Len(f) = Len(w)
    BY <1>1, <2>1, <2>3
  <2>5. \A i \in 1 .. Len(f) : f[i] = w[i]
    <3> TAKE i \in 1 .. Len(f)
    <3>1. i \in 1 .. Len(w) /\ i \in 1 .. Len(b) - 6 + 1 /\ 6 + i - 1 = i + 5
      BY <1>1, <2>1, <2>4
    <3> QED
      BY <1>1, <2>3, <3>1
  <2> QED
    BY <1>2, <2>3, <2>4, <2>5, SeqEqual
<1>5. Len(b) > 1 /\ Len(b) > 2 /\ Len(b) > 3
  BY <1>1, <1>2
<1> HIDE DEF f
<1>6. MetaParser(b) = [name |-> e.name, keywords |-> e.keywords,
                       version |-> e.version, fields |-> w]
  BY <1>1, <1>4, <1>5 DEF MetaParser, f
<1> QED
  BY <1>3, <1>6 DEF w

-----------------------------------------------------------------------------
(* The tables of names and of fields' blobs.                               *)

(* A value that is entered is found at its position, and none is moved.    *)
LEMMA InternedHas ==
    ASSUME NEW S, NEW list, NEW x, NEW new,
           list \in Seq(S), x \in S, new = Interned(list, x)
    PROVE  /\ new \in Seq(S) /\ Len(new) <= Len(list) + 1
           /\ DOMAIN list \subseteq DOMAIN new
           /\ \A i \in DOMAIN list : new[i] = list[i]
           /\ Position(new, x) \in DOMAIN new /\ new[Position(new, x)] = x
<1>1. Len(list) \in Nat /\ DOMAIN list = 1 .. Len(list)
  OBVIOUS
<1>2. CASE x \in ToSet(list)
  <2>1. new = list
    BY <1>2 DEF Interned
  <2>2. \E i \in DOMAIN new : new[i] = x
    BY <1>2, <2>1 DEF ToSet
  <2>3. Position(new, x) \in DOMAIN new /\ new[Position(new, x)] = x
    BY <2>2 DEF Position
  <2> QED
    BY <1>1, <2>1, <2>3
<1>3. CASE x \notin ToSet(list)
  <2>1. new = Append(list, x)
    BY <1>3 DEF Interned
  <2>2. /\ new \in Seq(S) /\ Len(new) = Len(list) + 1
        /\ \A i \in 1 .. Len(list) : new[i] = list[i]
        /\ new[Len(list) + 1] = x
    BY <2>1, AppendProperties
  <2>3. DOMAIN new = 1 .. Len(list) + 1
    BY <2>2
  <2>4. \E i \in DOMAIN new : new[i] = x
    BY <1>1, <2>2, <2>3
  <2>5. Position(new, x) \in DOMAIN new /\ new[Position(new, x)] = x
    BY <2>4 DEF Position
  <2> QED
    BY <1>1, <2>2, <2>3, <2>5
<1> QED
  BY <1>2, <1>3

Names == {e.name : e \in Descriptions} \ {""}
Blobs == Seq(Tokens)
OfTable(m) == m.name # "" => m.name \in Names

(* No position is 0.                                                       *)
LEMMA Unknown ==
    ASSUME NEW S, NEW list \in Seq(S)
    PROVE  0 \notin DOMAIN list
OBVIOUS

(* What is entered for a blob reads back as the blob.                      *)
ReadsBack(t, m, names, blobs, info) ==
    /\ names \in Seq(Names) /\ Len(names) <= Len(eventNames) + 1
    /\ DOMAIN eventNames \subseteq DOMAIN names
    /\ \A n \in DOMAIN eventNames : names[n] = eventNames[n]
    /\ blobs \in Seq(Blobs) /\ DOMAIN layouts \subseteq DOMAIN blobs
    /\ \A n \in DOMAIN layouts : blobs[n] = layouts[n]
    /\ info.nameId \in {0} \cup DOMAIN names
    /\ info.formatIndex \in {0} \cup DOMAIN blobs
    /\ info.version = m.version /\ info.keywords = m.keywords
    /\ NameOf(names, info.nameId) = IF t = "all" THEN m.name ELSE ""
    /\ t = "all" =>
        /\ FormatOf(blobs, info.formatIndex) = ReadFields(m.fields)
        /\ info.logical = IF ByName(m.name) # {} THEN m.name ELSE ""

LEMMA Entered ==
    ASSUME eventNames \in Seq(Names), layouts \in Seq(Blobs),
           NEW t, NEW m, OfTable(m), m.fields \in Blobs,
           NEW names, names = NewNames(t, m), NEW blobs, blobs = NewLayouts(t, m),
           NEW info, info = InfoOf(t, m, names, blobs)
    PROVE  ReadsBack(t, m, names, blobs, info)
<1>1. /\ info.version = m.version /\ info.keywords = m.keywords
      /\ info.nameId = IF t = "all" /\ m.name # "" THEN Position(names, m.name) ELSE 0
      /\ info.logical = IF t = "all" /\ ByName(m.name) # {} THEN m.name ELSE ""
      /\ info.formatIndex = IF t = "all" THEN Position(blobs, m.fields) ELSE 0
  BY DEF InfoOf
<1>2. /\ names \in Seq(Names) /\ Len(names) <= Len(eventNames) + 1
      /\ DOMAIN eventNames \subseteq DOMAIN names
      /\ \A n \in DOMAIN eventNames : names[n] = eventNames[n]
      /\ t = "all" /\ m.name # "" =>
            Position(names, m.name) \in DOMAIN names /\ names[Position(names, m.name)] = m.name
  <2>1. CASE t = "all" /\ m.name # ""
    <3>1. PICK x : x = m.name
      OBVIOUS
    <3>2. x \in Names /\ names = Interned(eventNames, x)
      BY <2>1, <3>1, Zenon DEF NewNames, OfTable
    <3>3. /\ names \in Seq(Names) /\ Len(names) <= Len(eventNames) + 1
          /\ DOMAIN eventNames \subseteq DOMAIN names
          /\ \A n \in DOMAIN eventNames : names[n] = eventNames[n]
          /\ Position(names, x) \in DOMAIN names /\ names[Position(names, x)] = x
      <4>1. PICK list, new : list = eventNames /\ new = names
        OBVIOUS
      <4>2. list \in Seq(Names) /\ x \in Names /\ new = Interned(list, x)
        BY <3>2, <4>1
      <4>3. /\ new \in Seq(Names) /\ Len(new) <= Len(list) + 1
            /\ DOMAIN list \subseteq DOMAIN new
            /\ \A i \in DOMAIN list : new[i] = list[i]
            /\ Position(new, x) \in DOMAIN new /\ new[Position(new, x)] = x
        BY <4>2, InternedHas, SMTT(30)
      <4> QED
        BY <4>1, <4>3, Zenon
    <3> QED
      BY <3>1, <3>3, Zenon
  <2>2. CASE ~ (t = "all" /\ m.name # "")
    <3>1. names = eventNames
      BY <2>2, Zenon DEF NewNames
    <3>2. Len(eventNames) <= Len(eventNames) + 1
      BY LenProperties
    <3> QED
      BY <2>2, <3>1, <3>2, Zenon
  <2> QED
    BY <2>1, <2>2
<1>3. /\ blobs \in Seq(Blobs) /\ DOMAIN layouts \subseteq DOMAIN blobs
      /\ \A n \in DOMAIN layouts : blobs[n] = layouts[n]
      /\ t = "all" => /\ Position(blobs, m.fields) \in DOMAIN blobs
                      /\ blobs[Position(blobs, m.fields)] = m.fields
  <2>1. CASE t = "all"
    <3>1. PICK x : x = m.fields
      OBVIOUS
    <3>2. x \in Blobs /\ blobs = Interned(layouts, x)
      BY <2>1, <3>1, Zenon DEF NewLayouts
    <3>3. /\ blobs \in Seq(Blobs) /\ DOMAIN layouts \subseteq DOMAIN blobs
          /\ \A n \in DOMAIN layouts : blobs[n] = layouts[n]
          /\ Position(blobs, x) \in DOMAIN blobs /\ blobs[Position(blobs, x)] = x
      <4>1. PICK list, new : list = layouts /\ new = blobs
        OBVIOUS
      <4>2. list \in Seq(Blobs) /\ x \in Blobs /\ new = Interned(list, x)
        BY <3>2, <4>1
      <4>3. /\ new \in Seq(Blobs) /\ Len(new) <= Len(list) + 1
            /\ DOMAIN list \subseteq DOMAIN new
            /\ \A i \in DOMAIN list : new[i] = list[i]
            /\ Position(new, x) \in DOMAIN new /\ new[Position(new, x)] = x
        BY <4>2, InternedHas, SMTT(30)
      <4> QED
        BY <4>1, <4>3, Zenon
    <3> QED
      BY <3>1, <3>3, Zenon
  <2>2. CASE t # "all"
    <3>1. blobs = layouts
      BY <2>2, Zenon DEF NewLayouts
    <3> QED
      BY <2>2, <3>1, Zenon
  <2> QED
    BY <2>1, <2>2
<1>4. info.nameId \in {0} \cup DOMAIN names /\ info.formatIndex \in {0} \cup DOMAIN blobs
  BY <1>1, <1>2, <1>3
<1>5. NameOf(names, info.nameId) = IF t = "all" THEN m.name ELSE ""
  <2>1. CASE t = "all" /\ m.name # ""
    BY <1>1, <1>2, <2>1 DEF NameOf
  <2>2. CASE ~ (t = "all" /\ m.name # "")
    <3>1. info.nameId = 0 /\ 0 \notin DOMAIN names
      BY <1>1, <1>2, <2>2, Unknown
    <3> QED
      BY <2>2, <3>1 DEF NameOf
  <2> QED
    BY <2>1, <2>2
<1>6. t = "all" => FormatOf(blobs, info.formatIndex) = ReadFields(m.fields)
  BY <1>1, <1>3 DEF FormatOf
<1>7. t = "all" => info.logical = IF ByName(m.name) # {} THEN m.name ELSE ""
  BY <1>1
<1> QED
  BY <1>1, <1>2, <1>3, <1>4, <1>5, <1>6, <1>7, Zenon DEF ReadsBack

-----------------------------------------------------------------------------
(* The inductive invariant.                                                *)

Subscription == [by : {"id", "name"}, id : SubIds \cup {0},
                 name : SubNames \cup {""}, stacks : BOOLEAN]
Process == [gen : 1 .. MaxGen, sent : SUBSET Ids, missed : SUBSET Ids]
FirstProcess == [gen |-> 1, sent |-> {}, missed |-> {}]

DotNetType ==
    /\ phase \in {"script", "run"}
    /\ subs \in Seq(Subscription) /\ callbacks \in Seq(Keywords)
    /\ cbStacks \in BOOLEAN
    /\ procs \in [Pids -> Process]
    /\ DOMAIN infos = Points

(* Nothing is written before the settings hook.                            *)
ScriptInv ==
    phase = "script" =>
        /\ last = NoEvent /\ out = <<>> /\ types = <<>>
        /\ infos = [t \in Points |-> <<>>]
        /\ procs = [p \in Pids |-> FirstProcess]

(* The tracepoints are those of the script, and the flag for the stacks of *)
(* callbacks is on when the last of them asks for some.                    *)
PointsInv ==
    /\ phase = "run" => points = TracepointsOf
    /\ callbacks # <<>> /\ callbacks[Len(callbacks)] # {} => cbStacks

(* The tables of names and formats, and the ids that refer to them.        *)
TablesInv ==
    /\ eventNames \in Seq(Names) /\ layouts \in Seq(Blobs)
    /\ count \in 0 .. MaxEvents /\ Len(eventNames) <= count
    /\ \A t \in Points : \A k \in DOMAIN infos[t] :
        /\ infos[t][k].nameId \in {0} \cup DOMAIN eventNames
        /\ infos[t][k].formatIndex \in {0} \cup DOMAIN layouts

(* An info says of an event all that the handler needs.                    *)
Says(info, e, names, blobs) ==
    /\ info.version = e.version /\ info.keywords = e.keywords
    /\ info.logical = IF ByName(e.name) # {} THEN e.name ELSE ""
    /\ NameOf(names, info.nameId) = e.name
    /\ FormatOf(blobs, info.formatIndex) = Layout(e.fields)

(* What the default tracepoint knows of an event whose metadata came, and  *)
(* what any of them has of the first process with an id.                   *)
InfosInv ==
    \A p \in Pids, id \in Ids, e \in Descriptions :
        e = Described(p, id) =>
            /\ "all" \in Route(id) /\ id \in procs[p].sent \ procs[p].missed
                => /\ Key(p, id) \in DOMAIN infos["all"]
                   /\ Says(infos["all"][Key(p, id)], e, eventNames, layouts)
            /\ procs[p].gen = 1 =>
                \A t \in Points : Key(p, id) \in DOMAIN infos[t] =>
                    /\ infos[t][Key(p, id)].version \in {NoValue, e.version}
                    /\ NameOf(eventNames, infos[t][Key(p, id)].nameId) \in {"", e.name}

(* A shared type has the name and the format that its key stands for; the  *)
(* key of a type without a name is its event's id with the top bit set.    *)
FormatsSay(f, names, blobs) ==
    \A k \in DOMAIN f :
        /\ k[1] \in DOMAIN names \/ (k[1] \in Nat /\ k[1] >= TopBit)
        /\ k[2] \in {0} \cup DOMAIN blobs
        /\ f[k].name = NameOf(names, k[1]) /\ f[k].format = FormatOf(blobs, k[2])
        /\ k[1] \notin DOMAIN names => f[k].id = k[1] - TopBit
FormatsInv == FormatsSay(formats, eventNames, layouts)

(* The type of the records of the first process with an id.                *)
OwnType(type, e) == type.name = e.name /\ type.format = Layout(e.fields)
TypesInv ==
    \A p \in Pids, id \in Ids, e \in Descriptions :
        e = Described(p, id) =>
            (procs[p].gen = 1 /\ Key(p, id) \in DOMAIN types =>
                /\ types[Key(p, id)].name \in {"", e.name}
                /\ "all" \in Route(id) /\ id \notin procs[p].missed
                    => OwnType(types[Key(p, id)], e))

(* A type without a name has the id of every event that has it.            *)
TypeIdsInv ==
    \A p \in Pids, id \in Ids : Key(p, id) \in DOMAIN types =>
        (types[Key(p, id)].name = "" => types[Key(p, id)].id = id)

DotNetInv ==
    /\ DotNetType /\ ScriptInv /\ PointsInv /\ over = NoOver
    /\ TablesInv /\ InfosInv /\ FormatsInv /\ TypesInv /\ TypeIdsInv

(* The extension is read as it was written.                                *)
LEMMA ExtensionRead ==
    ASSUME NEW p, NEW id, NEW meta \in BOOLEAN, NEW activity, NEW cut, NEW ext,
           ext = Extension(p, id, meta, activity, cut)
    PROVE  /\ (\E i \in DOMAIN ext : ext[i].kind = "meta") <=> meta
           /\ meta => LabelData(ext, "meta", <<>>) = CutBlob(id, Described(p, id), cut)
           /\ LabelData(ext, "activity", NoValue) = activity
<1> DEFINE data == CutBlob(id, Described(p, id), cut)
<1>1. ext = Labels(meta, data, activity)
  BY Zenon DEF Extension, Labels, CutBlob, Blob
<1> HIDE DEF data
<1>2. LET x == Labels(meta, data, activity)
      IN /\ (\E i \in DOMAIN x : x[i].kind = "meta") <=> meta
         /\ LabelData(x, "meta", <<>>) = IF meta THEN data ELSE <<>>
         /\ LabelData(x, "activity", NoValue) = activity
  BY LabelsRead
<1> QED
  BY <1>1, <1>2, Zenon DEF data

LEMMA ActivityRead ==
    ASSUME NEW p, NEW id, NEW meta \in BOOLEAN, NEW activity, NEW cut
    PROVE  LabelData(Extension(p, id, meta, activity, cut), "activity", NoValue) = activity
<1> DEFINE data == CutBlob(id, Described(p, id), cut)
<1>1. Extension(p, id, meta, activity, cut) = Labels(meta, data, activity)
  BY Zenon DEF Extension, Labels, CutBlob, Blob
<1> HIDE DEF data
<1>2. LET x == Labels(meta, data, activity)
      IN /\ (\E i \in DOMAIN x : x[i].kind = "meta") <=> meta
         /\ LabelData(x, "meta", <<>>) = IF meta THEN data ELSE <<>>
         /\ LabelData(x, "activity", NoValue) = activity
  BY LabelsRead
<1> QED
  BY <1>1, <1>2

(* A process's own description is one of the table's.                      *)
LEMMA DescribedOne ==
    ASSUME DotNetType, NEW p \in Pids, NEW id \in Ids
    PROVE  Described(p, id) \in Descriptions
<1>1. procs[p].gen \in 1 .. MaxGen
  BY DEF DotNetType, Process
<1> QED
  BY <1>1 DEF Described, Descriptions

(* An event that is described on the default tracepoint comes there only.  *)
LEMMA OneRoute ==
    ASSUME NEW id, "all" \in Route(id)
    PROVE  Route(id) = {"all"}
BY Zenon DEF Route

-----------------------------------------------------------------------------
(* What the handler knows, step by step.                                   *)

(* What no step after the script changes.                                  *)
LEMMA SameConf ==
    ASSUME UNCHANGED conf
    PROVE  /\ \A id : Route(id)' = Route(id)
           /\ \A name : ByName(name)' = ByName(name)
<1>1. points' = points /\ subs' = subs
  BY DEF conf
<1>2. \A id : Route(id)' = Route(id)
  BY <1>1, Zenon DEF Route
<1>3. \A name : ByName(name)' = ByName(name)
  BY <1>1, Zenon DEF ByName, Proxies
<1> QED
  BY <1>2, <1>3

(* What a step has to leave in the infos.                                  *)
InfosAt(p, id, e) ==
    /\ "all" \in Route(id) /\ id \in procs'[p].sent \ procs'[p].missed
        => /\ Key(p, id) \in DOMAIN infos'["all"]
           /\ Says(infos'["all"][Key(p, id)], e, eventNames', layouts')
    /\ procs'[p].gen = 1 =>
        \A t \in Points : Key(p, id) \in DOMAIN infos'[t] =>
            /\ infos'[t][Key(p, id)].version \in {NoValue, e.version}
            /\ NameOf(eventNames', infos'[t][Key(p, id)].nameId) \in {"", e.name}

LEMMA InfosNext ==
    ASSUME UNCHANGED conf
    PROVE  InfosInv' <=> \A p \in Pids, id \in Ids, e \in Descriptions :
                            e = Described(p, id)' => InfosAt(p, id, e)
<1>1. \A id : Route(id)' = Route(id)
  BY SameConf
<1>2. \A name : ByName(name)' = ByName(name)
  BY SameConf
<1>3. ASSUME NEW p \in Pids, NEW id \in Ids, NEW t \in Points
      PROVE  /\ NameOf(eventNames, infos[t][Key(p, id)].nameId)'
                    = NameOf(eventNames', infos'[t][Key(p, id)].nameId)
             /\ FormatOf(layouts, infos[t][Key(p, id)].formatIndex)'
                    = FormatOf(layouts', infos'[t][Key(p, id)].formatIndex)
  BY DEF NameOf, FormatOf, Key
<1>4. ASSUME NEW p \in Pids, NEW id \in Ids, NEW e \in Descriptions
      PROVE  Says(infos["all"][Key(p, id)], e, eventNames, layouts)'
                <=> Says(infos'["all"][Key(p, id)], e, eventNames', layouts')
  <2>1. /\ NameOf(eventNames, infos["all"][Key(p, id)].nameId)'
                = NameOf(eventNames', infos'["all"][Key(p, id)].nameId)
        /\ FormatOf(layouts, infos["all"][Key(p, id)].formatIndex)'
                = FormatOf(layouts', infos'["all"][Key(p, id)].formatIndex)
    BY <1>3, Zenon DEF Points
  <2>2. /\ (infos["all"][Key(p, id)].version)' = infos'["all"][Key(p, id)].version
        /\ (infos["all"][Key(p, id)].keywords)' = infos'["all"][Key(p, id)].keywords
        /\ (infos["all"][Key(p, id)].logical)' = infos'["all"][Key(p, id)].logical
    BY DEF Key
  <2> QED
    BY <1>2, <2>1, <2>2, Zenon DEF Says
<1>5. ASSUME NEW p \in Pids, NEW id \in Ids, NEW e \in Descriptions
      PROVE  /\ ("all" \in Route(id) /\ id \in procs[p].sent \ procs[p].missed
                    => /\ Key(p, id) \in DOMAIN infos["all"]
                       /\ Says(infos["all"][Key(p, id)], e, eventNames, layouts))'
                <=> ("all" \in Route(id) /\ id \in procs'[p].sent \ procs'[p].missed
                        => /\ Key(p, id) \in DOMAIN infos'["all"]
                           /\ Says(infos'["all"][Key(p, id)], e, eventNames', layouts'))
             /\ (procs[p].gen = 1 =>
                    \A t \in Points : Key(p, id) \in DOMAIN infos[t] =>
                        /\ infos[t][Key(p, id)].version \in {NoValue, e.version}
                        /\ NameOf(eventNames, infos[t][Key(p, id)].nameId)
                                \in {"", e.name})'
                <=> (procs'[p].gen = 1 =>
                        \A t \in Points : Key(p, id) \in DOMAIN infos'[t] =>
                            /\ infos'[t][Key(p, id)].version \in {NoValue, e.version}
                            /\ NameOf(eventNames', infos'[t][Key(p, id)].nameId)
                                    \in {"", e.name})
  <2>1. Says(infos["all"][Key(p, id)], e, eventNames, layouts)'
            <=> Says(infos'["all"][Key(p, id)], e, eventNames', layouts')
    BY <1>4
  <2>2. \A t \in Points : NameOf(eventNames, infos[t][Key(p, id)].nameId)'
                = NameOf(eventNames', infos'[t][Key(p, id)].nameId)
    BY <1>3
  <2>3. (Key(p, id) \in DOMAIN infos["all"])' <=> Key(p, id) \in DOMAIN infos'["all"]
    BY DEF Key
  <2>4. \A t \in Points :
            /\ (Key(p, id) \in DOMAIN infos[t])' <=> Key(p, id) \in DOMAIN infos'[t]
            /\ (infos[t][Key(p, id)].version)' = infos'[t][Key(p, id)].version
    BY DEF Key
  <2> QED
    BY <1>1, <2>1, <2>2, <2>3, <2>4, Zenon DEF Points
<1>6. ASSUME NEW p \in Pids, NEW id \in Ids, NEW e \in Descriptions
      PROVE  (/\ "all" \in Route(id) /\ id \in procs[p].sent \ procs[p].missed
                    => /\ Key(p, id) \in DOMAIN infos["all"]
                       /\ Says(infos["all"][Key(p, id)], e, eventNames, layouts)
              /\ procs[p].gen = 1 =>
                    \A t \in Points : Key(p, id) \in DOMAIN infos[t] =>
                        /\ infos[t][Key(p, id)].version \in {NoValue, e.version}
                        /\ NameOf(eventNames, infos[t][Key(p, id)].nameId)
                                \in {"", e.name})'
                <=> InfosAt(p, id, e)
  BY <1>5, Zenon DEF InfosAt
<1> QED
  BY <1>6, Zenon DEF InfosInv

LEMMA InfosEmpty ==
    ASSUME infos' = [t \in Points |-> <<>>], procs' = [p \in Pids |-> FirstProcess]
    PROVE  InfosInv'
<1> SUFFICES ASSUME NEW p \in Pids, NEW id \in Ids
             PROVE  /\ id \notin procs'[p].sent
                    /\ \A t \in Points : Key(p, id) \notin DOMAIN infos'[t]
  BY DEF InfosInv
<1> QED
  BY DEF FirstProcess

(* What was known stays known when names and blobs are entered.            *)
KeepsTables ==
    /\ \A n \in {0} \cup DOMAIN eventNames :
        /\ n \in {0} \cup DOMAIN eventNames'
        /\ NameOf(eventNames', n) = NameOf(eventNames, n)
    /\ \A n \in {0} \cup DOMAIN layouts :
        /\ n \in {0} \cup DOMAIN layouts'
        /\ FormatOf(layouts', n) = FormatOf(layouts, n)

LEMMA TablesGrow ==
    ASSUME eventNames \in Seq(Names), layouts \in Seq(Blobs),
           eventNames' \in Seq(Names), layouts' \in Seq(Blobs),
           DOMAIN eventNames \subseteq DOMAIN eventNames',
           DOMAIN layouts \subseteq DOMAIN layouts',
           \A n \in DOMAIN eventNames : eventNames'[n] = eventNames[n],
           \A n \in DOMAIN layouts : layouts'[n] = layouts[n]
    PROVE  KeepsTables
<1>1. 0 \notin DOMAIN eventNames' /\ 0 \notin DOMAIN layouts'
  BY Unknown
<1>2. 0 \notin DOMAIN eventNames /\ 0 \notin DOMAIN layouts
  BY <1>1
<1>3. \A n \in {0} \cup DOMAIN eventNames :
        /\ n \in {0} \cup DOMAIN eventNames'
        /\ NameOf(eventNames', n) = NameOf(eventNames, n)
  BY <1>1, <1>2 DEF NameOf
<1>4. \A n \in {0} \cup DOMAIN layouts :
        /\ n \in {0} \cup DOMAIN layouts'
        /\ FormatOf(layouts', n) = FormatOf(layouts, n)
  BY <1>1, <1>2 DEF FormatOf
<1> QED
  BY <1>3, <1>4 DEF KeepsTables

(* What the handler makes of an event's metadata, if it came.              *)
Arrives(q, i, t, meta, info, e) ==
    /\ infos' = IF meta THEN [infos EXCEPT ![t] = Inserted(infos[t], Key(q, i), info)]
                ELSE infos
    /\ meta =>
        /\ info.nameId \in {0} \cup DOMAIN eventNames'
        /\ info.formatIndex \in {0} \cup DOMAIN layouts'
        /\ info.version \in {NoValue, e.version}
        /\ NameOf(eventNames', info.nameId) \in {"", e.name}

LEMMA TablesArrive ==
    ASSUME DotNetInv,
           NEW q \in Pids, NEW i \in Ids, NEW t \in Points, NEW meta \in BOOLEAN,
           NEW activity, NEW cut \in Cuts, EventArrives(q, i, t, meta, activity, cut),
           NEW d, d = Described(q, i)
    PROVE  /\ eventNames' \in Seq(Names) /\ Len(eventNames') <= Len(eventNames) + 1
           /\ layouts' \in Seq(Blobs) /\ KeepsTables
           /\ \E info : /\ Arrives(q, i, t, meta, info, d)
                        /\ meta /\ t = "all" /\ cut = 0 =>
                                Says(info, d, eventNames', layouts')
<1> DEFINE ext == Extension(q, i, meta, activity, cut)
<1>1. PICK m : m = MetaParser(CutBlob(i, d, cut))
  OBVIOUS
<1>2. (HasMeta(ext) <=> meta) /\ (meta => Meta(ext) = m)
  <2>1. /\ (\E k \in DOMAIN ext : ext[k].kind = "meta") <=> meta
        /\ meta => LabelData(ext, "meta", <<>>) = CutBlob(i, d, cut)
    BY ExtensionRead
  <2> HIDE DEF ext
  <2> QED
    BY <1>1, <2>1, Zenon DEF HasMeta, Meta
<1>3. Handle(t, q, i, ext)
  BY Zenon DEF EventArrives
<1> HIDE DEF ext
<1>4. /\ eventNames' = IF HasMeta(ext) THEN NewNames(t, Meta(ext)) ELSE eventNames
      /\ layouts' = IF HasMeta(ext) THEN NewLayouts(t, Meta(ext)) ELSE layouts
  BY <1>3, Zenon DEF Handle
<1>5. infos' = IF HasMeta(ext)
               THEN NewInfos(t, q, i, InfoOf(t, Meta(ext), eventNames', layouts'))
               ELSE infos
  BY <1>3, <1>4, Zenon DEF Handle
<1>6. /\ eventNames \in Seq(Names) /\ layouts \in Seq(Blobs)
      /\ Len(eventNames) <= Len(eventNames) + 1
  BY DEF DotNetInv, TablesInv
<1>7. d \in Descriptions /\ i \in Int
  BY DescribedOne, NumbersAssumption DEF DotNetInv
<1>8. CASE ~ meta
  <2>1. eventNames' = eventNames /\ layouts' = layouts /\ infos' = infos
    BY <1>2, <1>4, <1>5, <1>8, Zenon
  <2>2. KeepsTables
    BY <2>1, Zenon DEF KeepsTables
  <2> QED
    BY <1>6, <1>8, <2>1, <2>2, Zenon DEF Arrives
<1>9. CASE meta
  <2>1. PICK names, blobs : names = eventNames' /\ blobs = layouts'
    OBVIOUS
  <2>2. names = NewNames(t, m) /\ blobs = NewLayouts(t, m)
    BY <1>2, <1>4, <1>9, <2>1, Zenon
  <2>3. PICK info : info = InfoOf(t, m, names, blobs)
    OBVIOUS
  <2>4. /\ m.version \in {NoValue, d.version} /\ m.name \in {"", d.name}
        /\ m.fields \in Blobs
    BY <1>1, <1>7, CutRead DEF Blobs
  <2>5. OfTable(m)
    BY <1>7, <2>4, Zenon DEF OfTable, Names
  <2>6. ReadsBack(t, m, names, blobs, info)
    BY <1>6, <2>2, <2>3, <2>4, <2>5, Entered
  <2>7. KeepsTables
    BY <1>6, <2>1, <2>6, TablesGrow, Zenon DEF ReadsBack
  <2>8. infos' = [infos EXCEPT ![t] = Inserted(infos[t], Key(q, i), info)]
    BY <1>2, <1>5, <1>9, <2>1, <2>3, Zenon DEF NewInfos
  <2>9. NameOf(names, info.nameId) \in {"", d.name}
    BY <2>4, <2>6, Zenon DEF ReadsBack
  <2>10. Arrives(q, i, t, meta, info, d)
    BY <1>9, <2>1, <2>4, <2>6, <2>8, <2>9, Zenon DEF Arrives, ReadsBack
  <2>11. ASSUME t = "all", cut = 0
         PROVE  Says(info, d, names, blobs)
    <3> DEFINE w == WriteFields(d.fields, d.v2)
    <3>1. m = [name |-> d.name, keywords |-> d.keywords, version |-> d.version,
               fields |-> w]
      BY <1>1, <1>7, <2>11, WholeRead, Zenon
    <3> HIDE DEF w
    <3>2. m.name = d.name /\ m.keywords = d.keywords /\ m.version = d.version
          /\ m.fields = w
      BY <3>1
    <3>3. ReadFields(w) = Layout(d.fields)
      BY <1>7, DescriptionType DEF w
    <3> QED
      BY <2>6, <2>11, <3>2, <3>3, Zenon DEF Says, ReadsBack
  <2> QED
    BY <1>9, <2>1, <2>6, <2>7, <2>10, <2>11, Zenon DEF ReadsBack
<1> QED
  BY <1>8, <1>9

(* A step that changes nothing of a process but what it missed.            *)
LEMMA InfosKept ==
    ASSUME DotNetInv, UNCHANGED <<conf, tables>>,
           \A p \in Pids :
                \/ procs'[p].sent = {} /\ procs'[p].gen # 1
                \/ /\ procs'[p].gen = procs[p].gen
                   /\ procs'[p].sent \ procs'[p].missed \subseteq
                            procs[p].sent \ procs[p].missed
    PROVE  InfosInv'
<1>1. infos' = infos /\ eventNames' = eventNames /\ layouts' = layouts
  BY DEF tables
<1> SUFFICES ASSUME NEW p \in Pids, NEW id \in Ids, NEW e \in Descriptions,
                    e = Described(p, id)'
             PROVE  InfosAt(p, id, e)
  BY InfosNext, Zenon
<1>2. CASE procs'[p].sent = {} /\ procs'[p].gen # 1
  BY <1>2 DEF InfosAt
<1>3. CASE /\ procs'[p].gen = procs[p].gen
           /\ procs'[p].sent \ procs'[p].missed \subseteq procs[p].sent \ procs[p].missed
  <2>1. e = Described(p, id)
    BY <1>3 DEF Described
  <2>2. /\ "all" \in Route(id) /\ id \in procs[p].sent \ procs[p].missed
            => /\ Key(p, id) \in DOMAIN infos["all"]
               /\ Says(infos["all"][Key(p, id)], e, eventNames, layouts)
        /\ procs[p].gen = 1 =>
            \A t \in Points : Key(p, id) \in DOMAIN infos[t] =>
                /\ infos[t][Key(p, id)].version \in {NoValue, e.version}
                /\ NameOf(eventNames, infos[t][Key(p, id)].nameId) \in {"", e.name}
    BY <2>1, Zenon DEF DotNetInv, InfosInv
  <2>3. id \in procs'[p].sent \ procs'[p].missed => id \in procs[p].sent \ procs[p].missed
    BY <1>3
  <2> QED
    BY <1>1, <1>3, <2>2, <2>3, Zenon DEF InfosAt
<1> QED
  BY <1>2, <1>3

(* What an info says it says in the tables that a step leaves.             *)
LEMMA SaysKept ==
    ASSUME DotNetInv, KeepsTables, NEW t \in Points, NEW k \in DOMAIN infos[t],
           NEW e, NEW info, info = infos[t][k]
    PROVE  /\ Says(info, e, eventNames, layouts) => Says(info, e, eventNames', layouts')
           /\ NameOf(eventNames', info.nameId) = NameOf(eventNames, info.nameId)
<1>1. /\ info.nameId \in {0} \cup DOMAIN eventNames
      /\ info.formatIndex \in {0} \cup DOMAIN layouts
  BY Zenon DEF DotNetInv, TablesInv
<1>2. /\ NameOf(eventNames', info.nameId) = NameOf(eventNames, info.nameId)
      /\ FormatOf(layouts', info.formatIndex) = FormatOf(layouts, info.formatIndex)
  BY <1>1, Zenon DEF KeepsTables
<1> QED
  BY <1>2, Zenon DEF Says

(* The handler of an event.                                                *)
LEMMA InfosArrive ==
    ASSUME DotNetInv,
           NEW q \in Pids, NEW i \in Ids, NEW t \in Points, NEW meta \in BOOLEAN,
           NEW activity, NEW cut \in Cuts, EventArrives(q, i, t, meta, activity, cut)
    PROVE  InfosInv'
<1>1. /\ t \in Route(i) /\ (meta \/ (i \in procs[q].sent /\ cut = 0))
      /\ procs' = [procs EXCEPT ![q].sent = @ \cup {i},
                                ![q].missed = IF cut > 0 THEN @ \cup {i} ELSE @]
      /\ UNCHANGED conf
  BY Zenon DEF EventArrives
<1>2. PICK d : d = Described(q, i)
  OBVIOUS
<1>3. PICK info : /\ Arrives(q, i, t, meta, info, d)
                  /\ meta /\ t = "all" /\ cut = 0 => Says(info, d, eventNames', layouts')
  BY <1>2, TablesArrive, Zenon
<1>4. KeepsTables
  BY <1>2, TablesArrive, Zenon
<1>5. DOMAIN infos = Points
  BY DEF DotNetInv, DotNetType
<1>8. \A p \in Pids : procs'[p].gen = procs[p].gen
  BY <1>1 DEF DotNetInv, DotNetType, Process
<1>9. \A p \in Pids, id \in Ids :
        id \in procs'[p].sent \ procs'[p].missed =>
            \/ id \in procs[p].sent \ procs[p].missed
            \/ p = q /\ id = i /\ cut = 0 /\ meta
  BY <1>1, NumbersAssumption DEF DotNetInv, DotNetType, Process
<1> SUFFICES ASSUME NEW p \in Pids, NEW id \in Ids, NEW e \in Descriptions,
                    e = Described(p, id)'
             PROVE  InfosAt(p, id, e)
  BY <1>1, InfosNext, Zenon
<1>11. e = Described(p, id)
  BY <1>8 DEF Described
<1>12. /\ "all" \in Route(id) /\ id \in procs[p].sent \ procs[p].missed
            => /\ Key(p, id) \in DOMAIN infos["all"]
               /\ Says(infos["all"][Key(p, id)], e, eventNames', layouts')
       /\ procs[p].gen = 1 =>
            \A u \in Points : Key(p, id) \in DOMAIN infos[u] =>
                /\ infos[u][Key(p, id)].version \in {NoValue, e.version}
                /\ NameOf(eventNames', infos[u][Key(p, id)].nameId) \in {"", e.name}
  <2>1. /\ "all" \in Route(id) /\ id \in procs[p].sent \ procs[p].missed
             => /\ Key(p, id) \in DOMAIN infos["all"]
                /\ Says(infos["all"][Key(p, id)], e, eventNames, layouts)
        /\ procs[p].gen = 1 =>
             \A u \in Points : Key(p, id) \in DOMAIN infos[u] =>
                 /\ infos[u][Key(p, id)].version \in {NoValue, e.version}
                 /\ NameOf(eventNames, infos[u][Key(p, id)].nameId) \in {"", e.name}
    BY <1>11, Zenon DEF DotNetInv, InfosInv
  <2>2. \A u \in Points : Key(p, id) \in DOMAIN infos[u] =>
            /\ Says(infos[u][Key(p, id)], e, eventNames, layouts)
                    => Says(infos[u][Key(p, id)], e, eventNames', layouts')
            /\ NameOf(eventNames', infos[u][Key(p, id)].nameId)
                    = NameOf(eventNames, infos[u][Key(p, id)].nameId)
    BY <1>4, SaysKept, Zenon
  <2>3. "all" \in Points
    BY DEF Points
  <2> QED
    BY <2>1, <2>2, <2>3, Zenon
<1>13. CASE ~ meta
  <2>1. infos' = infos
    BY <1>3, <1>13, Zenon DEF Arrives
  <2>2. id \in procs'[p].sent \ procs'[p].missed => id \in procs[p].sent \ procs[p].missed
    BY <1>9, <1>13
  <2> QED
    BY <1>8, <1>12, <2>1, <2>2, Zenon DEF InfosAt
<1>14. CASE meta
  <2>1. /\ DOMAIN infos' = Points
        /\ \A u \in Points : u # t => infos'[u] = infos[u]
        /\ DOMAIN infos'[t] = DOMAIN infos[t] \cup {Key(q, i)}
        /\ infos'[t][Key(q, i)] = info
        /\ \A k \in DOMAIN infos[t] : k # Key(q, i) => infos'[t][k] = infos[t][k]
    <3>1. infos' = [infos EXCEPT ![t] = Inserted(infos[t], Key(q, i), info)]
      BY <1>3, <1>14, Zenon DEF Arrives
    <3> QED
      BY <1>5, <3>1 DEF Inserted
  <2>0. /\ info.version \in {NoValue, d.version}
        /\ NameOf(eventNames', info.nameId) \in {"", d.name}
    BY <1>3, <1>14, Zenon DEF Arrives
  <2>2. Key(p, id) = Key(q, i) <=> p = q /\ id = i
    BY DEF Key
  <2>3. CASE p = q /\ id = i
    <3>1. e = d
      BY <1>2, <1>11, <2>3
    <3>2. ASSUME "all" \in Route(id), id \in procs'[p].sent \ procs'[p].missed
          PROVE  /\ Key(p, id) \in DOMAIN infos'["all"]
                 /\ Says(infos'["all"][Key(p, id)], e, eventNames', layouts')
      <4>1. t = "all"
        BY <1>1, <2>3, <3>2, OneRoute
      <4>2. cut = 0
        BY <1>1, <2>3, <3>2, NumbersAssumption DEF DotNetInv, DotNetType, Process
      <4> QED
        BY <1>3, <1>14, <2>1, <2>3, <3>1, <4>1, <4>2, Zenon
    <3>3. ASSUME procs'[p].gen = 1, NEW u \in Points, Key(p, id) \in DOMAIN infos'[u]
          PROVE  /\ infos'[u][Key(p, id)].version \in {NoValue, e.version}
                 /\ NameOf(eventNames', infos'[u][Key(p, id)].nameId) \in {"", e.name}
      <4>1. CASE u = t
        BY <2>0, <2>1, <2>3, <3>1, <4>1, Zenon
      <4>2. CASE u # t
        BY <1>8, <1>12, <2>1, <3>3, <4>2, Zenon
      <4> QED
        BY <4>1, <4>2
    <3> QED
      BY <3>2, <3>3, Zenon DEF InfosAt
  <2>4. CASE ~ (p = q /\ id = i)
    <3>1. \A u \in Points : /\ Key(p, id) \in DOMAIN infos'[u] <=> Key(p, id) \in DOMAIN infos[u]
                            /\ Key(p, id) \in DOMAIN infos[u] =>
                                    infos'[u][Key(p, id)] = infos[u][Key(p, id)]
      <4> TAKE u \in Points
      <4>1. CASE u = t
        BY <2>1, <2>2, <2>4, <4>1, Zenon
      <4>2. CASE u # t
        BY <2>1, <4>2, Zenon
      <4> QED
        BY <4>1, <4>2
    <3>2. id \in procs'[p].sent \ procs'[p].missed => id \in procs[p].sent \ procs[p].missed
      BY <1>9, <2>4
    <3>3. "all" \in Points
      BY DEF Points
    <3>4. "all" \in Route(id) /\ id \in procs'[p].sent \ procs'[p].missed
            => /\ Key(p, id) \in DOMAIN infos'["all"]
               /\ Says(infos'["all"][Key(p, id)], e, eventNames', layouts')
      BY <1>12, <3>1, <3>2, <3>3, Zenon
    <3>5. ASSUME procs'[p].gen = 1, NEW u \in Points, Key(p, id) \in DOMAIN infos'[u]
          PROVE  /\ infos'[u][Key(p, id)].version \in {NoValue, e.version}
                 /\ NameOf(eventNames', infos'[u][Key(p, id)].nameId) \in {"", e.name}
      BY <1>8, <1>12, <3>1, <3>5, Zenon
    <3> QED
      BY <3>4, <3>5, Zenon DEF InfosAt
  <2> QED
    BY <2>3, <2>4
<1> QED
  BY <1>13, <1>14

-----------------------------------------------------------------------------
(* The parts of the invariant that the script decides.                     *)

LEMMA DotNetTypeStep == DotNetInv /\ [Next]_vars => DotNetType'
<1> SUFFICES ASSUME DotNetInv, [Next]_vars
             PROVE  DotNetType'
  OBVIOUS
<1> USE DEF DotNetInv, DotNetType
<1>1. ASSUME NEW id \in SubIds, NEW stacks \in BOOLEAN, NewEventById(id, stacks)
      PROVE  DotNetType'
  <2>1. [by |-> "id", id |-> id, name |-> "", stacks |-> stacks] \in Subscription
    BY DEF Subscription
  <2> DEFINE r == [by |-> "id", id |-> id, name |-> "", stacks |-> stacks]
  <2>2. subs' = Append(subs, r)
    BY <1>1, Zenon DEF NewEventById
  <2> HIDE DEF r
  <2>5. r \in Subscription
    BY <2>1 DEF r
  <2>3. subs' \in Seq(Subscription)
    BY <2>2, <2>5
  <2>4. UNCHANGED <<phase, callbacks, cbStacks, procs, infos>>
    BY <1>1, Zenon DEF NewEventById, runVars, tables
  <2> QED
    BY <2>3, <2>4
<1>2. ASSUME NEW name \in SubNames, NewEventByName(name)
      PROVE  DotNetType'
  <2>1. [by |-> "name", id |-> 0, name |-> name, stacks |-> TRUE] \in Subscription
    BY DEF Subscription
  <2> QED
    BY <1>2, <2>1 DEF NewEventByName, runVars, tables
<1>3. ASSUME NEW mask \in Keywords, RecordProvider(mask)
      PROVE  DotNetType'
  BY <1>3 DEF RecordProvider, runVars, tables
<1>4. CASE SettingsHook
  BY <1>4 DEF SettingsHook, runVars, tables
<1>5. ASSUME NEW p \in Pids, NEW id \in Ids, NEW t \in Points, NEW meta \in BOOLEAN,
             NEW activity \in {NoValue, 1}, NEW cut \in Cuts,
             EventArrives(p, id, t, meta, activity, cut)
      PROVE  DotNetType'
  <2>1. UNCHANGED conf
    BY <1>5, Zenon DEF EventArrives
  <2> DEFINE missed == IF cut > 0 THEN procs[p].missed \cup {id} ELSE procs[p].missed
  <2>2. procs' = [procs EXCEPT ![p].sent = @ \cup {id}, ![p].missed = missed]
    BY <1>5, Zenon DEF EventArrives
  <2>3. missed \in SUBSET Ids
    BY DEF Process
  <2> HIDE DEF missed
  <2>4. procs' \in [Pids -> Process]
    BY <2>2, <2>3 DEF Process
  <2>5. PICK info : Arrives(p, id, t, meta, info, Described(p, id))
    BY <1>5, TablesArrive, Zenon
  <2>6. DOMAIN infos' = Points
    BY <2>5, Zenon DEF Arrives
  <2> QED
    BY <2>1, <2>4, <2>6 DEF conf
<1>6. ASSUME NEW p \in Pids, NEW id \in Ids, EventLost(p, id)
      PROVE  DotNetType'
  <2>1. procs' \in [Pids -> Process]
    BY <1>6 DEF EventLost, Process
  <2> QED
    BY <1>6, <2>1 DEF EventLost, conf, tables
<1>7. CASE OtherSample
  BY <1>7 DEF OtherSample, conf, tables
<1>8. ASSUME NEW p \in Pids, Reuse(p)
      PROVE  DotNetType'
  <2>1. procs[p].gen + 1 \in 1 .. MaxGen
    BY <1>8, BoundsAssumption DEF Reuse, Process
  <2>2. procs' \in [Pids -> Process]
    BY <1>8, <2>1 DEF Reuse, Process
  <2> QED
    BY <1>8, <2>2 DEF Reuse, conf, tables
<1>9. CASE UNCHANGED vars
  BY <1>9 DEF vars, conf, runVars, tables
<1> QED
  BY <1>1, <1>2, <1>3, <1>4, <1>5, <1>6, <1>7, <1>8, <1>9, Zenon DEF Next

LEMMA ScriptStep == DotNetInv /\ [Next]_vars => ScriptInv'
<1> SUFFICES ASSUME DotNetInv, [Next]_vars, phase' = "script"
             PROVE  runVars' = runVars /\ phase = "script"
  BY DEF ScriptInv, DotNetInv, runVars, tables
<1> USE DEF DotNetInv, DotNetType
<1>1. ASSUME NEW id \in SubIds, NEW stacks \in BOOLEAN, NewEventById(id, stacks)
      PROVE  runVars' = runVars /\ phase = "script"
  BY <1>1, Zenon DEF NewEventById
<1>2. ASSUME NEW name \in SubNames, NewEventByName(name)
      PROVE  runVars' = runVars /\ phase = "script"
  BY <1>2, Zenon DEF NewEventByName
<1>3. ASSUME NEW mask \in Keywords, RecordProvider(mask)
      PROVE  runVars' = runVars /\ phase = "script"
  BY <1>3, Zenon DEF RecordProvider
<1>4. ~ SettingsHook
  BY DEF SettingsHook
<1>5. ASSUME NEW p, NEW id, NEW t, NEW meta, NEW activity, NEW cut,
             EventArrives(p, id, t, meta, activity, cut)
      PROVE  FALSE
  <2>1. phase = "run" /\ phase' = phase
    BY <1>5, Zenon DEF EventArrives, Happens, conf
  <2> QED
    BY <2>1
<1>6. \A p \in Pids, id \in Ids : ~ EventLost(p, id)
  BY Zenon DEF EventLost, Happens, conf
<1>7. ~ OtherSample
  BY Zenon DEF OtherSample, conf, tables
<1>8. \A p \in Pids : ~ Reuse(p)
  BY Zenon DEF Reuse, Happens, conf
<1>9. CASE UNCHANGED vars
  BY <1>9, Zenon DEF vars, conf
<1> QED
  BY <1>1, <1>2, <1>3, <1>4, <1>5, <1>6, <1>7, <1>8, <1>9, Zenon DEF Next

LEMMA SameTracepoints ==
    ASSUME UNCHANGED <<subs, callbacks, cbStacks>>
    PROVE  TracepointsOf' = TracepointsOf
<1>1. Proxies' = Proxies
  BY DEF Proxies
<1>2. \A b : IdsWith(b)' = IdsWith(b)
  BY <1>1, Zenon DEF IdsWith
<1>3. (callbacks # <<>> \/ \E s \in Proxies : subs[s].by = "name")' =
        (callbacks # <<>> \/ \E s \in Proxies : subs[s].by = "name")
  BY <1>1
<1>4. /\ IdsWith(FALSE)' = IdsWith(FALSE) /\ IdsWith(TRUE)' = IdsWith(TRUE)
      /\ cbStacks' = cbStacks
  BY <1>2
<1> DEFINE on == callbacks # <<>> \/ \E s \in Proxies : subs[s].by = "name"
<1>5. on' = on
  BY <1>3
<1> HIDE DEF on
<1> DEFINE Made(plain, stacks, all, flag) ==
        [t \in Points |->
            CASE t = "plain" -> Point(plain # {}, plain, FALSE)
              [] t = "stacks" -> Point(stacks # {}, stacks, TRUE)
              [] t = "all" -> Point(all, {}, flag)]
<1>6. TracepointsOf = Made(IdsWith(FALSE), IdsWith(TRUE), on, cbStacks)
  BY Zenon DEF TracepointsOf, on
<1>7. TracepointsOf' = Made(IdsWith(FALSE)', IdsWith(TRUE)', on', cbStacks')
  BY Zenon DEF TracepointsOf, on
<1> HIDE DEF Made
<1> QED
  BY <1>4, <1>5, <1>6, <1>7

LEMMA PointsStep == DotNetInv /\ [Next]_vars => PointsInv'
<1> SUFFICES ASSUME DotNetInv, [Next]_vars
             PROVE  PointsInv'
  OBVIOUS
<1> USE DEF DotNetInv, DotNetType, PointsInv
<1>1. ASSUME NEW id \in SubIds, NEW stacks \in BOOLEAN, NewEventById(id, stacks)
      PROVE  PointsInv'
  BY <1>1 DEF NewEventById
<1>2. ASSUME NEW name \in SubNames, NewEventByName(name)
      PROVE  PointsInv'
  BY <1>2 DEF NewEventByName
<1>3. ASSUME NEW mask \in Keywords, RecordProvider(mask)
      PROVE  PointsInv'
  <2>1. callbacks' = Append(callbacks, mask) /\ (cbStacks' <=> mask # {})
    BY <1>3 DEF RecordProvider
  <2>2. callbacks'[Len(callbacks')] = mask
    BY <2>1
  <2>3. phase' = "script"
    BY <1>3 DEF RecordProvider
  <2> QED
    BY <2>1, <2>2, <2>3
<1>4. CASE SettingsHook
  <2>1. TracepointsOf' = TracepointsOf
    BY <1>4, SameTracepoints DEF SettingsHook
  <2> QED
    BY <1>4, <2>1 DEF SettingsHook
<1>5. CASE UNCHANGED conf
  <2>1. TracepointsOf' = TracepointsOf
    BY <1>5, SameTracepoints DEF conf
  <2> QED
    BY <1>5, <2>1 DEF conf
<1>6. CASE UNCHANGED vars
  BY <1>5, <1>6 DEF vars
<1>7. ASSUME NEW p, NEW id, NEW t, NEW meta, NEW activity, NEW cut,
             EventArrives(p, id, t, meta, activity, cut)
      PROVE  PointsInv'
  BY <1>5, <1>7, Zenon DEF EventArrives
<1>8. ASSUME NEW p, NEW id, EventLost(p, id) \/ Reuse(p) \/ OtherSample
      PROVE  PointsInv'
  BY <1>5, <1>8 DEF EventLost, Reuse, OtherSample
<1> QED
  BY <1>1, <1>2, <1>3, <1>4, <1>6, <1>7, <1>8, Zenon DEF Next

LEMMA OverStep == DotNetInv /\ [Next]_vars => over' = NoOver
<1> SUFFICES ASSUME DotNetInv, [Next]_vars
             PROVE  over' = NoOver
  OBVIOUS
<1>1. over = NoOver
  BY DEF DotNetInv
<1>2. CASE UNCHANGED over
  BY <1>1, <1>2
<1>3. ASSUME NEW p, NEW id, NEW t, NEW meta, NEW activity, NEW cut,
             EventArrives(p, id, t, meta, activity, cut)
      PROVE  over' = NoOver
  BY <1>3, Zenon DEF EventArrives, Handle, AfterHandler
<1> QED
  BY <1>2, <1>3, Zenon DEF Next, NewEventById, NewEventByName, RecordProvider,
     SettingsHook, EventLost, OtherSample, Reuse, vars, runVars

(* The tables of a step that enters nothing.                               *)
LEMMA TablesKept ==
    ASSUME DotNetInv, UNCHANGED tables, count' \in count .. MaxEvents
    PROVE  TablesInv' /\ FormatsInv' /\ TypeIdsInv'
<1>1. /\ infos' = infos /\ eventNames' = eventNames /\ layouts' = layouts
      /\ formats' = formats /\ types' = types
  BY DEF tables
<1>2. TablesInv'
  <2>1. TablesInv /\ Len(eventNames) \in Nat
    BY DEF DotNetInv, TablesInv
  <2>2. count' \in 0 .. MaxEvents /\ Len(eventNames') <= count'
    BY <1>1, <2>1, BoundsAssumption DEF TablesInv
  <2> QED
    BY <1>1, <2>1, <2>2, Zenon DEF TablesInv
<1>3. FormatsInv'
  <2>1. FormatsSay(formats, eventNames, layouts)
    BY DEF DotNetInv, FormatsInv
  <2> QED
    BY <1>1, <2>1 DEF FormatsInv, FormatsSay, NameOf, FormatOf
<1>4. TypeIdsInv'
  <2>1. TypeIdsInv
    BY DEF DotNetInv
  <2> QED
    BY <1>1, <2>1, Zenon DEF TypeIdsInv, Key
<1> QED
  BY <1>2, <1>3, <1>4

(* In the script nothing is known, and nothing is lost of it.              *)
LEMMA ScriptKeeps ==
    ASSUME DotNetInv, phase = "script", UNCHANGED runVars
    PROVE  InfosInv' /\ TypesInv' /\ TablesInv' /\ FormatsInv' /\ TypeIdsInv'
<1>1. /\ infos' = [t \in Points |-> <<>>] /\ procs' = [p \in Pids |-> FirstProcess]
      /\ types' = <<>> /\ tables' = tables /\ count' = count
  BY DEF DotNetInv, ScriptInv, runVars, tables
<1>2. InfosInv'
  BY <1>1, InfosEmpty
<1>3. TypesInv'
  <2>1. DOMAIN types' = {}
    BY <1>1
  <2>2. \A k : k \notin DOMAIN types'
    BY <2>1
  <2> QED
    BY <2>2, Zenon DEF TypesInv, Key
<1>4. TablesInv' /\ FormatsInv' /\ TypeIdsInv'
  <2>1. count' \in count .. MaxEvents
    BY <1>1, BoundsAssumption DEF DotNetInv, TablesInv
  <2> QED
    BY <1>1, <2>1, TablesKept
<1> QED
  BY <1>2, <1>3, <1>4

LEMMA InfosStep == DotNetInv /\ [Next]_vars => InfosInv'
<1> SUFFICES ASSUME DotNetInv, [Next]_vars
             PROVE  InfosInv'
  OBVIOUS
<1>1. ASSUME NEW id, NEW stacks, NewEventById(id, stacks) \/ NewEventByName(id)
                                    \/ RecordProvider(id) \/ SettingsHook
      PROVE  InfosInv'
  <2>1. phase = "script" /\ UNCHANGED runVars
    BY <1>1, Zenon DEF NewEventById, NewEventByName, RecordProvider, SettingsHook
  <2> QED
    BY <2>1, ScriptKeeps
<1>2. ASSUME NEW p \in Pids, NEW id \in Ids, NEW t \in Points, NEW meta \in BOOLEAN,
             NEW activity \in {NoValue, 1}, NEW cut \in Cuts,
             EventArrives(p, id, t, meta, activity, cut)
      PROVE  InfosInv'
  BY <1>2, InfosArrive
<1>3. ASSUME NEW p \in Pids, NEW id \in Ids, EventLost(p, id)
      PROVE  InfosInv'
  <2>1. \A q \in Pids : /\ procs'[q].gen = procs[q].gen
                        /\ procs'[q].sent \ procs'[q].missed \subseteq
                                procs[q].sent \ procs[q].missed
    BY <1>3 DEF EventLost, DotNetInv, DotNetType, Process
  <2>2. UNCHANGED <<conf, tables>>
    BY <1>3, Zenon DEF EventLost
  <2> QED
    BY <2>1, <2>2, InfosKept
<1>4. CASE OtherSample \/ UNCHANGED vars
  <2>1. UNCHANGED <<conf, tables>> /\ procs' = procs
    BY <1>4, Zenon DEF OtherSample, vars, runVars
  <2> QED
    BY <2>1, InfosKept
<1>5. ASSUME NEW p \in Pids, Reuse(p)
      PROVE  InfosInv'
  <2>1. \A q \in Pids :
            \/ procs'[q].sent = {} /\ procs'[q].gen # 1
            \/ /\ procs'[q].gen = procs[q].gen
               /\ procs'[q].sent \ procs'[q].missed \subseteq
                        procs[q].sent \ procs[q].missed
    <3>1. procs[p].gen + 1 # 1
      BY BoundsAssumption DEF DotNetInv, DotNetType, Process
    <3> QED
      BY <1>5, <3>1 DEF Reuse, DotNetInv, DotNetType, Process
  <2>2. UNCHANGED <<conf, tables>>
    BY <1>5, Zenon DEF Reuse
  <2> QED
    BY <2>1, <2>2, InfosKept
<1> QED
  BY <1>1, <1>2, <1>3, <1>4, <1>5, Zenon DEF Next

-----------------------------------------------------------------------------
(* The types of records, step by step.                                     *)

LEMMA TypesKept ==
    ASSUME DotNetInv, UNCHANGED <<conf, types>>,
           \A p \in Pids :
                \/ procs'[p].gen # 1
                \/ /\ procs'[p].gen = procs[p].gen
                   /\ procs[p].missed \subseteq procs'[p].missed
    PROVE  TypesInv'
<1> SUFFICES ASSUME NEW p \in Pids, NEW id \in Ids, NEW e \in Descriptions,
                    e = Described(p, id)', procs'[p].gen = 1,
                    Key(p, id) \in DOMAIN types'
             PROVE  /\ types'[Key(p, id)].name \in {"", e.name}
                    /\ "all" \in Route(id)' /\ id \notin procs'[p].missed
                        => OwnType(types'[Key(p, id)], e)
  BY Zenon DEF TypesInv, Key, OwnType
<1>1. Route(id)' = Route(id) /\ types' = types
  BY SameConf
<1>2. procs'[p].gen = procs[p].gen /\ procs[p].missed \subseteq procs'[p].missed
  OBVIOUS
<1>3. e = Described(p, id)
  BY <1>2 DEF Described
<1>4. /\ types[Key(p, id)].name \in {"", e.name}
      /\ "all" \in Route(id) /\ id \notin procs[p].missed
            => OwnType(types[Key(p, id)], e)
  BY <1>1, <1>2, <1>3, Zenon DEF DotNetInv, TypesInv
<1> QED
  BY <1>1, <1>2, <1>4, Zenon

LEMMA SharedMore ==
    ASSUME NEW f, NEW names, NEW blobs, FormatsSay(f, names, blobs), NEW key, NEW type,
           key[1] \in DOMAIN names \/ (key[1] \in Nat /\ key[1] >= TopBit),
           key[2] \in {0} \cup DOMAIN blobs,
           type.name = NameOf(names, key[1]), type.format = FormatOf(blobs, key[2]),
           key[1] \notin DOMAIN names => type.id = key[1] - TopBit
    PROVE  FormatsSay(Inserted(f, key, type), names, blobs)
<1>1. PICK g : g = Inserted(f, key, type)
  OBVIOUS
<1>2. DOMAIN g = DOMAIN f \cup {key} /\ g[key] = type
  BY <1>1 DEF Inserted
<1>3. \A j \in DOMAIN f : j # key => g[j] = f[j]
  BY <1>1 DEF Inserted
<1> SUFFICES ASSUME NEW k \in DOMAIN g, NEW x, x = g[k]
             PROVE  /\ k[1] \in DOMAIN names \/ (k[1] \in Nat /\ k[1] >= TopBit)
                    /\ k[2] \in {0} \cup DOMAIN blobs
                    /\ x.name = NameOf(names, k[1])
                    /\ x.format = FormatOf(blobs, k[2])
                    /\ k[1] \notin DOMAIN names => x.id = k[1] - TopBit
  BY <1>1, Zenon DEF FormatsSay
<1>4. CASE k = key
  BY <1>2, <1>4, Zenon
<1>5. CASE k # key
  <2>1. k \in DOMAIN f
    BY <1>2, <1>5
  <2>2. x = f[k]
    BY <1>3, <1>5, <2>1
  <2> QED
    BY <2>1, <2>2, Zenon DEF FormatsSay
<1> QED
  BY <1>4, <1>5

(* The type that a new pair of a process and an id gets, and the types     *)
(* that events share after it.                                             *)
Shared(f, key, id, info, names, blobs) ==
    IF key \in DOMAIN f THEN f[key]
    ELSE [id |-> id, name |-> NameOf(names, info.nameId),
          format |-> FormatOf(blobs, info.formatIndex)]
SaidBy(type, id, info, names, blobs) ==
    /\ type.name = NameOf(names, info.nameId)
    /\ type.format = FormatOf(blobs, info.formatIndex)
    /\ type.name = "" => type.id = id

LEMMA NewType ==
    ASSUME NEW f, NEW names \in Seq(Names), NEW blobs \in Seq(Blobs),
           Len(names) <= MaxEvents, FormatsSay(f, names, blobs),
           NEW id \in Nat, NEW info, info.nameId \in {0} \cup DOMAIN names,
           info.formatIndex \in {0} \cup DOMAIN blobs,
           NEW key, key = FormatKey(id, info), NEW type,
           type = Shared(f, key, id, info, names, blobs)
    PROVE  SaidBy(type, id, info, names, blobs) /\ FormatsSay(Inserted(f, key, type), names, blobs)
<1>1. 0 \notin DOMAIN names /\ (\A n \in DOMAIN names : n \in Nat /\ n < TopBit)
  BY BoundsAssumption, TopBitAssumption
<1>2. \A n \in DOMAIN names : names[n] \in Names
  OBVIOUS
<1>3. \A n \in DOMAIN names : names[n] # ""
  BY <1>2, Zenon DEF Names
<1>4. /\ key[1] = IF info.nameId # 0 THEN info.nameId ELSE TopBit + id
      /\ key[2] = info.formatIndex
  BY DEF FormatKey
<1>5. TopBit + id \in Nat /\ TopBit + id >= TopBit /\ (TopBit + id) - TopBit = id
      /\ TopBit + id \notin DOMAIN names
  <2>1. TopBit + id \in Nat /\ TopBit + id >= TopBit /\ (TopBit + id) - TopBit = id
    BY TopBitAssumption
  <2> QED
    BY <1>1, <2>1, TopBitAssumption
<1>6. NameOf(names, key[1]) = NameOf(names, info.nameId)
  BY <1>1, <1>4, <1>5 DEF NameOf
<1>7. /\ key[1] \in DOMAIN names \/ (key[1] \in Nat /\ key[1] >= TopBit)
      /\ key[1] \notin DOMAIN names => key[1] - TopBit = id
  BY <1>1, <1>4, <1>5
<1>8. /\ type.name = NameOf(names, key[1]) /\ type.format = FormatOf(blobs, key[2])
      /\ key[1] \notin DOMAIN names => type.id = key[1] - TopBit
  <2>1. CASE key \in DOMAIN f
    <3>1. type = f[key]
      BY <2>1, Zenon DEF Shared
    <3> QED
      BY <2>1, <3>1, Zenon DEF FormatsSay
  <2>2. CASE key \notin DOMAIN f
    <3>1. type = [id |-> id, name |-> NameOf(names, info.nameId),
                  format |-> FormatOf(blobs, info.formatIndex)]
      BY <2>2, Zenon DEF Shared
    <3>2. /\ type.id = id /\ type.name = NameOf(names, info.nameId)
          /\ type.format = FormatOf(blobs, info.formatIndex)
      BY <3>1
    <3> QED
      BY <1>4, <1>6, <1>7, <3>2, Zenon
  <2> QED
    BY <2>1, <2>2
<1>9. type.name = "" => type.id = id
  <2>1. key[1] \in DOMAIN names => NameOf(names, key[1]) # ""
    BY <1>3, Zenon DEF NameOf
  <2> QED
    BY <1>7, <1>8, <2>1, Zenon
<1>10. FormatsSay(Inserted(f, key, type), names, blobs)
  <2>1. key[2] \in {0} \cup DOMAIN blobs
    BY <1>4
  <2> QED
    BY <1>7, <1>8, <2>1, SharedMore, Zenon
<1> QED
  BY <1>4, <1>6, <1>8, <1>9, <1>10, Zenon DEF SaidBy

(* The shared types say the same in the tables that a step leaves.         *)
LEMMA FormatsGrow ==
    ASSUME KeepsTables, FormatsSay(formats, eventNames, layouts),
           NEW names, names = eventNames', NEW blobs, blobs = layouts',
           names \in Seq(Names), Len(names) <= MaxEvents,
           eventNames \in Seq(Names)
    PROVE  FormatsSay(formats, names, blobs)
<1>1. /\ 0 \notin DOMAIN names /\ 0 \notin DOMAIN eventNames
      /\ \A n \in DOMAIN names : n < TopBit
  BY BoundsAssumption, TopBitAssumption
<1> SUFFICES ASSUME NEW k \in DOMAIN formats
             PROVE  /\ k[1] \in DOMAIN names \/ (k[1] \in Nat /\ k[1] >= TopBit)
                    /\ k[2] \in {0} \cup DOMAIN blobs
                    /\ formats[k].name = NameOf(names, k[1])
                    /\ formats[k].format = FormatOf(blobs, k[2])
                    /\ k[1] \notin DOMAIN names => formats[k].id = k[1] - TopBit
  BY Zenon DEF FormatsSay
<1>2. /\ k[1] \in DOMAIN eventNames \/ (k[1] \in Nat /\ k[1] >= TopBit)
      /\ k[2] \in {0} \cup DOMAIN layouts
      /\ formats[k].name = NameOf(eventNames, k[1])
      /\ formats[k].format = FormatOf(layouts, k[2])
      /\ k[1] \notin DOMAIN eventNames => formats[k].id = k[1] - TopBit
  BY Zenon DEF FormatsSay
<1>3. /\ k[2] \in {0} \cup DOMAIN blobs
      /\ FormatOf(blobs, k[2]) = FormatOf(layouts, k[2])
  BY <1>2, Zenon DEF KeepsTables
<1>4. CASE k[1] \in DOMAIN eventNames
  <2>1. /\ k[1] \in {0} \cup DOMAIN names
        /\ NameOf(names, k[1]) = NameOf(eventNames, k[1])
    BY <1>4, Zenon DEF KeepsTables
  <2>2. k[1] \in DOMAIN names
    BY <1>1, <1>4, <2>1
  <2> QED
    BY <1>2, <1>3, <2>1, <2>2, Zenon
<1>5. CASE k[1] \notin DOMAIN eventNames
  <2>1. k[1] \in Nat /\ k[1] >= TopBit
    BY <1>2, <1>5
  <2>2. k[1] \notin DOMAIN names
    BY <1>1, <2>1, TopBitAssumption
  <2>3. NameOf(names, k[1]) = "" /\ NameOf(eventNames, k[1]) = ""
    BY <1>5, <2>2, Zenon DEF NameOf
  <2> QED
    BY <1>2, <1>3, <1>5, <2>1, <2>2, <2>3, Zenon
<1> QED
  BY <1>4, <1>5

(* What the handler takes for the event it has: of the first process with  *)
(* an id it is the event's own or nothing, and all of it when the metadata *)
(* came.                                                                   *)
LEMMA InfoOwn ==
    ASSUME InfosInv', UNCHANGED conf, eventNames' \in Seq(Names),
           NEW q \in Pids, NEW i \in Ids, NEW t \in Points,
           NEW d \in Descriptions, d = Described(q, i),
           procs'[q].gen = procs[q].gen, procs'[q].gen = 1,
           NEW info, info = InfoFor(infos'[t], Key(q, i))
    PROVE  /\ info.version \in {NoValue, d.version}
           /\ NameOf(eventNames', info.nameId) \in {"", d.name}
<1>1. d = Described(q, i)'
  BY DEF Described
<1>2. InfosAt(q, i, d)
  BY <1>1, InfosNext, Zenon
<1>3. CASE Key(q, i) \in DOMAIN infos'[t]
  <2>1. info = infos'[t][Key(q, i)]
    BY <1>3, Zenon DEF InfoFor
  <2> QED
    BY <1>2, <1>3, <2>1, Zenon DEF InfosAt
<1>4. CASE Key(q, i) \notin DOMAIN infos'[t]
  <2>1. info = EmptyInfo
    BY <1>4, Zenon DEF InfoFor
  <2>2. EmptyInfo.version = NoValue /\ EmptyInfo.nameId = 0
    BY DEF EmptyInfo
  <2>3. 0 \notin DOMAIN eventNames'
    BY Unknown
  <2>4. NameOf(eventNames', 0) = ""
    BY <2>3, Zenon DEF NameOf
  <2> QED
    BY <2>1, <2>2, <2>4, Zenon
<1> QED
  BY <1>3, <1>4

LEMMA InfoWhole ==
    ASSUME InfosInv', UNCHANGED conf, NEW q \in Pids, NEW i \in Ids, NEW t \in Points,
           NEW d \in Descriptions, d = Described(q, i), procs'[q].gen = procs[q].gen,
           NEW info, info = InfoFor(infos'[t], Key(q, i)),
           "all" \in Route(i), t = "all", i \in procs'[q].sent \ procs'[q].missed
    PROVE  Says(info, d, eventNames', layouts')
<1>1. d = Described(q, i)'
  BY DEF Described
<1>2. InfosAt(q, i, d)
  BY <1>1, InfosNext, Zenon
<1>3. /\ Key(q, i) \in DOMAIN infos'["all"]
      /\ Says(infos'["all"][Key(q, i)], d, eventNames', layouts')
  BY <1>2, Zenon DEF InfosAt
<1> QED
  BY <1>3, Zenon DEF InfoFor

(* The ids of what the handler takes are those of the tables.              *)
LEMMA InfoRange ==
    ASSUME TablesInv', NEW t \in Points, NEW k, NEW info, info = InfoFor(infos'[t], k)
    PROVE  /\ info.nameId \in {0} \cup DOMAIN eventNames'
           /\ info.formatIndex \in {0} \cup DOMAIN layouts'
<1>1. CASE k \in DOMAIN infos'[t]
  <2>1. info = infos'[t][k]
    BY <1>1, Zenon DEF InfoFor
  <2> QED
    BY <1>1, <2>1, Zenon DEF TablesInv
<1>2. CASE k \notin DOMAIN infos'[t]
  <2>1. info = EmptyInfo
    BY <1>2, Zenon DEF InfoFor
  <2>2. EmptyInfo.nameId = 0 /\ EmptyInfo.formatIndex = 0
    BY DEF EmptyInfo
  <2> QED
    BY <2>1, <2>2, Zenon
<1> QED
  BY <1>1, <1>2

(* The samples of the subscribers in X, then those of the calls.           *)
Handed(X, t, type, info, o) ==
    SetToSeq({Sample(s, 0, PlainType, points[t].stacks, o) : s \in X})
        \o SetToSeq({Sample(0, c, type, RecordStack(t, callbacks[c], info), o) :
                        c \in DOMAIN callbacks})

(* The handler of an event, as the steps below use it.                     *)
LEMMA Arrival ==
    ASSUME DotNetInv,
           NEW q \in Pids, NEW i \in Ids, NEW t \in Points, NEW meta \in BOOLEAN,
           NEW activity, NEW cut \in Cuts, EventArrives(q, i, t, meta, activity, cut)
    PROVE  LET info == InfoFor(infos'[t], Key(q, i))
               o == [version |-> info.version, activity |-> activity]
               type == TypeFor(q, i, info, eventNames', layouts')
           IN /\ phase = "run" /\ t \in Route(i) /\ UNCHANGED conf
              /\ i \in procs'[q].sent
              /\ \A p \in Pids : /\ procs'[p].gen = procs[p].gen
                                 /\ procs[p].missed \subseteq procs'[p].missed
              /\ last' = Wrote(q, i, t, activity, FALSE)
              /\ types' = IF callbacks = <<>> THEN types
                          ELSE Inserted(types, Key(q, i), type)
              /\ formats' = IF callbacks = <<>> \/ Key(q, i) \in DOMAIN types
                            THEN formats
                            ELSE Inserted(formats, FormatKey(i, info), type)
              /\ out' = Handed(Subscribers(t, i, info), t, type, info, o)
<1> DEFINE ext == Extension(q, i, meta, activity, cut)
<1>1. LabelData(ext, "activity", NoValue) = activity
  BY ActivityRead
<1>2. /\ phase = "run" /\ t \in Route(i) /\ UNCHANGED conf
      /\ last' = Wrote(q, i, t, activity, FALSE)
      /\ Handle(t, q, i, ext)
      /\ procs' = [procs EXCEPT ![q].sent = @ \cup {i},
                                ![q].missed = IF cut > 0 THEN @ \cup {i} ELSE @]
  BY Zenon DEF EventArrives, Happens
<1>3. i \in procs'[q].sent
  BY <1>2 DEF DotNetInv, DotNetType, Process
<1>4. \A p \in Pids : /\ procs'[p].gen = procs[p].gen
                      /\ procs[p].missed \subseteq procs'[p].missed
  BY <1>2 DEF DotNetInv, DotNetType, Process
<1> HIDE DEF ext
<1> DEFINE info == InfoFor(infos'[t], Key(q, i))
           o == [version |-> info.version, activity |-> activity]
           type == TypeFor(q, i, info, eventNames', layouts')
<1>5. /\ eventNames' = IF HasMeta(ext) THEN NewNames(t, Meta(ext)) ELSE eventNames
      /\ layouts' = IF HasMeta(ext) THEN NewLayouts(t, Meta(ext)) ELSE layouts
      /\ infos' = IF HasMeta(ext)
                  THEN NewInfos(t, q, i, InfoOf(t, Meta(ext), eventNames', layouts'))
                  ELSE infos
  BY <1>2, Zenon DEF Handle
<1>6. /\ types' = IF callbacks = <<>> THEN types
                  ELSE Inserted(types, Key(q, i), type)
      /\ formats' = IF callbacks = <<>> \/ Key(q, i) \in DOMAIN types
                    THEN formats
                    ELSE Inserted(formats, FormatKey(i, info), type)
      /\ out' = Handed(Subscribers(t, i, info), t, type, info, o)
  BY <1>1, <1>2, <1>5, Zenon DEF Handle, Handed
<1> QED
  BY <1>2, <1>3, <1>4, <1>6, Zenon

LEMMA TablesStay ==
    ASSUME DotNetInv,
           NEW q \in Pids, NEW i \in Ids, NEW t \in Points, NEW meta \in BOOLEAN,
           NEW activity, NEW cut \in Cuts, EventArrives(q, i, t, meta, activity, cut)
    PROVE  TablesInv' /\ KeepsTables
<1>1. PICK d : d = Described(q, i)
  OBVIOUS
<1>2. /\ eventNames' \in Seq(Names) /\ Len(eventNames') <= Len(eventNames) + 1
      /\ layouts' \in Seq(Blobs) /\ KeepsTables
  BY <1>1, TablesArrive, Zenon
<1>3. PICK info : Arrives(q, i, t, meta, info, d)
  BY <1>1, TablesArrive, Zenon
<1>4. count' \in 0 .. MaxEvents /\ Len(eventNames') <= count'
  <2>1. count < MaxEvents /\ count' = count + 1
    BY Zenon DEF EventArrives, Happens
  <2>2. /\ count \in 0 .. MaxEvents /\ Len(eventNames) <= count
        /\ Len(eventNames) \in Nat /\ Len(eventNames') \in Nat
    BY <1>2 DEF DotNetInv, TablesInv
  <2> QED
    BY <1>2, <2>1, <2>2, BoundsAssumption
<1>5. ASSUME NEW u \in Points, NEW k \in DOMAIN infos'[u]
      PROVE  /\ infos'[u][k].nameId \in {0} \cup DOMAIN eventNames'
             /\ infos'[u][k].formatIndex \in {0} \cup DOMAIN layouts'
  <2>1. CASE k \in DOMAIN infos[u] /\ infos'[u][k] = infos[u][k]
    <3>1. /\ infos[u][k].nameId \in {0} \cup DOMAIN eventNames
          /\ infos[u][k].formatIndex \in {0} \cup DOMAIN layouts
      BY <2>1, Zenon DEF DotNetInv, TablesInv
    <3> QED
      BY <1>2, <2>1, <3>1, Zenon DEF KeepsTables
  <2>2. CASE meta /\ infos'[u][k] = info
    BY <1>3, <2>2, Zenon DEF Arrives
  <2>3. CASE meta
    <3>1. infos' = [infos EXCEPT ![t] = Inserted(infos[t], Key(q, i), info)]
      BY <1>3, <2>3, Zenon DEF Arrives
    <3>2. DOMAIN infos = Points
      BY DEF DotNetInv, DotNetType
    <3>3. CASE u # t
      BY <2>1, <3>1, <3>2, <3>3
    <3>4. CASE u = t
      <4>1. infos'[u] = Inserted(infos[u], Key(q, i), info)
        BY <3>1, <3>2, <3>4
      <4>2. \/ k = Key(q, i) /\ infos'[u][k] = info
            \/ k \in DOMAIN infos[u] /\ infos'[u][k] = infos[u][k]
        BY <4>1 DEF Inserted
      <4> QED
        BY <2>1, <2>2, <2>3, <4>2
    <3> QED
      BY <3>3, <3>4
  <2>4. CASE ~ meta
    <3>1. infos' = infos
      BY <1>3, <2>4, Zenon DEF Arrives
    <3> QED
      BY <2>1, <3>1
  <2> QED
    BY <2>3, <2>4
<1> QED
  BY <1>2, <1>4, <1>5, Zenon DEF TablesInv

(* The type of the records of an event: the one it had, or one of the name *)
(* and the format that the handler knows; and the types that are shared.   *)
LEMMA TypeArrives ==
    ASSUME DotNetInv, TablesInv',
           NEW q \in Pids, NEW i \in Ids, NEW t \in Points, NEW meta \in BOOLEAN,
           NEW activity, NEW cut \in Cuts, EventArrives(q, i, t, meta, activity, cut),
           NEW info, info = InfoFor(infos'[t], Key(q, i)),
           NEW type, type = TypeFor(q, i, info, eventNames', layouts')
    PROVE  /\ types' = IF callbacks = <<>> THEN types ELSE Inserted(types, Key(q, i), type)
           /\ Key(q, i) \in DOMAIN types => type = types[Key(q, i)]
           /\ Key(q, i) \notin DOMAIN types =>
                    SaidBy(type, i, info, eventNames', layouts')
           /\ FormatsInv'
<1>1. /\ types' = IF callbacks = <<>> THEN types ELSE Inserted(types, Key(q, i), type)
      /\ formats' = IF callbacks = <<>> \/ Key(q, i) \in DOMAIN types THEN formats
                    ELSE Inserted(formats, FormatKey(i, info), type)
  BY Arrival, Zenon
<1>2. FormatsInv' <=> FormatsSay(formats', eventNames', layouts')
  BY DEF FormatsInv, FormatsSay, NameOf, FormatOf
<1>3. /\ eventNames' \in Seq(Names) /\ layouts' \in Seq(Blobs)
      /\ Len(eventNames') <= MaxEvents
  BY BoundsAssumption DEF TablesInv
<1>4. FormatsSay(formats, eventNames', layouts')
  <2>1. KeepsTables
    BY TablesStay, Zenon
  <2>2. eventNames \in Seq(Names) /\ FormatsSay(formats, eventNames, layouts)
    BY Zenon DEF DotNetInv, TablesInv, FormatsInv
  <2> QED
    BY <1>3, <2>1, <2>2, FormatsGrow, Zenon
<1>5. CASE Key(q, i) \in DOMAIN types
  <2>1. type = types[Key(q, i)]
    BY <1>5, Zenon DEF TypeFor
  <2>2. formats' = formats
    BY <1>1, <1>5, Zenon
  <2> QED
    BY <1>1, <1>2, <1>4, <1>5, <2>1, <2>2, Zenon
<1>6. CASE Key(q, i) \notin DOMAIN types
  <2>1. PICK key : key = FormatKey(i, info)
    OBVIOUS
  <2>2. type = Shared(formats, key, i, info, eventNames', layouts')
    BY <1>6, <2>1, Zenon DEF TypeFor, Shared
  <2>3. /\ info.nameId \in {0} \cup DOMAIN eventNames'
        /\ info.formatIndex \in {0} \cup DOMAIN layouts'
    BY InfoRange, Zenon
  <2>4. PICK names, blobs, f : names = eventNames' /\ blobs = layouts' /\ f = formats
    OBVIOUS
  <2>5. /\ names \in Seq(Names) /\ blobs \in Seq(Blobs) /\ Len(names) <= MaxEvents
        /\ FormatsSay(f, names, blobs)
        /\ info.nameId \in {0} \cup DOMAIN names
        /\ info.formatIndex \in {0} \cup DOMAIN blobs
        /\ type = Shared(f, key, i, info, names, blobs)
    BY <1>3, <1>4, <2>2, <2>3, <2>4, Zenon
  <2>6. i \in Nat
    BY NumbersAssumption
  <2>7. SaidBy(type, i, info, names, blobs) /\ FormatsSay(Inserted(f, key, type), names, blobs)
    BY <2>1, <2>5, <2>6, NewType, Zenon
  <2>8. formats' = f \/ formats' = Inserted(f, key, type)
    BY <1>1, <2>1, <2>4, Zenon
  <2> QED
    BY <1>1, <1>2, <1>4, <1>6, <2>4, <2>7, <2>8, Zenon
<1> QED
  BY <1>5, <1>6

LEMMA TypesArrive ==
    ASSUME DotNetInv, InfosInv', TablesInv',
           NEW q \in Pids, NEW i \in Ids, NEW t \in Points, NEW meta \in BOOLEAN,
           NEW activity, NEW cut \in Cuts, EventArrives(q, i, t, meta, activity, cut)
    PROVE  TypesInv' /\ TypeIdsInv'
<1>1. PICK info : info = InfoFor(infos'[t], Key(q, i))
  OBVIOUS
<1>2. PICK type : type = TypeFor(q, i, info, eventNames', layouts')
  OBVIOUS
<1>3. /\ t \in Route(i) /\ UNCHANGED conf /\ i \in procs'[q].sent
      /\ \A p \in Pids : /\ procs'[p].gen = procs[p].gen
                         /\ procs[p].missed \subseteq procs'[p].missed
  BY Arrival, Zenon
<1>4. /\ types' = IF callbacks = <<>> THEN types ELSE Inserted(types, Key(q, i), type)
      /\ Key(q, i) \in DOMAIN types => type = types[Key(q, i)]
      /\ Key(q, i) \notin DOMAIN types => SaidBy(type, i, info, eventNames', layouts')
  BY <1>1, <1>2, TypeArrives, Zenon
<1>5. CASE callbacks = <<>>
  <2>1. types' = types
    BY <1>4, <1>5
  <2>2. TypesInv'
    BY <1>3, <2>1, TypesKept
  <2>3. TypeIdsInv'
    BY <2>1, Zenon DEF DotNetInv, TypeIdsInv, Key
  <2> QED
    BY <2>2, <2>3
<1>6. CASE callbacks # <<>>
  <2>1. types' = Inserted(types, Key(q, i), type)
    BY <1>4, <1>6, Zenon
  <2>2. /\ DOMAIN types' = DOMAIN types \cup {Key(q, i)} /\ types'[Key(q, i)] = type
        /\ \A k \in DOMAIN types : k # Key(q, i) => types'[k] = types[k]
    BY <2>1 DEF Inserted
  <2>3. \A p \in Pids, id \in Ids : Key(p, id) = Key(q, i) <=> p = q /\ id = i
    BY DEF Key
  <2>4. TypeIdsInv'
    <3> SUFFICES ASSUME NEW p \in Pids, NEW id \in Ids, Key(p, id) \in DOMAIN types',
                        types'[Key(p, id)].name = ""
                 PROVE  types'[Key(p, id)].id = id
      BY Zenon DEF TypeIdsInv, Key
    <3>1. CASE Key(p, id) = Key(q, i)
      <4>1. types'[Key(q, i)] = type /\ id = i /\ type.name = ""
        BY <2>2, <2>3, <3>1, Zenon
      <4>2. CASE Key(q, i) \in DOMAIN types
        BY <1>4, <3>1, <4>1, <4>2, Zenon DEF DotNetInv, TypeIdsInv
      <4>3. CASE Key(q, i) \notin DOMAIN types
        BY <1>4, <3>1, <4>1, <4>3, Zenon DEF SaidBy
      <4> QED
        BY <4>2, <4>3
    <3>2. CASE Key(p, id) # Key(q, i)
      <4>1. Key(p, id) \in DOMAIN types /\ types'[Key(p, id)] = types[Key(p, id)]
        BY <2>2, <3>2, Zenon
      <4> QED
        BY <4>1, Zenon DEF DotNetInv, TypeIdsInv
    <3> QED
      BY <3>1, <3>2
  <2>5. TypesInv'
    <3> SUFFICES ASSUME NEW p \in Pids, NEW id \in Ids, NEW e \in Descriptions,
                        e = Described(p, id)', procs'[p].gen = 1,
                        Key(p, id) \in DOMAIN types'
                 PROVE  /\ types'[Key(p, id)].name \in {"", e.name}
                        /\ "all" \in Route(id)' /\ id \notin procs'[p].missed
                            => OwnType(types'[Key(p, id)], e)
      BY Zenon DEF TypesInv, Key, OwnType
    <3>1. Route(id)' = Route(id)
      BY <1>3, SameConf
    <3>2. e = Described(p, id) /\ procs[p].gen = 1
      BY <1>3 DEF Described
    <3>3. Key(p, id) \in DOMAIN types =>
              /\ types[Key(p, id)].name \in {"", e.name}
              /\ "all" \in Route(id) /\ id \notin procs'[p].missed
                      => OwnType(types[Key(p, id)], e)
      <4>1. Key(p, id) \in DOMAIN types =>
              /\ types[Key(p, id)].name \in {"", e.name}
              /\ "all" \in Route(id) /\ id \notin procs[p].missed
                      => OwnType(types[Key(p, id)], e)
        BY <3>2, Zenon DEF DotNetInv, TypesInv
      <4>2. id \notin procs'[p].missed => id \notin procs[p].missed
        BY <1>3
      <4> QED
        BY <4>1, <4>2, Zenon
    <3>4. CASE Key(p, id) # Key(q, i)
      BY <2>2, <3>1, <3>3, <3>4, Zenon
    <3>5. CASE Key(p, id) = Key(q, i) /\ Key(q, i) \in DOMAIN types
      BY <1>4, <2>2, <3>1, <3>3, <3>5, Zenon
    <3>6. CASE Key(p, id) = Key(q, i) /\ Key(q, i) \notin DOMAIN types
      <4>1. p = q /\ id = i
        BY <2>3, <3>6
      <4>2. e = Described(q, i) /\ procs'[q].gen = 1 /\ procs'[q].gen = procs[q].gen
        BY <1>3, <3>2, <4>1
      <4>3. NameOf(eventNames', info.nameId) \in {"", e.name}
        <5>1. eventNames' \in Seq(Names)
          BY Zenon DEF TablesInv
        <5> QED
          BY <1>1, <1>3, <4>2, <5>1, InfoOwn, Zenon
      <4>4. ASSUME "all" \in Route(id)', id \notin procs'[p].missed
            PROVE  OwnType(type, e)
        <5>1. t = "all"
          BY <1>3, <3>1, <4>1, <4>4, OneRoute
        <5>2. "all" \in Route(i) /\ i \in procs'[q].sent \ procs'[q].missed
          BY <1>3, <3>1, <4>1, <4>4
        <5>3. Says(info, e, eventNames', layouts')
          BY <1>1, <1>3, <4>2, <5>1, <5>2, InfoWhole, Zenon
        <5> QED
          BY <1>4, <3>6, <5>3, Zenon DEF OwnType, Says, SaidBy
      <4>5. type.name \in {"", e.name}
        BY <1>4, <3>6, <4>3, Zenon DEF SaidBy
      <4> QED
        BY <2>2, <3>6, <4>4, <4>5, Zenon
    <3> QED
      BY <3>4, <3>5, <3>6
  <2> QED
    BY <2>4, <2>5
<1> QED
  BY <1>5, <1>6

(* The tables, the types and what the types share.                         *)
LEMMA TypesStep ==
    DotNetInv /\ [Next]_vars => TablesInv' /\ FormatsInv' /\ TypesInv' /\ TypeIdsInv'
<1> SUFFICES ASSUME DotNetInv, [Next]_vars
             PROVE  TablesInv' /\ FormatsInv' /\ TypesInv' /\ TypeIdsInv'
  OBVIOUS
<1>i. InfosInv' /\ count \in 0 .. MaxEvents
  BY InfosStep DEF DotNetInv, TablesInv
<1>1. ASSUME NEW id, NEW stacks, NewEventById(id, stacks) \/ NewEventByName(id)
                                    \/ RecordProvider(id) \/ SettingsHook
      PROVE  TablesInv' /\ FormatsInv' /\ TypesInv' /\ TypeIdsInv'
  <2>1. phase = "script" /\ UNCHANGED runVars
    BY <1>1, Zenon DEF NewEventById, NewEventByName, RecordProvider, SettingsHook
  <2> QED
    BY <2>1, ScriptKeeps
<1>2. ASSUME NEW p \in Pids, NEW id \in Ids, NEW t \in Points, NEW meta \in BOOLEAN,
             NEW activity \in {NoValue, 1}, NEW cut \in Cuts,
             EventArrives(p, id, t, meta, activity, cut)
      PROVE  TablesInv' /\ FormatsInv' /\ TypesInv' /\ TypeIdsInv'
  <2>1. TablesInv'
    BY <1>2, TablesStay, Zenon
  <2>2. FormatsInv'
    BY <1>2, <2>1, TypeArrives, Zenon
  <2>3. TypesInv' /\ TypeIdsInv'
    BY <1>i, <1>2, <2>1, TypesArrive, Zenon
  <2> QED
    BY <2>1, <2>2, <2>3
<1>3. ASSUME NEW p \in Pids, NEW id \in Ids, EventLost(p, id)
      PROVE  TablesInv' /\ FormatsInv' /\ TypesInv' /\ TypeIdsInv'
  <2>1. \A q \in Pids : /\ procs'[q].gen = procs[q].gen
                        /\ procs[q].missed \subseteq procs'[q].missed
    BY <1>3 DEF EventLost, DotNetInv, DotNetType, Process
  <2>2. UNCHANGED <<conf, tables>> /\ count < MaxEvents /\ count' = count + 1
    BY <1>3, Zenon DEF EventLost, Happens
  <2>3. count' \in count .. MaxEvents /\ types' = types
    BY <1>i, <2>2, BoundsAssumption DEF tables
  <2> QED
    BY <2>1, <2>2, <2>3, TypesKept, TablesKept
<1>4. CASE OtherSample \/ UNCHANGED vars
  <2>1. UNCHANGED <<conf, tables>> /\ procs' = procs /\ count' = count
    BY <1>4, Zenon DEF OtherSample, vars, runVars
  <2>2. count' \in count .. MaxEvents /\ types' = types
    BY <1>i, <2>1, BoundsAssumption DEF tables
  <2> QED
    BY <2>1, <2>2, TypesKept, TablesKept
<1>5. ASSUME NEW p \in Pids, Reuse(p)
      PROVE  TablesInv' /\ FormatsInv' /\ TypesInv' /\ TypeIdsInv'
  <2>1. \A q \in Pids :
            \/ procs'[q].gen # 1
            \/ /\ procs'[q].gen = procs[q].gen
               /\ procs[q].missed \subseteq procs'[q].missed
    <3>1. procs[p].gen + 1 # 1
      BY BoundsAssumption DEF DotNetInv, DotNetType, Process
    <3> QED
      BY <1>5, <3>1 DEF Reuse, DotNetInv, DotNetType, Process
  <2>2. UNCHANGED <<conf, tables>> /\ count < MaxEvents /\ count' = count + 1
    BY <1>5, Zenon DEF Reuse, Happens
  <2>3. count' \in count .. MaxEvents /\ types' = types
    BY <1>i, <2>2, BoundsAssumption DEF tables
  <2> QED
    BY <2>1, <2>2, <2>3, TypesKept, TablesKept
<1> QED
  BY <1>1, <1>2, <1>3, <1>4, <1>5, Zenon DEF Next

-----------------------------------------------------------------------------
(* The theorem.                                                            *)

(* What the handler knows of an event is what its process said of it: the  *)
(* tables of the tracepoints, of the names and of the formats, the types   *)
(* of the records and the types that processes share, which say what their *)
(* keys stand for (register_dotnet_tracepoint, record_provider).           *)
THEOREM DotNetInvariant == Spec => []DotNetInv
<1>1. Init => DotNetInv
  <2> SUFFICES ASSUME Init
               PROVE  DotNetInv
    OBVIOUS
  <2>1. DotNetType
    <3>1. 1 \in 1 .. MaxGen
      BY BoundsAssumption
    <3>2. procs \in [Pids -> Process]
      BY <3>1 DEF Init, Process
    <3>3. /\ phase \in {"script", "run"} /\ subs = <<>> /\ callbacks = <<>>
          /\ cbStacks \in BOOLEAN /\ DOMAIN infos = Points
      BY DEF Init
    <3> QED
      BY <3>2, <3>3 DEF DotNetType
  <2>2. ScriptInv /\ PointsInv /\ over = NoOver
    BY DEF Init, ScriptInv, PointsInv, FirstProcess
  <2>3. \A p \in Pids, id \in Ids :
            /\ id \notin procs[p].sent /\ Key(p, id) \notin DOMAIN types
            /\ \A t \in Points : Key(p, id) \notin DOMAIN infos[t]
    BY DEF Init
  <2>4. InfosInv /\ TypesInv /\ TypeIdsInv
    BY <2>3, Zenon DEF InfosInv, TypesInv, TypeIdsInv
  <2>5. TablesInv
    <3>1. /\ eventNames = <<>> /\ layouts = <<>> /\ count = 0
          /\ \A t \in Points : DOMAIN infos[t] = {}
      BY DEF Init
    <3> QED
      BY <3>1, BoundsAssumption DEF TablesInv
  <2>6. FormatsInv
    <3>1. \A k : k \notin DOMAIN formats
      BY DEF Init
    <3> QED
      BY <3>1, Zenon DEF FormatsInv, FormatsSay
  <2> QED
    BY <2>1, <2>2, <2>4, <2>5, <2>6 DEF DotNetInv
<1>2. DotNetInv /\ [Next]_vars => DotNetInv'
  BY DotNetTypeStep, ScriptStep, PointsStep, OverStep, InfosStep, TypesStep DEF DotNetInv
<1> QED
  BY <1>1, <1>2, PTL DEF Spec

-----------------------------------------------------------------------------
(* Who gets a sample.                                                      *)

LEMMA PointsAre ==
    ASSUME DotNetInv, phase = "run"
    PROVE  /\ points["plain"].ids = IdsWith(FALSE) /\ points["stacks"].ids = IdsWith(TRUE)
           /\ points["plain"].stacks = FALSE /\ points["stacks"].stacks = TRUE
           /\ points["all"].stacks = cbStacks
<1>1. points = TracepointsOf
  BY DEF DotNetInv, PointsInv
<1>2. /\ points["plain"] = Point(IdsWith(FALSE) # {}, IdsWith(FALSE), FALSE)
      /\ points["stacks"] = Point(IdsWith(TRUE) # {}, IdsWith(TRUE), TRUE)
  BY <1>1, Zenon DEF TracepointsOf, Points
<1>3. PICK on : points["all"] = Point(on, {}, cbStacks)
  BY <1>1, Zenon DEF TracepointsOf, Points
<1>4. /\ points["plain"].ids = IdsWith(FALSE) /\ points["stacks"].ids = IdsWith(TRUE)
      /\ points["plain"].stacks = FALSE /\ points["stacks"].stacks = TRUE
  BY <1>2 DEF Point
<1>5. points["all"].stacks = cbStacks
  BY <1>3 DEF Point
<1> QED
  BY <1>4, <1>5

(* An id is listed by a tracepoint when someone asked for it, with or      *)
(* without stacks as the tracepoint says.                                  *)
LEMMA Listed ==
    ASSUME DotNetInv, phase = "run", NEW i, NEW t, t \in Route(i)
    PROVE  /\ t \in Points
           /\ t = "all" => ById(i) = {}
           /\ t # "all" => \E s \in ById(i) : subs[s].stacks = points[t].stacks
<1>1. /\ points["plain"].ids = IdsWith(FALSE) /\ points["stacks"].ids = IdsWith(TRUE)
      /\ points["plain"].stacks = FALSE /\ points["stacks"].stacks = TRUE
  BY PointsAre
<1>2. \A s \in Proxies : subs[s].stacks \in BOOLEAN
  <2>1. subs \in Seq(Subscription)
    BY DEF DotNetInv, DotNetType
  <2>2. \A s \in Proxies : subs[s] \in Subscription
    BY <2>1, ElementOfSeq, LenProperties DEF Proxies
  <2> QED
    BY <2>2, Zenon DEF Subscription
<1>3. CASE t = "all"
  <2>1. i \notin points["plain"].ids /\ i \notin points["stacks"].ids
    BY <1>3, Zenon DEF Route
  <2>2. \A s \in ById(i) : i \in IdsWith(subs[s].stacks)
    BY Zenon DEF ById, IdsWith
  <2>3. \A s \in ById(i) : subs[s].stacks = FALSE \/ subs[s].stacks = TRUE
    BY <1>2, Zenon DEF ById
  <2>4. ById(i) = {}
    BY <1>1, <2>1, <2>2, <2>3, Zenon
  <2> QED
    BY <1>3, <2>4 DEF Points
<1>4. CASE t # "all"
  <2>1. t \in {"plain", "stacks"} /\ i \in points[t].ids
    BY <1>4, Zenon DEF Route
  <2>2. PICK b : points[t].ids = IdsWith(b) /\ points[t].stacks = b
    BY <1>1, <2>1
  <2>3. \E s \in ById(i) : subs[s].stacks = b
    BY <2>1, <2>2, Zenon DEF IdsWith, ById
  <2> QED
    BY <1>4, <2>1, <2>2, <2>3 DEF Points
<1> QED
  BY <1>3, <1>4

LEMMA Asked ==
    ASSUME DotNetInv, phase = "run", NEW i, NEW t, t \in Route(i), NEW info
    PROVE  /\ Subscribers(t, i, info) \subseteq Proxies
           /\ ById(i) # {} => Subscribers(t, i, info) = ById(i)
           /\ ById(i) = {} => /\ t = "all"
                              /\ \A s \in Subscribers(t, i, info) : subs[s].by = "name"
<1>1. t = "all" => ById(i) = {}
  BY Listed
<1>2. t # "all" => ById(i) # {}
  BY Listed
<1>3. ById(i) \subseteq Proxies /\ \A name : ByName(name) \subseteq Proxies
  BY DEF ById, ByName
<1>4. \A name : \A s \in ByName(name) : subs[s].by = "name"
  BY DEF ByName
<1> QED
  BY <1>1, <1>2, <1>3, <1>4 DEF Subscribers

LEMMA ProxiedFinite ==
    ASSUME NEW X, IsFiniteSet(X), NEW stack, NEW o,
           NEW S, S = {Sample(s, 0, PlainType, stack, o) : s \in X}
    PROVE  IsFiniteSet(S)
<1> DEFINE f == [s \in X |-> Sample(s, 0, PlainType, stack, o)]
<1>1. f \in Surjection(X, S)
  BY Zenon DEF Surjection
<1> HIDE DEF f
<1> QED
  BY <1>1, FS_Surjection

LEMMA RecordedFinite ==
    ASSUME DotNetType, NEW t, NEW type, NEW info, NEW o,
           NEW S, S = {Sample(0, c, type, RecordStack(t, callbacks[c], info), o) :
                        c \in DOMAIN callbacks}
    PROVE  IsFiniteSet(S)
<1> DEFINE f == [c \in DOMAIN callbacks |->
                    Sample(0, c, type, RecordStack(t, callbacks[c], info), o)]
<1>1. f \in Surjection(DOMAIN callbacks, S)
  BY Zenon DEF Surjection
<1> HIDE DEF f
<1>2. IsFiniteSet(DOMAIN callbacks)
  <2>1. Len(callbacks) \in Nat /\ DOMAIN callbacks = 1 .. Len(callbacks)
    BY DEF DotNetType
  <2> QED
    BY <2>1, FS_Interval
<1> QED
  BY <1>1, <1>2, FS_Surjection

(* Each of them is there, and a subscriber has one.                        *)
OneEach(r, X, t, type, info, o) ==
    /\ \A k \in DOMAIN r :
        \/ \E s \in X : r[k] = Sample(s, 0, PlainType, points[t].stacks, o)
        \/ \E c \in DOMAIN callbacks :
            r[k] = Sample(0, c, type, RecordStack(t, callbacks[c], info), o)
    /\ \A s \in X : \E k \in DOMAIN r : \A j \in DOMAIN r : r[j].proxy = s <=> j = k

(* What an event hands over: the samples of its subscribers, one each, and *)
(* those of the record_provider calls.                                     *)
LEMMA HandedOver ==
    ASSUME DotNetType, NEW X, X \subseteq Proxies, NEW t, NEW type, NEW info, NEW o,
           NEW r, r = Handed(X, t, type, info, o)
    PROVE  OneEach(r, X, t, type, info, o)
<1> DEFINE One(s) == Sample(s, 0, PlainType, points[t].stacks, o)
           Rec(c) == Sample(0, c, type, RecordStack(t, callbacks[c], info), o)
           S == {One(s) : s \in X}
           T == {Rec(c) : c \in DOMAIN callbacks}
<1>1. \A s : One(s).proxy = s
  BY Zenon DEF Sample
<1>2. \A c : Rec(c).proxy = 0
  BY Zenon DEF Sample
<1>3. X \subseteq Nat \ {0} /\ IsFiniteSet(X)
  <2>1. Proxies = 1 .. Len(subs) /\ Len(subs) \in Nat
    BY DEF Proxies, DotNetType
  <2>2. IsFiniteSet(Proxies)
    BY <2>1, FS_Interval
  <2>3. IsFiniteSet(X)
    BY <2>2, FS_Subset
  <2> QED
    BY <2>1, <2>3
<1>4. IsFiniteSet(S)
  <2>1. IsFiniteSet(X)
    BY <1>3
  <2>2. \A stack, Z : Z = {Sample(s, 0, PlainType, stack, o) : s \in X} => IsFiniteSet(Z)
    BY <2>1, ProxiedFinite
  <2> QED
    BY <2>2, Zenon
<1>5. IsFiniteSet(T)
  <2>1. \A Z : Z = {Sample(0, c, type, RecordStack(t, callbacks[c], info), o) :
                        c \in DOMAIN callbacks} => IsFiniteSet(Z)
    BY RecordedFinite
  <2> QED
    BY <2>1, Zenon
<1>6. r = SetToSeq(S) \o SetToSeq(T)
  BY Zenon DEF Handed
<1> HIDE DEF One, Rec
<1>7. S \cap T = {}
  <2> SUFFICES ASSUME NEW s \in X, NEW c \in DOMAIN callbacks, One(s) = Rec(c)
               PROVE  FALSE
    BY Zenon
  <2>1. s = 0
    BY <1>1, <1>2, Zenon
  <2> QED
    BY <1>3, <2>1
<1>8. /\ \A k \in DOMAIN r : r[k] \in S \cup T
      /\ \A x \in S \cup T : \E k \in DOMAIN r : \A j \in DOMAIN r : r[j] = x <=> j = k
  <2>1. PICK A, B : A = S /\ B = T
    OBVIOUS
  <2>2. IsFiniteSet(A) /\ IsFiniteSet(B) /\ A \cap B = {} /\ r = SetToSeq(A) \o SetToSeq(B)
    BY <1>4, <1>5, <1>6, <1>7, <2>1, Zenon
  <2>3. EachOnce(r, A \cup B)
    BY <2>2, TwoInTurn
  <2> QED
    BY <2>1, <2>3, Zenon DEF EachOnce
<1>9. ASSUME NEW s \in X
      PROVE  \E k \in DOMAIN r : \A j \in DOMAIN r : r[j].proxy = s <=> j = k
  <2>1. One(s) \in S \cup T
    OBVIOUS
  <2>2. PICK k \in DOMAIN r : \A j \in DOMAIN r : r[j] = One(s) <=> j = k
    BY <1>8, <2>1, Zenon
  <2>3. ASSUME NEW j \in DOMAIN r
        PROVE  r[j] = One(s) <=> r[j].proxy = s
    <3>1. CASE r[j] \in S
      <4>1. PICK u \in X : r[j] = One(u)
        BY <3>1, Zenon
      <4> QED
        BY <1>1, <4>1, Zenon
    <3>2. CASE r[j] \in T
      <4>1. PICK c \in DOMAIN callbacks : r[j] = Rec(c)
        BY <3>2, Zenon
      <4>2. r[j].proxy = 0 /\ s # 0
        BY <1>2, <1>3, <4>1
      <4> QED
        BY <1>1, <4>2, Zenon
    <3> QED
      BY <1>8, <3>1, <3>2
  <2> QED
    BY <2>2, <2>3, Zenon
<1>10. \A k \in DOMAIN r : \/ \E s \in X : r[k] = One(s)
                           \/ \E c \in DOMAIN callbacks : r[k] = Rec(c)
  BY <1>8, ZenonT(40)
<1> QED
  BY <1>9, <1>10, Zenon DEF One, Rec, OneEach

(* The samples of an event that arrives.                                   *)
LEMMA Delivered ==
    ASSUME DotNetInv,
           NEW q \in Pids, NEW i \in Ids, NEW t \in Points, NEW meta \in BOOLEAN,
           NEW activity, NEW cut \in Cuts, EventArrives(q, i, t, meta, activity, cut),
           NEW info, info = InfoFor(infos'[t], Key(q, i)),
           NEW o, o = [version |-> info.version, activity |-> activity],
           NEW type, type = TypeFor(q, i, info, eventNames', layouts')
    PROVE  /\ Subscribers(t, i, info) \subseteq Proxies
           /\ OneEach(out', Subscribers(t, i, info), t, type, info, o)
<1>1. PICK r : r = out'
  OBVIOUS
<1>2. phase = "run" /\ t \in Route(i)
  BY Arrival, Zenon
<1>3. r = Handed(Subscribers(t, i, info), t, type, info, o)
  BY <1>1, Arrival, Zenon
<1>4. PICK X : X = Subscribers(t, i, info)
  OBVIOUS
<1>5. X \subseteq Proxies
  BY <1>2, <1>4, Asked
<1>6. DotNetType
  BY Zenon DEF DotNetInv
<1>7. r = Handed(X, t, type, info, o)
  BY <1>3, <1>4, Zenon
<1>8. OneEach(r, X, t, type, info, o)
  BY <1>5, <1>6, <1>7, HandedOver, Zenon
<1> QED
  BY <1>1, <1>4, <1>5, <1>8, Zenon

(* What a step leaves alone: the samples are of no event of a runtime.     *)
Quiet == out = <<>> /\ last = NoEvent

LEMMA OtherSteps ==
    ASSUME DotNetInv, Next,
           \A p \in Pids, id \in Ids, t \in Points, meta \in BOOLEAN,
              activity \in {NoValue, 1}, cut \in Cuts :
                ~ EventArrives(p, id, t, meta, activity, cut)
    PROVE  \/ Quiet'
           \/ /\ last' = [kind |-> "other"]
              /\ out' = <<Sample(0, 0, PlainType, TRUE, NoOver)>>
<1>1. ASSUME NEW id, NEW stacks, NewEventById(id, stacks) \/ NewEventByName(id)
                                    \/ RecordProvider(id) \/ SettingsHook
      PROVE  Quiet'
  <2>1. phase = "script" /\ out' = out /\ last' = last
    BY <1>1, Zenon DEF NewEventById, NewEventByName, RecordProvider, SettingsHook, runVars
  <2>2. Quiet
    BY <2>1, Zenon DEF DotNetInv, ScriptInv, Quiet
  <2> QED
    BY <2>1, <2>2 DEF Quiet
<1>2. ASSUME NEW p, NEW id, EventLost(p, id) \/ Reuse(p)
      PROVE  Quiet'
  BY <1>2 DEF EventLost, Reuse, Quiet
<1>3. ASSUME OtherSample
      PROVE  /\ last' = [kind |-> "other"]
             /\ out' = <<Sample(0, 0, PlainType, TRUE, NoOver)>>
  BY <1>3, Zenon DEF OtherSample, DotNetInv
<1> QED
  BY <1>1, <1>2, <1>3, Zenon DEF Next

-----------------------------------------------------------------------------
(* The attributes.                                                         *)

LEMMA AttributesArrive ==
    ASSUME DotNetInv, DotNetInv',
           NEW q \in Pids, NEW i \in Ids, NEW t \in Points, NEW meta \in BOOLEAN,
           NEW activity, NEW cut \in Cuts, EventArrives(q, i, t, meta, activity, cut)
    PROVE  AttributesOwn'
<1>1. /\ last' = Wrote(q, i, t, activity, FALSE) /\ procs'[q].gen = procs[q].gen
      /\ UNCHANGED conf
  BY Arrival, Zenon
<1>2. PICK d : d = Described(q, i)
  OBVIOUS
<1>3. d \in Descriptions /\ d = Described(q, i)'
  <2>1. d \in Descriptions
    BY <1>2, DescribedOne DEF DotNetInv
  <2> QED
    BY <1>1, <1>2, <2>1 DEF Described
<1>4. PICK info : info = InfoFor(infos'[t], Key(q, i))
  OBVIOUS
<1>5. procs'[q].gen = 1 => info.version \in {NoValue, d.version}
  <2>1. InfosInv' /\ eventNames' \in Seq(Names)
    BY Zenon DEF DotNetInv, TablesInv
  <2> QED
    BY <1>1, <1>2, <1>3, <1>4, <2>1, InfoOwn, Zenon
<1>6. PICK o : o = [version |-> info.version, activity |-> activity]
  OBVIOUS
<1>7. \A k \in DOMAIN out' : out'[k].version = info.version /\ out'[k].activity = activity
  <2>1. PICK r, type : r = out' /\ type = TypeFor(q, i, info, eventNames', layouts')
    OBVIOUS
  <2>2. OneEach(r, Subscribers(t, i, info), t, type, info, o)
    BY <1>4, <1>6, <2>1, Delivered, Zenon
  <2>3. \A proxy, record, ty, stack :
            /\ Sample(proxy, record, ty, stack, o).version = o.version
            /\ Sample(proxy, record, ty, stack, o).activity = o.activity
    BY DEF Sample
  <2>4. ASSUME NEW k \in DOMAIN r
        PROVE  r[k].version = o.version /\ r[k].activity = o.activity
    <3>1. \/ \E s \in Subscribers(t, i, info) :
                r[k] = Sample(s, 0, PlainType, points[t].stacks, o)
          \/ \E c \in DOMAIN callbacks :
                r[k] = Sample(0, c, type, RecordStack(t, callbacks[c], info), o)
      BY <2>2, Zenon DEF OneEach
    <3>2. PICK proxy, record, ty, stack : r[k] = Sample(proxy, record, ty, stack, o)
      BY <3>1, Zenon
    <3> QED
      BY <2>3, <3>2
  <2>5. o.version = info.version /\ o.activity = activity
    BY <1>6
  <2> QED
    BY <2>1, <2>4, <2>5, Zenon
<1>8. /\ last'.kind = "dotnet" /\ last'.pid = q /\ last'.id = i
      /\ last'.activity = activity
  BY <1>1 DEF Wrote
<1>9. last'.kind # "other"
  BY <1>8
<1> QED
  BY <1>3, <1>5, <1>7, <1>8, <1>9, Zenon DEF AttributesOwn

(* A sample has the version and the activity of its own event, and that of *)
(* any other event has none: the overrides never stay in the sampler       *)
(* ("Always clear overrides").                                             *)
THEOREM AttributesAlwaysOwn == Spec => []AttributesOwn
<1>1. Init => AttributesOwn
  BY DEF Init, AttributesOwn
<1>2. DotNetInv /\ DotNetInv' /\ AttributesOwn /\ [Next]_vars => AttributesOwn'
  <2> SUFFICES ASSUME DotNetInv, DotNetInv', AttributesOwn, [Next]_vars
               PROVE  AttributesOwn'
    OBVIOUS
  <2>1. CASE UNCHANGED vars
    BY <2>1, Zenon DEF AttributesOwn, IsEvent, Described, vars, runVars
  <2>2. ASSUME NEW p \in Pids, NEW id \in Ids, NEW t \in Points, NEW meta \in BOOLEAN,
               NEW activity, NEW cut \in Cuts, EventArrives(p, id, t, meta, activity, cut)
        PROVE  AttributesOwn'
    BY <2>2, AttributesArrive
  <2>3. CASE Quiet'
    BY <2>3 DEF Quiet, AttributesOwn
  <2>4. CASE /\ last' = [kind |-> "other"]
             /\ out' = <<Sample(0, 0, PlainType, TRUE, NoOver)>>
    <3>1. last'.kind = "other" /\ ~ IsEvent'
      BY <2>4 DEF IsEvent
    <3>2. \A k \in DOMAIN out' : out'[k].version = NoValue /\ out'[k].activity = NoValue
      <4>1. LET s == Sample(0, 0, PlainType, TRUE, NoOver)
            IN s.version = NoValue /\ s.activity = NoValue
        BY DEF Sample, NoOver
      <4>2. \A k \in DOMAIN out' : out'[k] = Sample(0, 0, PlainType, TRUE, NoOver)
        <5>1. \A x : \A k \in DOMAIN <<x>> : <<x>>[k] = x
          OBVIOUS
        <5> QED
          BY <2>4, <5>1, Zenon
      <4> QED
        BY <4>1, <4>2, Zenon
    <3> QED
      BY <3>1, <3>2 DEF AttributesOwn
  <2> QED
    BY <2>1, <2>2, <2>3, <2>4, OtherSteps, Zenon
<1> QED
  BY <1>1, <1>2, DotNetInvariant, PTL DEF Spec

-----------------------------------------------------------------------------
(* The types of the records.                                               *)

(* A sample is of a subscriber or of a record_provider call.               *)
Proxied(x, X, t) ==
    \E s \in X : x.proxy = s /\ x.record = 0 /\ x.stack = points[t].stacks
Recorded(x, t, type, info) ==
    \E c \in DOMAIN callbacks :
        /\ x.proxy = 0 /\ x.record = c /\ x.type = type
        /\ x.stack = RecordStack(t, callbacks[c], info)

LEMMA SampleParts ==
    ASSUME NEW r, NEW X, NEW t, NEW type, NEW info, NEW o,
           OneEach(r, X, t, type, info, o), NEW k \in DOMAIN r
    PROVE  Proxied(r[k], X, t) \/ Recorded(r[k], t, type, info)
<1>1. \A proxy, record, ty, stack :
        /\ Sample(proxy, record, ty, stack, o).proxy = proxy
        /\ Sample(proxy, record, ty, stack, o).record = record
        /\ Sample(proxy, record, ty, stack, o).type = ty
        /\ Sample(proxy, record, ty, stack, o).stack = stack
  BY DEF Sample
<1>2. CASE \E s \in X : r[k] = Sample(s, 0, PlainType, points[t].stacks, o)
  <2>1. PICK s \in X : r[k] = Sample(s, 0, PlainType, points[t].stacks, o)
    BY <1>2
  <2>2. r[k].proxy = s /\ r[k].record = 0 /\ r[k].stack = points[t].stacks
    BY <1>1, <2>1
  <2> QED
    BY <2>2, Zenon DEF Proxied
<1>3. CASE \E c \in DOMAIN callbacks :
                r[k] = Sample(0, c, type, RecordStack(t, callbacks[c], info), o)
  <2>1. PICK c \in DOMAIN callbacks :
                r[k] = Sample(0, c, type, RecordStack(t, callbacks[c], info), o)
    BY <1>3
  <2>3. PICK stack : stack = RecordStack(t, callbacks[c], info)
    OBVIOUS
  <2>2. r[k].proxy = 0 /\ r[k].record = c /\ r[k].type = type /\ r[k].stack = stack
    BY <1>1, <2>1, <2>3
  <2> QED
    BY <2>2, <2>3, Zenon DEF Recorded
<1> QED
  BY <1>2, <1>3, Zenon DEF OneEach

LEMMA RecordTypeArrive ==
    ASSUME DotNetInv, DotNetInv',
           NEW q \in Pids, NEW i \in Ids, NEW t \in Points, NEW meta \in BOOLEAN,
           NEW activity, NEW cut \in Cuts, EventArrives(q, i, t, meta, activity, cut)
    PROVE  RecordTypeOwn'
<1>1. /\ last' = Wrote(q, i, t, activity, FALSE) /\ procs'[q].gen = procs[q].gen
      /\ UNCHANGED conf /\ t \in Route(i)
  BY Arrival, Zenon
<1>2. PICK d : d = Described(q, i)
  OBVIOUS
<1>3. d \in Descriptions /\ d = Described(q, i)'
  <2>1. d \in Descriptions
    BY <1>2, DescribedOne DEF DotNetInv
  <2> QED
    BY <1>1, <1>2, <2>1 DEF Described
<1>4. PICK info, r : info = InfoFor(infos'[t], Key(q, i)) /\ r = out'
  OBVIOUS
<1>5. PICK type, o : /\ type = TypeFor(q, i, info, eventNames', layouts')
                     /\ o = [version |-> info.version, activity |-> activity]
  OBVIOUS
<1>6. OneEach(r, Subscribers(t, i, info), t, type, info, o)
  BY <1>4, <1>5, Delivered, Zenon
<1>7. /\ last'.pid = q /\ last'.id = i /\ last'.point = t
  BY <1>1 DEF Wrote
<1>8. Known(last)' <=> i \notin procs'[q].missed
  BY <1>7 DEF Known
<1>9. SUFFICES ASSUME NEW k \in DOMAIN r, r[k].record # 0
               PROVE  /\ r[k].type.name = "" => r[k].type.id = i
                      /\ procs'[q].gen = 1 =>
                           IF t = "all" /\ i \notin procs'[q].missed
                           THEN /\ r[k].type.name = d.name
                                /\ r[k].type.format = Layout(d.fields)
                           ELSE r[k].type.name \in {"", d.name}
  BY <1>3, <1>4, <1>7, <1>8, Zenon DEF RecordTypeOwn
<1>10. r[k].type = type /\ callbacks # <<>>
  <2>1. r[k].type = type /\ \E c : c \in DOMAIN callbacks
    <3>1. Proxied(r[k], Subscribers(t, i, info), t) \/ Recorded(r[k], t, type, info)
      BY <1>6, <1>9, SampleParts
    <3> QED
      BY <1>9, <3>1, Zenon DEF Proxied, Recorded
  <2> QED
    BY <2>1
<1>11. Key(q, i) \in DOMAIN types' /\ types'[Key(q, i)] = type
  <2>1. types' = Inserted(types, Key(q, i), type)
    BY <1>4, <1>5, <1>10, Arrival, Zenon
  <2> QED
    BY <2>1, Zenon DEF Inserted
<1>12. procs'[q].gen = 1 =>
            /\ type.name \in {"", d.name}
            /\ "all" \in Route(i)' /\ i \notin procs'[q].missed => OwnType(type, d)
  <2>1. TypesInv'
    BY DEF DotNetInv
  <2>2. procs'[q].gen = 1 /\ Key(q, i) \in DOMAIN types' =>
            /\ types'[Key(q, i)].name \in {"", d.name}
            /\ "all" \in Route(i)' /\ i \notin procs'[q].missed
                => OwnType(types'[Key(q, i)], d)
    BY <1>3, <2>1, Zenon DEF TypesInv, Key, OwnType
  <2> QED
    BY <1>11, <2>2, Zenon
<1>14. type.name = "" => type.id = i
  <2>1. TypeIdsInv'
    BY DEF DotNetInv
  <2>2. Key(q, i) \in DOMAIN types' =>
            (types'[Key(q, i)].name = "" => types'[Key(q, i)].id = i)
    BY <2>1, Zenon DEF TypeIdsInv, Key
  <2> QED
    BY <1>11, <2>2, Zenon
<1>13. Route(i)' = Route(i)
  BY <1>1, SameConf
<1> QED
  BY <1>1, <1>10, <1>12, <1>13, <1>14, Zenon DEF OwnType

(* The record of an event has the name and the fields of that event in the *)
(* process that wrote it, though processes share types by name and format  *)
(* and may give one number to several events; without the metadata it has  *)
(* no name, and no id but its own (record_types, record_formats and        *)
(* format_key, whose ids and names never meet: TopBitAssumption).  The     *)
(* first process with an id, as RecordTypeOwn says.                        *)
THEOREM RecordTypesOwn == Spec => []RecordTypeOwn
<1>1. Init => RecordTypeOwn
  <2>1. Init => ~ IsEvent
    BY DEF Init, IsEvent, NoEvent
  <2> QED
    BY <2>1, Zenon DEF RecordTypeOwn
<1>2. DotNetInv /\ DotNetInv' /\ RecordTypeOwn /\ [Next]_vars => RecordTypeOwn'
  <2> SUFFICES ASSUME DotNetInv, DotNetInv', RecordTypeOwn, [Next]_vars
               PROVE  RecordTypeOwn'
    OBVIOUS
  <2>1. CASE UNCHANGED vars
    BY <2>1, Zenon DEF RecordTypeOwn, IsEvent, Known, Described, vars, runVars
  <2>2. ASSUME NEW p \in Pids, NEW id \in Ids, NEW t \in Points, NEW meta \in BOOLEAN,
               NEW activity, NEW cut \in Cuts, EventArrives(p, id, t, meta, activity, cut)
        PROVE  RecordTypeOwn'
    BY <2>2, RecordTypeArrive
  <2>3. CASE Quiet' \/ last' = [kind |-> "other"]
    <3>1. ~ IsEvent'
      BY <2>3 DEF Quiet, IsEvent, NoEvent
    <3> QED
      BY <3>1, Zenon DEF RecordTypeOwn
  <2> QED
    BY <2>1, <2>2, <2>3, OtherSteps, Zenon
<1> QED
  BY <1>1, <1>2, DotNetInvariant, PTL DEF Spec

-----------------------------------------------------------------------------
(* The stacks.                                                             *)

LEMMA RecordedStack ==
    ASSUME DotNetInv, DotNetInv',
           NEW q \in Pids, NEW i \in Ids, NEW t \in Points, NEW meta \in BOOLEAN,
           NEW activity, NEW cut \in Cuts, EventArrives(q, i, t, meta, activity, cut),
           NEW d \in Descriptions, d = Described(q, i),
           NEW info, info = InfoFor(infos'[t], Key(q, i)),
           t = "all", i \notin procs'[q].missed, callbacks # <<>>
    PROVE  RecordStack(t, callbacks[Len(callbacks)], info)
                <=> d.keywords \in callbacks[Len(callbacks)]
<1>1. /\ UNCHANGED conf /\ t \in Route(i) /\ phase = "run" /\ i \in procs'[q].sent
      /\ procs'[q].gen = procs[q].gen
  BY Arrival, Zenon
<1>2. Says(info, d, eventNames', layouts')
  <2>1. InfosInv' /\ "all" \in Route(i) /\ i \in procs'[q].sent \ procs'[q].missed
    BY <1>1 DEF DotNetInv
  <2> QED
    BY <1>1, <2>1, InfoWhole, Zenon
<1>3. info.keywords = d.keywords /\ d.keywords # NoValue
  <2>1. info.keywords = d.keywords
    BY <1>2, Zenon DEF Says
  <2>2. d.keywords \in Nat
    BY DescriptionType
  <2>3. d.keywords # NoValue
    BY <2>2 DEF NoValue
  <2> QED
    BY <2>1, <2>3
<1> DEFINE mask == callbacks[Len(callbacks)]
<1>4. mask # {} => points[t].stacks
  <2>1. points["all"].stacks = cbStacks
    BY <1>1, PointsAre
  <2>2. mask # {} => cbStacks
    BY Zenon DEF DotNetInv, PointsInv
  <2> QED
    BY <2>1, <2>2, Zenon
<1>5. d.keywords \in mask => mask # {}
  OBVIOUS
<1> QED
  BY <1>3, <1>4, <1>5, Zenon DEF RecordStack

LEMMA StacksArrive ==
    ASSUME DotNetInv, DotNetInv',
           NEW q \in Pids, NEW i \in Ids, NEW t \in Points, NEW meta \in BOOLEAN,
           NEW activity, NEW cut \in Cuts, EventArrives(q, i, t, meta, activity, cut)
    PROVE  StacksAsAsked'
<1>1. /\ last' = Wrote(q, i, t, activity, FALSE) /\ procs'[q].gen = procs[q].gen
      /\ UNCHANGED conf /\ t \in Route(i) /\ phase = "run"
  BY Arrival, Zenon
<1>2. PICK d : d = Described(q, i)
  OBVIOUS
<1>3. d \in Descriptions /\ d = Described(q, i)'
  <2>1. d \in Descriptions
    BY <1>2, DescribedOne DEF DotNetInv
  <2> QED
    BY <1>1, <1>2, <2>1 DEF Described
<1>4. PICK info, r : info = InfoFor(infos'[t], Key(q, i)) /\ r = out'
  OBVIOUS
<1>5. PICK type, o : /\ type = TypeFor(q, i, info, eventNames', layouts')
                     /\ o = [version |-> info.version, activity |-> activity]
  OBVIOUS
<1>6. /\ OneEach(r, Subscribers(t, i, info), t, type, info, o)
      /\ Subscribers(t, i, info) \subseteq Proxies
  BY <1>4, <1>5, Delivered, Zenon
<1>7. /\ last'.pid = q /\ last'.id = i /\ last'.point = t
  BY <1>1 DEF Wrote
<1>8. /\ Known(last)' <=> i \notin procs'[q].missed
      /\ subs' = subs /\ callbacks' = callbacks
  BY <1>1, <1>7 DEF Known, conf
<1>9. ById(i)' = ById(i)
  BY <1>8, Zenon DEF ById, Proxies
<1>10. SUFFICES ASSUME NEW k \in DOMAIN r
                PROVE  /\ r[k].proxy # 0 /\ subs[r[k].proxy].by = "id"
                          /\ (\A s \in ById(i) :
                                subs[s].stacks = subs[r[k].proxy].stacks)
                         => r[k].stack = subs[r[k].proxy].stacks
                       /\ r[k].record # 0 /\ t = "all" /\ i \notin procs'[q].missed
                          /\ r[k].record = Len(callbacks)
                         => (r[k].stack <=> d.keywords \in callbacks[r[k].record])
  BY <1>3, <1>4, <1>7, <1>8, <1>9, ZenonT(40) DEF StacksAsAsked
<1>11. CASE Proxied(r[k], Subscribers(t, i, info), t)
  <2>1. PICK s \in Subscribers(t, i, info) :
                /\ r[k].proxy = s /\ r[k].record = 0 /\ r[k].stack = points[t].stacks
    BY <1>11, Zenon DEF Proxied
  <2>2. ASSUME subs[s].by = "id", \A u \in ById(i) : subs[u].stacks = subs[s].stacks
        PROVE  points[t].stacks = subs[s].stacks
    <3>1. ById(i) # {}
      BY <1>1, <2>1, <2>2, Asked
    <3>2. t # "all"
      BY <1>1, <3>1, Listed
    <3>3. PICK u \in ById(i) : subs[u].stacks = points[t].stacks
      BY <1>1, <3>2, Listed
    <3> QED
      BY <2>2, <3>3
  <2> QED
    BY <2>1, <2>2, Zenon
<1>12. CASE Recorded(r[k], t, type, info)
  <2>1. PICK c \in DOMAIN callbacks :
                /\ r[k].proxy = 0 /\ r[k].record = c
                /\ r[k].stack = RecordStack(t, callbacks[c], info)
    BY <1>12, Zenon DEF Recorded
  <2>2. callbacks # <<>>
    BY <2>1
  <2>3. t = "all" /\ i \notin procs'[q].missed =>
            (RecordStack(t, callbacks[Len(callbacks)], info)
                <=> d.keywords \in callbacks[Len(callbacks)])
    BY <1>2, <1>3, <1>4, <2>2, RecordedStack
  <2> QED
    BY <2>1, <2>3, Zenon
<1>13. Proxied(r[k], Subscribers(t, i, info), t) \/ Recorded(r[k], t, type, info)
  BY <1>6, SampleParts
<1> QED
  BY <1>11, <1>12, <1>13, Zenon

(* Who asked for stacks gets them and nobody else does, by id and by the   *)
(* keywords of the event: the tracepoints of the script are the right ones *)
(* and the mask of the last call decides (callback_callstacks,             *)
(* override_callstacks).                                                   *)
THEOREM StacksAlwaysAsAsked == Spec => []StacksAsAsked
<1>1. Init => StacksAsAsked
  BY DEF Init, StacksAsAsked
<1>2. DotNetInv /\ DotNetInv' /\ StacksAsAsked /\ [Next]_vars => StacksAsAsked'
  <2> SUFFICES ASSUME DotNetInv, DotNetInv', StacksAsAsked, [Next]_vars
               PROVE  StacksAsAsked'
    OBVIOUS
  <2>1. CASE UNCHANGED vars
    <3>1. /\ out' = out /\ last' = last /\ subs' = subs /\ callbacks' = callbacks
          /\ procs' = procs
      BY <2>1 DEF vars, conf, runVars
    <3> QED
      BY <3>1, SMT DEF StacksAsAsked, IsEvent, Known, ById, Proxies, Described
  <2>2. ASSUME NEW p \in Pids, NEW id \in Ids, NEW t \in Points, NEW meta \in BOOLEAN,
               NEW activity, NEW cut \in Cuts, EventArrives(p, id, t, meta, activity, cut)
        PROVE  StacksAsAsked'
    BY <2>2, StacksArrive
  <2>3. CASE Quiet' \/ last' = [kind |-> "other"]
    <3>1. ~ IsEvent'
      BY <2>3 DEF Quiet, IsEvent, NoEvent
    <3> QED
      BY <3>1, Zenon DEF StacksAsAsked
  <2> QED
    BY <2>1, <2>2, <2>3, OtherSteps, Zenon
<1> QED
  BY <1>1, <1>2, DotNetInvariant, PTL DEF Spec

-----------------------------------------------------------------------------
(* The subscribers.                                                        *)

LEMMA SamplesEach ==
    ASSUME DotNetType, NEW r, NEW X, X \subseteq Proxies, NEW t, NEW type, NEW info, NEW o,
           OneEach(r, X, t, type, info, o), NEW s \in Proxies,
           NEW P, P = {j \in DOMAIN r : r[j].proxy = s}
    PROVE  Cardinality(P) = (IF s \in X THEN 1 ELSE 0) /\ (P # {} => s \in X)
<1>1. CASE s \in X
  <2>1. PICK k \in DOMAIN r : \A j \in DOMAIN r : r[j].proxy = s <=> j = k
    BY <1>1, Zenon DEF OneEach
  <2>2. P = {j \in DOMAIN r : j = k}
    BY <2>1
  <2>3. Cardinality(P) = 1
    BY <2>2, OnePlace
  <2> QED
    BY <1>1, <2>3
<1>2. CASE s \notin X
  <2>1. s # 0
    BY DEF Proxies, DotNetType
  <2>2. ASSUME NEW j \in DOMAIN r, r[j].proxy = s
        PROVE  FALSE
    <3>1. Proxied(r[j], X, t) \/ Recorded(r[j], t, type, info)
      BY SampleParts
    <3> QED
      BY <1>2, <2>1, <2>2, <3>1, Zenon DEF Proxied, Recorded
  <2>3. P = {}
    BY <2>2, Zenon
  <2> QED
    BY <1>2, <2>3, FS_EmptySet
<1> QED
  BY <1>1, <1>2

(* Who is served by name.                                                  *)
LEMMA Named ==
    ASSUME NEW i, NEW d, NEW info, NEW names, NEW blobs, Says(info, d, names, blobs),
           NEW s \in Proxies
    PROVE  s \in Subscribers("all", i, info)
                <=> subs[s].by = "name" /\ subs[s].name = d.name /\ d.name # ""
<1>1. info.logical = IF ByName(d.name) # {} THEN d.name ELSE ""
  BY Zenon DEF Says
<1>2. s \in ByName(d.name) <=> subs[s].by = "name" /\ subs[s].name = d.name
  BY Zenon DEF ByName
<1>3. Subscribers("all", i, info) = IF info.logical # "" THEN ByName(info.logical) ELSE {}
  BY Zenon DEF Subscribers
<1> QED
  BY <1>1, <1>2, <1>3, Zenon

LEMMA ServedArrive ==
    ASSUME DotNetInv, DotNetInv',
           NEW q \in Pids, NEW i \in Ids, NEW t \in Points, NEW meta \in BOOLEAN,
           NEW activity, NEW cut \in Cuts, EventArrives(q, i, t, meta, activity, cut)
    PROVE  SubscribersServed'
<1>1. /\ last' = Wrote(q, i, t, activity, FALSE) /\ procs'[q].gen = procs[q].gen
      /\ UNCHANGED conf /\ t \in Route(i) /\ phase = "run" /\ i \in procs'[q].sent
  BY Arrival, Zenon
<1>2. PICK d : d = Described(q, i)
  OBVIOUS
<1>3. d \in Descriptions /\ d = Described(q, i)'
  <2>1. d \in Descriptions
    BY <1>2, DescribedOne DEF DotNetInv
  <2> QED
    BY <1>1, <1>2, <2>1 DEF Described
<1>4. PICK info, r : info = InfoFor(infos'[t], Key(q, i)) /\ r = out'
  OBVIOUS
<1>5. PICK type, o, X : /\ type = TypeFor(q, i, info, eventNames', layouts')
                        /\ o = [version |-> info.version, activity |-> activity]
                        /\ X = Subscribers(t, i, info)
  OBVIOUS
<1>6. OneEach(r, X, t, type, info, o) /\ X \subseteq Proxies /\ DotNetType
  BY <1>4, <1>5, Delivered, Zenon DEF DotNetInv
<1>7. /\ last'.pid = q /\ last'.id = i /\ last'.point = t
  BY <1>1 DEF Wrote
<1>8. (Known(last)' <=> i \notin procs'[q].missed) /\ subs' = subs
  BY <1>1, <1>7 DEF Known, conf
<1>9. ById(i)' = ById(i) /\ Proxies' = Proxies
  BY <1>8, Zenon DEF ById, Proxies
<1> DEFINE P(s) == {j \in DOMAIN r : r[j].proxy = s}
<1>10. SUFFICES
          /\ \A s \in ById(i) : Cardinality(P(s)) = 1
          /\ \A s \in Proxies \ ById(i) :
                /\ P(s) # {} => subs[s].by = "name" /\ ById(i) = {}
                /\ ById(i) = {} /\ i \notin procs'[q].missed =>
                     Cardinality(P(s)) =
                        IF subs[s].by = "name" /\ subs[s].name = d.name /\ d.name # ""
                        THEN 1 ELSE 0
  <2>1. ById(last.id)' = ById(i) /\ Described(last.pid, last.id)' = d
    BY <1>3, <1>7, <1>8, Zenon DEF ById, Proxies, Described
  <2>2. \A s : SamplesOf(s)' = P(s)
    BY <1>4, Zenon DEF SamplesOf
  <2> HIDE DEF P
  <2> QED
    BY <1>8, <1>9, <2>1, <2>2, Zenon DEF SubscribersServed
<1>11. \A s \in Proxies : Cardinality(P(s)) = (IF s \in X THEN 1 ELSE 0)
                          /\ (P(s) # {} => s \in X)
  <2>1. \A s \in Proxies : \A Q : Q = {j \in DOMAIN r : r[j].proxy = s} =>
            Cardinality(Q) = (IF s \in X THEN 1 ELSE 0) /\ (Q # {} => s \in X)
    BY <1>6, SamplesEach
  <2> QED
    BY <2>1, Zenon
<1> HIDE DEF P
<1>12. /\ ById(i) # {} => X = ById(i)
       /\ ById(i) = {} => t = "all" /\ \A s \in X : subs[s].by = "name"
  <2>1. ById(i) # {} => X = ById(i)
    BY <1>1, <1>5, Asked
  <2>2. ById(i) = {} => t = "all"
    BY <1>1, Listed
  <2>3. ById(i) = {} => \A s \in X : subs[s].by = "name"
    BY <1>1, <1>5, Asked
  <2> QED
    BY <2>1, <2>2, <2>3, Zenon
<1>13. ASSUME NEW s \in ById(i)
       PROVE  Cardinality(P(s)) = 1
  <2>1. s \in X /\ s \in Proxies
    BY <1>6, <1>12
  <2> QED
    BY <1>11, <2>1
<1>14. ASSUME NEW s \in Proxies \ ById(i), P(s) # {}
       PROVE  subs[s].by = "name" /\ ById(i) = {}
  <2>1. s \in X
    BY <1>11, <1>14
  <2> QED
    BY <1>12, <2>1, Zenon
<1>15. ASSUME NEW s \in Proxies \ ById(i), ById(i) = {}, i \notin procs'[q].missed
       PROVE  Cardinality(P(s)) =
                IF subs[s].by = "name" /\ subs[s].name = d.name /\ d.name # ""
                THEN 1 ELSE 0
  <2>1. t = "all"
    BY <1>12, <1>15
  <2>2. Says(info, d, eventNames', layouts')
    <3>1. InfosInv' /\ "all" \in Route(i) /\ i \in procs'[q].sent \ procs'[q].missed
      BY <1>1, <1>15, <2>1 DEF DotNetInv
    <3> QED
      BY <1>1, <1>2, <1>3, <1>4, <2>1, <3>1, InfoWhole, Zenon
  <2>3. s \in X <=> subs[s].by = "name" /\ subs[s].name = d.name /\ d.name # ""
    <3>1. X = Subscribers("all", i, info)
      BY <1>5, <2>1
    <3> QED
      BY <2>2, <3>1, Named, Zenon
  <2> QED
    BY <1>11, <2>3, Zenon
<1> QED
  BY <1>13, <1>14, <1>15, Zenon

(* An event reaches everyone who subscribed to its id exactly once, on     *)
(* whichever tracepoint it comes, and everyone who subscribed to its name  *)
(* when its metadata was seen and nobody asked for its id; nobody else     *)
(* (register_dotnet_tracepoint).                                           *)
THEOREM SubscribersAlwaysServed == Spec => []SubscribersServed
<1>1. Init => SubscribersServed
  <2>1. Init => ~ IsEvent
    BY DEF Init, IsEvent, NoEvent
  <2> QED
    BY <2>1, Zenon DEF SubscribersServed
<1>2. DotNetInv /\ DotNetInv' /\ SubscribersServed /\ [Next]_vars => SubscribersServed'
  <2> SUFFICES ASSUME DotNetInv, DotNetInv', SubscribersServed, [Next]_vars
               PROVE  SubscribersServed'
    OBVIOUS
  <2>1. CASE UNCHANGED vars
    <3>1. /\ out' = out /\ last' = last /\ subs' = subs /\ procs' = procs
      BY <2>1 DEF vars, conf, runVars
    <3> QED
      <4>1. /\ IsEvent' <=> IsEvent
            /\ Known(last)' <=> Known(last)
            /\ ById(last.id)' = ById(last.id) /\ Proxies' = Proxies
            /\ Described(last.pid, last.id)' = Described(last.pid, last.id)
        BY <3>1, Zenon DEF IsEvent, Known, ById, Proxies, Described
      <4>2. \A s : SamplesOf(s)' = SamplesOf(s)
        BY <3>1, Zenon DEF SamplesOf
      <4> QED
        BY <3>1, <4>1, <4>2, Zenon DEF SubscribersServed
  <2>2. ASSUME NEW p \in Pids, NEW id \in Ids, NEW t \in Points, NEW meta \in BOOLEAN,
               NEW activity, NEW cut \in Cuts, EventArrives(p, id, t, meta, activity, cut)
        PROVE  SubscribersServed'
    BY <2>2, ServedArrive
  <2>3. CASE Quiet' \/ last' = [kind |-> "other"]
    <3>1. ~ IsEvent'
      BY <2>3 DEF Quiet, IsEvent, NoEvent
    <3> QED
      BY <3>1, Zenon DEF SubscribersServed
  <2> QED
    BY <2>1, <2>2, <2>3, OtherSteps, Zenon
<1> QED
  BY <1>1, <1>2, DotNetInvariant, PTL DEF Spec
=============================================================================

----------------------------- MODULE DataProofs -----------------------------
(***************************************************************************)
(* Theorems about the declared data: the relations of the domain models    *)
(* (Relations) and the queries on the lists of their records (ListQuery),  *)
(* for all projects, subjects, rows and queries.                           *)
(***************************************************************************)
EXTENDS Relations, ListQuery, SeqLemmas

-----------------------------------------------------------------------------
(* Relations: Collected goes relation by relation. *)

\* f is what Collected gathers, relation by relation.
AddedUp(s, f) ==
    /\ f = [n \in 0..Len(s) |-> f[n]] /\ f[0] = << >>
    /\ \A n \in 1..Len(s) : f[n] = AddRel(f[n - 1], s[n])

\* The fold of Collected has a value for every prefix of what is declared.
LEMMA CollectedIs ==
    ASSUME NEW S, NEW s \in Seq(S)
    PROVE  \E f : AddedUp(s, f) /\ Collected(s) = f[Len(s)]
<1> DEFINE N == Len(s)
           Upto(m, f) == /\ f = [n \in 0..m |-> f[n]] /\ f[0] = << >>
                         /\ \A n \in 1..m : f[n] = AddRel(f[n - 1], s[n])
           table(f) == [n \in 0..N |-> IF n = 0 THEN << >> ELSE AddRel(f[n - 1], s[n])]
           Q == {m \in Nat : \E f : Upto(m, f)}
<1>1. N \in Nat
  BY LenProperties
<1> HIDE DEF N
<1>2. 0 \in Q
  <2>1. Upto(0, [n \in 0..0 |-> << >>])
    OBVIOUS
  <2> HIDE DEF Upto
  <2> QED
    BY <2>1
<1>3. ASSUME NEW m \in Nat, m \in Q PROVE m + 1 \in Q
  <2>1. PICK f : Upto(m, f)
    BY <1>3
  <2> DEFINE last == AddRel(f[m], s[m + 1])
             g == [n \in 0..(m + 1) |-> IF n <= m THEN f[n] ELSE last]
  <2> HIDE DEF last
  <2>2. \A n \in 0..m : n \in 0..(m + 1) /\ g[n] = f[n]
    OBVIOUS
  <2>3. m + 1 \in 0..(m + 1) /\ ~(m + 1 <= m) /\ (m + 1) - 1 = m /\ m \in 0..m
    OBVIOUS
  <2>4. g[m + 1] = last
    BY <2>3
  <2>5. g = [n \in 0..(m + 1) |-> g[n]]
    OBVIOUS
  <2> HIDE DEF g
  <2>6. ASSUME NEW n \in 1..(m + 1) PROVE g[n] = AddRel(g[n - 1], s[n])
    <3>1. CASE n \in 1..m
      <4>1. n \in 0..m /\ n - 1 \in 0..m
        BY <3>1
      <4> QED
        BY <2>1, <2>2, <3>1, <4>1
    <3>2. CASE n = m + 1
      <4>1. g[n - 1] = f[m]
        BY <2>2, <2>3, <3>2
      <4> QED
        BY <2>4, <3>2, <4>1 DEF last
    <3> QED
      BY <3>1, <3>2
  <2>7. g[0] = << >>
    BY <2>1, <2>2
  <2>8. Upto(m + 1, g)
    BY <2>5, <2>6, <2>7
  <2> HIDE DEF Upto
  <2> QED
    BY <2>8
<1> HIDE DEF Q
<1>4. Nat \subseteq Q
  BY <1>2, <1>3, Induction
<1>5. PICK f : Upto(N, f)
  BY <1>1, <1>4 DEF Q
<1>6. f = table(f)
  <2>1. \A n \in 0..N : n = 0 \/ (n # 0 /\ n \in 1..N)
    BY <1>1
  <2>2. \A n \in 0..N : f[n] = IF n = 0 THEN << >> ELSE AddRel(f[n - 1], s[n])
    BY <1>5, <2>1
  <2> QED
    BY <1>5, <2>2
<1>7. PICK added : added = table(added) /\ Collected(s) = added[N]
  BY <1>6 DEF Collected, N
<1>8. AddedUp(s, added)
  <2>1. 0 \in 0..N /\ \A n \in 1..N : n \in 0..N /\ n # 0
    BY <1>1
  <2>2. added[0] = << >> /\ \A n \in 1..N : added[n] = AddRel(added[n - 1], s[n])
    BY <1>7, <2>1
  <2>3. added = [n \in 0..N |-> added[n]]
    BY <1>7
  <2> QED
    BY <2>2, <2>3 DEF AddedUp, N
<1> QED
  BY <1>7, <1>8 DEF N

LEMMA CollectedEmpty == Collected(<< >>) = << >>
<1> DEFINE S == {}
<1>1. << >> \in Seq(S) /\ Len(<< >>) = 0
  BY EmptySeq
<1>2. \E f : AddedUp(<< >>, f) /\ Collected(<< >>) = f[Len(<< >>)]
  BY <1>1, CollectedIs
<1> QED
  BY <1>1, <1>2 DEF AddedUp

LEMMA AddedAgree ==
    ASSUME NEW S, NEW s \in Seq(S), NEW r \in S, NEW f, NEW h,
           AddedUp(s, f), AddedUp(Append(s, r), h)
    PROVE  f[Len(s)] = h[Len(s)]
<1> DEFINE Q == {n \in Nat : n <= Len(s) => f[n] = h[n]}
<1>1. /\ Len(s) \in Nat /\ Len(Append(s, r)) = Len(s) + 1
      /\ \A n \in 1..Len(s) : Append(s, r)[n] = s[n]
  BY AppendProperties, LenProperties
<1>2. 0 \in Q
  BY DEF AddedUp
<1>3. ASSUME NEW n \in Nat, n \in Q PROVE n + 1 \in Q
  <2>1. SUFFICES ASSUME n + 1 <= Len(s) PROVE f[n + 1] = h[n + 1]
    OBVIOUS
  <2>2. /\ n + 1 \in 1..Len(s) /\ n + 1 \in 1..Len(Append(s, r)) /\ (n + 1) - 1 = n
        /\ f[n] = h[n] /\ Append(s, r)[n + 1] = s[n + 1]
    BY <1>1, <1>3, <2>1
  <2>3. f[n + 1] = AddRel(f[n], s[n + 1])
    BY <2>2 DEF AddedUp
  <2>4. h[n + 1] = AddRel(h[n], s[n + 1])
    BY <2>2 DEF AddedUp
  <2> QED
    BY <2>2, <2>3, <2>4
<1> HIDE DEF Q
<1>4. Nat \subseteq Q
  BY <1>2, <1>3, Induction
<1> QED
  BY <1>1, <1>4 DEF Q

\* Collected goes relation by relation.
LEMMA CollectedAppend ==
    ASSUME NEW S, NEW s \in Seq(S), NEW r \in S
    PROVE  Collected(Append(s, r)) = AddRel(Collected(s), r)
<1> DEFINE z == Append(s, r)
           N == Len(s)
<1>1. z \in Seq(S) /\ N \in Nat /\ Len(z) = N + 1 /\ z[N + 1] = r
  BY AppendProperties, LenProperties
<1>2. PICK f : AddedUp(s, f) /\ Collected(s) = f[N]
  BY CollectedIs
<1> HIDE DEF z
<1>3. PICK h : AddedUp(z, h) /\ Collected(z) = h[N + 1]
  <2>1. \E h : AddedUp(z, h) /\ Collected(z) = h[Len(z)]
    BY <1>1, CollectedIs
  <2> QED
    BY <1>1, <2>1
<1>4. f[N] = h[N]
  BY <1>2, <1>3, AddedAgree DEF z
<1> HIDE DEF N
<1>5. N + 1 \in 1..Len(z) /\ (N + 1) - 1 = N
  BY <1>1
<1>6. h[N + 1] = AddRel(h[N], r)
  BY <1>1, <1>3, <1>5 DEF AddedUp
<1> QED
  BY <1>2, <1>3, <1>4, <1>6 DEF z


\* The sequences of a sequence, one after the other.
LEMMA FlattenType ==
    ASSUME NEW S, NEW ss \in Seq(Seq(S))
    PROVE  FlattenSeq(ss) \in Seq(S)
<1> DEFINE N == Len(ss)
           V == Seq(S)
           H == [n \in 1..N |-> [v \in V |-> v \o ss[n]]]
           table(f) == [n \in 1..N |-> IF n = 1 THEN ss[n] ELSE f[n - 1] \o ss[n]]
<1>1. N \in Nat /\ \A n \in 1..N : ss[n] \in V
  BY LenProperties, ElementOfSeq
<1>2. << >> \in V /\ \A v \in V : << >> \o v = v
  BY EmptySeq, ConcatEmptySeq
<1>3. \A v, w \in V : v \o w \in V
  BY ConcatProperties
<1>4. CASE N = 0
  BY <1>2, <1>4, EmptySeq DEF FlattenSeq
<1>5. CASE N # 0
  <2>1. /\ H \in [1..N -> [V -> V]]
        /\ \A n \in 1..N : \A v \in V : H[n][v] = v \o ss[n]
    <3> HIDE DEF V, N
    <3> QED
      BY <1>1, <1>3
  <2> HIDE DEF N, H, V
  <2>2. PICK f : Recurses(f, N, V, << >>, H)
    BY <1>1, <1>2, <2>1, Recursion
  <2>3. /\ f \in [0..N -> V] /\ f[0] = << >>
        /\ \A n \in 1..N : n - 1 \in 0..N /\ f[n] = H[n][f[n - 1]]
    BY <1>1, <2>2 DEF Recurses
  <2>4. \A n \in 1..N : f[n] = f[n - 1] \o ss[n]
    BY <2>1, <2>3
  <2> DEFINE g == [n \in 1..N |-> f[n]]
  <2>5. \A n \in 1..N : n = 1 \/ (n # 1 /\ n - 1 \in 1..N)
    BY <1>1
  <2>6. \A n \in 1..N : g[n] = IF n = 1 THEN ss[n] ELSE g[n - 1] \o ss[n]
    <3> TAKE n \in 1..N
    <3>1. CASE n = 1
      <4>1. f[1] = f[0] \o ss[1] /\ ss[1] \in V /\ 1 \in 1..N
        <5>1. 1 \in 1..N /\ 1 - 1 = 0
          BY <3>1
        <5> QED
          BY <1>1, <2>4, <5>1
      <4>2. f[1] = ss[1]
        BY <1>2, <2>3, <4>1
      <4> QED
        BY <3>1, <4>1, <4>2
    <3>2. CASE n # 1
      BY <2>4, <2>5, <3>2
    <3> QED
      BY <3>1, <3>2
  <2>7. g = table(g)
    BY <2>6
  <2>8. PICK flatten : flatten = table(flatten) /\ FlattenSeq(ss) = flatten[N]
    <3> HIDE DEF g
    <3> QED
      BY <1>5, <2>7 DEF FlattenSeq, N
  <2>9. \A n \in 1..N : flatten[n] = IF n = 1 THEN ss[n] ELSE flatten[n - 1] \o ss[n]
    BY <2>8
  <2> DEFINE Q == {n \in Nat : n \in 1..N => flatten[n] \in V}
  <2>10. 0 \in Q
    OBVIOUS
  <2>11. ASSUME NEW n \in Nat, n \in Q PROVE n + 1 \in Q
    <3> SUFFICES ASSUME n + 1 \in 1..N PROVE flatten[n + 1] \in V
      OBVIOUS
    <3>1. CASE n = 0
      BY <1>1, <2>9, <3>1
    <3>2. CASE n # 0
      <4>1. n \in 1..N /\ n + 1 # 1 /\ (n + 1) - 1 = n
        BY <1>1, <3>2
      <4> QED
        BY <1>1, <1>3, <2>9, <2>11, <4>1
    <3> QED
      BY <3>1, <3>2
  <2> HIDE DEF Q
  <2>12. Nat \subseteq Q
    BY <2>10, <2>11, Induction
  <2>13. N \in Q /\ N \in 1..N
    BY <1>1, <1>5, <2>12
  <2> QED
    BY <2>8, <2>13 DEF Q, V
<1> QED
  BY <1>4, <1>5

-----------------------------------------------------------------------------
(* The fields of a project declare relations of its models. *)

RelsSpec == RelationsInit /\ [][RelationsNext]_relVars

\* The relations of fields, and those with the ones through a model in between.
FieldRels(pro) ==
    {r \in [card : {"11", "N1", "1N"}, embed : BOOLEAN, via : {NoModel},
            a : [model : ModelIds(pro), key : Nat],
            b : [model : ModelIds(pro) \cup {NoModel}, key : {PK, NoKey}]] :
        r.embed <=> r.b.key = NoKey}
AnyRels(pro) ==
    [card : {"", "11", "N1", "1N"}, embed : BOOLEAN, via : ModelIds(pro) \cup {NoModel},
     a : [model : ModelIds(pro), key : Int], b : [model : ModelIds(pro), key : Int]]

\* The field refers to or embeds a model.
Relates(field) == field.how = "refers" \/ field.how = "embeds" \/ field.how = "embeds many"

\* A key is an index, and none is the primary one.
LEMMA KeysDiffer == PK \in Int /\ NoKey \in Int /\ PK # NoKey
  BY DEF PK, NoKey

\* What the fields of one model declare.
LEMMA DeclaredType ==
    ASSUME NEW pro, NEW id \in ModelIds(pro), NEW key \in Nat, NEW field, Relates(field)
    PROVE  Declared(pro, id, key, field) \in FieldRels(pro)
<1> DEFINE b == DomRef(pro, id, field.ref)
<1>1. b \in ModelIds(pro) \cup {NoModel}
  BY DEF DomRef
<1> HIDE DEF b
<1>2. PK # NoKey
  BY KeysDiffer
<1>3. CASE field.how = "refers"
  <2> DEFINE r(c) == [card |-> c, embed |-> FALSE, via |-> NoModel,
                      a |-> [model |-> id, key |-> key], b |-> [model |-> b, key |-> PK]]
  <2>1. r("11") \in FieldRels(pro) /\ r("N1") \in FieldRels(pro)
    BY <1>1, <1>2 DEF FieldRels
  <2>2. \E c \in {"11", "N1"} : Declared(pro, id, key, field) = r(c)
    BY <1>3 DEF Declared, b
  <2> HIDE DEF r
  <2> QED
    BY <2>1, <2>2
<1>4. CASE field.how = "embeds"
  <2> DEFINE r == [card |-> "11", embed |-> TRUE, via |-> NoModel,
                   a |-> [model |-> id, key |-> key], b |-> [model |-> b, key |-> NoKey]]
  <2>1. r \in FieldRels(pro)
    BY <1>1, <1>2 DEF FieldRels
  <2>2. Declared(pro, id, key, field) = r
    BY <1>4 DEF Declared, b
  <2> QED
    BY <2>1, <2>2
<1>5. CASE field.how = "embeds many"
  <2> DEFINE r == [card |-> "1N", embed |-> TRUE, via |-> NoModel,
                   a |-> [model |-> id, key |-> key], b |-> [model |-> b, key |-> NoKey]]
  <2>1. r \in FieldRels(pro)
    BY <1>1, <1>2 DEF FieldRels
  <2>2. Declared(pro, id, key, field) = r
    BY <1>5 DEF Declared, b
  <2> QED
    BY <2>1, <2>2
<1> QED
  BY <1>3, <1>4, <1>5 DEF Relates

LEMMA AllDeclaredType ==
    ASSUME NEW pro \in Projects
    PROVE  AllDeclared(pro) \in Seq(FieldRels(pro))
<1> DEFINE F == FieldRels(pro)
           fields(i)  == [k \in DOMAIN pro[i].fields |-> <<k, pro[i].fields[k]>>]
           rel(i) == Only(fields(i), {kf \in ToSet(fields(i)) : kf[2].how # "none"})
           own(i) == IF ~pro[i].obj THEN << >>
                     ELSE [k \in DOMAIN rel(i) |->
                              Declared(pro, pro[i].id, rel(i)[k][1], rel(i)[k][2])]
           ss == [i \in DOMAIN pro |-> own(i)]
<1>1. AllDeclared(pro) = FlattenSeq(ss)
  BY DEF AllDeclared
<1>2. /\ pro \in Seq(ToSet(pro))
      /\ \A m \in ToSet(pro) :
            /\ m.fields \in Seq(ToSet(m.fields))
            /\ \A f \in ToSet(m.fields) : f.how \in {"none", "refers", "embeds", "embeds many"}
  BY ProjectsAssumption
<1>3. ASSUME NEW i \in DOMAIN pro PROVE own(i) \in Seq(F)
  <2>1. pro[i] \in ToSet(pro) /\ pro[i].id \in ModelIds(pro)
    BY <1>2, ToSetDef DEF ModelIds, ToSet
  <2> DEFINE fs == pro[i].fields
             T == ToSet(fs)
             P == Nat \X T
             fl == fields(i)
             rl == rel(i)
  <2>2. fs \in Seq(T) /\ \A f \in T : f.how \in {"none", "refers", "embeds", "embeds many"}
    BY <1>2, <2>1
  <2>3. Len(fs) \in Nat /\ DOMAIN fs = 1..Len(fs) /\ \A k \in 1..Len(fs) : fs[k] \in T
    <3> HIDE DEF T, fs
    <3> QED
      BY <2>2, LenProperties, ElementOfSeq
  <2>4. fl \in Seq(P)
    <3>1. fl = [k \in 1..Len(fs) |-> <<k, fs[k]>>]
      BY <2>3
    <3>2. \A k \in 1..Len(fs) : <<k, fs[k]>> \in P
      BY <2>3
    <3> HIDE DEF fl, P, fs
    <3> QED
      BY <2>3, <3>1, <3>2
  <2> DEFINE some == {kf \in ToSet(fl) : kf[2].how # "none"}
  <2>5. rl \in Seq(P) /\ ToSet(rl) \subseteq some
    <3>1. rl = Only(fl, some)
      OBVIOUS
    <3> HIDE DEF rl, fl, some, P
    <3>2. rl \in Seq(P)
      BY <2>4, <3>1, OnlyType
    <3>3. ToSet(rl) = ToSet(fl) \cap some
      BY <2>4, <3>1, OnlySet
    <3> QED
      BY <3>2, <3>3
  <2>6. /\ Len(rl) \in Nat /\ DOMAIN rl = 1..Len(rl)
        /\ \A k \in 1..Len(rl) : rl[k] \in P /\ rl[k] \in ToSet(rl)
    <3> HIDE DEF rl, P
    <3> QED
      BY <2>5, LenProperties, ElementOfSeq, ToSetDef
  <2>7. ASSUME NEW k \in 1..Len(rl) PROVE Declared(pro, pro[i].id, rl[k][1], rl[k][2]) \in F
    <3>1. rl[k] \in P /\ rl[k][2].how # "none"
      BY <2>5, <2>6
    <3>2. rl[k][1] \in Nat /\ rl[k][2] \in T
      BY <3>1
    <3>3. Relates(rl[k][2])
      BY <2>2, <3>1, <3>2 DEF Relates
    <3> DEFINE key == rl[k][1]
               field == rl[k][2]
               id == pro[i].id
    <3>4. /\ key \in Nat /\ id \in ModelIds(pro)
          /\ Relates(field)
      BY <2>1, <3>2, <3>3
    <3> HIDE DEF key, field, id
    <3>5. Declared(pro, id, key, field) \in FieldRels(pro)
      BY <3>4, DeclaredType
    <3> QED
      BY <3>5 DEF key, field, id
  <2>8. own(i) = IF ~pro[i].obj THEN << >>
                 ELSE [k \in 1..Len(rl) |-> Declared(pro, pro[i].id, rl[k][1], rl[k][2])]
    BY <2>6
  <2> HIDE DEF rl, F
  <2> QED
    BY <2>6, <2>7, <2>8, EmptySeq
<1>4. ss \in Seq(Seq(F))
  <2>1. Len(pro) \in Nat /\ DOMAIN pro = 1..Len(pro)
    BY <1>2, LenProperties
  <2> HIDE DEF own, F
  <2> QED
    BY <1>3, <2>1
<1> HIDE DEF ss, F
<1> QED
  BY <1>1, <1>4, FlattenType DEF F

\* How often an element is in a list, and how that goes with the list.
LEMMA TimesNat ==
    ASSUME NEW S, NEW s \in Seq(S), NEW x
    PROVE  /\ Times(s, x) \in Nat
           /\ Times(s, x) > 0 <=> x \in ToSet(s)
<1> DEFINE At == {i \in DOMAIN s : s[i] = x}
<1>1. Len(s) \in Nat /\ DOMAIN s = 1..Len(s)
  BY LenProperties
<1>2. IsFiniteSet(1..Len(s))
  BY <1>1, FS_Interval
<1>3. IsFiniteSet(At)
  <2>1. At \in SUBSET (1..Len(s))
    BY <1>1
  <2> HIDE DEF At
  <2> QED
    BY <1>2, <2>1, FS_Subset
<1>4. At # {} <=> x \in ToSet(s)
  BY <1>1, ToSetDef
<1>5. Times(s, x) = Cardinality(At)
  BY DEF Times
<1> HIDE DEF At
<1>6. Cardinality(At) \in Nat /\ (Cardinality(At) = 0 <=> At = {})
  BY <1>3, FS_CardinalityType, FS_EmptySet
<1> QED
  BY <1>4, <1>5, <1>6

LEMMA TimesEmpty == ASSUME NEW x PROVE Times(<< >>, x) = 0
<1> DEFINE none == << >>
           At == {i \in DOMAIN none : none[i] = x}
<1>1. At = {}
  OBVIOUS
<1>2. Times(none, x) = Cardinality(At)
  BY DEF Times
<1> HIDE DEF At
<1> QED
  BY <1>1, <1>2, FS_EmptySet

LEMMA TimesAppend ==
    ASSUME NEW S, NEW s \in Seq(S), NEW r \in S, NEW x
    PROVE  Times(Append(s, r), x) = Times(s, x) + (IF r = x THEN 1 ELSE 0)
<1> DEFINE t == Append(s, r)
           n == Len(s)
           At(q) == {i \in DOMAIN q : q[i] = x}
           A == At(s)
           B == At(t)
<1>1. /\ n \in Nat /\ DOMAIN s = 1..n /\ DOMAIN t = 1..(n + 1)
      /\ \A i \in 1..n : t[i] = s[i]
      /\ t[n + 1] = r
  BY AppendProperties, LenProperties
<1> HIDE DEF t, n
<1>2. n + 1 \notin A /\ B = IF r = x THEN A \cup {n + 1} ELSE A
  <2>1. \A i \in 1..(n + 1) : (i \in 1..n /\ i # n + 1) \/ i = n + 1
    BY <1>1
  <2>2. n + 1 \notin 1..n /\ n + 1 \in 1..(n + 1) /\ 1..n \subseteq 1..(n + 1)
    BY <1>1
  <2> QED
    BY <1>1, <2>1, <2>2
<1>3. IsFiniteSet(A)
  <2>1. A \in SUBSET (1..n) /\ IsFiniteSet(1..n)
    BY <1>1, FS_Interval
  <2> HIDE DEF A
  <2> QED
    BY <2>1, FS_Subset
<1>4. Times(s, x) = Cardinality(A) /\ Times(t, x) = Cardinality(B)
  BY DEF Times
<1> HIDE DEF A, B
<1>5. Cardinality(A \cup {n + 1}) = Cardinality(A) + 1 /\ Cardinality(A) \in Nat
  BY <1>2, <1>3, FS_AddElement, FS_CardinalityType
<1> QED
  BY <1>2, <1>4, <1>5 DEF t

LEMMA TimesOnly ==
    ASSUME NEW S, NEW part, NEW x
    PROVE  \A s \in Seq(S) : Times(Only(s, part), x) = IF x \in part THEN Times(s, x) ELSE 0
<1> DEFINE Z == {s \in Seq(S) :
                    Times(Only(s, part), x) = IF x \in part THEN Times(s, x) ELSE 0}
<1>1. << >> \in Z
  BY OnlyEmpty, TimesEmpty, EmptySeq
<1>2. ASSUME NEW s \in Seq(S), s \in Z, NEW r \in S PROVE Append(s, r) \in Z
  <2> DEFINE z == Append(s, r)
             o == Only(s, part)
  <2>1. z \in Seq(S)
    BY AppendProperties
  <2>2. o \in Seq(S) /\ Only(z, part) = IF r \in part THEN Append(o, r) ELSE o
    BY OnlyAppend
  <2>3. Times(z, x) = Times(s, x) + (IF r = x THEN 1 ELSE 0)
    BY TimesAppend
  <2>4. Times(o, x) = IF x \in part THEN Times(s, x) ELSE 0
    BY <1>2
  <2> HIDE DEF o
  <2>5. Times(Append(o, r), x) = Times(o, x) + (IF r = x THEN 1 ELSE 0)
    BY <2>2, TimesAppend
  <2>6. Times(s, x) \in Nat
    BY TimesNat
  <2> HIDE DEF z
  <2>7. Times(Only(z, part), x) = IF x \in part THEN Times(z, x) ELSE 0
    <3>1. CASE r \in part
      BY <2>2, <2>3, <2>4, <2>5, <2>6, <3>1
    <3>2. CASE r \notin part
      BY <2>2, <2>3, <2>4, <2>6, <3>2
    <3> QED
      BY <3>1, <3>2
  <2> QED
    BY <2>1, <2>7 DEF z
<1>3. \A s \in Seq(S) : s \in Z => \A r \in S : Append(s, r) \in Z
  BY <1>2
<1> HIDE DEF Z
<1>4. Seq(S) \subseteq Z
  BY <1>1, <1>3, SeqInduction
<1> QED
  BY <1>4 DEF Z

-----------------------------------------------------------------------------
(* What was collected of every model. *)

\* The relations a project's fields declare when all they refer to is found.
GoodRels(pro) == {r \in FieldRels(pro) : r.b.model # NoModel}

\* What is collected of a model.
ListedOf(rs, m) == IF m \in DOMAIN rs THEN rs[m] ELSE NoRels

OutOf(pro, m) == {r \in GoodRels(pro) : r.a.model = m}
Into(pro, m)  == {r \in GoodRels(pro) : r.b.model = m}

\* The relations of s are collected at both their ends, and nothing else is.
CollectedView(pro, s, rs) ==
    /\ rs = [m \in DOMAIN rs |-> rs[m]]
    /\ DOMAIN rs \subseteq ModelIds(pro)
    /\ \A r \in ToSet(s) : r.a.model \in DOMAIN rs /\ r.b.model \in DOMAIN rs
    /\ \A m \in ModelIds(pro) :
          ListedOf(rs, m) = [out |-> Only(s, OutOf(pro, m)), in |-> Only(s, Into(pro, m)),
                             via |-> << >>]

\* What was collected lists every relation at both of its ends, as often as it is
\* declared.
LEMMA CollectedIsView ==
    ASSUME NEW pro, NoModel \notin ModelIds(pro)
    PROVE  \A s \in Seq(GoodRels(pro)) : CollectedView(pro, s, Collected(s))
<1> DEFINE S == GoodRels(pro)
           Z == {s \in Seq(S) : CollectedView(pro, s, Collected(s))}
<1>1. << >> \in Z
  <2> DEFINE none == << >>
  <2>1. none \in Seq(S) /\ DOMAIN none = {} /\ none = [m \in DOMAIN none |-> none[m]]
    BY EmptySeq
  <2>2. CollectedView(pro, none, none)
    BY <2>1, ToSetEmpty, OnlyEmpty DEF CollectedView, ListedOf, NoRels
  <2> QED
    BY <2>1, <2>2, CollectedEmpty
<1>2. ASSUME NEW s \in Seq(S), s \in Z, NEW r \in S PROVE Append(s, r) \in Z
  <2> DEFINE z == Append(s, r)
             rs == Collected(s)
             qs == Collected(z)
             D == DOMAIN rs \cup ({r.a.model, r.b.model, r.via} \ {NoModel})
  <2>1. z \in Seq(S) /\ ToSet(z) = ToSet(s) \cup {r}
    BY AppendProperties, ToSetAppend
  <2>2. qs = AddRel(rs, r)
    BY CollectedAppend
  <2>3. CollectedView(pro, s, rs)
    BY <1>2
  <2>4. /\ r.via = NoModel /\ r.a.model \in ModelIds(pro) /\ r.b.model \in ModelIds(pro)
        /\ r.a.model # NoModel /\ r.b.model # NoModel
    BY DEF GoodRels, FieldRels
  <2>5. \A m : Only(z, OutOf(pro, m)) = IF r \in OutOf(pro, m)
                                        THEN Append(Only(s, OutOf(pro, m)), r)
                                        ELSE Only(s, OutOf(pro, m))
    BY OnlyAppend
  <2>6. \A m : Only(z, Into(pro, m)) = IF r \in Into(pro, m)
                                       THEN Append(Only(s, Into(pro, m)), r)
                                       ELSE Only(s, Into(pro, m))
    BY OnlyAppend
  <2>7. \A m : /\ (r \in OutOf(pro, m) <=> m = r.a.model)
               /\ (r \in Into(pro, m) <=> m = r.b.model)
    BY DEF OutOf, Into
  <2> HIDE DEF z, rs, qs, S
  <2>8. qs = [m \in D |-> Added(rs, r, m)] /\ DOMAIN qs = D
    BY <2>2 DEF AddRel
  <2> HIDE DEF D
  <2>9. \A m : m \in D <=> m \in DOMAIN rs \/ m = r.a.model \/ m = r.b.model
    BY <2>4 DEF D
  <2>10. DOMAIN qs \subseteq ModelIds(pro) /\ qs = [m \in DOMAIN qs |-> qs[m]]
    BY <2>3, <2>4, <2>8, <2>9 DEF CollectedView
  <2>11. \A q \in ToSet(z) : q.a.model \in DOMAIN qs /\ q.b.model \in DOMAIN qs
    BY <2>1, <2>3, <2>8, <2>9 DEF CollectedView
  <2>12. ASSUME NEW m \in ModelIds(pro)
         PROVE  ListedOf(qs, m) = [out |-> Only(z, OutOf(pro, m)),
                                   in |-> Only(z, Into(pro, m)), via |-> << >>]
    <3> DEFINE old == ListedOf(rs, m)
               oo == Only(s, OutOf(pro, m))
               oi == Only(s, Into(pro, m))
    <3>1. old = [out |-> oo, in |-> oi, via |-> << >>]
      BY <2>3 DEF CollectedView
    <3>2. m # r.via
      BY <2>4, <1>2
    <3>3. Added(rs, r, m) = [out |-> IF m = r.a.model THEN Append(oo, r) ELSE oo,
                             in  |-> IF m = r.b.model THEN Append(oi, r) ELSE oi,
                             via |-> << >>]
      <4> HIDE DEF oo, oi
      <4>1. Added(rs, r, m) =
               [out |-> IF m = r.a.model THEN Append(old.out, r) ELSE old.out,
                in  |-> IF m = r.b.model THEN Append(old.in, r) ELSE old.in,
                via |-> IF m = r.via THEN Append(old.via, r) ELSE old.via]
        BY DEF Added, ListedOf
      <4> HIDE DEF old
      <4>2. old.out = oo /\ old.in = oi /\ old.via = << >>
        BY <3>1
      <4> QED
        BY <3>2, <4>1, <4>2
    <3>4. m \notin D => old = NoRels /\ m # r.a.model /\ m # r.b.model
      BY <2>9 DEF ListedOf
    <3>5. m \in D => ListedOf(qs, m) = Added(rs, r, m)
      BY <2>8 DEF ListedOf
    <3>6. m \notin D => ListedOf(qs, m) = NoRels
      BY <2>8 DEF ListedOf
    <3>7. /\ Only(z, OutOf(pro, m)) = IF m = r.a.model THEN Append(oo, r) ELSE oo
          /\ Only(z, Into(pro, m)) = IF m = r.b.model THEN Append(oi, r) ELSE oi
      BY <2>5, <2>6, <2>7
    <3> HIDE DEF oo, oi, old
    <3>8. CASE m \in D
      BY <3>3, <3>5, <3>7, <3>8
    <3>9. CASE m \notin D
      BY <3>1, <3>4, <3>6, <3>7, <3>9
    <3> QED
      BY <3>8, <3>9
  <2>13. CollectedView(pro, z, qs)
    BY <2>10, <2>11, <2>12 DEF CollectedView
  <2> QED
    BY <2>1, <2>13 DEF z, qs
<1>3. \A s \in Seq(S) : s \in Z => \A r \in S : Append(s, r) \in Z
  BY <1>2
<1> HIDE DEF Z, S
<1>4. Seq(S) \subseteq Z
  BY <1>1, <1>3, SeqInduction
<1> QED
  BY <1>4 DEF Z, S

\* The relations of a model's keys, and the one it makes when it is in between.
KeyedOf(all, m) == Only(all, {r \in ToSet(all) : r.a.model = m /\ ~r.embed})
Joint(all, m) ==
    [card |-> "", embed |-> FALSE, via |-> m,
     a |-> KeyedOf(all, m)[1].b, b |-> KeyedOf(all, m)[2].b]

\* The models of ms that are in between two others.
InBetween(all, ms) == {m \in ms : Len(KeyedOf(all, m)) >= 2}

\* How often relation r is listed at its ends once the models of done were looked at.
Due(all, done, r) ==
    IF r.via = NoModel THEN Times(all, r)
    ELSE IF r.via \in done /\ r = Joint(all, r.via) THEN 1 ELSE 0

Keying(pro) == {r \in AnyRels(pro) : r.via = NoModel /\ r.b.key = PK /\ ~r.embed}

\* What is listed of model m, entry e, is what is due.
Listing(pro, all, done, m, e) ==
    /\ e.out \in Seq(AnyRels(pro)) /\ e.in \in Seq(AnyRels(pro)) /\ e.via \in Seq(AnyRels(pro))
    /\ \A r \in AnyRels(pro) :
          /\ Times(e.out, r) = IF m = r.a.model THEN Due(all, done, r) ELSE 0
          /\ Times(e.in, r) = IF m = r.b.model THEN Due(all, done, r) ELSE 0
          /\ Times(e.via, r) = IF m = r.via THEN Due(all, done, r) ELSE 0
    /\ Only(e.out, Keying(pro)) = KeyedOf(all, m)
    /\ Len(e.via) = IF m \in done THEN 1 ELSE 0

Listings(pro, rs, td) ==
    LET all  == AllDeclared(pro)
        done == InBetween(all, DOMAIN rs \ td)
    IN  /\ pro \in Projects
        /\ all \in Seq(GoodRels(pro))
        /\ td \subseteq DOMAIN rs /\ DOMAIN rs \subseteq ModelIds(pro)
        /\ \A r \in ToSet(all) : r.a.model \in DOMAIN rs /\ r.b.model \in DOMAIN rs
        /\ \A m \in DOMAIN rs : Listing(pro, all, done, m, rs[m])

\* The project failed, or what is listed is what is due.
RelInv == (todo = {} /\ rels = Failed) \/ Listings(project, rels, todo)

LEMMA OwnSet == ASSUME NEW S, NEW s \in Seq(S) PROVE s \in Seq(ToSet(s))
<1>1. Len(s) \in Nat /\ s \in [1..Len(s) -> S] /\ \A i \in 1..Len(s) : s[i] \in ToSet(s)
  BY LenProperties, ElementOfSeq, ToSetDef
<1> QED
  BY <1>1

LEMMA ModelNamed == ASSUME NEW pro \in Projects PROVE NoModel \notin ModelIds(pro)
<1>1. pro \in Seq(ToSet(pro)) /\ \A m \in ToSet(pro) : m.id # NoModel
  BY ProjectsAssumption DEF NoModel
<1>2. DOMAIN pro = 1..Len(pro) /\ \A i \in 1..Len(pro) : pro[i] \in ToSet(pro)
  BY <1>1, LenProperties, ElementOfSeq
<1> QED
  BY <1>1, <1>2 DEF ModelIds

\* The declared relations are some of those there can be.
LEMMA GoodIsAny ==
    ASSUME NEW pro
    PROVE  /\ GoodRels(pro) \subseteq AnyRels(pro)
           /\ \A r \in GoodRels(pro) : r.via = NoModel /\ (r.embed <=> r.b.key # PK)
<1>1. ASSUME NEW r \in GoodRels(pro) PROVE r \in AnyRels(pro)
  <2>1. /\ r \in [card : {"11", "N1", "1N"}, embed : BOOLEAN, via : {NoModel},
                  a : [model : ModelIds(pro), key : Nat],
                  b : [model : ModelIds(pro) \cup {NoModel}, key : {PK, NoKey}]]
        /\ r.b.model # NoModel
    BY DEF GoodRels, FieldRels
  <2>2. r.b \in [model : ModelIds(pro), key : Int] /\ r.a \in [model : ModelIds(pro), key : Int]
    BY <2>1, KeysDiffer
  <2>3. r = [card |-> r.card, embed |-> r.embed, via |-> r.via, a |-> r.a, b |-> r.b]
    BY <2>1
  <2>4. r.card \in {"", "11", "N1", "1N"} /\ r.embed \in BOOLEAN /\ r.via \in ModelIds(pro) \cup {NoModel}
    BY <2>1
  <2> QED
    BY <2>2, <2>3, <2>4 DEF AnyRels
<1>2. ASSUME NEW r \in GoodRels(pro) PROVE r.via = NoModel /\ (r.embed <=> r.b.key # PK)
  BY KeysDiffer DEF GoodRels, FieldRels
<1> QED
  BY <1>1, <1>2

\* The relations of a model's keys are outgoing ones of it.
LEMMA KeyedFacts ==
    ASSUME NEW pro, NEW all \in Seq(GoodRels(pro)), NEW m
    PROVE  /\ KeyedOf(all, m) \in Seq(GoodRels(pro))
           /\ ToSet(KeyedOf(all, m)) = {r \in ToSet(all) : r.a.model = m /\ ~r.embed}
<1> DEFINE S == GoodRels(pro)
           part == {r \in ToSet(all) : r.a.model = m /\ ~r.embed}
<1>1. KeyedOf(all, m) = Only(all, part)
  BY DEF KeyedOf
<1>2. part \subseteq ToSet(all)
  OBVIOUS
<1> HIDE DEF part, S
<1>3. Only(all, part) \in Seq(S)
  BY OnlyType DEF S
<1>4. ToSet(Only(all, part)) = ToSet(all) \cap part
  BY OnlySet
<1> QED
  BY <1>1, <1>2, <1>3, <1>4 DEF part, S

\* What was collected is what is due before any model was looked at.
LEMMA ListedFirst ==
    ASSUME NEW pro \in Projects, NEW rs, AllDeclared(pro) \in Seq(GoodRels(pro)),
           rs = Collected(AllDeclared(pro))
    PROVE  Listings(pro, rs, DOMAIN rs)
<1> DEFINE all == AllDeclared(pro)
           S == GoodRels(pro)
           A == AnyRels(pro)
<1>1. CollectedView(pro, all, rs)
  BY ModelNamed, CollectedIsView
<1>2. InBetween(all, DOMAIN rs \ DOMAIN rs) = {}
  BY DEF InBetween
<1>3. all \in Seq(S) /\ NoModel \notin ModelIds(pro)
  BY ModelNamed
<1> HIDE DEF all, S, A
<1>4. S \subseteq A /\ \A r \in S : r.via = NoModel /\ (r.embed <=> r.b.key # PK)
  BY GoodIsAny DEF S, A
<1>5. Seq(S) \subseteq Seq(A)
  BY <1>4
<1>6. ASSUME NEW m \in DOMAIN rs PROVE Listing(pro, all, {}, m, rs[m])
  <2> DEFINE O == OutOf(pro, m)
             I == Into(pro, m)
             e == rs[m]
  <2>1. e.out = Only(all, O) /\ e.in = Only(all, I) /\ e.via = << >> /\ m \in ModelIds(pro)
    <3>1. m \in ModelIds(pro) /\ ListedOf(rs, m) = e
      BY <1>1 DEF CollectedView, ListedOf
    <3>2. ListedOf(rs, m) = [out |-> Only(all, O), in |-> Only(all, I), via |-> << >>]
      BY <1>1, <3>1 DEF CollectedView
    <3> HIDE DEF e, O, I
    <3> QED
      BY <3>1, <3>2
  <2>2. /\ \A r : r \in O <=> r \in S /\ r.a.model = m
        /\ \A r : r \in I <=> r \in S /\ r.b.model = m
    BY DEF OutOf, Into, S
  <2> HIDE DEF e, O, I
  <2>3. Only(all, O) \in Seq(S) /\ Only(all, I) \in Seq(S)
    BY <1>3, OnlyType
  <2>4. ASSUME NEW r \in A
        PROVE  /\ Times(e.out, r) = IF m = r.a.model THEN Due(all, {}, r) ELSE 0
               /\ Times(e.in, r) = IF m = r.b.model THEN Due(all, {}, r) ELSE 0
               /\ Times(e.via, r) = IF m = r.via THEN Due(all, {}, r) ELSE 0
    <3>1. Times(Only(all, O), r) = IF r \in O THEN Times(all, r) ELSE 0
      BY <1>3, TimesOnly
    <3>2. Times(Only(all, I), r) = IF r \in I THEN Times(all, r) ELSE 0
      BY <1>3, TimesOnly
    <3>3. Times(all, r) \in Nat /\ (Times(all, r) > 0 <=> r \in ToSet(all))
      BY <1>3, TimesNat
    <3>4. ToSet(all) \subseteq S
      BY <1>3, ToSetDef
    <3>5. r \notin S => Times(all, r) = 0
      BY <3>3, <3>4
    <3>6. Due(all, {}, r) = IF r.via = NoModel THEN Times(all, r) ELSE 0
      BY DEF Due
    <3>7. m # NoModel
      BY <1>3, <2>1
    <3>8. Times(<< >>, r) = 0
      BY TimesEmpty
    <3> QED
      BY <1>4, <2>1, <2>2, <3>1, <3>2, <3>5, <3>6, <3>7, <3>8
  <2>5. Only(e.out, Keying(pro)) = KeyedOf(all, m)
    <3> DEFINE T == ToSet(all)
               K == Keying(pro)
               P == {r \in ToSet(all) : r.a.model = m /\ ~r.embed}
    <3>1. KeyedOf(all, m) = Only(all, P)
      BY DEF KeyedOf
    <3>2. all \in Seq(T) /\ T \subseteq S
      BY <1>3, OwnSet, ToSetDef
    <3>3. (O \cap K) \cap T = P \cap T
      BY <1>4, <2>2, <3>2 DEF Keying, A
    <3> HIDE DEF T, K, P
    <3>4. Only(Only(all, O), K) = Only(all, O \cap K)
      BY <1>3, OnlyOnly
    <3>5. Only(all, O \cap K) = Only(all, P)
      BY <3>2, <3>3, OnlySame
    <3> QED
      BY <2>1, <3>1, <3>4, <3>5 DEF K
  <2>6. << >> \in Seq(A) /\ Len(<< >>) = 0
    BY EmptySeq
  <2> QED
    BY <1>5, <2>1, <2>3, <2>4, <2>5, <2>6 DEF Listing, e, A
<1> QED
  BY <1>1, <1>2, <1>3, <1>6 DEF Listings, CollectedView, all, S

-----------------------------------------------------------------------------
(* The relations through the models in between. *)

LEMMA JointType ==
    ASSUME NEW pro, NEW all \in Seq(GoodRels(pro)), NEW m \in ModelIds(pro),
           Len(KeyedOf(all, m)) >= 2
    PROVE  /\ Joint(all, m) \in AnyRels(pro)
           /\ \E r, q \in ToSet(all) : /\ Joint(all, m).a = r.b /\ Joint(all, m).b = q.b
           /\ \E r \in ToSet(all) : r.a.model = m
<1> DEFINE ks == KeyedOf(all, m)
           S == GoodRels(pro)
           j == Joint(all, m)
<1>1. ks \in Seq(S) /\ ToSet(ks) = {r \in ToSet(all) : r.a.model = m /\ ~r.embed}
  BY KeyedFacts
<1> HIDE DEF ks, S
<1>2. Len(ks) \in Nat /\ \A i \in 1..Len(ks) : ks[i] \in S /\ ks[i] \in ToSet(ks)
  BY <1>1, LenProperties, ElementOfSeq, ToSetDef
<1>3. 1 \in 1..Len(ks) /\ 2 \in 1..Len(ks)
  BY <1>2 DEF ks
<1>4. \A r \in S : r.b \in [model : ModelIds(pro), key : Int]
  <2>1. \A r \in S : r \in AnyRels(pro)
    BY GoodIsAny DEF S
  <2> QED
    BY <2>1 DEF AnyRels
<1>5. j = [card |-> "", embed |-> FALSE, via |-> m, a |-> ks[1].b, b |-> ks[2].b]
  BY DEF Joint, ks
<1> HIDE DEF j
<1>6. j \in AnyRels(pro) /\ j.a = ks[1].b /\ j.b = ks[2].b
  BY <1>2, <1>3, <1>4, <1>5 DEF AnyRels
<1>7. ks[1] \in ToSet(all) /\ ks[2] \in ToSet(all) /\ ks[1].a.model = m
  BY <1>1, <1>2, <1>3
<1> QED
  BY <1>6, <1>7 DEF j

\* Looking at one more model, only the relation it makes becomes due.
LEMMA DueOnce ==
    ASSUME NEW all, NEW done, NEW m, m # NoModel, m \notin done, NEW r, Times(all, r) \in Nat
    PROVE  Due(all, done \cup {m}, r) =
              Due(all, done, r) + (IF Joint(all, m) = r THEN 1 ELSE 0)
<1>1. Joint(all, m).via = m
  BY DEF Joint
<1> DEFINE j == Joint(all, m)
<1>2. CASE r = j
  <2>1. r.via = m /\ r = Joint(all, r.via)
    BY <1>1, <1>2
  <2> QED
    BY <1>2, <2>1 DEF Due
<1>3. CASE r # j
  <2>1. r.via # m \/ r # Joint(all, r.via)
    BY <1>3
  <2>2. Due(all, done \cup {m}, r) = Due(all, done, r)
    BY <2>1 DEF Due
  <2>3. Due(all, done, r) \in Nat
    BY DEF Due
  <2> HIDE DEF j
  <2> QED
    BY <1>3, <2>2, <2>3 DEF j
<1> QED
  BY <1>2, <1>3

\* What is due after one more model was looked at is listed.
LEMMA ListedAgain ==
    ASSUME NEW pro \in Projects, NEW all \in Seq(GoodRels(pro)), NEW done,
           NEW m \in ModelIds(pro), m \notin done, Len(KeyedOf(all, m)) >= 2,
           NEW rs, NEW n \in DOMAIN rs, Listing(pro, all, done, n, rs[n])
    PROVE  Listing(pro, all, done \cup {m}, n, Added(rs, Joint(all, m), n))
<1> DEFINE j == Joint(all, m)
           A == AnyRels(pro)
           e == rs[n]
           q == Added(rs, j, n)
           now == done \cup {m}
<1>1. j \in A /\ j.via = m
  BY JointType DEF Joint
<1>2. m # NoModel /\ ToSet(all) \subseteq GoodRels(pro)
  BY ModelNamed, ToSetDef
<1>3. /\ q.out = IF n = j.a.model THEN Append(e.out, j) ELSE e.out
      /\ q.in = IF n = j.b.model THEN Append(e.in, j) ELSE e.in
      /\ q.via = IF n = j.via THEN Append(e.via, j) ELSE e.via
  BY DEF Added
<1> HIDE DEF j, q, e, A, now
<1>4. /\ e.out \in Seq(A) /\ e.in \in Seq(A) /\ e.via \in Seq(A)
      /\ \A r \in A :
            /\ Times(e.out, r) = IF n = r.a.model THEN Due(all, done, r) ELSE 0
            /\ Times(e.in, r) = IF n = r.b.model THEN Due(all, done, r) ELSE 0
            /\ Times(e.via, r) = IF n = r.via THEN Due(all, done, r) ELSE 0
      /\ Only(e.out, Keying(pro)) = KeyedOf(all, n)
      /\ Len(e.via) = IF n \in done THEN 1 ELSE 0
  BY DEF Listing, A, e
<1>5. q.out \in Seq(A) /\ q.in \in Seq(A) /\ q.via \in Seq(A)
  BY <1>1, <1>3, <1>4, AppendProperties
<1>6. ASSUME NEW r \in A
      PROVE  /\ Times(q.out, r) = IF n = r.a.model THEN Due(all, now, r) ELSE 0
             /\ Times(q.in, r) = IF n = r.b.model THEN Due(all, now, r) ELSE 0
             /\ Times(q.via, r) = IF n = r.via THEN Due(all, now, r) ELSE 0
  <2> DEFINE one == IF j = r THEN 1 ELSE 0
  <2>1. Times(all, r) \in Nat
    BY TimesNat
  <2>2. Due(all, now, r) = Due(all, done, r) + one /\ Due(all, done, r) \in Nat
    <3>1. Due(all, now, r) = Due(all, done, r) + one
      BY <1>2, <2>1, DueOnce DEF j, now
    <3>2. Due(all, done, r) \in Nat
      BY <2>1 DEF Due
    <3> QED
      BY <3>1, <3>2
  <2>3. \A s \in Seq(A) : Times(Append(s, j), r) = Times(s, r) + one
    BY <1>1, TimesAppend
  <2>4. Times(q.out, r) = IF n = j.a.model THEN Times(e.out, r) + one ELSE Times(e.out, r)
    BY <1>3, <1>4, <2>3
  <2>5. Times(q.in, r) = IF n = j.b.model THEN Times(e.in, r) + one ELSE Times(e.in, r)
    BY <1>3, <1>4, <2>3
  <2>6. Times(q.via, r) = IF n = j.via THEN Times(e.via, r) + one ELSE Times(e.via, r)
    BY <1>3, <1>4, <2>3
  <2> DEFINE due == Due(all, done, r)
  <2>7. /\ Times(e.out, r) = IF n = r.a.model THEN due ELSE 0
        /\ Times(e.in, r) = IF n = r.b.model THEN due ELSE 0
        /\ Times(e.via, r) = IF n = r.via THEN due ELSE 0
    BY <1>4
  <2> HIDE DEF due
  <2>8. due \in Nat /\ Due(all, now, r) = due + one
    BY <2>2 DEF due
  <2>9. CASE j = r
    BY <2>4, <2>5, <2>6, <2>7, <2>8, <2>9
  <2>10. CASE j # r
    BY <2>4, <2>5, <2>6, <2>7, <2>8, <2>10
  <2> QED
    BY <2>9, <2>10
<1>7. Only(q.out, Keying(pro)) = KeyedOf(all, n)
  <2> DEFINE K == Keying(pro)
             s == e.out
  <2>1. j \notin K
    BY <1>1, <1>2 DEF Keying
  <2> HIDE DEF K, s
  <2>2. Only(Append(s, j), K) = IF j \in K THEN Append(Only(s, K), j) ELSE Only(s, K)
    <3>1. s \in Seq(A)
      BY <1>4 DEF s
    <3> QED
      BY <1>1, <3>1, OnlyAppend
  <2> QED
    BY <1>3, <1>4, <2>1, <2>2 DEF K, s
<1>8. Len(q.via) = IF n \in now THEN 1 ELSE 0
  <2>1. Len(Append(e.via, j)) = Len(e.via) + 1
    BY <1>1, <1>4, AppendProperties
  <2> QED
    BY <1>1, <1>3, <1>4, <2>1 DEF now
<1> QED
  BY <1>5, <1>6, <1>7, <1>8 DEF Listing, A, q, j, now

LEMMA RelInvInit == RelationsInit => RelInv
<1> SUFFICES ASSUME RelationsInit, rels # Failed PROVE Listings(project, rels, todo)
  BY DEF RelationsInit, RelInv
<1> DEFINE all == AllDeclared(project)
<1>1. /\ project \in Projects /\ todo = DOMAIN rels
      /\ \A k \in DOMAIN all : all[k].b.model # NoModel
      /\ rels = Collected(all)
  BY DEF RelationsInit
<1>2. all \in Seq(FieldRels(project))
  BY <1>1, AllDeclaredType
<1> HIDE DEF all
<1>3. all \in Seq(GoodRels(project))
  <2>1. Len(all) \in Nat /\ DOMAIN all = 1..Len(all) /\ \A k \in 1..Len(all) : all[k] \in FieldRels(project)
    BY <1>2, LenProperties, ElementOfSeq
  <2>2. \A k \in 1..Len(all) : all[k] \in GoodRels(project)
    BY <1>1, <2>1 DEF GoodRels
  <2>3. all \in [1..Len(all) -> GoodRels(project)]
    BY <1>2, <2>1, <2>2
  <2> QED
    BY <2>1, <2>3
<1>4. Listings(project, rels, DOMAIN rels)
  BY <1>1, <1>3, ListedFirst DEF all
<1> QED
  BY <1>1, <1>4

\* The relations a model is in between of are those it declares with its keys.
LEMMA BetweenIsKeyed ==
    ASSUME NEW m \in DOMAIN rels, NEW all, NEW done, Listing(project, all, done, m, rels[m])
    PROVE  Between(m) = KeyedOf(all, m)
<1> DEFINE s == rels[m].out
           A == AnyRels(project)
           T == ToSet(s)
           K == Keying(project)
           part == {r \in T : r.via = NoModel /\ r.b.key = PK /\ ~r.embed}
<1>1. s \in Seq(A) /\ Only(s, K) = KeyedOf(all, m)
  BY DEF Listing
<1>2. Between(m) = Only(s, part)
  BY DEF Between
<1>3. part \cap T = K \cap T
  <2>1. T \subseteq A
    BY <1>1, ToSetDef
  <2> HIDE DEF T
  <2> QED
    BY <2>1 DEF Keying
<1> HIDE DEF s, A, K, part
<1>4. s \in Seq(T)
  BY <1>1, OwnSet
<1> HIDE DEF T
<1>5. Only(s, part) = Only(s, K)
  BY <1>3, <1>4, OnlySame
<1> QED
  BY <1>1, <1>2, <1>5

LEMMA RelInvNext == RelInv /\ [RelationsNext]_relVars => RelInv'
<1> SUFFICES ASSUME RelInv, [RelationsNext]_relVars PROVE RelInv'
  OBVIOUS
<1>1. CASE UNCHANGED relVars
  BY <1>1 DEF RelInv, relVars
<1>2. CASE Intermediate
  <2>1. PICK m \in todo :
           /\ todo' = todo \ {m} /\ project' = project
           /\ rels' = IF Len(Between(m)) < 2 THEN rels
                      ELSE AddRel(rels, [card |-> "", embed |-> FALSE, via |-> m,
                                         a |-> Between(m)[1].b, b |-> Between(m)[2].b])
    BY <1>2 DEF Intermediate
  <2>2. Listings(project, rels, todo)
    BY <2>1 DEF RelInv
  <2> DEFINE all == AllDeclared(project)
             done == InBetween(all, DOMAIN rels \ todo)
             left == todo \ {m}
             now == InBetween(all, DOMAIN rels \ left)
             D == DOMAIN rels
  <2>3. /\ project \in Projects
        /\ all \in Seq(GoodRels(project))
        /\ todo \subseteq D /\ D \subseteq ModelIds(project)
        /\ \A r \in ToSet(all) : r.a.model \in D /\ r.b.model \in D
        /\ \A n \in D : Listing(project, all, done, n, rels[n])
    BY <2>2 DEF Listings
  <2> HIDE DEF all
  <2>4. m \in D /\ left \subseteq D /\ m \notin done
    BY <2>1, <2>3 DEF InBetween
  <2>5. Between(m) = KeyedOf(all, m)
    <3> HIDE DEF done
    <3> QED
      BY <2>3, <2>4, BetweenIsKeyed
  <2>6. KeyedOf(all, m) \in Seq(GoodRels(project)) /\ Len(KeyedOf(all, m)) \in Nat
    <3>1. KeyedOf(all, m) \in Seq(GoodRels(project))
      BY <2>3, KeyedFacts
    <3> QED
      BY <3>1, LenProperties
  <2>7. Listings(project, rels', left)
    <3>1. CASE Len(Between(m)) < 2
      <4>1. rels' = rels /\ now = done
        BY <2>1, <2>5, <2>6, <3>1 DEF InBetween
      <4>2. \A n \in D : Listing(project, all, now, n, rels[n])
        BY <2>3, <4>1
      <4> QED
        BY <2>3, <2>4, <4>1, <4>2 DEF Listings, all
    <3>2. CASE ~(Len(Between(m)) < 2)
      <4> DEFINE j == Joint(all, m)
                 qs == AddRel(rels, j)
      <4>1. Len(KeyedOf(all, m)) >= 2 /\ rels' = qs
        <5>1. j = [card |-> "", embed |-> FALSE, via |-> m,
                   a |-> Between(m)[1].b, b |-> Between(m)[2].b]
          BY <2>5 DEF Joint
        <5>2. rels' = qs
          <6> HIDE DEF j
          <6> QED
            BY <2>1, <3>2, <5>1
        <5> HIDE DEF qs
        <5> QED
          BY <2>5, <2>6, <3>2, <5>2
      <4>2. now = done \cup {m}
        BY <2>4, <4>1 DEF InBetween
      <4>3. j.a.model \in D /\ j.b.model \in D /\ j.via \in D
        <5>1. \E r, q \in ToSet(all) : j.a = r.b /\ j.b = q.b
          BY <2>3, <2>4, <4>1, JointType
        <5> QED
          BY <2>3, <2>4, <5>1 DEF Joint
      <4> HIDE DEF j
      <4>4. qs = [n \in D |-> Added(rels, j, n)] /\ DOMAIN qs = D
        BY <4>3 DEF AddRel
      <4>5. ASSUME NEW n \in D PROVE Listing(project, all, now, n, qs[n])
        <5>1. Listing(project, all, done \cup {m}, n, Added(rels, j, n))
          <6> HIDE DEF done
          <6> QED
            BY <2>3, <2>4, <4>1, ListedAgain DEF j
        <5> HIDE DEF now, done, qs
        <5> QED
          BY <4>2, <4>4, <5>1
      <4> HIDE DEF qs
      <4> QED
        BY <2>3, <2>4, <4>1, <4>4, <4>5 DEF Listings, all
    <3> QED
      BY <3>1, <3>2
  <2> HIDE DEF all, done, now, D
  <2> QED
    BY <2>1, <2>7 DEF RelInv
<1> QED
  BY <1>1, <1>2 DEF RelationsNext

LEMMA RelInvMirrors == RelInv => RelationsMirror
<1> SUFFICES ASSUME RelInv, todo = {}, rels # Failed PROVE RelationsMirror
  BY DEF RelationsMirror
<1> DEFINE all == AllDeclared(project)
           D == DOMAIN rels
           done == InBetween(all, D \ todo)
           A == AnyRels(project)
           found == UNION {ToSet(rels[m].out) : m \in DOMAIN rels}
           listed(f) == UNION {ToSet(rels[m][f]) : m \in DOMAIN rels}
           times(m, f, r) == IF m \in DOMAIN rels THEN Times(rels[m][f], r) ELSE 0
           number(r) == IF r.via = NoModel THEN Times(all, r)
                        ELSE IF Len(KeyedOf(all, r.via)) >= 2 /\ r.a = KeyedOf(all, r.via)[1].b
                                /\ r.b = KeyedOf(all, r.via)[2].b THEN 1 ELSE 0
<1>1. /\ project \in Projects
      /\ all \in Seq(GoodRels(project))
      /\ D \subseteq ModelIds(project)
      /\ \A r \in ToSet(all) : r.a.model \in D /\ r.b.model \in D
      /\ \A m \in D : Listing(project, all, done, m, rels[m])
  BY DEF RelInv, Listings
<1>2. done = {m \in D : Len(KeyedOf(all, m)) >= 2}
  BY DEF InBetween
<1> HIDE DEF all, done
<1>3. \A m \in D :
         /\ rels[m].out \in Seq(A) /\ rels[m].in \in Seq(A) /\ rels[m].via \in Seq(A)
         /\ \A r \in A :
               /\ Times(rels[m].out, r) = IF m = r.a.model THEN Due(all, done, r) ELSE 0
               /\ Times(rels[m].in, r) = IF m = r.b.model THEN Due(all, done, r) ELSE 0
               /\ Times(rels[m].via, r) = IF m = r.via THEN Due(all, done, r) ELSE 0
         /\ Len(rels[m].via) = IF m \in done THEN 1 ELSE 0
  BY <1>1 DEF Listing
<1>4. ToSet(all) \subseteq A /\ \A r \in ToSet(all) : r.via = NoModel
  <2>1. ToSet(all) \subseteq GoodRels(project)
    BY <1>1, ToSetDef
  <2> QED
    BY <2>1, GoodIsAny
<1> HIDE DEF A, D
<1>5. ASSUME NEW r \in found \cup ToSet(all) \cup listed("in") \cup listed("via")
      PROVE  r \in A /\ Due(all, done, r) > 0
  <2>1. CASE r \in ToSet(all)
    <3>1. Times(all, r) > 0
      BY <1>1, <2>1, TimesNat
    <3> QED
      BY <1>4, <2>1, <3>1 DEF Due
  <2>2. CASE r \notin ToSet(all)
    <3>1. \E m \in D : \E s \in {rels[m].out, rels[m].in, rels[m].via} : r \in ToSet(s)
      BY <2>2 DEF D
    <3>2. PICK m \in D : \E s \in {rels[m].out, rels[m].in, rels[m].via} : r \in ToSet(s)
      BY <3>1
    <3> PICK s \in {rels[m].out, rels[m].in, rels[m].via} : r \in ToSet(s)
      BY <3>2
    <3>3. s \in Seq(A)
      BY <1>3
    <3>4. r \in A /\ Times(s, r) > 0
      BY <3>3, TimesNat, ToSetDef
    <3>5. Times(s, r) = 0 \/ Times(s, r) = Due(all, done, r)
      BY <1>3, <3>4
    <3> QED
      BY <3>4, <3>5
  <2> QED
    BY <2>1, <2>2
<1>6. ASSUME NEW r, Due(all, done, r) > 0 PROVE number(r) = Due(all, done, r)
  <2>1. CASE r.via = NoModel
    BY <2>1 DEF Due
  <2>2. CASE r.via # NoModel
    <3>1. r.via \in done /\ r = Joint(all, r.via) /\ Due(all, done, r) = 1
      BY <1>6, <2>2 DEF Due
    <3>2. r.a = KeyedOf(all, r.via)[1].b /\ r.b = KeyedOf(all, r.via)[2].b
      <4>1. \A m : /\ Joint(all, m).a = KeyedOf(all, m)[1].b
                   /\ Joint(all, m).b = KeyedOf(all, m)[2].b
        BY DEF Joint
      <4> QED
        BY <3>1, <4>1
    <3> QED
      BY <1>2, <2>2, <3>1, <3>2
  <2> QED
    BY <2>1, <2>2
<1>7. ASSUME NEW r \in found \cup ToSet(all) \cup listed("in") \cup listed("via")
      PROVE  /\ number(r) > 0
             /\ \A m \in DOMAIN rels :
                   /\ times(m, "out", r) = IF m = r.a.model THEN number(r) ELSE 0
                   /\ times(m, "in", r) = IF m = r.b.model THEN number(r) ELSE 0
                   /\ times(m, "via", r) = IF m = r.via THEN number(r) ELSE 0
  <2>1. r \in A /\ Due(all, done, r) > 0
    BY <1>5
  <2>2. number(r) = Due(all, done, r)
    BY <1>6, <2>1
  <2> HIDE DEF number, found, listed
  <2> QED
    BY <1>3, <2>1, <2>2 DEF D
<1>8. \A m \in ModelIds(project) : Len(KeyedOf(all, m)) >= 2 => Len(rels[m].via) = 1
  <2> SUFFICES ASSUME NEW m \in ModelIds(project), Len(KeyedOf(all, m)) >= 2
               PROVE  Len(rels[m].via) = 1
    OBVIOUS
  <2>1. \E r \in ToSet(all) : r.a.model = m
    BY <1>1, JointType
  <2>2. m \in D
    BY <1>1, <2>1
  <2> QED
    BY <1>2, <1>3, <2>2
<1> HIDE DEF number, times, found, listed
<1> QED
  BY <1>7, <1>8 DEF RelationsMirror, KeyedOf, number, times, found, listed, all

\* Whatever order the second loop takes, every relation is listed at its ends.
THEOREM RelationsAreMirrored == RelsSpec => []RelationsMirror
<1>1. RelationsInit => RelInv
  BY RelInvInit
<1>2. RelInv /\ [RelationsNext]_relVars => RelInv'
  BY RelInvNext
<1>3. RelInv => RelationsMirror
  BY RelInvMirrors
<1> QED
  BY <1>1, <1>2, <1>3, PTL DEF RelsSpec

-----------------------------------------------------------------------------
(* Queries: the fields and what With and Without do to them. *)

\* The names of fields; that "_" is a string is not known to the provers.
KeyNames == (STRING \ {""}) \cup {"_"}
Fields == [key : KeyNames, exp : BOOLEAN]
Decls  == [mark : {"", "+", "-", "_"}, key : STRING, exp : BOOLEAN]

LEMMA KeyNamed == \A k \in KeyNames : k # ""
  BY DEF KeyNames

LEMMA FieldFacts ==
    /\ \A k, e : Field(k, e).key = k /\ Field(k, e).exp = e
    /\ \A k \in KeyNames, e \in BOOLEAN : Field(k, e) \in Fields
    /\ \A g \in Fields : /\ g = Field(g.key, g.exp) /\ g.exp \in BOOLEAN
                         /\ g.key \in KeyNames
<1>1. \A k, e : Field(k, e).key = k /\ Field(k, e).exp = e
  BY DEF Field
<1>3. \A k \in KeyNames, e \in BOOLEAN : Field(k, e) \in Fields
  BY DEF Field, Fields
<1>4. ASSUME NEW g \in Fields
      PROVE  g = Field(g.key, g.exp) /\ g.exp \in BOOLEAN /\ g.key \in KeyNames
  BY DEF Field, Fields
<1> QED
  BY <1>1, <1>3, <1>4

LEMMA FieldSame == \A k, e, b : Field(k, e) = Field(k, b) <=> e = b
  BY FieldFacts

LEMMA KeyedSet ==
    ASSUME NEW fs \in Seq(Fields)
    PROVE  /\ Keyed(fs) = {f.key : f \in ToSet(fs)}
           /\ ToSet(fs) \subseteq Fields
           /\ fs = << >> <=> Keyed(fs) = {}
<1>1. /\ ToSet(fs) = {fs[i] : i \in 1..Len(fs)} /\ ToSet(fs) \subseteq Fields
      /\ DOMAIN fs = 1..Len(fs) /\ Len(fs) \in Nat
  BY ToSetDef, LenProperties
<1>2. Keyed(fs) = {fs[i].key : i \in 1..Len(fs)}
  BY <1>1 DEF Keyed
<1>3. fs = << >> <=> Len(fs) = 0
  BY EmptySeq
<1>4. Keyed(fs) = {} <=> Len(fs) = 0
  <2>1. Len(fs) # 0 => fs[1].key \in Keyed(fs)
    BY <1>1, <1>2
  <2>2. Len(fs) = 0 => 1..Len(fs) = {}
    OBVIOUS
  <2> QED
    BY <1>2, <2>1, <2>2
<1>5. {fs[i].key : i \in 1..Len(fs)} = {f.key : f \in {fs[i] : i \in 1..Len(fs)}}
  OBVIOUS
<1>6. Keyed(fs) = {f.key : f \in ToSet(fs)}
  BY <1>1, <1>2, <1>5
<1> QED
  BY <1>1, <1>3, <1>4, <1>6

\* What With and Without do to the set of fields.
LEMMA WithSet ==
    ASSUME NEW fs \in Seq(Fields), NEW f \in Fields
    PROVE  /\ With(fs, f) \in Seq(Fields)
           /\ ToSet(With(fs, f)) = {g \in ToSet(fs) : g.key # f.key} \cup {f}
<1> DEFINE N == Len(fs)
           z == With(fs, f)
<1>1. /\ N \in Nat /\ DOMAIN fs = 1..N /\ \A i \in 1..N : fs[i] \in Fields
      /\ ToSet(fs) = {fs[i] : i \in 1..N}
  BY LenProperties, ElementOfSeq, ToSetDef
<1>2. CASE f.key \in Keyed(fs)
  <2> DEFINE to == [i \in 1..N |-> IF fs[i].key = f.key THEN f ELSE fs[i]]
  <2>1. z = to
    BY <1>1, <1>2 DEF With
  <2> HIDE DEF z, N
  <2>2. to \in [1..N -> Fields] /\ to \in Seq(Fields) /\ Len(to) = N
    BY <1>1
  <2>3. PICK p \in 1..N : fs[p].key = f.key
    BY <1>1, <1>2 DEF Keyed
  <2>4. ToSet(to) = {to[i] : i \in 1..N}
    <3> HIDE DEF to
    <3> QED
      BY <2>2, ToSetDef
  <2>5. \A i \in 1..N : to[i] = IF fs[i].key = f.key THEN f ELSE fs[i]
    OBVIOUS
  <2> HIDE DEF to
  <2>6. to[p] = f
    BY <2>3, <2>5
  <2>7. ToSet(to) = {g \in ToSet(fs) : g.key # f.key} \cup {f}
    <3>1. ASSUME NEW g \in ToSet(to) PROVE g \in {h \in ToSet(fs) : h.key # f.key} \cup {f}
      BY <1>1, <2>4, <2>5
    <3>2. ASSUME NEW g \in ToSet(fs), g.key # f.key PROVE g \in ToSet(to)
      BY <1>1, <2>4, <2>5, <3>2
    <3>3. f \in ToSet(to)
      BY <2>3, <2>4, <2>6
    <3> QED
      BY <3>1, <3>2, <3>3
  <2> QED
    BY <2>1, <2>2, <2>7 DEF z
<1>3. CASE f.key \notin Keyed(fs)
  <2>1. z = Append(fs, f)
    BY <1>3 DEF With
  <2>2. Append(fs, f) \in Seq(Fields) /\ ToSet(Append(fs, f)) = ToSet(fs) \cup {f}
    BY AppendProperties, ToSetAppend
  <2>3. \A g \in ToSet(fs) : g.key # f.key
    BY <1>3, KeyedSet
  <2> QED
    BY <2>1, <2>2, <2>3
<1> QED
  BY <1>2, <1>3

LEMMA WithoutSet ==
    ASSUME NEW fs \in Seq(Fields), NEW key
    PROVE  /\ Without(fs, key) \in Seq(Fields)
           /\ ToSet(Without(fs, key)) = {g \in ToSet(fs) : g.key # key}
<1> DEFINE part == {f \in ToSet(fs) : f.key # key}
<1>1. Without(fs, key) = Only(fs, part) /\ ToSet(fs) \cap part = part
  BY DEF Without
<1> HIDE DEF part
<1>2. Only(fs, part) \in Seq(Fields)
  BY OnlyType
<1>3. ToSet(Only(fs, part)) = ToSet(fs) \cap part
  BY OnlySet
<1> QED
  BY <1>1, <1>2, <1>3 DEF part

\* A selection starts with the fields of the subject.
LEMMA SubjFieldsSet ==
    /\ SubjFields \in Seq(Fields)
    /\ ToSet(SubjFields) = {Field(k, FALSE) : k \in ToSet(SubjKeys)}
    /\ ToSet(SubjKeys) \subseteq KeyNames
<1> DEFINE N == Len(SubjKeys)
           S == KeyNames
<1>1. SubjKeys \in Seq(S)
  <2> DEFINE T == STRING \ {""}
  <2>1. SubjKeys \in Seq(T) /\ T \subseteq S
    BY ListQueryAssumption DEF KeyNames
  <2> HIDE DEF S, T
  <2> QED
    BY <2>1
<1>2. /\ N \in Nat /\ DOMAIN SubjKeys = 1..N /\ \A i \in 1..N : SubjKeys[i] \in S
      /\ ToSet(SubjKeys) = {SubjKeys[i] : i \in 1..N} /\ ToSet(SubjKeys) \subseteq S
  <2> HIDE DEF S
  <2> QED
    BY <1>1, LenProperties, ElementOfSeq, ToSetDef
<1>3. SubjFields = [i \in 1..N |-> Field(SubjKeys[i], FALSE)]
  BY <1>2 DEF SubjFields
<1>4. \A i \in 1..N : Field(SubjKeys[i], FALSE) \in Fields
  BY <1>2 DEF Field, Fields
<1> HIDE DEF N
<1> DEFINE at(i) == Field(SubjKeys[i], FALSE)
           F == Fields
<1>5. SubjFields \in [1..N -> Fields] /\ SubjFields \in Seq(Fields) /\ Len(SubjFields) = N
  <2>1. SubjFields = [i \in 1..N |-> at(i)] /\ \A i \in 1..N : at(i) \in F
    BY <1>3, <1>4
  <2> HIDE DEF at, F
  <2>2. SubjFields \in [1..N -> F]
    BY <2>1
  <2>0. N \in Nat
    BY <1>2
  <2>3. [i \in 1..N |-> at(i)] \in Seq(F)
    BY <2>0, <2>1
  <2>4. Len([i \in 1..N |-> at(i)]) = N
    BY <2>0
  <2> QED
    BY <2>1, <2>2, <2>3, <2>4 DEF F
<1>6. ToSet(SubjFields) = {SubjFields[i] : i \in 1..N}
  BY <1>5, ToSetDef
<1>7. ToSet(SubjFields) = {Field(SubjKeys[i], FALSE) : i \in 1..N}
  BY <1>3, <1>6
<1>8. {Field(SubjKeys[i], FALSE) : i \in 1..N} = {Field(k, FALSE) : k \in ToSet(SubjKeys)}
  BY <1>2
<1> QED
  BY <1>2, <1>5, <1>7, <1>8

-----------------------------------------------------------------------------
(* What the declarations up to any of them ask for. *)

LEMMA MarkFirst == ASSUME NEW ds PROVE Mark(ds, 0) = ""
<1>1. {j \in 1..0 : ds[j].mark # ""} = {}
  OBVIOUS
<1> QED
  BY <1>1 DEF Mark

LEMMA MarkNext ==
    ASSUME NEW ds, NEW n \in Nat
    PROVE  Mark(ds, n + 1) = IF ds[n + 1].mark # "" THEN ds[n + 1].mark ELSE Mark(ds, n)
<1> DEFINE was == {j \in 1..n : ds[j].mark # ""}
           now == {j \in 1..(n + 1) : ds[j].mark # ""}
           last(s) == CHOOSE j \in s : \A k \in s : k <= j
<1>1. /\ Mark(ds, n) = IF was = {} THEN "" ELSE ds[last(was)].mark
      /\ Mark(ds, n + 1) = IF now = {} THEN "" ELSE ds[last(now)].mark
  BY DEF Mark
<1>2. \A j \in 1..(n + 1) : j \in 1..n \/ j = n + 1
  OBVIOUS
<1>3. n + 1 \in 1..(n + 1) /\ 1..n \subseteq 1..(n + 1)
  OBVIOUS
<1>4. CASE ds[n + 1].mark # ""
  <2>0. \A k \in 1..(n + 1) : k <= n + 1 /\ (n + 1 <= k => k = n + 1)
    OBVIOUS
  <2>1. n + 1 \in now /\ \A k \in now : k <= n + 1
    BY <1>3, <1>4, <2>0
  <2>2. \A j \in now : n + 1 <= j => j = n + 1
    BY <2>0
  <2> HIDE DEF now
  <2>3. last(now) \in now /\ n + 1 <= last(now)
    BY <2>1
  <2>4. last(now) = n + 1
    BY <2>2, <2>3
  <2> QED
    BY <1>1, <1>4, <2>1, <2>4
<1>5. CASE ds[n + 1].mark = ""
  <2>1. now = was
    BY <1>2, <1>3, <1>5
  <2> QED
    BY <1>1, <1>5, <2>1
<1> QED
  BY <1>4, <1>5

\* What the first n declarations ask of key k.
MentionedIn(ds, n, k) ==
    {i \in 1..n : /\ ds[i].key = k /\ Mark(ds, i) # ""
                  /\ \A j \in i..n : ds[j].mark # "_"}
AskedIn(ds, n, k) ==
    LET is == MentionedIn(ds, n, k)
        last == CHOOSE i \in is : \A j \in is : j <= i
    IN  IF is = {}
        THEN IF (\A i \in 1..n : ds[i].mark # "_") /\ k \in ToSet(SubjKeys) THEN "field" ELSE "no"
        ELSE IF Mark(ds, last) = "-" THEN "no"
        ELSE IF ds[last].exp THEN "exp" ELSE "field"

LEMMA AskedAll ==
    ASSUME NEW ds \in Seq(Decls), NEW k
    PROVE  Asked(ds, k) = AskedIn(ds, Len(ds), k) /\ Mentions(ds, k) = MentionedIn(ds, Len(ds), k)
<1>1. DOMAIN ds = 1..Len(ds)
  BY LenProperties
<1>2. Mentions(ds, k) = MentionedIn(ds, Len(ds), k)
  BY <1>1 DEF Mentions, MentionedIn
<1>3. ~Cleared(ds) <=> \A i \in 1..Len(ds) : ds[i].mark # "_"
  BY <1>1 DEF Cleared
<1> QED
  BY <1>2, <1>3 DEF Asked, AskedIn

LEMMA AskedFirst ==
    ASSUME NEW ds, NEW k
    PROVE  AskedIn(ds, 0, k) = IF k \in ToSet(SubjKeys) THEN "field" ELSE "no"
<1>1. 1..0 = {}
  OBVIOUS
<1>2. MentionedIn(ds, 0, k) = {}
  BY <1>1 DEF MentionedIn
<1> QED
  BY <1>1, <1>2 DEF AskedIn

LEMMA AskedNext ==
    ASSUME NEW ds, NEW n \in Nat, NEW k
    PROVE  AskedIn(ds, n + 1, k) =
              IF ds[n + 1].mark = "_" THEN "no"
              ELSE IF ds[n + 1].key = k /\ Mark(ds, n + 1) # ""
              THEN IF Mark(ds, n + 1) = "-" THEN "no"
                   ELSE IF ds[n + 1].exp THEN "exp" ELSE "field"
              ELSE AskedIn(ds, n, k)
<1> DEFINE d == ds[n + 1]
           was == MentionedIn(ds, n, k)
           now == MentionedIn(ds, n + 1, k)
           last(s) == CHOOSE i \in s : \A j \in s : j <= i
<1>1. /\ \A j \in 1..(n + 1) : j \in 1..n \/ j = n + 1
      /\ n + 1 \in 1..(n + 1) /\ 1..n \subseteq 1..(n + 1)
      /\ \A i \in 1..n : \A j \in i..(n + 1) : j \in i..n \/ j = n + 1
      /\ \A i \in 1..n : n + 1 \in i..(n + 1) /\ i..n \subseteq i..(n + 1)
      /\ \A j \in (n + 1)..(n + 1) : j = n + 1
  OBVIOUS
<1>2. CASE d.mark = "_"
  <2>1. now = {}
    <3>1. \A i \in 1..(n + 1) : n + 1 \in i..(n + 1)
      OBVIOUS
    <3> QED
      BY <1>2, <3>1 DEF MentionedIn
  <2> QED
    BY <1>1, <1>2, <2>1 DEF AskedIn
<1>3. CASE d.mark # "_" /\ d.key = k /\ Mark(ds, n + 1) # ""
  <2>1. n + 1 \in now
    BY <1>1, <1>3 DEF MentionedIn
  <2>0. \A j \in 1..(n + 1) : j <= n + 1 /\ (n + 1 <= j => j = n + 1)
    OBVIOUS
  <2>2. \A j \in now : j <= n + 1 /\ (n + 1 <= j => j = n + 1)
    BY <2>0 DEF MentionedIn
  <2> HIDE DEF now
  <2>3. last(now) \in now /\ n + 1 <= last(now)
    BY <2>1, <2>2
  <2>4. last(now) = n + 1
    BY <2>2, <2>3
  <2>5. AskedIn(ds, n + 1, k) = IF Mark(ds, n + 1) = "-" THEN "no" ELSE IF d.exp THEN "exp" ELSE "field"
    BY <2>1, <2>4 DEF AskedIn, now
  <2> QED
    BY <1>3, <2>5
<1>4. CASE d.mark # "_" /\ ~(d.key = k /\ Mark(ds, n + 1) # "")
  <2>1. now = was
    <3>1. \A i \in 1..n : (\A j \in i..n : ds[j].mark # "_") <=> \A j \in i..(n + 1) : ds[j].mark # "_"
      BY <1>1, <1>4
    <3>2. \A i \in now : i \in was
      BY <1>1, <1>4, <3>1 DEF MentionedIn
    <3>3. \A i \in was : i \in now
      BY <1>1, <3>1 DEF MentionedIn
    <3> QED
      BY <3>2, <3>3
  <2>2. (\A i \in 1..n : ds[i].mark # "_") <=> \A i \in 1..(n + 1) : ds[i].mark # "_"
    BY <1>1, <1>4
  <2>3. AskedIn(ds, n + 1, k) = AskedIn(ds, n, k)
    BY <2>1, <2>2 DEF AskedIn
  <2> QED
    BY <1>4, <2>3
<1> QED
  BY <1>2, <1>3, <1>4

-----------------------------------------------------------------------------
(* The selection resolved is the one asked for. *)

Start == [mode |-> "", fs |-> SubjFields]

\* f is what ReslSel comes to, declaration by declaration.
DeclaredUp(ds, f) ==
    /\ f = [n \in 0..Len(ds) |-> f[n]] /\ f[0] = Start
    /\ \A n \in 1..Len(ds) : f[n] = Declare(f[n - 1], ds[n])

\* The declarations are resolved one by one.
LEMMA ReslSelIs ==
    ASSUME NEW ds \in Seq(Decls), NEW bare
    PROVE  \E f : /\ DeclaredUp(ds, f)
                  /\ ReslSel(ds, bare) =
                        IF f[Len(ds)] = Err THEN Err
                        ELSE IF bare THEN [fs |-> <<Field("_", TRUE)>>]
                        ELSE [fs |-> f[Len(ds)].fs]
<1> DEFINE N == Len(ds)
           Upto(m, f) == /\ f = [n \in 0..m |-> f[n]] /\ f[0] = Start
                         /\ \A n \in 1..m : f[n] = Declare(f[n - 1], ds[n])
           table(f) == [n \in 0..N |-> IF n = 0 THEN Start ELSE Declare(f[n - 1], ds[n])]
           Q == {m \in Nat : \E f : Upto(m, f)}
<1>1. N \in Nat
  BY LenProperties
<1> HIDE DEF N
<1>2. 0 \in Q
  <2>1. Upto(0, [n \in 0..0 |-> Start])
    OBVIOUS
  <2> HIDE DEF Upto
  <2> QED
    BY <2>1
<1>3. ASSUME NEW m \in Nat, m \in Q PROVE m + 1 \in Q
  <2>1. PICK f : Upto(m, f)
    BY <1>3
  <2> DEFINE last == Declare(f[m], ds[m + 1])
             g == [n \in 0..(m + 1) |-> IF n <= m THEN f[n] ELSE last]
  <2> HIDE DEF last
  <2>2. \A n \in 0..m : n \in 0..(m + 1) /\ g[n] = f[n]
    OBVIOUS
  <2>3. m + 1 \in 0..(m + 1) /\ ~(m + 1 <= m) /\ (m + 1) - 1 = m /\ m \in 0..m
    OBVIOUS
  <2>4. g[m + 1] = last
    BY <2>3
  <2>5. g = [n \in 0..(m + 1) |-> g[n]]
    OBVIOUS
  <2> HIDE DEF g
  <2>6. ASSUME NEW n \in 1..(m + 1) PROVE g[n] = Declare(g[n - 1], ds[n])
    <3>1. CASE n \in 1..m
      <4>1. n \in 0..m /\ n - 1 \in 0..m
        BY <3>1
      <4> QED
        BY <2>1, <2>2, <3>1, <4>1
    <3>2. CASE n = m + 1
      <4>1. g[n - 1] = f[m]
        BY <2>2, <2>3, <3>2
      <4> QED
        BY <2>4, <3>2, <4>1 DEF last
    <3> QED
      BY <3>1, <3>2
  <2>7. g[0] = Start
    BY <2>1, <2>2
  <2>8. Upto(m + 1, g)
    BY <2>5, <2>6, <2>7
  <2> HIDE DEF Upto
  <2> QED
    BY <2>8
<1> HIDE DEF Q
<1>4. Nat \subseteq Q
  BY <1>2, <1>3, Induction
<1>5. PICK f : Upto(N, f)
  BY <1>1, <1>4 DEF Q
<1>6. f = table(f)
  <2>1. \A n \in 0..N : n = 0 \/ (n # 0 /\ n \in 1..N)
    BY <1>1
  <2>2. \A n \in 0..N : f[n] = IF n = 0 THEN Start ELSE Declare(f[n - 1], ds[n])
    BY <1>5, <2>1
  <2> QED
    BY <1>5, <2>2
<1>7. PICK upto : /\ upto = table(upto)
                  /\ ReslSel(ds, bare) =
                        IF upto[N] = Err THEN Err
                        ELSE IF bare THEN [fs |-> <<Field("_", TRUE)>>]
                        ELSE [fs |-> upto[N].fs]
  BY <1>6 DEF ReslSel, N, Start
<1>8. DeclaredUp(ds, upto)
  <2>1. 0 \in 0..N /\ \A n \in 1..N : n \in 0..N /\ n # 0
    BY <1>1
  <2>2. upto[0] = Start /\ \A n \in 1..N : upto[n] = Declare(upto[n - 1], ds[n])
    BY <1>7, <2>1
  <2>3. upto = [n \in 0..N |-> upto[n]]
    BY <1>7
  <2> QED
    BY <2>2, <2>3 DEF DeclaredUp, N
<1> QED
  BY <1>7, <1>8 DEF N

\* The selection s after n declarations has the fields they ask for.
GoodSel(ds, n, s) ==
    /\ s = [mode |-> s.mode, fs |-> s.fs]
    /\ s.mode = IF Mark(ds, n) = "_" THEN "+" ELSE Mark(ds, n)
    /\ s.fs \in Seq(Fields)
    /\ \A k \in KeyNames :
          /\ Field(k, FALSE) \in ToSet(s.fs) <=> AskedIn(ds, n, k) = "field"
          /\ Field(k, TRUE) \in ToSet(s.fs) <=> AskedIn(ds, n, k) = "exp"
          /\ Field(k, FALSE) \in ToSet(s.fs) => k \in ToSet(SubjKeys)

LEMMA SelFirst == ASSUME NEW ds PROVE GoodSel(ds, 0, Start)
<1>1. Start = [mode |-> Start.mode, fs |-> Start.fs] /\ Start.mode = "" /\ Start.fs = SubjFields
  BY DEF Start
<1>2. Mark(ds, 0) = ""
  BY MarkFirst
<1>3. ASSUME NEW k \in KeyNames
      PROVE  /\ Field(k, FALSE) \in ToSet(SubjFields) <=> AskedIn(ds, 0, k) = "field"
             /\ Field(k, TRUE) \in ToSet(SubjFields) <=> AskedIn(ds, 0, k) = "exp"
             /\ Field(k, FALSE) \in ToSet(SubjFields) => k \in ToSet(SubjKeys)
  <2>1. \A j : Field(j, FALSE).key = j /\ Field(j, FALSE).exp = FALSE /\ Field(j, TRUE).exp = TRUE
    BY DEF Field
  <2>2. Field(k, FALSE) \in ToSet(SubjFields) <=> k \in ToSet(SubjKeys)
    BY <2>1, SubjFieldsSet
  <2>3. Field(k, TRUE) \notin ToSet(SubjFields)
    BY <2>1, SubjFieldsSet
  <2> QED
    BY <2>2, <2>3, AskedFirst
<1> QED
  BY <1>1, <1>2, <1>3, SubjFieldsSet DEF GoodSel

\* One more declaration keeps the selection what was asked so far.
LEMMA SelNext ==
    ASSUME NEW ds \in Seq(Decls), NEW n \in Nat, n + 1 \in 1..Len(ds), NEW s, GoodSel(ds, n, s),
           Declare(s, ds[n + 1]) # Err
    PROVE  GoodSel(ds, n + 1, Declare(s, ds[n + 1]))
<1> DEFINE d == ds[n + 1]
           mark == Mark(ds, n)
           mode == IF d.mark = "" THEN s.mode ELSE d.mark
           F == ToSet(s.fs)
           t == Declare(s, d)
<1>1. d \in Decls
  BY ElementOfSeq
<1>2. Mark(ds, n + 1) = IF d.mark # "" THEN d.mark ELSE mark
  BY MarkNext
<1>3. /\ s = [mode |-> s.mode, fs |-> s.fs] /\ s.mode = IF mark = "_" THEN "+" ELSE mark
      /\ s.fs \in Seq(Fields)
      /\ \A k \in KeyNames :
            /\ Field(k, FALSE) \in F <=> AskedIn(ds, n, k) = "field"
            /\ Field(k, TRUE) \in F <=> AskedIn(ds, n, k) = "exp"
            /\ Field(k, FALSE) \in F => k \in ToSet(SubjKeys)
  BY DEF GoodSel
<1>4. \A k : AskedIn(ds, n + 1, k) =
                IF d.mark = "_" THEN "no"
                ELSE IF d.key = k /\ Mark(ds, n + 1) # ""
                THEN IF Mark(ds, n + 1) = "-" THEN "no" ELSE IF d.exp THEN "exp" ELSE "field"
                ELSE AskedIn(ds, n, k)
  BY AskedNext
<1>5. /\ ~(s = Err \/ (d.key = "" /\ (d.mark = "" \/ d.exp)) \/ (d.exp /\ mode = "-"))
      /\ t = IF d.mark = "_" THEN [mode |-> "+", fs |-> << >>]
             ELSE IF d.key = "" \/ mode = "" THEN [s EXCEPT !.mode = mode]
             ELSE IF mode = "-" THEN [mode |-> mode, fs |-> Without(s.fs, d.key)]
             ELSE IF ~d.exp /\ d.key \notin ToSet(SubjKeys) THEN Err
             ELSE [mode |-> mode, fs |-> With(s.fs, Field(d.key, d.exp))]
  BY DEF Declare
<1>6. /\ \A k, e : Field(k, e).key = k /\ Field(k, e).exp = e
      /\ \A k \in KeyNames, e \in BOOLEAN : Field(k, e) \in Fields
  BY DEF Field, Fields
<1>7. d.exp \in BOOLEAN /\ d.key \in STRING /\ d.mark \in {"", "+", "-", "_"}
  BY <1>1 DEF Decls
<1> DEFINE m == Mark(ds, n + 1)
<1>8. mode = (IF d.mark = "_" THEN "_" ELSE IF m = "_" THEN "+" ELSE m)
  BY <1>2, <1>3, <1>7
<1> HIDE DEF mode, F, t, d, m
<1>9. CASE d.mark = "_"
  <2>1. t = [mode |-> "+", fs |-> << >>] /\ m = "_"
    BY <1>2, <1>5, <1>9 DEF m
  <2>2. t.fs = << >> /\ t.mode = "+" /\ t = [mode |-> t.mode, fs |-> t.fs]
    BY <2>1
  <2>3. ToSet(t.fs) = {} /\ t.fs \in Seq(Fields)
    BY <2>2, ToSetEmpty, EmptySeq
  <2>4. \A k : AskedIn(ds, n + 1, k) = "no"
    BY <1>4, <1>9
  <2> QED
    BY <2>1, <2>2, <2>3, <2>4 DEF GoodSel, m, t, d
<1>10. CASE d.mark # "_" /\ (d.key = "" \/ mode = "")
  <2>1. t = [mode |-> mode, fs |-> s.fs]
    BY <1>3, <1>5, <1>10
  <2>2. t.fs = s.fs /\ t.mode = mode /\ t = [mode |-> t.mode, fs |-> t.fs]
    BY <2>1
  <2>3. \A k \in KeyNames : AskedIn(ds, n + 1, k) = AskedIn(ds, n, k)
    BY <1>4, <1>8, <1>10, KeyNamed DEF m
  <2>4. \A k \in KeyNames :
           /\ Field(k, FALSE) \in ToSet(t.fs) <=> AskedIn(ds, n + 1, k) = "field"
           /\ Field(k, TRUE) \in ToSet(t.fs) <=> AskedIn(ds, n + 1, k) = "exp"
           /\ Field(k, FALSE) \in ToSet(t.fs) => k \in ToSet(SubjKeys)
    BY <1>3, <2>2, <2>3 DEF F
  <2>5. t.mode = IF m = "_" THEN "+" ELSE m
    BY <1>8, <1>10, <2>2
  <2> QED
    BY <1>3, <2>2, <2>4, <2>5 DEF GoodSel, m, t, d
<1>11. CASE d.mark # "_" /\ d.key # "" /\ mode # ""
  <2>1. /\ m # "" /\ d.key \in KeyNames
        /\ (mode = "-" <=> m = "-") /\ mode = IF m = "_" THEN "+" ELSE m
    BY <1>7, <1>8, <1>11 DEF KeyNames
  <2>2. \A k : AskedIn(ds, n + 1, k) =
                  IF k = d.key THEN IF m = "-" THEN "no" ELSE IF d.exp THEN "exp" ELSE "field"
                  ELSE AskedIn(ds, n, k)
    BY <1>4, <1>11, <2>1 DEF m
  <2>3. CASE mode = "-"
    <3> DEFINE fs == Without(s.fs, d.key)
    <3>1. t = [mode |-> mode, fs |-> fs]
      BY <1>5, <1>11, <2>3
    <3>2. fs \in Seq(Fields) /\ ToSet(fs) = {g \in F : g.key # d.key}
      BY <1>3, WithoutSet DEF F
    <3> HIDE DEF fs
    <3>3. t.fs = fs /\ t.mode = mode /\ t = [mode |-> t.mode, fs |-> t.fs]
      BY <3>1
    <3>4. ASSUME NEW k \in KeyNames
          PROVE  /\ Field(k, FALSE) \in ToSet(fs) <=> AskedIn(ds, n + 1, k) = "field"
                 /\ Field(k, TRUE) \in ToSet(fs) <=> AskedIn(ds, n + 1, k) = "exp"
                 /\ Field(k, FALSE) \in ToSet(fs) => k \in ToSet(SubjKeys)
      <4>1. \A e : Field(k, e) \in ToSet(fs) <=> Field(k, e) \in F /\ k # d.key
        BY <1>6, <3>2
      <4> QED
        BY <1>3, <2>1, <2>2, <2>3, <4>1
    <3> QED
      BY <2>1, <3>2, <3>3, <3>4 DEF GoodSel, m, t, d
  <2>4. CASE mode # "-"
    <3> DEFINE f == Field(d.key, d.exp)
               fs == With(s.fs, f)
    <3>1. t = [mode |-> mode, fs |-> fs] /\ (d.exp \/ d.key \in ToSet(SubjKeys))
      <4>1. t # Err
        BY DEF t, d
      <4> QED
        BY <1>5, <1>11, <2>4, <4>1
    <3>2. f \in Fields /\ f.key = d.key /\ f.exp = d.exp
      BY <1>6, <1>7, <2>1
    <3>3. fs \in Seq(Fields) /\ ToSet(fs) = {g \in F : g.key # d.key} \cup {f}
      <4>1. s.fs \in Seq(Fields)
        BY <1>3
      <4> HIDE DEF f
      <4>2. /\ With(s.fs, f) \in Seq(Fields)
            /\ ToSet(With(s.fs, f)) = {g \in ToSet(s.fs) : g.key # f.key} \cup {f}
        BY <3>2, <4>1, WithSet
      <4> QED
        BY <3>2, <4>2 DEF F
    <3>4. ASSUME NEW k \in KeyNames
          PROVE  /\ Field(k, FALSE) \in ToSet(fs) <=> AskedIn(ds, n + 1, k) = "field"
                 /\ Field(k, TRUE) \in ToSet(fs) <=> AskedIn(ds, n + 1, k) = "exp"
                 /\ Field(k, FALSE) \in ToSet(fs) => k \in ToSet(SubjKeys)
      <4> HIDE DEF fs
      <4>1. CASE k = d.key
        <5>1. \A e : Field(k, e) \in ToSet(fs) <=> e = d.exp
          <6> HIDE DEF f
          <6>1. \A e : Field(k, e) \in ToSet(fs) <=> Field(k, e) = f
            BY <1>6, <3>3, <4>1
          <6>2. \A e : Field(k, e) = Field(k, d.exp) <=> e = d.exp
            BY FieldSame
          <6>3. f = Field(k, d.exp)
            BY <4>1 DEF f
          <6> QED
            BY <6>1, <6>2, <6>3
        <5>2. AskedIn(ds, n + 1, k) = IF d.exp THEN "exp" ELSE "field"
          BY <2>1, <2>2, <2>4, <4>1
        <5> QED
          BY <1>7, <3>1, <4>1, <5>1, <5>2
      <4>2. CASE k # d.key
        <5>1. \A e : Field(k, e) \in ToSet(fs) <=> Field(k, e) \in F
          <6> HIDE DEF f
          <6> QED
            BY <1>6, <3>2, <3>3, <4>2
        <5> QED
          BY <1>3, <2>2, <4>2, <5>1
      <4> QED
        BY <4>1, <4>2
    <3> HIDE DEF fs
    <3>5. t.fs = fs /\ t.mode = mode /\ t = [mode |-> t.mode, fs |-> t.fs]
      BY <3>1
    <3> QED
      BY <2>1, <3>3, <3>4, <3>5 DEF GoodSel, m, t, d
  <2> QED
    BY <2>3, <2>4
<1> QED
  BY <1>9, <1>10, <1>11 DEF t, d

\* fs are the fields query q asks for.
Selects(q, fs) ==
    /\ fs \in Seq(Fields)
    /\ Keyed(fs) = AskedKeys(q)
    /\ \A k \in AskedKeys(q) :
          /\ Field(k, TRUE) \in ToSet(fs) <=> q.bare \/ Asked(q.decls, k) = "exp"
          /\ Field(k, TRUE) \notin ToSet(fs) => k \in ToSet(SubjKeys)

\* A query that resolves selects the fields its declarations come down to.
LEMMA Selection ==
    ASSUME NEW q \in Queries, ReslSel(q.decls, q.bare) # Err
    PROVE  Selects(q, ReslSel(q.decls, q.bare).fs)
<1> DEFINE ds == q.decls
           N == Len(ds)
           sel == ReslSel(q.decls, q.bare)
<1>1. ds \in Seq(Decls) /\ q.bare \in BOOLEAN
  BY QueriesAssumption DEF Decls
<1> HIDE DEF ds
<1>2. PICK f : /\ DeclaredUp(ds, f)
               /\ ReslSel(ds, q.bare) =
                     IF f[N] = Err THEN Err
                     ELSE IF q.bare THEN [fs |-> <<Field("_", TRUE)>>] ELSE [fs |-> f[N].fs]
  BY <1>1, ReslSelIs
<1>3. /\ f[N] # Err
      /\ sel = IF q.bare THEN [fs |-> <<Field("_", TRUE)>>] ELSE [fs |-> f[N].fs]
  BY <1>2 DEF ds
<1>4. N \in Nat
  BY <1>1, LenProperties
<1> HIDE DEF N, sel
<1>5. f[0] = Start /\ \A n \in 1..N : f[n] = Declare(f[n - 1], ds[n])
  BY <1>2 DEF DeclaredUp, N
<1> DEFINE Z == {n \in Nat : n <= N => f[n] = Err \/ GoodSel(ds, n, f[n])}
<1>6. 0 \in Z
  BY <1>5, SelFirst
<1>7. ASSUME NEW n \in Nat, n \in Z PROVE n + 1 \in Z
  <2> SUFFICES ASSUME n + 1 <= N, f[n + 1] # Err PROVE GoodSel(ds, n + 1, f[n + 1])
    OBVIOUS
  <2>1. n + 1 \in 1..N /\ (n + 1) - 1 = n /\ n <= N
    BY <1>4
  <2>2. f[n + 1] = Declare(f[n], ds[n + 1])
    BY <1>5, <2>1
  <2>3. f[n] # Err
    BY <2>2 DEF Declare
  <2>4. GoodSel(ds, n, f[n])
    BY <1>7, <2>1, <2>3
  <2> QED
    BY <1>1, <2>1, <2>2, <2>4, SelNext DEF N
<1> HIDE DEF Z
<1>8. Nat \subseteq Z
  BY <1>6, <1>7, Induction
<1>9. GoodSel(ds, N, f[N])
  <2>1. N \in Z /\ N <= N
    BY <1>4, <1>8
  <2> QED
    BY <1>3, <2>1 DEF Z
<1>10. CASE q.bare
  <2> DEFINE g == Field("_", TRUE)
             fs == <<g>>
  <2>1. g \in Fields /\ g.key = "_"
    <3>1. "_" \in KeyNames /\ TRUE \in BOOLEAN
      BY DEF KeyNames
    <3> QED
      BY <3>1, FieldFacts
  <2>2. sel.fs = fs
    BY <1>3, <1>10
  <2>3. AskedKeys(q) = {"_"}
    BY <1>10 DEF AskedKeys
  <2> HIDE DEF g
  <2>4. fs \in Seq(Fields) /\ Len(fs) = 1 /\ fs[1] = g
    <3> DEFINE S == Fields
    <3> HIDE DEF S
    <3>1. g \in S
      BY <2>1 DEF S
    <3>2. fs \in Seq(S) /\ Len(fs) = 1 /\ fs[1] = g
      BY <3>1
    <3> QED
      BY <3>2 DEF S
  <2> HIDE DEF fs
  <2>5. ToSet(fs) = {g}
    <3>1. ToSet(fs) = {fs[i] : i \in 1..Len(fs)}
      BY <2>4, ToSetDef
    <3>2. 1..1 = {1}
      OBVIOUS
    <3> QED
      BY <2>4, <3>1, <3>2
  <2>6. Keyed(fs) = {"_"}
    <3>1. DOMAIN fs = {1}
      <4>1. DOMAIN fs = 1..Len(fs)
        BY <2>4, LenProperties
      <4> QED
        BY <2>4, <4>1
    <3> QED
      BY <2>1, <2>4, <3>1 DEF Keyed
  <2> QED
    BY <1>10, <2>2, <2>3, <2>4, <2>5, <2>6 DEF Selects, sel, g
<1>11. CASE ~q.bare
  <2> DEFINE fs == f[N].fs
             keys == AskedKeys(q)
             F == ToSet(fs)
  <2>1. sel.fs = fs
    BY <1>3, <1>11
  <2>2. \A k : Asked(ds, k) = AskedIn(ds, N, k) /\ Mentions(ds, k) = MentionedIn(ds, N, k)
    BY <1>1, AskedAll DEF N
  <2>3. keys = {k \in ToSet(SubjKeys) \cup {ds[i].key : i \in DOMAIN ds} :
                   k # "" /\ Asked(ds, k) # "no"}
    BY <1>11 DEF AskedKeys, ds
  <2> HIDE DEF keys
  <2>4. /\ fs \in Seq(Fields)
        /\ \A k \in KeyNames :
              /\ Field(k, FALSE) \in F <=> Asked(ds, k) = "field"
              /\ Field(k, TRUE) \in F <=> Asked(ds, k) = "exp"
              /\ Field(k, FALSE) \in F => k \in ToSet(SubjKeys)
    BY <1>9, <2>2 DEF GoodSel
  <2>5. \A k : Asked(ds, k) = "no" \/ Asked(ds, k) = "field" \/ Asked(ds, k) = "exp"
    BY DEF Asked
  <2>6. /\ DOMAIN ds = 1..N /\ \A i \in 1..N : ds[i] \in Decls
        /\ ToSet(SubjKeys) \subseteq KeyNames
    BY <1>1, LenProperties, ElementOfSeq, SubjFieldsSet DEF N
  <2>7. \A k \in keys : k \in KeyNames /\ Asked(ds, k) # "no"
    <3>1. \A i \in DOMAIN ds : ds[i].key \in STRING
      BY <2>6 DEF Decls
    <3> QED
      BY <2>3, <2>6, <3>1 DEF KeyNames
  <2>8. \A k : k # "" /\ Asked(ds, k) # "no" => k \in keys
    <3> SUFFICES ASSUME NEW k, k # "", Asked(ds, k) # "no"
                 PROVE  k \in ToSet(SubjKeys) \cup {ds[i].key : i \in DOMAIN ds}
      BY <2>3
    <3>1. CASE Mentions(ds, k) = {}
      BY <3>1 DEF Asked
    <3>2. CASE Mentions(ds, k) # {}
      BY <3>2 DEF Mentions
    <3> QED
      BY <3>1, <3>2
  <2> HIDE DEF fs
  <2>9. \A g \in F : g \in Fields /\ g = Field(g.key, g.exp) /\ (g.exp = FALSE \/ g.exp = TRUE)
                       /\ g.key \in KeyNames
    <3>1. F \subseteq Fields
      BY <2>4, KeyedSet
    <3>2. \A g \in Fields : g = Field(g.key, g.exp) /\ (g.exp = FALSE \/ g.exp = TRUE)
                       /\ g.key \in KeyNames
      BY FieldFacts
    <3> HIDE DEF F
    <3> QED
      BY <3>1, <3>2
  <2>10. Keyed(fs) = keys
    <3>0. Keyed(fs) = {g.key : g \in F}
      BY <2>4, KeyedSet
    <3> HIDE DEF F
    <3>1. ASSUME NEW g \in F PROVE g.key \in keys
      <4>1. /\ g = Field(g.key, FALSE) \/ g = Field(g.key, TRUE)
            /\ g.key \in KeyNames
        BY <2>9
      <4>2. Asked(ds, g.key) # "no"
        BY <2>4, <4>1
      <4> QED
        BY <2>8, <4>1, <4>2, KeyNamed
    <3>2. ASSUME NEW k \in keys PROVE \E g \in F : g.key = k
      <4>1. k \in KeyNames /\ (Asked(ds, k) = "field" \/ Asked(ds, k) = "exp")
        BY <2>5, <2>7
      <4>2. Field(k, FALSE) \in F \/ Field(k, TRUE) \in F
        BY <2>4, <4>1
      <4>3. Field(k, FALSE).key = k /\ Field(k, TRUE).key = k
        BY DEF Field
      <4> QED
        BY <4>2, <4>3
    <3> QED
      BY <3>0, <3>1, <3>2
  <2>11. ASSUME NEW k \in keys
         PROVE  /\ Field(k, TRUE) \in F <=> Asked(ds, k) = "exp"
                /\ Field(k, TRUE) \notin F => k \in ToSet(SubjKeys)
    <3>1. k \in KeyNames /\ (Asked(ds, k) = "field" \/ Asked(ds, k) = "exp")
      BY <2>5, <2>7
    <3> HIDE DEF F
    <3> QED
      BY <2>4, <3>1
  <2> QED
    BY <1>11, <2>1, <2>4, <2>10, <2>11 DEF Selects, sel, keys, ds
<1> QED
  BY <1>10, <1>11

\* A row is shown with the values of what is asked.
LEMMA ProjectedIs ==
    ASSUME NEW q \in Queries, NEW fs, Selects(q, fs), NEW row
    PROVE  Projected(row, fs) = IF AskedKeys(q) = {} THEN row
                                ELSE [k \in AskedKeys(q) |-> ValuesOf(q, AskedKeys(q), row)[k]]
<1> DEFINE keys == AskedKeys(q)
<1>1. /\ fs \in Seq(Fields) /\ Keyed(fs) = keys
      /\ \A k \in keys : Field(k, TRUE) \in ToSet(fs) <=> q.bare \/ Asked(q.decls, k) = "exp"
  BY DEF Selects
<1>2. fs = << >> <=> keys = {}
  BY <1>1, KeyedSet
<1> HIDE DEF keys
<1>3. CASE keys = {}
  BY <1>2, <1>3 DEF Projected, keys
<1>4. CASE keys # {}
  <2>1. Projected(row, fs) = [k \in keys |-> IF Field(k, TRUE) \in ToSet(fs) THEN Computed(row) ELSE row[k]]
    BY <1>1, <1>2, <1>4 DEF Projected
  <2>2. \A k \in keys : ValuesOf(q, keys, row)[k] =
                           IF q.bare \/ Asked(q.decls, k) = "exp" THEN Computed(row) ELSE row[k]
    BY DEF ValuesOf
  <2> QED
    BY <1>1, <1>4, <2>1, <2>2 DEF keys
<1> QED
  BY <1>3, <1>4

-----------------------------------------------------------------------------
(* Ranks, and sorting. *)

\* R orders M strictly and totally.
OrdersAll(R, M) ==
    /\ \A i \in M : <<i, i>> \notin R
    /\ \A i, j, k \in M : <<i, j>> \in R /\ <<j, k>> \in R => <<i, k>> \in R
    /\ \A i, j \in M : i = j \/ <<i, j>> \in R \/ <<j, i>> \in R

Below(R, M, i) == {j \in M : <<j, i>> \in R}
RankOf(R, M) == [i \in M |-> Cardinality(Below(R, M, i)) + 1]

\* The ranks in a strict total order are the numbers from 1 on, one for each.
LEMMA RankFacts ==
    ASSUME NEW M, IsFiniteSet(M), NEW R, OrdersAll(R, M)
    PROVE  /\ Cardinality(M) \in Nat
           /\ RankOf(R, M) \in [M -> 1..Cardinality(M)]
           /\ \A i, j \in M : <<i, j>> \in R => RankOf(R, M)[i] < RankOf(R, M)[j]
           /\ \A i, j \in M : RankOf(R, M)[i] = RankOf(R, M)[j] => i = j
<1> DEFINE N == Cardinality(M)
           rank == RankOf(R, M)
           B(i) == Below(R, M, i)
<1>1. N \in Nat
  BY FS_CardinalityType
<1>2. ASSUME NEW i \in M
      PROVE  IsFiniteSet(B(i)) /\ Cardinality(B(i)) \in Nat /\ Cardinality(B(i)) + 1 <= N
  <2>1. B(i) \in SUBSET (M \ {i})
    BY DEF Below, OrdersAll
  <2>2. IsFiniteSet(M \ {i}) /\ Cardinality(M \ {i}) = N - 1
    BY FS_RemoveElement
  <2> HIDE DEF B, N
  <2>3. IsFiniteSet(B(i)) /\ Cardinality(B(i)) <= Cardinality(M \ {i})
    BY <2>1, <2>2, FS_Subset
  <2>4. Cardinality(B(i)) \in Nat
    BY <2>3, FS_CardinalityType
  <2> QED
    BY <1>1, <2>2, <2>3, <2>4
<1>3. \A i \in M : rank[i] = Cardinality(B(i)) + 1
  BY DEF RankOf
<1>4. rank \in [M -> 1..N]
  <2>1. rank = [i \in M |-> Cardinality(B(i)) + 1]
    BY DEF RankOf
  <2> HIDE DEF rank, B, N
  <2>2. \A i \in M : Cardinality(B(i)) + 1 \in 1..N
    BY <1>1, <1>2
  <2> QED
    BY <2>1, <2>2
<1>5. ASSUME NEW i \in M, NEW j \in M, <<i, j>> \in R PROVE rank[i] < rank[j]
  <2>1. B(i) \cup {i} \in SUBSET B(j) /\ i \notin B(i)
    BY <1>5 DEF Below, OrdersAll
  <2> HIDE DEF B, rank
  <2>2. IsFiniteSet(B(i)) /\ IsFiniteSet(B(j)) /\ Cardinality(B(i)) \in Nat /\ Cardinality(B(j)) \in Nat
    BY <1>2
  <2>3. Cardinality(B(i) \cup {i}) = Cardinality(B(i)) + 1
    BY <2>1, <2>2, FS_AddElement
  <2>4. Cardinality(B(i) \cup {i}) <= Cardinality(B(j))
    BY <2>1, <2>2, FS_Subset
  <2> QED
    BY <1>3, <2>2, <2>3, <2>4
<1>6. ASSUME NEW i \in M, NEW j \in M, rank[i] = rank[j] PROVE i = j
  <2>1. i = j \/ <<i, j>> \in R \/ <<j, i>> \in R
    BY DEF OrdersAll
  <2>2. rank[i] \in Int /\ rank[j] \in Int
    BY <1>1, <1>4
  <2> HIDE DEF rank
  <2> QED
    BY <1>5, <1>6, <2>1, <2>2
<1> QED
  BY <1>1, <1>4, <1>5, <1>6

\* An order of a finite set lists its elements.
LEMMA SortExists ==
    ASSUME NEW M, IsFiniteSet(M), NEW R, OrdersAll(R, M)
    PROVE  \E p \in Bijection(1..Cardinality(M), M) :
              \A n, m \in 1..Cardinality(M) : n < m => <<p[n], p[m]>> \in R
<1> DEFINE N == Cardinality(M)
           rank == RankOf(R, M)
<1>1. /\ N \in Nat /\ rank \in [M -> 1..N]
      /\ \A i, j \in M : <<i, j>> \in R => rank[i] < rank[j]
      /\ \A i, j \in M : rank[i] = rank[j] => i = j
  BY RankFacts
<1>2. IsFiniteSet(1..N) /\ Cardinality(1..N) = N
  BY <1>1, FS_Interval
<1>3. rank \in Injection(M, 1..N)
  BY <1>1 DEF Injection, IsInjective
<1>4. rank \in Surjection(M, 1..N)
  <2> HIDE DEF rank
  <2> QED
    BY <1>2, <1>3, FS_Injection
<1>5. \A n \in 1..N : \E i \in M : rank[i] = n
  BY <1>4 DEF Surjection
<1> DEFINE p == [n \in 1..N |-> CHOOSE i \in M : rank[i] = n]
<1>6. \A n \in 1..N : p[n] \in M /\ rank[p[n]] = n
  <2> HIDE DEF rank, N
  <2> QED
    BY <1>5
<1>7. \A i \in M : rank[i] \in 1..N /\ p[rank[i]] = i
  <2>1. \A i \in M : rank[i] \in 1..N
    BY <1>1
  <2> HIDE DEF p, rank, N
  <2> QED
    BY <1>1, <1>6, <2>1
<1>8. p \in Bijection(1..N, M)
  <2>1. p \in [1..N -> M]
    <3> HIDE DEF rank, N
    <3> QED
      BY <1>5
  <2> HIDE DEF p, rank, N
  <2>2. \A n, m \in 1..N : p[n] = p[m] => n = m
    BY <1>6
  <2>3. \A i \in M : \E n \in 1..N : p[n] = i
    BY <1>7
  <2> QED
    BY <2>1, <2>2, <2>3 DEF Bijection, Injection, Surjection, IsInjective
<1>9. ASSUME NEW n \in 1..N, NEW m \in 1..N, n < m PROVE <<p[n], p[m]>> \in R
  <2> HIDE DEF p, rank
  <2>1. p[n] \in M /\ p[m] \in M /\ rank[p[n]] = n /\ rank[p[m]] = m
    BY <1>6
  <2>2. p[n] = p[m] \/ <<p[n], p[m]>> \in R \/ <<p[m], p[n]>> \in R
    BY <2>1 DEF OrdersAll
  <2>3. n # m /\ ~(m < n)
    BY <1>1, <1>9
  <2> QED
    BY <1>1, <2>1, <2>2, <2>3
<1> QED
  BY <1>8, <1>9

\* A map of 1..N into itself that preserves the order is the identity.
LEMMA OrderedIsSame ==
    ASSUME NEW N \in Nat, NEW g \in [1..N -> 1..N], \A n, m \in 1..N : n < m => g[n] < g[m]
    PROVE  \A n \in 1..N : g[n] = n
<1> DEFINE up == {n \in Nat : n \in 1..N => g[n] >= n}
           dn == {k \in Nat : k < N => g[N - k] <= N - k}
<1>1. 0 \in up
  OBVIOUS
<1>2. ASSUME NEW n \in Nat, n \in up PROVE n + 1 \in up
  <2> SUFFICES ASSUME n + 1 \in 1..N PROVE g[n + 1] >= n + 1
    OBVIOUS
  <2>1. CASE n = 0
    <3>1. g[n + 1] \in 1..N
      OBVIOUS
    <3> QED
      BY <2>1, <3>1
  <2>2. CASE n # 0
    <3>1. n \in 1..N /\ n < n + 1
      BY <2>2
    <3>2. g[n] < g[n + 1] /\ g[n] >= n /\ g[n] \in 1..N /\ g[n + 1] \in 1..N
      BY <1>2, <3>1
    <3> QED
      BY <3>2
  <2> QED
    BY <2>1, <2>2
<1>3. Nat \subseteq up
  <2> HIDE DEF up
  <2> QED
    BY <1>1, <1>2, Induction
<1>4. 0 \in dn
  <2> SUFFICES ASSUME 0 < N PROVE g[N - 0] <= N - 0
    OBVIOUS
  <2>1. N \in 1..N /\ N - 0 = N
    OBVIOUS
  <2>2. g[N] \in 1..N
    BY <2>1
  <2> QED
    BY <2>1, <2>2
<1>5. ASSUME NEW k \in Nat, k \in dn PROVE k + 1 \in dn
  <2> SUFFICES ASSUME k + 1 < N PROVE g[N - (k + 1)] <= N - (k + 1)
    OBVIOUS
  <2> DEFINE a == N - (k + 1)
             b == N - k
  <2>1. a \in 1..N /\ b \in 1..N /\ a < b /\ b = a + 1 /\ k < N
    OBVIOUS
  <2>2. g[b] <= b
    BY <1>5, <2>1
  <2> HIDE DEF a, b
  <2>3. g[a] < g[b] /\ g[a] \in 1..N /\ g[b] \in 1..N
    BY <2>1
  <2>4. g[a] <= a
    BY <2>1, <2>2, <2>3
  <2> QED
    BY <2>4 DEF a
<1>6. Nat \subseteq dn
  <2> HIDE DEF dn
  <2> QED
    BY <1>4, <1>5, Induction
<1>7. ASSUME NEW n \in 1..N PROVE g[n] = n
  <2>1. n \in up /\ N - n \in dn /\ N - n < N /\ N - (N - n) = n
    BY <1>3, <1>6
  <2>2. g[n] >= n /\ g[n] <= n /\ g[n] \in 1..N
    <3>1. g[n] >= n
      BY <2>1
    <3>2. g[N - (N - n)] <= N - (N - n)
      BY <2>1
    <3> HIDE DEF up, dn
    <3> QED
      BY <2>1, <3>1, <3>2
  <2> QED
    BY <2>2
<1> QED
  BY <1>7

\* The nth of a sorted list has rank n.
LEMMA SortedRank ==
    ASSUME NEW M, IsFiniteSet(M), NEW R, OrdersAll(R, M),
           NEW p \in [1..Cardinality(M) -> M],
           \A n, m \in 1..Cardinality(M) : n < m => <<p[n], p[m]>> \in R
    PROVE  \A n \in 1..Cardinality(M) : RankOf(R, M)[p[n]] = n
<1> DEFINE N == Cardinality(M)
           rank == RankOf(R, M)
           g == [n \in 1..N |-> rank[p[n]]]
<1>1. /\ N \in Nat /\ rank \in [M -> 1..N]
      /\ \A i, j \in M : <<i, j>> \in R => rank[i] < rank[j]
  BY RankFacts
<1> HIDE DEF rank, N
<1>2. \A n \in 1..N : p[n] \in M
  BY DEF N
<1>3. g \in [1..N -> 1..N] /\ \A n \in 1..N : g[n] = rank[p[n]]
  BY <1>1, <1>2
<1> HIDE DEF g
<1>4. \A n, m \in 1..N : n < m => g[n] < g[m]
  BY <1>1, <1>2, <1>3 DEF N
<1>5. \A n \in 1..N : g[n] = n
  BY <1>1, <1>3, <1>4, OrderedIsSame
<1> QED
  BY <1>3, <1>5 DEF rank, N

-----------------------------------------------------------------------------
(* Ordering rows by their values. *)

\* The first of K values in which i and j differ is less for i.
Lex(K, u, i, j) ==
    \E n \in 1..K : (\A m \in 1..(n - 1) : u[m][i] = u[m][j]) /\ u[n][i] < u[n][j]
LexOrPlace(K, u, i, j) ==
    Lex(K, u, i, j) \/ (i < j /\ \A n \in 1..K : u[n][i] = u[n][j])

SameValues(K, u, i, j) == \A n \in 1..K : u[n][i] = u[n][j]

DifferAt(n, u, i, j) == u[n][i] # u[n][j] /\ \A m \in 1..(n - 1) : u[m][i] = u[m][j]

\* Rows that differ in a value differ first in one.
LEMMA FirstDifference ==
    ASSUME NEW K \in Nat, NEW u, NEW i, NEW j, ~SameValues(K, u, i, j)
    PROVE  \E n \in 1..K : DifferAt(n, u, i, j)
<1> DEFINE D == {n \in 1..K : u[n][i] # u[n][j]}
<1>1. D \in SUBSET Nat /\ D # {}
  BY DEF SameValues
<1> HIDE DEF D
<1>2. PICK n \in D : \A m \in D : n <= m
  BY <1>1, LeastNumber
<1>3. n \in 1..K /\ u[n][i] # u[n][j]
  BY DEF D
<1>4. ASSUME NEW m \in 1..(n - 1) PROVE u[m][i] = u[m][j]
  <2>1. m \in 1..K /\ ~(n <= m)
    BY <1>3
  <2>2. m \notin D
    BY <1>2, <2>1
  <2> QED
    BY <2>1, <2>2 DEF D
<1> QED
  BY <1>3, <1>4 DEF DifferAt

\* Ordering by values, and by place where they agree, is strict and total.
LEMMA LexOrders ==
    ASSUME NEW K \in Nat, NEW M \in SUBSET Nat, NEW u \in [1..K -> [M -> Int]]
    PROVE  OrdersAll({ij \in M \X M : LexOrPlace(K, u, ij[1], ij[2])}, M)
<1> DEFINE R == {ij \in M \X M : LexOrPlace(K, u, ij[1], ij[2])}
           Same(i, j) == \A n \in 1..K : u[n][i] = u[n][j]
           First(n, i, j) == /\ n \in 1..K /\ \A m \in 1..(n - 1) : u[m][i] = u[m][j]
                             /\ u[n][i] < u[n][j]
<1>1. \A i, j \in M : <<i, j>> \in R <=> LexOrPlace(K, u, i, j)
  OBVIOUS
<1>2. \A n \in 1..K, i \in M : u[n][i] \in Int
  OBVIOUS
<1>3. \A i, j : LexOrPlace(K, u, i, j) <=> (\E n : First(n, i, j)) \/ (i < j /\ Same(i, j))
  BY DEF LexOrPlace, Lex
<1> HIDE DEF R
<1>4. ASSUME NEW i \in M PROVE <<i, i>> \notin R
  <2>1. ~(i < i)
    OBVIOUS
  <2>2. \A n : ~First(n, i, i)
    BY <1>2
  <2> QED
    BY <1>1, <1>3, <2>1, <2>2
<1>5. ASSUME NEW i \in M, NEW j \in M, NEW k \in M, <<i, j>> \in R, <<j, k>> \in R
      PROVE  <<i, k>> \in R
  <2>1. /\ (\E n : First(n, i, j)) \/ (i < j /\ Same(i, j))
        /\ (\E n : First(n, j, k)) \/ (j < k /\ Same(j, k))
    BY <1>1, <1>3, <1>5
  <2>2. CASE Same(i, j) /\ Same(j, k) /\ i < j /\ j < k
    <3>1. Same(i, k)
      BY <2>2
    <3>2. i < k
      BY <2>2
    <3> QED
      BY <1>1, <1>3, <3>1, <3>2
  <2>3. ASSUME NEW n, First(n, i, j), Same(j, k) PROVE <<i, k>> \in R
    <3>0. n \in 1..K /\ 1..(n - 1) \subseteq 1..K
      BY <2>3
    <3>1. First(n, i, k)
      BY <2>3, <3>0
    <3> QED
      BY <1>1, <1>3, <3>1
  <2>4. ASSUME NEW n, Same(i, j), First(n, j, k) PROVE <<i, k>> \in R
    <3>0. n \in 1..K /\ 1..(n - 1) \subseteq 1..K
      BY <2>4
    <3>1. First(n, i, k)
      BY <2>4, <3>0
    <3> QED
      BY <1>1, <1>3, <3>1
  <2>5. ASSUME NEW n, NEW m, First(n, i, j), First(m, j, k) PROVE <<i, k>> \in R
    <3>1. n \in 1..K /\ m \in 1..K
      BY <2>5
    <3>2. CASE n < m
      <4>1. n \in 1..(m - 1) /\ 1..(n - 1) \subseteq 1..(m - 1)
        BY <3>1, <3>2
      <4>2. First(n, i, k)
        BY <2>5, <4>1
      <4> QED
        BY <1>1, <1>3, <4>2
    <3>3. CASE m < n
      <4>1. m \in 1..(n - 1) /\ 1..(m - 1) \subseteq 1..(n - 1)
        BY <3>1, <3>3
      <4>2. First(m, i, k)
        BY <2>5, <4>1
      <4> QED
        BY <1>1, <1>3, <4>2
    <3>4. CASE n = m
      <4>1. u[n][i] < u[n][k]
        BY <1>2, <2>5, <3>1, <3>4
      <4>2. First(n, i, k)
        BY <2>5, <3>4, <4>1
      <4> QED
        BY <1>1, <1>3, <4>2
    <3>5. n < m \/ m < n \/ n = m
      BY <3>1
    <3> QED
      BY <3>2, <3>3, <3>4, <3>5
  <2> HIDE DEF Same, First
  <2> QED
    BY <2>1, <2>2, <2>3, <2>4, <2>5
<1>6. ASSUME NEW i \in M, NEW j \in M PROVE i = j \/ <<i, j>> \in R \/ <<j, i>> \in R
  <2>1. CASE Same(i, j)
    <3>1. i = j \/ i < j \/ j < i
      OBVIOUS
    <3>2. Same(j, i)
      BY <2>1
    <3> HIDE DEF Same, First
    <3> QED
      BY <1>1, <1>3, <2>1, <3>1, <3>2
  <2>2. CASE ~Same(i, j)
    <3>1. PICK n \in 1..K : u[n][i] # u[n][j] /\ \A m \in 1..(n - 1) : u[m][i] = u[m][j]
      <4>1. ~SameValues(K, u, i, j)
        BY <2>2 DEF SameValues
      <4>2. \E n \in 1..K : DifferAt(n, u, i, j)
        BY <4>1, FirstDifference
      <4> QED
        BY <4>2 DEF DifferAt
    <3>2. u[n][i] < u[n][j] \/ u[n][j] < u[n][i]
      BY <1>2, <3>1
    <3>3. First(n, i, j) \/ First(n, j, i)
      BY <3>1, <3>2
    <3> HIDE DEF First
    <3> QED
      BY <1>1, <1>3, <3>3
  <2> QED
    BY <2>1, <2>2
<1> QED
  BY <1>4, <1>5, <1>6 DEF OrdersAll, R

\* The value of ord for row i, turned around when the order is descending.
ValueOf(sel, subj, ord, i) == IF ord.subj THEN subj[i][ord.key] ELSE sel[i][ord.key]
Turned(sel, subj, ord, i) ==
    IF ord.desc THEN 0 - ValueOf(sel, subj, ord, i) ELSE ValueOf(sel, subj, ord, i)

Ords == [key : STRING, desc : BOOLEAN, subj : BOOLEAN]

\* orderFunc compares by the first value that differs.
LEMMA OrderFuncIs ==
    ASSUME NEW ords \in Seq(Ords), ords # << >>, NEW sel, NEW subj, NEW i, NEW j, NEW u,
           \A n \in 1..Len(ords) :
              /\ ValueOf(sel, subj, ords[n], i) \in Int
              /\ ValueOf(sel, subj, ords[n], j) \in Int
              /\ u[n][i] = Turned(sel, subj, ords[n], i)
              /\ u[n][j] = Turned(sel, subj, ords[n], j)
    PROVE  OrderFunc(sel, subj, i, j, ords) <=> Lex(Len(ords), u, i, j)
<1> DEFINE K == Len(ords)
           a(n) == ValueOf(sel, subj, ords[n], i)
           b(n) == ValueOf(sel, subj, ords[n], j)
           strict(n) == IF ords[n].desc THEN a(n) > b(n) ELSE a(n) < b(n)
           body(f, n) == IF a(n) = b(n) /\ n < K THEN f[n + 1] ELSE strict(n)
           from(n) == \E m \in n..K : (\A l \in n..(m - 1) : a(l) = b(l)) /\ strict(m)
           g == [n \in 1..K |-> from(n)]
<1>1. K \in Nat /\ DOMAIN ords = 1..K /\ K # 0 /\ \A n \in 1..K : ords[n].desc \in BOOLEAN
  <2>1. \A n \in 1..K : ords[n] \in Ords
    BY ElementOfSeq
  <2>2. K \in Nat /\ DOMAIN ords = 1..K /\ K # 0
    BY LenProperties, EmptySeq
  <2> QED
    BY <2>1, <2>2 DEF Ords
<1>2. \A n \in 1..K : a(n) \in Int /\ b(n) \in Int
  OBVIOUS
<1>3. \A n \in 1..K : /\ u[n][i] = (IF ords[n].desc THEN 0 - a(n) ELSE a(n))
                      /\ u[n][j] = (IF ords[n].desc THEN 0 - b(n) ELSE b(n))
  BY DEF Turned
<1> HIDE DEF K, a, b
<1>4. ASSUME NEW n \in 1..K
      PROVE  /\ strict(n) <=> u[n][i] < u[n][j]
             /\ a(n) = b(n) <=> u[n][i] = u[n][j]
  BY <1>1, <1>2, <1>3
<1>5. from(1) <=> Lex(K, u, i, j)
  <2>1. \A n \in 1..K : 1..(n - 1) \subseteq 1..K
    BY <1>1
  <2>2. \A n \in 1..K : (\A l \in 1..(n - 1) : a(l) = b(l)) <=> \A l \in 1..(n - 1) : u[l][i] = u[l][j]
    BY <1>4, <2>1
  <2> HIDE DEF strict
  <2> QED
    BY <1>4, <2>2 DEF Lex
<1>6. ASSUME NEW n \in 1..K PROVE g[n] = body(g, n)
  <2>0. g[n] = from(n)
    OBVIOUS
  <2>1. CASE a(n) = b(n) /\ n < K
    <3>1. n + 1 \in 1..K /\ g[n + 1] = from(n + 1)
      <4>1. n + 1 \in 1..K
        BY <1>1, <2>1
      <4> HIDE DEF from
      <4> QED
        BY <4>1
    <3>2. ~strict(n)
      BY <1>2, <2>1
    <3>3. /\ \A m \in n..K : m = n \/ m \in (n + 1)..K
          /\ (n + 1)..K \subseteq n..K
          /\ \A m \in (n + 1)..K : /\ \A l \in n..(m - 1) : l = n \/ l \in (n + 1)..(m - 1)
                                  /\ (n + 1)..(m - 1) \subseteq n..(m - 1)
      BY <1>1
    <3> HIDE DEF strict
    <3>4. from(n) <=> from(n + 1)
      <4>1. ASSUME from(n) PROVE from(n + 1)
        <5>1. PICK m \in n..K : (\A l \in n..(m - 1) : a(l) = b(l)) /\ strict(m)
          BY <4>1
        <5>2. m \in (n + 1)..K
          BY <3>2, <3>3, <5>1
        <5> QED
          BY <3>3, <5>1, <5>2
      <4>2. ASSUME from(n + 1) PROVE from(n)
        <5>1. PICK m \in (n + 1)..K : (\A l \in (n + 1)..(m - 1) : a(l) = b(l)) /\ strict(m)
          BY <4>2
        <5>2. \A l \in n..(m - 1) : a(l) = b(l)
          BY <2>1, <3>3, <5>1
        <5> QED
          BY <3>3, <5>1, <5>2
      <4> QED
        BY <4>1, <4>2
    <3>5. from(n) \in BOOLEAN /\ from(n + 1) \in BOOLEAN
      BY DEF from
    <3> HIDE DEF from, g
    <3>6. body(g, n) = g[n + 1]
      BY <2>1
    <3> QED
      BY <2>0, <3>1, <3>4, <3>5, <3>6
  <2>2. CASE ~(a(n) = b(n) /\ n < K)
    <3>1. from(n) <=> strict(n)
      <4>1. ASSUME strict(n) PROVE from(n)
        <5>1. n \in n..K /\ \A l \in n..(n - 1) : FALSE
          BY <1>1
        <5> HIDE DEF strict
        <5> QED
          BY <4>1, <5>1
      <4>2. ASSUME from(n) PROVE strict(n)
        <5>1. PICK m \in n..K : (\A l \in n..(m - 1) : a(l) = b(l)) /\ strict(m)
          BY <4>2
        <5>2. m = n \/ (n \in n..(m - 1) /\ n < K)
          BY <1>1
        <5> HIDE DEF strict
        <5> QED
          BY <2>2, <5>1, <5>2
      <4> HIDE DEF strict, from
      <4> QED
        BY <4>1, <4>2
    <3> HIDE DEF from, g
    <3>2. body(g, n) = strict(n)
      BY <2>2
    <3>3. from(n) \in BOOLEAN
      BY DEF from
    <3>4. strict(n) \in BOOLEAN
      <4>1. (a(n) > b(n)) \in BOOLEAN /\ (a(n) < b(n)) \in BOOLEAN
        OBVIOUS
      <4> QED
        BY <4>1
    <3> HIDE DEF strict
    <3> QED
      BY <2>0, <3>1, <3>2, <3>3, <3>4
  <2> QED
    BY <2>1, <2>2
<1> HIDE DEF from, strict
<1>7. g = [n \in 1..K |-> body(g, n)]
  <2>1. g = [n \in 1..K |-> g[n]]
    OBVIOUS
  <2> HIDE DEF g, body
  <2> QED
    BY <1>6, <2>1
<1>8. PICK less : less = [n \in 1..K |-> body(less, n)] /\ OrderFunc(sel, subj, i, j, ords) = less[1]
  <2> DEFINE table(f) == [n \in DOMAIN ords |->
                             LET p == ValueOf(sel, subj, ords[n], i)
                                 q == ValueOf(sel, subj, ords[n], j)
                             IN  IF p = q /\ n < Len(ords) THEN f[n + 1]
                                 ELSE IF ords[n].desc THEN p > q ELSE p < q]
  <2>1. \A f : table(f) = [n \in 1..K |-> body(f, n)]
    BY <1>1 DEF K, a, b, strict
  <2>2. g = table(g)
    BY <1>7, <2>1
  <2> HIDE DEF g
  <2>3. PICK less : less = table(less) /\ OrderFunc(sel, subj, i, j, ords) = less[1]
    BY <2>2 DEF OrderFunc, ValueOf
  <2> QED
    BY <2>1, <2>3
<1>9. \A n \in 1..K : less[n] = body(less, n)
  <2> HIDE DEF body
  <2> QED
    BY <1>8
<1> DEFINE Q == {k \in Nat : k < K => less[K - k] = g[K - k]}
<1>10. 0 \in Q
  <2>1. K \in 1..K /\ K - 0 = K /\ ~(K < K)
    BY <1>1
  <2>2. less[K] = strict(K) /\ g[K] = strict(K)
    <3> HIDE DEF g
    <3> QED
      BY <1>6, <1>9, <2>1
  <2> HIDE DEF g
  <2> QED
    BY <2>1, <2>2
<1>11. ASSUME NEW k \in Nat, k \in Q PROVE k + 1 \in Q
  <2> HIDE DEF g
  <2> SUFFICES ASSUME k + 1 < K PROVE less[K - (k + 1)] = g[K - (k + 1)]
    OBVIOUS
  <2> DEFINE n == K - (k + 1)
  <2>1. n \in 1..K /\ n + 1 = K - k /\ k < K
    BY <1>1
  <2>2. less[n + 1] = g[n + 1]
    BY <1>11, <2>1
  <2> HIDE DEF n
  <2>3. less[n] = body(less, n) /\ g[n] = body(g, n)
    <3> HIDE DEF body
    <3> QED
      BY <1>6, <1>9, <2>1
  <2>4. less[n] = g[n]
    BY <2>2, <2>3
  <2> QED
    BY <2>4 DEF n
<1> HIDE DEF Q
<1>12. Nat \subseteq Q
  BY <1>10, <1>11, Induction
<1>13. less[1] = g[1]
  <2>1. K - 1 \in Q /\ K - 1 < K /\ K - (K - 1) = 1
    BY <1>1, <1>12
  <2> HIDE DEF g
  <2>2. less[K - (K - 1)] = g[K - (K - 1)]
    BY <2>1 DEF Q
  <2> QED
    BY <2>1, <2>2
<1>14. g[1] = from(1)
  BY <1>1
<1> QED
  BY <1>5, <1>8, <1>13, <1>14 DEF K

-----------------------------------------------------------------------------
(* What orderResult and the bounds leave. *)

\* The values by which the rows are compared are numbers, and u has them.
Compared(N, sel, subj, ords, u) ==
    /\ u \in [1..Len(ords) -> [1..N -> Int]]
    /\ \A n \in 1..Len(ords), i \in 1..N :
          /\ ValueOf(sel, subj, ords[n], i) \in Int
          /\ u[n][i] = Turned(sel, subj, ords[n], i)

\* orderResult sorts, and keeps the order of equal rows.
LEMMA OrderResultIs ==
    ASSUME NEW N \in Nat, NEW sel, DOMAIN sel = 1..N, NEW subj, NEW ords \in Seq(Ords),
           NEW u, Compared(N, sel, subj, ords, u)
    PROVE  /\ OrderResult(sel, subj, ords) \in Bijection(1..N, 1..N)
           /\ \A n, m \in 1..N :
                 n < m => LexOrPlace(Len(ords), u, OrderResult(sel, subj, ords)[n],
                                     OrderResult(sel, subj, ords)[m])
<1> DEFINE K == Len(ords)
           less(i, j) == OrderFunc(sel, subj, i, j, ords)
           first(i, j) == less(i, j) \/ (i < j /\ ~less(j, i))
           perm == OrderResult(sel, subj, ords)
<1>1. K \in Nat /\ (ords = << >> <=> K = 0)
  BY LenProperties, EmptySeq
<1>2. u \in [1..K -> [1..N -> Int]]
  BY DEF Compared
<1>3. CASE ords = << >>
  <2>1. perm = [i \in 1..N |-> i]
    BY <1>3 DEF OrderResult
  <2> HIDE DEF perm
  <2>2. perm \in Bijection(1..N, 1..N)
    BY <2>1 DEF Bijection, Injection, Surjection, IsInjective
  <2>3. ASSUME NEW n \in 1..N, NEW m \in 1..N, n < m PROVE LexOrPlace(K, u, perm[n], perm[m])
    <3>1. perm[n] = n /\ perm[m] = m
      BY <2>1
    <3>2. 1..K = {}
      BY <1>1, <1>3
    <3> QED
      BY <2>3, <3>1, <3>2 DEF LexOrPlace
  <2> QED
    BY <2>2, <2>3 DEF perm
<1>4. CASE ords # << >>
  <2>1. ASSUME NEW i \in 1..N, NEW j \in 1..N PROVE less(i, j) <=> Lex(K, u, i, j)
    <3>1. \A n \in 1..Len(ords) :
              /\ ValueOf(sel, subj, ords[n], i) \in Int
              /\ ValueOf(sel, subj, ords[n], j) \in Int
              /\ u[n][i] = Turned(sel, subj, ords[n], i)
              /\ u[n][j] = Turned(sel, subj, ords[n], j)
      BY DEF Compared
    <3> QED
      BY <1>4, <3>1, OrderFuncIs
  <2> DEFINE R == {ij \in (1..N) \X (1..N) : LexOrPlace(K, u, ij[1], ij[2])}
  <2>2. OrdersAll(R, 1..N)
    <3>1. 1..N \in SUBSET Nat
      OBVIOUS
    <3> HIDE DEF K
    <3> QED
      BY <1>1, <1>2, <3>1, LexOrders
  <2>3. \A i, j \in 1..N : <<i, j>> \in R <=> LexOrPlace(K, u, i, j)
    OBVIOUS
  <2> HIDE DEF R, less, K
  <2>4. ASSUME NEW i \in 1..N, NEW j \in 1..N PROVE first(i, j) <=> LexOrPlace(K, u, i, j)
    <3>1. \A x, y \in 1..N : less(x, y) <=> Lex(K, u, x, y)
      BY <2>1
    <3>2. LexOrPlace(K, u, i, j) <=> Lex(K, u, i, j) \/ (i < j /\ SameValues(K, u, i, j))
      BY DEF LexOrPlace, SameValues
    <3>3. \A n \in 1..K : u[n][i] \in Int /\ u[n][j] \in Int
      BY <1>2
    <3>4. SameValues(K, u, i, j) => ~Lex(K, u, j, i)
      <4> SUFFICES ASSUME SameValues(K, u, i, j), Lex(K, u, j, i) PROVE FALSE
        OBVIOUS
      <4>1. PICK n \in 1..K : u[n][j] < u[n][i]
        BY DEF Lex
      <4>2. u[n][i] = u[n][j]
        BY DEF SameValues
      <4> QED
        BY <3>3, <4>1, <4>2
    <3>5. ~SameValues(K, u, i, j) => Lex(K, u, i, j) \/ Lex(K, u, j, i)
      <4> SUFFICES ASSUME ~SameValues(K, u, i, j) PROVE Lex(K, u, i, j) \/ Lex(K, u, j, i)
        OBVIOUS
      <4>1. PICK n \in 1..K : DifferAt(n, u, i, j)
        BY <1>1, FirstDifference
      <4>2. u[n][i] < u[n][j] \/ u[n][j] < u[n][i]
        BY <3>3, <4>1 DEF DifferAt
      <4> QED
        BY <4>1, <4>2 DEF Lex, DifferAt
    <3> QED
      BY <3>1, <3>2, <3>4, <3>5
  <2>5. IsFiniteSet(1..N) /\ Cardinality(1..N) = N
    BY FS_Interval
  <2>6. \E p \in Bijection(1..N, 1..N) : \A n, m \in 1..N : n < m => <<p[n], p[m]>> \in R
    BY <2>2, <2>5, SortExists
  <2>7. \A p \in Bijection(1..N, 1..N) : \A n \in 1..N : p[n] \in 1..N
    BY DEF Bijection, Injection
  <2>8. \E p \in Bijection(1..N, 1..N) : \A n, m \in 1..N : n < m => first(p[n], p[m])
    <3> HIDE DEF first
    <3> QED
      BY <2>3, <2>4, <2>6, <2>7
  <2>9. perm = CHOOSE p \in Bijection(1..N, 1..N) : \A n, m \in 1..N : n < m => first(p[n], p[m])
    BY <1>4 DEF OrderResult, less
  <2> HIDE DEF perm
  <2>10. perm \in Bijection(1..N, 1..N) /\ \A n, m \in 1..N : n < m => first(perm[n], perm[m])
    <3> HIDE DEF first
    <3> QED
      BY <2>8, <2>9
  <2> HIDE DEF first
  <2> QED
    BY <2>4, <2>7, <2>10 DEF perm, K
<1> QED
  BY <1>3, <1>4

\* What is left of a list after off and lim.
LEMMA CutIs ==
    ASSUME NEW S, NEW s \in Seq(S), NEW off \in Nat, NEW lim \in Int
    PROVE  /\ Cut(s, off, lim) \in Seq(S)
           /\ Len(Cut(s, off, lim)) = IF Len(s) - off <= 0 THEN 0
                                      ELSE IF lim > 0 /\ Len(s) - off > lim THEN lim
                                      ELSE Len(s) - off
           /\ \A n \in 1..Len(Cut(s, off, lim)) :
                 n + off \in 1..Len(s) /\ Cut(s, off, lim)[n] = s[n + off]
<1> DEFINE N == Len(s)
           rest == IF off > 0 THEN SubSeq(s, off + 1, N) ELSE s
           c == Cut(s, off, lim)
<1>1. N \in Nat /\ \A i \in 1..N : s[i] \in S
  BY LenProperties, ElementOfSeq
<1>2. /\ rest \in Seq(S) /\ Len(rest) = (IF N - off <= 0 THEN 0 ELSE N - off)
      /\ \A n \in 1..Len(rest) : n + off \in 1..N /\ rest[n] = s[n + off]
  <2>1. CASE off = 0
    BY <1>1, <2>1
  <2>2. CASE off # 0
    <3> DEFINE t == SubSeq(s, off + 1, N)
    <3>1. /\ t \in Seq(S) /\ Len(t) = (IF off + 1 <= N THEN N - (off + 1) + 1 ELSE 0)
          /\ \A i \in 1..(N - (off + 1) + 1) : t[i] = s[(off + 1) + i - 1]
      <4>1. off + 1 \in Int /\ N \in Int /\ \A i \in (off + 1)..N : s[i] \in S
        BY <1>1
      <4> HIDE DEF N
      <4> QED
        BY <4>1, SubSeqProperties
    <3>2. rest = t
      BY <2>2
    <3> HIDE DEF rest, t, N
    <3>3. Len(t) = (IF N - off <= 0 THEN 0 ELSE N - off)
      BY <1>1, <3>1
    <3>4. ASSUME NEW n \in 1..Len(t) PROVE n + off \in 1..N /\ t[n] = s[n + off]
      <4>1. n \in 1..(N - (off + 1) + 1) /\ (off + 1) + n - 1 = n + off /\ n + off \in 1..N
        BY <1>1, <3>3
      <4>2. t[n] = s[(off + 1) + n - 1]
        BY <3>1, <4>1
      <4> QED
        BY <4>1, <4>2
    <3> QED
      BY <3>1, <3>2, <3>3, <3>4
  <2> QED
    BY <2>1, <2>2
<1>3. c = IF lim > 0 /\ Len(rest) > lim THEN SubSeq(rest, 1, lim) ELSE rest
  BY DEF Cut
<1> HIDE DEF rest, N, c
<1>4. Len(rest) \in Nat /\ \A i \in 1..Len(rest) : rest[i] \in S
  BY <1>2, LenProperties, ElementOfSeq
<1>5. CASE lim > 0 /\ Len(rest) > lim
  <2> DEFINE t == SubSeq(rest, 1, lim)
  <2>1. /\ t \in Seq(S) /\ Len(t) = (IF 1 <= lim THEN lim - 1 + 1 ELSE 0)
        /\ \A i \in 1..(lim - 1 + 1) : t[i] = rest[1 + i - 1]
    <3>1. \A i \in 1..lim : rest[i] \in S
      BY <1>4, <1>5
    <3> QED
      BY <3>1, SubSeqProperties
  <2>2. c = t
    BY <1>3, <1>5
  <2> HIDE DEF t
  <2>3. Len(t) = lim
    BY <1>5, <2>1
  <2>4. ASSUME NEW n \in 1..Len(t) PROVE n + off \in 1..N /\ t[n] = s[n + off]
    <3>1. n \in 1..(lim - 1 + 1) /\ 1 + n - 1 = n /\ n \in 1..Len(rest)
      BY <1>4, <1>5, <2>3
    <3>2. t[n] = rest[1 + n - 1]
      BY <2>1, <3>1
    <3> QED
      BY <1>2, <3>1, <3>2
  <2> QED
    BY <1>1, <1>2, <1>5, <2>1, <2>2, <2>3, <2>4 DEF N, c
<1>6. CASE ~(lim > 0 /\ Len(rest) > lim)
  <2>1. c = rest
    BY <1>3, <1>6
  <2> QED
    BY <1>1, <1>2, <1>4, <1>6, <2>1 DEF N, c
<1> QED
  BY <1>5, <1>6

-----------------------------------------------------------------------------
(* What a query asks for. *)

QuerySpec == ListQueryInit /\ [][ListQueryNext]_queryVars

Matching(q, L) == {i \in 1..Len(L) : Filter(L[i], q.whr)}
ValuesIn(q, L) == [i \in 1..Len(L) |-> ValuesOf(q, AskedKeys(q), L[i])]

\* What the rows of L are ordered by.
OrderValues(q, L) ==
    [n \in 1..Len(q.ords) |-> [i \in Matching(q, L) |->
        IF q.ords[n].desc THEN 0 - ValuesIn(q, L)[i][q.ords[n].key]
        ELSE ValuesIn(q, L)[i][q.ords[n].key]]]

OrderOf(q, L) ==
    {ij \in Matching(q, L) \X Matching(q, L) :
        LexOrPlace(Len(q.ords), OrderValues(q, L), ij[1], ij[2])}

\* The keys a query orders by are keys of the rows.
Orderable(q) ==
    \A n \in 1..Len(q.ords) : q.ords[n].key \in AskedKeys(q) \cup ToSet(SubjKeys)

\* Every key there is to order by has a number.
LEMMA ValuesAreInts ==
    ASSUME NEW q \in Queries, NEW fs, Selects(q, fs), NEW row \in Row,
           NEW k \in AskedKeys(q) \cup ToSet(SubjKeys)
    PROVE  ValuesOf(q, AskedKeys(q), row)[k] \in Int
<1> DEFINE keys == AskedKeys(q)
<1>1. \A j \in ToSet(SubjKeys) : row[j] \in Int
  BY ListQueryAssumption DEF Row
<1>2. SubjKeys[1] \in ToSet(SubjKeys)
  <2> DEFINE T == STRING \ {""}
  <2>1. SubjKeys \in Seq(T) /\ SubjKeys # << >>
    BY ListQueryAssumption
  <2> HIDE DEF T
  <2>2. Len(SubjKeys) \in Nat \ {0} /\ ToSet(SubjKeys) = {SubjKeys[i] : i \in 1..Len(SubjKeys)}
    BY <2>1, EmptySeq, ToSetDef
  <2>3. 1 \in 1..Len(SubjKeys)
    BY <2>2
  <2> QED
    BY <2>2, <2>3
<1>3. Computed(row) \in Int
  BY <1>1, <1>2 DEF Computed
<1>4. \A j \in keys : ~(q.bare \/ Asked(q.decls, j) = "exp") => j \in ToSet(SubjKeys)
  BY DEF Selects
<1>5. ValuesOf(q, keys, row)[k] = IF k \in keys /\ (q.bare \/ Asked(q.decls, k) = "exp")
                                  THEN Computed(row) ELSE row[k]
  BY DEF ValuesOf
<1> HIDE DEF keys
<1> QED
  BY <1>1, <1>3, <1>4, <1>5 DEF keys

\* A query's order of the rows is strict and total.
LEMMA OrderOfOrders ==
    ASSUME NEW q \in Queries, NEW fs, Selects(q, fs), Orderable(q), NEW L \in Seq(Row)
    PROVE  /\ Len(q.ords) \in Nat /\ DOMAIN q.ords = 1..Len(q.ords)
           /\ \A n \in 1..Len(q.ords), i \in 1..Len(L) :
                 ValuesIn(q, L)[i][q.ords[n].key] \in Int
           /\ OrderValues(q, L) \in [1..Len(q.ords) -> [Matching(q, L) -> Int]]
           /\ IsFiniteSet(Matching(q, L)) /\ Matching(q, L) \in SUBSET Nat
           /\ OrdersAll(OrderOf(q, L), Matching(q, L))
<1> DEFINE K == Len(q.ords)
           M == Matching(q, L)
           u == OrderValues(q, L)
           val(n, i) == ValuesIn(q, L)[i][q.ords[n].key]
<1>1. K \in Nat /\ DOMAIN q.ords = 1..K
  <2> DEFINE T == [key : STRING, desc : BOOLEAN]
  <2>1. q.ords \in Seq(T)
    BY QueriesAssumption
  <2> HIDE DEF T
  <2> QED
    BY <2>1, LenProperties
<1>2. Len(L) \in Nat /\ \A i \in 1..Len(L) : L[i] \in Row
  BY LenProperties, ElementOfSeq
<1>3. \A n \in 1..K, i \in 1..Len(L) : val(n, i) \in Int
  <2> TAKE n \in 1..K, i \in 1..Len(L)
  <2>1. q.ords[n].key \in AskedKeys(q) \cup ToSet(SubjKeys) /\ L[i] \in Row
    BY <1>2 DEF Orderable
  <2>2. ValuesOf(q, AskedKeys(q), L[i])[q.ords[n].key] \in Int
    BY <2>1, ValuesAreInts
  <2> QED
    BY <2>2 DEF ValuesIn
<1>4. M \subseteq 1..Len(L)
  BY DEF Matching
<1>5. IsFiniteSet(M) /\ M \in SUBSET Nat
  <2>1. IsFiniteSet(1..Len(L)) /\ 1..Len(L) \subseteq Nat
    BY <1>2, FS_Interval
  <2> HIDE DEF M
  <2> QED
    BY <1>4, <2>1, FS_Subset
<1>6. u \in [1..K -> [M -> Int]]
  <2>1. u = [n \in 1..K |-> [i \in M |-> IF q.ords[n].desc THEN 0 - val(n, i) ELSE val(n, i)]]
    BY DEF OrderValues
  <2> HIDE DEF K, M, u, val
  <2>2. \A n \in 1..K, i \in M : (IF q.ords[n].desc THEN 0 - val(n, i) ELSE val(n, i)) \in Int
    BY <1>3, <1>4
  <2> QED
    BY <2>1, <2>2
<1>7. OrdersAll(OrderOf(q, L), M)
  <2>1. OrderOf(q, L) = {ij \in M \X M : LexOrPlace(K, u, ij[1], ij[2])}
    BY DEF OrderOf
  <2> HIDE DEF K, M, u
  <2> QED
    BY <1>1, <1>5, <1>6, <2>1, LexOrders
<1> QED
  BY <1>1, <1>3, <1>5, <1>6, <1>7

\* A query's own order of the matching rows is the one by their values.
LEMMA PrecedesIs ==
    ASSUME NEW q \in Queries, NEW fs, Selects(q, fs), Orderable(q), NEW L \in Seq(Row),
           NEW i \in Matching(q, L), NEW j \in Matching(q, L)
    PROVE  Precedes(q.ords, ValuesIn(q, L), i, j) <=> <<i, j>> \in OrderOf(q, L)
<1> DEFINE K == Len(q.ords)
           M == Matching(q, L)
           u == OrderValues(q, L)
           val(n, k) == ValuesIn(q, L)[k][q.ords[n].key]
<1>1. /\ K \in Nat /\ DOMAIN q.ords = 1..K
      /\ \A n \in 1..K, k \in 1..Len(L) : val(n, k) \in Int
  BY OrderOfOrders
<1>2. \A n \in 1..K : \A k \in M : u[n][k] = IF q.ords[n].desc THEN 0 - val(n, k) ELSE val(n, k)
  BY DEF OrderValues
<1>3. M \subseteq 1..Len(L) /\ i \in M /\ j \in M
  BY DEF Matching
<1>4. <<i, j>> \in OrderOf(q, L) <=> LexOrPlace(K, u, i, j)
  BY DEF OrderOf
<1>5. Precedes(q.ords, ValuesIn(q, L), i, j) <=>
         \/ \E n \in 1..K :
               /\ \A m \in 1..(n - 1) : val(m, i) = val(m, j)
               /\ IF q.ords[n].desc THEN val(n, i) > val(n, j) ELSE val(n, i) < val(n, j)
         \/ i < j /\ \A n \in 1..K : val(n, i) = val(n, j)
  BY <1>1 DEF Precedes
<1> HIDE DEF K, M, u, val
<1>6. ASSUME NEW n \in 1..K
      PROVE  /\ val(n, i) = val(n, j) <=> u[n][i] = u[n][j]
             /\ (IF q.ords[n].desc THEN val(n, i) > val(n, j) ELSE val(n, i) < val(n, j))
                   <=> u[n][i] < u[n][j]
  <2>1. val(n, i) \in Int /\ val(n, j) \in Int
    BY <1>1, <1>3
  <2>2. /\ u[n][i] = IF q.ords[n].desc THEN 0 - val(n, i) ELSE val(n, i)
        /\ u[n][j] = IF q.ords[n].desc THEN 0 - val(n, j) ELSE val(n, j)
    BY <1>2, <1>3
  <2> QED
    BY <2>1, <2>2
<1>7. \A n \in 1..K : 1..(n - 1) \subseteq 1..K
  BY <1>1
<1>8. \A n \in 1..K : (\A m \in 1..(n - 1) : val(m, i) = val(m, j))
                         <=> \A m \in 1..(n - 1) : u[m][i] = u[m][j]
  BY <1>6, <1>7
<1>9. Lex(K, u, i, j) <=>
         \E n \in 1..K :
            /\ \A m \in 1..(n - 1) : val(m, i) = val(m, j)
            /\ IF q.ords[n].desc THEN val(n, i) > val(n, j) ELSE val(n, i) < val(n, j)
  BY <1>6, <1>8 DEF Lex
<1>10. (\A n \in 1..K : val(n, i) = val(n, j)) <=> \A n \in 1..K : u[n][i] = u[n][j]
  BY <1>6
<1> QED
  BY <1>4, <1>5, <1>9, <1>10 DEF LexOrPlace

\* The nth row of the stable order.
PlaceOf(q, L, n) == CHOOSE i \in Matching(q, L) : RankOf(OrderOf(q, L), Matching(q, L))[i] = n

\* A matching row as the query shows it.
ShownAs(q, L, i) ==
    IF AskedKeys(q) = {} THEN L[i] ELSE [k \in AskedKeys(q) |-> ValuesIn(q, L)[i][k]]

-----------------------------------------------------------------------------
(* What a query is answered. *)

\* What Exec goes through for query q and list L.
Kept(q, L) == Only(L, {row \in Row : Filter(row, q.whr)})
Shown(q, L, fs) == [i \in DOMAIN Kept(q, L) |-> Projected(Kept(q, L)[i], fs)]
OrdsOf(q, fs) == [i \in DOMAIN q.ords |-> EvalOrd(fs, q.ords[i])]
PermOf(q, L, fs) == OrderResult(Shown(q, L, fs), Kept(q, L), OrdsOf(q, fs))

\* The rows kept are the matching ones, in the list's order.
LEMMA KeptFacts ==
    ASSUME NEW q \in Queries, NEW L \in Seq(Row)
    PROVE  /\ Kept(q, L) \in Seq(Row)
           /\ Len(Kept(q, L)) = Cardinality(Matching(q, L))
           /\ q.whr = << >> => Kept(q, L) = L
           /\ \E at \in [1..Len(Kept(q, L)) -> Matching(q, L)] :
                 /\ \A n \in 1..Len(Kept(q, L)) : Kept(q, L)[n] = L[at[n]]
                 /\ \A n, m \in 1..Len(Kept(q, L)) : n < m => at[n] < at[m]
<1> DEFINE part == {row \in Row : Filter(row, q.whr)}
           org == Kept(q, L)
           M == Matching(q, L)
           N == Len(org)
<1>1. org = Only(L, part)
  BY DEF Kept
<1>2. /\ \A i \in 1..Len(L) : L[i] \in part <=> Filter(L[i], q.whr)
      /\ M = {i \in 1..Len(L) : L[i] \in part}
  <2>1. \A i \in 1..Len(L) : L[i] \in Row
    BY ElementOfSeq
  <2> QED
    BY <2>1 DEF Matching
<1>3. q.whr = << >> => Row \subseteq part
  BY DEF Filter
<1> HIDE DEF part, org, M, N
<1>4. org \in Seq(Row)
  BY <1>1, OnlyType
<1>5. q.whr = << >> => org = L
  BY <1>1, <1>3, OnlyAll
<1>6. N \in Nat
  BY <1>4, LenProperties DEF N
<1>7. PICK at : KeptFrom(L, part, at)
  BY OnlyKeeps
<1>8. /\ at \in [1..N -> 1..Len(L)]
      /\ \A n \in 1..N : org[n] = L[at[n]]
      /\ \A n, m \in 1..N : n < m => at[n] < at[m]
      /\ \A i \in 1..Len(L) : L[i] \in part <=> \E n \in 1..N : at[n] = i
  BY <1>1, <1>7 DEF KeptFrom, N
<1>9. at \in [1..N -> M]
  BY <1>2, <1>8
<1>10. at \in Bijection(1..N, M)
  <2>1. \A n, m \in 1..N : at[n] = at[m] => n = m
    <3> SUFFICES ASSUME NEW n \in 1..N, NEW m \in 1..N, n # m PROVE at[n] # at[m]
      OBVIOUS
    <3>1. at[n] \in 1..Len(L) /\ at[m] \in 1..Len(L)
      BY <1>8
    <3>2. n < m \/ m < n
      BY <1>6
    <3>3. at[n] < at[m] \/ at[m] < at[n]
      BY <1>8, <3>2
    <3> QED
      BY <3>1, <3>3
  <2>2. \A i \in M : \E n \in 1..N : at[n] = i
    BY <1>2, <1>8
  <2> QED
    BY <1>9, <2>1, <2>2 DEF Bijection, Injection, Surjection, IsInjective
<1>11. Cardinality(M) = N
  <2>1. ExistsBijection(1..N, M)
    BY <1>10 DEF ExistsBijection
  <2>2. IsFiniteSet(1..N) /\ Cardinality(1..N) = N
    BY <1>6, FS_Interval
  <2> QED
    BY <2>1, <2>2, FS_Bijection
<1> QED
  BY <1>4, <1>5, <1>8, <1>9, <1>11 DEF org, M, N

\* The values the rows are compared by are those of the fields asked for.
LEMMA ValueShown ==
    ASSUME NEW q \in Queries, NEW fs, Selects(q, fs), Orderable(q), NEW L \in Seq(Row),
           NEW n \in 1..Len(q.ords), NEW p \in 1..Len(Kept(q, L)), NEW i \in 1..Len(L),
           Kept(q, L)[p] = L[i]
    PROVE  ValueOf(Shown(q, L, fs), Kept(q, L), OrdsOf(q, fs)[n], p)
               = ValuesIn(q, L)[i][q.ords[n].key]
<1> DEFINE org == Kept(q, L)
           keys == AskedKeys(q)
           key == q.ords[n].key
           sel == Shown(q, L, fs)
           ord == OrdsOf(q, fs)[n]
<1>1. DOMAIN q.ords = 1..Len(q.ords)
  BY OrderOfOrders
<1>2. ord = EvalOrd(fs, q.ords[n])
  BY <1>1 DEF OrdsOf
<1>3. Keyed(fs) = keys
  BY DEF Selects
<1>4. ord.key = key /\ ord.subj = (key \notin keys)
  BY <1>2, <1>3 DEF EvalOrd
<1>5. org \in Seq(Row) /\ DOMAIN org = 1..Len(org) /\ org[p] = L[i]
  BY KeptFacts, LenProperties
<1>6. sel[p] = Projected(L[i], fs)
  BY <1>5 DEF Shown
<1>7. ValuesIn(q, L)[i] = ValuesOf(q, keys, L[i])
  BY DEF ValuesIn
<1>8. key \in keys \cup ToSet(SubjKeys)
  BY DEF Orderable
<1>9. Projected(L[i], fs) = IF keys = {} THEN L[i] ELSE [k \in keys |-> ValuesOf(q, keys, L[i])[k]]
  BY ProjectedIs
<1>10. ValueOf(sel, org, ord, p) = IF ord.subj THEN org[p][ord.key] ELSE sel[p][ord.key]
  BY DEF ValueOf
<1>11. ValuesOf(q, keys, L[i])[key] =
          IF key \in keys /\ (q.bare \/ Asked(q.decls, key) = "exp") THEN Computed(L[i]) ELSE L[i][key]
  BY <1>8 DEF ValuesOf
<1> HIDE DEF org, keys, key, sel, ord
<1>12. CASE key \in keys
  <2>1. sel[p] = [k \in keys |-> ValuesOf(q, keys, L[i])[k]]
    BY <1>6, <1>9, <1>12
  <2>2. sel[p][key] = ValuesOf(q, keys, L[i])[key]
    BY <1>12, <2>1
  <2> QED
    BY <1>4, <1>7, <1>10, <1>12, <2>2 DEF org, keys, key, sel, ord
<1>13. CASE key \notin keys
  <2>1. org[p][key] = ValuesOf(q, keys, L[i])[key]
    BY <1>5, <1>11, <1>13
  <2> QED
    BY <1>4, <1>7, <1>10, <1>13, <2>1 DEF org, keys, key, sel, ord
<1> QED
  BY <1>12, <1>13

LEMMA OrdsOfType ==
    ASSUME NEW q \in Queries, NEW fs, Selects(q, fs)
    PROVE  /\ OrdsOf(q, fs) \in Seq(Ords) /\ Len(OrdsOf(q, fs)) = Len(q.ords)
           /\ DOMAIN q.ords = 1..Len(q.ords)
           /\ \A n \in 1..Len(q.ords) : OrdsOf(q, fs)[n].desc = q.ords[n].desc
<1> DEFINE T == [key : STRING, desc : BOOLEAN]
           K == Len(q.ords)
           ords == OrdsOf(q, fs)
           f(n) == EvalOrd(fs, q.ords[n])
<1>1. q.ords \in Seq(T)
  BY QueriesAssumption
<1>2. \A n \in 1..K : q.ords[n] \in T
  BY <1>1, ElementOfSeq
<1>3. \A n \in 1..K : f(n) \in Ords /\ f(n).desc = q.ords[n].desc
  BY <1>2 DEF EvalOrd, Ords
<1> HIDE DEF T
<1>4. K \in Nat /\ DOMAIN q.ords = 1..K
  BY <1>1, LenProperties
<1>5. ords = [n \in 1..K |-> f(n)]
  BY <1>4 DEF OrdsOf
<1> HIDE DEF K, ords, f
<1>6. ords \in Seq(Ords) /\ Len(ords) = K
  BY <1>3, <1>4, <1>5
<1>7. \A n \in 1..K : ords[n].desc = q.ords[n].desc
  BY <1>3, <1>5
<1> QED
  BY <1>4, <1>6, <1>7 DEF K, ords

\* The rows are put in the order the query asks for.
LEMMA PermIs ==
    ASSUME NEW q \in Queries, NEW fs, Selects(q, fs), Orderable(q), NEW L \in Seq(Row)
    PROVE  /\ PermOf(q, L, fs) \in Bijection(1..Len(Kept(q, L)), 1..Len(Kept(q, L)))
           /\ \A n \in 1..Len(Kept(q, L)) :
                 /\ PlaceOf(q, L, n) \in 1..Len(L)
                 /\ Shown(q, L, fs)[PermOf(q, L, fs)[n]] = ShownAs(q, L, PlaceOf(q, L, n))
<1> DEFINE org == Kept(q, L)
           N == Len(org)
           K == Len(q.ords)
           M == Matching(q, L)
           R == OrderOf(q, L)
           sel == Shown(q, L, fs)
           ords == OrdsOf(q, fs)
           perm == PermOf(q, L, fs)
           v == OrderValues(q, L)
           val(n, i) == ValuesIn(q, L)[i][q.ords[n].key]
<1>1. PICK at \in [1..N -> M] : /\ \A n \in 1..N : org[n] = L[at[n]]
                                /\ \A n, m \in 1..N : n < m => at[n] < at[m]
  BY KeptFacts
<1>2. org \in Seq(Row) /\ N \in Nat /\ DOMAIN org = 1..N /\ N = Cardinality(M)
  BY KeptFacts, LenProperties
<1>3. /\ K \in Nat /\ \A n \in 1..K, i \in 1..Len(L) : val(n, i) \in Int
      /\ v \in [1..K -> [M -> Int]] /\ IsFiniteSet(M) /\ M \in SUBSET Nat
      /\ OrdersAll(R, M)
  BY OrderOfOrders
<1>4. ords \in Seq(Ords) /\ Len(ords) = K /\ \A n \in 1..K : ords[n].desc = q.ords[n].desc
  BY OrdsOfType
<1>5. M \subseteq 1..Len(L) /\ \A n \in 1..N : at[n] \in M
  BY <1>1 DEF Matching
<1>6. \A n \in 1..K, p \in 1..N : ValueOf(sel, org, ords[n], p) = val(n, at[p])
  <2> TAKE n \in 1..K, p \in 1..N
  <2>1. at[p] \in 1..Len(L) /\ org[p] = L[at[p]]
    BY <1>1, <1>5
  <2> QED
    BY <2>1, ValueShown
<1>7. \A n \in 1..K : \A i \in M : v[n][i] = IF q.ords[n].desc THEN 0 - val(n, i) ELSE val(n, i)
  BY DEF OrderValues
<1>8. \A n, m \in M : <<n, m>> \in R <=> LexOrPlace(K, v, n, m)
  BY DEF OrderOf
<1>9. sel = [p \in 1..N |-> Projected(org[p], fs)]
  BY <1>2 DEF Shown
<1>10. perm = OrderResult(sel, org, ords)
  BY DEF PermOf
<1> HIDE DEF org, N, K, M, R, sel, ords, perm, v, val
<1> DEFINE u == [n \in 1..K |-> [p \in 1..N |-> v[n][at[p]]]]
<1>11. \A n \in 1..K, p \in 1..N : v[n][at[p]] \in Int /\ u[n][p] = v[n][at[p]]
  BY <1>3, <1>5
<1>12. u \in [1..K -> [1..N -> Int]]
  BY <1>11
<1> HIDE DEF u
<1>13. Compared(N, sel, org, ords, u)
  <2>1. ASSUME NEW n \in 1..K, NEW p \in 1..N
        PROVE  /\ ValueOf(sel, org, ords[n], p) \in Int
               /\ u[n][p] = Turned(sel, org, ords[n], p)
    <3>1. ValueOf(sel, org, ords[n], p) = val(n, at[p]) /\ val(n, at[p]) \in Int
      BY <1>3, <1>5, <1>6
    <3>2. u[n][p] = IF q.ords[n].desc THEN 0 - val(n, at[p]) ELSE val(n, at[p])
      BY <1>5, <1>7, <1>11
    <3> QED
      BY <1>4, <3>1, <3>2 DEF Turned
  <2> QED
    BY <1>4, <1>12, <2>1 DEF Compared
<1>14. /\ perm \in Bijection(1..N, 1..N)
       /\ \A n, m \in 1..N : n < m => LexOrPlace(K, u, perm[n], perm[m])
  <2>1. DOMAIN sel = 1..N
    BY <1>9
  <2>2. /\ OrderResult(sel, org, ords) \in Bijection(1..N, 1..N)
        /\ \A n, m \in 1..N : n < m => LexOrPlace(Len(ords), u, OrderResult(sel, org, ords)[n],
                                                 OrderResult(sel, org, ords)[m])
    BY <1>2, <1>4, <1>13, <2>1, OrderResultIs
  <2> QED
    BY <1>4, <1>10, <2>2
<1>15. \A n \in 1..N : perm[n] \in 1..N
  BY <1>14 DEF Bijection, Injection
<1>16. \A a, b \in 1..N : LexOrPlace(K, u, a, b) => <<at[a], at[b]>> \in R
  <2> SUFFICES ASSUME NEW a \in 1..N, NEW b \in 1..N, LexOrPlace(K, u, a, b)
               PROVE  LexOrPlace(K, v, at[a], at[b])
    BY <1>5, <1>8
  <2>1. \A n \in 1..K : u[n][a] = v[n][at[a]] /\ u[n][b] = v[n][at[b]]
    BY <1>11
  <2>2. \A n \in 1..K : 1..(n - 1) \subseteq 1..K
    BY <1>3
  <2>3. a < b => at[a] < at[b]
    BY <1>1
  <2>4. Lex(K, u, a, b) => Lex(K, v, at[a], at[b])
    BY <2>1, <2>2 DEF Lex
  <2> QED
    BY <2>1, <2>3, <2>4 DEF LexOrPlace
<1> DEFINE P == [n \in 1..N |-> at[perm[n]]]
           rank == RankOf(R, M)
<1>17. P \in [1..N -> M] /\ \A n \in 1..N : P[n] = at[perm[n]]
  BY <1>5, <1>15
<1> HIDE DEF P
<1>18. \A n, m \in 1..N : n < m => <<P[n], P[m]>> \in R
  BY <1>14, <1>15, <1>16, <1>17
<1>19. \A n \in 1..N : rank[P[n]] = n
  <2> HIDE DEF rank
  <2>1. P \in [1..Cardinality(M) -> M]
        /\ \A n, m \in 1..Cardinality(M) : n < m => <<P[n], P[m]>> \in R
    BY <1>2, <1>17, <1>18
  <2>2. IsFiniteSet(M) /\ OrdersAll(R, M)
    BY <1>3
  <2>3. \A n \in 1..Cardinality(M) : RankOf(R, M)[P[n]] = n
    BY <2>1, <2>2, SortedRank
  <2> QED
    BY <1>2, <2>3 DEF rank
<1>20. \A i, j \in M : rank[i] = rank[j] => i = j
  BY <1>3, RankFacts
<1>21. \A n \in 1..N : PlaceOf(q, L, n) = P[n]
  <2> TAKE n \in 1..N
  <2>1. PlaceOf(q, L, n) = CHOOSE i \in M : rank[i] = n
    BY DEF PlaceOf, R, M
  <2> HIDE DEF rank
  <2> QED
    BY <1>17, <1>19, <1>20, <2>1
<1>22. \A n \in 1..N : sel[perm[n]] = ShownAs(q, L, P[n])
  <2> TAKE n \in 1..N
  <2>1. perm[n] \in 1..N /\ P[n] = at[perm[n]] /\ P[n] \in 1..Len(L)
    BY <1>5, <1>15, <1>17
  <2>2. sel[perm[n]] = Projected(L[P[n]], fs)
    BY <1>1, <1>9, <2>1
  <2>3. Projected(L[P[n]], fs) = IF AskedKeys(q) = {} THEN L[P[n]]
            ELSE [k \in AskedKeys(q) |-> ValuesOf(q, AskedKeys(q), L[P[n]])[k]]
    BY ProjectedIs
  <2>4. ValuesIn(q, L)[P[n]] = ValuesOf(q, AskedKeys(q), L[P[n]])
    BY <2>1 DEF ValuesIn
  <2> QED
    BY <2>2, <2>3, <2>4 DEF ShownAs
<1> QED
  BY <1>5, <1>14, <1>17, <1>21, <1>22 DEF N, org, sel, perm

\* What QueryAnswers says of query q on list L, which is after once ans was answered.
Right(q, L, after, ans) ==
    LET matches == {i \in DOMAIN L : Filter(L[i], q.whr)}
        keys == AskedKeys(q)
        v    == [i \in DOMAIN L |-> ValuesOf(q, keys, L[i])]
        rank == [i \in matches |->
                    Cardinality({j \in matches : Precedes(q.ords, v, j, i)}) + 1]
        rest == Cardinality(matches) - Skipped(q)
        upto == IF q.kind = "?" THEN 1 ELSE IF q.lim > 0 THEN q.lim ELSE rest
        size == IF rest <= 0 THEN 0 ELSE IF rest < upto THEN rest ELSE upto
        shown(r, i) == r = IF keys = {} THEN L[i] ELSE [k \in keys |-> v[i][k]]
        at(n) == CHOOSE i \in matches : rank[i] = n + Skipped(q)
    IN  /\ IF q.kind = "#" THEN ans.count = size
           ELSE /\ Len(ans.rows) = size
                /\ \A n \in 1..size : shown(ans.rows[n], at(n))
        /\ \E p \in Bijection(DOMAIN L, DOMAIN L) : after = [i \in DOMAIN L |-> L[p[i]]]
        /\ q.whr # << >> \/ q.ords = << >> => after = L

LEMMA QueryAnswersIs ==
    ASSUME answer' \notin {Waiting, Err} => Right(query', before', list', answer')
    PROVE  QueryAnswers'
BY DEF QueryAnswers, Right

SizeOf(q, L) ==
    LET rest == Cardinality(Matching(q, L)) - Skipped(q)
        upto == IF q.kind = "?" THEN 1 ELSE IF q.lim > 0 THEN q.lim ELSE rest
    IN  IF rest <= 0 THEN 0 ELSE IF rest < upto THEN rest ELSE upto

Reordered(L, after) ==
    \E p \in Bijection(DOMAIN L, DOMAIN L) : after = [i \in DOMAIN L |-> L[p[i]]]

\* An answer of the right rows is right.
LEMMA RightIs ==
    ASSUME NEW q \in Queries, NEW fs, Selects(q, fs), Orderable(q), NEW L \in Seq(Row),
           NEW after, NEW ans,
           q.kind = "#" => ans.count = SizeOf(q, L),
           q.kind # "#" =>
              /\ Len(ans.rows) = SizeOf(q, L)
              /\ \A n \in 1..SizeOf(q, L) : ans.rows[n] = ShownAs(q, L, PlaceOf(q, L, n + Skipped(q))),
           Reordered(L, after),
           q.whr # << >> \/ q.ords = << >> => after = L
    PROVE  Right(q, L, after, ans)
<1> DEFINE M == Matching(q, L)
           v == ValuesIn(q, L)
           rank == [i \in M |-> Cardinality({j \in M : Precedes(q.ords, v, j, i)}) + 1]
<1>1. DOMAIN L = 1..Len(L)
  BY LenProperties
<1>2. rank = RankOf(OrderOf(q, L), M)
  <2>1. ASSUME NEW i \in M
        PROVE  {j \in M : Precedes(q.ords, v, j, i)} = Below(OrderOf(q, L), M, i)
    <3>1. \A j \in M : Precedes(q.ords, v, j, i) <=> <<j, i>> \in OrderOf(q, L)
      BY PrecedesIs
    <3> QED
      BY <3>1 DEF Below
  <2>2. \A i \in M : Cardinality({j \in M : Precedes(q.ords, v, j, i)})
                        = Cardinality(Below(OrderOf(q, L), M, i))
    BY <2>1
  <2> QED
    BY <2>2 DEF RankOf
<1>3. M = {i \in DOMAIN L : Filter(L[i], q.whr)}
  BY <1>1 DEF Matching
<1>4. v = [i \in DOMAIN L |-> ValuesOf(q, AskedKeys(q), L[i])]
  BY <1>1 DEF ValuesIn
<1>5. \A n : PlaceOf(q, L, n) = CHOOSE i \in M : rank[i] = n
  BY <1>2 DEF PlaceOf
<1>6. \A i : ShownAs(q, L, i) = IF AskedKeys(q) = {} THEN L[i] ELSE [k \in AskedKeys(q) |-> v[i][k]]
  BY DEF ShownAs
<1> DEFINE size == SizeOf(q, L)
           at(n) == CHOOSE i \in M : rank[i] = n + Skipped(q)
           keys == AskedKeys(q)
<1>7. Right(q, L, after, ans) <=>
         /\ IF q.kind = "#" THEN ans.count = size
            ELSE /\ Len(ans.rows) = size
                 /\ \A n \in 1..size : ans.rows[n] = IF keys = {} THEN L[at(n)]
                                                     ELSE [k \in keys |-> v[at(n)][k]]
         /\ Reordered(L, after)
         /\ q.whr # << >> \/ q.ords = << >> => after = L
  <2> HIDE DEF M, v
  <2> QED
    BY <1>3, <1>4 DEF Right, SizeOf, Reordered, M
<1>8. ASSUME NEW n \in 1..size
      PROVE  ShownAs(q, L, PlaceOf(q, L, n + Skipped(q)))
                = IF keys = {} THEN L[at(n)] ELSE [k \in keys |-> v[at(n)][k]]
  <2>1. PlaceOf(q, L, n + Skipped(q)) = at(n)
    BY <1>5
  <2> HIDE DEF at, v
  <2> QED
    BY <1>6, <2>1
<1> HIDE DEF at, size, keys, M, v, rank
<1> QED
  BY <1>7, <1>8 DEF size

\* What Exec answers, and the list it leaves.
CutOf(q, L, fs) ==
    Cut([i \in DOMAIN PermOf(q, L, fs) |-> Shown(q, L, fs)[PermOf(q, L, fs)[i]]], q.off, q.lim)

\* The rows answered are those of the order from off on.
LEMMA CutOfIs ==
    ASSUME NEW q \in Queries, NEW fs, Selects(q, fs), Orderable(q), NEW L \in Seq(Row)
    PROVE  LET c == CutOf(q, L, fs)
               rest == Cardinality(Matching(q, L)) - Skipped(q)
           IN  /\ Cardinality(Matching(q, L)) \in Nat
               /\ c = << >> <=> Len(c) = 0
               /\ Len(c) = IF rest <= 0 THEN 0 ELSE IF q.lim > 0 /\ rest > q.lim THEN q.lim ELSE rest
               /\ \A n \in 1..Len(c) : c[n] = ShownAs(q, L, PlaceOf(q, L, n + Skipped(q)))
<1> DEFINE N == Len(Kept(q, L))
           perm == PermOf(q, L, fs)
           sel == Shown(q, L, fs)
           T == {sel[n] : n \in 1..N}
           s == [i \in DOMAIN perm |-> sel[perm[i]]]
           c == CutOf(q, L, fs)
<1>1. /\ perm \in Bijection(1..N, 1..N)
      /\ \A n \in 1..N : sel[perm[n]] = ShownAs(q, L, PlaceOf(q, L, n))
  BY PermIs
<1>2. N \in Nat /\ N = Cardinality(Matching(q, L))
  BY KeptFacts, LenProperties
<1>3. q.off \in Int /\ q.lim \in Int
  BY QueriesAssumption
<1>4. Skipped(q) \in Nat /\ c = Cut(s, Skipped(q), q.lim)
  <2>1. c = Cut(s, q.off, q.lim)
    BY DEF CutOf
  <2> QED
    BY <1>3, <2>1 DEF Skipped, Cut
<1> HIDE DEF N, perm, sel, c
<1>5. DOMAIN perm = 1..N /\ \A n \in 1..N : perm[n] \in 1..N
  BY <1>1 DEF Bijection, Injection
<1>6. s = [n \in 1..N |-> sel[perm[n]]]
  BY <1>5
<1>7. \A n \in 1..N : sel[perm[n]] \in T
  BY <1>5
<1> HIDE DEF s, T
<1>8. s \in Seq(T) /\ Len(s) = N /\ \A n \in 1..N : s[n] = sel[perm[n]]
  BY <1>2, <1>6, <1>7
<1>9. /\ c \in Seq(T)
      /\ Len(c) = IF N - Skipped(q) <= 0 THEN 0 ELSE IF q.lim > 0 /\ N - Skipped(q) > q.lim THEN q.lim
                  ELSE N - Skipped(q)
      /\ \A n \in 1..Len(c) : n + Skipped(q) \in 1..N /\ c[n] = s[n + Skipped(q)]
  <2>1. LET d == Cut(s, Skipped(q), q.lim)
        IN  /\ d \in Seq(T)
            /\ Len(d) = IF Len(s) - Skipped(q) <= 0 THEN 0
                        ELSE IF q.lim > 0 /\ Len(s) - Skipped(q) > q.lim THEN q.lim
                        ELSE Len(s) - Skipped(q)
            /\ \A n \in 1..Len(d) : n + Skipped(q) \in 1..Len(s) /\ d[n] = s[n + Skipped(q)]
    <3> DEFINE off == Skipped(q)
               lim == q.lim
    <3>1. s \in Seq(T) /\ off \in Nat /\ lim \in Int
      BY <1>3, <1>4, <1>8
    <3> HIDE DEF off, lim
    <3>2. LET d == Cut(s, off, lim)
          IN  /\ d \in Seq(T)
              /\ Len(d) = IF Len(s) - off <= 0 THEN 0
                          ELSE IF lim > 0 /\ Len(s) - off > lim THEN lim ELSE Len(s) - off
              /\ \A n \in 1..Len(d) : n + off \in 1..Len(s) /\ d[n] = s[n + off]
      BY <3>1, CutIs
    <3> QED
      BY <3>2 DEF off, lim
  <2> QED
    BY <1>4, <1>8, <2>1
<1>10. c = << >> <=> Len(c) = 0
  BY <1>9, EmptySeq
<1>11. \A n \in 1..Len(c) : c[n] = ShownAs(q, L, PlaceOf(q, L, n + Skipped(q)))
  BY <1>1, <1>8, <1>9
<1> QED
  BY <1>2, <1>9, <1>10, <1>11 DEF c

\* Exec with its steps by name.
LEMMA ExecIs ==
    ASSUME NEW q, Exec(q)
    PROVE  LET sel == ReslSel(q.decls, q.bare)
               cut == CutOf(q, list, sel.fs)
               perm == PermOf(q, list, sel.fs)
           IN  /\ query' = q /\ before' = list
               /\ sel = Err \/ OrdFails(sel.fs, q.ords) => answer' = Err /\ list' = list
               /\ ~(sel = Err \/ OrdFails(sel.fs, q.ords)) =>
                     /\ q.kind = "#" =>
                           answer' = [count |-> CollectCount(Len(Kept(q, list)), q.off, q.lim)]
                     /\ q.kind # "#" => answer' = [rows |-> IF q.kind = "?" /\ cut # << >> THEN <<cut[1]>>
                                                           ELSE cut]
                     /\ list' = IF q.kind # "#" /\ q.whr = << >>
                                THEN [i \in DOMAIN perm |-> list[perm[i]]] ELSE list
BY DEF Exec, CutOf, PermOf, Kept, Shown, OrdsOf

LEMMA SameReordered ==
    ASSUME NEW L \in Seq(Row)
    PROVE  Reordered(L, L)
<1> DEFINE D == DOMAIN L
           p == [i \in D |-> i]
<1>1. p \in Bijection(D, D)
  BY DEF Bijection, Injection, Surjection, IsInjective
<1>2. L = [i \in D |-> L[p[i]]]
  <2>1. L = [i \in D |-> L[i]]
    BY LenProperties
  <2> QED
    BY <2>1
<1> HIDE DEF p, D
<1> QED
  BY <1>1, <1>2 DEF Reordered, D

\* The list is swapped along with the result when that is all of it.
LEMMA ListSwapped ==
    ASSUME NEW q \in Queries, NEW fs, Selects(q, fs), Orderable(q), NEW L \in Seq(Row),
           q.whr = << >>
    PROVE  LET perm == PermOf(q, L, fs)
               after == [i \in DOMAIN perm |-> L[perm[i]]]
           IN  /\ after \in Seq(Row) /\ Reordered(L, after)
               /\ q.ords = << >> => after = L
<1> DEFINE N == Len(L)
           perm == PermOf(q, L, fs)
           after == [i \in DOMAIN perm |-> L[perm[i]]]
<1>1. Kept(q, L) = L /\ N \in Nat /\ DOMAIN L = 1..N /\ \A i \in 1..N : L[i] \in Row
  BY KeptFacts, LenProperties, ElementOfSeq
<1>2. perm \in Bijection(1..N, 1..N)
  <2>1. perm \in Bijection(1..Len(Kept(q, L)), 1..Len(Kept(q, L)))
    BY PermIs
  <2> QED
    BY <1>1, <2>1
<1>3. q.ords = << >> => perm = [i \in 1..N |-> i]
  <2> SUFFICES ASSUME q.ords = << >> PROVE perm = [i \in 1..N |-> i]
    OBVIOUS
  <2>1. DOMAIN Shown(q, L, fs) = 1..N
    BY <1>1 DEF Shown
  <2>2. OrdsOf(q, fs) \in Seq(Ords) /\ Len(OrdsOf(q, fs)) = 0
    BY OrdsOfType
  <2>3. OrdsOf(q, fs) = << >>
    BY <2>2, EmptySeq
  <2> QED
    BY <2>1, <2>3 DEF PermOf, OrderResult
<1> HIDE DEF N, perm
<1>4. DOMAIN perm = 1..N /\ \A i \in 1..N : perm[i] \in 1..N
  BY <1>2 DEF Bijection, Injection
<1>5. \A i \in 1..N : L[perm[i]] \in Row
  BY <1>1, <1>4
<1>6. after = [i \in 1..N |-> L[perm[i]]]
  BY <1>4
<1>7. after \in Seq(Row)
  <2> HIDE DEF after
  <2> QED
    BY <1>1, <1>5, <1>6
<1>8. Reordered(L, after)
  BY <1>1, <1>2, <1>6 DEF Reordered
<1>9. q.ords = << >> => after = L
  <2>1. L = [i \in 1..N |-> L[i]]
    BY <1>1 DEF N
  <2> QED
    BY <1>3, <1>6, <2>1
<1> QED
  BY <1>7, <1>8, <1>9 DEF perm

\* A query executed is answered with what it asks for.
LEMMA ExecAnswers ==
    ASSUME list \in Seq(Row), NEW q \in Queries, Exec(q)
    PROVE  list' \in Seq(Row) /\ QueryAnswers'
<1> DEFINE sel == ReslSel(q.decls, q.bare)
           fs == sel.fs
           fails == sel = Err \/ OrdFails(fs, q.ords)
           L == list
           after == list'
           ans == answer'
           c == CutOf(q, L, fs)
           perm == PermOf(q, L, fs)
           M == Cardinality(Matching(q, L))
<1>1. /\ query' = q /\ before' = L
      /\ fails => ans = Err /\ after = L
      /\ ~fails =>
            /\ q.kind = "#" =>
                  ans = [count |-> CollectCount(Len(Kept(q, L)), q.off, q.lim)]
            /\ q.kind # "#" => ans = [rows |-> IF q.kind = "?" /\ c # << >> THEN <<c[1]>> ELSE c]
            /\ after = IF q.kind # "#" /\ q.whr = << >> THEN [i \in DOMAIN perm |-> L[perm[i]]] ELSE L
  BY ExecIs
<1>2. CASE fails
  BY <1>1, <1>2, QueryAnswersIs
<1>3. CASE ~fails
  <2>1. Selects(q, fs)
    BY <1>3, Selection
  <2>2. Orderable(q)
    <3>1. Keyed(fs) = AskedKeys(q) /\ DOMAIN q.ords = 1..Len(q.ords)
      BY <2>1, OrdsOfType DEF Selects
    <3> QED
      BY <1>3, <3>1 DEF OrdFails, Orderable
  <2>3. /\ q.off \in Int /\ q.lim \in Int /\ q.kind \in {"#", "?", "*"}
        /\ Skipped(q) \in Nat
    <3>1. q.off \in Int /\ q.lim \in Int /\ q.kind \in {"#", "?", "*"}
      BY QueriesAssumption
    <3> QED
      BY <3>1 DEF Skipped
  <2>4. Len(Kept(q, L)) = M /\ M \in Nat
    BY KeptFacts, LenProperties
  <2>5. /\ c = << >> <=> Len(c) = 0
        /\ Len(c) = IF M - Skipped(q) <= 0 THEN 0 ELSE IF q.lim > 0 /\ M - Skipped(q) > q.lim THEN q.lim
                    ELSE M - Skipped(q)
        /\ \A n \in 1..Len(c) : c[n] = ShownAs(q, L, PlaceOf(q, L, n + Skipped(q)))
    BY <2>1, <2>2, CutOfIs
  <2>6. /\ after \in Seq(Row) /\ Reordered(L, after)
        /\ q.whr # << >> \/ q.ords = << >> => after = L
    <3>1. CASE q.kind # "#" /\ q.whr = << >>
      <4> DEFINE to == [i \in DOMAIN perm |-> L[perm[i]]]
      <4>1. after = to
        BY <1>1, <1>3, <3>1
      <4>2. to \in Seq(Row) /\ Reordered(L, to) /\ (q.ords = << >> => to = L)
        <5> HIDE DEF fs
        <5> QED
          BY <2>1, <2>2, <3>1, ListSwapped
      <4> HIDE DEF to, after
      <4> QED
        BY <3>1, <4>1, <4>2
    <3>2. CASE ~(q.kind # "#" /\ q.whr = << >>)
      BY <1>1, <1>3, <3>2, SameReordered
    <3> QED
      BY <3>1, <3>2
  <2> DEFINE size == SizeOf(q, L)
  <2>7. size = IF M - Skipped(q) <= 0 THEN 0
               ELSE IF M - Skipped(q) <
                          (IF q.kind = "?" THEN 1
                           ELSE IF q.lim > 0 THEN q.lim ELSE M - Skipped(q))
               THEN M - Skipped(q)
               ELSE IF q.kind = "?" THEN 1 ELSE IF q.lim > 0 THEN q.lim ELSE M - Skipped(q)
    BY DEF SizeOf
  <2> HIDE DEF sel, fails, L, after, ans, c, perm, M, size
  <2>8. q.kind = "#" => ans.count = size
    <3> SUFFICES ASSUME q.kind = "#" PROVE ans.count = size
      OBVIOUS
    <3>1. ans.count = CollectCount(M, q.off, q.lim)
      BY <1>1, <1>3, <2>4
    <3> QED
      BY <2>3, <2>4, <2>7, <3>1 DEF CollectCount, Skipped
  <2>9. q.kind # "#" =>
           /\ Len(ans.rows) = size
           /\ \A n \in 1..size : ans.rows[n] = ShownAs(q, L, PlaceOf(q, L, n + Skipped(q)))
    <3> SUFFICES ASSUME q.kind # "#"
                 PROVE  /\ Len(ans.rows) = size
                        /\ \A n \in 1..size : ans.rows[n] = ShownAs(q, L, PlaceOf(q, L, n + Skipped(q)))
      OBVIOUS
    <3>1. ans.rows = IF q.kind = "?" /\ c # << >> THEN <<c[1]>> ELSE c
      BY <1>1, <1>3
    <3>2. CASE q.kind = "?" /\ c # << >>
      <4>1. size = 1 /\ 1 \in 1..Len(c)
        BY <2>3, <2>4, <2>5, <2>7, <3>2
      <4>2. ans.rows = <<c[1]>>
        BY <3>1, <3>2
      <4>3. Len(ans.rows) = 1 /\ ans.rows[1] = c[1]
        BY <4>2
      <4>4. \A n \in 1..1 : n = 1
        OBVIOUS
      <4> QED
        BY <2>5, <4>1, <4>3, <4>4
    <3>3. CASE ~(q.kind = "?" /\ c # << >>)
      <4>1. ans.rows = c
        BY <3>1, <3>3
      <4>2. size = Len(c)
        BY <2>3, <2>4, <2>5, <2>7, <3>3
      <4> QED
        BY <2>5, <4>1, <4>2
    <3> QED
      BY <3>2, <3>3
  <2>10. Right(q, L, after, ans)
    <3>1. L \in Seq(Row)
      BY DEF L
    <3> QED
      BY <2>1, <2>2, <2>6, <2>8, <2>9, <3>1, RightIs DEF size
  <2> QED
    BY <1>1, <2>6, <2>10, QueryAnswersIs DEF L, after, ans
<1> QED
  BY <1>2, <1>3

\* A query that is answered at all gets the rows it asks for, and the backend's list
\* keeps its rows, whatever the fields, the rows and the queries (qry: reslSel, evalOrd,
\* filter, orderResult, collectList).
THEOREM QueriesAreAnswered == QuerySpec => []QueryAnswers
<1>1. ListQueryInit => list \in Seq(Row) /\ QueryAnswers
  <2> SUFFICES ASSUME ListQueryInit PROVE list \in Seq(Row) /\ QueryAnswers
    OBVIOUS
  <2>1. PICK n \in 0..MaxRows : list \in [1..n -> Row]
    BY DEF ListQueryInit
  <2>2. n \in Nat
    <3>1. MaxRows \in Nat
      BY ListQueryAssumption
    <3> QED
      BY <3>1
  <2>3. list \in Seq(Row)
    BY <2>1, <2>2
  <2> QED
    BY <2>3 DEF ListQueryInit, QueryAnswers
<1>2. (list \in Seq(Row) /\ QueryAnswers) /\ [ListQueryNext]_queryVars
         => (list \in Seq(Row) /\ QueryAnswers)'
  <2> SUFFICES ASSUME list \in Seq(Row), QueryAnswers, [ListQueryNext]_queryVars
               PROVE  (list \in Seq(Row) /\ QueryAnswers)'
    OBVIOUS
  <2>1. CASE ListQueryNext
    <3>1. PICK q \in Queries : Exec(q)
      BY <2>1 DEF ListQueryNext
    <3> QED
      BY <3>1, ExecAnswers
  <2>2. CASE UNCHANGED queryVars
    <3>1. /\ list' = list /\ before' = before /\ query' = query /\ answer' = answer
      BY <2>2 DEF queryVars
    <3>2. answer \notin {Waiting, Err} => Right(query, before, list, answer)
      BY DEF QueryAnswers, Right
    <3> QED
      BY <3>1, <3>2, QueryAnswersIs
  <2> QED
    BY <2>1, <2>2
<1> QED
  BY <1>1, <1>2, PTL DEF QuerySpec
=============================================================================

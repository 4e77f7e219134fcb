------------------------------ MODULE SeqLemmas ------------------------------
(***************************************************************************)
(* Lemmas the proofs share: what a channel holds after a message was sent  *)
(* on it or taken; what a list holds after an element was put in, taken    *)
(* out or replaced; what Only keeps of a list; and induction.  The library *)
(* states induction for an operator, which the provers cannot instantiate; *)
(* here it is stated for a set, and follows from the order of finite sets  *)
(* by inclusion.                                                           *)
(***************************************************************************)
EXTENDS Integers, SequencesExt, Lists, SequenceTheorems, FiniteSetTheorems,
        WellFoundedInduction, TLAPS

\* e is in s at most once.
Once(s, e) == \A i, j \in 1..Len(s) : s[i] = e /\ s[j] = e => i = j

\* s has at most one element of F.
OnceIn(s, F) == \A i, j \in 1..Len(s) : s[i] \in F /\ s[j] \in F => i = j

\* After e there is no element of F in s.
NoneAfter(s, e, F) == \A i, j \in 1..Len(s) : i < j /\ s[i] = e => s[j] \notin F

\* The elements of F in s come after an e.
FirstOf(s, e, F) ==
    \A i \in 1..Len(s) : s[i] \in F => \E j \in 1..i : s[j] = e
-----------------------------------------------------------------------------

LEMMA ToSetDef ==
    ASSUME NEW S, NEW s \in Seq(S)
    PROVE  /\ ToSet(s) = {s[i] : i \in 1..Len(s)}
           /\ ToSet(s) \subseteq S
<1>1. DOMAIN s = 1..Len(s) /\ \A i \in 1..Len(s) : s[i] \in S
  BY LenProperties, ElementOfSeq
<1> QED
  BY <1>1 DEF ToSet

LEMMA ToSetEmpty == ToSet(<< >>) = {}
  BY DEF ToSet

\* A sent message is on the channel, with what was there before.
LEMMA ToSetAppend ==
    ASSUME NEW S, NEW s \in Seq(S), NEW e \in S
    PROVE  ToSet(Append(s, e)) = ToSet(s) \cup {e}
<1> DEFINE t == Append(s, e)
<1>1. /\ t \in Seq(S) /\ Len(t) = Len(s) + 1 /\ Len(s) \in Nat
      /\ \A i \in 1..Len(s) : t[i] = s[i]
      /\ t[Len(s) + 1] = e
  BY AppendProperties, LenProperties
<1> HIDE DEF t
<1>2. ToSet(t) = {t[i] : i \in 1..Len(t)} /\ ToSet(s) = {s[i] : i \in 1..Len(s)}
  BY <1>1, ToSetDef
<1>3. 1..Len(t) = 1..Len(s) \cup {Len(s) + 1}
  BY <1>1
<1>4. ToSet(t) = ToSet(s) \cup {e}
  BY <1>1, <1>2, <1>3
<1> QED
  BY <1>4 DEF t

\* A message taken was on the channel, and what stays was there too.
LEMMA ToSetTail ==
    ASSUME NEW S, NEW s \in Seq(S), s # << >>
    PROVE  ToSet(s) = {Head(s)} \cup ToSet(Tail(s))
<1> DEFINE t == Tail(s)
<1>1. /\ t \in Seq(S) /\ Len(s) \in Nat \ {0} /\ Len(t) = Len(s) - 1
      /\ \A i \in 1..Len(t) : t[i] = s[i + 1]
      /\ Head(s) = s[1]
  BY HeadTailProperties, EmptySeq
<1> HIDE DEF t
<1>2. ToSet(t) = {t[i] : i \in 1..Len(t)} /\ ToSet(s) = {s[i] : i \in 1..Len(s)}
  BY <1>1, ToSetDef
<1>3. \A i \in 1..Len(s) : i = 1 \/ (i - 1 \in 1..Len(t) /\ t[i - 1] = s[i])
  BY <1>1
<1>4. \A i \in 1..Len(t) : i + 1 \in 1..Len(s) /\ t[i] = s[i + 1]
  BY <1>1
<1>5. ToSet(s) = {Head(s)} \cup ToSet(t)
  <2>1. ToSet(s) \subseteq {Head(s)} \cup ToSet(t)
    BY <1>1, <1>2, <1>3
  <2>2. ToSet(t) \subseteq ToSet(s)
    BY <1>2, <1>4
  <2>3. Head(s) \in ToSet(s)
    BY <1>1, <1>2
  <2> QED
    BY <2>1, <2>2, <2>3
<1> QED
  BY <1>5 DEF t

-----------------------------------------------------------------------------
(* The order of the elements. *)

LEMMA AppendAt ==
    ASSUME NEW S, NEW s \in Seq(S), NEW e \in S
    PROVE  /\ Len(s) \in Nat /\ Len(Append(s, e)) = Len(s) + 1
           /\ \A i \in 1..Len(Append(s, e)) :
                  \/ i \in 1..Len(s) /\ Append(s, e)[i] = s[i]
                  \/ i = Len(s) + 1 /\ Append(s, e)[i] = e
<1>1. /\ Len(Append(s, e)) = Len(s) + 1 /\ Len(s) \in Nat
      /\ \A i \in 1..Len(s) : Append(s, e)[i] = s[i]
      /\ Append(s, e)[Len(s) + 1] = e
  BY AppendProperties, LenProperties
<1> QED
  BY <1>1

LEMMA TailAt ==
    ASSUME NEW S, NEW s \in Seq(S), s # << >>
    PROVE  /\ Tail(s) \in Seq(S) /\ Len(s) \in Nat \ {0} /\ Len(Tail(s)) = Len(s) - 1
           /\ \A i \in 1..Len(Tail(s)) : i + 1 \in 1..Len(s) /\ Tail(s)[i] = s[i + 1]
           /\ Head(s) = s[1]
<1>1. /\ Tail(s) \in Seq(S) /\ Len(s) \in Nat \ {0} /\ Len(Tail(s)) = Len(s) - 1
      /\ \A i \in 1..Len(Tail(s)) : Tail(s)[i] = s[i + 1]
      /\ Head(s) = s[1]
  BY HeadTailProperties, EmptySeq
<1> QED
  BY <1>1

LEMMA OnceAppend ==
    ASSUME NEW S, NEW s \in Seq(S), NEW f \in S, NEW e,
           Once(s, e), f = e => e \notin ToSet(s)
    PROVE  Once(Append(s, f), e)
<1>1. \A i \in 1..Len(s) : s[i] \in ToSet(s)
  BY ToSetDef
<1>2. Len(s) \in Nat /\ Len(Append(s, f)) = Len(s) + 1
  BY AppendAt
<1> QED
  BY <1>1, <1>2, AppendAt DEF Once

LEMMA OnceTail ==
    ASSUME NEW S, NEW s \in Seq(S), s # << >>, NEW e, Once(s, e)
    PROVE  /\ Once(Tail(s), e)
           /\ Head(s) = e => e \notin ToSet(Tail(s))
<1> DEFINE t == Tail(s)
<1>1. /\ t \in Seq(S) /\ Len(s) \in Nat \ {0} /\ Len(t) = Len(s) - 1
      /\ \A i \in 1..Len(t) : i + 1 \in 1..Len(s) /\ t[i] = s[i + 1]
      /\ Head(s) = s[1]
  BY TailAt
<1> HIDE DEF t
<1>2. ToSet(t) = {t[i] : i \in 1..Len(t)}
  BY <1>1, ToSetDef
<1>3. Once(t, e)
  BY <1>1 DEF Once
<1>4. Head(s) = e => e \notin ToSet(t)
  BY <1>1, <1>2 DEF Once
<1> QED
  BY <1>3, <1>4 DEF t

LEMMA NoneAfterAppend ==
    ASSUME NEW S, NEW s \in Seq(S), NEW f \in S, NEW e, NEW F,
           NoneAfter(s, e, F), f \in F => e \notin ToSet(s)
    PROVE  NoneAfter(Append(s, f), e, F)
<1>1. \A i \in 1..Len(s) : s[i] \in ToSet(s)
  BY ToSetDef
<1>2. Len(s) \in Nat /\ Len(Append(s, f)) = Len(s) + 1
  BY AppendAt
<1> QED
  BY <1>1, <1>2, AppendAt DEF NoneAfter

LEMMA NoneAfterTail ==
    ASSUME NEW S, NEW s \in Seq(S), s # << >>, NEW e, NEW F, NoneAfter(s, e, F)
    PROVE  /\ NoneAfter(Tail(s), e, F)
           /\ Head(s) = e => ToSet(Tail(s)) \cap F = {}
<1> DEFINE t == Tail(s)
<1>1. /\ t \in Seq(S) /\ Len(s) \in Nat \ {0} /\ Len(t) = Len(s) - 1
      /\ \A i \in 1..Len(t) : i + 1 \in 1..Len(s) /\ t[i] = s[i + 1]
      /\ Head(s) = s[1]
  BY TailAt
<1> HIDE DEF t
<1>2. ToSet(t) = {t[i] : i \in 1..Len(t)}
  BY <1>1, ToSetDef
<1>3. NoneAfter(t, e, F)
  BY <1>1 DEF NoneAfter
<1>4. Head(s) = e => ToSet(t) \cap F = {}
  BY <1>1, <1>2 DEF NoneAfter
<1> QED
  BY <1>3, <1>4 DEF t

LEMMA FirstOfAppend ==
    ASSUME NEW S, NEW s \in Seq(S), NEW f \in S, NEW e, NEW F,
           FirstOf(s, e, F), f \in F => f = e \/ e \in ToSet(s)
    PROVE  FirstOf(Append(s, f), e, F)
<1> DEFINE t == Append(s, f)
<1>1. Len(s) \in Nat /\ Len(t) = Len(s) + 1
  BY AppendAt
<1>2. \A i \in 1..Len(t) : \/ i \in 1..Len(s) /\ t[i] = s[i]
                           \/ i = Len(s) + 1 /\ t[i] = f
  BY AppendAt
<1> HIDE DEF t
<1> SUFFICES ASSUME NEW i \in 1..Len(t), t[i] \in F
             PROVE  \E j \in 1..i : t[j] = e
  BY DEF FirstOf, t
<1>3. CASE i \in 1..Len(s)
  <2>1. s[i] \in F
    BY <1>1, <1>2, <1>3
  <2>2. PICK j \in 1..i : s[j] = e
    BY <1>3, <2>1 DEF FirstOf
  <2>3. j \in 1..Len(s) /\ j \in 1..Len(t) /\ j # Len(s) + 1
    BY <1>1, <1>3
  <2> QED
    BY <1>2, <2>2, <2>3
<1>4. CASE i = Len(s) + 1 /\ f = e
  BY <1>1, <1>2, <1>4
<1>5. CASE i = Len(s) + 1 /\ e \in ToSet(s)
  <2>1. PICK j \in 1..Len(s) : s[j] = e
    BY <1>5, ToSetDef
  <2>2. j \in 1..i /\ j \in 1..Len(t) /\ j # Len(s) + 1
    BY <1>1, <1>5
  <2> QED
    BY <1>2, <2>1, <2>2
<1> QED
  BY <1>1, <1>2, <1>3, <1>4, <1>5

\* When the head is not e, it is not in F either, and the tail starts F with e.
LEMMA FirstOfTail ==
    ASSUME NEW S, NEW s \in Seq(S), s # << >>, NEW e, NEW F,
           FirstOf(s, e, F), Head(s) # e
    PROVE  Head(s) \notin F /\ FirstOf(Tail(s), e, F)
<1> DEFINE t == Tail(s)
<1>1. /\ Len(s) \in Nat \ {0} /\ Len(t) = Len(s) - 1
      /\ \A i \in 1..Len(t) : i + 1 \in 1..Len(s) /\ t[i] = s[i + 1]
      /\ Head(s) = s[1]
  BY TailAt
<1> HIDE DEF t
<1>2. Head(s) \notin F
  <2>1. 1 \in 1..Len(s) /\ \A j \in 1..1 : j = 1
    BY <1>1
  <2> QED
    BY <1>1, <2>1 DEF FirstOf
<1>3. FirstOf(t, e, F)
  <2> SUFFICES ASSUME NEW i \in 1..Len(t), t[i] \in F
               PROVE  \E j \in 1..i : t[j] = e
    BY DEF FirstOf
  <2>1. i + 1 \in 1..Len(s) /\ s[i + 1] \in F
    BY <1>1
  <2>2. PICK j \in 1..(i + 1) : s[j] = e
    BY <2>1 DEF FirstOf
  <2>3. j # 1
    BY <1>1, <2>2
  <2>4. j - 1 \in 1..i /\ j - 1 \in 1..Len(t) /\ (j - 1) + 1 = j
    BY <2>3
  <2> QED
    BY <1>1, <2>2, <2>4
<1> QED
  BY <1>2, <1>3 DEF t

LEMMA OnceInAppend ==
    ASSUME NEW S, NEW s \in Seq(S), NEW f \in S, NEW F,
           OnceIn(s, F), f \in F => ToSet(s) \cap F = {}
    PROVE  OnceIn(Append(s, f), F)
<1>1. \A i \in 1..Len(s) : s[i] \in ToSet(s)
  BY ToSetDef
<1>2. Len(s) \in Nat /\ Len(Append(s, f)) = Len(s) + 1
  BY AppendAt
<1> QED
  BY <1>1, <1>2, AppendAt DEF OnceIn

LEMMA OnceInTail ==
    ASSUME NEW S, NEW s \in Seq(S), s # << >>, NEW F, OnceIn(s, F)
    PROVE  /\ OnceIn(Tail(s), F)
           /\ Head(s) \in F => ToSet(Tail(s)) \cap F = {}
<1> DEFINE t == Tail(s)
<1>1. /\ t \in Seq(S) /\ Len(s) \in Nat \ {0} /\ Len(t) = Len(s) - 1
      /\ \A i \in 1..Len(t) : i + 1 \in 1..Len(s) /\ t[i] = s[i + 1]
      /\ Head(s) = s[1]
  BY TailAt
<1> HIDE DEF t
<1>2. ToSet(t) = {t[i] : i \in 1..Len(t)}
  BY <1>1, ToSetDef
<1>3. OnceIn(t, F)
  BY <1>1 DEF OnceIn
<1>4. Head(s) \in F => ToSet(t) \cap F = {}
  BY <1>1, <1>2 DEF OnceIn
<1> QED
  BY <1>3, <1>4 DEF t

\* A connection that ends delivers a part of what it carries.
LEMMA PrefixFacts ==
    ASSUME NEW S, NEW s \in Seq(S), NEW n \in 0..Len(s)
    PROVE  /\ SubSeq(s, 1, n) \in Seq(S)
           /\ ToSet(SubSeq(s, 1, n)) \subseteq ToSet(s)
           /\ \A e : Once(s, e) => Once(SubSeq(s, 1, n), e)
<1> DEFINE t == SubSeq(s, 1, n)
<1>1. Len(s) \in Nat /\ \A i \in 1..n : s[i] \in S /\ i \in 1..Len(s)
  BY LenProperties, ElementOfSeq
<1>2. /\ t \in Seq(S) /\ Len(t) = IF 1 <= n THEN n - 1 + 1 ELSE 0
      /\ \A i \in 1..(n - 1 + 1) : t[i] = s[1 + i - 1]
  BY <1>1, SubSeqProperties
<1>3. Len(t) = n /\ \A i \in 1..n : t[i] = s[i]
  BY <1>1, <1>2
<1> HIDE DEF t
<1>4. ToSet(t) \subseteq ToSet(s)
  <2>1. ToSet(t) = {t[i] : i \in 1..Len(t)} /\ ToSet(s) = {s[i] : i \in 1..Len(s)}
    BY <1>2, ToSetDef
  <2> QED
    BY <1>1, <1>3, <2>1
<1>5. \A e : Once(s, e) => Once(t, e)
  BY <1>1, <1>3 DEF Once
<1> QED
  BY <1>2, <1>4, <1>5 DEF t

\* Two messages sent at once.
LEMMA AppendTwo ==
    ASSUME NEW S, NEW s \in Seq(S), NEW e \in S, NEW f \in S
    PROVE  /\ s \o <<e>> = Append(s, e)
           /\ s \o <<e, f>> = Append(Append(s, e), f)
<1>1. \A t \in Seq(S), x \in S : Append(t, x) = t \o <<x>> /\ Append(t, x) \in Seq(S)
  BY AppendIsConcat, AppendProperties
<1>2. <<e>> \in Seq(S) /\ <<f>> \in Seq(S) /\ <<e, f>> = <<e>> \o <<f>>
  <2>1. <<e>> \in Seq(S) /\ <<f>> \in Seq(S) /\ <<e, f>> \in Seq(S)
    OBVIOUS
  <2>2. /\ Len(<<e, f>>) = 2 /\ Len(<<e>>) = 1 /\ Len(<<f>>) = 1
        /\ <<e, f>>[1] = e /\ <<e, f>>[2] = f /\ <<e>>[1] = e /\ <<f>>[1] = f
    OBVIOUS
  <2>3. /\ <<e>> \o <<f>> \in Seq(S) /\ Len(<<e>> \o <<f>>) = 2
        /\ (<<e>> \o <<f>>)[1] = e /\ (<<e>> \o <<f>>)[2] = f
    BY <2>1, <2>2, ConcatProperties
  <2> DEFINE x == <<e, f>>
             y == <<e>> \o <<f>>
  <2>4. x \in Seq(S) /\ y \in Seq(S) /\ Len(x) = Len(y) /\ \A i \in 1..Len(x) : x[i] = y[i]
    <3>1. 1..2 = {1, 2}
      OBVIOUS
    <3> QED
      BY <2>1, <2>2, <2>3, <3>1
  <2> HIDE DEF x, y
  <2>5. x = y
    BY <2>4, SeqEqual
  <2> QED
    BY <2>1, <2>5 DEF x, y
<1>3. (s \o <<e>>) \o <<f>> = s \o (<<e>> \o <<f>>)
  BY <1>2, ConcatAssociative
<1> QED
  BY <1>1, <1>2, <1>3

\* What is in at most one place is there at most once.
LEMMA AtMostOne ==
    ASSUME NEW S, \A x, y \in S : x = y
    PROVE  IsFiniteSet(S) /\ Cardinality(S) <= 1
<1>1. CASE S = {}
  BY <1>1, FS_EmptySet
<1>2. CASE S # {}
  <2>1. PICK x \in S : TRUE
    BY <1>2
  <2>2. S = {x}
    BY <2>1
  <2>3. IsFiniteSet({x}) /\ Cardinality({x}) = 1
    BY FS_Singleton
  <2> QED
    BY <2>2, <2>3
<1> QED
  BY <1>1, <1>2

LEMMA PairSize ==
    ASSUME NEW a, NEW b, a # b
    PROVE  IsFiniteSet({a, b}) /\ Cardinality({a, b}) = 2
<1>1. IsFiniteSet({a}) /\ Cardinality({a}) = 1 /\ b \notin {a}
  BY FS_Singleton
<1>2. IsFiniteSet({a} \cup {b}) /\ Cardinality({a} \cup {b}) = Cardinality({a}) + 1
  BY <1>1, FS_AddElement
<1>3. {a} \cup {b} = {a, b}
  OBVIOUS
<1>4. Cardinality({a} \cup {b}) = 2
  BY <1>1, <1>2
<1> QED
  BY <1>2, <1>3, <1>4

-----------------------------------------------------------------------------
(* Induction. *)

\* A set of numbers has a least one.
LEMMA LeastNumber ==
    ASSUME NEW S \in SUBSET Nat, S # {}
    PROVE  \E n \in S : \A m \in S : n <= m
<1> DEFINE T == {0..n : n \in S}
<1>1. IsWellFoundedOn(StrictSubsetOrdering(Nat), FiniteSubsetsOf(Nat))
  BY FS_StrictSubsetOrderingWellFounded
<1>2. T \subseteq FiniteSubsetsOf(Nat) /\ T # {}
  <2>1. \A n \in S : IsFiniteSet(0..n) /\ 0..n \in SUBSET Nat
    BY FS_Interval
  <2> QED
    BY <2>1 DEF FiniteSubsetsOf
<1>3. PICK x \in T : \A y \in T : ~(<<y, x>> \in StrictSubsetOrdering(Nat))
  BY <1>1, <1>2, WFMin
<1>4. PICK n \in S : x = 0..n
  OBVIOUS
<1>5. ASSUME NEW m \in S, m < n
      PROVE  FALSE
  <2>1. 0..m \in T /\ 0..m \in SUBSET Nat /\ 0..n \in SUBSET Nat
    OBVIOUS
  <2>2. 0..m \subseteq 0..n /\ n \in 0..n /\ n \notin 0..m
    BY <1>5
  <2> QED
    BY <1>3, <1>4, <2>1, <2>2 DEF StrictSubsetOrdering
<1> QED
  BY <1>5

\* Induction over the numbers, with a set for what is shown.
LEMMA Induction ==
    ASSUME NEW S, 0 \in S, \A n \in Nat : n \in S => n + 1 \in S
    PROVE  Nat \subseteq S
<1> DEFINE R == Nat \ S
<1>1. SUFFICES ASSUME R # {} PROVE FALSE
  OBVIOUS
<1>2. PICK n \in R : \A m \in R : n <= m
  BY <1>1, LeastNumber
<1>3. n # 0 /\ n - 1 \in Nat /\ n - 1 \notin R
  BY <1>2
<1> QED
  BY <1>3


\* f is the recursion over 0..N that begins with a and steps by H.
Recurses(f, N, V, a, H) ==
    /\ f \in [0..N -> V] /\ f[0] = a
    /\ \A n \in 1..N : f[n] = H[n][f[n - 1]]

\* A recursion over 0..N whose steps stay in V has a solution.
LEMMA Recursion ==
    ASSUME NEW N \in Nat, NEW V, NEW a \in V, NEW H \in [1..N -> [V -> V]]
    PROVE  \E f : Recurses(f, N, V, a, H)
<1> DEFINE S == {m \in Nat : m <= N => \E f : Recurses(f, m, V, a, H)}
<1>1. 0 \in S
  <2>1. Recurses([n \in 0..0 |-> a], 0, V, a, H)
    BY DEF Recurses
  <2> QED
    BY <2>1
<1>2. ASSUME NEW m \in Nat, m \in S PROVE m + 1 \in S
  <2>1. SUFFICES ASSUME m + 1 <= N PROVE \E g : Recurses(g, m + 1, V, a, H)
    OBVIOUS
  <2>2. PICK f : Recurses(f, m, V, a, H)
    BY <1>2, <2>1
  <2> DEFINE g == [n \in 0..(m + 1) |-> IF n <= m THEN f[n] ELSE H[n][f[m]]]
  <2>3. f[m] \in V /\ m + 1 \in 1..N
    BY <2>1, <2>2 DEF Recurses
  <2>4. H[m + 1][f[m]] \in V
    BY <2>3
  <2>5. g \in [0..(m + 1) -> V] /\ g[0] = a
    BY <2>2, <2>4 DEF Recurses
  <2>6. ASSUME NEW n \in 1..(m + 1)
        PROVE  g[n] = H[n][g[n - 1]]
    <3>1. CASE n <= m
      <4>1. g[n] = f[n] /\ n \in 1..m /\ g[n - 1] = f[n - 1]
        BY <3>1
      <4> QED
        BY <2>2, <4>1 DEF Recurses
    <3>2. CASE n = m + 1
      <4>1. g[n] = H[n][f[m]] /\ n - 1 = m /\ g[m] = f[m]
        BY <3>2
      <4> QED
        BY <4>1
    <3> QED
      BY <3>1, <3>2
  <2> HIDE DEF g
  <2>7. Recurses(g, m + 1, V, a, H)
    BY <2>5, <2>6 DEF Recurses
  <2> QED
    BY <2>7
<1> HIDE DEF S
<1>3. N \in S
  BY <1>1, <1>2, Induction
<1> QED
  BY <1>3 DEF S

\* A set of sequences that has the empty one and each sequence it has a shorter
\* one of has all.
LEMMA SeqInduction ==
    ASSUME NEW S, NEW Z, << >> \in Z,
           \A s \in Seq(S) : s \in Z => \A e \in S : Append(s, e) \in Z
    PROVE  Seq(S) \subseteq Z
<1> DEFINE T == {n \in Nat : \A s \in Seq(S) : Len(s) = n => s \in Z}
<1>1. 0 \in T
  BY EmptySeq
<1>2. ASSUME NEW n \in Nat, n \in T PROVE n + 1 \in T
  <2> SUFFICES ASSUME NEW s \in Seq(S), Len(s) = n + 1 PROVE s \in Z
    OBVIOUS
  <2>1. s # << >>
    BY EmptySeq
  <2>2. PICK r \in Seq(S), e \in S : s = Append(r, e)
    BY <2>1, SequenceEmptyOrAppend
  <2>3. Len(r) \in Nat /\ Len(s) = Len(r) + 1
    BY <2>2, AppendProperties, LenProperties
  <2>4. r \in Z
    BY <1>2, <2>3
  <2> QED
    BY <2>2, <2>4
<1> HIDE DEF T
<1>3. Nat \subseteq T
  BY <1>1, <1>2, Induction
<1>4. ASSUME NEW s \in Seq(S) PROVE s \in Z
  BY <1>3, LenProperties DEF T
<1> QED
  BY <1>4

LEMMA ConcatAppend ==
    ASSUME NEW S, NEW s \in Seq(S), NEW t \in Seq(S), NEW e \in S
    PROVE  s \o Append(t, e) = Append(s \o t, e)
<1>1. <<e>> \in Seq(S) /\ s \o t \in Seq(S)
  BY ConcatProperties
<1>2. Append(t, e) = t \o <<e>> /\ Append(s \o t, e) = (s \o t) \o <<e>>
  BY <1>1, AppendIsConcat
<1> QED
  BY <1>1, <1>2, ConcatAssociative

LEMMA ConcatSet ==
    ASSUME NEW S, NEW s \in Seq(S), NEW t \in Seq(S)
    PROVE  ToSet(s \o t) = ToSet(s) \cup ToSet(t)
<1> DEFINE u == s \o t
           x == Len(s)
           y == Len(t)
<1>1. /\ u \in Seq(S) /\ Len(u) = x + y /\ x \in Nat /\ y \in Nat
      /\ \A k \in 1..(x + y) : u[k] = IF k <= x THEN s[k] ELSE t[k - x]
  BY ConcatProperties, LenProperties
<1> HIDE DEF u, x, y
<1>2. /\ ToSet(s) = {s[k] : k \in 1..x} /\ ToSet(t) = {t[k] : k \in 1..y}
      /\ ToSet(u) = {u[k] : k \in 1..(x + y)}
  BY <1>1, ToSetDef DEF x, y
<1>3. ASSUME NEW k \in 1..(x + y) PROVE u[k] \in ToSet(s) \cup ToSet(t)
  <2>1. CASE k <= x
    BY <1>1, <1>2, <2>1
  <2>2. CASE ~(k <= x)
    <3>1. k - x \in 1..y /\ u[k] = t[k - x]
      BY <1>1, <2>2
    <3> QED
      BY <1>2, <3>1
  <2> QED
    BY <2>1, <2>2
<1>4. ASSUME NEW k \in 1..x PROVE s[k] \in ToSet(u)
  <2>1. k \in 1..(x + y) /\ u[k] = s[k]
    BY <1>1
  <2> QED
    BY <1>2, <2>1
<1>5. ASSUME NEW k \in 1..y PROVE t[k] \in ToSet(u)
  <2>1. x + k \in 1..(x + y) /\ ~(x + k <= x) /\ (x + k) - x = k
    BY <1>1
  <2>2. u[x + k] = t[k]
    BY <1>1, <2>1
  <2> QED
    BY <1>2, <2>1, <2>2
<1>6. ToSet(u) = ToSet(s) \cup ToSet(t)
  BY <1>2, <1>3, <1>4, <1>5
<1> QED
  BY <1>6 DEF u

-----------------------------------------------------------------------------
(* Lists that are edited in place. *)

LEMMA RemoveAtProperties ==
    ASSUME NEW S, NEW s \in Seq(S), NEW i \in 1..Len(s)
    PROVE  /\ RemoveAt(s, i) \in Seq(S) /\ Len(s) \in Nat /\ Len(RemoveAt(s, i)) = Len(s) - 1
           /\ \A j \in 1..(Len(s) - 1) :
                  RemoveAt(s, i)[j] = IF j < i THEN s[j] ELSE s[j + 1]
<1> DEFINE a == SubSeq(s, 1, i - 1)
           b == SubSeq(s, i + 1, Len(s))
<1>1. Len(s) \in Nat /\ \A j \in 1..Len(s) : s[j] \in S
  BY LenProperties, ElementOfSeq
<1>2. /\ a \in Seq(S) /\ Len(a) = i - 1
      /\ \A j \in 1..(i - 1) : a[j] = s[j]
  <2>1. /\ a \in Seq(S) /\ Len(a) = IF 1 <= i - 1 THEN i - 1 - 1 + 1 ELSE 0
        /\ \A j \in 1..(i - 1 - 1 + 1) : a[j] = s[1 + j - 1]
    BY <1>1, SubSeqProperties
  <2> QED
    BY <1>1, <2>1
<1>3. /\ b \in Seq(S) /\ Len(b) = Len(s) - i
      /\ \A j \in 1..(Len(s) - i) : b[j] = s[i + j]
  <2>1. /\ b \in Seq(S) /\ Len(b) = IF i + 1 <= Len(s) THEN Len(s) - (i + 1) + 1 ELSE 0
        /\ \A j \in 1..(Len(s) - (i + 1) + 1) : b[j] = s[i + 1 + j - 1]
    BY <1>1, SubSeqProperties
  <2> QED
    BY <1>1, <2>1
<1> HIDE DEF a, b
<1>4. /\ a \o b \in Seq(S) /\ Len(a \o b) = Len(a) + Len(b)
      /\ \A j \in 1..(Len(a) + Len(b)) : (a \o b)[j] = IF j <= Len(a) THEN a[j] ELSE b[j - Len(a)]
  BY <1>2, <1>3, ConcatProperties
<1>5. /\ a \o b \in Seq(S) /\ Len(a \o b) = Len(s) - 1
      /\ \A j \in 1..(Len(s) - 1) : (a \o b)[j] = IF j < i THEN s[j] ELSE s[j + 1]
  <2>1. Len(a) + Len(b) = Len(s) - 1
    BY <1>1, <1>2, <1>3
  <2>2. ASSUME NEW j \in 1..(Len(s) - 1)
        PROVE  (a \o b)[j] = IF j < i THEN s[j] ELSE s[j + 1]
    <3>1. CASE j < i
      <4>1. j <= Len(a) /\ j \in 1..(i - 1)
        BY <1>1, <1>2, <3>1
      <4> QED
        BY <1>2, <1>4, <2>1, <3>1, <4>1
    <3>2. CASE j >= i
      <4>1. ~(j <= Len(a)) /\ j - Len(a) \in 1..(Len(s) - i) /\ i + (j - Len(a)) = j + 1
        BY <1>1, <1>2, <3>2
      <4>2. (a \o b)[j] = b[j - Len(a)] /\ b[j - Len(a)] = s[i + (j - Len(a))]
        BY <1>3, <1>4, <2>1, <4>1
      <4> QED
        BY <1>1, <3>2, <4>1, <4>2
    <3>3. j < i \/ j >= i
      BY <1>1
    <3> QED
      BY <3>1, <3>2, <3>3
  <2> QED
    BY <1>4, <2>1, <2>2
<1> QED
  BY <1>1, <1>5 DEF RemoveAt, a, b

LEMMA InsertAtProperties ==
    ASSUME NEW S, NEW s \in Seq(S), NEW i \in 1..(Len(s) + 1), NEW e \in S
    PROVE  /\ InsertAt(s, i, e) \in Seq(S) /\ Len(s) \in Nat
           /\ Len(InsertAt(s, i, e)) = Len(s) + 1
           /\ \A j \in 1..(Len(s) + 1) :
                  InsertAt(s, i, e)[j] = IF j < i THEN s[j] ELSE IF j = i THEN e ELSE s[j - 1]
<1> DEFINE a == SubSeq(s, 1, i - 1)
           b == SubSeq(s, i, Len(s))
           c == a \o <<e>>
<1>1. Len(s) \in Nat /\ \A j \in 1..Len(s) : s[j] \in S
  BY LenProperties, ElementOfSeq
<1>2. /\ a \in Seq(S) /\ Len(a) = i - 1
      /\ \A j \in 1..(i - 1) : a[j] = s[j]
  <2>1. /\ a \in Seq(S) /\ Len(a) = IF 1 <= i - 1 THEN i - 1 - 1 + 1 ELSE 0
        /\ \A j \in 1..(i - 1 - 1 + 1) : a[j] = s[1 + j - 1]
    BY <1>1, SubSeqProperties
  <2> QED
    BY <1>1, <2>1
<1>3. /\ b \in Seq(S) /\ Len(b) = Len(s) + 1 - i
      /\ \A j \in 1..(Len(s) + 1 - i) : b[j] = s[i + j - 1]
  <2>1. /\ b \in Seq(S) /\ Len(b) = IF i <= Len(s) THEN Len(s) - i + 1 ELSE 0
        /\ \A j \in 1..(Len(s) - i + 1) : b[j] = s[i + j - 1]
    BY <1>1, SubSeqProperties
  <2> QED
    BY <1>1, <2>1
<1> HIDE DEF a, b
<1>4. /\ c \in Seq(S) /\ Len(c) = i
      /\ \A j \in 1..i : c[j] = IF j < i THEN s[j] ELSE e
  <2>1. c = Append(a, e)
    BY <1>2, AppendIsConcat
  <2>2. /\ Append(a, e) \in Seq(S) /\ Len(Append(a, e)) = Len(a) + 1
        /\ \A j \in 1..Len(a) : Append(a, e)[j] = a[j]
        /\ Append(a, e)[Len(a) + 1] = e
    BY <1>2, AppendProperties
  <2> QED
    BY <1>1, <1>2, <2>1, <2>2
<1> HIDE DEF c
<1>5. /\ c \o b \in Seq(S) /\ Len(c \o b) = Len(c) + Len(b)
      /\ \A j \in 1..(Len(c) + Len(b)) : (c \o b)[j] = IF j <= Len(c) THEN c[j] ELSE b[j - Len(c)]
  BY <1>3, <1>4, ConcatProperties
<1>6. Len(c) + Len(b) = Len(s) + 1
  BY <1>1, <1>3, <1>4
<1>7. ASSUME NEW j \in 1..(Len(s) + 1)
      PROVE  (c \o b)[j] = IF j < i THEN s[j] ELSE IF j = i THEN e ELSE s[j - 1]
  <2>1. CASE j <= i
    <3>1. j <= Len(c) /\ j \in 1..i
      BY <1>1, <1>4, <2>1
    <3> QED
      BY <1>4, <1>5, <1>6, <2>1, <3>1
  <2>2. CASE j > i
    <3>1. ~(j <= Len(c)) /\ j - Len(c) \in 1..(Len(s) + 1 - i) /\ i + (j - Len(c)) - 1 = j - 1
      BY <1>1, <1>4, <2>2
    <3>2. (c \o b)[j] = b[j - Len(c)] /\ b[j - Len(c)] = s[i + (j - Len(c)) - 1]
      BY <1>3, <1>5, <1>6, <3>1
    <3>3. ~(j < i) /\ j # i
      BY <1>1, <2>2
    <3> QED
      BY <3>1, <3>2, <3>3
  <2>3. j <= i \/ j > i
    BY <1>1
  <2> QED
    BY <2>1, <2>2, <2>3
<1>8. c \o b = InsertAt(s, i, e)
  BY DEF InsertAt, a, b, c
<1> QED
  BY <1>1, <1>5, <1>6, <1>7, <1>8

-----------------------------------------------------------------------------
(* What Only keeps of a list. *)

\* f is what Only gathers, element by element.
SomeOf(S, s, part, f) ==
    /\ f \in [0..Len(s) -> Seq(S)] /\ f[0] = << >>
    /\ \A n \in 1..Len(s) :
          f[n] = IF s[n] \in part THEN Append(f[n - 1], s[n]) ELSE f[n - 1]

LEMMA OnlyIs ==
    ASSUME NEW S, NEW s \in Seq(S), NEW part
    PROVE  \E f : SomeOf(S, s, part, f) /\ Only(s, part) = f[Len(s)]
<1> DEFINE N == Len(s)
           V == Seq(S)
           H == [n \in 1..N |-> [v \in V |-> IF s[n] \in part THEN Append(v, s[n]) ELSE v]]
           table(f) == [n \in 0..N |-> IF n = 0 THEN << >>
                                      ELSE IF s[n] \in part THEN Append(f[n - 1], s[n])
                                      ELSE f[n - 1]]
<1>1. N \in Nat /\ \A n \in 1..N : s[n] \in S
  BY LenProperties, ElementOfSeq
<1>2. << >> \in V
  BY EmptySeq
<1>3. \A n \in 1..N : \A v \in V : Append(v, s[n]) \in V
  BY <1>1, AppendProperties
<1>4. /\ H \in [1..N -> [V -> V]]
      /\ \A n \in 1..N : \A v \in V :
            H[n][v] = IF s[n] \in part THEN Append(v, s[n]) ELSE v
  <2> HIDE DEF V
  <2> QED
    BY <1>3
<1> HIDE DEF N, H, V
<1>5. PICK f : Recurses(f, N, V, << >>, H)
  BY <1>1, <1>2, <1>4, Recursion
<1>6. /\ f \in [0..N -> V] /\ f[0] = << >>
      /\ \A n \in 1..N : f[n] = IF s[n] \in part THEN Append(f[n - 1], s[n]) ELSE f[n - 1]
  <2>1. f \in [0..N -> V] /\ f[0] = << >> /\ \A n \in 1..N : f[n] = H[n][f[n - 1]]
    BY <1>5 DEF Recurses
  <2>2. \A n \in 1..N : n - 1 \in 0..N
    BY <1>1
  <2> QED
    BY <1>4, <2>1, <2>2
<1>7. f = table(f)
  <2>1. \A n \in 0..N : n = 0 \/ (n # 0 /\ n \in 1..N)
    BY <1>1
  <2>2. \A n \in 0..N : f[n] = table(f)[n]
    BY <1>6, <2>1
  <2> QED
    BY <1>6, <2>2
<1>8. PICK some : some = table(some) /\ Only(s, part) = some[N]
  BY <1>7 DEF Only, N
<1>9. /\ some[0] = << >>
      /\ \A n \in 1..N : some[n] = IF s[n] \in part THEN Append(some[n - 1], s[n])
                                   ELSE some[n - 1]
  <2>1. 0 \in 0..N /\ \A n \in 1..N : n \in 0..N /\ n # 0
    BY <1>1
  <2> QED
    BY <1>8, <2>1
<1> DEFINE Q == {n \in Nat : n <= N => some[n] = f[n]}
<1>10. 0 \in Q
  BY <1>6, <1>9
<1>11. ASSUME NEW n \in Nat, n \in Q PROVE n + 1 \in Q
  <2>1. SUFFICES ASSUME n + 1 <= N PROVE some[n + 1] = f[n + 1]
    OBVIOUS
  <2>2. n + 1 \in 1..N /\ (n + 1) - 1 = n /\ some[n] = f[n]
    BY <1>1, <1>11, <2>1
  <2>3. some[n + 1] = IF s[n + 1] \in part THEN Append(some[n], s[n + 1]) ELSE some[n]
    BY <1>9, <2>2
  <2>4. f[n + 1] = IF s[n + 1] \in part THEN Append(f[n], s[n + 1]) ELSE f[n]
    BY <1>6, <2>2
  <2> QED
    BY <2>2, <2>3, <2>4
<1> HIDE DEF Q
<1>12. Nat \subseteq Q
  BY <1>10, <1>11, Induction
<1>13. some[N] = f[N]
  <2>1. N \in Q /\ N <= N
    BY <1>1, <1>12
  <2> QED
    BY <2>1 DEF Q
<1> QED
  BY <1>6, <1>8, <1>13 DEF SomeOf, N, V

LEMMA OnlyEmpty == ASSUME NEW part PROVE Only(<< >>, part) = << >>
<1> DEFINE S == {}
<1>1. << >> \in Seq(S) /\ Len(<< >>) = 0
  BY EmptySeq
<1>2. \E f : SomeOf(S, << >>, part, f) /\ Only(<< >>, part) = f[Len(<< >>)]
  BY <1>1, OnlyIs
<1> QED
  BY <1>1, <1>2 DEF SomeOf

LEMMA SomeAgree ==
    ASSUME NEW S, NEW s \in Seq(S), NEW r \in S, NEW part, NEW f, NEW h,
           SomeOf(S, s, part, f), SomeOf(S, Append(s, r), part, h)
    PROVE  f[Len(s)] = h[Len(s)]
<1> DEFINE Q == {n \in Nat : n <= Len(s) => f[n] = h[n]}
<1>1. /\ Len(s) \in Nat /\ Len(Append(s, r)) = Len(s) + 1
      /\ \A n \in 1..Len(s) : Append(s, r)[n] = s[n]
  BY AppendProperties, LenProperties
<1>2. 0 \in Q
  BY DEF SomeOf
<1>3. ASSUME NEW n \in Nat, n \in Q PROVE n + 1 \in Q
  <2>1. SUFFICES ASSUME n + 1 <= Len(s) PROVE f[n + 1] = h[n + 1]
    OBVIOUS
  <2>2. /\ n + 1 \in 1..Len(s) /\ n + 1 \in 1..Len(Append(s, r)) /\ (n + 1) - 1 = n
        /\ f[n] = h[n] /\ Append(s, r)[n + 1] = s[n + 1]
    BY <1>1, <1>3, <2>1
  <2>3. f[n + 1] = IF s[n + 1] \in part THEN Append(f[n], s[n + 1]) ELSE f[n]
    BY <2>2 DEF SomeOf
  <2>4. h[n + 1] = IF s[n + 1] \in part THEN Append(h[n], s[n + 1]) ELSE h[n]
    BY <2>2 DEF SomeOf
  <2> QED
    BY <2>2, <2>3, <2>4
<1> HIDE DEF Q
<1>4. Nat \subseteq Q
  BY <1>2, <1>3, Induction
<1> QED
  BY <1>1, <1>4 DEF Q

LEMMA OnlyAppend ==
    ASSUME NEW S, NEW s \in Seq(S), NEW r \in S, NEW part
    PROVE  /\ Only(s, part) \in Seq(S)
           /\ Only(Append(s, r), part) = IF r \in part THEN Append(Only(s, part), r)
                                           ELSE Only(s, part)
<1> DEFINE z == Append(s, r)
           N == Len(s)
<1>1. z \in Seq(S) /\ N \in Nat /\ Len(z) = N + 1 /\ z[N + 1] = r
  BY AppendProperties, LenProperties
<1>2. PICK f : SomeOf(S, s, part, f) /\ Only(s, part) = f[N]
  BY OnlyIs
<1> HIDE DEF z
<1>3. PICK h : SomeOf(S, z, part, h) /\ Only(z, part) = h[N + 1]
  <2>1. \E h : SomeOf(S, z, part, h) /\ Only(z, part) = h[Len(z)]
    BY <1>1, OnlyIs
  <2> QED
    BY <1>1, <2>1
<1>4. f[N] = h[N]
  BY <1>2, <1>3, SomeAgree DEF z
<1> HIDE DEF N
<1>5. h[N + 1] = IF r \in part THEN Append(h[N], r) ELSE h[N]
  <2>1. N + 1 \in 1..Len(z) /\ (N + 1) - 1 = N
    BY <1>1
  <2> QED
    BY <1>1, <1>3, <2>1 DEF SomeOf
<1>6. f[N] \in Seq(S)
  BY <1>1, <1>2 DEF SomeOf, N
<1> QED
  BY <1>2, <1>3, <1>4, <1>5, <1>6 DEF z

LEMMA OnlyType ==
    ASSUME NEW S, NEW s \in Seq(S), NEW part PROVE Only(s, part) \in Seq(S)
<1>1. PICK f : SomeOf(S, s, part, f) /\ Only(s, part) = f[Len(s)]
  BY OnlyIs
<1>2. Len(s) \in Nat
  BY LenProperties
<1>3. f[Len(s)] \in Seq(S)
  BY <1>1, <1>2 DEF SomeOf
<1> QED
  BY <1>1, <1>3

LEMMA OnlySet ==
    ASSUME NEW S, NEW part
    PROVE  \A s \in Seq(S) : ToSet(Only(s, part)) = ToSet(s) \cap part
<1> DEFINE Z == {s \in Seq(S) : ToSet(Only(s, part)) = ToSet(s) \cap part}
<1>1. << >> \in Z
  BY OnlyEmpty, ToSetEmpty, EmptySeq
<1>2. ASSUME NEW s \in Seq(S), s \in Z, NEW r \in S
      PROVE  Append(s, r) \in Z
  <2> DEFINE z == Append(s, r)
             o == Only(s, part)
  <2>1. /\ z \in Seq(S) /\ ToSet(z) = ToSet(s) \cup {r} /\ o \in Seq(S)
        /\ Only(z, part) = IF r \in part THEN Append(o, r) ELSE o
    BY AppendProperties, ToSetAppend, OnlyAppend
  <2>2. ToSet(Append(o, r)) = ToSet(o) \cup {r} /\ ToSet(o) = ToSet(s) \cap part
    <3>1. ToSet(o) = ToSet(s) \cap part
      BY <1>2
    <3> HIDE DEF o
    <3> QED
      BY <2>1, <3>1, ToSetAppend
  <2> HIDE DEF z, o
  <2>3. ToSet(Only(z, part)) = ToSet(z) \cap part
    BY <2>1, <2>2
  <2> QED
    BY <2>1, <2>3 DEF z
<1>3. \A s \in Seq(S) : s \in Z => \A r \in S : Append(s, r) \in Z
  BY <1>2
<1> HIDE DEF Z
<1>4. Seq(S) \subseteq Z
  BY <1>1, <1>3, SeqInduction
<1> QED
  BY <1>4 DEF Z

LEMMA OnlyOnly ==
    ASSUME NEW S, NEW group, NEW part
    PROVE  \A s \in Seq(S) :
              Only(Only(s, group), part) = Only(s, group \cap part)
<1> DEFINE both == group \cap part
           Z == {s \in Seq(S) : Only(Only(s, group), part) = Only(s, both)}
<1>1. << >> \in Z
  BY OnlyEmpty, EmptySeq
<1>0. \A r : r \in both <=> r \in group /\ r \in part
  OBVIOUS
<1> HIDE DEF both
<1>2. ASSUME NEW s \in Seq(S), s \in Z, NEW r \in S
      PROVE  Append(s, r) \in Z
  <2> DEFINE z == Append(s, r)
             o == Only(s, group)
  <2>1. /\ z \in Seq(S) /\ o \in Seq(S)
        /\ Only(z, group) = IF r \in group THEN Append(o, r) ELSE o
        /\ Only(z, both) = IF r \in both THEN Append(Only(s, both), r) ELSE Only(s, both)
    <3>1. z \in Seq(S)
      BY AppendProperties
    <3>2. /\ o \in Seq(S)
          /\ Only(z, group) = IF r \in group THEN Append(o, r) ELSE o
      BY OnlyAppend
    <3>3. Only(z, both) = IF r \in both THEN Append(Only(s, both), r) ELSE Only(s, both)
      BY OnlyAppend
    <3> QED
      BY <3>1, <3>2, <3>3
  <2>2. Only(o, part) = Only(s, both)
    BY <1>2
  <2> HIDE DEF z, o
  <2>3. Only(Append(o, r), part) = IF r \in part THEN Append(Only(o, part), r) ELSE Only(o, part)
    <3>1. o \in Seq(S)
      BY <2>1
    <3> QED
      BY <3>1, OnlyAppend
  <2>4. Only(Only(z, group), part) = Only(z, both)
    <3>1. CASE r \in group
      <4>1. Only(z, group) = Append(o, r) /\ (r \in both <=> r \in part)
        BY <1>0, <2>1, <3>1
      <4> QED
        BY <2>1, <2>2, <2>3, <4>1
    <3>2. CASE r \notin group
      <4>1. Only(z, group) = o /\ r \notin both
        BY <1>0, <2>1, <3>2
      <4> QED
        BY <2>1, <2>2, <4>1
    <3> QED
      BY <3>1, <3>2
  <2> QED
    BY <2>1, <2>4 DEF z
<1>3. \A s \in Seq(S) : s \in Z => \A r \in S : Append(s, r) \in Z
  BY <1>2
<1> HIDE DEF Z
<1>4. Seq(S) \subseteq Z
  BY <1>1, <1>3, SeqInduction
<1> QED
  BY <1>4 DEF Z, both

LEMMA OnlyConcat ==
    ASSUME NEW S, NEW part, NEW s \in Seq(S)
    PROVE  \A t \in Seq(S) :
              Only(s \o t, part) = Only(s, part) \o Only(t, part)
<1> DEFINE a == Only(s, part)
           Z == {t \in Seq(S) : Only(s \o t, part) = a \o Only(t, part)}
<1>0. a \in Seq(S)
  BY OnlyType
<1>1. << >> \in Z
  <2>1. s \o << >> = s /\ a \o << >> = a
    BY <1>0, ConcatEmptySeq
  <2> QED
    BY <2>1, OnlyEmpty, EmptySeq
<1> HIDE DEF a
<1>2. ASSUME NEW t \in Seq(S), t \in Z, NEW r \in S
      PROVE  Append(t, r) \in Z
  <2> DEFINE z == Append(t, r)
             y == s \o t
             o == Only(t, part)
  <2>1. /\ z \in Seq(S) /\ o \in Seq(S) /\ y \in Seq(S)
        /\ Only(z, part) = IF r \in part THEN Append(o, r) ELSE o
        /\ s \o z = Append(y, r)
    <3>1. z \in Seq(S) /\ y \in Seq(S)
      BY AppendProperties, ConcatProperties
    <3>2. s \o z = Append(y, r)
      BY ConcatAppend
    <3>3. /\ o \in Seq(S)
          /\ Only(z, part) = IF r \in part THEN Append(o, r) ELSE o
      BY OnlyAppend
    <3> QED
      BY <3>1, <3>2, <3>3
  <2>2. Only(y, part) = a \o o
    BY <1>2
  <2>3. a \o Append(o, r) = Append(a \o o, r)
    BY <1>0, <2>1, ConcatAppend
  <2> HIDE DEF z, o, y
  <2>4. Only(Append(y, r), part) = IF r \in part THEN Append(Only(y, part), r) ELSE Only(y, part)
    <3>1. y \in Seq(S)
      BY <2>1
    <3> QED
      BY <3>1, OnlyAppend
  <2>5. Only(s \o z, part) = a \o Only(z, part)
    BY <2>1, <2>2, <2>3, <2>4
  <2> QED
    BY <2>1, <2>5 DEF z
<1>3. \A t \in Seq(S) : t \in Z => \A r \in S : Append(t, r) \in Z
  BY <1>2
<1> HIDE DEF Z
<1>4. Seq(S) \subseteq Z
  BY <1>1, <1>3, SeqInduction
<1> QED
  BY <1>4 DEF Z, a

LEMMA OnlySame ==
    ASSUME NEW S, NEW part, NEW other, part \cap S = other \cap S
    PROVE  \A s \in Seq(S) : Only(s, part) = Only(s, other)
<1> DEFINE Z == {s \in Seq(S) : Only(s, part) = Only(s, other)}
<1>1. << >> \in Z
  BY OnlyEmpty, EmptySeq
<1>2. ASSUME NEW s \in Seq(S), s \in Z, NEW r \in S
      PROVE  Append(s, r) \in Z
  <2> DEFINE z == Append(s, r)
             o == Only(s, part)
             u == Only(s, other)
  <2>1. /\ z \in Seq(S)
        /\ Only(z, part) = IF r \in part THEN Append(o, r) ELSE o
        /\ Only(z, other) = IF r \in other THEN Append(u, r) ELSE u
    <3>1. z \in Seq(S)
      BY AppendProperties
    <3>2. Only(z, part) = IF r \in part THEN Append(o, r) ELSE o
      BY OnlyAppend
    <3>3. Only(z, other) = IF r \in other THEN Append(u, r) ELSE u
      BY OnlyAppend
    <3> QED
      BY <3>1, <3>2, <3>3
  <2>2. (r \in part <=> r \in other) /\ o = u
    BY <1>2
  <2> HIDE DEF z, o, u
  <2>3. Only(z, part) = Only(z, other)
    BY <2>1, <2>2
  <2> QED
    BY <2>1, <2>3 DEF z
<1>3. \A s \in Seq(S) : s \in Z => \A r \in S : Append(s, r) \in Z
  BY <1>2
<1> HIDE DEF Z
<1>4. Seq(S) \subseteq Z
  BY <1>1, <1>3, SeqInduction
<1> QED
  BY <1>4 DEF Z

\* The nth that Only keeps of s was at place at[n].
KeptFrom(s, part, at) ==
    /\ at \in [1..Len(Only(s, part)) -> 1..Len(s)]
    /\ \A n \in 1..Len(Only(s, part)) : Only(s, part)[n] = s[at[n]]
    /\ \A n, m \in 1..Len(Only(s, part)) : n < m => at[n] < at[m]
    /\ \A i \in 1..Len(s) : s[i] \in part <=> \E n \in 1..Len(Only(s, part)) : at[n] = i

\* What Only keeps stays in order.
LEMMA OnlyKeeps ==
    ASSUME NEW S, NEW part
    PROVE  \A s \in Seq(S) : \E at : KeptFrom(s, part, at)
<1> DEFINE Z == {s \in Seq(S) : \E at : KeptFrom(s, part, at)}
<1>1. << >> \in Z
  <2> DEFINE none == << >>
  <2>1. none \in Seq(S) /\ Len(none) = 0
    BY EmptySeq
  <2>2. Only(none, part) = none
    BY OnlyEmpty
  <2>3. none \in [1..0 -> 1..0]
    OBVIOUS
  <2>4. KeptFrom(none, part, none)
    BY <2>1, <2>2, <2>3 DEF KeptFrom
  <2> QED
    BY <2>1, <2>4
<1>2. ASSUME NEW s \in Seq(S), s \in Z, NEW r \in S PROVE Append(s, r) \in Z
  <2> DEFINE z == Append(s, r)
             o == Only(s, part)
             w == Only(z, part)
             N == Len(s)
             K == Len(o)
  <2>1. PICK at : KeptFrom(s, part, at)
    BY <1>2
  <2>2. o \in Seq(S) /\ w = IF r \in part THEN Append(o, r) ELSE o
    BY OnlyAppend
  <2>3. /\ z \in Seq(S) /\ N \in Nat /\ Len(z) = N + 1 /\ z[N + 1] = r
        /\ \A i \in 1..N : z[i] = s[i]
    BY AppendProperties, LenProperties
  <2>4. /\ at \in [1..K -> 1..N] /\ \A n \in 1..K : o[n] = s[at[n]]
        /\ \A n, m \in 1..K : n < m => at[n] < at[m]
        /\ \A i \in 1..N : s[i] \in part <=> \E n \in 1..K : at[n] = i
    BY <2>1 DEF KeptFrom
  <2>5. K \in Nat
    BY <2>2, LenProperties
  <2>6. \A i \in 1..(N + 1) : i \in 1..N \/ i = N + 1
    BY <2>3
  <2>7. N + 1 \in 1..(N + 1) /\ 1..N \subseteq 1..(N + 1) /\ \A i \in 1..N : i < N + 1 /\ i # N + 1
    BY <2>3
  <2> HIDE DEF z, o, w, N
  <2>8. CASE r \notin part
    <3>1. w = o
      BY <2>2, <2>8
    <3> HIDE DEF K
    <3>2. at \in [1..K -> 1..(N + 1)]
      BY <2>4, <2>7
    <3>3. \A n \in 1..K : o[n] = z[at[n]]
      BY <2>3, <2>4
    <3>4. \A i \in 1..(N + 1) : z[i] \in part <=> \E n \in 1..K : at[n] = i
      BY <2>3, <2>4, <2>6, <2>7, <2>8
    <3>5. KeptFrom(z, part, at)
      BY <2>3, <2>4, <3>1, <3>2, <3>3, <3>4 DEF KeptFrom, w, K
    <3> QED
      BY <2>3, <3>5 DEF z
  <2>9. CASE r \in part
    <3> DEFINE to == [n \in 1..(K + 1) |-> IF n \in 1..K THEN at[n] ELSE N + 1]
    <3>1. w = Append(o, r) /\ Len(w) = K + 1 /\ w[K + 1] = r /\ \A n \in 1..K : w[n] = o[n]
      BY <2>2, <2>9, AppendProperties
    <3> HIDE DEF K
    <3>2. /\ \A n \in 1..(K + 1) : n \in 1..K \/ n = K + 1
          /\ K + 1 \in 1..(K + 1) /\ K + 1 \notin 1..K /\ 1..K \subseteq 1..(K + 1)
      BY <2>5
    <3>3. /\ to \in [1..(K + 1) -> 1..(N + 1)] /\ to[K + 1] = N + 1
          /\ \A n \in 1..K : to[n] = at[n] /\ at[n] \in 1..N
      BY <2>4, <2>7, <3>2
    <3> HIDE DEF to
    <3>4. \A n \in 1..(K + 1) : w[n] = z[to[n]]
      BY <2>3, <2>4, <3>1, <3>2, <3>3
    <3>5. ASSUME NEW n \in 1..(K + 1), NEW m \in 1..(K + 1), n < m PROVE to[n] < to[m]
      <4>1. n \in 1..K
        BY <2>5, <3>5
      <4>2. CASE m \in 1..K
        BY <2>4, <3>3, <3>5, <4>1, <4>2
      <4>3. CASE m = K + 1
        <5>1. at[n] \in 1..N /\ to[n] = at[n] /\ to[m] = N + 1
          BY <3>3, <4>1, <4>3
        <5> QED
          BY <2>7, <5>1
      <4> QED
        BY <3>2, <4>2, <4>3
    <3>6. ASSUME NEW i \in 1..(N + 1) PROVE z[i] \in part <=> \E n \in 1..(K + 1) : to[n] = i
      <4>1. CASE i = N + 1
        <5>1. z[i] \in part
          BY <2>3, <2>9, <4>1
        <5> QED
          BY <3>2, <3>3, <4>1, <5>1
      <4>2. CASE i \in 1..N
        <5>1. z[i] \in part <=> \E n \in 1..K : at[n] = i
          BY <2>3, <2>4, <4>2
        <5>2. i # N + 1
          BY <2>7, <4>2
        <5> QED
          BY <3>2, <3>3, <5>1, <5>2
      <4> QED
        BY <2>6, <4>1, <4>2
    <3>7. KeptFrom(z, part, to)
      BY <2>3, <3>1, <3>3, <3>4, <3>5, <3>6 DEF KeptFrom, w
    <3> QED
      BY <2>3, <3>7 DEF z
  <2> QED
    BY <2>8, <2>9
<1>3. \A s \in Seq(S) : s \in Z => \A r \in S : Append(s, r) \in Z
  BY <1>2
<1> HIDE DEF Z
<1>4. Seq(S) \subseteq Z
  BY <1>1, <1>3, SeqInduction
<1> QED
  BY <1>4 DEF Z

\* Only keeps all there is when it keeps all there can be.
LEMMA OnlyAll ==
    ASSUME NEW S, NEW part, S \subseteq part
    PROVE  \A s \in Seq(S) : Only(s, part) = s
<1> DEFINE Z == {s \in Seq(S) : Only(s, part) = s}
<1>1. << >> \in Z
  BY OnlyEmpty, EmptySeq
<1>2. ASSUME NEW s \in Seq(S), s \in Z, NEW r \in S PROVE Append(s, r) \in Z
  <2>1. Append(s, r) \in Seq(S)
    BY AppendProperties
  <2>2. Only(Append(s, r), part) = IF r \in part THEN Append(Only(s, part), r) ELSE Only(s, part)
    BY OnlyAppend
  <2> QED
    BY <1>2, <2>1, <2>2
<1>3. \A s \in Seq(S) : s \in Z => \A r \in S : Append(s, r) \in Z
  BY <1>2
<1> HIDE DEF Z
<1>4. Seq(S) \subseteq Z
  BY <1>1, <1>3, SeqInduction
<1> QED
  BY <1>4 DEF Z
=============================================================================

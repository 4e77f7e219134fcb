--------------------------- MODULE MemLedgerProofs ---------------------------
(***************************************************************************)
(* Theorems about MemLedger, for all topics, keys, transactions, clocks    *)
(* and bounds that meet MemAssumption and MsAssumption.                    *)
(*                                                                         *)
(* What one action does to the records is put in lemmas about lists; what  *)
(* a transaction does follows by induction over its actions.               *)
(***************************************************************************)
EXTENDS MemLedger, SeqLemmas

Lists == [Topics -> Seq(Records)]

-----------------------------------------------------------------------------
(* What an action does to the records. *)

\* indexKey finds the first record of a key if there is one.
LEMMA IndexKeyFinds ==
    ASSUME NEW list \in Seq(Records), NEW k
    PROVE  /\ Places(list, k) \subseteq 1..Len(list) /\ IsFiniteSet(Places(list, k))
           /\ IndexKey(list, k) \in {0} \cup Places(list, k) /\ IndexKey(list, k) \in Nat
           /\ IndexKey(list, k) = 0 <=> Places(list, k) = {}
           /\ IndexKey(list, k) # 0 => \A i \in Places(list, k) : IndexKey(list, k) <= i
<1> DEFINE P == Places(list, k)
<1>1. Len(list) \in Nat /\ DOMAIN list = 1..Len(list)
  BY LenProperties
<1>2. P \subseteq 1..Len(list) /\ P = {i \in 1..Len(list) : list[i].key = k}
  BY <1>1 DEF Places
<1>3. IndexKey(list, k) = IF P # {} THEN Min(P) ELSE 0
  BY <1>2 DEF IndexKey, SelectInSeq
<1>4. IsFiniteSet(P)
  <2>1. IsFiniteSet(1..Len(list))
    BY <1>1, FS_Interval
  <2> QED
    BY <1>2, <2>1, FS_Subset
<1> HIDE DEF P
<1>5. P # {} => Min(P) \in P /\ \A i \in P : Min(P) <= i
  <2>1. P \in SUBSET Nat
    BY <1>1, <1>2
  <2>2. P # {} => \E n \in P : \A m \in P : n <= m
    BY <2>1, LeastNumber
  <2> QED
    BY <2>2 DEF Min
<1>6. \A i \in P : i # 0 /\ i \in Nat
  BY <1>1, <1>2
<1>7. /\ P \subseteq 1..Len(list) /\ IsFiniteSet(P)
      /\ IndexKey(list, k) \in {0} \cup P /\ IndexKey(list, k) \in Nat
      /\ IndexKey(list, k) = 0 <=> P = {}
      /\ IndexKey(list, k) # 0 => \A i \in P : IndexKey(list, k) <= i
  BY <1>2, <1>3, <1>4, <1>5, <1>6
<1> QED
  BY <1>7 DEF P

\* One action leaves the other topics as they are, and its own a list.
LEMMA ApplyType ==
    ASSUME NEW d \in Lists, NEW act \in ArgActions, NEW rev \in Nat
    PROVE  ApplyEvent(d, act, rev) \in Lists
<1> DEFINE list == d[act.top]
           idx == IndexKey(list, act.key)
           r == [key |-> act.key, rev |-> rev, torn |-> FALSE]
<1>1. act.top \in Topics /\ act.key \in Keys /\ act.cmd \in {"new", "mod", "del"}
  BY DEF ArgActions, Cmds, CmdNew
<1>2. list \in Seq(Records) /\ r \in Records
  BY <1>1 DEF Lists, Records
<1>3. Append(list, r) \in Seq(Records)
  BY <1>2, AppendProperties
<1>4. [list EXCEPT ![idx].rev = rev] \in Seq(Records)
  <2>1. CASE idx \in 1..Len(list)
    <3>1. list[idx] \in Records
      BY <1>2, <2>1, ElementOfSeq
    <3>2. [list[idx] EXCEPT !.rev = rev] \in Records
      BY <3>1 DEF Records
    <3> QED
      BY <1>2, <2>1, <3>2, ExceptSeq
  <2>2. CASE idx \notin 1..Len(list)
    <3>1. list \in [1..Len(list) -> Records]
      BY <1>2, LenProperties
    <3>2. [list EXCEPT ![idx].rev = rev] = list
      BY <2>2, <3>1
    <3> QED
      BY <1>2, <3>2
  <2> QED
    BY <2>1, <2>2
<1>5. RemoveAt(list, idx) \in Seq(Records)
  <2> HIDE DEF list
  <2>1. idx \in Nat /\ Len(list) \in Nat /\ \A i \in 1..Len(list) : list[i] \in Records
    BY <1>2, IndexKeyFinds, LenProperties, ElementOfSeq
  <2>2. idx <= Len(list)
    BY <1>2, <2>1, IndexKeyFinds
  <2>3. SubSeq(list, 1, idx - 1) \in Seq(Records)
    BY <2>1, <2>2, SubSeqProperties
  <2>4. SubSeq(list, idx + 1, Len(list)) \in Seq(Records)
    BY <2>1, <2>2, SubSeqProperties
  <2> QED
    BY <2>3, <2>4, ConcatProperties DEF RemoveAt
<1> HIDE DEF idx, r
<1>6. PICK new \in Seq(Records) : ApplyEvent(d, act, rev) = [d EXCEPT ![act.top] = new]
  <2>1. CASE act.cmd = "new"
    BY <1>3, <2>1 DEF ApplyEvent, CmdNew, idx, r
  <2>2. CASE act.cmd = "mod"
    BY <1>4, <2>2 DEF ApplyEvent, CmdNew, idx
  <2>3. CASE act.cmd = "del"
    BY <1>5, <2>3 DEF ApplyEvent, CmdNew, idx
  <2> QED
    BY <1>1, <2>1, <2>2, <2>3
<1> QED
  BY <1>6 DEF Lists

\* What an action that does not fail makes of the list of its topic.
Changed(list, new, act, idx, rev) ==
    \/ /\ act.cmd = "new" /\ Len(new) = Len(list) + 1
       /\ \A i \in 1..Len(list) : new[i] = list[i]
       /\ new[Len(list) + 1] = [key |-> act.key, rev |-> rev, torn |-> FALSE]
    \/ /\ act.cmd = "mod" /\ Len(new) = Len(list)
       /\ \A i \in 1..Len(list) : new[i] = IF i = idx THEN [list[i] EXCEPT !.rev = rev] ELSE list[i]
    \/ /\ act.cmd = "del" /\ Len(new) = Len(list) - 1
       /\ \A i \in 1..(Len(list) - 1) : new[i] = IF i < idx THEN list[i] ELSE list[i + 1]

LEMMA ApplyEffect ==
    ASSUME NEW d \in Lists, NEW act \in ArgActions, NEW rev \in Nat, ~Fails(d, act)
    PROVE  LET idx == IndexKey(d[act.top], act.key)
           IN  /\ Changed(d[act.top], ApplyEvent(d, act, rev)[act.top], act, idx, rev)
               /\ \A t \in Topics \ {act.top} : ApplyEvent(d, act, rev)[t] = d[t]
               /\ act.cmd # "new" => idx \in 1..Len(d[act.top])
<1> DEFINE list == d[act.top]
           idx == IndexKey(list, act.key)
           r == [key |-> act.key, rev |-> rev, torn |-> FALSE]
<1>1. act.top \in Topics /\ act.key \in Keys /\ act.cmd \in {"new", "mod", "del"}
  BY DEF ArgActions, Cmds, CmdNew
<1>2. list \in Seq(Records) /\ r \in Records
  BY <1>1 DEF Lists, Records
<1>3. act.cmd # "new" => idx \in 1..Len(list)
  <2>1. act.cmd # "new" => idx # 0
    BY DEF Fails, CmdNew
  <2> HIDE DEF list
  <2> QED
    BY <1>2, <2>1, IndexKeyFinds
<1> HIDE DEF idx
<1>4. DOMAIN d = Topics
  BY DEF Lists
<1>5. CASE act.cmd = "new"
  <2>1. ApplyEvent(d, act, rev) = [d EXCEPT ![act.top] = Append(list, r)]
    BY <1>5 DEF ApplyEvent, CmdNew
  <2> HIDE DEF list, r
  <2>2. /\ Len(Append(list, r)) = Len(list) + 1 /\ Append(list, r)[Len(list) + 1] = r
        /\ \A i \in 1..Len(list) : Append(list, r)[i] = list[i]
    BY <1>2, AppendProperties
  <2> QED
    BY <1>1, <1>4, <1>5, <2>1, <2>2 DEF Changed, list, r, idx
<1>6. CASE act.cmd = "mod"
  <2>1. ApplyEvent(d, act, rev) = [d EXCEPT ![act.top] = [list EXCEPT ![idx].rev = rev]]
    BY <1>6 DEF ApplyEvent, CmdNew, idx
  <2> DEFINE q == [list[idx] EXCEPT !.rev = rev]
  <2> HIDE DEF list
  <2>2. idx \in 1..Len(list) /\ q \in Records
    <3>1. list[idx] \in Records
      BY <1>2, <1>3, <1>6, ElementOfSeq
    <3> QED
      BY <1>3, <1>6, <3>1 DEF Records
  <2>3. [list EXCEPT ![idx].rev = rev] = [list EXCEPT ![idx] = q]
    OBVIOUS
  <2>4. /\ Len([list EXCEPT ![idx] = q]) = Len(list)
        /\ \A i \in 1..Len(list) : [list EXCEPT ![idx] = q][i] = IF i = idx THEN q ELSE list[i]
    <3> HIDE DEF q
    <3> QED
      BY <1>2, <2>2, ExceptSeq
  <2>5. Changed(list, [list EXCEPT ![idx].rev = rev], act, idx, rev)
    BY <1>6, <2>3, <2>4 DEF Changed
  <2> QED
    BY <1>1, <1>3, <1>4, <2>1, <2>5 DEF list, idx
<1>7. CASE act.cmd = "del"
  <2>1. ApplyEvent(d, act, rev) = [d EXCEPT ![act.top] = RemoveAt(list, idx)]
    BY <1>7 DEF ApplyEvent, CmdNew, idx
  <2> HIDE DEF list
  <2>2. Changed(list, RemoveAt(list, idx), act, idx, rev)
    BY <1>2, <1>3, <1>7, RemoveAtProperties DEF Changed
  <2> QED
    BY <1>1, <1>3, <1>4, <1>7, <2>1, <2>2 DEF list, idx
<1> QED
  BY <1>1, <1>5, <1>6, <1>7

-----------------------------------------------------------------------------
(* What takes an action back. *)

\* The same records but for what a failing argument left in them.
AlikeLists(s, u) ==
    Len(s) = Len(u) /\ \A i \in 1..Len(s) : s[i].key = u[i].key /\ s[i].rev = u[i].rev

Alike(d, e) == \A t \in Topics : AlikeLists(d[t], e[t])

LEMMA AlikeWhole ==
    ASSUME NEW d \in Lists, NEW e \in Lists, Alike(d, e)
    PROVE  Whole(d) = Whole(e)
<1>1. ASSUME NEW t \in Topics
      PROVE  [i \in DOMAIN d[t] |-> [d[t][i] EXCEPT !.torn = FALSE]]
                 = [i \in DOMAIN e[t] |-> [e[t][i] EXCEPT !.torn = FALSE]]
  <2>1. d[t] \in Seq(Records) /\ e[t] \in Seq(Records)
    BY DEF Lists
  <2>2. DOMAIN d[t] = 1..Len(d[t]) /\ DOMAIN e[t] = 1..Len(d[t])
    BY <2>1, LenProperties DEF Alike, AlikeLists
  <2>3. ASSUME NEW i \in 1..Len(d[t])
        PROVE  [d[t][i] EXCEPT !.torn = FALSE] = [e[t][i] EXCEPT !.torn = FALSE]
    <3>1. d[t][i] \in Records /\ e[t][i] \in Records
      BY <2>1, ElementOfSeq DEF Alike, AlikeLists
    <3>2. d[t][i].key = e[t][i].key /\ d[t][i].rev = e[t][i].rev
      BY DEF Alike, AlikeLists
    <3> QED
      BY <3>1, <3>2 DEF Records
  <2> QED
    BY <2>2, <2>3
<1> QED
  BY <1>1 DEF Whole

LEMMA TornAlike ==
    ASSUME NEW d \in Lists, NEW act \in ArgActions
    PROVE  Torn(d, act) \in Lists /\ Alike(Torn(d, act), d)
<1> DEFINE list == d[act.top]
           idx == IndexKey(list, act.key)
           new == [list EXCEPT ![idx].torn = TRUE]
           q == [list[idx] EXCEPT !.torn = TRUE]
<1>1. act.top \in Topics /\ list \in Seq(Records) /\ DOMAIN d = Topics
  BY DEF ArgActions, Lists
<1>2. CASE act.cmd = "mod" /\ act.arg = "part" /\ idx > 0
  <2>1. Torn(d, act) = [d EXCEPT ![act.top] = new]
    BY <1>2 DEF Torn
  <2> HIDE DEF list
  <2>2. idx \in 1..Len(list)
    BY <1>1, <1>2, IndexKeyFinds
  <2> HIDE DEF idx
  <2>3. list[idx] \in Records
    BY <1>1, <2>2, ElementOfSeq
  <2>4. q \in Records /\ q.key = list[idx].key /\ q.rev = list[idx].rev
    BY <2>3 DEF Records
  <2>5. new = [list EXCEPT ![idx] = q]
    OBVIOUS
  <2> HIDE DEF q, new
  <2>6. /\ new \in Seq(Records) /\ Len(new) = Len(list)
        /\ \A i \in 1..Len(list) : new[i] = IF i = idx THEN q ELSE list[i]
    BY <1>1, <2>2, <2>4, <2>5, ExceptSeq
  <2>7. AlikeLists(new, list)
    BY <2>4, <2>6 DEF AlikeLists
  <2>8. AlikeLists(new, d[act.top])
    BY <2>7 DEF list
  <2>9. \A t \in Topics : Torn(d, act)[t] = IF t = act.top THEN new ELSE d[t]
    BY <1>1, <2>1
  <2>10. Alike(Torn(d, act), d)
    BY <2>8, <2>9 DEF Alike, AlikeLists
  <2>11. Torn(d, act) \in Lists
    BY <2>1, <2>6 DEF Lists
  <2> QED
    BY <2>10, <2>11
<1>3. CASE ~(act.cmd = "mod" /\ act.arg = "part" /\ idx > 0)
  BY <1>3 DEF Torn, Alike, AlikeLists
<1> QED
  BY <1>2, <1>3

\* The function an action leaves to take it back restores its list, whatever a
\* failing argument has left in a record since.
LEMMA RevertAlike ==
    ASSUME NEW before \in Lists, NEW d \in Lists, NEW act \in ArgActions, NEW rev \in Nat,
           ~Fails(before, act), Alike(d, ApplyEvent(before, act, rev))
    PROVE  Revert(d, before, act) \in Lists /\ Alike(Revert(d, before, act), before)
<1> DEFINE top == act.top
           old == before[top]
           idx == IndexKey(old, act.key)
           mid == ApplyEvent(before, act, rev)[top]
           list == d[top]
<1>1. top \in Topics /\ old \in Seq(Records) /\ list \in Seq(Records) /\ DOMAIN d = Topics
  BY DEF ArgActions, Lists
<1>2. /\ Changed(old, mid, act, idx, rev) /\ AlikeLists(list, mid)
      /\ act.cmd # "new" => idx \in 1..Len(old)
      /\ \A t \in Topics \ {top} : AlikeLists(d[t], before[t])
  BY <1>1, ApplyEffect DEF Alike
<1>3. Len(old) \in Nat /\ Len(list) \in Nat /\ \A i \in 1..Len(list) : list[i] \in Records
  BY <1>1, LenProperties, ElementOfSeq
<1>4. act.cmd \in {"new", "mod", "del"}
  BY DEF ArgActions, Cmds, CmdNew
<1>5. CASE \E new \in Seq(Records) :
               /\ Revert(d, before, act) = [d EXCEPT ![top] = new] /\ AlikeLists(new, old)
  <2>1. PICK new \in Seq(Records) :
            /\ Revert(d, before, act) = [d EXCEPT ![top] = new] /\ AlikeLists(new, old)
    BY <1>5
  <2>2. Revert(d, before, act) \in Lists
    BY <2>1 DEF Lists
  <2>3. \A t \in Topics : Revert(d, before, act)[t] = IF t = top THEN new ELSE d[t]
    BY <1>1, <2>1
  <2>4. Alike(Revert(d, before, act), before)
    BY <1>2, <2>1, <2>3 DEF Alike
  <2> QED
    BY <2>2, <2>4
<1>6. CASE act.cmd = "new"
  <2>1. Revert(d, before, act) = [d EXCEPT ![top] = SubSeq(list, 1, Len(old))]
    BY <1>6 DEF Revert, CmdNew
  <2> HIDE DEF list, old, mid, idx
  <2>2. Len(list) = Len(old) + 1 /\ \A i \in 1..Len(old) : list[i].key = old[i].key /\ list[i].rev = old[i].rev
    BY <1>2, <1>3, <1>6 DEF Changed, AlikeLists
  <2>3. /\ SubSeq(list, 1, Len(old)) \in Seq(Records)
        /\ Len(SubSeq(list, 1, Len(old))) = IF 1 <= Len(old) THEN Len(old) - 1 + 1 ELSE 0
        /\ \A i \in 1..(Len(old) - 1 + 1) : SubSeq(list, 1, Len(old))[i] = list[1 + i - 1]
    BY <1>3, <2>2, SubSeqProperties
  <2>4. AlikeLists(SubSeq(list, 1, Len(old)), old)
    BY <1>3, <2>2, <2>3 DEF AlikeLists
  <2> QED
    BY <1>5, <2>1, <2>3, <2>4
<1>7. CASE act.cmd = "mod"
  <2> DEFINE new == [list EXCEPT ![idx] = old[idx]]
  <2>1. Revert(d, before, act) = [d EXCEPT ![top] = new]
    BY <1>7 DEF Revert, CmdNew
  <2> HIDE DEF list, old, mid, idx
  <2>2. idx \in 1..Len(old) /\ Len(list) = Len(old) /\ old[idx] \in Records
    BY <1>1, <1>2, <1>7, ElementOfSeq DEF Changed, AlikeLists
  <2>3. \A i \in 1..Len(old) : i # idx => list[i].key = old[i].key /\ list[i].rev = old[i].rev
    <3>1. Len(mid) = Len(old) /\ \A i \in 1..Len(old) : i # idx => mid[i] = old[i]
      BY <1>2, <1>7 DEF Changed
    <3>2. \A i \in 1..Len(list) : list[i].key = mid[i].key /\ list[i].rev = mid[i].rev
      BY <1>2 DEF AlikeLists
    <3> QED
      BY <2>2, <3>1, <3>2
  <2>4. /\ new \in Seq(Records) /\ Len(new) = Len(list)
        /\ \A i \in 1..Len(list) : new[i] = IF i = idx THEN old[idx] ELSE list[i]
    BY <1>1, <2>2, ExceptSeq
  <2>5. AlikeLists(new, old)
    BY <2>2, <2>3, <2>4 DEF AlikeLists
  <2> QED
    BY <1>5, <2>1, <2>4, <2>5
<1>8. CASE act.cmd = "del"
  <2> DEFINE new == InsertAt(list, idx, old[idx])
  <2>1. Revert(d, before, act) = [d EXCEPT ![top] = new]
    BY <1>8 DEF Revert, CmdNew
  <2> HIDE DEF list, old, mid, idx
  <2>2. idx \in 1..Len(old) /\ Len(list) = Len(old) - 1 /\ old[idx] \in Records
    BY <1>1, <1>2, <1>8, ElementOfSeq DEF Changed, AlikeLists
  <2>3. \A i \in 1..(Len(old) - 1) :
            LET j == IF i < idx THEN i ELSE i + 1
            IN  list[i].key = old[j].key /\ list[i].rev = old[j].rev
    BY <1>2, <1>8, <2>2 DEF Changed, AlikeLists
  <2>4. /\ new \in Seq(Records) /\ Len(new) = Len(list) + 1
        /\ \A i \in 1..(Len(list) + 1) :
               new[i] = IF i < idx THEN list[i] ELSE IF i = idx THEN old[idx] ELSE list[i - 1]
    <3>1. idx \in 1..(Len(list) + 1)
      BY <1>3, <2>2
    <3>2. \A e \in Records :
              /\ InsertAt(list, idx, e) \in Seq(Records) /\ Len(InsertAt(list, idx, e)) = Len(list) + 1
              /\ \A i \in 1..(Len(list) + 1) :
                     InsertAt(list, idx, e)[i]
                         = IF i < idx THEN list[i] ELSE IF i = idx THEN e ELSE list[i - 1]
      BY <1>1, <3>1, InsertAtProperties
    <3> QED
      BY <2>2, <3>2
  <2> HIDE DEF new
  <2>5. ASSUME NEW i \in 1..Len(old)
        PROVE  new[i].key = old[i].key /\ new[i].rev = old[i].rev
    <3>1. CASE i < idx
      <4>1. i \in 1..(Len(old) - 1) /\ i \in 1..(Len(list) + 1)
        BY <1>3, <2>2, <3>1
      <4> QED
        BY <2>3, <2>4, <3>1, <4>1
    <3>2. CASE i = idx
      BY <1>3, <2>2, <2>4, <3>2
    <3>3. CASE i > idx
      <4>1. /\ i - 1 \in 1..(Len(old) - 1) /\ i \in 1..(Len(list) + 1)
            /\ ~(i - 1 < idx) /\ (i - 1) + 1 = i /\ ~(i < idx) /\ i # idx
        BY <1>3, <2>2, <3>3
      <4>2. new[i] = list[i - 1]
        BY <2>4, <4>1
      <4>3. list[i - 1].key = old[(i - 1) + 1].key /\ list[i - 1].rev = old[(i - 1) + 1].rev
        BY <2>3, <4>1
      <4> QED
        BY <4>1, <4>2, <4>3
    <3>4. i < idx \/ i = idx \/ i > idx
      BY <2>2
    <3> QED
      BY <3>1, <3>2, <3>3, <3>4
  <2>6. AlikeLists(new, old)
    BY <1>3, <2>2, <2>4, <2>5 DEF AlikeLists
  <2> QED
    BY <1>5, <2>1, <2>4, <2>6 DEF new
<1> QED
  BY <1>4, <1>6, <1>7, <1>8

-----------------------------------------------------------------------------
(* A transaction. *)

\* The records after each action, each made of those before.
LEMMA StagesProperties ==
    ASSUME data \in Lists, NEW acts \in Seq(ArgActions), NEW rev \in Nat
    PROVE  LET stages == Stages(acts, rev)
           IN  /\ stages \in [0..Len(acts) -> Lists] /\ stages[0] = data
               /\ \A n \in 1..Len(acts) : stages[n] = ApplyEvent(stages[n - 1], acts[n], rev)
<1> DEFINE N == Len(acts)
           H == [n \in 1..N |-> [d \in Lists |-> ApplyEvent(d, acts[n], rev)]]
           stages == Stages(acts, rev)
<1>1. N \in Nat /\ \A n \in 1..N : acts[n] \in ArgActions
  BY LenProperties, ElementOfSeq
<1>2. H \in [1..N -> [Lists -> Lists]]
  BY <1>1, ApplyType
<1>3. \A n \in 1..N : \A d \in Lists : H[n][d] = ApplyEvent(d, acts[n], rev)
  OBVIOUS
<1> HIDE DEF N, H
<1>4. PICK f : Recurses(f, N, Lists, data, H)
  BY <1>1, <1>2, Recursion
<1>5. \A n \in 0..N : f[n] = IF n = 0 THEN data ELSE ApplyEvent(f[n - 1], acts[n], rev)
  BY <1>1, <1>3, <1>4 DEF Recurses
<1>6. f = [n \in 0..N |-> IF n = 0 THEN data ELSE ApplyEvent(f[n - 1], acts[n], rev)]
  <2>1. f = [n \in 0..N |-> f[n]]
    BY <1>4 DEF Recurses
  <2>2. [n \in 0..N |-> f[n]]
            = [n \in 0..N |-> IF n = 0 THEN data ELSE ApplyEvent(f[n - 1], acts[n], rev)]
    BY <1>5
  <2> QED
    BY <2>1, <2>2
<1>7. stages = CHOOSE s : s = [n \in 0..N |-> IF n = 0 THEN data
                                              ELSE ApplyEvent(s[n - 1], acts[n], rev)]
  BY DEF Stages, N
<1> HIDE DEF stages
<1>8. stages = [n \in 0..N |-> IF n = 0 THEN data ELSE ApplyEvent(stages[n - 1], acts[n], rev)]
  BY <1>6, <1>7
<1>9. stages[0] = data /\ \A n \in 1..N : stages[n] = ApplyEvent(stages[n - 1], acts[n], rev)
  BY <1>1, <1>8
<1> DEFINE S == {n \in Nat : n <= N => stages[n] \in Lists}
<1>10. 0 \in S
  BY <1>9
<1>11. ASSUME NEW n \in Nat, n \in S PROVE n + 1 \in S
  <2>1. SUFFICES ASSUME n + 1 <= N PROVE stages[n + 1] \in Lists
    OBVIOUS
  <2>2. stages[n] \in Lists /\ n + 1 \in 1..N /\ (n + 1) - 1 = n
    BY <1>1, <1>11, <2>1
  <2>3. stages[n + 1] = ApplyEvent(stages[n], acts[n + 1], rev)
    BY <1>9, <2>2
  <2> QED
    BY <1>1, <2>2, <2>3, ApplyType
<1> HIDE DEF S
<1>12. Nat \subseteq S
  BY <1>10, <1>11, Induction
<1>13. stages \in [0..N -> Lists]
  <2>1. \A n \in 0..N : stages[n] \in Lists
    BY <1>1, <1>12 DEF S
  <2> QED
    BY <1>8, <2>1
<1> QED
  BY <1>9, <1>13 DEF stages, N

\* A transaction gets a revision after the ledger's last one.
LEMMA NextRevLater ==
    ASSUME NEW last \in Nat, NEW now \in Nat
    PROVE  NextRev(last, now) \in Nat /\ NextRev(last, now) > last
<1> DEFINE m == now % Ms
<1>1. Ms \in Nat \ {0}
  BY MsAssumption
<1>2. m \in Nat /\ m <= now
  <2>1. m \in 0..(Ms - 1) /\ now = Ms * (now \div Ms) + m /\ now \div Ms \in Nat
    BY <1>1
  <2>2. Ms * (now \div Ms) \in Nat
    BY <1>1, <2>1
  <2> HIDE DEF m
  <2> QED
    BY <1>1, <2>1, <2>2
<1>3. NextRev(last, now) = IF now - m > last THEN now - m ELSE last + Ms
  BY DEF NextRev
<1> HIDE DEF m
<1> QED
  BY <1>1, <1>2, <1>3

LEMMA LedgerNumbers ==
    ASSUME TypeOK
    PROVE  /\ Len(evs) \in Nat /\ DOMAIN evs = 1..Len(evs) /\ Rev(evs) \in Nat
           /\ \A i \in 1..Len(evs) : evs[i] \in IdEvents /\ evs[i].rev \in Nat
           /\ Len(evs) > 0 => Rev(evs) = evs[Len(evs)].rev
<1>1. evs \in Seq(IdEvents)
  BY DEF TypeOK
<1>2. Len(evs) \in Nat /\ DOMAIN evs = 1..Len(evs) /\ \A i \in 1..Len(evs) : evs[i] \in IdEvents
  BY <1>1, LenProperties, ElementOfSeq
<1>3. \A i \in 1..Len(evs) : evs[i].rev \in Nat
  BY <1>2 DEF IdEvents
<1>4. evs # << >> => Len(evs) \in 1..Len(evs)
  BY <1>1, <1>2, EmptySeq
<1>5. Rev(evs) \in Nat
  BY <1>3, <1>4 DEF Rev
<1>6. Len(evs) > 0 => evs # << >>
  BY <1>1, <1>2, EmptySeq
<1> QED
  BY <1>2, <1>3, <1>5, <1>6 DEF Rev

\* The events of a transaction follow those of the ledger.
Extended(acts, rev) ==
    /\ evs' \in Seq(IdEvents) /\ Len(evs') = Len(evs) + Len(acts)
    /\ \A i \in 1..Len(evs) : evs'[i] = evs[i]
    /\ \A i \in 1..Len(acts) :
           evs'[Len(evs) + i] = [id |-> Len(evs) + i, act |-> acts[i], rev |-> rev]

\* A transaction is kept as a whole.
Kept(acts, rev) ==
    LET N == Len(acts)
        stages == Stages(acts, rev)
    IN  /\ \A n \in 1..N : ~Fails(stages[n - 1], acts[n])
        /\ data' = stages[N] /\ Extended(acts, rev)
        /\ stored' \in Seq(IdEvents) /\ Len(evs') <= MaxEvents
        /\ pubs' = pubs + 1 /\ panicked' = panicked

\* Its first done actions are applied and the last of these is taken back.
Refused(acts, rev, done) ==
    LET stages == Stages(acts, rev)
        torn   == Torn(stages[done], acts[done + 1])
    IN  /\ done \in 0..(Len(acts) - 1)
        /\ \A n \in 1..done : ~Fails(stages[n - 1], acts[n])
        /\ data' = IF done = 0 THEN torn ELSE Revert(torn, stages[done - 1], acts[done])
        /\ panicked' = done /\ evs' = evs /\ stored' = stored /\ pubs' = pubs

LEMMA PublishEffect ==
    ASSUME TypeOK, NEW acts \in Transs, NEW now \in Nows, Publish(acts, now)
    PROVE  /\ acts \in Seq(ArgActions) /\ Len(acts) \in Nat \ {0}
           /\ panicked = 0 /\ opened' = opened /\ opens' = opens
           /\ \E rev \in Nat : /\ rev > Rev(evs)
                               /\ \/ Kept(acts, rev)
                                  \/ \E done \in Nat : Refused(acts, rev, done)
<1> DEFINE rev == NextRev(Rev(evs), now)
           N == Len(acts)
           events == [i \in 1..N |-> [id |-> Len(evs) + i, act |-> acts[i], rev |-> rev]]
<1>1. acts \in Seq(ArgActions) /\ N \in Nat \ {0}
  BY MemAssumption, EmptySeq, LenProperties
<1>2. rev \in Nat /\ rev > Rev(evs) /\ Len(evs) \in Nat
  BY MemAssumption, LedgerNumbers, NextRevLater
<1>3. /\ panicked = 0 /\ Len(evs) + N <= MaxEvents /\ opened' = opened /\ opens' = opens
      /\ \E done \in 0..N :
            /\ \A n \in 1..done : ~Fails(Stages(acts, rev)[n - 1], acts[n])
            /\ \/ /\ done = N /\ data' = Stages(acts, rev)[done]
                  /\ evs' = evs \o events /\ stored' = stored \o events
                  /\ pubs' = pubs + 1 /\ panicked' = panicked
               \/ /\ done < N
                  /\ LET torn == Torn(Stages(acts, rev)[done], acts[done + 1])
                     IN  data' = IF done = 0 THEN torn
                                 ELSE Revert(torn, Stages(acts, rev)[done - 1], acts[done])
                  /\ panicked' = done /\ evs' = evs /\ stored' = stored /\ pubs' = pubs
  BY DEF Publish
<1>4. events \in Seq(IdEvents) /\ Len(events) = N
  <2>1. \A i \in 1..N : acts[i] \in ArgActions
    BY <1>1, ElementOfSeq
  <2> HIDE DEF rev, N
  <2>2. \A i \in 1..N : [id |-> Len(evs) + i, act |-> acts[i], rev |-> rev] \in IdEvents
    BY <1>1, <1>2, <2>1 DEF IdEvents
  <2>3. events \in [1..N -> IdEvents]
    BY <2>2
  <2>4. events \in Seq(IdEvents)
    BY <1>1, <2>3, SeqDef
  <2>5. DOMAIN events = 1..N /\ DOMAIN events = 1..Len(events) /\ Len(events) \in Nat
    BY <2>4, LenProperties
  <2> QED
    BY <1>1, <2>4, <2>5
<1>5. ASSUME evs' = evs \o events PROVE Extended(acts, rev)
  <2>1. evs \in Seq(IdEvents)
    BY DEF TypeOK
  <2>2. \A i \in 1..N : events[i] = [id |-> Len(evs) + i, act |-> acts[i], rev |-> rev]
    OBVIOUS
  <2> HIDE DEF events
  <2>3. /\ evs' \in Seq(IdEvents) /\ Len(evs') = Len(evs) + N
        /\ \A i \in 1..(Len(evs) + N) : evs'[i] = IF i <= Len(evs) THEN evs[i] ELSE events[i - Len(evs)]
    <3>1. /\ evs \o events \in Seq(IdEvents) /\ Len(evs \o events) = Len(evs) + Len(events)
          /\ \A i \in 1..(Len(evs) + Len(events)) :
                 (evs \o events)[i] = IF i <= Len(evs) THEN evs[i] ELSE events[i - Len(evs)]
      BY <1>4, <2>1, ConcatProperties
    <3> QED
      BY <1>4, <1>5, <3>1
  <2> HIDE DEF rev
  <2>4. \A i \in 1..Len(evs) : evs'[i] = evs[i]
    BY <1>1, <1>2, <2>3
  <2>5. ASSUME NEW i \in 1..N
        PROVE  evs'[Len(evs) + i] = [id |-> Len(evs) + i, act |-> acts[i], rev |-> rev]
    <3>1. Len(evs) + i \in 1..(Len(evs) + N) /\ ~(Len(evs) + i <= Len(evs)) /\ (Len(evs) + i) - Len(evs) = i
      BY <1>1, <1>2
    <3> QED
      BY <2>2, <2>3, <3>1
  <2> QED
    BY <2>3, <2>4, <2>5 DEF Extended
<1>6. ASSUME stored' = stored \o events PROVE stored' \in Seq(IdEvents)
  <2>1. stored \in Seq(IdEvents)
    BY DEF TypeOK
  <2> HIDE DEF events
  <2> QED
    BY <1>4, <1>6, <2>1, ConcatProperties
<1> HIDE DEF events, rev
<1>7. Kept(acts, rev) \/ \E done \in Nat : Refused(acts, rev, done)
  <2>1. PICK done \in 0..N :
            /\ \A n \in 1..done : ~Fails(Stages(acts, rev)[n - 1], acts[n])
            /\ \/ /\ done = N /\ data' = Stages(acts, rev)[done]
                  /\ evs' = evs \o events /\ stored' = stored \o events
                  /\ pubs' = pubs + 1 /\ panicked' = panicked
               \/ /\ done < N
                  /\ LET torn == Torn(Stages(acts, rev)[done], acts[done + 1])
                     IN  data' = IF done = 0 THEN torn
                                 ELSE Revert(torn, Stages(acts, rev)[done - 1], acts[done])
                  /\ panicked' = done /\ evs' = evs /\ stored' = stored /\ pubs' = pubs
    BY <1>3
  <2>2. CASE done = N /\ evs' = evs \o events
    <3>1. data' = Stages(acts, rev)[N] /\ stored' = stored \o events /\ pubs' = pubs + 1 /\ panicked' = panicked
      BY <1>1, <2>1, <2>2
    <3>2. Extended(acts, rev) /\ stored' \in Seq(IdEvents)
      BY <1>5, <1>6, <2>2, <3>1
    <3>3. Len(evs') <= MaxEvents
      BY <1>3, <3>2 DEF Extended
    <3> QED
      BY <2>1, <2>2, <3>1, <3>2, <3>3 DEF Kept
  <2>3. CASE done < N
    <3>1. done \in 0..(N - 1) /\ done \in Nat
      BY <1>1, <2>3
    <3>2. Refused(acts, rev, done)
      BY <1>1, <2>1, <2>3, <3>1 DEF Refused
    <3> QED
      BY <3>1, <3>2
  <2> QED
    BY <2>1, <2>2, <2>3
<1> QED
  BY <1>1, <1>2, <1>3, <1>7

-----------------------------------------------------------------------------
(* Types. *)

LEMMA DataLists == ASSUME TypeOK PROVE data \in Lists /\ opened \in Lists
  BY DEF TypeOK, Lists

\* What a transaction that fails leaves of the records: all of them when no
\* action or only one was applied.
LEMMA RefusedAlike ==
    ASSUME TypeOK, NEW acts \in Seq(ArgActions), NEW rev \in Nat, NEW done \in Nat,
           Refused(acts, rev, done)
    PROVE  data' \in Lists /\ (done <= 1 => Alike(data', data))
<1> DEFINE stages == Stages(acts, rev)
           torn == Torn(stages[done], acts[done + 1])
<1>1. /\ stages \in [0..Len(acts) -> Lists] /\ stages[0] = data
      /\ \A n \in 1..Len(acts) : stages[n] = ApplyEvent(stages[n - 1], acts[n], rev)
  BY DataLists, StagesProperties
<1>2. /\ done \in 0..(Len(acts) - 1) /\ Len(acts) \in Nat
      /\ \A n \in 1..done : ~Fails(stages[n - 1], acts[n])
      /\ data' = IF done = 0 THEN torn ELSE Revert(torn, stages[done - 1], acts[done])
  BY LenProperties DEF Refused
<1> HIDE DEF stages
<1>3. stages[done] \in Lists /\ acts[done + 1] \in ArgActions
  <2>1. done \in 0..Len(acts) /\ done + 1 \in 1..Len(acts)
    BY <1>2
  <2> QED
    BY <1>1, <2>1, ElementOfSeq
<1>4. torn \in Lists /\ Alike(torn, stages[done])
  BY <1>3, TornAlike
<1> HIDE DEF torn
<1>5. CASE done = 0
  BY <1>1, <1>2, <1>4, <1>5
<1>6. CASE done # 0
  <2>1. done \in 1..Len(acts) /\ done - 1 \in 0..Len(acts) /\ done \in 1..done
    BY <1>2, <1>6
  <2>2. /\ stages[done - 1] \in Lists /\ acts[done] \in ArgActions
        /\ ~Fails(stages[done - 1], acts[done])
        /\ stages[done] = ApplyEvent(stages[done - 1], acts[done], rev)
    BY <1>1, <1>2, <2>1, ElementOfSeq
  <2>3. /\ Revert(torn, stages[done - 1], acts[done]) \in Lists
        /\ Alike(Revert(torn, stages[done - 1], acts[done]), stages[done - 1])
    BY <1>4, <2>2, RevertAlike
  <2>4. data' \in Lists /\ Alike(data', stages[done - 1])
    BY <1>2, <1>6, <2>3
  <2>5. done <= 1 => done - 1 = 0
    BY <1>2, <1>6
  <2> QED
    BY <1>1, <2>4, <2>5
<1> QED
  BY <1>5, <1>6

\* Whatever actions are published, taken back or refused, the records stay lists
\* of records and the ledger a list of numbered events within its bound.
THEOREM MemTypes == Spec => []TypeOK
<1>1. Init => TypeOK
  <2> SUFFICES ASSUME Init PROVE TypeOK
    OBVIOUS
  <2>1. << >> \in Seq(IdEvents) /\ << >> \in Seq(Records) /\ Len(<< >>) = 0
    BY EmptySeq
  <2> QED
    BY <2>1, MemAssumption DEF Init, TypeOK
<1>2. TypeOK /\ [Next]_vars => TypeOK'
  <2> SUFFICES ASSUME TypeOK, [Next]_vars PROVE TypeOK'
    OBVIOUS
  <2>1. CASE Open
    <3>1. << >> \in Seq(IdEvents) /\ Len(<< >>) = 0
      BY EmptySeq
    <3> QED
      BY <2>1, <3>1, MemAssumption DEF Open, TypeOK
  <2>2. ASSUME NEW acts \in Transs, NEW now \in Nows, Publish(acts, now)
        PROVE  TypeOK'
    <3>1. /\ acts \in Seq(ArgActions) /\ Len(acts) \in Nat \ {0}
          /\ opened' = opened /\ opens' = opens
      BY <2>2, PublishEffect
    <3>2. PICK rev \in Nat : Kept(acts, rev) \/ \E done \in Nat : Refused(acts, rev, done)
      BY <2>2, PublishEffect
    <3>3. CASE Kept(acts, rev)
      <4>1. Stages(acts, rev) \in [0..Len(acts) -> Lists]
        BY <3>1, DataLists, StagesProperties
      <4>2. data' \in Lists
        BY <3>1, <3>3, <4>1 DEF Kept
      <4>3. /\ evs' \in Seq(IdEvents) /\ stored' \in Seq(IdEvents) /\ Len(evs') <= MaxEvents
            /\ pubs' \in Nat /\ panicked' \in Nat
        BY <3>3 DEF Kept, Extended, TypeOK
      <4> QED
        BY <3>1, <4>2, <4>3 DEF TypeOK, Lists
    <3>4. ASSUME NEW done \in Nat, Refused(acts, rev, done) PROVE TypeOK'
      <4>1. data' \in Lists
        BY <3>1, <3>4, RefusedAlike
      <4>2. evs' = evs /\ stored' = stored /\ pubs' = pubs /\ panicked' \in Nat
        BY <3>4 DEF Refused
      <4> QED
        BY <3>1, <4>1, <4>2 DEF TypeOK, Lists
    <3> QED
      BY <3>2, <3>3, <3>4
  <2>3. CASE UNCHANGED vars
    BY <2>3 DEF vars, TypeOK
  <2> QED
    BY <2>1, <2>2, <2>3 DEF Next
<1> QED
  BY <1>1, <1>2, PTL DEF Spec

-----------------------------------------------------------------------------
(* Transactions. *)

\* An action that is refused first, or second after one that was taken back,
\* leaves the records as they were, but for what it left half written.
THEOREM OneIsTakenBack == Spec => OneTakenBack
<1>1. TypeOK /\ [Next]_vars => [panicked' <= 1 /\ evs' = evs => Whole(data') = Whole(data)]_vars
  <2> SUFFICES ASSUME TypeOK, Next, panicked' <= 1, evs' = evs
               PROVE  Whole(data') = Whole(data)
    BY DEF vars
  <2>1. CASE Open
    BY <2>1 DEF Open
  <2>2. ASSUME NEW acts \in Transs, NEW now \in Nows, Publish(acts, now)
        PROVE  Whole(data') = Whole(data)
    <3>1. acts \in Seq(ArgActions) /\ Len(acts) \in Nat \ {0}
      BY <2>2, PublishEffect
    <3>2. PICK rev \in Nat : Kept(acts, rev) \/ \E done \in Nat : Refused(acts, rev, done)
      BY <2>2, PublishEffect
    <3>3. ~Kept(acts, rev)
      <4>1. Kept(acts, rev) => Len(evs') = Len(evs) + Len(acts)
        BY DEF Kept, Extended
      <4>2. Len(evs) \in Nat /\ Len(evs') = Len(evs)
        BY LedgerNumbers
      <4> QED
        BY <3>1, <4>1, <4>2
    <3>4. PICK done \in Nat : Refused(acts, rev, done)
      BY <3>2, <3>3
    <3>5. done <= 1
      BY <3>4 DEF Refused
    <3>6. data' \in Lists /\ Alike(data', data) /\ data \in Lists
      BY <3>1, <3>4, <3>5, RefusedAlike, DataLists
    <3> QED
      BY <3>6, AlikeWhole
  <2> QED
    BY <2>1, <2>2 DEF Next
<1> QED
  BY <1>1, MemTypes, PTL DEF Spec, OneTakenBack

Revs(s) == {s[i].rev : i \in 1..Len(s)}

\* Ids are positions, revisions do not go back, and each transaction published
\* has one of its own.
WholeInv ==
    /\ \A i \in 1..Len(evs) : evs[i].id = i
    /\ \A i, j \in 1..Len(evs) : i <= j => evs[i].rev <= evs[j].rev
    /\ IsFiniteSet(Revs(evs)) /\ Cardinality(Revs(evs)) = pubs

LEMMA WholeKept ==
    ASSUME TypeOK, WholeInv, NEW acts \in Seq(ArgActions), NEW rev \in Nat,
           Len(acts) \in Nat \ {0}, rev > Rev(evs), Kept(acts, rev)
    PROVE  WholeInv'
<1> DEFINE N == Len(evs)
           M == Len(acts)
<1>1. /\ N \in Nat /\ M \in Nat \ {0} /\ Len(evs') = N + M
      /\ \A i \in 1..N : evs'[i] = evs[i] /\ evs[i].id = i /\ evs[i].rev \in Nat
      /\ \A i \in 1..M : evs'[N + i].id = N + i /\ evs'[N + i].rev = rev
  <2>1. /\ N \in Nat /\ \A i \in 1..N : evs[i].rev \in Nat
    BY LedgerNumbers
  <2>2. Extended(acts, rev)
    BY DEF Kept
  <2>3. /\ Len(evs') = N + M /\ \A i \in 1..N : evs'[i] = evs[i]
        /\ \A i \in 1..M : evs'[N + i] = [id |-> N + i, act |-> acts[i], rev |-> rev]
    BY <2>2 DEF Extended
  <2>4. \A i \in 1..M : evs'[N + i].id = N + i /\ evs'[N + i].rev = rev
    <3> SUFFICES ASSUME NEW i \in 1..M PROVE evs'[N + i].id = N + i /\ evs'[N + i].rev = rev
      OBVIOUS
    <3>1. evs'[N + i] = [id |-> N + i, act |-> acts[i], rev |-> rev]
      BY <2>3
    <3> QED
      BY <3>1
  <2> QED
    BY <2>1, <2>3, <2>4 DEF WholeInv
<1>2. \A i \in 1..N : evs[i].rev < rev
  <2> SUFFICES ASSUME NEW i \in 1..N PROVE evs[i].rev < rev
    OBVIOUS
  <2>1. N \in 1..N /\ i <= N /\ N > 0
    BY <1>1
  <2>2. evs[i].rev <= evs[N].rev /\ Rev(evs) = evs[N].rev
    BY <2>1, LedgerNumbers DEF WholeInv
  <2> QED
    BY <1>1, <2>1, <2>2
<1>3. \A i, j \in 1..N : i <= j => evs[i].rev <= evs[j].rev
  BY DEF WholeInv
<1>4. Revs(evs) = {evs[i].rev : i \in 1..N} /\ Revs(evs') = {evs'[i].rev : i \in 1..Len(evs')}
  BY DEF Revs
<1> HIDE DEF N, M
<1>5. \A i \in 1..(N + M) : \/ i \in 1..N /\ evs'[i] = evs[i]
                            \/ i \notin 1..N /\ i > N /\ evs'[i].id = i /\ evs'[i].rev = rev
  <2> SUFFICES ASSUME NEW i \in 1..(N + M), i \notin 1..N
               PROVE  i > N /\ evs'[i].id = i /\ evs'[i].rev = rev
    BY <1>1
  <2>1. i > N /\ i - N \in 1..M /\ N + (i - N) = i
    BY <1>1
  <2> QED
    BY <1>1, <2>1
<1>6. \A i \in 1..Len(evs') : evs'[i].id = i
  BY <1>1, <1>5
<1>7. ASSUME NEW i \in 1..Len(evs'), NEW j \in 1..Len(evs'), i <= j
      PROVE  evs'[i].rev <= evs'[j].rev
  <2>1. CASE j \in 1..N
    <3>1. i \in 1..N
      BY <1>1, <1>7, <2>1
    <3> QED
      BY <1>1, <1>3, <1>7, <2>1, <3>1
  <2>2. CASE j \notin 1..N
    <3>1. evs'[j].rev = rev
      BY <1>1, <1>5, <2>2
    <3>2. evs'[i].rev < rev \/ evs'[i].rev = rev
      BY <1>1, <1>2, <1>5
    <3>3. evs'[i].rev \in Nat
      BY <1>1, <1>5
    <3> QED
      BY <3>1, <3>2, <3>3
  <2> QED
    BY <2>1, <2>2
<1>8. Revs(evs') = Revs(evs) \cup {rev} /\ rev \notin Revs(evs)
  <2>1. \A i \in 1..N : i \in 1..(N + M)
    BY <1>1
  <2>2. N + 1 \in 1..(N + M) /\ N + 1 \notin 1..N
    BY <1>1
  <2>3. \A i \in 1..N : evs[i].rev # rev
    BY <1>1, <1>2
  <2> QED
    BY <1>1, <1>4, <1>5, <2>1, <2>2, <2>3
<1>9. IsFiniteSet(Revs(evs')) /\ Cardinality(Revs(evs')) = pubs + 1
  BY <1>8, FS_AddElement DEF WholeInv
<1> QED
  BY <1>6, <1>7, <1>9 DEF WholeInv, Kept

LEMMA WholeStep == TypeOK /\ WholeInv /\ [Next]_vars => WholeInv'
<1> SUFFICES ASSUME TypeOK, WholeInv, [Next]_vars PROVE WholeInv'
  OBVIOUS
<1>1. CASE Open
  <2>1. evs' = << >> /\ pubs' = 0 /\ Len(<< >>) = 0 /\ 1..0 = {}
    BY <1>1, EmptySeq DEF Open
  <2>2. Revs(evs') = {}
    BY <2>1 DEF Revs
  <2> QED
    BY <2>1, <2>2, FS_EmptySet DEF WholeInv
<1>2. ASSUME NEW acts \in Transs, NEW now \in Nows, Publish(acts, now)
      PROVE  WholeInv'
  <2>1. acts \in Seq(ArgActions) /\ Len(acts) \in Nat \ {0}
    BY <1>2, PublishEffect
  <2>2. PICK rev \in Nat : /\ rev > Rev(evs)
                           /\ Kept(acts, rev) \/ \E done \in Nat : Refused(acts, rev, done)
    BY <1>2, PublishEffect
  <2>3. CASE Kept(acts, rev)
    BY <2>1, <2>2, <2>3, WholeKept
  <2>4. CASE \E done \in Nat : Refused(acts, rev, done)
    BY <2>4 DEF Refused, WholeInv
  <2> QED
    BY <2>2, <2>3, <2>4
<1>3. CASE UNCHANGED vars
  BY <1>3 DEF vars, WholeInv
<1> QED
  BY <1>1, <1>2, <1>3 DEF Next

\* Who resumes after a revision gets whole transactions: there are as many
\* revisions as transactions, in order, whatever the clock reads, and as many
\* ids as events.
THEOREM TransactionsAreWhole == Spec => []WholeTransactions
<1>1. Init => WholeInv
  <2> SUFFICES ASSUME Init PROVE WholeInv
    OBVIOUS
  <2>1. evs = << >> /\ pubs = 0 /\ Len(<< >>) = 0 /\ 1..0 = {}
    BY EmptySeq DEF Init
  <2>2. Revs(evs) = {}
    BY <2>1 DEF Revs
  <2> QED
    BY <2>1, <2>2, FS_EmptySet DEF WholeInv
<1>2. TypeOK /\ WholeInv => WholeTransactions
  <2> SUFFICES ASSUME TypeOK, WholeInv PROVE WholeTransactions
    OBVIOUS
  <2>1. Len(evs) \in Nat /\ DOMAIN evs = 1..Len(evs)
    BY LedgerNumbers
  <2>2. {evs[i].rev : i \in DOMAIN evs} = Revs(evs)
    BY <2>1 DEF Revs
  <2>3. {evs[i].id : i \in DOMAIN evs} = 1..Len(evs)
    <3>1. \A i \in 1..Len(evs) : evs[i].id = i
      BY DEF WholeInv
    <3>2. {evs[i].id : i \in 1..Len(evs)} = 1..Len(evs)
      BY <3>1
    <3> QED
      BY <2>1, <3>2
  <2>4. Cardinality(1..Len(evs)) = Len(evs)
    <3> DEFINE n == Len(evs)
    <3>1. n \in Nat
      BY <2>1
    <3> HIDE DEF n
    <3>2. Cardinality(1..n) = IF 1 > n THEN 0 ELSE n - 1 + 1
      BY <3>1, FS_Interval
    <3>3. Cardinality(1..n) = n
      BY <3>1, <3>2
    <3> QED
      BY <3>3 DEF n
  <2> QED
    BY <2>1, <2>2, <2>3, <2>4 DEF WholeInv, WholeTransactions
<1> QED
  BY <1>1, <1>2, WholeStep, MemTypes, PTL DEF Spec

-----------------------------------------------------------------------------
(* What the events tell of the records.  The operators of Recreates, of any *)
(* events s, records o the ledger was opened with and records d.           *)

EvsOf(s, t, k, n) == {i \in 1..n : s[i].act.top = t /\ s[i].act.key = k}

EvsWith(s, t, k, n, cmd) == {i \in EvsOf(s, t, k, n) : s[i].act.cmd = cmd}

CountOf(s, o, t, k, n) ==
    Cardinality(Places(o[t], k)) + Cardinality(EvsWith(s, t, k, n, CmdNew))
        - Cardinality(EvsWith(s, t, k, n, "del"))

LastOfKey(s, o, t, k, n, rev) ==
    IF EvsOf(s, t, k, n) = {} THEN \E i \in Places(o[t], k) : o[t][i].rev = rev
    ELSE \E i \in EvsOf(s, t, k, n) : s[i].rev = rev /\ \A j \in EvsOf(s, t, k, n) : j <= i

ToldOf(s, o, d, n, t, k) ==
    /\ Cardinality(Places(d[t], k)) = CountOf(s, o, t, k, n)
    /\ (\A m \in 0..n : CountOf(s, o, t, k, m) <= 1) =>
           \A i \in Places(d[t], k) : LastOfKey(s, o, t, k, n, d[t][i].rev)

Told(s, o, d, n) == \A t \in Topics, k \in Keys : ToldOf(s, o, d, n, t, k)

LEMMA RecreatesTold == Recreates <=> (panicked = 0 => Told(evs, opened, data, Len(evs)))
  BY DEF Recreates, Count, EventsOf, LastRev, Told, ToldOf, CountOf, EvsWith, EvsOf, LastOfKey

\* Only the first n events matter.
LEMMA SamePrefix ==
    ASSUME NEW n \in Nat, NEW s, NEW u, \A i \in 1..n : s[i] = u[i],
           NEW o, NEW d, Told(s, o, d, n)
    PROVE  Told(u, o, d, n)
<1> SUFFICES ASSUME NEW t \in Topics, NEW k \in Keys PROVE ToldOf(u, o, d, n, t, k)
  BY DEF Told
<1>1. ASSUME NEW m \in 0..n
      PROVE  /\ EvsOf(s, t, k, m) = EvsOf(u, t, k, m)
             /\ \A c : EvsWith(s, t, k, m, c) = EvsWith(u, t, k, m, c)
  <2>1. \A i \in 1..m : s[i] = u[i]
    OBVIOUS
  <2>2. EvsOf(s, t, k, m) = EvsOf(u, t, k, m)
    BY <2>1 DEF EvsOf
  <2>3. \A i \in EvsOf(u, t, k, m) : s[i] = u[i]
    BY <2>1 DEF EvsOf
  <2> QED
    BY <2>2, <2>3 DEF EvsWith
<1>2. \A m \in 0..n : CountOf(s, o, t, k, m) = CountOf(u, o, t, k, m)
  BY <1>1 DEF CountOf
<1>3. n \in 0..n
  OBVIOUS
<1>4. \A i \in EvsOf(s, t, k, n) : s[i] = u[i]
  BY DEF EvsOf
<1>5. \A rev : LastOfKey(s, o, t, k, n, rev) => LastOfKey(u, o, t, k, n, rev)
  BY <1>1, <1>3, <1>4 DEF LastOfKey
<1>6. ToldOf(s, o, d, n, t, k)
  BY DEF Told
<1> QED
  BY <1>2, <1>3, <1>5, <1>6 DEF ToldOf

\* What a failing argument leaves in a record is not told apart.
LEMMA AlikeTold ==
    ASSUME NEW s, NEW o, NEW n, NEW d \in Lists, NEW e \in Lists, Alike(e, d), Told(s, o, d, n)
    PROVE  Told(s, o, e, n)
<1> SUFFICES ASSUME NEW t \in Topics, NEW k \in Keys PROVE ToldOf(s, o, e, n, t, k)
  BY DEF Told
<1>1. DOMAIN d[t] = 1..Len(d[t]) /\ DOMAIN e[t] = 1..Len(e[t])
  BY LenProperties DEF Lists
<1>2. Len(e[t]) = Len(d[t]) /\ \A i \in 1..Len(d[t]) : e[t][i].key = d[t][i].key /\ e[t][i].rev = d[t][i].rev
  BY DEF Alike, AlikeLists
<1>3. Places(e[t], k) = Places(d[t], k)
  BY <1>1, <1>2 DEF Places
<1>4. \A i \in Places(d[t], k) : e[t][i].rev = d[t][i].rev
  BY <1>1, <1>2 DEF Places
<1>5. ToldOf(s, o, d, n, t, k)
  BY DEF Told
<1> QED
  BY <1>3, <1>4, <1>5 DEF ToldOf

\* One event more.
LEMMA CountNext ==
    ASSUME NEW s \in Seq(IdEvents), NEW n \in Nat, n + 1 \in 1..Len(s),
           NEW o \in Lists, NEW t \in Topics, NEW k \in Keys
    PROVE  LET act == s[n + 1].act
               this == act.top = t /\ act.key = k
           IN  /\ EvsOf(s, t, k, n + 1) = EvsOf(s, t, k, n) \cup (IF this THEN {n + 1} ELSE {})
               /\ CountOf(s, o, t, k, n) \in Int
               /\ CountOf(s, o, t, k, n + 1) =
                      CountOf(s, o, t, k, n) + (IF this /\ act.cmd = "new" THEN 1 ELSE 0)
                          - (IF this /\ act.cmd = "del" THEN 1 ELSE 0)
<1> DEFINE act == s[n + 1].act
           this == act.top = t /\ act.key = k
           O == Cardinality(Places(o[t], k))
<1>1. 1..(n + 1) = 1..n \cup {n + 1} /\ n + 1 \notin 1..n
  OBVIOUS
<1>2. EvsOf(s, t, k, n + 1) = EvsOf(s, t, k, n) \cup (IF this THEN {n + 1} ELSE {})
  BY <1>1 DEF EvsOf
<1>3. \A c : EvsWith(s, t, k, n + 1, c)
                 = EvsWith(s, t, k, n, c) \cup (IF this /\ act.cmd = c THEN {n + 1} ELSE {})
  BY <1>2 DEF EvsWith
<1>4. \A c : n + 1 \notin EvsWith(s, t, k, n, c) /\ IsFiniteSet(EvsWith(s, t, k, n, c))
  <2> SUFFICES ASSUME NEW c
               PROVE  n + 1 \notin EvsWith(s, t, k, n, c) /\ IsFiniteSet(EvsWith(s, t, k, n, c))
    OBVIOUS
  <2>1. EvsWith(s, t, k, n, c) \subseteq 1..n
    BY DEF EvsWith, EvsOf
  <2>2. IsFiniteSet(1..n)
    BY FS_Interval
  <2> QED
    BY <1>1, <2>1, <2>2, FS_Subset
<1> HIDE DEF act
<1>5. ASSUME NEW c
      PROVE  /\ Cardinality(EvsWith(s, t, k, n, c)) \in Nat
             /\ Cardinality(EvsWith(s, t, k, n + 1, c))
                    = Cardinality(EvsWith(s, t, k, n, c)) + (IF this /\ act.cmd = c THEN 1 ELSE 0)
  <2> DEFINE C == EvsWith(s, t, k, n, c)
  <2>1. IsFiniteSet(C) /\ n + 1 \notin C
    BY <1>4
  <2>2. EvsWith(s, t, k, n + 1, c) = C \cup (IF this /\ act.cmd = c THEN {n + 1} ELSE {})
    BY <1>3
  <2> HIDE DEF C
  <2>3. Cardinality(C) \in Nat /\ Cardinality(C \cup {n + 1}) = Cardinality(C) + 1
    BY <2>1, FS_CardinalityType, FS_AddElement
  <2>4. CASE this /\ act.cmd = c
    <3>1. EvsWith(s, t, k, n + 1, c) = C \cup {n + 1}
      BY <2>2, <2>4
    <3>2. Cardinality(EvsWith(s, t, k, n + 1, c)) = Cardinality(C) + 1
      BY <2>3, <3>1
    <3>3. (IF this /\ act.cmd = c THEN 1 ELSE 0) = 1
      BY <2>4
    <3> QED
      BY <2>3, <3>2, <3>3 DEF C
  <2>5. CASE ~(this /\ act.cmd = c)
    <3>1. EvsWith(s, t, k, n + 1, c) = C
      BY <2>2, <2>5
    <3>2. Cardinality(C) = Cardinality(C) + 0
      BY <2>3
    <3>3. (IF this /\ act.cmd = c THEN 1 ELSE 0) = 0
      BY <2>5
    <3> QED
      BY <2>3, <3>1, <3>2, <3>3 DEF C
  <2> QED
    BY <2>4, <2>5
<1>6. O \in Nat
  <2>1. o[t] \in Seq(Records)
    BY DEF Lists
  <2> QED
    BY <2>1, IndexKeyFinds, FS_CardinalityType
<1> DEFINE A == Cardinality(EvsWith(s, t, k, n, "new"))
           B == Cardinality(EvsWith(s, t, k, n, "del"))
<1>7. CountOf(s, o, t, k, n) = O + A - B
  BY DEF CountOf, CmdNew
<1>8. CountOf(s, o, t, k, n + 1) = O + (A + (IF this /\ act.cmd = "new" THEN 1 ELSE 0))
                                     - (B + (IF this /\ act.cmd = "del" THEN 1 ELSE 0))
  BY <1>5 DEF CountOf, CmdNew
<1>9. A \in Nat /\ B \in Nat
  BY <1>5
<1> HIDE DEF this, O, A, B
<1>10. /\ CountOf(s, o, t, k, n) \in Int
       /\ CountOf(s, o, t, k, n + 1) =
              CountOf(s, o, t, k, n) + (IF this /\ act.cmd = "new" THEN 1 ELSE 0)
                  - (IF this /\ act.cmd = "del" THEN 1 ELSE 0)
  BY <1>6, <1>7, <1>8, <1>9
<1> QED
  BY <1>2, <1>10 DEF this, act

\* How an action changes where the records of each key are.
LEMMA PlacesNext ==
    ASSUME NEW list \in Seq(Records), NEW new \in Seq(Records), NEW act \in ArgActions,
           NEW rev \in Nat, NEW k \in Keys, NEW idx,
           act.cmd # "new" => idx \in Places(list, act.key),
           Changed(list, new, act, idx, rev)
    PROVE  /\ Cardinality(Places(list, k)) \in Nat
           /\ Cardinality(Places(new, k)) =
                  Cardinality(Places(list, k)) + (IF act.key = k /\ act.cmd = "new" THEN 1 ELSE 0)
                      - (IF act.key = k /\ act.cmd = "del" THEN 1 ELSE 0)
           /\ act.key # k => \A i \in Places(new, k) : \E j \in Places(list, k) : new[i].rev = list[j].rev
<1> DEFINE P == Places(list, k)
           Q == Places(new, k)
<1>1. /\ Len(list) \in Nat /\ DOMAIN list = 1..Len(list)
      /\ Len(new) \in Nat /\ DOMAIN new = 1..Len(new)
      /\ \A i \in 1..Len(list) : list[i] \in Records
      /\ act.cmd \in {"new", "mod", "del"}
  BY LenProperties, ElementOfSeq DEF ArgActions, Cmds, CmdNew
<1>2. IsFiniteSet(P) /\ Cardinality(P) \in Nat
  BY IndexKeyFinds, FS_CardinalityType
<1>3. /\ P = {i \in 1..Len(list) : list[i].key = k}
      /\ Q = {i \in 1..Len(new) : new[i].key = k}
  BY <1>1 DEF Places
<1>4. CASE act.cmd = "new"
  <2>1. /\ Len(new) = Len(list) + 1 /\ \A i \in 1..Len(list) : new[i] = list[i]
        /\ new[Len(list) + 1].key = act.key
    BY <1>4 DEF Changed
  <2>2. 1..Len(new) = 1..Len(list) \cup {Len(list) + 1} /\ Len(list) + 1 \notin 1..Len(list)
    BY <1>1, <2>1
  <2> HIDE DEF P, Q
  <2>3. Q = P \cup (IF act.key = k THEN {Len(list) + 1} ELSE {})
    BY <1>3, <2>1, <2>2
  <2>4. Len(list) + 1 \notin P /\ \A i \in P : new[i] = list[i]
    BY <1>3, <2>1, <2>2
  <2>5. Cardinality(P \cup {Len(list) + 1}) = Cardinality(P) + 1
    BY <1>2, <2>4, FS_AddElement
  <2>6. CASE act.key = k
    BY <1>2, <1>4, <2>3, <2>5, <2>6 DEF P, Q
  <2>7. CASE act.key # k
    <3>1. Q = P
      BY <2>3, <2>7
    <3> QED
      BY <1>2, <1>4, <2>4, <2>7, <3>1 DEF P, Q
  <2> QED
    BY <2>6, <2>7
<1>5. CASE act.cmd = "mod"
  <2>1. /\ Len(new) = Len(list)
        /\ \A i \in 1..Len(list) : new[i] = IF i = idx THEN [list[i] EXCEPT !.rev = rev] ELSE list[i]
    BY <1>5 DEF Changed
  <2>2. \A i \in 1..Len(list) : new[i].key = list[i].key
    BY <1>1, <2>1 DEF Records
  <2>3. list[idx].key = act.key
    BY <1>5 DEF Places
  <2> HIDE DEF P, Q
  <2>4. Q = P
    BY <1>3, <2>1, <2>2
  <2>5. ASSUME act.key # k, NEW i \in P PROVE new[i].rev = list[i].rev
    BY <1>3, <2>1, <2>3, <2>5
  <2>6. Cardinality(Q) = Cardinality(P) + 0 - 0
    BY <1>2, <2>4
  <2> QED
    BY <1>2, <1>5, <2>4, <2>5, <2>6 DEF P, Q
<1>6. CASE act.cmd = "del"
  <2>1. /\ Len(new) = Len(list) - 1
        /\ \A i \in 1..(Len(list) - 1) : new[i] = IF i < idx THEN list[i] ELSE list[i + 1]
    BY <1>6 DEF Changed
  <2>2. idx \in 1..Len(list) /\ list[idx].key = act.key
    BY <1>1, <1>6 DEF Places
  <2> DEFINE R == P \ {idx}
             at(i) == IF i < idx THEN i ELSE i + 1
             f == [i \in Q |-> at(i)]
  <2> HIDE DEF P, Q
  <2>3. \A i \in Q : i \in 1..(Len(list) - 1) /\ new[i] = list[at(i)] /\ at(i) \in 1..Len(list) /\ at(i) # idx
    BY <1>1, <1>3, <2>1, <2>2
  <2>4. \A i \in Q : at(i) \in R
    BY <1>3, <2>3
  <2>5. \A i, j \in Q : at(i) = at(j) => i = j
    BY <1>1, <2>2, <2>3
  <2>6. ASSUME NEW r \in R PROVE \E i \in Q : at(i) = r
    <3>1. r \in 1..Len(list) /\ r # idx /\ list[r].key = k
      BY <1>3
    <3>2. CASE r < idx
      <4>1. r \in 1..(Len(list) - 1) /\ at(r) = r
        BY <1>1, <2>2, <3>1, <3>2
      <4>2. new[r] = list[r]
        BY <2>1, <3>2, <4>1
      <4> QED
        BY <1>3, <2>1, <3>1, <4>1, <4>2
    <3>3. CASE r > idx
      <4>1. r - 1 \in 1..(Len(list) - 1) /\ at(r - 1) = r /\ ~(r - 1 < idx) /\ (r - 1) + 1 = r
        BY <1>1, <2>2, <3>1, <3>3
      <4>2. new[r - 1] = list[(r - 1) + 1]
        BY <2>1, <4>1
      <4> QED
        BY <1>3, <2>1, <3>1, <4>1, <4>2
    <3> QED
      BY <1>1, <2>2, <3>1, <3>2, <3>3
  <2> HIDE DEF R, at
  <2>7. f \in [Q -> R] /\ \A i \in Q : f[i] = at(i)
    BY <2>4
  <2> HIDE DEF f
  <2>8. f \in Bijection(Q, R)
    BY <2>5, <2>6, <2>7 DEF Bijection, Injection, Surjection, IsInjective
  <2>9. IsFiniteSet(Q)
    <3>1. IsFiniteSet(1..Len(new))
      BY <1>1, FS_Interval
    <3> QED
      BY <1>3, <3>1, FS_Subset
  <2>10. Cardinality(Q) = Cardinality(R)
    BY <2>8, <2>9, FS_Bijection DEF ExistsBijection
  <2>11. Cardinality(R) = IF idx \in P THEN Cardinality(P) - 1 ELSE Cardinality(P)
    BY <1>2, FS_RemoveElement DEF R
  <2>12. idx \in P <=> act.key = k
    BY <1>3, <2>2
  <2>13. \A i \in Q : at(i) \in P /\ new[i].rev = list[at(i)].rev
    BY <2>3, <2>4 DEF R
  <2> QED
    BY <1>2, <1>6, <2>10, <2>11, <2>12, <2>13 DEF P, Q
<1> QED
  BY <1>1, <1>4, <1>5, <1>6

\* Before any event the records are those the ledger was opened with.
LEMMA ToldNothing ==
    ASSUME NEW o \in Lists, NEW s
    PROVE  Told(s, o, o, 0)
<1> SUFFICES ASSUME NEW t \in Topics, NEW k \in Keys PROVE ToldOf(s, o, o, 0, t, k)
  BY DEF Told
<1> DEFINE O == Cardinality(Places(o[t], k))
<1>1. O \in Nat
  <2>1. o[t] \in Seq(Records)
    BY DEF Lists
  <2> QED
    BY <2>1, IndexKeyFinds, FS_CardinalityType
<1>2. EvsOf(s, t, k, 0) = {} /\ \A c : EvsWith(s, t, k, 0, c) = {}
  <2>1. 1..0 = {}
    OBVIOUS
  <2> QED
    BY <2>1 DEF EvsOf, EvsWith
<1>3. Cardinality({}) = 0
  BY FS_EmptySet
<1> HIDE DEF O
<1>4. CountOf(s, o, t, k, 0) = O
  <2>1. CountOf(s, o, t, k, 0) = O + 0 - 0
    BY <1>2, <1>3 DEF CountOf, O
  <2> QED
    BY <1>1, <2>1
<1> QED
  BY <1>2, <1>4 DEF ToldOf, LastOfKey, O

\* One event and its action keep the records told by the events.
LEMMA ToldNext ==
    ASSUME NEW s \in Seq(IdEvents), NEW n \in Nat, n + 1 \in 1..Len(s),
           NEW o \in Lists, NEW d \in Lists, NEW act \in ArgActions, NEW rev \in Nat,
           s[n + 1].act = act, s[n + 1].rev = rev, ~Fails(d, act), Told(s, o, d, n)
    PROVE  Told(s, o, ApplyEvent(d, act, rev), n + 1)
<1> DEFINE e == ApplyEvent(d, act, rev)
           top == act.top
           idx == IndexKey(d[top], act.key)
<1> SUFFICES ASSUME NEW t \in Topics, NEW k \in Keys PROVE ToldOf(s, o, e, n + 1, t, k)
  BY DEF Told
<1> DEFINE list == d[t]
           new == e[t]
           this == top = t /\ act.key = k
           A == CountOf(s, o, t, k, n)
           B == CountOf(s, o, t, k, n + 1)
<1>1. e \in Lists /\ top \in Topics /\ act.cmd \in {"new", "mod", "del"}
  BY ApplyType DEF ArgActions, Cmds, CmdNew
<1>2. list \in Seq(Records) /\ new \in Seq(Records)
  BY <1>1 DEF Lists
<1>3. /\ EvsOf(s, t, k, n + 1) = EvsOf(s, t, k, n) \cup (IF this THEN {n + 1} ELSE {})
      /\ A \in Int
      /\ B = A + (IF this /\ act.cmd = "new" THEN 1 ELSE 0)
               - (IF this /\ act.cmd = "del" THEN 1 ELSE 0)
  BY CountNext
<1>4. /\ Cardinality(Places(list, k)) = A
      /\ (\A m \in 0..n : CountOf(s, o, t, k, m) <= 1) =>
             \A i \in Places(list, k) : LastOfKey(s, o, t, k, n, list[i].rev)
  BY DEF Told, ToldOf
<1>5. /\ Changed(d[top], e[top], act, idx, rev)
      /\ \A u \in Topics \ {top} : e[u] = d[u]
      /\ act.cmd # "new" => idx \in 1..Len(d[top])
  BY ApplyEffect
<1>6. ASSUME ~this
      PROVE  ToldOf(s, o, e, n + 1, t, k)
  <2>1. EvsOf(s, t, k, n + 1) = EvsOf(s, t, k, n) /\ B = A
    <3>1. EvsOf(s, t, k, n + 1) = EvsOf(s, t, k, n)
      BY <1>3, <1>6
    <3>2. /\ (IF this /\ act.cmd = "new" THEN 1 ELSE 0) = 0
          /\ (IF this /\ act.cmd = "del" THEN 1 ELSE 0) = 0
      BY <1>6
    <3> HIDE DEF A, B
    <3>3. B = A + 0 - 0
      BY <1>3, <3>2
    <3> QED
      BY <1>3, <3>1, <3>3
  <2>2. /\ Cardinality(Places(new, k)) = Cardinality(Places(list, k))
        /\ \A i \in Places(new, k) : \E j \in Places(list, k) : new[i].rev = list[j].rev
    <3>1. CASE top # t
      <4>1. new = list
        BY <1>5, <3>1
      <4> QED
        BY <4>1
    <3>2. CASE top = t
      <4>1. act.key # k
        BY <1>6, <3>2
      <4>2. act.cmd # "new" => idx \in Places(list, act.key)
        <5>1. act.cmd # "new" => idx # 0
          BY DEF Fails, CmdNew
        <5>2. idx \in {0} \cup Places(list, act.key)
          BY <1>2, <3>2, IndexKeyFinds
        <5> QED
          BY <5>1, <5>2
      <4>3. Changed(list, new, act, idx, rev)
        BY <1>5, <3>2
      <4> HIDE DEF list, new, idx
      <4>4. /\ Cardinality(Places(list, k)) \in Nat
            /\ Cardinality(Places(new, k)) =
                   Cardinality(Places(list, k)) + (IF act.key = k /\ act.cmd = "new" THEN 1 ELSE 0)
                       - (IF act.key = k /\ act.cmd = "del" THEN 1 ELSE 0)
            /\ \A i \in Places(new, k) : \E j \in Places(list, k) : new[i].rev = list[j].rev
        BY <1>2, <4>1, <4>2, <4>3, PlacesNext
      <4> QED
        BY <4>1, <4>4
    <3> QED
      BY <3>1, <3>2
  <2>3. \A r : LastOfKey(s, o, t, k, n + 1, r) <=> LastOfKey(s, o, t, k, n, r)
    BY <2>1 DEF LastOfKey
  <2>4. (\A m \in 0..(n + 1) : CountOf(s, o, t, k, m) <= 1) => \A m \in 0..n : CountOf(s, o, t, k, m) <= 1
    OBVIOUS
  <2> HIDE DEF list, new
  <2>5. /\ Cardinality(Places(new, k)) = B
        /\ (\A m \in 0..(n + 1) : CountOf(s, o, t, k, m) <= 1) =>
               \A i \in Places(new, k) : LastOfKey(s, o, t, k, n + 1, new[i].rev)
    BY <1>4, <2>1, <2>2, <2>3, <2>4
  <2> QED
    BY <2>5 DEF ToldOf, new
<1>7. ASSUME this
      PROVE  ToldOf(s, o, e, n + 1, t, k)
  <2>1. act.cmd # "new" => idx \in Places(list, k)
    <3>1. act.cmd # "new" => idx # 0
      BY DEF Fails, CmdNew
    <3>2. idx \in {0} \cup Places(list, k)
      BY <1>2, <1>7, IndexKeyFinds
    <3> QED
      BY <3>1, <3>2
  <2>2. Changed(list, new, act, idx, rev) /\ act.key = k
    BY <1>5, <1>7
  <2> HIDE DEF list, new, idx
  <2>3. /\ Cardinality(Places(list, k)) \in Nat
        /\ Cardinality(Places(new, k)) =
               Cardinality(Places(list, k)) + (IF act.key = k /\ act.cmd = "new" THEN 1 ELSE 0)
                   - (IF act.key = k /\ act.cmd = "del" THEN 1 ELSE 0)
    BY <1>2, <2>1, <2>2, PlacesNext
  <2>4. Cardinality(Places(new, k)) = B
    BY <1>3, <1>4, <1>7, <2>2, <2>3
  <2>5. ASSUME \A m \in 0..(n + 1) : CountOf(s, o, t, k, m) <= 1, NEW i \in Places(new, k)
        PROVE  new[i].rev = rev
    <3>1. A <= 1 /\ B <= 1
      BY <2>5
    <3>2. /\ IsFiniteSet(Places(list, k)) /\ IsFiniteSet(Places(new, k))
          /\ Places(list, k) = {j \in 1..Len(list) : list[j].key = k}
          /\ Places(new, k) = {j \in 1..Len(new) : new[j].key = k}
          /\ Len(list) \in Nat
      BY <1>2, IndexKeyFinds, LenProperties DEF Places
    <3>3. CASE act.cmd = "new"
      <4>1. A = 0
        BY <1>3, <1>7, <2>3, <1>4, <3>1, <3>3
      <4>2. Places(list, k) = {}
        BY <1>4, <3>2, <4>1, FS_EmptySet
      <4>3. /\ Len(new) = Len(list) + 1 /\ \A j \in 1..Len(list) : new[j] = list[j]
            /\ new[Len(list) + 1].rev = rev
        BY <2>2, <3>3 DEF Changed
      <4>4. i = Len(list) + 1
        <5>1. i \in 1..Len(new) /\ new[i].key = k
          BY <3>2
        <5>2. i \in 1..Len(list) => FALSE
          BY <3>2, <4>2, <4>3, <5>1
        <5> QED
          BY <3>2, <4>3, <5>1, <5>2
      <4> QED
        BY <4>3, <4>4
    <3>4. CASE act.cmd = "mod"
      <4>1. /\ Len(new) = Len(list)
            /\ \A j \in 1..Len(list) : new[j] = IF j = idx THEN [list[j] EXCEPT !.rev = rev] ELSE list[j]
        BY <2>2, <3>4 DEF Changed
      <4>2. Cardinality(Places(new, k)) <= 1
        BY <2>4, <3>1
      <4>3. idx \in Places(new, k)
        <5>1. idx \in 1..Len(list) /\ list[idx].key = k /\ list[idx] \in Records
          BY <1>2, <2>1, <3>2, <3>4, ElementOfSeq
        <5> QED
          BY <3>2, <4>1, <5>1 DEF Records
      <4>4. i = idx
        <5>1. {i, idx} \in SUBSET Places(new, k)
          BY <4>3
        <5>2. i # idx => Cardinality({i, idx}) = 2
          BY PairSize
        <5>3. Cardinality({i, idx}) <= Cardinality(Places(new, k))
          BY <3>2, <5>1, FS_Subset
        <5>4. Cardinality(Places(new, k)) \in Nat
          BY <3>2, FS_CardinalityType
        <5> QED
          BY <4>2, <5>2, <5>3, <5>4
      <4>5. idx \in 1..Len(list) /\ list[idx] \in Records
        BY <1>2, <2>1, <3>2, <3>4, ElementOfSeq
      <4>6. new[idx] = [list[idx] EXCEPT !.rev = rev]
        BY <4>1, <4>5
      <4> QED
        BY <4>4, <4>5, <4>6 DEF Records
    <3>5. CASE act.cmd = "del"
      <4>1. B = A - 1
        BY <1>3, <1>7, <3>5
      <4>2. Cardinality(Places(new, k)) \in Nat
        BY <3>2, FS_CardinalityType
      <4>3. Cardinality(Places(new, k)) = 0
        BY <1>3, <2>4, <3>1, <4>1, <4>2
      <4>4. Places(new, k) = {}
        BY <3>2, <4>3, FS_EmptySet
      <4> QED
        BY <4>4
    <3> QED
      BY <1>1, <3>3, <3>4, <3>5
  <2>6. LastOfKey(s, o, t, k, n + 1, rev)
    <3>1. n + 1 \in EvsOf(s, t, k, n + 1)
      BY <1>3, <1>7
    <3>2. \A j \in EvsOf(s, t, k, n + 1) : j <= n + 1
      BY DEF EvsOf
    <3> QED
      BY <3>1, <3>2 DEF LastOfKey
  <2> QED
    BY <2>4, <2>5, <2>6 DEF ToldOf, new
<1> QED
  BY <1>6, <1>7

\* A whole transaction does, by induction over its actions.
LEMMA ToldKept ==
    ASSUME TypeOK, Told(evs, opened, data, Len(evs)),
           NEW acts \in Seq(ArgActions), NEW rev \in Nat, Kept(acts, rev)
    PROVE  Told(evs', opened, data', Len(evs'))
<1> DEFINE N == Len(evs)
           M == Len(acts)
           stages == Stages(acts, rev)
           u == evs'
           o == opened
<1>1. /\ stages \in [0..M -> Lists] /\ stages[0] = data
      /\ \A n \in 1..M : stages[n] = ApplyEvent(stages[n - 1], acts[n], rev)
  BY DataLists, StagesProperties
<1>2. /\ \A n \in 1..M : ~Fails(stages[n - 1], acts[n])
      /\ data' = stages[M] /\ Extended(acts, rev)
  BY DEF Kept
<1>3. /\ u \in Seq(IdEvents) /\ Len(u) = N + M
      /\ \A i \in 1..N : u[i] = evs[i]
      /\ \A i \in 1..M : u[N + i] = [id |-> N + i, act |-> acts[i], rev |-> rev]
  BY <1>2 DEF Extended
<1>4. N \in Nat /\ M \in Nat /\ \A i \in 1..M : acts[i] \in ArgActions
  BY LedgerNumbers, LenProperties, ElementOfSeq
<1>5. o \in Lists
  BY DataLists
<1>6. Told(evs, o, data, N)
  OBVIOUS
<1> HIDE DEF N, M, stages, u, o
<1> DEFINE S == {n \in Nat : n <= M => Told(u, o, stages[n], N + n)}
<1>7. 0 \in S
  <2>1. Told(u, o, data, N)
    BY <1>3, <1>4, <1>6, SamePrefix
  <2>2. N + 0 = N
    BY <1>4
  <2> QED
    BY <1>1, <2>1, <2>2
<1>8. ASSUME NEW n \in Nat, n \in S
      PROVE  n + 1 \in S
  <2>1. SUFFICES ASSUME n + 1 <= M PROVE Told(u, o, stages[n + 1], N + (n + 1))
    OBVIOUS
  <2>2. Told(u, o, stages[n], N + n)
    BY <1>4, <1>8, <2>1
  <2>3. n + 1 \in 1..M /\ n \in 0..M /\ (n + 1) - 1 = n
    BY <1>4, <2>1
  <2>4. /\ stages[n] \in Lists /\ acts[n + 1] \in ArgActions
        /\ ~Fails(stages[n], acts[n + 1])
        /\ stages[n + 1] = ApplyEvent(stages[n], acts[n + 1], rev)
        /\ u[N + (n + 1)] = [id |-> N + (n + 1), act |-> acts[n + 1], rev |-> rev]
    BY <1>1, <1>2, <1>3, <1>4, <2>3
  <2>5. N + n \in Nat /\ (N + n) + 1 = N + (n + 1) /\ (N + n) + 1 \in 1..Len(u)
    BY <1>3, <1>4, <2>3
  <2>6. u[(N + n) + 1].act = acts[n + 1] /\ u[(N + n) + 1].rev = rev
    BY <2>4, <2>5
  <2>7. Told(u, o, ApplyEvent(stages[n], acts[n + 1], rev), (N + n) + 1)
    BY <1>3, <1>5, <2>2, <2>4, <2>5, <2>6, ToldNext
  <2> QED
    BY <2>4, <2>5, <2>7
<1> HIDE DEF S
<1>9. M \in S
  BY <1>4, <1>7, <1>8, Induction
<1>10. Told(u, o, stages[M], N + M)
  BY <1>4, <1>9 DEF S
<1> QED
  BY <1>2, <1>3, <1>10 DEF u, o

LEMMA RecreatesStep == TypeOK /\ Recreates /\ [Next]_vars => Recreates'
<1> SUFFICES ASSUME TypeOK, Recreates, [Next]_vars PROVE Recreates'
  OBVIOUS
<1> DEFINE Now == panicked = 0 => Told(evs, opened, data, Len(evs))
           Then == panicked' = 0 => Told(evs', opened', data', Len(evs'))
<1>1. Recreates' <=> Then
  BY DEF Recreates, Count, EventsOf, LastRev, Told, ToldOf, CountOf, EvsWith, EvsOf, LastOfKey
<1>2. Now
  BY RecreatesTold
<1>3. CASE Open
  <2>1. evs' = << >> /\ opened' = data /\ data' = data /\ Len(<< >>) = 0 /\ 1..0 = {}
    BY <1>3, EmptySeq DEF Open
  <2>2. Told(<< >>, data, data, 0)
    BY DataLists, ToldNothing
  <2> QED
    BY <1>1, <2>1, <2>2
<1>4. ASSUME NEW acts \in Transs, NEW now \in Nows, Publish(acts, now)
      PROVE  Then
  <2>1. acts \in Seq(ArgActions) /\ Len(acts) \in Nat \ {0} /\ panicked = 0 /\ opened' = opened
    BY <1>4, PublishEffect
  <2>2. PICK rev \in Nat : Kept(acts, rev) \/ \E done \in Nat : Refused(acts, rev, done)
    BY <1>4, PublishEffect
  <2>3. CASE Kept(acts, rev)
    <3>1. Told(evs', opened, data', Len(evs'))
      BY <1>2, <2>1, <2>3, ToldKept
    <3> QED
      BY <2>1, <3>1
  <2>4. ASSUME NEW done \in Nat, Refused(acts, rev, done), panicked' = 0
        PROVE  Told(evs', opened', data', Len(evs'))
    <3>1. done = 0 /\ evs' = evs
      BY <2>4 DEF Refused
    <3>2. data' \in Lists /\ Alike(data', data) /\ data \in Lists
      BY <2>1, <2>4, <3>1, RefusedAlike, DataLists
    <3>3. Told(evs, opened, data', Len(evs))
      BY <1>2, <2>1, <3>2, AlikeTold
    <3> QED
      BY <2>1, <3>1, <3>3
  <2> QED
    BY <2>2, <2>3, <2>4
<1>5. CASE UNCHANGED vars
  BY <1>1, <1>2, <1>5 DEF vars
<1> QED
  BY <1>1, <1>3, <1>4, <1>5 DEF Next

\* The events since the ledger was opened recreate the records, for transactions
\* of every length and in every order: how many there are of a key, and of which
\* event its record is unless the key was used twice at once.
THEOREM EventsRecreate == Spec => []Recreates
<1>1. Init => Recreates
  <2> SUFFICES ASSUME Init PROVE Recreates
    OBVIOUS
  <2>1. evs = << >> /\ opened = data /\ Len(<< >>) = 0
    BY EmptySeq DEF Init
  <2>2. data \in Lists
    BY EmptySeq DEF Init, Lists
  <2>3. Told(<< >>, data, data, 0)
    BY <2>2, ToldNothing
  <2> QED
    BY <2>1, <2>3, RecreatesTold
<1> QED
  BY <1>1, RecreatesStep, MemTypes, PTL DEF Spec
=============================================================================

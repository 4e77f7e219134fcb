------------------------------ MODULE EvtMerge -------------------------------
(***************************************************************************)
(* Merge of package evt: one action in place of two that follow each other *)
(* on a record.  An argument is a list of fields with their values,        *)
(* lit.Delta being a slice as lit.Keyed is (lit_test.go:31): MergeDeltas   *)
(* therefore overwrites by position, and not by the name of the field.     *)
(***************************************************************************)
EXTENDS Integers, Sequences, SequencesExt

CONSTANTS ActSigs, \* signatures: the topic and the key of a record
          Fields,  \* fields of a record, besides its key
          Vals,    \* values of a field
          Zero     \* the zero value a new record begins with

\* Records have a field, or Absent would be one of them.
ASSUME MergeAssumption == Zero \notin Vals /\ Fields # {} /\ IsFiniteSet(Fields)

VARIABLES first, second   \* the two actions

mergeVars == <<first, second>>

Deltas  == {d \in UNION {[1..n -> [f : Fields, v : Vals]] : n \in 0..Cardinality(Fields)} :
               \A i, j \in DOMAIN d : d[i].f = d[j].f => i = j}
\* A command is any string: "other" is none of the three.
Actions == [sig : ActSigs, cmd : {"new", "mod"}, arg : Deltas]
           \cup [sig : ActSigs, cmd : {"del", "other"}, arg : {<< >>}]

MergeInit == first \in Actions /\ second \in Actions

Names(d) == [i \in DOMAIN d |-> d[i].f]

\* The outcomes besides an action: an error, and an index out of range.
Refused == [cmd |-> "error", arg |-> << >>]
Panics  == [cmd |-> "panic", arg |-> << >>]

\* One field of a dict: overwritten in its place, or added last.
SetKey(arg, kv) ==
    IF \E i \in DOMAIN arg : arg[i].f = kv.f
    THEN [i \in DOMAIN arg |-> IF arg[i].f = kv.f THEN kv ELSE arg[i]]
    ELSE Append(arg, kv)

\* lit.Apply on a dict: fields it has are overwritten, the others follow.
Applied(arg, d) ==
    LET set[n \in 0..Len(d)] == IF n = 0 THEN arg ELSE SetKey(set[n - 1], d[n])
    IN  set[Len(d)]

\* Mutant of MergeDeltas: the first delta stays as it is.
FirstDelta(a, b) == a

MergeDeltas(a, b) == [i \in DOMAIN a |-> IF i <= Len(b) THEN b[i] ELSE a[i]]

Merge(a, b) ==
    IF a.sig # b.sig THEN Refused
    ELSE CASE a.cmd = "del" /\ b.cmd = "new" -> [b EXCEPT !.cmd = "mod"]
           [] a.cmd = "new" /\ b.cmd = "mod" -> [a EXCEPT !.arg = Applied(a.arg, b.arg)]
           [] a.cmd = "mod" /\ b.cmd = "mod" ->
                  IF Len(b.arg) > Len(a.arg) THEN Panics
                  ELSE [a EXCEPT !.arg = MergeDeltas(a.arg, b.arg)]
           [] a.cmd \in {"new", "mod"} /\ b.cmd = "del" -> b
           [] OTHER -> Refused

-----------------------------------------------------------------------------
(* What an action does to a record: the reference. *)

Absent  == [f \in {} |-> Zero]
Records == [Fields -> Vals \cup {Zero}]

\* Only what is not there can be new, and an unknown command does nothing.
Fits(a, r) == a.cmd \in (IF r = Absent THEN {"new"} ELSE {"mod", "del"})

Written(r, d) ==
    [f \in Fields |-> IF \E i \in DOMAIN d : d[i].f = f
                      THEN d[CHOOSE i \in DOMAIN d : d[i].f = f].v ELSE r[f]]

\* The record after action a; one that does not fit leaves it as it is.
After(a, r) ==
    CASE ~Fits(a, r)   -> r
      [] a.cmd = "new" -> Written([f \in Fields |-> Zero], a.arg)
      [] a.cmd = "mod" -> Written(r, a.arg)
      [] a.cmd = "del" -> Absent

\* Both actions are on one record and fit one after the other, from r on.
Follow(a, b, r) == a.sig = b.sig /\ Fits(a, r) /\ Fits(b, After(a, r))

\* The pairs Merge is right for: by position a second delta must name the
\* fields the first begins with, and a record that is recreated must name all
\* fields (the TODO at evt.go:41).
Mergeable(a, b) ==
    CASE a.cmd = "mod" /\ b.cmd = "mod" -> IsPrefix(Names(b.arg), Names(a.arg))
      [] a.cmd = "del" /\ b.cmd = "new" -> ToSet(Names(b.arg)) = Fields
      [] OTHER -> TRUE

\* Merge refuses exactly the pairs that can not follow each other, and what it
\* returns for a mergeable pair is on the same record and does to it what the
\* two actions do, whatever it held.
MergeFaithful ==
    LET m == Merge(first, second)
        from == {r \in Records \cup {Absent} : Follow(first, second, r)}
    IN  /\ m = Refused <=> from = {}
        /\ Mergeable(first, second) =>
              \A r \in from : /\ m.sig = first.sig
                              /\ After(m, r) = After(second, After(first, r))
=============================================================================

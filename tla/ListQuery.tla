----------------------------- MODULE ListQuery ------------------------------
(***************************************************************************)
(* A query on a list of records (qry): the selection, order and bounds are *)
(* resolved (spec.go, sel.go) and the list is filtered, projected, ordered *)
(* and cut (lit.go).  The rows are shared with the backend, and so is the  *)
(* list itself when the query has no condition.                            *)
(*                                                                         *)
(* A field's value is a number.  An expression in a selection stands for   *)
(* any value computed from the row; here its values run against those of   *)
(* the first field.  Conditions and values do not fail.                    *)
(***************************************************************************)
EXTENDS FiniteSets, SequencesExt, Lists

CONSTANTS SubjKeys,   \* the keys of the subject's fields, in order
          FieldVals,  \* values of a field
          MaxRows,    \* bound on the rows of the list
          Queries     \* the queries asked

ASSUME ListQueryAssumption ==
    /\ SubjKeys \in Seq(STRING \ {""}) /\ SubjKeys # << >> /\ IsInjective(SubjKeys)
    /\ FieldVals \subseteq Int /\ MaxRows \in Nat

ASSUME QueriesAssumption ==
    \A q \in Queries :
        /\ q.kind \in {"#", "?", "*"} /\ q.bare \in BOOLEAN /\ q.off \in Int /\ q.lim \in Int
        /\ q.decls \in Seq([mark : {"", "+", "-", "_"}, key : STRING, exp : BOOLEAN])
        /\ q.ords \in Seq([key : STRING, desc : BOOLEAN])

VARIABLES list,    \* the backend's list
          before,  \* the list as the query found it
          query,   \* the query
          answer   \* what it was answered
queryVars == <<list, before, query, answer>>

Row == [ToSet(SubjKeys) -> FieldVals]
Err == [err |-> TRUE]
Waiting == [waiting |-> TRUE]

ListQueryInit ==
    /\ list \in UNION {[1..n -> Row] : n \in 0..MaxRows} /\ before = list
    /\ query = Waiting /\ answer = Waiting

-----------------------------------------------------------------------------
(* The selection: a sequence of declarations, each a mark "+", "-" or "_", *)
(* a key ("" for none), or a key marked "+" or "-", and with or without an *)
(* expression.                                                             *)

Field(key, exp) == [key |-> key, exp |-> exp]

SubjFields == [i \in DOMAIN SubjKeys |-> Field(SubjKeys[i], FALSE)]

Keyed(fs) == {fs[i].key : i \in DOMAIN fs}

\* A field replaces the one with its key.
With(fs, f) ==
    IF f.key \in Keyed(fs) THEN [i \in DOMAIN fs |-> IF fs[i].key = f.key THEN f ELSE fs[i]]
    ELSE Append(fs, f)

Without(fs, key) == Only(fs, {f \in ToSet(fs) : f.key # key})

\* One declaration; a mark holds until the next one, and before the first a key does
\* nothing.
Declare(s, d) ==
    LET mode == IF d.mark = "" THEN s.mode ELSE d.mark
        unnamed == d.key = "" /\ (d.mark = "" \/ d.exp)
    IN  IF s = Err \/ unnamed \/ (d.exp /\ mode = "-") THEN Err
        ELSE IF d.mark = "_" THEN [mode |-> "+", fs |-> << >>]
        ELSE IF d.key = "" \/ mode = "" THEN [s EXCEPT !.mode = mode]
        ELSE IF mode = "-" THEN [mode |-> mode, fs |-> Without(s.fs, d.key)]
        ELSE IF ~d.exp /\ d.key \notin ToSet(SubjKeys) THEN Err
        ELSE [mode |-> mode, fs |-> With(s.fs, Field(d.key, d.exp))]

\* reslSel; "_" with an expression (bare) ends the list and selects only that.
ReslSel(ds, bare) ==
    LET upto[n \in 0..Len(ds)] ==
            IF n = 0 THEN [mode |-> "", fs |-> SubjFields] ELSE Declare(upto[n - 1], ds[n])
        s == upto[Len(ds)]
    IN  IF s = Err THEN Err
        ELSE IF bare THEN [fs |-> <<Field("_", TRUE)>>] ELSE [fs |-> s.fs]

\* evalOrd: a selected field comes before the subject's field of that key.
EvalOrd(fs, ord) == [key |-> ord.key, desc |-> ord.desc, subj |-> ord.key \notin Keyed(fs)]

OrdFails(fs, ords) ==
    \E i \in DOMAIN ords : ords[i].key \notin Keyed(fs) \cup ToSet(SubjKeys)

-----------------------------------------------------------------------------
(* The list. *)

Computed(row) == 0 - row[SubjKeys[1]]

\* Without a field the row itself is listed.
Projected(row, fs) ==
    IF fs = << >> THEN row ELSE
    [k \in Keyed(fs) |-> IF Field(k, TRUE) \in ToSet(fs) THEN Computed(row) ELSE row[k]]

Filter(row, whr) == whr = << >> \/ row[whr.key] = whr.val

\* orderFunc for rows i and j of the projected rows sel and their subjects subj.
OrderFunc(sel, subj, i, j, ords) ==
    LET value(ord, n) == IF ord.subj THEN subj[n][ord.key] ELSE sel[n][ord.key]
        less[n \in DOMAIN ords] ==
            LET a == value(ords[n], i) b == value(ords[n], j)
            IN  IF a = b /\ n < Len(ords) THEN less[n + 1]
                ELSE IF ords[n].desc THEN a > b ELSE a < b
    IN  less[1]

\* orderResult: the stable order of the rows, as their places before.
OrderResult(sel, subj, ords) ==
    LET less(i, j) == OrderFunc(sel, subj, i, j, ords)
    IN  IF ords = << >> THEN [i \in DOMAIN sel |-> i]
        ELSE CHOOSE perm \in Bijection(DOMAIN sel, DOMAIN sel) :
                 \A n, m \in DOMAIN sel : n < m =>
                     less(perm[n], perm[m]) \/ (perm[n] < perm[m] /\ ~less(perm[m], perm[n]))

\* Mutant of Cut: the limit counts the rows that are skipped.
CutFirst(res, off, lim) ==
    LET some == IF lim > 0 /\ Len(res) > lim THEN SubSeq(res, 1, lim) ELSE res
    IN  IF off > 0 THEN SubSeq(some, off + 1, Len(some)) ELSE some

\* From off on, at most lim; only what is above zero is a bound.
Cut(res, off, lim) ==
    LET rest == IF off > 0 THEN SubSeq(res, off + 1, Len(res)) ELSE res
    IN  IF lim > 0 /\ Len(rest) > lim THEN SubSeq(rest, 1, lim) ELSE rest

CollectCount(n, off, lim) ==
    LET rest == IF off <= 0 THEN n ELSE IF n > off THEN n - off ELSE 0
    IN  IF lim > 0 /\ rest > lim THEN lim ELSE rest

\* Resolves the query and executes it.  Without a condition the list itself is
\* what is swapped along with the result.
Exec(q) ==
    LET sel  == ReslSel(q.decls, q.bare)
        org  == Only(list, {row \in Row : Filter(row, q.whr)})
        res  == [i \in DOMAIN org |-> Projected(org[i], sel.fs)]
        ords == [i \in DOMAIN q.ords |-> EvalOrd(sel.fs, q.ords[i])]
        perm == OrderResult(res, org, ords)
        cut  == Cut([i \in DOMAIN perm |-> res[perm[i]]], q.off, q.lim)
        swaps == q.kind # "#" /\ q.whr = << >>
    IN  /\ query' = q /\ before' = list
        /\ IF sel = Err \/ OrdFails(sel.fs, q.ords)
           THEN answer' = Err /\ list' = list
           ELSE /\ answer' = IF q.kind = "#"
                             THEN [count |-> CollectCount(Len(org), q.off, q.lim)]
                             ELSE [rows |-> IF q.kind = "?" /\ cut # << >> THEN <<cut[1]>>
                                         ELSE cut]
                /\ list' = IF swaps THEN [i \in DOMAIN perm |-> list[perm[i]]] ELSE list

\* One query for each list; it leaves one of the lists it may find.
ListQueryNext == answer = Waiting /\ \E q \in Queries : Exec(q)

-----------------------------------------------------------------------------
(* What a query asks for, read from the query as a whole.                  *)

\* The last place before i where a key was marked, or the list cleared.
Mark(ds, i) ==
    LET marks == {j \in 1..i : ds[j].mark # ""}
    IN  IF marks = {} THEN "" ELSE ds[CHOOSE j \in marks : \A k \in marks : k <= j].mark

\* The places where key k is mentioned with a mark, after the list was cleared last.
Mentions(ds, k) ==
    {i \in DOMAIN ds : /\ ds[i].key = k /\ Mark(ds, i) # ""
                       /\ \A j \in i..Len(ds) : ds[j].mark # "_"}

Cleared(ds) == \E i \in DOMAIN ds : ds[i].mark = "_"

\* The last mention of a key decides whether and how it is selected.
Asked(ds, k) ==
    LET is == Mentions(ds, k)
        last == CHOOSE i \in is : \A j \in is : j <= i
    IN  IF is = {} THEN IF ~Cleared(ds) /\ k \in ToSet(SubjKeys) THEN "field" ELSE "no"
        ELSE IF Mark(ds, last) = "-" THEN "no"
        ELSE IF ds[last].exp THEN "exp" ELSE "field"

AskedKeys(q) ==
    IF q.bare THEN {"_"}
    ELSE {k \in ToSet(SubjKeys) \cup {q.decls[i].key : i \in DOMAIN q.decls} :
              k # "" /\ Asked(q.decls, k) # "no"}

\* The keys of a row, each with the value of the selected field or else the row's.
ValuesOf(q, keys, row) ==
    [k \in keys \cup ToSet(SubjKeys) |->
        IF k \in keys /\ (q.bare \/ Asked(q.decls, k) = "exp") THEN Computed(row) ELSE row[k]]

\* Row i comes before row j: at the first key in which they differ, or as they
\* were; v is the values of the rows.
Precedes(ords, v, i, j) ==
    \/ \E n \in DOMAIN ords :
          /\ \A m \in 1..(n - 1) : v[i][ords[m].key] = v[j][ords[m].key]
          /\ IF ords[n].desc THEN v[i][ords[n].key] > v[j][ords[n].key]
             ELSE v[i][ords[n].key] < v[j][ords[n].key]
    \/ i < j /\ \A n \in DOMAIN ords : v[i][ords[n].key] = v[j][ords[n].key]

\* The rows a query skips.
Skipped(q) == IF q.off > 0 THEN q.off ELSE 0

\* A query that is answered at all gets the rows that match, each with the fields
\* its declarations come down to, or whole when that is none, in the stable order of
\* all its keys, less those skipped and those beyond the limit; a single row is the
\* first of them, and a count is their number.
\* The backend's list keeps its rows, and their order unless the query orders
\* without a condition.
QueryAnswers ==
    answer \notin {Waiting, Err} =>
        LET q == query
            matches == {i \in DOMAIN before : Filter(before[i], q.whr)}
            keys == AskedKeys(q)
            v    == [i \in DOMAIN before |-> ValuesOf(q, keys, before[i])]
            rank == [i \in matches |->
                        Cardinality({j \in matches : Precedes(q.ords, v, j, i)}) + 1]
            rest == Cardinality(matches) - Skipped(q)
            upto == IF q.kind = "?" THEN 1 ELSE IF q.lim > 0 THEN q.lim ELSE rest
            size == IF rest <= 0 THEN 0 ELSE IF rest < upto THEN rest ELSE upto
            shown(r, i) == r = IF keys = {} THEN before[i] ELSE [k \in keys |-> v[i][k]]
            at(n) == CHOOSE i \in matches : rank[i] = n + Skipped(q)
        IN  /\ IF q.kind = "#" THEN answer.count = size
               ELSE /\ Len(answer.rows) = size
                    /\ \A n \in 1..size : shown(answer.rows[n], at(n))
            /\ \E p \in Bijection(DOMAIN before, DOMAIN before) :
                  list = [i \in DOMAIN before |-> before[p[i]]]
            /\ q.whr # << >> \/ q.ords = << >> => list = before
=============================================================================

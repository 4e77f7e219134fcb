---------------------------- MODULE MCAlgorithms -----------------------------
(***************************************************************************)
(* Runs the algorithms and the components without goroutines of their own  *)
(* over bounded inputs.  Each behaviour follows one of them; the others    *)
(* stay where they begin.                                                  *)
(***************************************************************************)
EXTENDS UnsubLoop, SigsToWatch, EvtMerge, RulePolicy, TokenDays,
        MigHistory, Backups, Sessions, ListQuery, Relations

VARIABLE part    \* the one a behaviour follows

sequentialVars == <<unsubVars, sigsVars, mergeVars, rules, daysVars>>
vars == <<part, sequentialVars, historyVars, backupVars, sesVars, queryVars, relVars>>

None == CHOOSE a \in Actions : a.cmd = "del"

-----------------------------------------------------------------------------
CONSTANTS user, admin, topic, read, write

\* Permits and denies of a single bit on a topic and on any topic for every
\* role, and one role that is in another's group.
MCRules ==
    [perm : {"+", "-"}, op : {{read}, {write}}, top : {topic, "*"}, role : {user, admin, "*"}]
        \cup {[perm |-> "@", op |-> {}, top |-> admin, role |-> user]}

\* A schema with two models; definitions that differ in the content of either
\* number.
MCNodes    == <<"_", "s", "s.a", "s.b">>
MCContents == {<<0, 0>>, <<0, 1>>, <<1, 0>>}

MCReaders == <<"header", "cookie">>

-----------------------------------------------------------------------------
(* Queries on rows of two fields: every selection of up to three           *)
(* declarations on one of them and on a new key, and every order by both   *)
(* with and without a condition, a computed field and bounds.              *)

MCKeys == <<"a", "b">>

Decl(m, k, e) == [mark |-> m, key |-> k, exp |-> e]
Marks == {Decl(m, "", FALSE) : m \in {"+", "-", "_"}}
DeclTokens ==
    Marks \cup {Decl("", k, e) : k \in {"a", "x"}, e \in BOOLEAN}
          \cup {Decl("-", k, FALSE) : k \in {"a", "x"}}
MCDecls == UNION {[1..n -> DeclTokens] : n \in 0..3}
MCComputed == <<Decl("_", "", FALSE), Decl("", "b", TRUE)>>

Orders  == [key : {"a", "b"}, desc : BOOLEAN]
AscA    == <<[key |-> "a", desc |-> FALSE]>>
OneKey  == {<< >>, <<[key |-> "x", desc |-> FALSE]>>} \cup {<<o>> : o \in Orders}
TwoKeys == {<<o, p>> : o \in Orders, p \in Orders}
Wheres  == {<< >>, [key |-> "a", val |-> 0]}

Query(kind, whr, decls, bare, ords, off, lim) ==
    [kind |-> kind, whr |-> whr, decls |-> decls, bare |-> bare, ords |-> ords,
     off |-> off, lim |-> lim]

MCQueries ==
    {Query("*", << >>, ds, FALSE, AscA, 0, 0) : ds \in MCDecls}
    \cup {Query("*", << >>, << >>, TRUE, os, 0, 0) : os \in OneKey}
    \cup {Query("*", w, ds, FALSE, os, n, n) :
             w \in Wheres, ds \in {<< >>, MCComputed}, os \in OneKey \cup TwoKeys, n \in 0..1}
    \cup {Query(k, w, << >>, FALSE, os, off, lim) :
             k \in {"#", "?"}, w \in Wheres, os \in OneKey, off \in -1..2, lim \in -1..2}

-----------------------------------------------------------------------------
\* Three models in two schemas, one of them an object or not, that refer to each
\* other and to themselves, embed each other, and refer to one that is missing.
MCProjects ==
    LET f(how, ref, uniq) == [how |-> how, ref |-> ref, uniq |-> uniq]
        fields == {f("refers", <<"x">>, FALSE), f("refers", <<".">>, TRUE),
                   f("refers", <<"t", "y">>, FALSE), f("embeds", <<"t", "y">>, FALSE),
                   f("embeds many", <<"s", "x">>, FALSE), f("none", <<".">>, FALSE)}
        upto(n) == UNION {[1..k -> fields] : k \in 0..n}
        model(s, m, obj, fs) == [id |-> <<s, m>>, obj |-> obj, fields |-> fs]
    IN  {<<model("s", "w", TRUE, a), model("s", "x", obj, b), model("t", "y", TRUE, c)>> :
            a \in upto(2) \cup {<<f("refers", <<"z">>, FALSE)>>},
            b \in upto(1), c \in upto(1), obj \in BOOLEAN}

-----------------------------------------------------------------------------
Init ==
    /\ part \in {"Unsub", "sigsToWatch", "Merge", "RulePolicy", "Validate",
                 "History", "Dataset", "Manager", "Query", "Relate"}
    /\ (IF part = "Unsub" THEN TRUE ELSE subs = << >> /\ req = << >>) /\ UnsubInit
    /\ SigsInit
    /\ (IF part = "Merge" THEN TRUE ELSE first = None /\ second = None) /\ MergeInit
    /\ PolInit
    /\ (IF part = "Validate" THEN TRUE ELSE made = 0 /\ now = 0 /\ timeout = 0) /\ DaysInit
    /\ (IF part = "History" THEN TRUE ELSE defn = << >>) /\ HistoryInit
    /\ IF part = "Dataset" THEN BackupInit
       ELSE /\ places = [p \in Paths |-> Nothing]
            /\ wrote = [p \in Paths |-> Unwritten] /\ writes = 0
    /\ (IF part = "Manager" THEN TRUE ELSE codecs = <<CHOOSE c \in Codecs : TRUE>>) /\ SesInit
    /\ (IF part = "Query" THEN TRUE ELSE list = << >>) /\ ListQueryInit
    /\ IF part = "Relate" THEN RelationsInit ELSE project = << >> /\ rels = << >> /\ todo = {}

Next ==
    \/ /\ part = "Unsub"
       /\ UnsubNext
       /\ UNCHANGED <<part, sigsVars, mergeVars, rules, daysVars>>
       /\ UNCHANGED <<historyVars, backupVars, sesVars, queryVars, relVars>>
    \/ /\ part = "sigsToWatch"
       /\ SigsNext
       /\ UNCHANGED <<part, unsubVars, mergeVars, rules, daysVars>>
       /\ UNCHANGED <<historyVars, backupVars, sesVars, queryVars, relVars>>
    \/ /\ part = "RulePolicy"
       /\ PolNext
       /\ UNCHANGED <<part, unsubVars, sigsVars, mergeVars, daysVars>>
       /\ UNCHANGED <<historyVars, backupVars, sesVars, queryVars, relVars>>
    \/ /\ part = "History"
       /\ HistoryNext
       /\ UNCHANGED <<part, sequentialVars, backupVars, sesVars, queryVars, relVars>>
    \/ /\ part = "Dataset"
       /\ BackupNext
       /\ UNCHANGED <<part, sequentialVars, historyVars, sesVars, queryVars, relVars>>
    \/ /\ part = "Manager"
       /\ SesNext
       /\ UNCHANGED <<part, sequentialVars, historyVars, backupVars, queryVars, relVars>>
    \/ /\ part = "Query"
       /\ ListQueryNext
       /\ UNCHANGED <<part, sequentialVars, historyVars, backupVars, sesVars, relVars>>
    \/ /\ part = "Relate"
       /\ RelationsNext
       /\ UNCHANGED <<part, sequentialVars, historyVars, backupVars, sesVars, queryVars>>

Spec == Init /\ [][Next]_vars
=============================================================================

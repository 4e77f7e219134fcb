----------------------------- MODULE MigHistory ------------------------------
(***************************************************************************)
(* The recorded history of a project (mig): the versions a manifest gives  *)
(* the project, its schema and its models (versioner.go), and the history  *)
(* folder a commit writes file by file and ReadHistory reads (history.go). *)
(*                                                                         *)
(* What is hashed for a model is a pair of contents, one for the minor and *)
(* one for the patch number; hashes are taken to differ when contents do.  *)
(* A version is its minor and patch number.  The program may be stopped    *)
(* between any two writes, and each run of it commits at most once.        *)
(***************************************************************************)
EXTENDS Integers, FiniteSets, SequencesExt

CONSTANTS Nodes,      \* the project "_", its schema and the models, in manifest order
          Contents,   \* what a model's definition can be: a pair of contents
          MaxCommits, \* bound on the commits begun
          Base        \* numbers are written in this base (10)

ASSUME HistoryAssumption ==
    /\ Nodes \in Seq(ToSet(Nodes)) /\ Len(Nodes) >= 2 /\ IsInjective(Nodes)
    /\ MaxCommits \in Nat /\ Base \in Nat \ {0, 1} /\ MaxCommits < Base * Base

VARIABLES defn,    \* the project definition: models -> content
          mfile,   \* the folder's manifest.json; <<>> when it has no version
          folder,  \* the record folders: their manifest.json.gz and project.json.gz
          opened,  \* what ReadHistory returned: the manifest of the current project
          step,    \* where the program is
          begun,   \* commits begun
          commits, \* the commits that were completed: manifest and definition
          cut      \* a commit was interrupted when there were record folders
historyVars == <<defn, mfile, folder, opened, step, begun, commits, cut>>

Project == Nodes[1]
Schema  == Nodes[2]
Models  == ToSet(Nodes) \ {Project, Schema}
NoFile  == [none |-> 0]
Torn    == [torn |-> 0]

HistoryInit ==
    /\ defn \in UNION {[ms -> Contents] : ms \in SUBSET Models}
    /\ mfile = NoFile /\ folder = {} /\ opened = << >> /\ step = "closed"
    /\ begun = 0 /\ commits = << >> /\ cut = FALSE

-----------------------------------------------------------------------------
(* Versions. *)

Digits(n) == IF n < Base THEN <<n>> ELSE <<n \div Base, n % Base>>

\* The version as it is written: the dot sorts before the digits.
VersText(v) == Digits(v[1]) \o <<-1>> \o Digits(v[2])

\* Mutant of VersBefore: the order is reversed.
VersAfter(v, w) ==
    LET a == VersText(v) b == VersText(w)
    IN  IsStrictPrefix(b, a) \/ \E i \in DOMAIN a \cap DOMAIN b :
            b[i] < a[i] /\ \A j \in 1..(i - 1) : a[j] = b[j]

\* Versions are sorted as strings.
VersBefore(v, w) ==
    LET a == VersText(v) b == VersText(w)
    IN  IsStrictPrefix(a, b) \/ \E i \in DOMAIN a \cap DOMAIN b :
            a[i] < b[i] /\ \A j \in 1..(i - 1) : a[j] = b[j]

\* What Version hashes for a node; a node with children hashes what was hashed
\* for them.
Hashed(d, n) ==
    IF n \in Models THEN [min |-> d[n][1], pat |-> d[n][2]]
    ELSE [min |-> [m \in DOMAIN d |-> d[m][1]], pat |-> [m \in DOMAIN d |-> d[m][2]]]

Visited(d) == {Project, Schema} \cup DOMAIN d

\* Version, with the entry of the last manifest if it has one.
Version(mf, d, n) ==
    LET h   == Hashed(d, n)
        new(v) == [vers |-> v, min |-> h.min, pat |-> h.pat, date |-> 0]
        old == mf[n]
    IN  IF n \notin DOMAIN mf THEN new(<<0, 1>>)
        ELSE IF h.min # old.min THEN new(<<old.vers[1] + 1, 0>>)
        ELSE IF h.pat # old.pat THEN new(<<old.vers[1], old.vers[2] + 1>>)
        ELSE old

\* Mutant of UpdatedManifest: nodes that are gone are left out.
CurrentOnly(mf, d) == [n \in Visited(d) |-> Version(mf, d, n)]

\* Manifest.Update: the manifest keeps the entries of nodes that are gone.
UpdatedManifest(mf, d) ==
    [n \in DOMAIN mf \cup Visited(d) |-> IF n \in Visited(d) THEN Version(mf, d, n) ELSE mf[n]]

\* Commit dates the versions that the last record does not have.
Dated(mf, last, now) ==
    [n \in DOMAIN mf |->
        IF n \in DOMAIN last /\ last[n].vers = mf[n].vers THEN mf[n]
        ELSE [mf[n] EXCEPT !.date = now]]

-----------------------------------------------------------------------------
(* ReadHistory. *)

\* The manifests of the records in the order Versions lists them.
Sorted(recs) ==
    LET mfs == {r.mf : r \in recs}
    IN  CHOOSE list \in [1..Cardinality(mfs) -> mfs] :
            \A i, j \in 1..Cardinality(mfs) : i < j =>
                list[i] # list[j] /\ ~VersBefore(list[j][Project].vers, list[i][Project].vers)

\* The last in that order.
LastOf(recs) ==
    LET mfs == {r.mf : r \in recs}
    IN  IF recs = {} THEN << >>
        ELSE CHOOSE m \in mfs : \A o \in mfs : ~VersBefore(m[Project].vers, o[Project].vers)

\* ReadHistory returns no error: every record has its manifest, and the last one
\* is at the version of manifest.json.  Without that file, or with an empty one,
\* it looks for the project's version in an empty manifest and panics.
Readable ==
    /\ \A r \in folder : r.mf \notin {NoFile, Torn}
    /\ folder # {} => /\ mfile \notin {NoFile, << >>}
                      /\ mfile[Project].vers = LastOf(folder)[Project].vers

Open ==
    /\ step = "closed" /\ Readable
    /\ opened' = UpdatedManifest(IF mfile = NoFile THEN << >> ELSE mfile, defn)
    /\ step' = "open"
    /\ UNCHANGED <<defn, mfile, folder, begun, commits, cut>>

\* The project file is edited: a model is added, changed or removed.
Edit ==
    /\ step = "closed" /\ begun < MaxCommits
    /\ \E m \in Models :
          \/ \E c \in Contents :
                defn' = [n \in DOMAIN defn \cup {m} |-> IF n = m THEN c ELSE defn[n]]
          \/ defn' = [n \in DOMAIN defn \ {m} |-> defn[n]]
    /\ UNCHANGED <<mfile, folder, opened, step, begun, commits, cut>>

-----------------------------------------------------------------------------
(* Commit. *)

\* ErrNoChanges is returned when the version is the last record's; otherwise
\* manifest.json is truncated first.
Commit ==
    LET last == LastOf(folder)
    IN  /\ step = "open" /\ begun < MaxCommits
        /\ last # << >> => opened[Project].vers # last[Project].vers
        /\ opened' = Dated(opened, last, Len(commits) + 1)
        /\ mfile' = << >>
        /\ step' = "manifest" /\ begun' = begun + 1
        /\ UNCHANGED <<defn, folder, commits, cut>>

\* WriteTo writes one version at a time.
WriteVersion ==
    /\ step = "manifest" /\ mfile # opened
    /\ \E i \in DOMAIN Nodes :
          /\ Nodes[i] \in DOMAIN opened \ DOMAIN mfile
          /\ \A j \in 1..(i - 1) : Nodes[j] \in DOMAIN opened => Nodes[j] \in DOMAIN mfile
          /\ mfile' = [n \in DOMAIN mfile \cup {Nodes[i]} |-> opened[n]]
    /\ UNCHANGED <<defn, folder, opened, step, begun, commits, cut>>

MakeRecord ==
    /\ step = "manifest" /\ mfile = opened
    /\ folder' = folder \cup {[mf |-> NoFile, project |-> FALSE]}
    /\ step' = "folder"
    /\ UNCHANGED <<defn, mfile, opened, begun, commits, cut>>

\* A gzipped file is empty until it is closed.
TruncateManifest ==
    /\ step = "folder"
    /\ folder' = (folder \ {[mf |-> NoFile, project |-> FALSE]})
                     \cup {[mf |-> Torn, project |-> FALSE]}
    /\ step' = "record"
    /\ UNCHANGED <<defn, mfile, opened, begun, commits, cut>>

WriteManifest ==
    /\ step = "record"
    /\ folder' = (folder \ {[mf |-> Torn, project |-> FALSE]})
                     \cup {[mf |-> opened, project |-> FALSE]}
    /\ step' = "project"
    /\ UNCHANGED <<defn, mfile, opened, begun, commits, cut>>

WriteProject ==
    /\ step = "project"
    /\ folder' = (folder \ {[mf |-> opened, project |-> FALSE]})
                     \cup {[mf |-> opened, project |-> TRUE]}
    /\ commits' = Append(commits, [mf |-> opened, defn |-> defn])
    /\ step' = "closed" /\ opened' = << >>
    /\ UNCHANGED <<defn, mfile, begun, cut>>

\* The program ends, in the middle of a commit or without one.  The first commit
\* leaves nothing but manifest.json before it makes its record.
Stops ==
    /\ step # "closed"
    /\ step' = "closed" /\ opened' = << >>
    /\ cut' = (cut \/ (step # "open" /\ folder # {}))
    /\ UNCHANGED <<defn, mfile, folder, begun, commits>>

HistoryNext ==
    \/ Open \/ Edit \/ Commit \/ WriteVersion \/ MakeRecord \/ TruncateManifest
    \/ WriteManifest \/ WriteProject \/ Stops

-----------------------------------------------------------------------------
NumLess(v, w) == v[1] < w[1] \/ (v[1] = w[1] /\ v[2] < w[2])

\* A version stands for one definition, for ever: what two records give the same
\* version of a node is the same and has the same date, what differs has a later
\* version in the later record, through removals and returns of the node, and
\* each record's versions are those of the definition it was made of.
VersionsIdentify ==
    \A j \in DOMAIN commits : \A n \in Visited(commits[j].defn) :
        /\ commits[j].mf[n].min = Hashed(commits[j].defn, n).min
        /\ commits[j].mf[n].pat = Hashed(commits[j].defn, n).pat
        /\ \A i \in 1..(j - 1) :
              LET a == commits[i].mf b == commits[j].mf
              IN  n \in DOMAIN a => a[n] = b[n] \/ NumLess(a[n].vers, b[n].vers)

\* No number of a project's version has more digits than an earlier one it is
\* compared with (history.go:99-101): the minor numbers, and the patch numbers of
\* one minor number.
SameLength ==
    \A i, j \in DOMAIN commits :
        LET v == commits[i].mf[Project].vers
            w == commits[j].mf[Project].vers
        IN  /\ Len(Digits(v[1])) = Len(Digits(w[1]))
            /\ v[1] = w[1] => Len(Digits(v[2])) = Len(Digits(w[2]))

\* What was committed can be read, in the order it was committed in, also after
\* a first commit that stopped before its record.  It can not once a later commit
\* was interrupted, or a number of the project's version got another digit.
ReadsBack ==
    step = "closed" /\ ~cut /\ SameLength =>
        /\ Readable
        /\ Sorted(folder) = [i \in DOMAIN commits |-> commits[i].mf]
=============================================================================

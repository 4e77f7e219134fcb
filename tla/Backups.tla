------------------------------- MODULE Backups -------------------------------
(***************************************************************************)
(* Datasets (mig/dataset.go, mig/stream.go): a version and a stream of     *)
(* rows per model, kept in memory, in a directory of JSON files or in a    *)
(* zip file, and written from any of them to another.  A file's name says  *)
(* whether it is gzipped; its content is in as many layers of gzip as were *)
(* wrapped around it.                                                      *)
(***************************************************************************)
EXTENDS Integers, FiniteSets

CONSTANTS Dirs, Zips,   \* paths
          Keys,         \* qualified model names
          Rows,         \* the rows of a stream, as a whole
          Stamps,       \* project versions
          MaxWrites     \* bound on the datasets written

ASSUME BackupAssumption ==
    /\ Dirs \cap Zips = {} /\ MaxWrites \in Nat
    /\ "bad" \notin Rows   \* an error is not rows

VARIABLES places,   \* the version and the files at each path
          wrote,    \* what the last WriteDataset to a path was to write there
          writes    \* datasets written so far
backupVars == <<places, wrote, writes>>

Paths == Dirs \cup Zips
FileNames == [key : Keys, gz : BOOLEAN]
Empty == "empty"    \* no bytes, before they are gzipped
Bad   == "bad"      \* the stream returns an error

\* No version.json and no files: there is nothing at the path, or it is empty.
Nothing == [vers |-> "none", files |-> << >>]
Unwritten == [data |-> << >>, vers |-> "none", kept |-> {}]

Plain(rows, gz) == [layers |-> IF gz THEN 1 ELSE 0, rows |-> rows]

\* A directory or an archive made by hand may hold gzipped files and others, but
\* one per model.
Fixtures ==
    {[vers |-> s, files |-> [n \in ns |-> Plain(f[n.key], n.gz)]] :
        s \in Stamps, f \in [Keys -> Rows],
        ns \in {ns \in SUBSET FileNames : ns # {} /\ \A n, m \in ns : n.key = m.key => n = m}}

BackupInit ==
    /\ \E p \in Paths : \E fixture \in Fixtures :
          places = [q \in Paths |-> IF q = p THEN fixture ELSE Nothing]
    /\ wrote = [p \in Paths |-> Unwritten]
    /\ writes = 0

-----------------------------------------------------------------------------
(* Reading. *)

KeysIn(place) == {n.key : n \in DOMAIN place.files}

\* NewFileStream unwraps the layer the name tells of; what is left must be JSON,
\* or nothing, which is a stream at its end.
Scanned(n, content) == IF content = Plain(content.rows, n.gz) THEN content.rows ELSE Bad

\* The files a dataset takes for its keys: the first in the directory's order.
Picks(place) ==
    {pick \in [KeysIn(place) -> DOMAIN place.files] : \A k \in KeysIn(place) : pick[k].key = k}

Streams(place, pick) == [k \in KeysIn(place) |-> Scanned(pick[k], place.files[pick[k]])]

-----------------------------------------------------------------------------
(* WriteDataset.  After an error some of the streams are written. *)

Overlay(f, g) == [n \in DOMAIN f \cup DOMAIN g |-> IF n \in DOMAIN g THEN g[n] ELSE f[n]]

\* Mutant of Wrapped: the file is named but not written as gzipped.
NotWrapped(content) == content

\* writeFileGz wraps what is written in another layer.
Wrapped(content) == [content EXCEPT !.layers = @ + 1]

\* The file at path p, once it was written with what the stream rows gave.
Expect(p, vers, streams, safe) ==
    wrote' = [wrote EXCEPT ![p] =
                 [data |-> IF safe THEN streams ELSE << >>, vers |-> vers,
                  kept |-> IF p \in Zips THEN {} ELSE DOMAIN places[p].files]]

\* WriteZip writes each stream decoded; the archive starts empty.
WriteZip(p, vers, streams) ==
    \E ks \in SUBSET {k \in DOMAIN streams : streams[k] # Bad} :
        /\ (\A k \in DOMAIN streams : streams[k] # Bad) => ks = DOMAIN streams
        /\ places' = [places EXCEPT ![p] =
               [vers |-> vers,
                files |-> [n \in [key : ks, gz : {FALSE}] |-> Plain(streams[n.key], FALSE)]]]
        /\ Expect(p, vers, streams, ks = DOMAIN streams)

\* A dataset in memory, such as a MemBackend.
WriteMemory(p, vers, rows) ==
    IF p \in Zips THEN WriteZip(p, vers, rows)
    ELSE /\ places' = [places EXCEPT ![p] =
                [vers |-> vers,
                 files |-> Overlay(@.files, [n \in [key : DOMAIN rows, gz : {TRUE}] |->
                                                Wrapped(Plain(rows[n.key], FALSE))])]]
         /\ Expect(p, vers, rows, TRUE)

\* A dataset of files: a directory takes the files' bytes as they are, gzipped or
\* not.  A file that is its own source is truncated before it is read, and so is
\* an archive.  The bytes are rows again only if the file read was not gzipped.
WriteFiles(p, q) ==
    \E pick \in Picks(places[q]) :
        LET src == places[q]
            streams == Streams(src, pick)
            target(k) == [key |-> k, gz |-> TRUE]
            bytes(k) == IF p = q /\ pick[k] = target(k) THEN Plain(Empty, FALSE)
                        ELSE src.files[pick[k]]
        IN  IF p \in Zips
            THEN WriteZip(p, src.vers, IF p = q THEN [k \in DOMAIN streams |-> Bad] ELSE streams)
            ELSE /\ places' = [places EXCEPT ![p] =
                        [vers |-> src.vers,
                         files |-> Overlay(@.files, [n \in {target(k) : k \in KeysIn(src)} |->
                                                        Wrapped(bytes(n.key))])]]
                 /\ Expect(p, src.vers, streams, \A k \in KeysIn(src) : ~pick[k].gz)

WriteDataset(p) ==
    /\ writes < MaxWrites
    /\ writes' = writes + 1
    /\ \/ \E vers \in Stamps, ks \in SUBSET Keys : \E rows \in [ks -> Rows] :
             WriteMemory(p, vers, rows)
       \/ \E q \in Paths : places[q] # Nothing /\ WriteFiles(p, q)

BackupNext == \E p \in Paths : WriteDataset(p)

-----------------------------------------------------------------------------
(* What the dataset at a path gives when it is read back. *)

\* A dataset that was written without an error gives back the version and, for
\* each model, the rows its source gave, unless the directory already had a file
\* of the model that was not gzipped; and it has no other models than those of
\* files that were there before.  What is excepted: gzipped files copied to a
\* directory are gzipped twice, a directory copied onto itself is emptied.
BackupFaithful ==
    \A p \in Paths :
        LET w == wrote[p]
            stale(k) == [key |-> k, gz |-> FALSE] \in w.kept
        IN  w.data # << >> =>
                /\ places[p].vers = w.vers
                /\ \A pick \in Picks(places[p]) : \A k \in DOMAIN w.data :
                      stale(k) \/ Streams(places[p], pick)[k] = w.data[k]
                /\ KeysIn(places[p]) = DOMAIN w.data \cup {n.key : n \in w.kept}
=============================================================================

----------------------------- MODULE MigrationFiles -----------------------------
(***************************************************************************)
(* The directory of migration files (loadMigrations, parseMigrationFile    *)
(* and GenerateMigration of server/psql/migrate.go), which developers      *)
(* write, generate, merge and remove while the database remembers          *)
(* versions only.                                                          *)
(*                                                                         *)
(* One program runs at a time and no statement fails: crashes, failures    *)
(* and programs at the same time are in Migrations, which has the four     *)
(* files of the repository.  The body of a file is the sequence of its     *)
(* markers and statements; "create" brings the object of the file into     *)
(* existence and "drop" removes it.  Its name has the "_" that             *)
(* parseMigrationFile asks for.                                            *)
(***************************************************************************)
EXTENDS Integers, SequencesExt

CONSTANTS
    Files,    \* file names: records of a version, a number, and of the rest of the name
    Bodies    \* what developers write into a file

VARIABLES
    dir,        \* the directory: a function from the files that are there
    recorded,   \* versions in schema_migrations
    objects,    \* files whose object exists in the database
    status,     \* what the last run found and did
    \* History variables: the program does not keep these.
    applied,    \* versions that have been recorded at some time
    tampered    \* versions whose files changed after that

dirVars == <<dir, recorded, objects, status, applied, tampered>>

DirInit ==
    /\ dir = <<>>
    /\ recorded = {}
    /\ objects = {}
    /\ status = "none"
    /\ applied = {}
    /\ tampered = {}

--------------------------------------------------------------------------------
(* parseMigrationFile and loadMigrations                                   *)

Up   == "-- +migrate Up"
Down == "-- +migrate Down"

\* strings.Index, 0 for -1.
Index(body, marker) ==
    LET at == {i \in DOMAIN body : body[i] = marker}
    IN  IF at = {} THEN 0 ELSE Min(at)

\* A slip: the Up part runs to the end of the file.
UpSQLToEnd(body) ==
    IF Index(body, Up) = 0 THEN <<>> ELSE SubSeq(body, Index(body, Up) + 1, Len(body))

\* From the first Up marker to the first Down marker, if that comes later.
UpSQL(body) ==
    LET up   == Index(body, Up)
        down == Index(body, Down)
    IN  IF up = 0 THEN <<>>
        ELSE SubSeq(body, up + 1, IF down > up THEN down - 1 ELSE Len(body))

\* From the first Down marker to the end, through an Up marker too.
DownSQL(body) ==
    LET down == Index(body, Down)
    IN  IF down = 0 THEN <<>> ELSE SubSeq(body, down + 1, Len(body))

\* The orders that sort.Slice may return, which is not stable: files of one version
\* come in any order.  A directory that is not found, from another working
\* directory, passes for an empty one.
Load(found) ==
    {files \in SetToSeqs(IF found THEN DOMAIN dir ELSE {}) :
        \A i, j \in DOMAIN files : i < j => files[i].version <= files[j].version}

\* What db.Exec leaves: markers are comments to the database.
Exec(sql, f, objs) ==
    LET run == {i \in DOMAIN sql : sql[i] \notin {Up, Down}}
    IN  IF run = {} THEN objs
        ELSE IF sql[Max(run)] = "create" THEN objs \cup {f} ELSE objs \ {f}

--------------------------------------------------------------------------------
(* MigrateUp and MigrateDown                                               *)

\* A slip: a file is pending when its version is above every recorded one.
ApplyLater(run, f) ==
    IF ~run.ok \/ \E v \in recorded : f.version <= v THEN run
    ELSE [run EXCEPT !.objects = Exec(UpSQL(dir[f]), f, @),
                     !.ok = f.version \notin run.recorded,
                     !.recorded = @ \cup {f.version}]

\* A pending file is executed and then recorded; the second of two files with
\* one version runs and cannot be recorded, which ends the loop.
Apply(run, f) ==
    IF ~run.ok \/ f.version \in recorded THEN run
    ELSE [run EXCEPT !.objects = Exec(UpSQL(dir[f]), f, @),
                     !.ok = f.version \notin run.recorded,
                     !.recorded = @ \cup {f.version}]

MigrateUp(found) ==
    \E files \in Load(found) :
        LET run == FoldLeft(Apply, [objects |-> objects, recorded |-> recorded, ok |-> TRUE],
                            files)
        IN  /\ objects' = run.objects
            /\ recorded' = run.recorded
            /\ applied' = applied \cup run.recorded
            /\ status' = IF ~run.ok THEN "failed" ELSE IF found THEN "migrated" ELSE "blind"
            /\ UNCHANGED <<dir, tampered>>

\* migrationMap keeps the last of the files of a version.
FileOf(files, v) == SelectLastInSeq(files, LAMBDA f : f.version = v)

\* A version without a file or without a Down part is passed over, and does not
\* count as a step.
RollBack(files, run, v) ==
    LET i == FileOf(files, v)
        f == files[i]
    IN  IF run.left = 0 \/ i = 0 THEN run
        ELSE IF DownSQL(dir[f]) = <<>> THEN run
        ELSE [objects |-> Exec(DownSQL(dir[f]), f, run.objects),
              recorded |-> run.recorded \ {v},
              left |-> run.left - 1]

\* From the highest version down.
MigrateDown(steps) ==
    \E files \in Load(TRUE), versions \in SetToSeqs(recorded) :
        LET run == FoldLeft(LAMBDA r, v : RollBack(files, r, v),
                            [objects |-> objects, recorded |-> recorded, left |-> steps],
                            versions)
        IN  /\ recorded # {}
            /\ \A i, j \in DOMAIN versions : i < j => versions[i] > versions[j]
            /\ objects' = run.objects
            /\ recorded' = run.recorded
            /\ status' = "none"
            /\ UNCHANGED <<dir, applied, tampered>>

--------------------------------------------------------------------------------
(* The directory                                                           *)

Change(f, new) ==
    /\ dir' = new
    /\ status' = "none"
    /\ tampered' = tampered \cup ({f.version} \cap applied)
    /\ UNCHANGED <<recorded, objects, applied>>

\* The directory with a file that has this body.
With(f, body) == [g \in DOMAIN dir \cup {f} |-> IF g = f THEN body ELSE dir[g]]

\* os.WriteFile with both markers and nothing between them; the version is the
\* second of the clock, and a file of that name is overwritten.
GenerateMigration(f) == Change(f, With(f, <<Up, Down>>))

\* A developer writes, edits or merges a file.
Write(f, body) == Change(f, With(f, body))

Delete(f) == f \in DOMAIN dir /\ Change(f, [g \in DOMAIN dir \ {f} |-> dir[g]])

DirNext ==
    \/ \E found \in BOOLEAN : MigrateUp(found)
    \/ \E steps \in 1 .. 2 : MigrateDown(steps)
    \/ \E f \in Files :
          \/ GenerateMigration(f)
          \/ \E body \in Bodies : Write(f, body)
          \/ Delete(f)

DirSpec == DirInit /\ [][DirNext]_dirVars

--------------------------------------------------------------------------------

\* A file as the guide has it, which is the only one of its version and has not
\* been touched since that version was first recorded.
Sound(f) ==
    /\ dir[f] = <<Up, "create", Down, "drop">>
    /\ \A g \in DOMAIN dir \ {f} : g.version # f.version
    /\ f.version \notin tampered

\* The record tells what is in the database, although it knows versions only: the
\* object of a sound file exists exactly when its version is recorded, after any
\* sequence of runs, rollbacks and changes to other files.
RecordTellsEffect ==
    \A f \in DOMAIN dir : Sound(f) => (f \in objects <=> f.version \in recorded)

\* When MigrateUp has found the directory and returned nil, the SQL of every sound
\* file has run: also that of one which was merged late, with a version lower than
\* recorded ones, and after a run that failed.
NothingPending ==
    status = "migrated" => \A f \in DOMAIN dir : Sound(f) => f \in objects

================================================================================

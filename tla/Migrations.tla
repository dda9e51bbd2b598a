------------------------------- MODULE Migrations -------------------------------
(***************************************************************************)
(* Schema migrations (server/psql/migrate.go over server/db/migrations).   *)
(*                                                                         *)
(* Every server start runs MigrateUp, and an operator runs MigrateUp and   *)
(* MigrateDown from the command line.  Both read schema_migrations once    *)
(* and then work through a fixed list of migrations; each is one Exec of   *)
(* its SQL, which PostgreSQL runs as one transaction, followed by a        *)
(* separate Exec that records or removes the version.  Nothing keeps two   *)
(* of these programs from running at the same time.                        *)
(*                                                                         *)
(* The schema is the set of the tables and of the columns of users that    *)
(* the four migrations add, rename or drop.                                *)
(***************************************************************************)
EXTENDS Integers, FiniteSetsExt

CONSTANTS
    Procs,        \* servers and command line runs against one database
    MaxSteps,     \* bound: the largest -steps an operator gives
    MaxFaults,    \* bound: crashes and failing statements in a behaviour
    Overlapping   \* TRUE: two programs may migrate at the same time

ASSUME MigrationsAssumption ==
    /\ MaxSteps \in Nat
    /\ MaxFaults \in Nat
    /\ Overlapping \in BOOLEAN

VARIABLES
    schema,       \* tables and columns that exist
    recorded,     \* versions in schema_migrations
    pc,           \* pc[p]: what program p does next
    todo,         \* todo[p]: versions p still has to apply or roll back
    \* History variables: the programs do not keep these.
    faults,       \* crashes and failed statements so far
    torn,         \* a version's SQL ran and its record was not updated, or a
                  \* program was not told every recorded version
    overlapped,   \* a program started while another one was migrating
    rolledBack    \* a rollback was started

history == <<faults, torn, overlapped, rolledBack>>
vars    == <<schema, recorded, pc, todo, faults, torn, overlapped, rolledBack>>

--------------------------------------------------------------------------------
(* The migrations                                                          *)

Versions == 1 .. 4

RevokedBefore == "users.token_revoked_before"
LastRevoked   == "users.last_revoked_token_at"
LastLogin     == "users.last_login_at"

UserColumns == {RevokedBefore, LastRevoked, LastLogin}
Registry    == "schema_migrations"
Objects     == {Registry, "users", "file_uploads", "token_revocations"} \cup UserColumns

\* A statement list fails unless all of "needs" and none of "bars" is there; it
\* then removes "drops" and creates "adds".  IF EXISTS and IF NOT EXISTS need
\* and bar nothing.
Sql(needs, bars, drops, adds) ==
    [needs |-> needs, bars |-> bars, drops |-> drops, adds |-> adds]

CreateUsers ==
    [up   |-> Sql({}, {}, {}, {"users"}),
     \* DROP TABLE without CASCADE fails while another table refers to this one.
     down |-> Sql({}, {"file_uploads", "token_revocations"}, {"users"} \cup UserColumns, {})]

AddTokenRevokedBefore ==
    [up   |-> Sql({"users"}, {RevokedBefore}, {"token_revocations"}, {RevokedBefore}),
     down |-> Sql({"users"}, {}, {RevokedBefore}, {"token_revocations"})]

CreateFileUploads ==
    [up   |-> Sql({"users"}, {}, {}, {"file_uploads"}),
     down |-> Sql({}, {}, {"file_uploads"}, {})]

\* A slip: rolling it back does not rename the column back.
RenameRevokeNoRename ==
    [up   |-> Sql({"users", RevokedBefore}, {LastRevoked}, {RevokedBefore},
                  {LastRevoked, LastLogin}),
     down |-> Sql({"users"}, {}, {LastLogin}, {})]

RenameRevokeAddLastLogin ==
    [up   |-> Sql({"users", RevokedBefore}, {LastRevoked}, {RevokedBefore},
                  {LastRevoked, LastLogin}),
     down |-> Sql({"users", LastRevoked}, {RevokedBefore}, {LastLogin, LastRevoked},
                  {RevokedBefore})]

\* The files in the order of their versions.
Migration ==
    <<CreateUsers, AddTokenRevokedBefore, CreateFileUploads, RenameRevokeAddLastLogin>>

UpSQL(v)   == Migration[v].up
DownSQL(v) == Migration[v].down

Runs(sql)   == sql.needs \subseteq schema /\ sql.bars \cap schema = {}
Effect(sql) == (schema \ sql.drops) \cup sql.adds

\* The schema a fresh database has after the first n migrations.
SchemaAt[n \in 0 .. 4] ==
    IF n = 0 THEN {} ELSE (SchemaAt[n - 1] \ UpSQL(n).drops) \cup UpSQL(n).adds

--------------------------------------------------------------------------------

Init ==
    /\ schema = {}
    /\ recorded = {}
    /\ pc = [p \in Procs |-> "stopped"]
    /\ todo = [p \in Procs |-> {}]
    /\ faults = 0
    /\ torn = FALSE
    /\ overlapped = FALSE
    /\ rolledBack = FALSE

Working(p) == pc[p] \in {"up", "record", "down", "remove"}

Goto(p, label) == pc' = [pc EXCEPT ![p] = label]

\* The one read of the recorded versions, in their order.  The loop over the
\* rows ends at an error as it ends at the last row: a connection that breaks
\* leaves the program with a first part of the list and no error.
Applied(read) ==
    \/ read = recorded /\ UNCHANGED <<faults, torn>>
    \/ /\ read # recorded
       /\ \E n \in 0 .. 3 : read = recorded \cap (1 .. n)
       /\ faults < MaxFaults
       /\ faults' = faults + 1
       /\ torn' = TRUE

Begin(p, label, read, versions) ==
    /\ pc[p] = "stopped"
    /\ Overlapping \/ \A q \in Procs : ~Working(q)
    /\ Applied(read)
    /\ Goto(p, label)
    /\ todo' = [todo EXCEPT ![p] = versions]
    /\ overlapped' = (overlapped \/ \E q \in Procs : Working(q))
    /\ UNCHANGED recorded

\* A slip: one migration a run, as a rollback has it.
MigrateUpOne(p) ==
    \E read \in SUBSET recorded :
        /\ Begin(p, "up", read, {v \in Versions \ read : 1 .. (v - 1) \subseteq read})
        /\ schema' = schema \cup {Registry}
        /\ UNCHANGED rolledBack

\* createMigrationsTable, and every migration that is not among those read.
MigrateUp(p) ==
    \E read \in SUBSET recorded :
        /\ Begin(p, "up", read, Versions \ read)
        /\ schema' = schema \cup {Registry}
        /\ UNCHANGED rolledBack

\* MigrationStatus makes the table too, also while another program works; the rest
\* of it reads.
MigrationStatus(p) ==
    /\ pc[p] = "stopped"
    /\ schema' = schema \cup {Registry}
    /\ UNCHANGED <<recorded, pc, todo, history>>

\* The latest of the versions read, as many as -steps says.
Latest(read, n) == {v \in read : Cardinality({w \in read : w >= v}) <= n}

\* Without the table the read fails, and the program exits having done nothing.
MigrateDown(p, steps) ==
    \E read \in SUBSET recorded :
        /\ Registry \in schema
        /\ Begin(p, "down", read, Latest(read, steps))
        /\ rolledBack' = TRUE
        /\ UNCHANGED schema

\* A slip: the migration leaves the list before it is recorded.
ExecUpForgetting(p) ==
    LET v == Min(todo[p]) IN
    /\ pc[p] = "up"
    /\ todo[p] # {}
    /\ Runs(UpSQL(v))
    /\ schema' = Effect(UpSQL(v))
    /\ todo' = [todo EXCEPT ![p] = @ \ {v}]
    /\ Goto(p, "record")
    /\ UNCHANGED <<recorded, history>>

\* One migration's SQL; when it fails the program exits, with nothing changed.
ExecUp(p) ==
    LET v == Min(todo[p]) IN
    /\ pc[p] = "up"
    /\ todo[p] # {}
    /\ \/ /\ Runs(UpSQL(v))
          /\ schema' = Effect(UpSQL(v))
          /\ Goto(p, "record")
       \/ ~Runs(UpSQL(v)) /\ Goto(p, "upFailed") /\ UNCHANGED schema
    /\ UNCHANGED <<recorded, todo, history>>

\* A slip: the version recorded is the last of the list, not the one that ran.
RecordMigrationLast(p) ==
    /\ pc[p] = "record"
    /\ recorded' = recorded \cup {Max(todo[p])}
    /\ todo' = [todo EXCEPT ![p] = @ \ {Min(@)}]
    /\ Goto(p, "up")
    /\ UNCHANGED <<schema, history>>

\* INSERT INTO schema_migrations; version is the primary key.
RecordMigration(p) ==
    LET v == Min(todo[p]) IN
    /\ pc[p] = "record"
    /\ \/ /\ v \notin recorded
          /\ recorded' = recorded \cup {v}
          /\ todo' = [todo EXCEPT ![p] = @ \ {v}]
          /\ Goto(p, "up")
       \/ v \in recorded /\ Goto(p, "upFailed") /\ UNCHANGED <<recorded, todo>>
    /\ UNCHANGED <<schema, history>>

\* MigrateUp returns nil: a server goes on to serve requests.
UpDone(p) ==
    /\ pc[p] = "up"
    /\ todo[p] = {}
    /\ Goto(p, "migrated")
    /\ UNCHANGED <<schema, recorded, todo, history>>

\* A slip: the oldest of the versions goes first.
ExecDownOldestFirst(p) ==
    LET v == Min(todo[p]) IN
    /\ pc[p] = "down"
    /\ todo[p] # {}
    /\ \/ /\ Runs(DownSQL(v))
          /\ schema' = Effect(DownSQL(v))
          /\ Goto(p, "remove")
       \/ ~Runs(DownSQL(v)) /\ Goto(p, "downFailed") /\ UNCHANGED schema
    /\ UNCHANGED <<recorded, todo, history>>

ExecDown(p) ==
    LET v == Max(todo[p]) IN
    /\ pc[p] = "down"
    /\ todo[p] # {}
    /\ \/ /\ Runs(DownSQL(v))
          /\ schema' = Effect(DownSQL(v))
          /\ Goto(p, "remove")
       \/ ~Runs(DownSQL(v)) /\ Goto(p, "downFailed") /\ UNCHANGED schema
    /\ UNCHANGED <<recorded, todo, history>>

\* DELETE FROM schema_migrations, which does not mind a missing row.
RemoveMigration(p) ==
    LET v == Max(todo[p]) IN
    /\ pc[p] = "remove"
    /\ recorded' = recorded \ {v}
    /\ todo' = [todo EXCEPT ![p] = @ \ {v}]
    /\ Goto(p, "down")
    /\ UNCHANGED <<schema, history>>

DownDone(p) ==
    /\ pc[p] = "down"
    /\ todo[p] = {}
    /\ Goto(p, "stopped")
    /\ UNCHANGED <<schema, recorded, todo, history>>

\* The process dies, or a statement fails for a reason of the connection: in
\* both cases the program is over and the database keeps what it has.
Fault(p) ==
    /\ Working(p)
    /\ faults < MaxFaults
    /\ faults' = faults + 1
    /\ torn' = (torn \/ pc[p] \in {"record", "remove"})
    /\ Goto(p, "stopped")
    /\ todo' = [todo EXCEPT ![p] = {}]
    /\ UNCHANGED <<schema, recorded, overlapped, rolledBack>>

\* A failed program has exited and a server is shut down; either may be started
\* again.
Exit(p) ==
    /\ pc[p] \in {"migrated", "upFailed", "downFailed"}
    /\ Goto(p, "stopped")
    /\ todo' = [todo EXCEPT ![p] = {}]
    /\ UNCHANGED <<schema, recorded, history>>

Proceed(p) ==
    \/ ExecUp(p)
    \/ RecordMigration(p)
    \/ UpDone(p)
    \/ ExecDown(p)
    \/ RemoveMigration(p)
    \/ DownDone(p)
    \/ Exit(p)

Next ==
    \E p \in Procs :
        \/ MigrateUp(p)
        \/ MigrationStatus(p)
        \/ \E steps \in 1 .. MaxSteps : MigrateDown(p, steps)
        \/ Proceed(p)
        \/ Fault(p)

Spec == Init /\ [][Next]_vars

\* The documented way out of a failed migration: whoever is at it goes on, rolls
\* one migration back and migrates again, over and over.
RetrySpec ==
    /\ Spec
    /\ \A p \in Procs :
          /\ WF_vars(Proceed(p))
          /\ SF_vars(MigrateUp(p))
          /\ SF_vars(MigrateDown(p, 1))

--------------------------------------------------------------------------------
(* Safety                                                                  *)

\* Each program works on versions that exist, and one that is about to update the
\* record knows for which version.
TypeOK ==
    /\ schema \subseteq Objects
    /\ recorded \subseteq Versions
    /\ pc \in [Procs -> {"stopped", "up", "record", "down", "remove", "migrated",
                         "upFailed", "downFailed"}]
    /\ todo \in [Procs -> SUBSET Versions]
    /\ faults \in 0 .. MaxFaults
    /\ {torn, overlapped, rolledBack} \subseteq BOOLEAN
    /\ \A p \in Procs : pc[p] \in {"record", "remove"} => todo[p] # {}

\* What the server's queries name.
Needed == {"users", "file_uploads", LastRevoked, LastLogin}

\* A server never serves on a schema its queries do not fit: once its MigrateUp
\* has returned, everything is there and recorded, whatever other servers were
\* migrating at the same time and wherever any of them died, as long as nobody
\* has started a rollback.
ServingSchema ==
    \A p \in Procs :
        (pc[p] = "migrated" /\ ~rolledBack) => Needed \subseteq schema /\ recorded = Versions

\* Versions are recorded without gaps, whoever records them.
RecordedPrefix ==
    ~rolledBack => \A v \in recorded : 1 .. v \subseteq recorded

\* When one program at a time migrates and nothing is torn, the recorded
\* versions describe the schema, after any number of migrations and rollbacks;
\* the token_revocations table that rolling back the second one restores is the
\* only difference.
SchemaFollowsRecord ==
    (~torn /\ ~overlapped /\ \A p \in Procs : ~Working(p)) =>
        /\ recorded = 1 .. Cardinality(recorded)
        /\ schema \ {"token_revocations", Registry} = SchemaAt[Cardinality(recorded)]

\* A migration fails only after something was torn or another program
\* overlapped: no number of whole rollbacks leaves a schema that it cannot be
\* applied to.
UpFailsForAReason ==
    \A p \in Procs : pc[p] = "upFailed" => torn \/ overlapped

\* "Rollback n migrations" works for the migrations that are there.
RollbackWorks == \A p \in Procs : pc[p] # "downFailed"

--------------------------------------------------------------------------------
(* Liveness                                                                *)

\* "Migration failed: rollback and retry" gets a server up in the end.
RetryHelps == <>(\E p \in Procs : pc[p] = "migrated")

================================================================================

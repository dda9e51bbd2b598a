---------------------------- MODULE MigrationsProofs ----------------------------
(***************************************************************************)
(* Theorems about Migrations, for any number of programs, steps and        *)
(* faults, whether programs may overlap or not.                            *)
(***************************************************************************)
EXTENDS Migrations, FiniteSetTheorems, TLAPS

--------------------------------------------------------------------------------
(* The invariants                                                          *)

\* What is left in the schema of an Up part that has run, before any rollback,
\* whatever has run after it.
HasRun(v) ==
    /\ v = 1 => "users" \in schema
    /\ v = 2 => RevokedBefore \in schema \/ LastRevoked \in schema
    /\ v = 3 => "file_uploads" \in schema
    /\ v = 4 => LastRevoked \in schema /\ LastLogin \in schema

\* A program has recorded, or found recorded, what it no longer has to do.
GoesUp(p) ==
    /\ pc[p] \notin {"down", "remove", "downFailed"}
    /\ pc[p] \in {"up", "record"} => Versions \ todo[p] \subseteq recorded
    /\ pc[p] = "record" => HasRun(Min(todo[p]))
    /\ pc[p] = "migrated" => recorded = Versions

\* As long as nobody rolls back, the record only grows, and only with versions
\* whose SQL has run.
GoingUp ==
    ~rolledBack =>
        /\ \A v \in recorded : HasRun(v) /\ 1 .. v \subseteq recorded
        /\ \A p \in Procs : GoesUp(p)

\* The schema is the one after the first n migrations, but for the two tables
\* that say nothing.
Describes(n) ==
    /\ "users" \in schema <=> n >= 1
    /\ RevokedBefore \in schema <=> n \in {2, 3}
    /\ "file_uploads" \in schema <=> n >= 3
    /\ LastRevoked \in schema <=> n = 4
    /\ LastLogin \in schema <=> n = 4

\* The latest of the versions 1 .. n.
Upper(S, n) == S \subseteq 1 .. n /\ \A v \in S : v .. n \subseteq S

\* Where program p is when 1 .. n are recorded: its SQL is one step ahead of the
\* record or not at all.
Ahead(p, n) ==
    /\ pc[p] = "up" => todo[p] = (n + 1) .. 4 /\ Describes(n)
    /\ pc[p] = "record" => n < 4 /\ todo[p] = (n + 1) .. 4 /\ Describes(n + 1)
    /\ pc[p] = "down" => Upper(todo[p], n) /\ Describes(n)
    /\ pc[p] = "remove" => n \in todo[p] /\ Upper(todo[p], n) /\ Describes(n - 1)
    /\ pc[p] # "upFailed"

\* Programs that do not overlap and of which none is torn apart.
InTurn(n) ==
    /\ recorded = 1 .. n
    /\ (\A p \in Procs : ~Working(p)) => Describes(n)
    /\ \A p \in Procs : Working(p) => \A q \in Procs \ {p} : ~Working(q)
    /\ \A p \in Procs : Ahead(p, n)

TakingTurns == ~torn /\ ~overlapped => \E n \in 0 .. 4 : InTurn(n)

--------------------------------------------------------------------------------
(* The operators                                                           *)

LEMMA MinIsLeast ==
    ASSUME NEW S \in SUBSET Versions, S # {}
    PROVE  Min(S) \in S /\ \A v \in S : Min(S) <= v
<1>0. \A v \in S : v \in {1, 2, 3, 4}
  BY DEF Versions
<1>1. \E v \in S : \A w \in S : v <= w
  <2>1. CASE 1 \in S
    BY <1>0, <2>1
  <2>2. CASE 2 \in S /\ 1 \notin S
    BY <1>0, <2>2
  <2>3. CASE 3 \in S /\ 1 \notin S /\ 2 \notin S
    BY <1>0, <2>3
  <2>4. CASE 4 \in S /\ 1 \notin S /\ 2 \notin S /\ 3 \notin S
    BY <1>0, <2>4
  <2> QED
    BY <1>0, <2>1, <2>2, <2>3, <2>4
<1> QED
  BY <1>1 DEF Min

LEMMA MaxIsGreatest ==
    ASSUME NEW S \in SUBSET Versions, S # {}
    PROVE  Max(S) \in S /\ \A v \in S : v <= Max(S)
<1>0. \A v \in S : v \in {1, 2, 3, 4}
  BY DEF Versions
<1>1. \E v \in S : \A w \in S : v >= w
  <2>1. CASE 4 \in S
    BY <1>0, <2>1
  <2>2. CASE 3 \in S /\ 4 \notin S
    BY <1>0, <2>2
  <2>3. CASE 2 \in S /\ 4 \notin S /\ 3 \notin S
    BY <1>0, <2>3
  <2>4. CASE 1 \in S /\ 4 \notin S /\ 3 \notin S /\ 2 \notin S
    BY <1>0, <2>4
  <2> QED
    BY <1>0, <2>1, <2>2, <2>3, <2>4
<1>2. Max(S) \in S /\ \A v \in S : Max(S) >= v
  BY <1>1 DEF Max
<1> QED
  BY <1>2 DEF Versions

\* The objects are told apart by their names.
LEMMA ObjectsApart ==
    /\ RevokedBefore = "users.token_revoked_before"
    /\ LastRevoked = "users.last_revoked_token_at"
    /\ LastLogin = "users.last_login_at"
    /\ Registry = "schema_migrations"
    /\ UserColumns = {RevokedBefore, LastRevoked, LastLogin}
  BY DEF RevokedBefore, LastRevoked, LastLogin, Registry, UserColumns

\* The four Up parts, one by one.
LEMMA UpParts ==
    /\ UpSQL(1) = Sql({}, {}, {}, {"users"})
    /\ UpSQL(2) = Sql({"users"}, {RevokedBefore}, {"token_revocations"}, {RevokedBefore})
    /\ UpSQL(3) = Sql({"users"}, {}, {}, {"file_uploads"})
    /\ UpSQL(4) = Sql({"users", RevokedBefore}, {LastRevoked}, {RevokedBefore},
                      {LastRevoked, LastLogin})
  BY DEF UpSQL, Migration, CreateUsers, AddTokenRevokedBefore, CreateFileUploads,
         RenameRevokeAddLastLogin

LEMMA DownParts ==
    /\ DownSQL(1) = Sql({}, {"file_uploads", "token_revocations"},
                        {"users"} \cup UserColumns, {})
    /\ DownSQL(2) = Sql({"users"}, {}, {RevokedBefore}, {"token_revocations"})
    /\ DownSQL(3) = Sql({}, {}, {"file_uploads"}, {})
    /\ DownSQL(4) = Sql({"users", LastRevoked}, {RevokedBefore}, {LastLogin, LastRevoked},
                        {RevokedBefore})
  BY DEF DownSQL, Migration, CreateUsers, AddTokenRevokedBefore, CreateFileUploads,
         RenameRevokeAddLastLogin

LEMMA EffectsTyped ==
    ASSUME schema \subseteq Objects, NEW v \in Versions
    PROVE  Effect(UpSQL(v)) \subseteq Objects /\ Effect(DownSQL(v)) \subseteq Objects
<1>1. v = 1 \/ v = 2 \/ v = 3 \/ v = 4
  BY DEF Versions
<1> QED
  BY <1>1, UpParts, DownParts DEF Effect, Sql, Objects, UserColumns

--------------------------------------------------------------------------------
(* Steps                                                                   *)

Move(p) ==
    \/ MigrateUp(p)
    \/ MigrationStatus(p)
    \/ \E steps \in 1 .. MaxSteps : MigrateDown(p, steps)
    \/ Proceed(p)
    \/ Fault(p)

\* A program touches no program counter and no list but its own.
LEMMA OneProgramMoves ==
    ASSUME TypeOK, NEW p \in Procs, NEW q \in Procs, q # p, Move(p)
    PROVE  pc'[q] = pc[q] /\ todo'[q] = todo[q]
<1> USE DEF Goto, TypeOK
<1>1. CASE MigrateUp(p) \/ MigrationStatus(p) \/ \E steps \in 1 .. MaxSteps : MigrateDown(p, steps)
  BY <1>1 DEF MigrateUp, MigrationStatus, MigrateDown, Begin
<1>2. CASE Proceed(p)
  BY <1>2 DEF Proceed, ExecUp, RecordMigration, UpDone, ExecDown, RemoveMigration,
              DownDone, Exit
<1>3. CASE Fault(p)
  BY <1>3 DEF Fault
<1> QED
  BY <1>1, <1>2, <1>3 DEF Move

--------------------------------------------------------------------------------
(* Types                                                                   *)

LEMMA TypeInit == Init => TypeOK
<1> SUFFICES ASSUME Init PROVE TypeOK
  OBVIOUS
<1>1. faults \in 0 .. MaxFaults
  BY MigrationsAssumption DEF Init
<1>2. /\ pc \in [Procs -> {"stopped", "up", "record", "down", "remove", "migrated",
                          "upFailed", "downFailed"}]
      /\ todo \in [Procs -> SUBSET Versions]
      /\ \A p \in Procs : pc[p] \in {"record", "remove"} => todo[p] # {}
  BY DEF Init
<1> QED
  BY <1>1, <1>2 DEF Init, TypeOK

LEMMA BeginTyped ==
    ASSUME TypeOK, NEW p \in Procs, NEW label \in {"up", "down"},
           NEW read, NEW versions \in SUBSET Versions,
           Begin(p, label, read, versions),
           schema' \subseteq Objects, rolledBack' \in BOOLEAN
    PROVE  TypeOK'
<1>1. /\ pc' = [pc EXCEPT ![p] = label] /\ todo' = [todo EXCEPT ![p] = versions]
      /\ recorded' = recorded /\ overlapped' \in BOOLEAN
  BY DEF Begin, Goto
<1>2. faults' \in 0 .. MaxFaults /\ torn' \in BOOLEAN
  <2>1. \/ faults' = faults /\ torn' = torn
        \/ faults < MaxFaults /\ faults' = faults + 1 /\ torn' = TRUE
    BY DEF Begin, Applied
  <2>2. torn' \in BOOLEAN
    BY <2>1 DEF TypeOK
  <2>3. faults' \in 0 .. MaxFaults
    BY <2>1, MigrationsAssumption DEF TypeOK
  <2> QED
    BY <2>2, <2>3
<1>3. \A q \in Procs : pc'[q] \in {"record", "remove"} => todo'[q] # {}
  BY <1>1 DEF TypeOK
<1> QED
  BY <1>1, <1>2, <1>3 DEF TypeOK

LEMMA TypeStep ==
    ASSUME TypeOK, NEW p \in Procs, Move(p)
    PROVE  TypeOK'
<1>1. schema \cup {Registry} \subseteq Objects
  BY DEF TypeOK, Objects
<1>2. CASE MigrateUp(p)
  <2>1. PICK read \in SUBSET recorded : Begin(p, "up", read, Versions \ read)
    BY <1>2 DEF MigrateUp
  <2>2. schema' \subseteq Objects /\ rolledBack' \in BOOLEAN
    BY <1>1, <1>2 DEF MigrateUp, TypeOK
  <2> QED
    BY <2>1, <2>2, BeginTyped
<1>3. CASE MigrationStatus(p)
  BY <1>1, <1>3 DEF MigrationStatus, history, TypeOK
<1>4. CASE \E steps \in 1 .. MaxSteps : MigrateDown(p, steps)
  <2>1. PICK steps \in 1 .. MaxSteps, read \in SUBSET recorded :
           Begin(p, "down", read, Latest(read, steps))
    BY <1>4 DEF MigrateDown
  <2>2. schema' \subseteq Objects /\ rolledBack' \in BOOLEAN
    BY <1>4 DEF MigrateDown, TypeOK
  <2>3. Latest(read, steps) \in SUBSET Versions
    BY DEF Latest, TypeOK
  <2> QED
    BY <2>1, <2>2, <2>3, BeginTyped
<1>5. CASE Proceed(p)
  <2> USE DEF Goto, history
  <2>1. CASE ExecUp(p)
    BY <2>1, EffectsTyped, MinIsLeast DEF ExecUp, TypeOK
  <2>2. CASE RecordMigration(p)
    BY <2>2, MinIsLeast DEF RecordMigration, TypeOK
  <2>3. CASE UpDone(p) \/ DownDone(p) \/ Exit(p)
    BY <2>3 DEF UpDone, DownDone, Exit, TypeOK
  <2>4. CASE ExecDown(p)
    BY <2>4, EffectsTyped, MaxIsGreatest DEF ExecDown, TypeOK
  <2>5. CASE RemoveMigration(p)
    BY <2>5 DEF RemoveMigration, TypeOK
  <2> QED
    BY <1>5, <2>1, <2>2, <2>3, <2>4, <2>5 DEF Proceed
<1>6. CASE Fault(p)
  BY <1>6, MigrationsAssumption DEF Fault, Goto, TypeOK
<1> QED
  BY <1>2, <1>3, <1>4, <1>5, <1>6 DEF Move

--------------------------------------------------------------------------------
(* Before the first rollback                                               *)

LEMMA VersionCases ==
    ASSUME NEW v \in Versions
    PROVE  v = 1 \/ v = 2 \/ v = 3 \/ v = 4
  BY DEF Versions

\* No Up part undoes another one.
LEMMA UpKeeps ==
    ASSUME NEW v \in Versions, NEW w \in Versions,
           Runs(UpSQL(v)), schema' = Effect(UpSQL(v)), HasRun(w)
    PROVE  HasRun(w)'
<1> USE ObjectsApart, UpParts DEF Runs, Effect, Sql, HasRun
<1>1. CASE v = 1
  BY <1>1, VersionCases
<1>2. CASE v = 2
  BY <1>2, VersionCases
<1>3. CASE v = 3
  BY <1>3, VersionCases
<1>4. CASE v = 4
  BY <1>4, VersionCases
<1> QED
  BY <1>1, <1>2, <1>3, <1>4, VersionCases

\* An Up part leaves what it is for.
LEMMA UpAchieves ==
    ASSUME NEW v \in Versions, schema' = Effect(UpSQL(v))
    PROVE  HasRun(v)'
<1> USE ObjectsApart, UpParts DEF Effect, Sql, HasRun
<1> QED
  BY VersionCases

\* A larger schema has run no less.
LEMMA RegistryKeeps ==
    ASSUME NEW v \in Versions, HasRun(v), schema \subseteq schema'
    PROVE  HasRun(v)'
  BY VersionCases DEF HasRun

\* What a step has to show for the program that takes it.
LEMMA GoingUpFrom ==
    ASSUME TypeOK, TypeOK', GoingUp, ~rolledBack, NEW p \in Procs, Move(p),
           recorded \subseteq recorded',
           \A v \in Versions : HasRun(v) => HasRun(v)',
           \A v \in recorded' \ recorded : HasRun(v)' /\ 1 .. v \subseteq recorded',
           GoesUp(p)'
    PROVE  GoingUp'
<1>1. \A v \in recorded' : HasRun(v)' /\ 1 .. v \subseteq recorded'
  BY DEF GoingUp, TypeOK
<1>2. ASSUME NEW q \in Procs \ {p}
      PROVE  GoesUp(q)'
  <2>1. pc'[q] = pc[q] /\ todo'[q] = todo[q]
    BY OneProgramMoves
  <2>2. GoesUp(q)
    BY DEF GoingUp
  <2>3. pc[q] = "record" => HasRun(Min(todo[q]))'
    <3> SUFFICES ASSUME pc[q] = "record" PROVE HasRun(Min(todo[q]))'
      OBVIOUS
    <3>1. Min(todo[q]) \in Versions
      BY MinIsLeast DEF TypeOK
    <3> QED
      BY <2>1, <2>2, <3>1 DEF GoesUp
  <2> QED
    BY <2>1, <2>2, <2>3 DEF GoesUp, TypeOK
<1> QED
  BY <1>1, <1>2 DEF GoingUp

LEMMA GoingUpStep ==
    ASSUME TypeOK, TypeOK', GoingUp, NEW p \in Procs, Move(p)
    PROVE  GoingUp'
<1> SUFFICES ASSUME ~rolledBack' PROVE GoingUp'
  BY DEF GoingUp
<1>1. ~rolledBack /\ ~ \E steps \in 1 .. MaxSteps : MigrateDown(p, steps)
  <2>1. ASSUME NEW steps \in 1 .. MaxSteps PROVE ~MigrateDown(p, steps)
    BY DEF MigrateDown
  <2>2. rolledBack' = rolledBack
    BY <2>1 DEF Move, MigrateUp, MigrationStatus, Proceed, ExecUp, RecordMigration,
                UpDone, ExecDown, RemoveMigration, DownDone, Exit, Fault, history
  <2> QED
    BY <2>1, <2>2
<1>2. GoesUp(p)
  BY <1>1 DEF GoingUp
<1>3. ASSUME recorded' = recorded, schema \subseteq schema', GoesUp(p)'
      PROVE  GoingUp'
  <2>1. \A v \in Versions : HasRun(v) => HasRun(v)'
    BY <1>3, RegistryKeeps
  <2> QED
    BY <1>1, <1>3, <2>1, GoingUpFrom
<1>4. CASE MigrateUp(p)
  BY <1>3, <1>4 DEF MigrateUp, Begin, Goto, GoesUp, TypeOK
<1>5. CASE MigrationStatus(p)
  BY <1>2, <1>3, <1>5 DEF MigrationStatus, GoesUp
<1>6. CASE ExecUp(p)
  <2>1. PICK v \in Versions : v = Min(todo[p])
    BY <1>6, MinIsLeast DEF ExecUp, TypeOK
  <2>2. recorded' = recorded /\ todo' = todo
    BY <1>6 DEF ExecUp
  <2>3. CASE Runs(UpSQL(v)) /\ schema' = Effect(UpSQL(v)) /\ Goto(p, "record")
    <3>1. ASSUME NEW w \in Versions, HasRun(w) PROVE HasRun(w)'
      BY <2>1, <2>3, <3>1, UpKeeps
    <3>2. HasRun(v)'
      BY <2>1, <2>3, UpAchieves
    <3>3. GoesUp(p)'
      BY <1>2, <1>6, <2>1, <2>2, <2>3, <3>2 DEF ExecUp, GoesUp, Goto, TypeOK
    <3> QED
      BY <1>1, <2>2, <3>1, <3>3, GoingUpFrom
  <2>4. CASE Goto(p, "upFailed") /\ UNCHANGED schema
    BY <1>3, <2>2, <2>4 DEF GoesUp, Goto, TypeOK
  <2> QED
    BY <1>6, <2>1, <2>3, <2>4 DEF ExecUp
<1>7. CASE RecordMigration(p)
  <2>1. PICK v \in Versions :
           v = Min(todo[p]) /\ v \in todo[p] /\ \A w \in todo[p] : v <= w
    BY <1>7, MinIsLeast DEF RecordMigration, TypeOK
  <2>2. schema' = schema /\ pc[p] = "record"
    BY <1>7 DEF RecordMigration
  <2>3. CASE /\ recorded' = recorded \cup {v}
             /\ todo' = [todo EXCEPT ![p] = @ \ {v}]
             /\ Goto(p, "up")
    <3>1. 1 .. v \subseteq recorded'
      <4> SUFFICES ASSUME NEW w \in 1 .. v PROVE w \in recorded \cup {v}
        BY <2>3
      <4>1. w \in Versions /\ w <= v
        BY <2>1 DEF Versions
      <4>2. w = v \/ w \notin todo[p]
        BY <2>1, <4>1 DEF Versions
      <4> QED
        BY <1>2, <2>2, <4>1, <4>2 DEF GoesUp
    <3>2. HasRun(v)'
      BY <1>2, <2>1, <2>2, RegistryKeeps DEF GoesUp
    <3>3. GoesUp(p)'
      BY <1>2, <2>2, <2>3 DEF GoesUp, Goto, TypeOK
    <3>4. ASSUME NEW w \in Versions, HasRun(w) PROVE HasRun(w)'
      BY <2>2, <3>4, RegistryKeeps
    <3>5. \A w \in recorded' \ recorded : w = v
      BY <2>3
    <3> QED
      BY <1>1, <2>3, <3>5, <3>1, <3>2, <3>3, <3>4, GoingUpFrom
  <2>4. CASE Goto(p, "upFailed") /\ UNCHANGED <<recorded, todo>>
    BY <1>3, <2>2, <2>4 DEF GoesUp, Goto, TypeOK
  <2> QED
    BY <1>7, <2>1, <2>3, <2>4 DEF RecordMigration
<1>8. CASE UpDone(p)
  BY <1>2, <1>3, <1>8 DEF UpDone, GoesUp, Goto, TypeOK
<1>9. CASE ExecDown(p) \/ RemoveMigration(p) \/ DownDone(p)
  BY <1>2, <1>9 DEF ExecDown, RemoveMigration, DownDone, GoesUp
<1>10. CASE Exit(p) \/ Fault(p)
  BY <1>3, <1>10 DEF Exit, Fault, GoesUp, Goto, TypeOK
<1> QED
  BY <1>1, <1>4, <1>5, <1>6, <1>7, <1>8, <1>9, <1>10 DEF Move, Proceed

--------------------------------------------------------------------------------
(* Taking turns                                                            *)

\* An Up part can be applied to the schema that the ones before it left.
LEMMA UpAdvances ==
    ASSUME NEW n \in 0 .. 3, Describes(n)
    PROVE  /\ Runs(UpSQL(n + 1))
           /\ schema' = Effect(UpSQL(n + 1)) => Describes(n + 1)'
<1>1. n = 0 \/ n = 1 \/ n = 2 \/ n = 3
  OBVIOUS
<1> USE ObjectsApart, UpParts DEF Runs, Effect, Sql, Describes
<1>2. CASE n = 0
  BY <1>2
<1>3. CASE n = 1
  BY <1>3
<1>4. CASE n = 2
  BY <1>4
<1>5. CASE n = 3
  BY <1>5
<1> QED
  BY <1>1, <1>2, <1>3, <1>4, <1>5

\* A Down part that runs takes the schema one migration back.
LEMMA DownRetreats ==
    ASSUME NEW n \in 1 .. 4, Describes(n), schema' = Effect(DownSQL(n))
    PROVE  Describes(n - 1)'
<1>1. n = 1 \/ n = 2 \/ n = 3 \/ n = 4
  OBVIOUS
<1> USE ObjectsApart, DownParts DEF Effect, Sql, Describes
<1>2. CASE n = 1
  BY <1>2
<1>3. CASE n = 2
  BY <1>3
<1>4. CASE n = 3
  BY <1>4
<1>5. CASE n = 4
  BY <1>5
<1> QED
  BY <1>1, <1>2, <1>3, <1>4, <1>5

LEMMA DescribesStill ==
    ASSUME NEW n \in 0 .. 4, Describes(n), schema' = schema \/ schema' = schema \cup {Registry}
    PROVE  Describes(n)'
  BY ObjectsApart DEF Describes

\* A rollback of some steps takes the latest versions.
LEMMA LatestIsUpper ==
    ASSUME NEW n \in 0 .. 4, NEW steps \in Nat
    PROVE  Upper(Latest(1 .. n, steps), n)
<1> SUFFICES ASSUME NEW v \in Latest(1 .. n, steps), NEW w \in v .. n
             PROVE  w \in Latest(1 .. n, steps)
  BY DEF Upper, Latest
<1>1. v \in 1 .. n /\ w \in 1 .. n
  BY DEF Latest
<1>2. /\ {x \in 1 .. n : x >= v} = v .. n
      /\ {x \in 1 .. n : x >= w} = w .. n
  BY <1>1
<1>3. Cardinality(v .. n) = n - v + 1 /\ Cardinality(w .. n) = n - w + 1
  BY <1>1, FS_Interval
<1>4. Cardinality({x \in 1 .. n : x >= v}) <= steps
  BY DEF Latest
<1>5. n - v + 1 <= steps
  BY <1>2, <1>3, <1>4, Zenon
<1>6. n - w + 1 <= steps
  BY <1>1, <1>5
<1>7. Cardinality({x \in 1 .. n : x >= w}) <= steps
  BY <1>2, <1>3, <1>6, Zenon
<1> QED
  BY <1>1, <1>7 DEF Latest

\* What a step of the one program at work has to show.
LEMMA InTurnFrom ==
    ASSUME TypeOK, NEW p \in Procs, Move(p), NEW n \in 0 .. 4, InTurn(n),
           \A q \in Procs \ {p} : ~Working(q),
           NEW m \in 0 .. 4, recorded' = 1 .. m, Ahead(p, m)',
           Working(p)' \/ Describes(m)'
    PROVE  InTurn(m)'
<1>1. ASSUME NEW q \in Procs \ {p} PROVE ~Working(q)' /\ Ahead(q, m)'
  <2>1. pc'[q] = pc[q]
    BY OneProgramMoves
  <2>2. ~Working(q) /\ pc[q] # "upFailed"
    BY DEF InTurn, Ahead
  <2> QED
    BY <2>1, <2>2 DEF Working, Ahead
<1>2. \A q \in Procs : Ahead(q, m)'
  BY <1>1
<1>3. \A q \in Procs : Working(q)' => q = p
  BY <1>1
<1> QED
  BY <1>2, <1>3 DEF InTurn

\* A program that starts while none works and reads the whole record.
LEMMA BeginInTurn ==
    ASSUME TypeOK, NEW p \in Procs, Move(p), NEW n \in 0 .. 4, InTurn(n),
           NEW label \in {"up", "down"}, NEW read, NEW versions,
           Begin(p, label, read, versions), ~torn', ~overlapped',
           schema' = schema \/ schema' = schema \cup {Registry},
           label = "up" => versions = Versions \ read,
           label = "down" => (read = 1 .. n => Upper(versions, n))
    PROVE  InTurn(n)'
<1>1. read = 1 .. n /\ recorded' = 1 .. n
  BY DEF Begin, Applied, InTurn
<1>2. \A q \in Procs : ~Working(q)
  BY DEF Begin
<1>3. Describes(n)
  BY <1>2 DEF InTurn
<1>4. Describes(n)'
  BY <1>3, DescribesStill
<1>5. pc'[p] = label /\ todo'[p] = versions
  BY DEF Begin, Goto, TypeOK
<1>6. label = "up" => versions = (n + 1) .. 4
  <2>1. Versions \ (1 .. n) = (n + 1) .. 4
    BY DEF Versions
  <2> QED
    BY <1>1, <2>1
<1>7. Ahead(p, n)' /\ Working(p)'
  BY <1>1, <1>4, <1>5, <1>6 DEF Ahead, Working, Upper
<1> QED
  BY <1>1, <1>2, <1>7, InTurnFrom

\* A program at work goes on.
LEMMA ProceedInTurn ==
    ASSUME TypeOK, TypeOK', NEW p \in Procs, Proceed(p), Working(p),
           NEW n \in 0 .. 4, InTurn(n)
    PROVE  \E m \in 0 .. 4 : InTurn(m)'
<1>1. Move(p) /\ (\A q \in Procs \ {p} : ~Working(q)) /\ Ahead(p, n) /\ recorded = 1 .. n
  BY DEF Move, InTurn
<1>2. ASSUME NEW m \in 0 .. 4, recorded' = 1 .. m, Ahead(p, m)', Working(p)' \/ Describes(m)'
      PROVE  \E k \in 0 .. 4 : InTurn(k)'
  BY <1>1, <1>2, InTurnFrom
<1>3. CASE ExecUp(p)
  <2>1. todo[p] = (n + 1) .. 4 /\ Describes(n) /\ todo[p] # {}
    BY <1>1, <1>3 DEF ExecUp, Ahead
  <2>2. n \in 0 .. 3 /\ Min(todo[p]) = n + 1
    <3>1. n \in 0 .. 3
      BY <2>1
    <3>2. Min(todo[p]) \in todo[p] /\ \A v \in todo[p] : Min(todo[p]) <= v
      BY <2>1, MinIsLeast DEF TypeOK
    <3> QED
      BY <2>1, <3>1, <3>2
  <2>3. Runs(UpSQL(n + 1)) /\ (schema' = Effect(UpSQL(n + 1)) => Describes(n + 1)')
    BY <2>1, <2>2, UpAdvances
  <2>4. Describes(n + 1)' /\ pc'[p] = "record" /\ todo' = todo /\ recorded' = recorded
    BY <1>3, <2>2, <2>3 DEF ExecUp, Goto, TypeOK
  <2> QED
    BY <1>1, <1>2, <2>1, <2>2, <2>4 DEF Ahead, Working
<1>4. CASE RecordMigration(p)
  <2>1. todo[p] = (n + 1) .. 4 /\ Describes(n + 1) /\ n \in 0 .. 3
    BY <1>1, <1>4 DEF RecordMigration, Ahead
  <2>2. Min(todo[p]) = n + 1
    <3>1. todo[p] \subseteq Versions /\ n + 1 \in todo[p]
      BY <2>1 DEF Versions
    <3>2. Min(todo[p]) \in todo[p] /\ \A v \in todo[p] : Min(todo[p]) <= v
      BY <3>1, MinIsLeast
    <3> QED
      BY <2>1, <3>1, <3>2 DEF Versions
  <2>3. n + 1 \notin recorded
    BY <1>1
  <2>4. /\ recorded' = recorded \cup {n + 1} /\ todo'[p] = todo[p] \ {n + 1}
        /\ pc'[p] = "up" /\ schema' = schema
    BY <1>4, <2>2, <2>3 DEF RecordMigration, Goto, TypeOK
  <2>5. recorded' = 1 .. (n + 1) /\ todo'[p] = ((n + 1) + 1) .. 4
    BY <1>1, <2>1, <2>4
  <2>6. Describes(n + 1)'
    BY <2>1, <2>4, DescribesStill
  <2>7. Ahead(p, n + 1)' /\ Working(p)'
    BY <2>4, <2>5, <2>6 DEF Ahead, Working
  <2> QED
    BY <1>2, <2>1, <2>5, <2>7
<1>5. CASE UpDone(p) \/ DownDone(p)
  <2>1. Describes(n) /\ schema' = schema /\ recorded' = recorded
    BY <1>1, <1>5 DEF UpDone, DownDone, Ahead
  <2>2. pc'[p] \in {"migrated", "stopped"}
    BY <1>5 DEF UpDone, DownDone, Goto, TypeOK
  <2>3. Describes(n)'
    BY <2>1, DescribesStill
  <2> QED
    BY <1>1, <1>2, <2>1, <2>2, <2>3 DEF Ahead
<1>6. CASE ExecDown(p)
  <2>1. Upper(todo[p], n) /\ Describes(n) /\ todo[p] # {}
    BY <1>1, <1>6 DEF ExecDown, Ahead
  <2>2. n \in 1 .. 4 /\ n \in todo[p] /\ Max(todo[p]) = n
    <3>1. PICK v \in todo[p] : v \in 1 .. n /\ v .. n \subseteq todo[p]
      BY <2>1 DEF Upper
    <3>2. n \in todo[p] /\ n \in 1 .. 4
      BY <3>1
    <3>3. Max(todo[p]) \in todo[p] /\ n <= Max(todo[p])
      BY <3>2, MaxIsGreatest DEF TypeOK
    <3> QED
      BY <2>1, <3>2, <3>3 DEF Upper
  <2>3. todo' = todo /\ recorded' = recorded
    BY <1>6 DEF ExecDown
  <2>4. CASE schema' = Effect(DownSQL(n)) /\ Goto(p, "remove")
    <3>1. Describes(n - 1)'
      BY <2>1, <2>2, <2>4, DownRetreats
    <3>2. pc'[p] = "remove"
      BY <2>4 DEF Goto, TypeOK
    <3> QED
      BY <1>1, <1>2, <2>1, <2>2, <2>3, <3>1, <3>2 DEF Ahead, Working, Upper
  <2>5. CASE Goto(p, "downFailed") /\ schema' = schema
    <3>1. Describes(n)'
      BY <2>1, <2>5, DescribesStill
    <3>2. pc'[p] = "downFailed"
      BY <2>5 DEF Goto, TypeOK
    <3> QED
      BY <1>1, <1>2, <2>3, <3>1, <3>2 DEF Ahead
  <2> QED
    BY <1>6, <2>2, <2>4, <2>5 DEF ExecDown
<1>7. CASE RemoveMigration(p)
  <2>1. n \in todo[p] /\ Upper(todo[p], n) /\ Describes(n - 1)
    BY <1>1, <1>7 DEF RemoveMigration, Ahead
  <2>2. n \in 1 .. 4 /\ Max(todo[p]) = n
    <3>1. Max(todo[p]) \in todo[p] /\ n <= Max(todo[p])
      BY <2>1, MaxIsGreatest DEF TypeOK
    <3> QED
      BY <2>1, <3>1 DEF Upper
  <2>3. /\ recorded' = recorded \ {n} /\ todo'[p] = todo[p] \ {n}
        /\ pc'[p] = "down" /\ schema' = schema
    BY <1>7, <2>2 DEF RemoveMigration, Goto, TypeOK
  <2>4. recorded' = 1 .. (n - 1)
    BY <1>1, <2>2, <2>3
  <2>5. Upper(todo'[p], n - 1)
    BY <2>1, <2>2, <2>3 DEF Upper
  <2>6. Describes(n - 1)'
    BY <2>1, <2>2, <2>3, DescribesStill
  <2>7. Ahead(p, n - 1)' /\ Working(p)'
    BY <2>3, <2>5, <2>6 DEF Ahead, Working, Upper
  <2> QED
    BY <1>2, <2>2, <2>4, <2>7
<1> QED
  BY <1>3, <1>4, <1>5, <1>6, <1>7 DEF Proceed, Exit, Working

\* Neither torn nor overlapped is ever reset.
LEMMA HistoryGrows ==
    ASSUME TypeOK, NEW p \in Procs, Move(p)
    PROVE  (torn => torn') /\ (overlapped => overlapped')
<1>1. ASSUME NEW label, NEW read, NEW versions, Begin(p, label, read, versions)
      PROVE  (torn => torn') /\ (overlapped => overlapped')
  <2>1. torn' = torn \/ torn' = TRUE
    BY <1>1 DEF Begin, Applied
  <2>2. overlapped => overlapped'
    BY <1>1 DEF Begin
  <2> QED
    BY <2>1, <2>2
<1>2. CASE MigrateUp(p)
  BY <1>1, <1>2 DEF MigrateUp
<1>3. CASE \E steps \in 1 .. MaxSteps : MigrateDown(p, steps)
  BY <1>1, <1>3 DEF MigrateDown
<1>4. CASE MigrationStatus(p)
  BY <1>4 DEF MigrationStatus, history
<1>5. CASE Proceed(p)
  BY <1>5 DEF Proceed, ExecUp, RecordMigration, UpDone, ExecDown, RemoveMigration,
              DownDone, Exit, history
<1>6. CASE Fault(p)
  <2>1. torn' = (torn \/ pc[p] \in {"record", "remove"}) /\ overlapped' = overlapped
    BY <1>6 DEF Fault
  <2> QED
    BY <2>1
<1> QED
  BY <1>2, <1>3, <1>4, <1>5, <1>6 DEF Move

LEMMA TakingTurnsStep ==
    ASSUME TypeOK, TypeOK', TakingTurns, NEW p \in Procs, Move(p)
    PROVE  TakingTurns'
<1> SUFFICES ASSUME ~torn', ~overlapped' PROVE \E m \in 0 .. 4 : InTurn(m)'
  BY DEF TakingTurns
<1>1. PICK n \in 0 .. 4 : InTurn(n)
  BY HistoryGrows DEF TakingTurns
<1>2. CASE MigrateUp(p)
  <2>1. PICK read \in SUBSET recorded : Begin(p, "up", read, Versions \ read)
    BY <1>2 DEF MigrateUp
  <2>2. schema' = schema \cup {Registry}
    BY <1>2 DEF MigrateUp
  <2> QED
    BY <1>1, <2>1, <2>2, BeginInTurn
<1>3. CASE \E steps \in 1 .. MaxSteps : MigrateDown(p, steps)
  <2>1. PICK steps \in 1 .. MaxSteps, read \in SUBSET recorded :
           Begin(p, "down", read, Latest(read, steps))
    BY <1>3 DEF MigrateDown
  <2>2. schema' = schema
    BY <1>3 DEF MigrateDown
  <2>3. read = 1 .. n => Upper(Latest(read, steps), n)
    <3>1. steps \in Nat
      BY MigrationsAssumption
    <3>2. Upper(Latest(1 .. n, steps), n)
      BY <3>1, LatestIsUpper
    <3> QED
      BY <3>2, Zenon
  <2> QED
    BY <1>1, <2>1, <2>2, <2>3, BeginInTurn
<1>4. CASE MigrationStatus(p)
  <2>1. /\ schema' = schema \cup {Registry}
        /\ pc' = pc /\ todo' = todo /\ recorded' = recorded
    BY <1>4 DEF MigrationStatus
  <2>2. ASSUME NEW m \in 0 .. 4, Describes(m) PROVE Describes(m)'
    BY <2>1, <2>2, DescribesStill
  <2>3. ASSUME NEW q \in Procs PROVE Ahead(q, n)'
    <3>1. Ahead(q, n)
      BY <1>1 DEF InTurn
    <3>2. pc[q] = "remove" => n - 1 \in 0 .. 4
      BY <3>1 DEF Ahead, Upper
    <3> QED
      BY <2>1, <2>2, <3>1, <3>2 DEF Ahead, Upper
  <2>4. InTurn(n)'
    BY <1>1, <2>1, <2>2, <2>3 DEF InTurn, Working
  <2> QED
    BY <2>4
<1>5. CASE Proceed(p) /\ Working(p)
  BY <1>1, <1>5, ProceedInTurn
<1>6. CASE Exit(p)
  <2>1. ~Working(p) /\ pc'[p] = "stopped" /\ schema' = schema /\ recorded' = recorded
    BY <1>6 DEF Exit, Goto, Working, TypeOK
  <2>2. ASSUME NEW m \in 0 .. 4, Describes(m) PROVE Describes(m)'
    BY <2>1, <2>2, DescribesStill
  <2>3. ASSUME NEW q \in Procs PROVE Ahead(q, n)' /\ (Working(q)' <=> Working(q))
    <3>1. Ahead(q, n)
      BY <1>1 DEF InTurn
    <3>2. pc[q] = "remove" => n - 1 \in 0 .. 4
      BY <3>1 DEF Ahead, Upper
    <3>3. CASE q = p
      BY <2>1, <3>3 DEF Ahead, Working
    <3>4. CASE q # p
      <4>1. pc'[q] = pc[q] /\ todo'[q] = todo[q]
        BY <3>4, OneProgramMoves
      <4> QED
        BY <2>2, <3>1, <3>2, <4>1 DEF Ahead, Upper, Working
    <3> QED
      BY <3>3, <3>4
  <2>4. InTurn(n)'
    BY <1>1, <2>1, <2>2, <2>3 DEF InTurn
  <2> QED
    BY <2>4
<1>7. CASE Fault(p)
  <2>1. /\ pc[p] \in {"up", "down"} /\ pc'[p] = "stopped"
        /\ schema' = schema /\ recorded' = recorded
    BY <1>7 DEF Fault, Goto, Working, TypeOK
  <2>2. Ahead(p, n) /\ recorded = 1 .. n /\ \A q \in Procs \ {p} : ~Working(q)
    BY <1>1, <2>1 DEF InTurn, Working
  <2>3. Describes(n)'
    BY <2>1, <2>2, DescribesStill DEF Ahead
  <2>4. Ahead(p, n)'
    BY <2>1 DEF Ahead
  <2> QED
    BY <1>1, <2>1, <2>2, <2>3, <2>4, InTurnFrom
<1> QED
  BY <1>2, <1>3, <1>4, <1>5, <1>6, <1>7
  DEF Move, Proceed, ExecUp, RecordMigration, UpDone, ExecDown, RemoveMigration,
      DownDone, Working

\* The schema after the first n migrations, without recursion.
LEMMA SchemaAtStages ==
    /\ SchemaAt[0] = {}
    /\ \A n \in 1 .. 4 : SchemaAt[n] = (SchemaAt[n - 1] \ UpSQL(n).drops) \cup UpSQL(n).adds
<1> DEFINE G(f) == [n \in 0 .. 4 |->
                        IF n = 0 THEN {} ELSE (f[n - 1] \ UpSQL(n).drops) \cup UpSQL(n).adds]
<1> DEFINE s0 == {}
<1> DEFINE s1 == (s0 \ UpSQL(1).drops) \cup UpSQL(1).adds
<1> DEFINE s2 == (s1 \ UpSQL(2).drops) \cup UpSQL(2).adds
<1> DEFINE s3 == (s2 \ UpSQL(3).drops) \cup UpSQL(3).adds
<1> DEFINE s4 == (s3 \ UpSQL(4).drops) \cup UpSQL(4).adds
<1> DEFINE g == [n \in 0 .. 4 |->
                    IF n = 0 THEN s0 ELSE IF n = 1 THEN s1 ELSE IF n = 2 THEN s2
                    ELSE IF n = 3 THEN s3 ELSE s4]
<1>1. g = G(g)
  OBVIOUS
<1>2. SchemaAt = CHOOSE f : f = G(f)
  BY DEF SchemaAt
<1>3. SchemaAt = G(SchemaAt)
  BY <1>1, <1>2
<1> QED
  BY <1>3

--------------------------------------------------------------------------------
(* The theorems                                                            *)

IInv == TypeOK /\ GoingUp /\ TakingTurns

LEMMA InitEstablishes == Init => IInv
<1> SUFFICES ASSUME Init PROVE IInv
  OBVIOUS
<1>1. GoingUp
  BY DEF Init, GoingUp, GoesUp
<1>2. InTurn(0)
  BY DEF Init, InTurn, Ahead, Describes, Working
<1>3. TakingTurns
  BY <1>2 DEF TakingTurns
<1> QED
  BY <1>1, <1>3, TypeInit DEF IInv

LEMMA StepPreserves == IInv /\ [Next]_vars => IInv'
<1> SUFFICES ASSUME IInv, [Next]_vars PROVE IInv'
  OBVIOUS
<1>1. ASSUME NEW p \in Procs, Move(p) PROVE IInv'
  <2>1. TypeOK'
    BY <1>1, TypeStep DEF IInv
  <2> QED
    BY <1>1, <2>1, GoingUpStep, TakingTurnsStep DEF IInv
<1>2. CASE UNCHANGED vars
  BY <1>2 DEF vars, IInv, TypeOK, GoingUp, GoesUp, HasRun, TakingTurns, InTurn, Ahead,
              Describes, Working
<1> QED
  BY <1>1, <1>2 DEF Next, Move

\* The inductive invariant holds in every reachable state.
THEOREM Invariant == Spec => []IInv
<1> QED
  BY InitEstablishes, StepPreserves, PTL DEF Spec

\* Every program works on versions that exist, and one that is about to update the
\* record has the version for it.
THEOREM TypeCorrect == Spec => []TypeOK
<1>1. IInv => TypeOK
  BY DEF IInv
<1> QED
  BY Invariant, <1>1, PTL

\* However many servers migrate at the same time, wherever they fail or die and
\* whatever part of the record they are told: once MigrateUp has returned nil,
\* every version is recorded and the schema has what the queries name, unless
\* somebody has started a rollback.
THEOREM ServersFindTheirSchema == Spec => []ServingSchema
<1>1. IInv => ServingSchema
  <2> SUFFICES ASSUME IInv, NEW p \in Procs, pc[p] = "migrated", ~rolledBack
               PROVE  Needed \subseteq schema /\ recorded = Versions
    BY DEF ServingSchema
  <2>1. recorded = Versions /\ \A v \in Versions : HasRun(v)
    BY DEF IInv, GoingUp, GoesUp
  <2>2. HasRun(1) /\ HasRun(3) /\ HasRun(4)
    BY <2>1 DEF Versions
  <2> QED
    BY <2>1, <2>2 DEF HasRun, Needed
<1> QED
  BY Invariant, <1>1, PTL

\* Programs at the same time do not leave gaps in the record.
THEOREM RecordHasNoGaps == Spec => []RecordedPrefix
<1>1. IInv => RecordedPrefix
  BY DEF IInv, GoingUp, RecordedPrefix
<1> QED
  BY Invariant, <1>1, PTL

\* As long as programs take turns and none is torn apart between a migration and
\* its record, the recorded versions tell the schema between two programs.
THEOREM RecordTellsSchema == Spec => []SchemaFollowsRecord
<1>1. IInv => SchemaFollowsRecord
  <2> SUFFICES ASSUME IInv, ~torn, ~overlapped, \A p \in Procs : ~Working(p)
               PROVE  /\ recorded = 1 .. Cardinality(recorded)
                      /\ schema \ {"token_revocations", Registry}
                            = SchemaAt[Cardinality(recorded)]
    BY DEF SchemaFollowsRecord
  <2>1. PICK n \in 0 .. 4 : InTurn(n)
    BY DEF IInv, TakingTurns
  <2>2. recorded = 1 .. n /\ Describes(n)
    BY <2>1 DEF InTurn
  <2>3. Cardinality(1 .. n) = n
    <3>1. Cardinality(1 .. n) = IF 1 > n THEN 0 ELSE n - 1 + 1
      BY FS_Interval
    <3> QED
      BY <3>1
  <2>4. schema \ {"token_revocations", Registry} = SchemaAt[n]
    <3>1. schema \ {"token_revocations", Registry} \subseteq
              {"users", "file_uploads", RevokedBefore, LastRevoked, LastLogin}
      BY DEF IInv, TypeOK, Objects, UserColumns
    <3>2. /\ SchemaAt[1] = {"users"}
          /\ SchemaAt[2] = {"users", RevokedBefore}
      BY UpParts, SchemaAtStages DEF Sql, RevokedBefore
    <3>3. SchemaAt[3] = {"users", RevokedBefore, "file_uploads"}
      BY <3>2, UpParts, SchemaAtStages DEF Sql
    <3>4. SchemaAt[4] = {"users", "file_uploads", LastRevoked, LastLogin}
      BY <3>3, UpParts, SchemaAtStages, ObjectsApart DEF Sql
    <3> DEFINE core == schema \ {"token_revocations", Registry}
    <3>5. \A o \in {"users", "file_uploads", RevokedBefore, LastRevoked, LastLogin} :
             o \in core <=> o \in schema
      BY ObjectsApart
    <3> HIDE DEF core
    <3>6. n = 0 => core = {}
      BY <2>2, <3>1, <3>5 DEF Describes, core
    <3>7. n = 1 => core = {"users"}
      BY <2>2, <3>1, <3>5 DEF Describes, core
    <3>8. n = 2 => core = {"users", RevokedBefore}
      BY <2>2, <3>1, <3>5 DEF Describes, core
    <3>9. n = 3 => core = {"users", RevokedBefore, "file_uploads"}
      BY <2>2, <3>1, <3>5 DEF Describes, core
    <3>10. n = 4 => core = {"users", "file_uploads", LastRevoked, LastLogin}
      BY <2>2, <3>1, <3>5 DEF Describes, core
    <3>11. n = 0 \/ n = 1 \/ n = 2 \/ n = 3 \/ n = 4
      OBVIOUS
    <3> QED
      BY <3>2, <3>3, <3>4, <3>6, <3>7, <3>8, <3>9, <3>10, <3>11, SchemaAtStages DEF core
  <2> QED
    BY <2>2, <2>3, <2>4
<1> QED
  BY Invariant, <1>1, PTL

\* And then no MigrateUp ever fails.
THEOREM UpFailsOnlyForAReason == Spec => []UpFailsForAReason
<1>1. IInv => UpFailsForAReason
  BY DEF IInv, TakingTurns, InTurn, Ahead, UpFailsForAReason
<1> QED
  BY Invariant, <1>1, PTL

================================================================================

-------------------------- MODULE MigrationFilesProofs ---------------------------
(***************************************************************************)
(* Theorems about MigrationFiles, for any file names, whatever developers  *)
(* write into the files, and directories of any size.                      *)
(***************************************************************************)
EXTENDS MigrationFiles, FiniteSetTheorems, WellFoundedInduction, TLAPS

--------------------------------------------------------------------------------
(* Folds over a sequence                                                   *)

\* Induction over a set of numbers, from the well-foundedness of <.
LEMMA Induct ==
    ASSUME NEW S, 0 \in S, \A n \in Nat : n \in S => n + 1 \in S
    PROVE  Nat \subseteq S
<1> DEFINE bad == {n \in Nat : n \notin S}
<1> SUFFICES ASSUME bad # {} PROVE FALSE
  OBVIOUS
<1>1. PICK n \in bad : \A m \in bad : <<m, n>> \notin OpToRel(<, Nat)
  <2>1. bad \subseteq Nat
    OBVIOUS
  <2> HIDE DEF bad
  <2> QED
    BY <2>1, NatLessThanWellFounded, WFMin, Zenon
<1>2. \A m \in bad : ~(m < n)
  BY <1>1, Zenon DEF OpToRel
<1>3. n # 0 /\ n - 1 \in Nat /\ n - 1 < n /\ (n - 1) + 1 = n
  OBVIOUS
<1> QED
  BY <1>2, <1>3

\* A set of indices has a last one.
LEMMA MaxIsLast ==
    ASSUME NEW n \in Nat, NEW s \in SUBSET (1 .. n), s # {}
    PROVE  Max(s) \in s /\ \A i \in s : i <= Max(s)
<1> DEFINE Greatest(t) == \E x \in t : \A y \in t : x >= y
           S == {k \in Nat : \A t \in SUBSET (1 .. k) : t # {} => Greatest(t)}
<1>1. 0 \in S
  <2>1. 1 .. 0 = {}
    OBVIOUS
  <2> QED
    BY <2>1
<1>2. ASSUME NEW k \in Nat, k \in S PROVE k + 1 \in S
  <2> SUFFICES ASSUME NEW t \in SUBSET (1 .. (k + 1)), t # {} PROVE Greatest(t)
    OBVIOUS
  <2>1. CASE k + 1 \in t
    <3>1. \A y \in t : k + 1 >= y
      OBVIOUS
    <3> QED
      BY <2>1, <3>1
  <2>2. CASE k + 1 \notin t
    <3>1. t \in SUBSET (1 .. k)
      BY <2>2
    <3> QED
      BY <1>2, <3>1
  <2> QED
    BY <2>1, <2>2
<1>3. Nat \subseteq S
  <2> HIDE DEF S
  <2> QED
    BY <1>1, <1>2, Induct
<1>4. \E x \in s : \A y \in s : x >= y
  BY <1>3
<1>5. Max(s) \in s /\ \A y \in s : Max(s) >= y
  BY <1>4 DEF Max
<1> QED
  BY <1>5

\* The fold of G over the sets of indices, from the last one.
Folds(h, n, base, G) ==
    \A s \in SUBSET (1 .. n) :
        h[s] = IF s = {} THEN base ELSE G[Max(s)][h[s \ {Max(s)}]]

\* A fold of a total function exists.
LEMMA FoldExists ==
    ASSUME NEW n \in Nat, NEW R, NEW base \in R, NEW G \in [1 .. n -> [R -> R]]
    PROVE  \E h \in [SUBSET (1 .. n) -> R] : Folds(h, n, base, G)
<1> DEFINE D == SUBSET (1 .. n)
           Eq(h, s) == h[s] = IF s = {} THEN base ELSE G[Max(s)][h[s \ {Max(s)}]]
           Good(h, k) == \A s \in D : (\A i \in s : i <= k) => Eq(h, s)
           S == {k \in Nat : \E h \in [D -> R] : Good(h, k)}
<1>1. 0 \in S
  <2> DEFINE h == [s \in D |-> base]
  <2>1. h \in [D -> R]
    OBVIOUS
  <2>2. ASSUME NEW s \in D, \A i \in s : i <= 0 PROVE Eq(h, s)
    <3>1. s = {}
      BY <2>2
    <3> QED
      BY <3>1
  <2>3. Good(h, 0)
    BY <2>2
  <2> HIDE DEF h, Good
  <2> QED
    BY <2>1, <2>3
<1>2. ASSUME NEW k \in Nat, k \in S PROVE k + 1 \in S
  <2>1. PICK g \in [D -> R] : Good(g, k)
    BY <1>2
  <2> DEFINE h == [s \in D |-> IF s = {} THEN base
                                ELSE G[Max(s)][g[s \ {Max(s)}]]]
  <2>2. ASSUME NEW s \in D, s # {}
        PROVE  Max(s) \in 1 .. n /\ Max(s) \in s /\ s \ {Max(s)} \in D
    BY <2>2, MaxIsLast
  <2>3. h \in [D -> R]
    <3>1. ASSUME NEW s \in D, s # {} PROVE G[Max(s)][g[s \ {Max(s)}]] \in R
      <4>1. g[s \ {Max(s)}] \in R /\ Max(s) \in 1 .. n
        BY <2>2, <3>1
      <4> QED
        BY <4>1
    <3> HIDE DEF D
    <3> QED
      BY <3>1
  <2>4. ASSUME NEW s \in D, \A i \in s : i <= k PROVE h[s] = g[s]
    BY <2>1, <2>4
  <2>5. ASSUME NEW s \in D, s # {}, \A i \in s : i <= k + 1 PROVE Eq(h, s)
    <3> DEFINE t == s \ {Max(s)}
    <3>1. t \in D /\ Max(s) \in s /\ \A i \in s : i <= Max(s)
      BY <2>2, <2>5, MaxIsLast
    <3>2. \A i \in t : i <= k
      <4>1. PICK m \in 1 .. n : m = Max(s) /\ m <= k + 1
        BY <2>2, <2>5
      <4>2. ASSUME NEW i \in t PROVE i <= k
        <5>1. i \in 1 .. n /\ i # m /\ i <= m
          BY <3>1, <4>1
        <5> QED
          BY <4>1, <5>1
      <4> QED
        BY <4>2
    <3>3. h[t] = g[t]
      BY <2>4, <3>1, <3>2
    <3>4. h[s] = G[Max(s)][g[t]]
      BY <2>5
    <3> QED
      BY <2>5, <3>3, <3>4
  <2>6. Good(h, k + 1)
    BY <2>5
  <2> HIDE DEF h, Good
  <2> QED
    BY <2>3, <2>6
<1>3. n \in S
  <2> HIDE DEF S
  <2> QED
    BY <1>1, <1>2, Induct
<1>4. PICK h \in [D -> R] : Good(h, n)
  BY <1>3
<1>5. \A s \in D : Eq(h, s)
  <2>1. \A s \in D : \A i \in s : i <= n
    OBVIOUS
  <2> QED
    BY <1>4, <2>1
<1> QED
  BY <1>4, <1>5 DEF Folds

--------------------------------------------------------------------------------
(* The SQL of a file                                                       *)

\* What a file executes concerns its own object only.
LEMMA ExecOwn ==
    ASSUME NEW sql, NEW f, NEW objs
    PROVE  Exec(sql, f, objs) \in {objs, objs \cup {f}, objs \ {f}}
  BY DEF Exec

LEMMA SingleStatement ==
    ASSUME NEW S, NEW t \in Seq(S), Len(t) = 1
    PROVE  t = <<t[1]>>
<1> DEFINE e == t[1]
           u == <<e>>
<1>1. DOMAIN t = 1 .. 1 /\ t = [i \in DOMAIN t |-> t[i]]
  OBVIOUS
<1>2. DOMAIN u = 1 .. 1 /\ u = [i \in DOMAIN u |-> u[i]] /\ u[1] = e
  OBVIOUS
<1>3. \A i \in 1 .. 1 : t[i] = u[i]
  BY <1>2
<1> HIDE DEF u
<1>4. t = u
  BY <1>1, <1>2, <1>3
<1> QED
  BY <1>4 DEF u

\* The two parts of a file as the guide has it.
LEMMA GuideFile ==
    ASSUME NEW body, body = <<Up, "create", Down, "drop">>
    PROVE  UpSQL(body) = <<"create">> /\ DownSQL(body) = <<"drop">>
<1>1. Up # Down /\ Up # "create" /\ Up # "drop" /\ Down # "create" /\ Down # "drop"
  BY DEF Up, Down
<1>2. {i \in DOMAIN body : body[i] = Up} = {1} /\ {i \in DOMAIN body : body[i] = Down} = {3}
  BY <1>1
<1>3. Min({1}) = 1 /\ Min({3}) = 3
  BY DEF Min
<1>4. Index(body, Up) = 1 /\ Index(body, Down) = 3
  BY <1>2, <1>3 DEF Index
<1>5. Len(body) = 4 /\ body[2] = "create" /\ body[4] = "drop"
  OBVIOUS
<1>6. body \in Seq({Up, "create", Down, "drop"})
  OBVIOUS
<1>7. SubSeq(body, 2, 2) = <<"create">>
  <2>1. SubSeq(body, 2, 2) \in Seq({Up, "create", Down, "drop"})
    BY <1>5, <1>6
  <2>2. Len(SubSeq(body, 2, 2)) = 1 /\ SubSeq(body, 2, 2)[1] = "create"
    BY <1>5, <1>6
  <2> QED
    BY <2>1, <2>2, SingleStatement
<1>8. SubSeq(body, 4, 4) = <<"drop">>
  <2>1. SubSeq(body, 4, 4) \in Seq({Up, "create", Down, "drop"})
    BY <1>5, <1>6
  <2>2. Len(SubSeq(body, 4, 4)) = 1 /\ SubSeq(body, 4, 4)[1] = "drop"
    BY <1>5, <1>6
  <2> QED
    BY <2>1, <2>2, SingleStatement
<1> QED
  BY <1>4, <1>5, <1>7, <1>8 DEF UpSQL, DownSQL

LEMMA GuideEffect ==
    ASSUME NEW body, body = <<Up, "create", Down, "drop">>, NEW f, NEW objs
    PROVE  /\ Exec(UpSQL(body), f, objs) = objs \cup {f}
           /\ Exec(DownSQL(body), f, objs) = objs \ {f}
           /\ DownSQL(body) # <<>>
<1>1. \A word \in {"create", "drop"} :
         {i \in DOMAIN <<word>> : <<word>>[i] \notin {Up, Down}} = {1}
  <2> SUFFICES ASSUME NEW word \in {"create", "drop"}
               PROVE  {i \in DOMAIN <<word>> : <<word>>[i] \notin {Up, Down}} = {1}
    OBVIOUS
  <2>1. DOMAIN <<word>> = {1} /\ <<word>>[1] = word
    OBVIOUS
  <2>2. word # Up /\ word # Down
    BY DEF Up, Down
  <2> QED
    BY <2>1, <2>2
<1>2. Max({1}) = 1
  BY DEF Max
<1>3. Exec(<<"create">>, f, objs) = objs \cup {f} /\ Exec(<<"drop">>, f, objs) = objs \ {f}
  BY <1>1, <1>2 DEF Exec
<1> QED
  BY <1>3, GuideFile

--------------------------------------------------------------------------------
(* MigrateUp                                                               *)

UpStart == [objects |-> objects, recorded |-> recorded, ok |-> TRUE]

\* What MigrateUp can make of its start.
UpRuns ==
    [objects  : SUBSET (objects \cup DOMAIN dir),
     recorded : SUBSET (recorded \cup {f.version : f \in DOMAIN dir}),
     ok       : BOOLEAN]

\* One file: it is passed over or executed and recorded.
LEMMA ApplyCases ==
    ASSUME NEW run \in UpRuns, NEW f \in DOMAIN dir
    PROVE  /\ Apply(run, f) \in UpRuns
           /\ \/ Apply(run, f) = run /\ (run.ok => f.version \in recorded)
              \/ /\ Apply(run, f).objects = Exec(UpSQL(dir[f]), f, run.objects)
                 /\ Apply(run, f).recorded = run.recorded \cup {f.version}
                 /\ Apply(run, f).ok => run.ok
<1>1. CASE ~run.ok \/ f.version \in recorded
  BY <1>1 DEF Apply
<1>2. CASE run.ok /\ f.version \notin recorded
  <2> DEFINE objs == Exec(UpSQL(dir[f]), f, run.objects)
             new  == [objects  |-> objs,
                      recorded |-> run.recorded \cup {f.version},
                      ok       |-> f.version \notin run.recorded]
  <2>1. run.objects \in SUBSET (objects \cup DOMAIN dir)
    BY DEF UpRuns
  <2>2. objs \in SUBSET (objects \cup DOMAIN dir)
    BY <2>1, ExecOwn
  <2> HIDE DEF objs
  <2>3. Apply(run, f) = new
    BY <1>2 DEF Apply, UpRuns, objs
  <2>4. new \in UpRuns
    BY <2>2 DEF UpRuns
  <2> QED
    BY <1>2, <2>3, <2>4 DEF objs
<1> QED
  BY <1>1, <1>2

\* The fold behind MigrateUp: what is made of its start by a set of files.
UpFold(files) ==
    CHOOSE iter : iter = [s \in SUBSET (DOMAIN files) |->
        IF s = {} THEN UpStart ELSE Apply(iter[s \ {Max(s)}], files[Max(s)])]

LEMMA UpIsFold ==
    ASSUME NEW files
    PROVE  FoldLeft(Apply, UpStart, files) = UpFold(files)[DOMAIN files]
  BY DEF FoldLeft, MapThenFoldSet, UpFold

LEMMA UpFoldExists ==
    ASSUME NEW n \in Nat, NEW files \in [1 .. n -> DOMAIN dir]
    PROVE  UpFold(files) = [s \in SUBSET (1 .. n) |->
               IF s = {} THEN UpStart
               ELSE Apply(UpFold(files)[s \ {Max(s)}], files[Max(s)])]
<1> DEFINE G == [i \in 1 .. n |-> [run \in UpRuns |-> Apply(run, files[i])]]
<1>1. UpStart \in UpRuns
  BY DEF UpStart, UpRuns
<1>2. G \in [1 .. n -> [UpRuns -> UpRuns]]
  BY ApplyCases
<1>3. PICK h \in [SUBSET (1 .. n) -> UpRuns] : Folds(h, n, UpStart, G)
  <2> HIDE DEF G
  <2> QED
    BY <1>1, <1>2, FoldExists
<1>4. ASSUME NEW s \in SUBSET (1 .. n), s # {}
      PROVE  G[Max(s)][h[s \ {Max(s)}]] = Apply(h[s \ {Max(s)}], files[Max(s)])
  <2>1. Max(s) \in 1 .. n /\ s \ {Max(s)} \in SUBSET (1 .. n)
    BY <1>4, MaxIsLast
  <2>2. h[s \ {Max(s)}] \in UpRuns
    BY <2>1
  <2> QED
    BY <2>1, <2>2
<1> HIDE DEF G
<1>5. h = [s \in SUBSET (1 .. n) |->
              IF s = {} THEN UpStart ELSE Apply(h[s \ {Max(s)}], files[Max(s)])]
  BY <1>3, <1>4 DEF Folds
<1>6. DOMAIN files = 1 .. n
  OBVIOUS
<1> QED
  BY <1>5, <1>6 DEF UpFold

\* MigrateUp goes through the files in their order.
LEMMA UpFoldSteps ==
    ASSUME NEW n \in Nat, NEW files \in [1 .. n -> DOMAIN dir]
    PROVE  /\ UpFold(files)[1 .. 0] = UpStart
           /\ \A k \in 1 .. n :
                 UpFold(files)[1 .. k] = Apply(UpFold(files)[1 .. (k - 1)], files[k])
           /\ FoldLeft(Apply, UpStart, files) = UpFold(files)[1 .. n]
<1>1. UpFold(files)[1 .. 0] = UpStart
  <2>1. 1 .. 0 = {}
    OBVIOUS
  <2> QED
    BY <2>1, UpFoldExists
<1>2. ASSUME NEW k \in 1 .. n
      PROVE  UpFold(files)[1 .. k] = Apply(UpFold(files)[1 .. (k - 1)], files[k])
  <2>1. 1 .. k \in SUBSET (1 .. n) /\ k \in 1 .. k
    <3>1. \A i \in 1 .. k : i \in 1 .. n
      OBVIOUS
    <3> QED
      BY <3>1
  <2>2. Max(1 .. k) = k
    <3>1. Max(1 .. k) \in 1 .. k /\ k <= Max(1 .. k)
      BY <2>1, MaxIsLast
    <3> QED
      BY <3>1
  <2>3. (1 .. k) \ {k} = 1 .. (k - 1)
    OBVIOUS
  <2>4. UpFold(files)[1 .. k]
          = Apply(UpFold(files)[(1 .. k) \ {Max(1 .. k)}], files[Max(1 .. k)])
    <3> DEFINE s == 1 .. k
    <3>1. s \in SUBSET (1 .. n) /\ s # {}
      BY <2>1
    <3> HIDE DEF s
    <3>2. UpFold(files)[s] = Apply(UpFold(files)[s \ {Max(s)}], files[Max(s)])
      BY <3>1, UpFoldExists
    <3> QED
      BY <3>2 DEF s
  <2> QED
    BY <2>2, <2>3, <2>4
<1>3. DOMAIN files = 1 .. n
  OBVIOUS
<1> QED
  BY <1>1, <1>2, <1>3, UpIsFold

--------------------------------------------------------------------------------
(* The invariant                                                           *)

\* There are finitely many files and versions.
Bounded == IsFiniteSet(DOMAIN dir) /\ IsFiniteSet(recorded)

\* Nothing is in the database whose version was never recorded, so that a version
\* that never was has left nothing behind.
Remembered ==
    /\ recorded \subseteq applied
    /\ \A f \in objects : f.version \in applied

IInv == Bounded /\ Remembered /\ RecordTellsEffect /\ NothingPending

\* A directory is read completely.
LEMMA AllAreLoaded ==
    ASSUME NEW D, IsFiniteSet(D), NEW files \in SetToSeqs(D)
    PROVE  /\ Cardinality(D) \in Nat
           /\ files \in [1 .. Cardinality(D) -> D]
           /\ \A f \in D : \E i \in 1 .. Cardinality(D) : files[i] = f
<1> DEFINE n == Cardinality(D)
<1>1. n \in Nat
  BY FS_CardinalityType
<1>2. files \in [1 .. n -> D] /\ \A i, j \in 1 .. n : i # j => files[i] # files[j]
  BY DEF SetToSeqs
<1> HIDE DEF n
<1>3. files \in Injection(1 .. n, D)
  BY <1>2 DEF Injection, IsInjective
<1>4. Cardinality(1 .. n) = n
  BY <1>1, FS_Interval
<1>5. files \in Surjection(1 .. n, D)
  BY <1>3, <1>4, FS_Injection DEF n
<1> QED
  BY <1>1, <1>2, <1>5 DEF Surjection, n

\* What holds of MigrateUp between two files.
UpGood(run) ==
    /\ recorded \subseteq run.recorded
    /\ IsFiniteSet(run.recorded)
    /\ \A f \in run.objects : f.version \in applied \cup run.recorded
    /\ \A f \in DOMAIN dir :
          Sound(f) => (f \in run.objects <=> f.version \in run.recorded)

LEMMA ApplyGood ==
    ASSUME NEW run \in UpRuns, UpGood(run), NEW f \in DOMAIN dir
    PROVE  /\ UpGood(Apply(run, f))
           /\ run.recorded \subseteq Apply(run, f).recorded
           /\ Apply(run, f).ok => run.ok /\ f.version \in Apply(run, f).recorded
<1> DEFINE new == Apply(run, f)
<1>1. CASE new = run /\ (run.ok => f.version \in recorded)
  BY <1>1 DEF UpGood
<1>2. CASE /\ new.objects = Exec(UpSQL(dir[f]), f, run.objects)
           /\ new.recorded = run.recorded \cup {f.version}
           /\ new.ok => run.ok
  <2> HIDE DEF new
  <2>1. new.objects \in {run.objects, run.objects \cup {f}, run.objects \ {f}}
    BY <1>2, ExecOwn
  <2>2. IsFiniteSet(new.recorded)
    BY <1>2, FS_AddElement DEF UpGood
  <2>3. \A g \in new.objects : g.version \in applied \cup new.recorded
    BY <1>2, <2>1 DEF UpGood
  <2>4. ASSUME NEW g \in DOMAIN dir, Sound(g)
        PROVE  g \in new.objects <=> g.version \in new.recorded
    <3>1. CASE g = f
      <4>1. new.objects = run.objects \cup {f}
        BY <1>2, <2>4, <3>1, GuideEffect DEF Sound
      <4> QED
        BY <1>2, <3>1, <4>1
    <3>2. CASE g # f
      <4>1. f.version # g.version
        BY <2>4, <3>2 DEF Sound
      <4> QED
        BY <1>2, <2>1, <2>4, <3>2, <4>1 DEF UpGood
    <3> QED
      BY <3>1, <3>2
  <2> QED
    BY <1>2, <2>2, <2>3, <2>4 DEF UpGood, new
<1> QED
  BY <1>1, <1>2, ApplyCases

\* What holds when MigrateUp has been through its files.
LEMMA UpRunGood ==
    ASSUME Bounded, Remembered, RecordTellsEffect,
           NEW n \in Nat, NEW files \in [1 .. n -> DOMAIN dir]
    PROVE  LET run == FoldLeft(Apply, UpStart, files)
           IN  /\ UpGood(run)
               /\ run.ok => \A i \in 1 .. n : files[i].version \in run.recorded
<1> DEFINE R(k) == UpFold(files)[1 .. k]
           Through(k) == /\ R(k) \in UpRuns
                         /\ UpGood(R(k))
                         /\ R(k).ok => \A i \in 1 .. k : files[i].version \in R(k).recorded
           S == {k \in Nat : k <= n => Through(k)}
<1>1. 0 \in S
  <2>1. R(0) = UpStart
    BY UpFoldSteps
  <2>2. UpStart \in UpRuns
    BY DEF UpStart, UpRuns
  <2>3. UpGood(UpStart)
    BY DEF UpGood, UpStart, Bounded, Remembered, RecordTellsEffect
  <2>4. 1 .. 0 = {}
    OBVIOUS
  <2> QED
    BY <2>1, <2>2, <2>3, <2>4
<1>2. ASSUME NEW k \in Nat, k \in S PROVE k + 1 \in S
  <2> SUFFICES ASSUME k + 1 <= n PROVE Through(k + 1)
    OBVIOUS
  <2>1. Through(k) /\ k + 1 \in 1 .. n
    BY <1>2
  <2>2. files[k + 1] \in DOMAIN dir
    BY <2>1
  <2>3. R(k + 1) = Apply(R(k), files[k + 1])
    <3>1. k + 1 \in 1 .. n /\ (k + 1) - 1 = k
      OBVIOUS
    <3>2. PICK m \in 1 .. n : m = k + 1 /\ m - 1 = k
      BY <3>1
    <3>3. R(m) = Apply(R(m - 1), files[m])
      BY UpFoldSteps
    <3> HIDE DEF R
    <3> QED
      BY <3>2, <3>3
  <2> HIDE DEF R
  <2>4. R(k + 1) \in UpRuns
    BY <2>1, <2>2, <2>3, ApplyCases
  <2>5. /\ UpGood(R(k + 1))
        /\ R(k).recorded \subseteq R(k + 1).recorded
        /\ R(k + 1).ok => R(k).ok /\ files[k + 1].version \in R(k + 1).recorded
    BY <2>1, <2>2, <2>3, ApplyGood
  <2>6. ASSUME R(k + 1).ok, NEW i \in 1 .. (k + 1)
        PROVE  files[i].version \in R(k + 1).recorded
    <3>1. CASE i = k + 1
      BY <2>5, <2>6, <3>1
    <3>2. CASE i \in 1 .. k
      BY <2>1, <2>5, <2>6, <3>2
    <3> QED
      BY <3>1, <3>2
  <2> QED
    BY <2>4, <2>5, <2>6
<1>3. n \in S
  <2> HIDE DEF S
  <2> QED
    BY <1>1, <1>2, Induct
<1>4. Through(n)
  BY <1>3
<1> HIDE DEF R
<1>5. FoldLeft(Apply, UpStart, files) = R(n)
  BY UpFoldSteps DEF R
<1> QED
  BY <1>4, <1>5

LEMMA UpStep ==
    ASSUME IInv, NEW found \in BOOLEAN, MigrateUp(found)
    PROVE  IInv'
<1> USE DEF IInv
<1>1. PICK files \in Load(found) :
         LET run == FoldLeft(Apply, UpStart, files)
         IN  /\ objects' = run.objects
             /\ recorded' = run.recorded
             /\ applied' = applied \cup run.recorded
             /\ status' = IF ~run.ok THEN "failed" ELSE IF found THEN "migrated" ELSE "blind"
             /\ UNCHANGED <<dir, tampered>>
  BY DEF MigrateUp, UpStart
<1> DEFINE D == IF found THEN DOMAIN dir ELSE {}
           n == Cardinality(D)
           run == FoldLeft(Apply, UpStart, files)
<1>2. IsFiniteSet(D) /\ D \subseteq DOMAIN dir
  BY FS_EmptySet DEF Bounded
<1>3. files \in SetToSeqs(D)
  BY <1>1 DEF Load
<1>4. /\ n \in Nat /\ files \in [1 .. n -> D]
      /\ \A f \in D : \E i \in 1 .. n : files[i] = f
  <2> HIDE DEF D
  <2> QED
    BY <1>2, <1>3, AllAreLoaded
<1>5. files \in [1 .. n -> DOMAIN dir]
  BY <1>2, <1>4
<1>6. /\ UpGood(run)
      /\ run.ok => \A i \in 1 .. n : files[i].version \in run.recorded
  <2> HIDE DEF n
  <2> QED
    BY <1>4, <1>5, UpRunGood
<1> HIDE DEF run
<1>7. /\ objects' = run.objects /\ recorded' = run.recorded
      /\ applied' = applied \cup run.recorded
      /\ dir' = dir /\ tampered' = tampered
      /\ status' = "migrated" => run.ok /\ found
  BY <1>1 DEF run
<1>8. Bounded' /\ Remembered'
  BY <1>6, <1>7 DEF Bounded, Remembered, UpGood
<1>9. \A f \in DOMAIN dir : Sound(f)' <=> Sound(f)
  BY <1>7 DEF Sound
<1>10. RecordTellsEffect'
  BY <1>6, <1>7, <1>9 DEF RecordTellsEffect, UpGood
<1>11. NothingPending'
  <2> SUFFICES ASSUME status' = "migrated", NEW f \in DOMAIN dir, Sound(f)
               PROVE  f \in run.objects
    BY <1>7, <1>9 DEF NothingPending
  <2>1. run.ok /\ f \in D
    BY <1>7
  <2>2. f.version \in run.recorded
    BY <1>4, <1>6, <2>1
  <2> QED
    BY <1>6, <2>2 DEF UpGood
<1> QED
  BY <1>8, <1>10, <1>11

--------------------------------------------------------------------------------
(* MigrateDown                                                             *)

DownStart(steps) == [objects |-> objects, recorded |-> recorded, left |-> steps]

\* What MigrateDown can make of its start.
DownRuns ==
    [objects  : SUBSET (objects \cup DOMAIN dir),
     recorded : SUBSET recorded,
     left     : Int]

\* The last file of a version, if there is one.
LEMMA FileOfVersion ==
    ASSUME NEW n \in Nat, NEW files \in [1 .. n -> DOMAIN dir], NEW v
    PROVE  \/ FileOf(files, v) = 0
           \/ FileOf(files, v) \in 1 .. n /\ files[FileOf(files, v)].version = v
<1> DEFINE I == {i \in 1 .. Len(files) : files[i].version = v}
<1>1. Len(files) = n
  OBVIOUS
<1>2. I \in SUBSET (1 .. n)
  BY <1>1
<1>3. FileOf(files, v) = IF I # {} THEN Max(I) ELSE 0
  BY DEF FileOf, SelectLastInSeq
<1>4. \A i \in I : i \in 1 .. n /\ files[i].version = v
  BY <1>1
<1> HIDE DEF I
<1>5. I # {} => Max(I) \in I
  BY <1>2, MaxIsLast
<1> QED
  BY <1>3, <1>4, <1>5

\* One version: it is passed over or rolled back with a file of that version.
LEMMA RollBackCases ==
    ASSUME NEW n \in Nat, NEW files \in [1 .. n -> DOMAIN dir],
           NEW run \in DownRuns, NEW v
    PROVE  LET new == RollBack(files, run, v)
           IN  /\ new \in DownRuns
               /\ \/ new = run
                  \/ \E f \in DOMAIN dir :
                        /\ f.version = v
                        /\ new.objects = Exec(DownSQL(dir[f]), f, run.objects)
                        /\ new.recorded = run.recorded \ {v}
<1> DEFINE i == FileOf(files, v)
           f == files[i]
           objs == Exec(DownSQL(dir[f]), f, run.objects)
           new == [objects |-> objs, recorded |-> run.recorded \ {v}, left |-> run.left - 1]
<1>1. CASE run.left = 0 \/ i = 0 \/ DownSQL(dir[f]) = <<>>
  BY <1>1 DEF RollBack
<1>2. CASE ~(run.left = 0 \/ i = 0 \/ DownSQL(dir[f]) = <<>>)
  <2>1. RollBack(files, run, v) = new
    BY <1>2 DEF RollBack
  <2>2. i \in 1 .. n /\ f.version = v
    <3>1. i # 0
      BY <1>2
    <3> HIDE DEF objs, new
    <3> QED
      BY <3>1, FileOfVersion
  <2>3. f \in DOMAIN dir
    BY <2>2
  <2>4. objs \in SUBSET (objects \cup DOMAIN dir)
    <3>1. run.objects \in SUBSET (objects \cup DOMAIN dir)
      BY DEF DownRuns
    <3> HIDE DEF f
    <3> QED
      BY <2>3, <3>1, ExecOwn
  <2> HIDE DEF f, objs
  <2>5. new \in DownRuns
    BY <2>4 DEF DownRuns
  <2> QED
    BY <2>1, <2>2, <2>3, <2>5 DEF objs
<1> QED
  BY <1>1, <1>2

\* The fold behind MigrateDown.
DownFold(files, steps, versions) ==
    CHOOSE iter : iter = [s \in SUBSET (DOMAIN versions) |->
        IF s = {} THEN DownStart(steps)
        ELSE RollBack(files, iter[s \ {Max(s)}], versions[Max(s)])]

DownEnd(files, steps, versions) ==
    FoldLeft(LAMBDA r, v : RollBack(files, r, v), DownStart(steps), versions)

LEMMA DownIsFold ==
    ASSUME NEW files, NEW steps, NEW versions
    PROVE  DownEnd(files, steps, versions)
             = DownFold(files, steps, versions)[DOMAIN versions]
  BY DEF DownEnd, FoldLeft, MapThenFoldSet, DownFold

DownFolds(fold, files, steps, m, versions) ==
    fold = [s \in SUBSET (1 .. m) |->
               IF s = {} THEN DownStart(steps)
               ELSE RollBack(files, fold[s \ {Max(s)}], versions[Max(s)])]

LEMMA DownFoldExists ==
    ASSUME NEW n \in Nat, NEW files \in [1 .. n -> DOMAIN dir], NEW steps \in Int,
           NEW m \in Nat, NEW versions \in [1 .. m -> recorded]
    PROVE  DownFolds(DownFold(files, steps, versions), files, steps, m, versions)
<1> DEFINE G == [i \in 1 .. m |->
                    [run \in DownRuns |-> RollBack(files, run, versions[i])]]
<1>1. DownStart(steps) \in DownRuns
  BY DEF DownStart, DownRuns
<1>2. G \in [1 .. m -> [DownRuns -> DownRuns]]
  BY RollBackCases
<1>3. PICK h \in [SUBSET (1 .. m) -> DownRuns] : Folds(h, m, DownStart(steps), G)
  <2> HIDE DEF G
  <2> QED
    BY <1>1, <1>2, FoldExists
<1>4. ASSUME NEW s \in SUBSET (1 .. m), s # {}
      PROVE  G[Max(s)][h[s \ {Max(s)}]]
               = RollBack(files, h[s \ {Max(s)}], versions[Max(s)])
  <2>1. Max(s) \in 1 .. m /\ s \ {Max(s)} \in SUBSET (1 .. m)
    BY <1>4, MaxIsLast
  <2>2. h[s \ {Max(s)}] \in DownRuns
    BY <2>1
  <2> QED
    BY <2>1, <2>2
<1> HIDE DEF G
<1>5. h = [s \in SUBSET (1 .. m) |->
              IF s = {} THEN DownStart(steps)
              ELSE RollBack(files, h[s \ {Max(s)}], versions[Max(s)])]
  BY <1>3, <1>4 DEF Folds
<1>6. DOMAIN versions = 1 .. m
  OBVIOUS
<1> QED
  BY <1>5, <1>6 DEF DownFold, DownFolds

DownSteps(fold, files, steps, m, versions) ==
    /\ fold[1 .. 0] = DownStart(steps)
    /\ \A k \in 1 .. m :
          fold[1 .. k] = RollBack(files, fold[1 .. (k - 1)], versions[k])
    /\ DownEnd(files, steps, versions) = fold[1 .. m]

\* MigrateDown goes through the versions in their order.
LEMMA DownFoldSteps ==
    ASSUME NEW n \in Nat, NEW files \in [1 .. n -> DOMAIN dir], NEW steps \in Int,
           NEW m \in Nat, NEW versions \in [1 .. m -> recorded]
    PROVE  DownSteps(DownFold(files, steps, versions), files, steps, m, versions)
<1> DEFINE fold == DownFold(files, steps, versions)
<1>0. DownFolds(fold, files, steps, m, versions)
  BY DownFoldExists
<1>1. DOMAIN versions = 1 .. m
  OBVIOUS
<1>2. DownEnd(files, steps, versions) = fold[1 .. m]
  BY <1>1, DownIsFold
<1> HIDE DEF fold
<1>3. fold[1 .. 0] = DownStart(steps)
  <2>1. 1 .. 0 = {}
    OBVIOUS
  <2> QED
    BY <1>0, <2>1 DEF DownFolds
<1>4. ASSUME NEW k \in 1 .. m
      PROVE  fold[1 .. k] = RollBack(files, fold[1 .. (k - 1)], versions[k])
  <2>1. 1 .. k \in SUBSET (1 .. m) /\ k \in 1 .. k
    <3>1. \A i \in 1 .. k : i \in 1 .. m
      OBVIOUS
    <3> QED
      BY <3>1
  <2>2. Max(1 .. k) = k
    <3>1. Max(1 .. k) \in 1 .. k /\ k <= Max(1 .. k)
      BY <2>1, MaxIsLast
    <3> QED
      BY <3>1
  <2>3. (1 .. k) \ {k} = 1 .. (k - 1)
    OBVIOUS
  <2>4. fold[1 .. k] = RollBack(files, fold[(1 .. k) \ {Max(1 .. k)}],
                                versions[Max(1 .. k)])
    <3> DEFINE s == 1 .. k
    <3>1. s \in SUBSET (1 .. m) /\ s # {}
      BY <2>1
    <3> HIDE DEF s
    <3>2. fold[s] = RollBack(files, fold[s \ {Max(s)}], versions[Max(s)])
      BY <1>0, <3>1 DEF DownFolds
    <3> QED
      BY <3>2 DEF s
  <2> QED
    BY <2>2, <2>3, <2>4
<1>5. DownSteps(fold, files, steps, m, versions)
  BY <1>2, <1>3, <1>4 DEF DownSteps
<1> QED
  BY <1>5 DEF fold

\* What holds of MigrateDown between two versions.
DownGood(run) ==
    /\ run.recorded \subseteq recorded
    /\ \A f \in run.objects : f.version \in applied
    /\ \A f \in DOMAIN dir :
          Sound(f) => (f \in run.objects <=> f.version \in run.recorded)

LEMMA RollBackGood ==
    ASSUME Remembered, NEW n \in Nat, NEW files \in [1 .. n -> DOMAIN dir],
           NEW run \in DownRuns, DownGood(run), NEW v \in recorded
    PROVE  DownGood(RollBack(files, run, v))
<1> DEFINE new == RollBack(files, run, v)
<1>1. CASE new = run
  BY <1>1
<1>2. ASSUME NEW f \in DOMAIN dir, f.version = v,
             new.objects = Exec(DownSQL(dir[f]), f, run.objects),
             new.recorded = run.recorded \ {v}
      PROVE  DownGood(new)
  <2> HIDE DEF new
  <2>1. new.objects \in {run.objects, run.objects \cup {f}, run.objects \ {f}}
    BY <1>2, ExecOwn
  <2>2. v \in applied
    BY DEF Remembered
  <2>3. \A g \in new.objects : g.version \in applied
    BY <1>2, <2>1, <2>2 DEF DownGood
  <2>4. ASSUME NEW g \in DOMAIN dir, Sound(g)
        PROVE  g \in new.objects <=> g.version \in new.recorded
    <3>1. CASE g = f
      <4>1. new.objects = run.objects \ {f}
        BY <1>2, <2>4, <3>1, GuideEffect DEF Sound
      <4> QED
        BY <1>2, <3>1, <4>1
    <3>2. CASE g # f
      <4>1. g.version # v
        BY <1>2, <2>4, <3>2 DEF Sound
      <4> QED
        BY <1>2, <2>1, <2>4, <3>2, <4>1 DEF DownGood
    <3> QED
      BY <3>1, <3>2
  <2> QED
    BY <1>2, <2>3, <2>4 DEF DownGood
<1>3. \/ new = run
      \/ \E f \in DOMAIN dir :
            /\ f.version = v
            /\ new.objects = Exec(DownSQL(dir[f]), f, run.objects)
            /\ new.recorded = run.recorded \ {v}
  BY RollBackCases
<1> HIDE DEF new
<1>4. DownGood(new)
  BY <1>1, <1>2, <1>3
<1> QED
  BY <1>4 DEF new

LEMMA DownGoodAtEnd ==
    ASSUME Remembered, RecordTellsEffect,
           NEW n \in Nat, NEW files \in [1 .. n -> DOMAIN dir], NEW steps \in Int,
           NEW m \in Nat, NEW versions \in [1 .. m -> recorded]
    PROVE  DownGood(DownEnd(files, steps, versions))
<1> DEFINE fold == DownFold(files, steps, versions)
           R(k) == fold[1 .. k]
<1>0. /\ R(0) = DownStart(steps)
      /\ \A k \in 1 .. m : R(k) = RollBack(files, R(k - 1), versions[k])
      /\ DownEnd(files, steps, versions) = R(m)
  <2>1. DownSteps(fold, files, steps, m, versions)
    BY DownFoldSteps
  <2> HIDE DEF fold
  <2> QED
    BY <2>1 DEF DownSteps
<1> HIDE DEF fold
<1> DEFINE Through(k) == R(k) \in DownRuns /\ DownGood(R(k))
           S == {k \in Nat : k <= m => Through(k)}
<1>1. 0 \in S
  <2>1. R(0) = DownStart(steps)
    BY <1>0
  <2>2. DownStart(steps) \in DownRuns
    BY DEF DownStart, DownRuns
  <2>3. DownGood(DownStart(steps))
    BY DEF DownGood, DownStart, Remembered, RecordTellsEffect
  <2> QED
    BY <2>1, <2>2, <2>3
<1>2. ASSUME NEW k \in Nat, k \in S PROVE k + 1 \in S
  <2> SUFFICES ASSUME k + 1 <= m PROVE Through(k + 1)
    OBVIOUS
  <2>1. Through(k)
    BY <1>2
  <2>2. PICK j \in 1 .. m : j = k + 1 /\ j - 1 = k
    <3>1. k + 1 \in 1 .. m /\ (k + 1) - 1 = k
      OBVIOUS
    <3> QED
      BY <3>1
  <2>3. R(j) = RollBack(files, R(j - 1), versions[j])
    BY <1>0
  <2> HIDE DEF R
  <2>4. R(k + 1) = RollBack(files, R(k), versions[j]) /\ versions[j] \in recorded
    BY <2>2, <2>3
  <2>5. R(k + 1) \in DownRuns
    BY <2>1, <2>4, RollBackCases
  <2>6. DownGood(R(k + 1))
    BY <2>1, <2>4, RollBackGood
  <2> QED
    BY <2>5, <2>6
<1>3. m \in S
  <2> HIDE DEF S
  <2> QED
    BY <1>1, <1>2, Induct
<1>4. DownGood(R(m))
  BY <1>3
<1> QED
  BY <1>0, <1>4

LEMMA DownStep ==
    ASSUME IInv, NEW steps \in 1 .. 2, MigrateDown(steps)
    PROVE  IInv'
<1> USE DEF IInv
<1>1. PICK files \in Load(TRUE), versions \in SetToSeqs(recorded) :
         LET run == DownEnd(files, steps, versions)
         IN  /\ objects' = run.objects
             /\ recorded' = run.recorded
             /\ status' = "none"
             /\ UNCHANGED <<dir, applied, tampered>>
  BY DEF MigrateDown, DownStart, DownEnd
<1> DEFINE run == DownEnd(files, steps, versions)
<1>2. files \in SetToSeqs(DOMAIN dir)
  BY <1>1 DEF Load
<1>3. /\ Cardinality(DOMAIN dir) \in Nat
      /\ files \in [1 .. Cardinality(DOMAIN dir) -> DOMAIN dir]
      /\ Cardinality(recorded) \in Nat
      /\ versions \in [1 .. Cardinality(recorded) -> recorded]
  BY <1>2, AllAreLoaded DEF Bounded
<1>4. DownGood(run)
  BY <1>3, DownGoodAtEnd
<1> HIDE DEF run
<1>5. /\ objects' = run.objects /\ recorded' = run.recorded /\ applied' = applied
      /\ dir' = dir /\ tampered' = tampered /\ status' = "none"
  BY <1>1 DEF run
<1>6. Bounded'
  BY <1>4, <1>5, FS_Subset DEF Bounded, DownGood
<1>7. Remembered'
  BY <1>4, <1>5 DEF Remembered, DownGood
<1>8. RecordTellsEffect'
  BY <1>4, <1>5 DEF RecordTellsEffect, DownGood, Sound
<1> QED
  BY <1>5, <1>6, <1>7, <1>8 DEF NothingPending

--------------------------------------------------------------------------------
(* The directory changes                                                   *)

\* Whatever happens to one file: what is sound afterwards was so before, or its
\* version has never been recorded.
LEMMA ChangeStep ==
    ASSUME IInv, NEW f, NEW new, Change(f, new),
           \A g \in DOMAIN new : g # f => g \in DOMAIN dir /\ new[g] = dir[g],
           DOMAIN dir \subseteq DOMAIN new \cup {f}
    PROVE  IInv'
<1> USE DEF IInv
<1>1. /\ dir' = new /\ status' = "none"
      /\ tampered' = tampered \cup ({f.version} \cap applied)
      /\ recorded' = recorded /\ objects' = objects /\ applied' = applied
  BY DEF Change
<1>2. Bounded'
  <2>1. DOMAIN new \in SUBSET (DOMAIN dir \cup {f}) /\ IsFiniteSet(DOMAIN dir \cup {f})
    BY FS_AddElement DEF Bounded
  <2> QED
    BY <1>1, <2>1, FS_Subset DEF Bounded
<1>3. Remembered'
  BY <1>1 DEF Remembered
<1>4. RecordTellsEffect'
  <2> SUFFICES ASSUME NEW g \in DOMAIN new, Sound(g)'
               PROVE  g \in objects <=> g.version \in recorded
    BY <1>1 DEF RecordTellsEffect
  <2>1. CASE g.version = f.version
    <3>1. g.version \notin applied
      BY <1>1, <2>1 DEF Sound
    <3> QED
      BY <3>1 DEF Remembered
  <2>2. CASE g.version # f.version
    <3>1. g \in DOMAIN dir /\ new[g] = dir[g]
      BY <2>2
    <3>2. \A h \in DOMAIN dir \ {g} : h.version # g.version
      BY <1>1, <2>2 DEF Sound
    <3>3. Sound(g)
      BY <1>1, <3>1, <3>2 DEF Sound
    <3> QED
      BY <3>1, <3>3 DEF RecordTellsEffect
  <2> QED
    BY <2>1, <2>2
<1> QED
  BY <1>1, <1>2, <1>3, <1>4 DEF NothingPending

LEMMA PutStep ==
    ASSUME IInv, NEW f, NEW body, Change(f, With(f, body))
    PROVE  IInv'
  BY ChangeStep DEF With

LEMMA DeleteStep ==
    ASSUME IInv, NEW f, Delete(f)
    PROVE  IInv'
<1> DEFINE new == [g \in DOMAIN dir \ {f} |-> dir[g]]
<1>1. Change(f, new)
  BY DEF Delete
<1> QED
  BY <1>1, ChangeStep

--------------------------------------------------------------------------------
(* The theorems                                                            *)

LEMMA InvInit == DirInit => IInv
<1> SUFFICES ASSUME DirInit PROVE IInv
  OBVIOUS
<1>1. DOMAIN dir = {} /\ recorded = {} /\ objects = {} /\ status = "none"
  BY DEF DirInit
<1> QED
  BY <1>1, FS_EmptySet
  DEF IInv, Bounded, Remembered, RecordTellsEffect, NothingPending

LEMMA InvNext == IInv /\ [DirNext]_dirVars => IInv'
<1> SUFFICES ASSUME IInv, [DirNext]_dirVars PROVE IInv'
  OBVIOUS
<1>1. CASE DirNext
  <2>1. ASSUME NEW found \in BOOLEAN, MigrateUp(found) PROVE IInv'
    BY <2>1, UpStep
  <2>2. ASSUME NEW steps \in 1 .. 2, MigrateDown(steps) PROVE IInv'
    BY <2>2, DownStep
  <2>3. ASSUME NEW f \in Files, GenerateMigration(f) PROVE IInv'
    BY <2>3, PutStep DEF GenerateMigration
  <2>4. ASSUME NEW f \in Files, NEW body \in Bodies, Write(f, body) PROVE IInv'
    BY <2>4, PutStep DEF Write
  <2>5. ASSUME NEW f \in Files, Delete(f) PROVE IInv'
    BY <2>5, DeleteStep
  <2> QED
    BY <1>1, <2>1, <2>2, <2>3, <2>4, <2>5 DEF DirNext
<1>2. CASE UNCHANGED dirVars
  BY <1>2 DEF dirVars, IInv, Bounded, Remembered, RecordTellsEffect, NothingPending, Sound
<1> QED
  BY <1>1, <1>2

\* The invariant holds in every state.
THEOREM Invariant == DirSpec => []IInv
  BY InvInit, InvNext, PTL DEF DirSpec

\* Recorded versions tell what is in the database: the object of a file as the
\* guide has it exists exactly when its version is recorded, for any number of
\* files of any content and after any runs, rollbacks, edits and merges.
THEOREM RecordIsTrue == DirSpec => []RecordTellsEffect
<1>1. IInv => RecordTellsEffect
  BY DEF IInv
<1> QED
  BY <1>1, Invariant, PTL

\* A MigrateUp that found its directory and returned nil has run the SQL of every
\* such file, also of one that was merged late.
THEOREM NothingStaysPending == DirSpec => []NothingPending
<1>1. IInv => NothingPending
  BY DEF IInv
<1> QED
  BY <1>1, Invariant, PTL

================================================================================

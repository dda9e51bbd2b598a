--------------------------- MODULE RateLimiterProofs ---------------------------
(***************************************************************************)
(* Proofs about RateLimiter, for any keys, requests, limit, window and     *)
(* faults.                                                                 *)
(***************************************************************************)
EXTENDS RateLimiter, FiniteSetTheorems, WellFoundedInduction, TLAPS

LEMMA InitTypeOK == Init => TypeOK
BY RateLimiterAssumption DEF Init, TypeOK, CountCap, Ages

LEMMA BumpTypeOK ==
    ASSUME TypeOK, NEW k \in Keys, Bump(k)
    PROVE  /\ count' \in [Keys -> 0 .. CountCap]
           /\ count'[k] # 0
           /\ \A j \in Keys \ {k} : count'[j] = count[j]
<1>1. CountCap \in Nat /\ CountCap # 0
    BY RateLimiterAssumption DEF CountCap
<1>2. count \in [Keys -> 0 .. CountCap]
    BY DEF TypeOK
<1>3. count[k] # CountCap => count[k] + 1 \in 0 .. CountCap
    BY <1>1, <1>2
<1>4. count[k] \in Nat
    BY <1>1, <1>2
<1> HIDE DEF CountCap
<1>5. CASE count[k] = CountCap
    BY <1>1, <1>2, <1>5 DEF Bump
<1>6. CASE count[k] # CountCap
    BY <1>2, <1>3, <1>4, <1>6 DEF Bump
<1> QED BY <1>5, <1>6

LEMMA AdmitTypeOK ==
    ASSUME TypeOK, NEW k \in Keys, Admit(k)
    PROVE  recent' \in [Keys -> [Ages -> Nat]]
<1>1. 0 \in Ages
    BY RateLimiterAssumption DEF Ages
<1>2. recent[k] \in [Ages -> Nat] /\ recent[k][0] + 1 \in Nat
    BY <1>1 DEF TypeOK
<1>3. [recent[k] EXCEPT ![0] = @ + 1] \in [Ages -> Nat]
    BY <1>2
<1>4. recent' = [recent EXCEPT ![k] = [recent[k] EXCEPT ![0] = @ + 1]]
    BY DEF Admit, TypeOK
<1> QED BY <1>3, <1>4 DEF TypeOK

LEMMA StepTypeOK == TypeOK /\ [Next]_vars => TypeOK'
<1> SUFFICES ASSUME TypeOK, [Next]_vars PROVE TypeOK'
    OBVIOUS
<1> USE RateLimiterAssumption
<1>1. CASE Tick
    <2>1. \A k \in Keys, a \in Ages :
              (IF a = 0 THEN 0 ELSE recent[k][a - 1]) \in Nat
        BY DEF TypeOK, Ages
    <2>2. recent' \in [Keys -> [Ages -> Nat]]
        BY <1>1, <2>1 DEF Tick
    <2>3. count' \in [Keys -> 0 .. CountCap] /\ ttl' \in [Keys -> 0 .. Window]
        <3>1. 0 \in 0 .. CountCap /\ 0 \in 0 .. Window
            BY DEF CountCap
        <3>2. \A n \in 0 .. Window : n # 0 => n - 1 \in 0 .. Window
            OBVIOUS
        <3>3. count' \in [Keys -> 0 .. CountCap]
            BY <1>1, <3>1 DEF Tick, TypeOK
        <3>4. ttl' \in [Keys -> 0 .. Window]
            BY <1>1, <3>1, <3>2 DEF Tick, TypeOK
        <3> QED BY <3>3, <3>4
    <2>4. broken' \in [Keys -> BOOLEAN]
        BY <1>1 DEF Tick, TypeOK
    <2>5. \A k \in Keys : count'[k] = 0 => ttl'[k] = 0
        BY <1>1 DEF Tick, TypeOK
    <2> QED BY <1>1, <2>2, <2>3, <2>4, <2>5 DEF Tick, TypeOK
<1>2. ASSUME NEW r \in Requests, NEW k \in Keys, Incr(r, k) PROVE TypeOK'
    <2>1. /\ key' \in [Requests -> Keys]
          /\ pc' \in [Requests -> {"idle", "expire", "allowed", "denied"}]
          /\ UNCHANGED ttl
        BY <1>2 DEF Incr, TypeOK, Goto
    <2>2. UNCHANGED count \/ Bump(k)
        BY <1>2 DEF Incr
    <2>3. count' \in [Keys -> 0 .. CountCap] /\ \A j \in Keys : count'[j] = 0 => ttl'[j] = 0
        BY <2>1, <2>2, BumpTypeOK DEF TypeOK
    <2>4. UNCHANGED recent \/ Admit(k)
        BY <1>2 DEF Incr
    <2>5. recent' \in [Keys -> [Ages -> Nat]]
        BY <2>4, AdmitTypeOK DEF TypeOK
    <2>6. broken' \in [Keys -> BOOLEAN]
        BY <1>2 DEF Incr, TypeOK
    <2> QED BY <2>1, <2>3, <2>5, <2>6 DEF TypeOK
<1>3. ASSUME NEW r \in Requests, Expire(r) PROVE TypeOK'
    <2>1. Window \in 0 .. Window /\ 0 \in 0 .. Window /\ key[r] \in Keys
        BY DEF TypeOK
    <2>2. ttl' \in [Keys -> 0 .. Window] /\ \A j \in Keys : count'[j] = 0 => ttl'[j] = 0
        BY <1>3, <2>1 DEF Expire, TypeOK
    <2>3. broken' \in [Keys -> BOOLEAN]
        <3>1. (count[key[r]] # 0) \in BOOLEAN
            OBVIOUS
        <3> QED BY <1>3, <2>1, <3>1 DEF Expire, TypeOK
    <2> QED BY <1>3, <2>2, <2>3 DEF Expire, TypeOK, Goto
<1>4. ASSUME NEW r \in Requests, Serve(r) PROVE TypeOK'
    BY <1>4 DEF Serve, TypeOK, Goto
<1>5. ASSUME NEW r \in Requests, ResetRateLimit(r) PROVE TypeOK'
    <2>1. /\ count' \in [Keys -> 0 .. CountCap] /\ ttl' \in [Keys -> 0 .. Window]
          /\ \A j \in Keys : count'[j] = 0 => ttl'[j] = 0
        <3>1. 0 \in 0 .. CountCap /\ 0 \in 0 .. Window
            BY DEF CountCap
        <3>2. count' = count \/ count' = [count EXCEPT ![key[r]] = 0]
            BY <1>5 DEF ResetRateLimit
        <3>3. count' \in [Keys -> 0 .. CountCap]
            BY <3>1, <3>2 DEF TypeOK
        <3>4. ttl' \in [Keys -> 0 .. Window] /\ \A j \in Keys : count'[j] = 0 => ttl'[j] = 0
            <4>1. CASE UNCHANGED <<count, ttl>>
                BY <4>1 DEF TypeOK
            <4>2. CASE /\ count' = [count EXCEPT ![key[r]] = 0]
                       /\ ttl' = [ttl EXCEPT ![key[r]] = 0]
                BY <3>1, <4>2 DEF TypeOK
            <4> QED BY <1>5, <4>1, <4>2 DEF ResetRateLimit
        <3> QED BY <3>3, <3>4
    <2>2. recent' \in [Keys -> [Ages -> Nat]]
        BY <1>5 DEF ResetRateLimit, TypeOK
    <2> QED BY <1>5, <2>1, <2>2 DEF ResetRateLimit, TypeOK, Goto
<1>6. ASSUME NEW r \in Requests, Crash(r) PROVE TypeOK'
    BY <1>6 DEF Crash, TypeOK, Goto
<1>7. CASE UNCHANGED vars
    BY <1>7 DEF vars, TypeOK
<1> QED BY <1>1, <1>2, <1>3, <1>4, <1>5, <1>6, <1>7 DEF Next

\* Type correctness; in particular the time to live of a key never exceeds the
\* window, and a missing key has none.
THEOREM TypeCorrect == Spec => []TypeOK
BY InitTypeOK, StepTypeOK, PTL DEF Spec

--------------------------------------------------------------------------------
(* Deadlines                                                               *)


\* CounterHasDeadline is inductive as it stands, given the types.
LEMMA StepCounterHasDeadline ==
    TypeOK /\ CounterHasDeadline /\ [Next]_vars => CounterHasDeadline'
<1> SUFFICES ASSUME TypeOK, CounterHasDeadline, [Next]_vars,
                    NEW k \in Keys, count'[k] # 0, ttl'[k] = 0, ~broken'[k]
             PROVE  \E r \in Requests : pc'[r] = "expire" /\ key'[r] = k
    BY DEF CounterHasDeadline
<1> USE RateLimiterAssumption DEF TypeOK
<1>1. CASE count[k] # 0 /\ ttl[k] = 0 /\ ~broken[k] /\ UNCHANGED <<pc, key>>
    BY <1>1 DEF CounterHasDeadline
<1>2. CASE Tick
    BY <1>1, <1>2 DEF Tick
<1>3. ASSUME NEW q \in Requests, NEW j \in Keys, Incr(q, j)
      PROVE  \E r \in Requests : pc'[r] = "expire" /\ key'[r] = k
    <2>1. CASE count[k] # 0 /\ ~broken[k]
        <3>1. PICK r \in Requests : pc[r] = "expire" /\ key[r] = k
            BY <1>3, <2>1 DEF Incr, CounterHasDeadline
        <3>2. pc'[r] = "expire" /\ key'[r] = k
            BY <1>3, <3>1 DEF Incr, Goto
        <3> QED BY <3>2
    <2>2. CASE count[k] = 0
        <3>1. j = k
            BY <1>3, <2>2 DEF Incr, Bump
        <3>2. pc'[q] = "expire" /\ key'[q] = k
            <4>1. count[k] < Limit
                BY <2>2
            <4>2. ~("refused" \in Faults /\ UNCHANGED count)
                BY <2>2
            <4>3. broken'[k] # (broken[k] \/ count[k] = 0)
                BY <2>2
            <4>4. pc' = [pc EXCEPT ![q] = "expire"] /\ key' = [key EXCEPT ![q] = k]
                BY <1>3, <2>2, <3>1, <4>1, <4>2, <4>3 DEF Incr, Goto
            <4> QED BY <4>4
        <3> QED BY <3>2
    <2>3. ~broken[k]
        BY <1>3 DEF Incr
    <2> QED BY <2>1, <2>2, <2>3
<1>4. ASSUME NEW q \in Requests, Expire(q) \/ Serve(q) \/ ResetRateLimit(q) \/ Crash(q)
      PROVE  \E r \in Requests : pc'[r] = "expire" /\ key'[r] = k
    <2>1. count[k] # 0 /\ ttl[k] = 0 /\ ~broken[k]
        BY <1>4 DEF Expire, Serve, ResetRateLimit, Crash
    <2>2. PICK r \in Requests : pc[r] = "expire" /\ key[r] = k
        BY <2>1 DEF CounterHasDeadline
    <2>3. UNCHANGED key /\ (r # q => pc'[r] = "expire")
        BY <1>4, <2>2 DEF Expire, Serve, ResetRateLimit, Crash, Goto
    <2>4. r # q
        BY <1>4, <2>1, <2>2 DEF Expire, Serve, ResetRateLimit, Crash
    <2> QED BY <2>2, <2>3, <2>4
<1>5. CASE UNCHANGED vars
    BY <1>1, <1>5 DEF vars
<1> QED BY <1>2, <1>3, <1>4, <1>5 DEF Next

\* A counter is left without a deadline only by a fault between INCR and EXPIRE.
THEOREM CountersHaveDeadlines == Spec => []CounterHasDeadline
<1>1. Init => CounterHasDeadline
    BY DEF Init, CounterHasDeadline
<1> QED BY <1>1, StepCounterHasDeadline, TypeCorrect, PTL DEF Spec

\* Request r has created the counter k and not sent its EXPIRE yet.
Opens(r, k) == pc[r] = "expire" /\ key[r] = k

\* Nobody deletes the counter of an address before it has a deadline, so until then
\* one request alone has found it missing.
OneOpens ==
    \A k \in Keys \ LoginKeys : \A r \in Requests : Opens(r, k) =>
        /\ count[k] # 0 /\ ttl[k] = 0
        /\ \A s \in Requests : Opens(s, k) => s = r

LEMMA StepOneOpens == TypeOK /\ OneOpens /\ [Next]_vars => OneOpens'
<1> SUFFICES ASSUME TypeOK, OneOpens, [Next]_vars,
                    NEW k \in Keys \ LoginKeys, NEW r \in Requests, Opens(r, k)'
             PROVE  /\ count'[k] # 0 /\ ttl'[k] = 0
                    /\ \A s \in Requests : Opens(s, k)' => s = r
    BY DEF OneOpens
<1> USE RateLimiterAssumption DEF TypeOK
<1>1. ASSUME \A s \in Requests : Opens(s, k)' => Opens(s, k),
             count[k] # 0 => count'[k] # 0 \/ ttl[k] # 0,
             ttl[k] = 0 => ttl'[k] = 0
      PROVE  /\ count'[k] # 0 /\ ttl'[k] = 0
             /\ \A s \in Requests : Opens(s, k)' => s = r
    BY <1>1 DEF OneOpens
<1>2. CASE Tick
    BY <1>1, <1>2 DEF Tick, Opens
<1>3. ASSUME NEW q \in Requests, NEW j \in Keys, Incr(q, j), Opens(q, k)'
      PROVE  /\ count'[k] # 0 /\ ttl'[k] = 0
             /\ \A s \in Requests : Opens(s, k)' => s = r
    <2>1. j = k /\ key' = [key EXCEPT ![q] = j]
        BY <1>3 DEF Incr, Opens
    <2>2. count[k] = 0 /\ Bump(k)
        BY <1>3, <2>1 DEF Incr, Opens, Goto
    <2>3. count'[k] # 0 /\ ttl'[k] = 0
        BY <1>3, <2>2 DEF Incr, Bump, CountCap
    <2>4. \A s \in Requests : s # q => ~Opens(s, k)'
        BY <1>3, <2>1, <2>2 DEF Incr, Opens, OneOpens, Goto
    <2> QED BY <2>3, <2>4
<1>4. ASSUME NEW q \in Requests, NEW j \in Keys, Incr(q, j), ~Opens(q, k)'
      PROVE  /\ count'[k] # 0 /\ ttl'[k] = 0
             /\ \A s \in Requests : Opens(s, k)' => s = r
    <2>1. \A s \in Requests : Opens(s, k)' => Opens(s, k)
        BY <1>4 DEF Incr, Opens, Goto
    <2>2. ttl' = ttl /\ (count[k] # 0 => count'[k] # 0)
        BY <1>4 DEF Incr, Bump, CountCap
    <2> QED BY <1>1, <2>1, <2>2
<1>5. ASSUME NEW q \in Requests, Expire(q)
      PROVE  /\ count'[k] # 0 /\ ttl'[k] = 0
             /\ \A s \in Requests : Opens(s, k)' => s = r
    <2>1. \A s \in Requests : Opens(s, k)' => Opens(s, k) /\ s # q
        BY <1>5 DEF Expire, Opens, Goto
    <2>2. Opens(r, k) /\ r # q
        BY <2>1
    <2>3. key[q] # k
        BY <1>5, <2>2 DEF Expire, OneOpens, Opens
    <2>4. ttl'[k] = ttl[k] /\ count' = count
        BY <1>5, <2>3 DEF Expire
    <2> QED BY <1>1, <2>1, <2>4
<1>6. ASSUME NEW q \in Requests, Serve(q) \/ ResetRateLimit(q) \/ Crash(q)
      PROVE  /\ count'[k] # 0 /\ ttl'[k] = 0
             /\ \A s \in Requests : Opens(s, k)' => s = r
    <2>1. \A s \in Requests : Opens(s, k)' => Opens(s, k)
        BY <1>6 DEF Serve, ResetRateLimit, Crash, Opens, Goto
    <2>2. ttl'[k] = ttl[k] /\ count'[k] = count[k]
        BY <1>6 DEF Serve, ResetRateLimit, Crash
    <2> QED BY <1>1, <2>1, <2>2
<1>7. CASE UNCHANGED vars
    BY <1>1, <1>7 DEF vars, Opens
<1> QED BY <1>2, <1>3, <1>4, <1>5, <1>6, <1>7 DEF Next

\* No request, late or failing, moves back the deadline of an address's window.
THEOREM WindowsAreFixed == Spec => WindowIsFixed
<1>1. Init => OneOpens
    BY DEF Init, OneOpens, Opens
<1>2. TypeOK /\ OneOpens /\ [Next]_vars
         => [\A k \in Keys \ LoginKeys : ttl[k] # 0 => ttl'[k] <= ttl[k]]_vars
    <2> SUFFICES ASSUME TypeOK, OneOpens, [Next]_vars,
                        NEW k \in Keys \ LoginKeys, ttl[k] # 0
                 PROVE  ttl'[k] <= ttl[k]
        OBVIOUS
    <2> USE RateLimiterAssumption DEF TypeOK
    <2>1. CASE Tick
        BY <2>1 DEF Tick
    <2>2. ASSUME NEW r \in Requests, Expire(r) PROVE ttl'[k] <= ttl[k]
        <3>1. key[r] # k
            BY <2>2 DEF Expire, OneOpens, Opens
        <3> QED BY <2>2, <3>1 DEF Expire
    <2>3. ASSUME NEW r \in Requests,
                 ResetRateLimit(r) \/ Serve(r) \/ Crash(r) \/ \E j \in Keys : Incr(r, j)
          PROVE  ttl'[k] <= ttl[k]
        <3>1. ttl' = ttl \/ ttl' = [ttl EXCEPT ![key[r]] = 0]
            BY <2>3 DEF ResetRateLimit, Serve, Crash, Incr
        <3> QED BY <3>1
    <2>4. CASE UNCHANGED vars
        BY <2>4 DEF vars
    <2> QED BY <2>1, <2>2, <2>3, <2>4 DEF Next
<1> QED BY <1>1, <1>2, StepOneOpens, TypeCorrect, PTL DEF Spec, WindowIsFixed

--------------------------------------------------------------------------------
(* Sums over the window                                                    *)

\* Induction over a set of numbers, from the well-foundedness of <.
LEMMA Induct ==
    ASSUME NEW S, 0 \in S, \A n \in Nat : n \in S => n + 1 \in S
    PROVE  Nat \subseteq S
<1> DEFINE bad == {n \in Nat : n \notin S}
<1> SUFFICES ASSUME bad # {} PROVE FALSE
  OBVIOUS
<1>1. PICK n \in bad : \A m \in bad : <<m, n>> \notin OpToRel(<, Nat)
  <2>1. bad \subseteq Nat
    OBVIOUS
  <2> HIDE DEF bad
  <2> QED
    BY <2>1, NatLessThanWellFounded, WFMin, Zenon
<1>2. \A m \in bad : ~(m < n)
  BY <1>1, Zenon DEF OpToRel
<1>3. n # 0 /\ n - 1 \in Nat /\ n - 1 < n /\ (n - 1) + 1 = n
  OBVIOUS
<1> QED
  BY <1>2, <1>3

\* The fold behind SumFunction: the sums of f over all sets of ages.
Part(f) ==
    CHOOSE iter : iter = [s \in SUBSET Ages |->
        IF s = {} THEN 0
        ELSE f[CHOOSE x \in s : TRUE] + iter[s \ {CHOOSE x \in s : TRUE}]]

LEMMA SumIsPart ==
    ASSUME NEW f, DOMAIN f = Ages
    PROVE  SumFunction(f) = Part(f)[Ages]
  BY DEF SumFunction, SumFunctionOnSet, FoldFunctionOnSet, MapThenFoldSet, Part

Choice(s) == CHOOSE x \in s : TRUE

LEMMA ChoiceIn == ASSUME NEW s, s # {} PROVE Choice(s) \in s
  BY DEF Choice

LEMMA AgesFinite ==
    /\ IsFiniteSet(Ages)
    /\ Cardinality(Ages) \in Nat
    /\ \A s \in SUBSET Ages :
          /\ IsFiniteSet(s)
          /\ Cardinality(s) \in Nat
          /\ Cardinality(s) <= Cardinality(Ages)
<1>1. IsFiniteSet(Ages)
  BY RateLimiterAssumption, FS_Interval DEF Ages
<1> QED
  BY <1>1, FS_Subset, FS_CardinalityType

LEMMA Smaller ==
    ASSUME NEW s \in SUBSET Ages, NEW x \in s
    PROVE  Cardinality(s \ {x}) = Cardinality(s) - 1 /\ s \ {x} \in SUBSET Ages
  BY AgesFinite, FS_RemoveElement

\* There is such a fold: for the sets of up to n ages, for every n.
LEMMA PartExists ==
    ASSUME NEW f \in [Ages -> Nat]
    PROVE  Part(f) = [s \in SUBSET Ages |->
                         IF s = {} THEN 0 ELSE f[Choice(s)] + Part(f)[s \ {Choice(s)}]]
<1> DEFINE Eq(g, s) == g[s] = IF s = {} THEN 0 ELSE f[Choice(s)] + g[s \ {Choice(s)}]
           Upto(g, n) == \A s \in SUBSET Ages : Cardinality(s) <= n => Eq(g, s)
           S == {n \in Nat : \E g \in [SUBSET Ages -> Nat] : Upto(g, n)}
<1>1. 0 \in S
  <2> DEFINE g == [s \in SUBSET Ages |-> 0]
  <2>1. \A s \in SUBSET Ages : Cardinality(s) <= 0 => s = {}
    BY AgesFinite, FS_EmptySet
  <2>2. Upto(g, 0)
    BY <2>1
  <2>3. g \in [SUBSET Ages -> Nat]
    OBVIOUS
  <2> QED
    BY <2>2, <2>3
<1>2. ASSUME NEW n \in Nat, n \in S PROVE n + 1 \in S
  <2>1. PICK g \in [SUBSET Ages -> Nat] : Upto(g, n)
    BY <1>2
  <2> DEFINE h == [s \in SUBSET Ages |->
                     IF Cardinality(s) <= n THEN g[s]
                     ELSE f[Choice(s)] + g[s \ {Choice(s)}]]
  <2>2. ASSUME NEW s \in SUBSET Ages, s # {}
        PROVE  /\ Choice(s) \in Ages /\ s \ {Choice(s)} \in SUBSET Ages
               /\ Cardinality(s \ {Choice(s)}) = Cardinality(s) - 1
               /\ f[Choice(s)] \in Nat /\ Cardinality(s) \in Nat
    BY <2>2, ChoiceIn, Smaller, AgesFinite
  <2>3. Cardinality({}) = 0
    BY FS_EmptySet
  <2>4. h \in [SUBSET Ages -> Nat]
    <3> SUFFICES ASSUME NEW s \in SUBSET Ages, ~(Cardinality(s) <= n)
                 PROVE  f[Choice(s)] + g[s \ {Choice(s)}] \in Nat
      OBVIOUS
    <3>1. s # {}
      BY AgesFinite, FS_EmptySet
    <3> QED
      BY <2>2, <3>1
  <2>5. ASSUME NEW s \in SUBSET Ages, Cardinality(s) <= n + 1 PROVE Eq(h, s)
    <3>1. CASE s = {}
      BY <2>1, <2>3, <3>1
    <3>2. CASE s # {}
      <4>1. h[s \ {Choice(s)}] = g[s \ {Choice(s)}]
        BY <2>2, <2>5, <3>2
      <4>2. h[s] = f[Choice(s)] + g[s \ {Choice(s)}]
        BY <2>1, <3>2
      <4> QED
        BY <3>2, <4>1, <4>2
    <3> QED
      BY <3>1, <3>2
  <2>6. Upto(h, n + 1)
    BY <2>5
  <2> HIDE DEF h, Upto
  <2> QED
    BY <2>4, <2>6
<1>3. \E g \in [SUBSET Ages -> Nat] : \A s \in SUBSET Ages : Eq(g, s)
  <2>1. Nat \subseteq S
    <3> HIDE DEF S
    <3> QED
      BY <1>1, <1>2, Induct
  <2>2. PICK g \in [SUBSET Ages -> Nat] : Upto(g, Cardinality(Ages))
    BY <2>1, AgesFinite
  <2> QED
    BY <2>2, AgesFinite
<1>4. \E g : g = [s \in SUBSET Ages |->
                IF s = {} THEN 0 ELSE f[Choice(s)] + g[s \ {Choice(s)}]]
  <2>1. PICK g \in [SUBSET Ages -> Nat] : \A s \in SUBSET Ages : Eq(g, s)
    BY <1>3
  <2>2. g = [s \in SUBSET Ages |->
                IF s = {} THEN 0 ELSE f[Choice(s)] + g[s \ {Choice(s)}]]
    BY <2>1
  <2> QED
    BY <2>2
<1> QED
  BY <1>4 DEF Part, Choice

\* It does not matter which age the fold takes first.
LEMMA PartRemove ==
    ASSUME NEW f \in [Ages -> Nat]
    PROVE  /\ Part(f) \in [SUBSET Ages -> Nat]
           /\ Part(f)[{}] = 0
           /\ \A s \in SUBSET Ages : \A y \in s : Part(f)[s] = f[y] + Part(f)[s \ {y}]
<1> DEFINE p == Part(f)
<1>1. p = [s \in SUBSET Ages |->
              IF s = {} THEN 0 ELSE f[Choice(s)] + p[s \ {Choice(s)}]]
  BY PartExists
<1> HIDE DEF p
<1>2. p[{}] = 0
  BY <1>1
<1>3. ASSUME NEW s \in SUBSET Ages, s # {}
      PROVE  p[s] = f[Choice(s)] + p[s \ {Choice(s)}] /\ Choice(s) \in s
  BY <1>1, <1>3, ChoiceIn
<1> DEFINE Good(s) == p[s] \in Nat /\ \A y \in s : p[s] = f[y] + p[s \ {y}]
           S == {n \in Nat : \A s \in SUBSET Ages : Cardinality(s) <= n => Good(s)}
<1>4. 0 \in S
  <2>1. \A s \in SUBSET Ages : Cardinality(s) <= 0 => s = {}
    BY AgesFinite, FS_EmptySet
  <2> QED
    BY <1>2, <2>1
<1>5. ASSUME NEW n \in Nat, n \in S PROVE n + 1 \in S
  <2> SUFFICES ASSUME NEW s \in SUBSET Ages, Cardinality(s) <= n + 1 PROVE Good(s)
    OBVIOUS
  <2>1. \A t \in SUBSET Ages : Cardinality(t) <= n => Good(t)
    BY <1>5
  <2>2. CASE s = {}
    BY <1>2, <2>2
  <2>3. CASE s # {}
    <3> DEFINE x == Choice(s)
    <3>1. x \in s /\ x \in Ages /\ p[s] = f[x] + p[s \ {x}] /\ f[x] \in Nat
      BY <1>3, <2>3
    <3> HIDE DEF x
    <3>2. ASSUME NEW y \in s
          PROVE  s \ {y} \in SUBSET Ages /\ Good(s \ {y}) /\ f[y] \in Nat
      <4>1. Cardinality(s) \in Nat /\ Cardinality(s \ {y}) = Cardinality(s) - 1
        BY AgesFinite, Smaller
      <4>2. Cardinality(s \ {y}) <= n
        BY <4>1
      <4> QED
        BY <2>1, <4>2
    <3>3. p[s] \in Nat
      <4>1. Good(s \ {x})
        BY <3>1, <3>2
      <4>2. p[s \ {x}] \in Nat
        BY <4>1
      <4> QED
        BY <3>1, <4>2
    <3>4. ASSUME NEW y \in s, y # x PROVE p[s] = f[y] + p[s \ {y}]
      <4>1. y \in s \ {x} /\ x \in s \ {y}
        BY <3>1, <3>4
      <4>2. p[s \ {x}] = f[y] + p[(s \ {x}) \ {y}]
        BY <3>1, <3>2, <4>1
      <4>3. p[s \ {y}] = f[x] + p[(s \ {y}) \ {x}]
        BY <3>2, <4>1
      <4>4. (s \ {x}) \ {y} = (s \ {y}) \ {x}
        OBVIOUS
      <4>5. p[(s \ {x}) \ {y}] \in Nat
        <5>1. Cardinality(s) \in Nat /\ Cardinality(s \ {x}) = Cardinality(s) - 1
          BY <3>1, AgesFinite, Smaller
        <5>2. s \ {x} \in SUBSET Ages
          OBVIOUS
        <5>3. Cardinality((s \ {x}) \ {y}) = Cardinality(s \ {x}) - 1
          BY <4>1, <5>2, Smaller
        <5>4. Cardinality((s \ {x}) \ {y}) <= n
          BY <5>1, <5>3
        <5> QED
          BY <2>1, <5>4
      <4>6. f[y] \in Nat
        OBVIOUS
      <4>7. p[(s \ {y}) \ {x}] = p[(s \ {x}) \ {y}]
        BY <4>4
      <4> HIDE DEF Good, S
      <4> QED
        BY <3>1, <4>2, <4>3, <4>5, <4>6, <4>7
    <3> QED
      BY <3>1, <3>3, <3>4
  <2> QED
    BY <2>2, <2>3
<1>6. Nat \subseteq S
  <2> HIDE DEF S
  <2> QED
    BY <1>4, <1>5, Induct
<1>7. \A s \in SUBSET Ages : Good(s)
  BY <1>6, AgesFinite
<1>8. p \in [SUBSET Ages -> Nat]
  BY <1>1, <1>7
<1> QED
  BY <1>2, <1>7, <1>8 DEF p

\* The sum over the last n ticks.
Upto(f, n) == Part(f)[0 .. (n - 1)]

LEMMA UptoSteps ==
    ASSUME NEW f \in [Ages -> Nat]
    PROVE  /\ Upto(f, 0) = 0
           /\ \A n \in 0 .. Window : Upto(f, n) \in Nat
           /\ \A n \in Ages : Upto(f, n + 1) = Upto(f, n) + f[n]
           /\ SumFunction(f) = Upto(f, Window)
<1>1. Upto(f, 0) = 0
  <2>1. 0 .. (0 - 1) = {}
    OBVIOUS
  <2> QED
    BY <2>1, PartRemove DEF Upto
<1>2. ASSUME NEW n \in 0 .. Window PROVE Upto(f, n) \in Nat
  <2>1. 0 .. (n - 1) \in SUBSET Ages
    BY RateLimiterAssumption DEF Ages
  <2> QED
    BY <2>1, PartRemove DEF Upto
<1>3. ASSUME NEW n \in Ages PROVE Upto(f, n + 1) = Upto(f, n) + f[n]
  <2>1. PICK s \in SUBSET Ages :
           s = 0 .. ((n + 1) - 1) /\ n \in s /\ s \ {n} = 0 .. (n - 1)
    BY RateLimiterAssumption DEF Ages
  <2>2. Part(f)[s] = f[n] + Part(f)[s \ {n}]
    BY <2>1, PartRemove
  <2>3. Upto(f, n + 1) = f[n] + Upto(f, n)
    BY <2>1, <2>2, Zenon DEF Upto
  <2>4. Upto(f, n) \in Nat /\ f[n] \in Nat
    BY <1>2, RateLimiterAssumption DEF Ages
  <2> QED
    BY <2>3, <2>4
<1>4. SumFunction(f) = Upto(f, Window)
  BY SumIsPart DEF Upto, Ages
<1> QED
  BY <1>1, <1>2, <1>3, <1>4

LEMMA UptoInduct ==
    ASSUME NEW S, 0 \in S, \A n \in Ages : n \in S => n + 1 \in S
    PROVE  Window \in S
<1> DEFINE T == {n \in Nat : n <= Window => n \in S}
<1>1. 0 \in T
  OBVIOUS
<1>2. ASSUME NEW n \in Nat, n \in T PROVE n + 1 \in T
  BY <1>2, RateLimiterAssumption DEF Ages
<1> HIDE DEF T
<1>3. Nat \subseteq T
  BY <1>1, <1>2, Induct
<1> QED
  BY <1>3, RateLimiterAssumption DEF T

\* What happens to the requests of a key: two generations of them are added up,
\* they age, and one more is admitted.
Plus(f, g) == [a \in Ages |-> f[a] + g[a]]
Zero == [a \in Ages |-> 0]
Shift(f) == [a \in Ages |-> IF a = 0 THEN 0 ELSE f[a - 1]]

LEMMA SumPlus ==
    ASSUME NEW f \in [Ages -> Nat], NEW g \in [Ages -> Nat]
    PROVE  /\ Plus(f, g) \in [Ages -> Nat]
           /\ SumFunction(Plus(f, g)) = SumFunction(f) + SumFunction(g)
<1> DEFINE h == Plus(f, g)
           S == {n \in 0 .. Window : Upto(h, n) = Upto(f, n) + Upto(g, n)}
<1>1. h \in [Ages -> Nat]
  BY DEF Plus
<1>2. 0 \in S
  BY <1>1, UptoSteps, RateLimiterAssumption
<1>3. ASSUME NEW n \in Ages, n \in S PROVE n + 1 \in S
  <2>1. /\ Upto(h, n + 1) = Upto(h, n) + h[n]
        /\ Upto(f, n + 1) = Upto(f, n) + f[n]
        /\ Upto(g, n + 1) = Upto(g, n) + g[n]
    BY <1>1, UptoSteps
  <2>2. h[n] = f[n] + g[n] /\ f[n] \in Nat /\ g[n] \in Nat
    BY DEF Plus
  <2>0. n \in 0 .. Window /\ n + 1 \in 0 .. Window
    BY RateLimiterAssumption DEF Ages
  <2>3. Upto(f, n) \in Nat /\ Upto(g, n) \in Nat
    BY <2>0, UptoSteps
  <2>4. Upto(h, n) = Upto(f, n) + Upto(g, n)
    BY <1>3
  <2> HIDE DEF h
  <2> QED
    BY <2>0, <2>1, <2>2, <2>3, <2>4
<1>4. Window \in S
  <2> HIDE DEF S
  <2> QED
    BY <1>2, <1>3, UptoInduct
<1> QED
  BY <1>1, <1>4, UptoSteps

LEMMA SumZero == Zero \in [Ages -> Nat] /\ SumFunction(Zero) = 0
<1> DEFINE S == {n \in 0 .. Window : Upto(Zero, n) = 0}
<1>1. Zero \in [Ages -> Nat]
  BY DEF Zero
<1>2. 0 \in S
  BY <1>1, UptoSteps, RateLimiterAssumption
<1>3. ASSUME NEW n \in Ages, n \in S PROVE n + 1 \in S
  <2>1. Upto(Zero, n + 1) = Upto(Zero, n) + Zero[n] /\ Zero[n] = 0
    BY <1>1, UptoSteps DEF Zero
  <2> QED
    BY <1>3, <2>1, RateLimiterAssumption DEF Ages
<1>4. Window \in S
  <2> HIDE DEF S
  <2> QED
    BY <1>2, <1>3, UptoInduct
<1> QED
  BY <1>1, <1>4, UptoSteps

LEMMA SumShift ==
    ASSUME NEW f \in [Ages -> Nat]
    PROVE  /\ Shift(f) \in [Ages -> Nat]
           /\ SumFunction(Shift(f)) <= SumFunction(f)
           /\ SumFunction(f) \in Nat /\ SumFunction(Shift(f)) \in Nat
<1> DEFINE h == Shift(f)
           S == {n \in 0 .. Window : n = 0 \/ Upto(h, n) = Upto(f, n - 1)}
<1>1. h \in [Ages -> Nat]
  BY RateLimiterAssumption DEF Shift, Ages
<1>2. 0 \in S
  BY RateLimiterAssumption
<1>3. ASSUME NEW n \in Ages, n \in S PROVE n + 1 \in S
  <2>1. Upto(h, n + 1) = Upto(h, n) + h[n]
    BY <1>1, UptoSteps
  <2>2. n + 1 \in 0 .. Window /\ (n + 1) - 1 = n
    BY RateLimiterAssumption DEF Ages
  <2>3. CASE n = 0
    <3>1. h[0] = 0 /\ Upto(h, 0) = 0 /\ Upto(f, 0) = 0
      BY <1>1, <2>3, UptoSteps DEF Shift
    <3> QED
      BY <2>1, <2>2, <2>3, <3>1
  <2>4. CASE n # 0
    <3>1. n - 1 \in Ages /\ (n - 1) + 1 = n
      BY <2>4, RateLimiterAssumption DEF Ages
    <3>2. Upto(f, n) = Upto(f, n - 1) + f[n - 1]
      BY <3>1, UptoSteps
    <3>3. h[n] = f[n - 1] /\ Upto(h, n) = Upto(f, n - 1)
      BY <1>3, <2>4 DEF Shift
    <3> QED
      BY <2>1, <2>2, <3>2, <3>3
  <2> QED
    BY <2>3, <2>4
<1>4. Window \in S
  <2> HIDE DEF S
  <2> QED
    BY <1>2, <1>3, UptoInduct
<1>5. Window - 1 \in Ages /\ (Window - 1) + 1 = Window
  BY RateLimiterAssumption DEF Ages
<1>6. Upto(h, Window) = Upto(f, Window - 1)
  BY <1>4, RateLimiterAssumption
<1>7. Upto(f, Window) = Upto(f, Window - 1) + f[Window - 1]
  BY <1>5, UptoSteps
<1>8. Upto(f, Window - 1) \in Nat /\ f[Window - 1] \in Nat
  BY <1>5, UptoSteps DEF Ages
<1>9. SumFunction(h) = Upto(h, Window) /\ SumFunction(f) = Upto(f, Window)
  BY <1>1, UptoSteps
<1> HIDE DEF h
<1>10. SumFunction(h) <= SumFunction(f) /\ SumFunction(f) \in Nat /\ SumFunction(h) \in Nat
  BY <1>6, <1>7, <1>8, <1>9
<1> QED
  BY <1>1, <1>10 DEF h

LEMMA SumBump ==
    ASSUME NEW f \in [Ages -> Nat]
    PROVE  /\ [f EXCEPT ![0] = @ + 1] \in [Ages -> Nat]
           /\ SumFunction([f EXCEPT ![0] = @ + 1]) = SumFunction(f) + 1
<1> DEFINE h == [f EXCEPT ![0] = @ + 1]
           S == {n \in 0 .. Window : n = 0 \/ Upto(h, n) = Upto(f, n) + 1}
<1>1. h \in [Ages -> Nat]
  BY RateLimiterAssumption DEF Ages
<1>2. 0 \in S
  BY RateLimiterAssumption
<1>3. ASSUME NEW n \in Ages, n \in S PROVE n + 1 \in S
  <2>1. Upto(h, n + 1) = Upto(h, n) + h[n] /\ Upto(f, n + 1) = Upto(f, n) + f[n]
    BY <1>1, UptoSteps
  <2>2. n + 1 \in 0 .. Window /\ Upto(f, n) \in Nat /\ f[n] \in Nat
    BY UptoSteps, RateLimiterAssumption DEF Ages
  <2>3. CASE n = 0
    <3>1. h[0] = f[0] + 1 /\ Upto(h, 0) = 0 /\ Upto(f, 0) = 0
      BY <1>1, <2>3, UptoSteps
    <3> QED
      BY <2>1, <2>2, <2>3, <3>1
  <2>4. CASE n # 0
    <3>1. h[n] = f[n] /\ Upto(h, n) = Upto(f, n) + 1
      BY <1>3, <2>4
    <3> QED
      BY <2>1, <2>2, <3>1
  <2> QED
    BY <2>3, <2>4
<1>4. Window \in S
  <2> HIDE DEF S
  <2> QED
    BY <1>2, <1>3, UptoInduct
<1>5. Upto(h, Window) = Upto(f, Window) + 1
  BY <1>4, RateLimiterAssumption
<1> QED
  BY <1>1, <1>5, UptoSteps

--------------------------------------------------------------------------------
(* The budget                                                              *)

\* The requests admitted in the window are of two generations at most: those that
\* the counter at hand has counted, and those of the counter before it.  The older
\* ones date from before the EXPIRE of this counter.
Generations(k, old, cur) ==
    /\ recent[k] = Plus(old, cur)
    /\ SumFunction(old) <= Limit
    /\ SumFunction(cur) <= Limit
    /\ SumFunction(cur) <= count[k]
    /\ ttl[k] # 0 => \A a \in Ages : a < Window - ttl[k] => old[a] = 0

TwoGenerations ==
    \A k \in Keys : \E old, cur \in [Ages -> Nat] : Generations(k, old, cur)

LEMMA TwoGenerationsInit == Init => TwoGenerations
<1> SUFFICES ASSUME Init, NEW k \in Keys PROVE Generations(k, Zero, Zero)
  BY SumZero DEF TwoGenerations
<1>1. recent[k] = Plus(Zero, Zero)
  BY DEF Init, Plus, Zero
<1>2. count[k] = 0 /\ ttl[k] = 0
  BY DEF Init
<1> QED
  BY <1>1, <1>2, SumZero, RateLimiterAssumption DEF Generations

\* The generations stay when nothing happens but that the counter rises or gets a
\* new deadline.
LEMMA GenerationsStay ==
    ASSUME TypeOK, TypeOK', NEW k \in Keys,
           NEW old \in [Ages -> Nat], NEW cur \in [Ages -> Nat], Generations(k, old, cur),
           recent'[k] = recent[k], count[k] <= count'[k],
           ttl'[k] = ttl[k] \/ ttl'[k] = 0 \/ ttl'[k] = Window
    PROVE  Generations(k, old, cur)'
<1>1. SumFunction(cur) <= count'[k]
  <2>1. SumFunction(cur) \in Nat
    BY SumShift
  <2>2. count[k] \in Nat /\ count'[k] \in Nat
    BY RateLimiterAssumption DEF TypeOK, CountCap
  <2> QED
    BY <2>1, <2>2 DEF Generations
<1>2. ttl'[k] # 0 => \A a \in Ages : a < Window - ttl'[k] => old[a] = 0
  BY RateLimiterAssumption DEF Generations, Ages
<1> QED
  BY <1>1, <1>2 DEF Generations

\* A tick, or the end of a generation.
LEMMA GenerationsAge ==
    ASSUME TypeOK, Tick, NEW k \in Keys,
           NEW old \in [Ages -> Nat], NEW cur \in [Ages -> Nat], Generations(k, old, cur)
    PROVE  \E o, c \in [Ages -> Nat] : Generations(k, o, c)'
<1>1. recent'[k] = Plus(Shift(old), Shift(cur))
  BY RateLimiterAssumption DEF Tick, Generations, Plus, Shift, Ages
<1>2. /\ Shift(old) \in [Ages -> Nat] /\ SumFunction(Shift(old)) <= SumFunction(old)
      /\ Shift(cur) \in [Ages -> Nat] /\ SumFunction(Shift(cur)) <= SumFunction(cur)
      /\ SumFunction(old) \in Nat /\ SumFunction(Shift(old)) \in Nat
      /\ SumFunction(cur) \in Nat /\ SumFunction(Shift(cur)) \in Nat
  BY SumShift
<1>3. ttl[k] \in 0 .. Window /\ count[k] \in Nat
  BY RateLimiterAssumption DEF TypeOK, CountCap
<1>4. SumFunction(Shift(old)) <= Limit /\ SumFunction(Shift(cur)) <= Limit
  BY <1>2, RateLimiterAssumption DEF Generations
<1>5. CASE ttl[k] # 1
  <2>1. count'[k] = count[k] /\ ttl'[k] = (IF ttl[k] = 0 THEN 0 ELSE ttl[k] - 1)
    BY <1>5 DEF Tick
  <2>2. SumFunction(Shift(cur)) <= count'[k]
    BY <1>2, <1>3, <2>1 DEF Generations
  <2>3. ttl'[k] # 0 => \A a \in Ages : a < Window - ttl'[k] => Shift(old)[a] = 0
    <3> SUFFICES ASSUME ttl'[k] # 0, NEW a \in Ages, a < Window - ttl'[k], a # 0
                 PROVE  old[a - 1] = 0
      BY DEF Shift
    <3>1. ttl[k] # 0 /\ ttl'[k] = ttl[k] - 1
      BY <2>1
    <3>2. a - 1 \in Ages /\ a - 1 < Window - ttl[k]
      BY <1>3, <3>1, RateLimiterAssumption DEF Ages
    <3>3. \A b \in Ages : b < Window - ttl[k] => old[b] = 0
      BY <3>1 DEF Generations
    <3> QED
      BY <3>2, <3>3
  <2>4. Generations(k, Shift(old), Shift(cur))'
    BY <1>1, <1>4, <2>2, <2>3 DEF Generations
  <2> QED
    BY <1>2, <2>4
<1>6. CASE ttl[k] = 1
  <2>1. count'[k] = 0 /\ ttl'[k] = 0
    BY <1>6 DEF Tick
  <2>2. Shift(old) = Zero
    BY <1>6, RateLimiterAssumption DEF Generations, Shift, Zero, Ages
  <2>3. recent'[k] = Plus(Shift(cur), Zero)
    BY <1>1, <1>2, <2>2 DEF Plus, Zero
  <2>4. Generations(k, Shift(cur), Zero)'
    BY <1>4, <2>1, <2>3, SumZero, RateLimiterAssumption DEF Generations
  <2> QED
    BY <1>2, <2>4, SumZero
<1> QED
  BY <1>5, <1>6

\* One more request is admitted.
LEMMA GenerationsGrow ==
    ASSUME TypeOK, NEW k \in Keys, Admit(k), Bump(k), count[k] < Limit, UNCHANGED ttl,
           NEW old \in [Ages -> Nat], NEW cur \in [Ages -> Nat], Generations(k, old, cur)
    PROVE  \E c \in [Ages -> Nat] : Generations(k, old, c)'
<1> DEFINE c == [cur EXCEPT ![0] = @ + 1]
<1>1. 0 \in Ages
  BY RateLimiterAssumption DEF Ages
<1>2. recent'[k] = [recent[k] EXCEPT ![0] = @ + 1]
  BY DEF Admit, TypeOK
<1>3. recent'[k] = Plus(old, c)
  BY <1>1, <1>2 DEF Generations, Plus
<1>4. c \in [Ages -> Nat] /\ SumFunction(c) = SumFunction(cur) + 1
  BY SumBump
<1>5. count'[k] = count[k] + 1 /\ count[k] \in Nat
  BY RateLimiterAssumption DEF Bump, TypeOK, CountCap
<1>6. SumFunction(cur) \in Nat
  BY SumShift
<1> HIDE DEF c
<1>7. SumFunction(c) <= Limit /\ SumFunction(c) <= count'[k]
  BY <1>4, <1>5, <1>6, RateLimiterAssumption DEF Generations
<1>8. Generations(k, old, c)'
  BY <1>3, <1>7 DEF Generations
<1> QED
  BY <1>4, <1>8

LEMMA TwoGenerationsStep ==
    ASSUME TypeOK, TypeOK', TwoGenerations, [Next]_vars
    PROVE  TwoGenerations'
<1> SUFFICES ASSUME NEW k \in Keys
             PROVE  \E o, c \in [Ages -> Nat] : Generations(k, o, c)'
  BY DEF TwoGenerations
<1>1. PICK old \in [Ages -> Nat], cur \in [Ages -> Nat] : Generations(k, old, cur)
  BY DEF TwoGenerations
<1>2. CASE /\ recent'[k] = recent[k] /\ count[k] <= count'[k]
           /\ ttl'[k] = ttl[k] \/ ttl'[k] = 0 \/ ttl'[k] = Window
  BY <1>1, <1>2, GenerationsStay
<1>3. ASSUME NEW j \in Keys, Bump(j)
      PROVE  count[k] <= count'[k]
  BY <1>3, RateLimiterAssumption DEF Bump, TypeOK, CountCap
<1>4. count[k] <= count[k]
  BY RateLimiterAssumption DEF TypeOK, CountCap
<1>5. CASE Tick
  BY <1>1, <1>5, GenerationsAge
<1>6. ASSUME NEW r \in Requests, NEW j \in Keys, Incr(r, j)
      PROVE  \E o, c \in [Ages -> Nat] : Generations(k, o, c)'
  <2>1. CASE k = j /\ Admit(j) /\ Bump(j) /\ count[k] < Limit
    BY <1>1, <1>6, <2>1, GenerationsGrow DEF Incr
  <2>2. CASE recent'[k] = recent[k] /\ (Bump(j) \/ UNCHANGED count)
    BY <1>2, <1>3, <1>4, <1>6, <2>2 DEF Incr
  <2>3. k # j /\ Admit(j) => recent'[k] = recent[k]
    BY DEF Admit, TypeOK
  <2> QED
    BY <1>6, <2>1, <2>2, <2>3 DEF Incr
<1>7. ASSUME NEW r \in Requests, Expire(r) \/ Serve(r) \/ Crash(r)
      PROVE  \E o, c \in [Ages -> Nat] : Generations(k, o, c)'
  <2>1. count' = count /\ recent' = recent
    BY <1>7 DEF Expire, Serve, Crash
  <2>2. ttl'[k] = ttl[k] \/ ttl'[k] = 0 \/ ttl'[k] = Window
    BY <1>7 DEF Expire, Serve, Crash, TypeOK
  <2> QED
    BY <1>2, <1>4, <2>1, <2>2
<1>8. ASSUME NEW r \in Requests, ResetRateLimit(r)
      PROVE  \E o, c \in [Ages -> Nat] : Generations(k, o, c)'
  <2>1. CASE recent'[k] = recent[k] /\ count'[k] = count[k] /\ ttl'[k] = ttl[k]
    BY <1>2, <1>4, <2>1
  <2>2. CASE recent'[k] = Zero /\ count'[k] = 0 /\ ttl'[k] = 0
    <3>1. Zero = Plus(Zero, Zero)
      BY DEF Zero, Plus
    <3>2. Generations(k, Zero, Zero)'
      BY <2>2, <3>1, SumZero, RateLimiterAssumption DEF Generations
    <3> QED
      BY <3>2, SumZero
  <2> QED
    BY <1>8, <2>1, <2>2 DEF ResetRateLimit, TypeOK, Zero
<1>9. CASE UNCHANGED vars
  BY <1>2, <1>4, <1>9 DEF vars
<1> QED
  BY <1>5, <1>6, <1>7, <1>8, <1>9 DEF Next

\* A key admits at most twice the limit in any window, whatever requests race
\* between INCR and EXPIRE, reset the counter, fail or die.
THEOREM BudgetHolds == Spec => []WindowBudget
<1>1. TypeOK /\ TwoGenerations => WindowBudget
  <2> SUFFICES ASSUME TypeOK, TwoGenerations, NEW k \in Keys
               PROVE  SumFunction(recent[k]) <= 2 * Limit
    BY DEF WindowBudget
  <2>1. PICK old \in [Ages -> Nat], cur \in [Ages -> Nat] : Generations(k, old, cur)
    BY DEF TwoGenerations
  <2>2. SumFunction(recent[k]) = SumFunction(old) + SumFunction(cur)
    BY <2>1, SumPlus DEF Generations
  <2>3. SumFunction(old) \in Nat /\ SumFunction(cur) \in Nat
    BY SumShift
  <2>4. SumFunction(old) <= Limit /\ SumFunction(cur) <= Limit
    BY <2>1 DEF Generations
  <2> QED
    BY <2>2, <2>3, <2>4, RateLimiterAssumption
<1> QED
  BY <1>1, TwoGenerationsInit, TwoGenerationsStep, TypeCorrect, PTL DEF Spec

================================================================================

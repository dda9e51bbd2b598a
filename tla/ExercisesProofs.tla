---------------------------- MODULE ExercisesProofs ----------------------------
(***************************************************************************)
(* Theorems about the three programs of dsa/: RepeatedSubarray, for arrays *)
(* of every length over any set of values; GrayCode, for every number of   *)
(* bits; SumOfDistances, for every tree.                                   *)
(***************************************************************************)
EXTENDS RepeatedSubarray, GrayCode, SumOfDistances, FiniteSetTheorems, WellFoundedInduction,
        TLAPS

--------------------------------------------------------------------------------
(* Longest repeated subarray                                               *)
(*                                                                         *)
(* The invariant of the two loops is CellsAreLongest together with the     *)
(* bound of every cell passed by result, and a block of that length.  When *)
(* the loops are over, all cells are passed; a common block of length k    *)
(* that begins at <<a, b>> then has k <= arr[a][b] <= result, because the  *)
(* block at <<a, b>> cannot be made longer.                                *)

\* Lengths, cells and result are counts, and the loop variables are indices.
TypeOK ==
    /\ len1 \in Nat
    /\ len2 \in Nat
    /\ arr \in [0 .. len1 -> [0 .. len2 -> Nat]]
    /\ result \in Nat
    /\ i \in -1 .. len1 - 1
    /\ j \in -1 .. len2 - 1

\* No cell is above result, and result is the length of a common block.
ResultIsReached ==
    /\ \A a \in 0 .. len1, b \in 0 .. len2 : arr[a][b] <= result
    /\ Repeated(result)

\* The inductive invariant.
IInv == TypeOK /\ CellsAreLongest /\ ResultIsReached

\* What CellsAreLongest says of one cell: the block that begins there matches,
\* stays in both arrays and cannot be made longer.
LongestAt(a, b, k) ==
    /\ a + k <= len1
    /\ b + k <= len2
    /\ Match(a, b, k)
    /\ a + k < len1 /\ b + k < len2 => nums1[a + k] # nums2[b + k]

\* The invariant holds when the loops begin: the only cells passed lie beyond
\* the last elements and hold 0.
LEMMA InitEstablishes == Init => IInv
<1> SUFFICES ASSUME Init PROVE IInv
  OBVIOUS
<1> USE RepeatedSubarrayAssumption
<1>1. TypeOK
  BY DEF Init, TypeOK
<1>2. \A a \in 0 .. len1, b \in 0 .. len2 : arr[a][b] = 0
  BY DEF Init
<1>3. CellsAreLongest
  BY <1>1, <1>2 DEF Init, TypeOK, CellsAreLongest, Filled, Match
<1>4. ResultIsReached
  <2>1. Repeated(0)
    <3>1. 0 \in 0 .. len1 - 0 /\ 0 \in 0 .. len2 - 0
      BY <1>1 DEF TypeOK
    <3>2. Match(0, 0, 0)
      BY DEF Match
    <3> QED
      BY <3>1, <3>2 DEF Repeated
  <2> QED
    BY <2>1, <1>2 DEF Init, ResultIsReached
<1> QED
  BY <1>1, <1>3, <1>4 DEF IInv

\* The cell written in a turn of the inner loop describes the longest common
\* block at that place.
LEMMA CellIsLongest ==
    ASSUME IInv, i >= 0, j >= 0
    PROVE  Cell \in Nat /\ LongestAt(i, j, Cell)
<1> USE DEF IInv, TypeOK
<1> DEFINE diagonal == arr[i + 1][j + 1]
<1>1. /\ i \in 0 .. len1 - 1 /\ j \in 0 .. len2 - 1
      /\ i + 1 \in 0 .. len1 /\ j + 1 \in 0 .. len2
      /\ Filled(i + 1, j + 1)
  BY DEF Filled
<1>2. diagonal \in Nat
  BY <1>1
<1>3. LongestAt(i + 1, j + 1, diagonal)
  BY <1>1 DEF CellsAreLongest, LongestAt
<1>4. CASE nums1[i] = nums2[j]
  <2> DEFINE k == diagonal
  <2>1. Cell = k + 1
    <3>1. Cell = IF k # 0 THEN k + 1 ELSE 1
      BY <1>4, Zenon DEF Cell
    <3> HIDE DEF k
    <3>2. k \in Nat
      BY <1>2 DEF k
    <3> QED
      BY <3>1, <3>2
  <2> HIDE DEF k
  <2>2. k \in Nat /\ LongestAt(i + 1, j + 1, k)
    BY <1>2, <1>3 DEF k
  <2>3. Match(i, j, k + 1)
    <3> SUFFICES ASSUME NEW d \in 0 .. k PROVE nums1[i + d] = nums2[j + d]
      BY <2>2 DEF Match
    <3>1. CASE d = 0
      BY <3>1, <1>1, <1>4
    <3>2. CASE d # 0
      <4>1. d - 1 \in 0 .. k - 1
        BY <3>2, <2>2
      <4>2. nums1[i + 1 + (d - 1)] = nums2[j + 1 + (d - 1)]
        BY <4>1, <2>2 DEF LongestAt, Match
      <4>3. i + 1 + (d - 1) = i + d /\ j + 1 + (d - 1) = j + d
        BY <1>1, <2>2
      <4> QED
        BY <4>2, <4>3
    <3> QED
      BY <3>1, <3>2
  <2>4. /\ i + 1 + k = i + (k + 1)
        /\ j + 1 + k = j + (k + 1)
    BY <1>1, <2>2
  <2>5. i + (k + 1) <= len1 /\ j + (k + 1) <= len2
    BY <2>2, <1>1 DEF LongestAt
  <2>6. ASSUME i + (k + 1) < len1, j + (k + 1) < len2
        PROVE  nums1[i + (k + 1)] # nums2[j + (k + 1)]
    <3>1. nums1[i + 1 + k] # nums2[j + 1 + k]
      BY <2>2, <2>4, <2>6 DEF LongestAt
    <3> QED
      BY <3>1, <2>4
  <2>7. LongestAt(i, j, k + 1)
    BY <2>3, <2>5, <2>6 DEF LongestAt
  <2> QED
    BY <2>1, <2>2, <2>7
<1>5. CASE nums1[i] # nums2[j]
  BY <1>1, <1>5 DEF Cell, LongestAt, Match
<1> QED
  BY <1>4, <1>5

\* A turn of the inner loop keeps the invariant.
LEMMA InnerPreserves == IInv /\ Inner => IInv'
<1> SUFFICES ASSUME IInv, Inner PROVE IInv'
  OBVIOUS
<1> USE DEF IInv
<1> DEFINE cell == Cell
<1>1. /\ cell \in Nat
      /\ LongestAt(i, j, cell)
  BY CellIsLongest DEF Inner
<1>2. /\ arr' = [arr EXCEPT ![i][j] = cell]
      /\ result' = max(result, cell)
  BY DEF Inner
<1> HIDE DEF cell
<1>3. /\ i \in 0 .. len1 - 1 /\ j \in 0 .. len2 - 1
      /\ j' = j - 1 /\ i' = i
      /\ UNCHANGED args
  BY DEF Inner, TypeOK
<1>4. TypeOK'
  BY <1>1, <1>2, <1>3 DEF TypeOK, args, max
<1>5. \A a \in 0 .. len1, b \in 0 .. len2 :
          arr'[a][b] = IF a = i /\ b = j THEN cell ELSE arr[a][b]
  BY <1>2, <1>3 DEF TypeOK
<1>6. \A a \in 0 .. len1, b \in 0 .. len2 :
          Filled(a, b)' <=> Filled(a, b) \/ (a = i /\ b = j)
  BY <1>3 DEF Filled, args, TypeOK
<1>7. CellsAreLongest'
  <2>1. \A a \in 0 .. len1, b \in 0 .. len2 :
            Filled(a, b)' => LongestAt(a, b, arr'[a][b])
    <3> SUFFICES ASSUME NEW a \in 0 .. len1, NEW b \in 0 .. len2, Filled(a, b)'
                 PROVE  LongestAt(a, b, arr'[a][b])
      OBVIOUS
    <3>1. CASE a = i /\ b = j
      BY <3>1, <1>1, <1>5
    <3>2. CASE ~(a = i /\ b = j)
      <4>1. Filled(a, b) /\ arr'[a][b] = arr[a][b]
        BY <3>2, <1>5, <1>6
      <4> QED
        BY <4>1 DEF CellsAreLongest, LongestAt
    <3> QED
      BY <3>1, <3>2
  <2>2. \A a \in 0 .. len1, b \in 0 .. len2 : ~Filled(a, b)' => arr'[a][b] = 0
    BY <1>5, <1>6 DEF CellsAreLongest
  <2> QED
    BY <2>1, <2>2, <1>3 DEF CellsAreLongest, LongestAt, Match, args
<1>8. ResultIsReached'
  <2>1. \A a \in 0 .. len1, b \in 0 .. len2 : arr'[a][b] <= result'
    <3> SUFFICES ASSUME NEW a \in 0 .. len1, NEW b \in 0 .. len2
                 PROVE  arr'[a][b] <= result'
      OBVIOUS
    <3>1. /\ arr[a][b] \in Nat /\ arr[a][b] <= result /\ result \in Nat
      BY DEF ResultIsReached, TypeOK
    <3>2. arr'[a][b] = cell \/ arr'[a][b] = arr[a][b]
      BY <1>5
    <3>3. cell <= max(result, cell) /\ result <= max(result, cell)
      BY <3>1, <1>1 DEF max
    <3>4. max(result, cell) \in Nat
      BY <3>1, <1>1 DEF max
    <3> QED
      BY <3>1, <3>2, <3>3, <3>4, <1>1, <1>2
  <2>2. Repeated(cell)
    <3>1. i \in 0 .. len1 - cell /\ j \in 0 .. len2 - cell
      BY <1>1, <1>3 DEF LongestAt, TypeOK
    <3> QED
      BY <3>1, <1>1 DEF Repeated, LongestAt
  <2>3. Repeated(result')
    BY <2>2, <1>2 DEF ResultIsReached, max
  <2>4. Repeated(result)' <=> Repeated(result')
    BY <1>3 DEF Repeated, Match, args
  <2> QED
    BY <2>1, <2>3, <2>4, <1>3 DEF ResultIsReached, args
<1> QED
  BY <1>4, <1>7, <1>8

\* The end of a row keeps the invariant: the one cell that is passed lies beyond
\* the last element.
LEMMA OuterPreserves == IInv /\ Outer => IInv'
<1> SUFFICES ASSUME IInv, Outer PROVE IInv'
  OBVIOUS
<1> USE DEF IInv
<1>1. /\ i \in 0 .. len1 - 1 /\ j = -1
      /\ i' = i - 1 /\ j' = len2 - 1
      /\ UNCHANGED <<args, arr, result>>
  BY DEF Outer, TypeOK
<1>2. TypeOK'
  BY <1>1 DEF TypeOK, args
<1>3. \A a \in 0 .. len1, b \in 0 .. len2 :
          Filled(a, b)' <=> Filled(a, b) \/ (a = i - 1 /\ b = len2)
  BY <1>1 DEF Filled, args, TypeOK
<1>4. CellsAreLongest'
  <2>1. \A a \in 0 .. len1, b \in 0 .. len2 :
            Filled(a, b)' => LongestAt(a, b, arr[a][b])
    <3> SUFFICES ASSUME NEW a \in 0 .. len1, NEW b \in 0 .. len2, Filled(a, b)'
                 PROVE  LongestAt(a, b, arr[a][b])
      OBVIOUS
    <3>1. CASE Filled(a, b)
      BY <3>1 DEF CellsAreLongest, LongestAt
    <3>2. CASE ~Filled(a, b)
      <4>1. a = i - 1 /\ b = len2 /\ arr[a][b] = 0
        BY <3>2, <1>3 DEF CellsAreLongest
      <4> QED
        BY <4>1 DEF LongestAt, Match, TypeOK
    <3> QED
      BY <3>1, <3>2
  <2> QED
    BY <2>1, <1>1, <1>3 DEF CellsAreLongest, LongestAt, Match, args
<1>5. ResultIsReached'
  BY <1>1 DEF ResultIsReached, Repeated, Match, args
<1> QED
  BY <1>2, <1>4, <1>5

\* The loops keep the invariant.
THEOREM Invariant == Spec => []IInv
<1>1. IInv /\ [Next]_vars => IInv'
  <2> SUFFICES ASSUME IInv, [Next]_vars PROVE IInv'
    OBVIOUS
  <2>1. CASE Inner
    BY <2>1, InnerPreserves
  <2>2. CASE Outer
    BY <2>2, OuterPreserves
  <2>3. CASE UNCHANGED vars
    <3> USE <2>3 DEF vars, IInv
    <3>1. TypeOK'
      BY DEF TypeOK
    <3>2. CellsAreLongest'
      BY DEF CellsAreLongest, Filled, Match
    <3>3. ResultIsReached'
      BY DEF ResultIsReached, Repeated, Match
    <3> QED
      BY <3>1, <3>2, <3>3
  <2> QED
    BY <2>1, <2>2, <2>3 DEF Next
<1> QED
  BY InitEstablishes, <1>1, PTL DEF Spec

\* Every cell the loops have passed holds the length of the longest common block
\* that begins there.
THEOREM CellsHoldLongest == Spec => []CellsAreLongest
<1>1. IInv => CellsAreLongest
  BY DEF IInv
<1> QED
  BY Invariant, <1>1, PTL

\* findLength returns the length of the longest block that occurs in both arrays.
THEOREM FindLengthIsLongest == Spec => []LongestRepeated
<1>1. IInv => LongestRepeated
  <2> SUFFICES ASSUME IInv, i < 0, NEW k \in 0 .. len1, Repeated(k)
               PROVE  k <= result
    BY DEF LongestRepeated, IInv, ResultIsReached
  <2> USE DEF IInv, TypeOK
  <2>1. PICK a \in 0 .. len1 - k, b \in 0 .. len2 - k : Match(a, b, k)
    BY DEF Repeated
  <2>2. a \in 0 .. len1 /\ b \in 0 .. len2
    BY <2>1
  <2>3. Filled(a, b)
    BY <2>2 DEF Filled
  <2> DEFINE m == arr[a][b]
  <2>4. m \in Nat /\ LongestAt(a, b, m)
    BY <2>2, <2>3 DEF CellsAreLongest, LongestAt
  <2>5. m <= result
    BY <2>2 DEF ResultIsReached
  <2> HIDE DEF m
  <2>6. ~(m < k)
    <3> SUFFICES ASSUME m < k PROVE FALSE
      OBVIOUS
    <3>1. m \in 0 .. k - 1
      BY <2>4
    <3>2. nums1[a + m] = nums2[b + m]
      BY <2>1, <3>1 DEF Match
    <3>3. a + m < len1 /\ b + m < len2
      BY <2>1, <2>2, <2>4
    <3> QED
      BY <2>4, <3>2, <3>3 DEF LongestAt
  <2> QED
    BY <2>4, <2>5, <2>6
<1> QED
  BY Invariant, <1>1, PTL

--------------------------------------------------------------------------------
(* Induction over the natural numbers, for the functions defined by it     *)

\* Induction over a set of numbers, from the well-foundedness of <.
LEMMA Induct ==
    ASSUME NEW S, 0 \in S, \A n \in Nat : n \in S => n + 1 \in S
    PROVE  Nat \subseteq S
<1> DEFINE bad == {n \in Nat : n \notin S}
<1> SUFFICES ASSUME bad # {} PROVE FALSE
  OBVIOUS
<1>1. PICK n \in bad : \A m \in bad : <<m, n>> \notin OpToRel(<, Nat)
  <2>1. bad \subseteq Nat
    OBVIOUS
  <2> HIDE DEF bad
  <2> QED
    BY <2>1, NatLessThanWellFounded, WFMin, Zenon
<1>2. \A m \in bad : ~(m < n)
  BY <1>1, Zenon DEF OpToRel
<1>3. n # 0 /\ n - 1 \in Nat /\ n - 1 < n /\ (n - 1) + 1 = n
  OBVIOUS
<1> QED
  BY <1>2, <1>3

\* A step repeated from a start: the sequence of what it gives.
LEMMA Iterates ==
    ASSUME NEW T, NEW start \in T, NEW step \in [T -> T]
    PROVE  \E f \in [Nat -> T] : f[0] = start /\ \A n \in Nat : f[n + 1] = step[f[n]]
<1> DEFINE Runs(g, n) == g[0] = start /\ \A m \in 0 .. n - 1 : g[m + 1] = step[g[m]]
           S == {n \in Nat : \E g \in [0 .. n -> T] : Runs(g, n)}
<1>1. 0 \in S
  <2> DEFINE g == [m \in 0 .. 0 |-> start]
  <2>1. g \in [0 .. 0 -> T] /\ Runs(g, 0)
    OBVIOUS
  <2> QED
    BY <2>1
<1>2. ASSUME NEW n \in Nat, n \in S PROVE n + 1 \in S
  <2>1. PICK g \in [0 .. n -> T] : Runs(g, n)
    BY <1>2
  <2> DEFINE h == [m \in 0 .. n + 1 |-> IF m = n + 1 THEN step[g[n]] ELSE g[m]]
  <2>2. h \in [0 .. n + 1 -> T]
    OBVIOUS
  <2>3. Runs(h, n + 1)
    <3>1. h[0] = start
      BY <2>1
    <3>2. ASSUME NEW m \in 0 .. n PROVE h[m + 1] = step[h[m]]
      <4>1. CASE m = n
        BY <4>1
      <4>2. CASE m # n
        <5>1. m \in 0 .. n - 1 /\ m + 1 \in 0 .. n /\ m + 1 # n + 1 /\ m # n + 1
          BY <4>2
        <5>2. h[m + 1] = g[m + 1] /\ h[m] = g[m]
          BY <5>1
        <5> QED
          BY <2>1, <5>1, <5>2
      <4> QED
        BY <4>1, <4>2
    <3>3. 0 .. (n + 1) - 1 = 0 .. n
      OBVIOUS
    <3> HIDE DEF h
    <3> QED
      BY <3>1, <3>2, <3>3
  <2> HIDE DEF h, Runs
  <2>4. n + 1 \in Nat
    OBVIOUS
  <2> QED
    BY <2>2, <2>3, <2>4
<1>3. \A n \in Nat : \E g \in [0 .. n -> T] : Runs(g, n)
  <2> HIDE DEF Runs
  <2>1. Nat \subseteq S
    <3> HIDE DEF S
    <3> QED
      BY <1>1, <1>2, Induct
  <2> QED
    BY <2>1
<1>4. ASSUME NEW n \in Nat, NEW k \in Nat, NEW g \in [0 .. n -> T], NEW h \in [0 .. k -> T],
             Runs(g, n), Runs(h, k)
      PROVE  \A m \in Nat : m <= n /\ m <= k => g[m] = h[m]
  <2> DEFINE U == {m \in Nat : m <= n /\ m <= k => g[m] = h[m]}
  <2>1. 0 \in U
    BY <1>4
  <2>2. ASSUME NEW m \in Nat, m \in U PROVE m + 1 \in U
    <3> SUFFICES ASSUME m + 1 <= n, m + 1 <= k PROVE g[m + 1] = h[m + 1]
      OBVIOUS
    <3>1. g[m] = h[m]
      BY <2>2
    <3>2. m \in 0 .. n - 1 /\ m \in 0 .. k - 1
      OBVIOUS
    <3> QED
      BY <1>4, <3>1, <3>2
  <2> HIDE DEF U
  <2>3. Nat \subseteq U
    BY <2>1, <2>2, Induct
  <2> QED
    BY <2>3 DEF U
<1> DEFINE Of(n) == CHOOSE g \in [0 .. n -> T] : Runs(g, n)
           f == [n \in Nat |-> Of(n)[n]]
<1>5. ASSUME NEW n \in Nat PROVE Of(n) \in [0 .. n -> T] /\ Runs(Of(n), n)
  <2> HIDE DEF Runs
  <2> QED
    BY <1>3
<1> HIDE DEF Of
<1>6. \A n \in Nat : Of(n)[n] \in T
  BY <1>5
<1>7. ASSUME NEW n \in Nat PROVE f[n + 1] = step[f[n]]
  <2>1. Of(n + 1)[n + 1] = step[Of(n + 1)[n]]
    BY <1>5
  <2>2. Of(n + 1)[n] = Of(n)[n]
    <3>1. n + 1 \in Nat /\ n <= n + 1 /\ n <= n
      OBVIOUS
    <3> HIDE DEF Runs
    <3> QED
      BY <1>4, <1>5, <3>1
  <2> QED
    BY <2>1, <2>2
<1>8. f[0] = start
  BY <1>5
<1>9. f \in [Nat -> T]
  BY <1>6
<1> QED
  BY <1>7, <1>8, <1>9

--------------------------------------------------------------------------------
(* Gray code                                                               *)
(*                                                                         *)
(* Bit k of the code at u is the sum of bits k and k + 1 of u, modulo 2.   *)
(* Adding 1 to u flips its lowest bits up to the first 0: of the sums, one *)
(* changes.  The bits of u are the sums' sums, so two codes that agree in  *)
(* every bit are the code of one number.                                   *)

\* 1 << n exists for every n and doubles with it.
LEMMA ShiftedSteps ==
    /\ Shifted \in [Nat -> Nat \ {0}]
    /\ Shifted[0] = 1
    /\ \A n \in Nat : Shifted[n + 1] = 2 * Shifted[n]
<1> DEFINE T == Nat \ {0}
           step == [x \in T |-> 2 * x]
<1>1. step \in [T -> T]
  OBVIOUS
<1>2. 1 \in T
  OBVIOUS
<1>3. PICK f \in [Nat -> T] : f[0] = 1 /\ \A n \in Nat : f[n + 1] = step[f[n]]
  <2> HIDE DEF step, T
  <2>1. ASSUME NEW a \in T, NEW s \in [T -> T]
        PROVE  \E f \in [Nat -> T] : f[0] = a /\ \A n \in Nat : f[n + 1] = s[f[n]]
    BY Iterates
  <2> QED
    BY <1>1, <1>2, <2>1, Zenon
<1>4. \A n \in Nat : n # 0 => f[n] = 2 * f[n - 1]
  <2> SUFFICES ASSUME NEW n \in Nat, n # 0 PROVE f[n] = 2 * f[n - 1]
    OBVIOUS
  <2>1. n - 1 \in Nat /\ (n - 1) + 1 = n
    OBVIOUS
  <2> QED
    BY <1>3, <2>1
<1>5. f = [n \in Nat |-> IF n = 0 THEN 1 ELSE 2 * f[n - 1]]
  BY <1>3, <1>4
<1>6. Shifted = [n \in Nat |-> IF n = 0 THEN 1 ELSE 2 * Shifted[n - 1]]
  BY <1>5 DEF Shifted
<1>7. Shifted[0] = 1 /\ \A n \in Nat : Shifted[n + 1] = 2 * Shifted[n]
  BY <1>6
<1> DEFINE S == {n \in Nat : Shifted[n] \in Nat \ {0}}
<1>8. Nat \subseteq S
  <2>1. 0 \in S
    BY <1>7
  <2>2. \A n \in Nat : n \in S => n + 1 \in S
    BY <1>7
  <2> HIDE DEF S
  <2> QED
    BY <2>1, <2>2, Induct
<1> QED
  BY <1>6, <1>7, <1>8

\* Bits are 0 or 1, the lowest is the remainder, and the others are the bits of
\* the half.
LEMMA Bits ==
    ASSUME NEW x \in Nat
    PROVE  /\ x \div 2 \in Nat
           /\ x = 2 * (x \div 2) + (x % 2)
           /\ x % 2 \in {0, 1}
           /\ Bit(x, 0) = x % 2
           /\ \A k \in Nat : Bit(x, k) \in {0, 1} /\ Bit(x, k + 1) = Bit(x \div 2, k)
<1>1. x \div 2 \in Nat /\ x = 2 * (x \div 2) + (x % 2) /\ x % 2 \in {0, 1}
  OBVIOUS
<1>2. Bit(x, 0) = x % 2
  <2>1. x \div 1 = x
    OBVIOUS
  <2> QED
    BY <2>1, ShiftedSteps DEF Bit
<1>3. ASSUME NEW k \in Nat PROVE Bit(x, k) \in {0, 1}
  <2>1. Shifted[k] \in Nat \ {0}
    BY ShiftedSteps
  <2>2. \A y \in Nat : y % 2 \in {0, 1}
    OBVIOUS
  <2>3. \A p \in Nat \ {0} : x \div p \in Nat
    OBVIOUS
  <2> QED
    BY <2>1, <2>2, <2>3 DEF Bit
<1>4. ASSUME NEW k \in Nat PROVE Bit(x, k + 1) = Bit(x \div 2, k)
  <2>1. \A p \in Nat \ {0} : x \div (2 * p) = (x \div 2) \div p
    OBVIOUS
  <2>2. Shifted[k] \in Nat \ {0} /\ Shifted[k + 1] = 2 * Shifted[k]
    BY ShiftedSteps
  <2> QED
    BY <2>1, <2>2 DEF Bit
<1> QED
  BY <1>1, <1>2, <1>3, <1>4

\* The two lowest bits.
LEMMA LowBits ==
    ASSUME NEW x \in Nat
    PROVE  Bit(x, 0) = x % 2 /\ Bit(x, 0 + 1) = Bit(x \div 2, 0)
<1>1. \A k \in Nat : Bit(x, k + 1) = Bit(x \div 2, k)
  BY Bits
<1>2. 0 \in Nat
  OBVIOUS
<1>3. Bit(x, 0 + 1) = Bit(x \div 2, 0)
  BY <1>1, <1>2
<1> QED
  BY <1>3, Bits

\* Two numbers have an exclusive or that is not above their sum.
LEMMA XorExists ==
    ASSUME NEW w \in Nat, NEW x \in Nat, NEW y \in Nat
    PROVE  \E z \in 0 .. x + y :
               \A k \in 0 .. w : Bit(z, k) = (Bit(x, k) + Bit(y, k)) % 2
<1> DEFINE Is(z, a, b, n) == \A k \in 0 .. n : Bit(z, k) = (Bit(a, k) + Bit(b, k)) % 2
           S == {n \in Nat : \A a, b \in Nat : \E z \in 0 .. a + b : Is(z, a, b, n)}
<1>1. ASSUME NEW a \in Nat, NEW b \in Nat
      PROVE  /\ (a + b) % 2 \in {0, 1}
             /\ (a + b) % 2 = ((a % 2) + (b % 2)) % 2
             /\ (a + b) % 2 <= (a % 2) + (b % 2)
  OBVIOUS
<1>2. 0 \in S
  <2> SUFFICES ASSUME NEW a \in Nat, NEW b \in Nat PROVE \E z \in 0 .. a + b : Is(z, a, b, 0)
    OBVIOUS
  <2> DEFINE z == (a + b) % 2
  <2>1. z \in Nat /\ z % 2 = z /\ z <= a + b
    OBVIOUS
  <2>2. Bit(z, 0) = (Bit(a, 0) + Bit(b, 0)) % 2
    <3>1. Bit(z, 0) = z % 2
      BY <2>1, Bits
    <3> QED
      BY <1>1, <2>1, <3>1, Bits
  <2>3. 0 .. 0 = {0} /\ z \in 0 .. a + b
    BY <2>1
  <2> HIDE DEF z
  <2> QED
    BY <2>2, <2>3
<1>3. ASSUME NEW n \in Nat, n \in S PROVE n + 1 \in S
  <2> SUFFICES ASSUME NEW a \in Nat, NEW b \in Nat
               PROVE  \E z \in 0 .. a + b : Is(z, a, b, n + 1)
    OBVIOUS
  <2>1. a \div 2 \in Nat /\ b \div 2 \in Nat
    BY Bits
  <2>2. PICK h \in 0 .. (a \div 2) + (b \div 2) : Is(h, a \div 2, b \div 2, n)
    BY <1>3, <2>1
  <2> DEFINE low == (a + b) % 2
             z == 2 * h + low
  <2>3. low \in {0, 1} /\ low = ((a % 2) + (b % 2)) % 2 /\ low <= (a % 2) + (b % 2)
    BY <1>1
  <2>4. /\ a = 2 * (a \div 2) + (a % 2) /\ a % 2 \in {0, 1}
        /\ b = 2 * (b \div 2) + (b % 2) /\ b % 2 \in {0, 1}
    BY Bits
  <2>5. h \in Nat /\ h <= (a \div 2) + (b \div 2)
    BY <2>1
  <2> HIDE DEF low
  <2>6. z \in Nat /\ z <= a + b
    BY <2>1, <2>3, <2>4, <2>5
  <2>7. z \div 2 = h /\ z % 2 = low
    BY <2>3, <2>5
  <2> HIDE DEF z
  <2>8. Bit(z, 0) = (Bit(a, 0) + Bit(b, 0)) % 2
    BY <2>3, <2>6, <2>7, Bits
  <2>9. ASSUME NEW k \in 1 .. n + 1 PROVE Bit(z, k) = (Bit(a, k) + Bit(b, k)) % 2
    <3> DEFINE c == k - 1
    <3>1. c \in 0 .. n /\ c \in Nat /\ c + 1 = k
      OBVIOUS
    <3>2. Bit(h, c) = (Bit(a \div 2, c) + Bit(b \div 2, c)) % 2
      BY <2>2, <3>1
    <3> HIDE DEF c
    <3>3. /\ Bit(z, c + 1) = Bit(h, c)
          /\ Bit(a, c + 1) = Bit(a \div 2, c)
          /\ Bit(b, c + 1) = Bit(b \div 2, c)
      BY <2>6, <2>7, <3>1, Bits
    <3> QED
      BY <3>1, <3>2, <3>3
  <2>10. z \in 0 .. a + b /\ \A k \in 0 .. n + 1 : k = 0 \/ k \in 1 .. n + 1
    BY <2>6
  <2> QED
    BY <2>8, <2>9, <2>10
<1>4. Nat \subseteq S
  <2> HIDE DEF S
  <2> QED
    BY <1>2, <1>3, Induct
<1> QED
  BY <1>4

\* Bits from the n-th on are 0 in numbers below Shifted[n].
LEMMA HighBits ==
    ASSUME NEW n \in Nat, NEW x \in Nat, x < Shifted[n], NEW k \in Nat, k >= n
    PROVE  Bit(x, k) = 0
<1> DEFINE S == {d \in Nat : Shifted[n + d] >= Shifted[n]}
<1>1. 0 \in S
  BY ShiftedSteps
<1>2. ASSUME NEW d \in Nat, d \in S PROVE d + 1 \in S
  <2>1. n + d \in Nat /\ (n + d) + 1 = n + (d + 1)
    OBVIOUS
  <2>2. Shifted[n + (d + 1)] = 2 * Shifted[n + d] /\ Shifted[n + d] \in Nat /\ Shifted[n] \in Nat
    BY <2>1, ShiftedSteps
  <2> QED
    BY <1>2, <2>2
<1>3. k - n \in S
  <2> HIDE DEF S
  <2>1. Nat \subseteq S
    BY <1>1, <1>2, Induct
  <2> QED
    BY <2>1
<1>4. x < Shifted[k] /\ Shifted[k] \in Nat \ {0}
  <2>1. n + (k - n) = k
    OBVIOUS
  <2>2. Shifted[k] >= Shifted[n]
    BY <1>3, <2>1
  <2> QED
    BY <2>2, ShiftedSteps
<1>5. \A p \in Nat \ {0} : x < p => x \div p = 0
  OBVIOUS
<1> QED
  BY <1>4, <1>5 DEF Bit

\* Without its n-th bit a number below Shifted[n + 1] is below Shifted[n].
LEMMA Below ==
    ASSUME NEW n \in Nat, NEW x \in Nat, x < Shifted[n + 1], Bit(x, n) = 0
    PROVE  x < Shifted[n]
<1>1. PICK p \in Nat \ {0} : p = Shifted[n] /\ Shifted[n + 1] = 2 * p
  BY ShiftedSteps
<1>2. x >= p => x \div p = 1
  BY <1>1
<1> QED
  BY <1>1, <1>2 DEF Bit

--------------------------------------------------------------------------------

\* Bit k of the code at u.
G(u, k) == (Bit(u, k) + Bit(u, k + 1)) % 2

\* The code of a half is the code without its lowest bit.
LEMMA GrayBits ==
    ASSUME NEW u \in Nat, NEW k \in Nat
    PROVE  /\ G(u, k) \in {0, 1}
           /\ G(u, k + 1) = G(u \div 2, k)
<1>1. \A a, b \in {0, 1} : (a + b) % 2 \in {0, 1}
  OBVIOUS
<1>2. k + 1 \in Nat
  OBVIOUS
<1> QED
  BY <1>1, <1>2, Bits DEF G

\* From one number to the next the codes change at one bit.
LEMMA Neighbours ==
    ASSUME NEW u \in Nat
    PROVE  \E t \in Nat : \A k \in Nat : G(u, k) # G(u + 1, k) <=> k = t
<1> DEFINE One(m) == \E t \in Nat : \A k \in Nat : G(m, k) # G(m + 1, k) <=> k = t
           S == {n \in Nat : \A m \in Nat : m <= n => One(m)}
<1>1. ASSUME NEW m \in Nat, m % 2 = 0 PROVE One(m)
  <2>1. m + 1 \in Nat /\ (m + 1) \div 2 = m \div 2 /\ (m + 1) % 2 = 1
    BY <1>1
  <2>2. G(m, 0) # G(m + 1, 0)
    <3>1. /\ Bit(m, 0) = 0 /\ Bit(m + 1, 0) = 1
          /\ Bit(m, 0 + 1) = Bit(m \div 2, 0) /\ Bit(m + 1, 0 + 1) = Bit(m \div 2, 0)
          /\ Bit(m \div 2, 0) \in {0, 1}
      BY <1>1, <2>1, Bits
    <3>2. \A b \in {0, 1} : (0 + b) % 2 # (1 + b) % 2
      OBVIOUS
    <3> QED
      BY <3>1, <3>2 DEF G
  <2>3. ASSUME NEW k \in Nat, k # 0 PROVE G(m, k) = G(m + 1, k)
    <3>1. k - 1 \in Nat /\ (k - 1) + 1 = k
      BY <2>3
    <3>2. G(m, (k - 1) + 1) = G(m \div 2, k - 1) /\ G(m + 1, (k - 1) + 1) = G((m + 1) \div 2, k - 1)
      BY <2>1, <3>1, GrayBits
    <3> QED
      BY <2>1, <3>1, <3>2
  <2> QED
    BY <2>2, <2>3
<1>2. ASSUME NEW m \in Nat, m % 2 = 1, One(m \div 2) PROVE One(m)
  <2> DEFINE c == m \div 2
  <2>1. c \in Nat /\ m + 1 \in Nat /\ (m + 1) \div 2 = c + 1 /\ (m + 1) % 2 = 0
    BY <1>2
  <2>2. PICK t \in Nat : \A k \in Nat : G(c, k) # G(c + 1, k) <=> k = t
    BY <1>2
  <2>3. G(m, 0) = G(m + 1, 0)
    <3>1. /\ Bit(m, 0) = 1 /\ Bit(m + 1, 0) = 0
          /\ Bit(m, 0 + 1) = Bit(c, 0) /\ Bit(m + 1, 0 + 1) = Bit(c + 1, 0)
          /\ Bit(c, 0) = c % 2 /\ Bit(c + 1, 0) = (c + 1) % 2
      BY <1>2, <2>1, Bits
    <3>2. \A l \in Nat : (1 + (l % 2)) % 2 = (0 + ((l + 1) % 2)) % 2
      OBVIOUS
    <3> HIDE DEF c
    <3> QED
      BY <2>1, <3>1, <3>2 DEF G
  <2>4. ASSUME NEW k \in Nat, k # 0
        PROVE  G(m, k) = G(c, k - 1) /\ G(m + 1, k) = G(c + 1, k - 1) /\ k - 1 \in Nat
    <3>1. k - 1 \in Nat /\ (k - 1) + 1 = k
      BY <2>4
    <3>2. G(m, (k - 1) + 1) = G(m \div 2, k - 1) /\ G(m + 1, (k - 1) + 1) = G((m + 1) \div 2, k - 1)
      BY <2>1, <3>1, GrayBits
    <3> QED
      BY <2>1, <3>1, <3>2
  <2> HIDE DEF c
  <2>5. ASSUME NEW k \in Nat PROVE G(m, k) # G(m + 1, k) <=> k = t + 1
    BY <2>2, <2>3, <2>4
  <2>6. t + 1 \in Nat
    OBVIOUS
  <2> QED
    BY <2>5, <2>6
<1> HIDE DEF One
<1>3. ASSUME NEW m \in Nat PROVE m % 2 = 0 \/ (m % 2 = 1 /\ m # 0 /\ m \div 2 \in Nat /\ m \div 2 < m)
  OBVIOUS
<1>4. 0 \in S
  <2>1. 0 % 2 = 0
    OBVIOUS
  <2> QED
    BY <1>1, <2>1
<1>5. ASSUME NEW n \in Nat, n \in S PROVE n + 1 \in S
  <2> SUFFICES ASSUME NEW m \in Nat, m <= n + 1 PROVE One(m)
    OBVIOUS
  <2>1. m % 2 = 1 => One(m \div 2)
    BY <1>3, <1>5
  <2> QED
    BY <1>1, <1>2, <1>3, <2>1
<1>6. Nat \subseteq S
  <2> HIDE DEF S
  <2> QED
    BY <1>4, <1>5, Induct
<1>7. One(u)
  BY <1>6
<1> QED
  BY <1>7 DEF One

\* Different numbers have different codes.
LEMMA CodesDiffer ==
    ASSUME NEW n \in Nat, NEW x \in Nat, NEW y \in Nat, x < Shifted[n], y < Shifted[n],
           \A k \in 0 .. n : G(x, k) = G(y, k)
    PROVE  x = y
<1> DEFINE Same(a, b, m) == \A k \in 0 .. m : G(a, k) = G(b, k)
           S == {m \in Nat : \A a, b \in Nat :
                    a < Shifted[m] /\ b < Shifted[m] /\ Same(a, b, m) => a = b}
<1>1. 0 \in S
  BY ShiftedSteps
<1>2. ASSUME NEW m \in Nat, m \in S PROVE m + 1 \in S
  <2> SUFFICES ASSUME NEW a \in Nat, NEW b \in Nat, a < Shifted[m + 1], b < Shifted[m + 1],
                      Same(a, b, m + 1)
               PROVE  a = b
    OBVIOUS
  <2>1. /\ a = 2 * (a \div 2) + (a % 2) /\ a % 2 \in {0, 1} /\ a \div 2 \in Nat
        /\ b = 2 * (b \div 2) + (b % 2) /\ b % 2 \in {0, 1} /\ b \div 2 \in Nat
    BY Bits
  <2>2. Shifted[m + 1] = 2 * Shifted[m] /\ Shifted[m] \in Nat
    BY ShiftedSteps
  <2>3. a \div 2 < Shifted[m] /\ b \div 2 < Shifted[m]
    BY <2>1, <2>2
  <2>4. Same(a \div 2, b \div 2, m)
    <3> SUFFICES ASSUME NEW k \in 0 .. m PROVE G(a \div 2, k) = G(b \div 2, k)
      OBVIOUS
    <3>1. k \in Nat /\ k + 1 \in 0 .. m + 1
      OBVIOUS
    <3>2. G(a, k + 1) = G(b, k + 1)
      BY <3>1
    <3> QED
      BY <3>1, <3>2, GrayBits
  <2>5. a \div 2 = b \div 2
    BY <1>2, <2>1, <2>3, <2>4
  <2>6. a % 2 = b % 2
    <3>1. G(a, 0) = G(b, 0)
      <4>1. 0 \in 0 .. m + 1
        OBVIOUS
      <4> QED
        BY <4>1
    <3> DEFINE h == a \div 2
    <3>2. /\ Bit(a, 0) = a % 2 /\ Bit(b, 0) = b % 2
          /\ Bit(a, 0 + 1) = Bit(h, 0) /\ Bit(b, 0 + 1) = Bit(h, 0)
          /\ Bit(h, 0) \in {0, 1}
      <4>1. h \in Nat /\ h = a \div 2 /\ h = b \div 2
        BY <2>1, <2>5
      <4> HIDE DEF h
      <4>2. Bit(h, 0) \in {0, 1}
        BY <4>1, Bits
      <4>3. Bit(a, 0) = a % 2 /\ Bit(a, 0 + 1) = Bit(h, 0)
        BY <4>1, LowBits
      <4>4. Bit(b, 0) = b % 2 /\ Bit(b, 0 + 1) = Bit(h, 0)
        BY <4>1, LowBits
      <4> QED
        BY <4>2, <4>3, <4>4
    <3> HIDE DEF h
    <3>3. \A p, q, r \in {0, 1} : (p + r) % 2 = (q + r) % 2 => p = q
      OBVIOUS
    <3> QED
      BY <2>1, <3>1, <3>2, <3>3 DEF G
  <2> QED
    BY <2>1, <2>5, <2>6
<1>3. n \in S
  <2>1. Nat \subseteq S
    <3> HIDE DEF S
    <3> QED
      BY <1>1, <1>2, Induct
  <2> QED
    BY <2>1
<1> QED
  BY <1>3

\* A number whose bits are all 0 is 0.
LEMMA ZeroBits ==
    ASSUME NEW n \in Nat, NEW x \in Nat, x < Shifted[n], \A k \in 0 .. n : Bit(x, k) = 0
    PROVE  x = 0
<1>1. \A k \in Nat : Bit(x, k) = 0 /\ Bit(0, k) = 0
  <2> SUFFICES ASSUME NEW k \in Nat PROVE Bit(x, k) = 0 /\ Bit(0, k) = 0
    OBVIOUS
  <2>1. 0 \in Nat /\ 0 < Shifted[0] /\ k >= 0
    BY ShiftedSteps
  <2>2. Bit(0, k) = 0
    BY <2>1, HighBits
  <2>3. k >= n => Bit(x, k) = 0
    BY HighBits
  <2> QED
    BY <2>2, <2>3
<1>2. \A k \in 0 .. n : G(x, k) = G(0, k)
  <2> SUFFICES ASSUME NEW k \in 0 .. n PROVE G(x, k) = G(0, k)
    OBVIOUS
  <2>1. k \in Nat /\ k + 1 \in Nat
    OBVIOUS
  <2> QED
    BY <1>1, <2>1 DEF G
<1>3. 0 \in Nat /\ 0 < Shifted[n]
  BY ShiftedSteps
<1> QED
  BY <1>2, <1>3, CodesDiffer

\* All n bits of the last number are 1.
LEMMA LastBits ==
    ASSUME NEW n \in Nat, NEW k \in Nat
    PROVE  /\ Shifted[n] - 1 \in Nat
           /\ Bit(Shifted[n] - 1, k) = IF k < n THEN 1 ELSE 0
<1> DEFINE S == {m \in Nat : \A l \in Nat : Bit(Shifted[m] - 1, l) = IF l < m THEN 1 ELSE 0}
<1>1. \A m \in Nat : Shifted[m] - 1 \in Nat
  BY ShiftedSteps
<1>2. 0 \in S
  <2>1. Shifted[0] - 1 = 0 /\ 0 < Shifted[0]
    BY ShiftedSteps
  <2> QED
    BY <2>1, HighBits
<1>3. ASSUME NEW m \in Nat, m \in S PROVE m + 1 \in S
  <2> SUFFICES ASSUME NEW l \in Nat
               PROVE  Bit(Shifted[m + 1] - 1, l) = IF l < m + 1 THEN 1 ELSE 0
    OBVIOUS
  <2>1. PICK p \in Nat \ {0} : p = Shifted[m] /\ Shifted[m + 1] = 2 * p
    BY ShiftedSteps
  <2>2. 2 * p - 1 \in Nat /\ (2 * p - 1) % 2 = 1 /\ (2 * p - 1) \div 2 = p - 1 /\ p - 1 \in Nat
    OBVIOUS
  <2>3. CASE l = 0
    <3>1. Bit(2 * p - 1, 0) = 1
      BY <2>2, Bits
    <3>2. Shifted[m + 1] - 1 = 2 * p - 1 /\ l < m + 1
      BY <2>1, <2>3
    <3> QED
      BY <2>3, <3>1, <3>2
  <2>4. CASE l # 0
    <3>1. l - 1 \in Nat /\ (l - 1) + 1 = l
      BY <2>4
    <3>2. Bit(2 * p - 1, (l - 1) + 1) = Bit(p - 1, l - 1)
      <4>1. PICK q \in Nat : q = 2 * p - 1 /\ q \div 2 = p - 1
        BY <2>2
      <4>2. Bit(q, (l - 1) + 1) = Bit(q \div 2, l - 1)
        BY <3>1, Bits
      <4> QED
        BY <4>1, <4>2
    <3>3. Bit(p - 1, l - 1) = IF l - 1 < m THEN 1 ELSE 0
      BY <1>3, <2>1, <3>1
    <3> QED
      BY <2>1, <3>1, <3>2, <3>3
  <2> QED
    BY <2>3, <2>4
<1>4. Nat \subseteq S
  <2> HIDE DEF S
  <2> QED
    BY <1>2, <1>3, Induct
<1> QED
  BY <1>1, <1>4

\* The code at u has n bits, and is u exclusive-or its half bit by bit.
LEMMA CodeIs ==
    ASSUME bits \in Nat, NEW u \in Nat, u < totalCodes
    PROVE  /\ grayCodeValue(u) \in Nat
           /\ grayCodeValue(u) < totalCodes
           /\ \A k \in 0 .. bits : Bit(grayCodeValue(u), k) = G(u, k)
<1> DEFINE z == grayCodeValue(u)
<1>1. u \div 2 \in Nat /\ u \div 2 <= u
  OBVIOUS
<1>2. z \in 0 .. u + (u \div 2) /\ \A k \in 0 .. bits : Bit(z, k) = (Bit(u, k) + Bit(u \div 2, k)) % 2
  <2>1. PICK h \in Nat : h = u \div 2
    BY <1>1
  <2>2. \E v \in 0 .. u + h : \A k \in 0 .. bits : Bit(v, k) = (Bit(u, k) + Bit(h, k)) % 2
    BY XorExists
  <2>3. /\ Xor(u, h) \in 0 .. u + h
        /\ \A k \in 0 .. bits : Bit(Xor(u, h), k) = (Bit(u, k) + Bit(h, k)) % 2
    <3> DEFINE range == 0 .. u + h
               Is(v) == \A k \in 0 .. bits : Bit(v, k) = (Bit(u, k) + Bit(h, k)) % 2
    <3>1. Xor(u, h) = CHOOSE v \in range : Is(v)
      BY DEF Xor
    <3>2. \E v \in range : Is(v)
      BY <2>2
    <3> HIDE DEF range, Is
    <3>3. Xor(u, h) \in range /\ Is(Xor(u, h))
      BY <3>1, <3>2
    <3> QED
      BY <3>3 DEF range, Is
  <2>4. z = Xor(u, h)
    BY <2>1 DEF grayCodeValue
  <2>5. h = u \div 2 /\ z = Xor(u, h)
    BY <2>1, <2>4
  <2> HIDE DEF z
  <2> QED
    BY <2>3, <2>5
<1> HIDE DEF z
<1>3. ASSUME NEW k \in 0 .. bits PROVE Bit(z, k) = G(u, k)
  <2>1. k \in Nat
    OBVIOUS
  <2>2. Bit(u, k + 1) = Bit(u \div 2, k)
    BY <2>1, Bits
  <2> QED
    BY <1>2, <2>2 DEF G
<1>4. z \in Nat /\ z < Shifted[bits + 1]
  <2>1. Shifted[bits + 1] = 2 * Shifted[bits] /\ Shifted[bits] \in Nat
    BY ShiftedSteps
  <2> QED
    BY <1>1, <1>2, <2>1 DEF totalCodes
<1>5. Bit(z, bits) = 0
  <2>1. bits + 1 \in Nat /\ bits + 1 >= bits /\ bits >= bits /\ bits \in 0 .. bits
    OBVIOUS
  <2>2. Bit(u, bits) = 0 /\ Bit(u, bits + 1) = 0
    BY <2>1, HighBits DEF totalCodes
  <2>3. (0 + 0) % 2 = 0
    OBVIOUS
  <2> QED
    BY <1>3, <2>1, <2>2, <2>3 DEF G
<1>6. z < totalCodes
  BY <1>4, <1>5, Below DEF totalCodes
<1> QED
  BY <1>3, <1>4, <1>6 DEF z

\* Numbers of n bits that differ in the bit t and no other.
LEMMA ApartAt ==
    ASSUME bits \in 0 .. MaxBits,
           NEW x \in Nat, x < totalCodes, NEW y \in Nat, y < totalCodes, NEW t \in Nat,
           \A k \in 0 .. bits : Bit(x, k) # Bit(y, k) <=> k = t,
           t <= bits
    PROVE  OneBitApart(x, y)
<1>1. bits \in Nat /\ bits <= MaxBits /\ MaxBits \in Nat
  BY GrayCodeAssumption
<1>2. ASSUME NEW k \in 0 .. MaxBits PROVE Bit(x, k) # Bit(y, k) <=> k = t
  <2>1. CASE k <= bits
    BY <1>1, <2>1
  <2>2. CASE k > bits
    <3>1. k \in Nat /\ k >= bits
      BY <1>1, <2>2
    <3>2. Bit(x, k) = 0 /\ Bit(y, k) = 0
      BY <1>1, <3>1, HighBits DEF totalCodes
    <3> QED
      BY <1>1, <2>2, <3>2
  <2> QED
    BY <1>1, <2>1, <2>2
<1>3. {k \in 0 .. MaxBits : Bit(x, k) # Bit(y, k)} = {t}
  <2>1. t \in 0 .. MaxBits
    BY <1>1
  <2> QED
    BY <1>2, <2>1
<1> QED
  BY <1>3, FS_Singleton DEF OneBitApart

\* What the loop has appended is the sequence of codes so far.
GrayInv ==
    /\ bits \in 0 .. MaxBits
    /\ grayCodes \in Seq(Nat)
    /\ Len(grayCodes) <= totalCodes
    /\ \A k \in 1 .. Len(grayCodes) :
          /\ grayCodes[k] < totalCodes
          /\ \A b \in 0 .. bits : Bit(grayCodes[k], b) = G(k - 1, b)

\* The invariant holds before the loop.
LEMMA GrayInvInit == GrayInit => GrayInv
<1> SUFFICES ASSUME GrayInit PROVE GrayInv
  OBVIOUS
<1>1. grayCodes \in Seq(Nat) /\ Len(grayCodes) = 0
  BY DEF GrayInit
<1>2. bits \in 0 .. MaxBits /\ 0 <= totalCodes
  BY GrayCodeAssumption, ShiftedSteps DEF GrayInit, totalCodes
<1>3. 1 .. Len(grayCodes) = {}
  BY <1>1
<1> QED
  BY <1>1, <1>2, <1>3 DEF GrayInv

\* A turn of the loop keeps the invariant.
LEMMA GrayInvNext == GrayInv /\ [Step]_grayVars => GrayInv'
<1> SUFFICES ASSUME GrayInv, [Step]_grayVars PROVE GrayInv'
  OBVIOUS
<1>1. CASE UNCHANGED grayVars
  BY <1>1 DEF grayVars, GrayInv, totalCodes
<1>2. CASE Step
  <2> DEFINE n == Len(grayCodes)
             code == grayCodeValue(n)
  <2>1. bits \in Nat /\ n \in Nat /\ n < totalCodes /\ totalCodes \in Nat
    BY <1>2, GrayCodeAssumption, ShiftedSteps DEF GrayInv, Step, totalCodes
  <2>2. code \in Nat /\ code < totalCodes /\ \A b \in 0 .. bits : Bit(code, b) = G(n, b)
    BY <2>1, CodeIs
  <2>3. grayCodes' = Append(grayCodes, code) /\ bits' = bits /\ totalCodes' = totalCodes
    BY <1>2 DEF Step, totalCodes
  <2> HIDE DEF code
  <2>4. grayCodes' \in Seq(Nat) /\ Len(grayCodes') = n + 1
    BY <2>2, <2>3 DEF GrayInv
  <2>5. ASSUME NEW k \in 1 .. n + 1
        PROVE  /\ grayCodes'[k] < totalCodes
               /\ \A b \in 0 .. bits : Bit(grayCodes'[k], b) = G(k - 1, b)
    <3>1. CASE k = n + 1
      <4>1. grayCodes'[k] = code /\ k - 1 = n
        BY <2>1, <2>3, <3>1 DEF GrayInv
      <4> QED
        BY <2>2, <4>1
    <3>2. CASE k # n + 1
      <4>1. k \in 1 .. n /\ grayCodes'[k] = grayCodes[k]
        BY <2>1, <2>3, <3>2 DEF GrayInv
      <4> QED
        BY <4>1 DEF GrayInv
    <3> QED
      BY <3>1, <3>2
  <2> QED
    BY <2>1, <2>3, <2>4, <2>5 DEF GrayInv
<1> QED
  BY <1>1, <1>2

\* Every state of the loop satisfies the invariant.
THEOREM GrayInvariant == GraySpec => []GrayInv
  BY GrayInvInit, GrayInvNext, PTL DEF GraySpec

\* What the invariant says of the codes as numbers.
LEMMA CodeTypes ==
    ASSUME GrayInv
    PROVE  /\ bits \in Nat /\ totalCodes \in Nat /\ totalCodes > 0
           /\ Len(grayCodes) \in Nat /\ DOMAIN grayCodes = 1 .. Len(grayCodes)
           /\ \A k \in 1 .. Len(grayCodes) : grayCodes[k] \in 0 .. totalCodes - 1
<1>1. bits \in Nat /\ totalCodes \in Nat /\ totalCodes > 0
  BY GrayCodeAssumption, ShiftedSteps DEF GrayInv, totalCodes
<1>2. Len(grayCodes) \in Nat /\ DOMAIN grayCodes = 1 .. Len(grayCodes)
  BY DEF GrayInv
<1>3. ASSUME NEW k \in 1 .. Len(grayCodes) PROVE grayCodes[k] \in 0 .. totalCodes - 1
  <2>1. grayCodes[k] \in Nat /\ grayCodes[k] < totalCodes
    BY DEF GrayInv
  <2> QED
    BY <1>1, <2>1
<1> QED
  BY <1>1, <1>2, <1>3

\* Consecutive codes differ in one bit.
LEMMA NeighboursApart ==
    ASSUME GrayInv, NEW k \in 1 .. Len(grayCodes) - 1
    PROVE  OneBitApart(grayCodes[k], grayCodes[k + 1])
<1>1. /\ k \in 1 .. Len(grayCodes) /\ k + 1 \in 1 .. Len(grayCodes) /\ k - 1 \in Nat
      /\ (k + 1) - 1 = k /\ (k - 1) + 1 = k
  BY CodeTypes
<1>2. PICK t \in Nat : \A b \in Nat : G(k - 1, b) # G((k - 1) + 1, b) <=> b = t
  BY <1>1, Neighbours
<1>3. \A b \in 0 .. bits : Bit(grayCodes[k], b) # Bit(grayCodes[k + 1], b) <=> b = t
  <2> SUFFICES ASSUME NEW b \in 0 .. bits
               PROVE  Bit(grayCodes[k], b) # Bit(grayCodes[k + 1], b) <=> b = t
    OBVIOUS
  <2>1. Bit(grayCodes[k], b) = G(k - 1, b) /\ Bit(grayCodes[k + 1], b) = G(k, b)
    BY <1>1 DEF GrayInv
  <2>2. b \in Nat
    OBVIOUS
  <2> QED
    BY <1>1, <1>2, <2>1, <2>2
<1>4. t <= bits
  <2> SUFFICES ASSUME t > bits PROVE FALSE
    BY CodeTypes
  <2>1. /\ bits \in Nat /\ t \in Nat /\ t + 1 \in Nat /\ t >= bits /\ t + 1 >= bits
        /\ k \in Nat /\ k - 1 < totalCodes /\ k < totalCodes
    BY <1>1, CodeTypes DEF GrayInv
  <2>2. Bit(k - 1, t) = 0 /\ Bit(k - 1, t + 1) = 0 /\ Bit(k, t) = 0 /\ Bit(k, t + 1) = 0
    BY <1>1, <2>1, HighBits DEF totalCodes
  <2>3. G(k - 1, t) = G(k, t)
    BY <2>2 DEF G
  <2> QED
    BY <1>1, <1>2, <2>3
<1> QED
  <2>1. /\ grayCodes[k] \in Nat /\ grayCodes[k] < totalCodes
        /\ grayCodes[k + 1] \in Nat /\ grayCodes[k + 1] < totalCodes
        /\ bits \in 0 .. MaxBits
    BY <1>1, CodeTypes DEF GrayInv
  <2> QED
    BY <1>3, <1>4, <2>1, ApartAt

\* No code comes twice.
LEMMA NoCodeTwice == ASSUME GrayInv PROVE IsInjective(grayCodes)
<1> SUFFICES ASSUME NEW k \in 1 .. Len(grayCodes), NEW l \in 1 .. Len(grayCodes),
                    grayCodes[k] = grayCodes[l]
             PROVE  k = l
  BY CodeTypes DEF IsInjective
<1>1. /\ bits \in Nat /\ k - 1 \in Nat /\ l - 1 \in Nat
      /\ k - 1 < Shifted[bits] /\ l - 1 < Shifted[bits]
  BY CodeTypes DEF GrayInv, totalCodes
<1>2. \A b \in 0 .. bits : G(k - 1, b) = G(l - 1, b)
  BY DEF GrayInv
<1>3. k - 1 = l - 1
  BY <1>1, <1>2, CodesDiffer
<1> QED
  BY <1>3

\* When the loop is over the codes are all numbers of n bits.
LEMMA AllCodes ==
    ASSUME GrayInv, Len(grayCodes) = totalCodes
    PROVE  Range(grayCodes) = 0 .. totalCodes - 1
<1> DEFINE n == totalCodes
           All == 0 .. n - 1
<1>1. n \in Nat /\ n > 0 /\ DOMAIN grayCodes = 1 .. n /\ \A k \in 1 .. n : grayCodes[k] \in All
  BY CodeTypes
<1> HIDE DEF n
<1>2. Range(grayCodes) = {grayCodes[k] : k \in 1 .. n}
  BY <1>1 DEF Range
<1>3. Range(grayCodes) \subseteq All
  BY <1>1, <1>2
<1>4. IsFiniteSet(All) /\ Cardinality(All) = n
  BY <1>1, FS_Interval
<1>5. IsFiniteSet(1 .. n) /\ Cardinality(1 .. n) = n
  BY <1>1, FS_Interval
<1> DEFINE g == [k \in 1 .. n |-> grayCodes[k]]
<1>6. g \in Injection(1 .. n, All)
  <2>1. \A a, b \in 1 .. n : grayCodes[a] = grayCodes[b] => a = b
    BY <1>1, NoCodeTwice DEF IsInjective
  <2>2. g \in [1 .. n -> All]
    BY <1>1
  <2> QED
    BY <2>1, <2>2 DEF Injection, IsInjective
<1>7. g \in Surjection(1 .. n, All)
  <2> HIDE DEF g
  <2> QED
    BY <1>4, <1>5, <1>6, FS_Injection
<1>8. \A v \in All : \E k \in 1 .. n : v = grayCodes[k]
  BY <1>7 DEF Surjection
<1>9. All \subseteq Range(grayCodes)
  BY <1>2, <1>8
<1>10. Range(grayCodes) = All
  BY <1>3, <1>9
<1> QED
  BY <1>10 DEF n

\* The first code is 0, and the last one a single bit from it.
LEMMA FirstAndLastCode ==
    ASSUME GrayInv, Len(grayCodes) = totalCodes
    PROVE  /\ grayCodes[1] = 0
           /\ bits > 0 => OneBitApart(grayCodes[totalCodes], grayCodes[1])
<1>1. /\ bits \in Nat /\ totalCodes \in Nat /\ totalCodes > 0
      /\ 1 \in 1 .. Len(grayCodes) /\ totalCodes \in 1 .. Len(grayCodes)
  BY CodeTypes
<1>2. /\ grayCodes[1] \in Nat /\ grayCodes[1] < totalCodes
      /\ grayCodes[totalCodes] \in Nat /\ grayCodes[totalCodes] < totalCodes
  BY <1>1, CodeTypes
<1>3. ASSUME NEW b \in 0 .. bits
      PROVE  /\ Bit(grayCodes[1], b) = 0
             /\ Bit(grayCodes[totalCodes], b) = IF b = bits - 1 THEN 1 ELSE 0
  <2>1. Bit(grayCodes[1], b) = G(0, b) /\ Bit(grayCodes[totalCodes], b) = G(totalCodes - 1, b)
    <3>1. 1 - 1 = 0
      OBVIOUS
    <3> QED
      BY <1>1, <3>1 DEF GrayInv
  <2>2. b \in Nat /\ b + 1 \in Nat
    OBVIOUS
  <2>3. Bit(0, b) = 0 /\ Bit(0, b + 1) = 0
    <3>1. 0 \in Nat /\ 0 < Shifted[0] /\ b >= 0 /\ b + 1 >= 0
      BY ShiftedSteps
    <3> QED
      BY <2>2, <3>1, HighBits
  <2>4. /\ Bit(totalCodes - 1, b) = IF b < bits THEN 1 ELSE 0
        /\ Bit(totalCodes - 1, b + 1) = IF b + 1 < bits THEN 1 ELSE 0
    BY <1>1, <2>2, LastBits DEF totalCodes
  <2>5. (0 + 0) % 2 = 0 /\ (1 + 0) % 2 = 1 /\ (1 + 1) % 2 = 0
    OBVIOUS
  <2> QED
    BY <1>1, <2>1, <2>2, <2>3, <2>4, <2>5 DEF G
<1>4. grayCodes[1] = 0
  <2>1. \A b \in 0 .. bits : Bit(grayCodes[1], b) = 0
    BY <1>3
  <2> QED
    BY <1>1, <1>2, <2>1, ZeroBits DEF totalCodes
<1>5. ASSUME bits > 0 PROVE OneBitApart(grayCodes[totalCodes], grayCodes[1])
  <2>1. \A b \in 0 .. bits :
           Bit(grayCodes[totalCodes], b) # Bit(grayCodes[1], b) <=> b = bits - 1
    BY <1>3
  <2>2. bits - 1 \in Nat /\ bits - 1 <= bits /\ bits \in 0 .. MaxBits
    BY <1>1, <1>5 DEF GrayInv
  <2> QED
    BY <1>2, <2>1, <2>2, ApartAt
<1> QED
  BY <1>4, <1>5

\* For every number of bits: grayCode's neighbours differ in one bit, no code
\* comes twice, and what it returns is every number of n bits, from 0 round to
\* one bit from 0.
THEOREM GrayCodesAreASequence == GraySpec => []IsGraySequence
<1>1. ASSUME GrayInv PROVE IsGraySequence
  <2>1. \A k \in 1 .. Len(grayCodes) - 1 : OneBitApart(grayCodes[k], grayCodes[k + 1])
    BY <1>1, NeighboursApart
  <2>2. IsInjective(grayCodes)
    BY <1>1, NoCodeTwice
  <2>3. ASSUME Len(grayCodes) = totalCodes
        PROVE  /\ Range(grayCodes) = 0 .. totalCodes - 1
               /\ grayCodes[1] = 0
               /\ bits > 0 => OneBitApart(grayCodes[totalCodes], grayCodes[1])
    BY <1>1, <2>3, AllCodes, FirstAndLastCode
  <2> QED
    BY <2>1, <2>2, <2>3 DEF IsGraySequence
<1> QED
  BY <1>1, GrayInvariant, PTL

--------------------------------------------------------------------------------
(* Sums over a finite set                                                  *)

\* The sizes of the parts of a finite set.
LEMMA Finite ==
    ASSUME NEW D, IsFiniteSet(D)
    PROVE  /\ Cardinality(D) \in Nat
           /\ \A s \in SUBSET D :
                 /\ IsFiniteSet(s)
                 /\ Cardinality(s) \in Nat
                 /\ Cardinality(s) <= Cardinality(D)
  BY FS_Subset, FS_CardinalityType

\* An element less makes a set smaller by one.
LEMMA Smaller ==
    ASSUME NEW D, IsFiniteSet(D), NEW s \in SUBSET D, NEW x \in s
    PROVE  Cardinality(s \ {x}) = Cardinality(s) - 1 /\ s \ {x} \in SUBSET D
  BY Finite, FS_RemoveElement

\* What passes from the sets with an element less to a set holds of all.
LEMMA SubsetInduct ==
    ASSUME NEW D, IsFiniteSet(D), NEW S,
           \A s \in SUBSET D : (\A y \in s : s \ {y} \in S) => s \in S
    PROVE  SUBSET D \subseteq S
<1> DEFINE T == {n \in Nat : \A s \in SUBSET D : Cardinality(s) = n => s \in S}
<1>1. 0 \in T
  <2> SUFFICES ASSUME NEW s \in SUBSET D, Cardinality(s) = 0 PROVE s \in S
    OBVIOUS
  <2>1. s = {}
    BY Finite, FS_EmptySet
  <2> QED
    BY <2>1
<1>2. ASSUME NEW n \in Nat, n \in T PROVE n + 1 \in T
  <2> SUFFICES ASSUME NEW s \in SUBSET D, Cardinality(s) = n + 1 PROVE s \in S
    OBVIOUS
  <2>1. ASSUME NEW y \in s PROVE s \ {y} \in S
    <3>1. Cardinality(s \ {y}) = Cardinality(s) - 1 /\ s \ {y} \in SUBSET D
      BY Smaller
    <3> QED
      BY <1>2, <3>1
  <2> QED
    BY <2>1
<1>3. Nat \subseteq T
  <2> HIDE DEF T
  <2> QED
    BY <1>1, <1>2, Induct
<1> QED
  BY <1>3, Finite

\* The fold behind SumFunction: the sums of f over all sets of arguments.
Part(f) ==
    CHOOSE iter : iter = [s \in SUBSET DOMAIN f |->
        IF s = {} THEN 0
        ELSE f[CHOOSE x \in s : TRUE] + iter[s \ {CHOOSE x \in s : TRUE}]]

\* SumFunction is the fold at the whole domain.
LEMMA SumIsPart ==
    ASSUME NEW f
    PROVE  SumFunction(f) = Part(f)[DOMAIN f]
  BY DEF SumFunction, SumFunctionOnSet, FoldFunctionOnSet, MapThenFoldSet, Part

Choice(s) == CHOOSE x \in s : TRUE

\* The element a fold takes first is one of the set.
LEMMA ChoiceIn == ASSUME NEW s, s # {} PROVE Choice(s) \in s
  BY DEF Choice

\* There is such a fold: for the sets of up to n elements, for every n.
LEMMA PartExists ==
    ASSUME NEW D, IsFiniteSet(D), NEW f \in [D -> Nat]
    PROVE  Part(f) = [s \in SUBSET D |->
                         IF s = {} THEN 0 ELSE f[Choice(s)] + Part(f)[s \ {Choice(s)}]]
<1> DEFINE Eq(g, s) == g[s] = IF s = {} THEN 0 ELSE f[Choice(s)] + g[s \ {Choice(s)}]
           Until(g, n) == \A s \in SUBSET D : Cardinality(s) <= n => Eq(g, s)
           S == {n \in Nat : \E g \in [SUBSET D -> Nat] : Until(g, n)}
<1>1. 0 \in S
  <2> DEFINE g == [s \in SUBSET D |-> 0]
  <2>1. \A s \in SUBSET D : Cardinality(s) <= 0 => s = {}
    BY Finite, FS_EmptySet
  <2>2. Until(g, 0)
    BY <2>1
  <2>3. g \in [SUBSET D -> Nat]
    OBVIOUS
  <2> QED
    BY <2>2, <2>3
<1>2. ASSUME NEW n \in Nat, n \in S PROVE n + 1 \in S
  <2>1. PICK g \in [SUBSET D -> Nat] : Until(g, n)
    BY <1>2
  <2> DEFINE h == [s \in SUBSET D |->
                     IF Cardinality(s) <= n THEN g[s]
                     ELSE f[Choice(s)] + g[s \ {Choice(s)}]]
  <2>2. ASSUME NEW s \in SUBSET D, s # {}
        PROVE  /\ Choice(s) \in D /\ s \ {Choice(s)} \in SUBSET D
               /\ Cardinality(s \ {Choice(s)}) = Cardinality(s) - 1
               /\ f[Choice(s)] \in Nat /\ Cardinality(s) \in Nat
    BY <2>2, ChoiceIn, Smaller, Finite
  <2>3. Cardinality({}) = 0
    BY FS_EmptySet
  <2>4. h \in [SUBSET D -> Nat]
    <3> SUFFICES ASSUME NEW s \in SUBSET D, ~(Cardinality(s) <= n)
                 PROVE  f[Choice(s)] + g[s \ {Choice(s)}] \in Nat
      OBVIOUS
    <3>1. s # {}
      BY Finite, FS_EmptySet
    <3> QED
      BY <2>2, <3>1
  <2>5. ASSUME NEW s \in SUBSET D, Cardinality(s) <= n + 1 PROVE Eq(h, s)
    <3>1. CASE s = {}
      BY <2>1, <2>3, <3>1
    <3>2. CASE s # {}
      <4>1. h[s \ {Choice(s)}] = g[s \ {Choice(s)}]
        BY <2>2, <2>5, <3>2
      <4>2. h[s] = f[Choice(s)] + g[s \ {Choice(s)}]
        BY <2>1, <3>2
      <4> QED
        BY <3>2, <4>1, <4>2
    <3> QED
      BY <3>1, <3>2
  <2>6. Until(h, n + 1)
    BY <2>5
  <2> HIDE DEF h, Until
  <2> QED
    BY <2>4, <2>6
<1>3. \E g \in [SUBSET D -> Nat] : \A s \in SUBSET D : Eq(g, s)
  <2>1. Nat \subseteq S
    <3> HIDE DEF S
    <3> QED
      BY <1>1, <1>2, Induct
  <2>2. PICK g \in [SUBSET D -> Nat] : Until(g, Cardinality(D))
    BY <2>1, Finite
  <2> QED
    BY <2>2, Finite
<1>4. \E g : g = [s \in SUBSET D |->
                IF s = {} THEN 0 ELSE f[Choice(s)] + g[s \ {Choice(s)}]]
  <2>1. PICK g \in [SUBSET D -> Nat] : \A s \in SUBSET D : Eq(g, s)
    BY <1>3
  <2>2. g = [s \in SUBSET D |->
                IF s = {} THEN 0 ELSE f[Choice(s)] + g[s \ {Choice(s)}]]
    BY <2>1
  <2> QED
    BY <2>2
<1>5. DOMAIN f = D
  OBVIOUS
<1>6. Part(f) = CHOOSE g : g = [s \in SUBSET D |->
                               IF s = {} THEN 0 ELSE f[Choice(s)] + g[s \ {Choice(s)}]]
  BY <1>5, Zenon DEF Part, Choice
<1> QED
  BY <1>4, <1>6, Zenon

\* p adds up f, whichever element it takes first.
Sums(p, D, f) ==
    /\ p[{}] = 0
    /\ \A s \in SUBSET D : p[s] \in Nat
    /\ \A s \in SUBSET D : \A y \in s : p[s] = f[y] + p[s \ {y}]

\* The fold does not depend on the element it takes first.
LEMMA PartSums ==
    ASSUME NEW D, IsFiniteSet(D), NEW f \in [D -> Nat]
    PROVE  Sums(Part(f), D, f)
<1> DEFINE p == Part(f)
<1>1. p = [s \in SUBSET D |->
              IF s = {} THEN 0 ELSE f[Choice(s)] + p[s \ {Choice(s)}]]
  BY PartExists
<1> HIDE DEF p
<1>2. p[{}] = 0
  BY <1>1
<1>3. ASSUME NEW s \in SUBSET D, s # {}
      PROVE  p[s] = f[Choice(s)] + p[s \ {Choice(s)}] /\ Choice(s) \in s
  BY <1>1, <1>3, ChoiceIn
<1> DEFINE Good(s) ==
               p[s] \in Nat /\ \A y \in s : p[s \ {y}] \in Nat /\ p[s] = f[y] + p[s \ {y}]
           S == {s \in SUBSET D : Good(s)}
<1>4. ASSUME NEW s \in SUBSET D, \A y \in s : s \ {y} \in S PROVE s \in S
  <2>1. CASE s = {}
    BY <1>2, <2>1
  <2>2. CASE s # {}
    <3> DEFINE x == Choice(s)
    <3>1. x \in s /\ x \in D /\ p[s] = f[x] + p[s \ {x}] /\ f[x] \in Nat
      BY <1>3, <2>2
    <3> HIDE DEF x
    <3>2. ASSUME NEW y \in s PROVE Good(s \ {y}) /\ f[y] \in Nat
      BY <1>4
    <3>3. p[s] \in Nat
      BY <3>1, <3>2
    <3>4. ASSUME NEW y \in s, y # x PROVE p[s] = f[y] + p[s \ {y}]
      <4>1. y \in s \ {x} /\ x \in s \ {y}
        BY <3>1, <3>4
      <4>2. p[s \ {x}] = f[y] + p[(s \ {x}) \ {y}] /\ p[(s \ {x}) \ {y}] \in Nat
        BY <3>1, <3>2, <4>1
      <4>3. p[s \ {y}] = f[x] + p[(s \ {y}) \ {x}]
        BY <3>2, <4>1
      <4>4. p[(s \ {y}) \ {x}] = p[(s \ {x}) \ {y}]
        <5>1. (s \ {x}) \ {y} = (s \ {y}) \ {x}
          OBVIOUS
        <5> QED
          BY <5>1
      <4>5. f[y] \in Nat
        OBVIOUS
      <4> HIDE DEF Good, S
      <4>6. f[y] + p[s \ {y}] = f[x] + p[s \ {x}]
        BY <3>1, <4>2, <4>3, <4>4, <4>5
      <4> QED
        BY <3>1, <4>6
    <3>5. \A y \in s : p[s \ {y}] \in Nat
      BY <3>2
    <3> QED
      BY <3>1, <3>3, <3>4, <3>5
  <2> QED
    BY <2>1, <2>2
<1>5. SUBSET D \subseteq S
  <2> HIDE DEF S
  <2> QED
    BY <1>4, SubsetInduct
<1>6. \A s \in SUBSET D : Good(s)
  BY <1>5
<1> QED
  BY <1>2, <1>6 DEF p, Sums

\* The sum of f over a part of its domain.
Over(f, s) == SumFunction([x \in s |-> f[x]])

\* A sum over a part of the domain is the fold at that part.
LEMMA OverIsPart ==
    ASSUME NEW D, IsFiniteSet(D), NEW f \in [D -> Nat], NEW s \in SUBSET D
    PROVE  Over(f, s) = Part(f)[s]
<1> DEFINE g == [x \in s |-> f[x]]
<1>1. g \in [s -> Nat] /\ DOMAIN g = s /\ \A x \in s : g[x] = f[x]
  OBVIOUS
<1>2. IsFiniteSet(s)
  BY Finite
<1>3. Over(f, s) = Part(g)[s]
  BY <1>1, SumIsPart DEF Over
<1> HIDE DEF g
<1>4. Sums(Part(g), s, g)
  BY <1>1, <1>2, PartSums
<1>5. Sums(Part(f), D, f)
  BY PartSums
<1> DEFINE S == {t \in SUBSET s : Part(g)[t] = Part(f)[t]}
<1>6. ASSUME NEW t \in SUBSET s, \A y \in t : t \ {y} \in S PROVE t \in S
  <2>1. CASE t = {}
    BY <1>4, <1>5, <2>1 DEF Sums
  <2>2. CASE t # {}
    <3>1. PICK y \in t : TRUE
      BY <2>2
    <3>2. Part(g)[t \ {y}] = Part(f)[t \ {y}]
      BY <1>6
    <3>3. t \in SUBSET D /\ y \in s
      OBVIOUS
    <3>4. Part(g)[t] = g[y] + Part(g)[t \ {y}]
      BY <1>4 DEF Sums
    <3>5. Part(f)[t] = f[y] + Part(f)[t \ {y}]
      BY <1>5, <3>3 DEF Sums
    <3> QED
      BY <1>1, <3>2, <3>3, <3>4, <3>5
  <2> QED
    BY <2>1, <2>2
<1>7. SUBSET s \subseteq S
  <2> HIDE DEF S
  <2> QED
    BY <1>2, <1>6, SubsetInduct
<1> QED
  BY <1>3, <1>7

\* A sum is the sum without an element, and that element.
LEMMA OverSteps ==
    ASSUME NEW D, IsFiniteSet(D), NEW f \in [D -> Nat]
    PROVE  /\ Over(f, {}) = 0
           /\ \A s \in SUBSET D :
                 /\ Over(f, s) \in Nat
                 /\ \A y \in s : Over(f, s) = f[y] + Over(f, s \ {y})
<1>1. {} \in SUBSET D /\ \A s \in SUBSET D : \A y \in s : s \ {y} \in SUBSET D
  OBVIOUS
<1>2. \A s \in SUBSET D : Over(f, s) = Part(f)[s]
  BY OverIsPart
<1>3. Sums(Part(f), D, f)
  BY PartSums
<1>4. Over(f, {}) = 0
  BY <1>1, <1>2, <1>3 DEF Sums
<1>5. ASSUME NEW s \in SUBSET D
      PROVE  Over(f, s) \in Nat /\ \A y \in s : Over(f, s) = f[y] + Over(f, s \ {y})
  <2>1. Part(f)[s] \in Nat
    BY <1>3 DEF Sums
  <2>2. ASSUME NEW y \in s PROVE Over(f, s) = f[y] + Over(f, s \ {y})
    <3>1. Part(f)[s] = f[y] + Part(f)[s \ {y}]
      BY <1>3 DEF Sums
    <3> QED
      BY <1>1, <1>2, <3>1
  <2> QED
    BY <1>2, <2>1, <2>2
<1> QED
  BY <1>4, <1>5

\* Sums over sets without a common element add up.
LEMMA OverDisjoint ==
    ASSUME NEW D, IsFiniteSet(D), NEW f \in [D -> Nat],
           NEW A \in SUBSET D, NEW B \in SUBSET D, A \cap B = {}
    PROVE  Over(f, A \cup B) = Over(f, A) + Over(f, B)
<1>1. /\ Over(f, {}) = 0
      /\ \A s \in SUBSET D : Over(f, s) \in Nat
      /\ \A s \in SUBSET D : \A y \in s : Over(f, s) = f[y] + Over(f, s \ {y})
  BY OverSteps
<1> DEFINE S == {t \in SUBSET A : Over(f, t \cup B) = Over(f, t) + Over(f, B)}
<1>2. ASSUME NEW t \in SUBSET A, \A y \in t : t \ {y} \in S PROVE t \in S
  <2>1. CASE t = {}
    <3>1. t \cup B = B
      BY <2>1
    <3>2. Over(f, B) \in Nat
      BY <1>1
    <3> QED
      BY <1>1, <2>1, <3>1, <3>2
  <2>2. CASE t # {}
    <3>1. PICK y \in t : TRUE
      BY <2>2
    <3>2. (t \ {y}) \cup B = (t \cup B) \ {y} /\ t \cup B \in SUBSET D /\ y \in t \cup B
          /\ t \in SUBSET D /\ t \ {y} \in SUBSET D
      OBVIOUS
    <3>3. Over(f, (t \cup B) \ {y}) = Over(f, t \ {y}) + Over(f, B)
      BY <1>2, <3>2
    <3>4. Over(f, t \cup B) = f[y] + Over(f, (t \cup B) \ {y})
      BY <1>1, <3>2
    <3>5. Over(f, t) = f[y] + Over(f, t \ {y})
      BY <1>1, <3>2
    <3>6. Over(f, t \ {y}) \in Nat /\ Over(f, B) \in Nat /\ f[y] \in Nat
      BY <1>1, <3>2
    <3> QED
      BY <3>3, <3>4, <3>5, <3>6
  <2> QED
    BY <2>1, <2>2
<1>3. IsFiniteSet(A)
  BY Finite
<1>4. SUBSET A \subseteq S
  <2> HIDE DEF S
  <2> QED
    BY <1>2, <1>3, SubsetInduct
<1> QED
  BY <1>4

\* One more for every element: the sum grows by the number of elements.
LEMMA OverPlus ==
    ASSUME NEW D, IsFiniteSet(D), NEW f \in [D -> Nat], NEW g \in [D -> Nat],
           NEW A \in SUBSET D, \A x \in A : f[x] = g[x] + 1
    PROVE  Over(f, A) = Over(g, A) + Cardinality(A)
<1>1. /\ Over(f, {}) = 0
      /\ \A s \in SUBSET D : \A y \in s : Over(f, s) = f[y] + Over(f, s \ {y})
  BY OverSteps
<1>2. /\ Over(g, {}) = 0
      /\ \A s \in SUBSET D : Over(g, s) \in Nat
      /\ \A s \in SUBSET D : \A y \in s : Over(g, s) = g[y] + Over(g, s \ {y})
  BY OverSteps
<1>3. IsFiniteSet(A)
  BY Finite
<1> DEFINE S == {t \in SUBSET A : Over(f, t) = Over(g, t) + Cardinality(t)}
<1>4. ASSUME NEW t \in SUBSET A, \A y \in t : t \ {y} \in S PROVE t \in S
  <2>1. CASE t = {}
    BY <1>1, <1>2, <2>1, FS_EmptySet
  <2>2. CASE t # {}
    <3>1. PICK y \in t : TRUE
      BY <2>2
    <3>2. t \in SUBSET D /\ t \ {y} \in SUBSET D /\ y \in A /\ y \in D
      OBVIOUS
    <3>3. Over(f, t \ {y}) = Over(g, t \ {y}) + Cardinality(t \ {y})
      BY <1>4
    <3>4. Cardinality(t \ {y}) = Cardinality(t) - 1 /\ Cardinality(t) \in Nat
      BY <1>3, Smaller, Finite
    <3>5. Over(f, t) = f[y] + Over(f, t \ {y}) /\ Over(g, t) = g[y] + Over(g, t \ {y})
      BY <1>1, <1>2, <3>2
    <3>6. Over(g, t \ {y}) \in Nat /\ f[y] = g[y] + 1 /\ g[y] \in Nat
      BY <1>2, <3>2
    <3> QED
      BY <3>3, <3>4, <3>5, <3>6
  <2> QED
    BY <2>1, <2>2
<1>5. SUBSET A \subseteq S
  <2> HIDE DEF S
  <2> QED
    BY <1>3, <1>4, SubsetInduct
<1> QED
  BY <1>5

\* A sum of ones counts.
LEMMA OverOnes ==
    ASSUME NEW D, IsFiniteSet(D), NEW A \in SUBSET D
    PROVE  Over([x \in D |-> 1], A) = Cardinality(A)
<1> DEFINE f == [x \in D |-> 1]
           g == [x \in D |-> 0]
           S == {t \in SUBSET D : Over(g, t) = 0}
<1>1. f \in [D -> Nat] /\ g \in [D -> Nat] /\ \A x \in A : f[x] = g[x] + 1
  OBVIOUS
<1>2. \A x \in D : g[x] = 0
  OBVIOUS
<1> HIDE DEF f, g
<1>3. /\ Over(g, {}) = 0
      /\ \A s \in SUBSET D : \A y \in s : Over(g, s) = g[y] + Over(g, s \ {y})
  BY <1>1, OverSteps
<1>4. ASSUME NEW t \in SUBSET D, \A y \in t : t \ {y} \in S PROVE t \in S
  <2>1. CASE t = {}
    BY <1>3, <2>1
  <2>2. CASE t # {}
    <3>1. PICK y \in t : TRUE
      BY <2>2
    <3>2. Over(g, t \ {y}) = 0 /\ Over(g, t) = g[y] + Over(g, t \ {y}) /\ g[y] = 0
      BY <1>2, <1>3, <1>4
    <3> QED
      BY <3>2
  <2> QED
    BY <2>1, <2>2
<1>5. SUBSET D \subseteq S
  <2> HIDE DEF S
  <2> QED
    BY <1>4, SubsetInduct
<1>6. Over(f, A) = Over(g, A) + Cardinality(A)
  BY <1>1, OverPlus
<1>7. Over(g, A) = 0 /\ Cardinality(A) \in Nat
  BY <1>5, Finite
<1> QED
  BY <1>6, <1>7 DEF f

\* The sum over disjoint sets, one by one, is the sum over their union.
LEMMA OverUnion ==
    ASSUME NEW D, IsFiniteSet(D), NEW f \in [D -> Nat],
           NEW C, IsFiniteSet(C), NEW K \in [C -> SUBSET D],
           \A c, d \in C : c # d => K[c] \cap K[d] = {}
    PROVE  SumFunction([c \in C |-> Over(f, K[c])]) = Over(f, UNION {K[c] : c \in C})
<1> DEFINE g == [c \in C |-> Over(f, K[c])]
           S == {t \in SUBSET C : Over(g, t) = Over(f, UNION {K[c] : c \in t})}
<1>1. /\ Over(f, {}) = 0
      /\ \A s \in SUBSET D : Over(f, s) \in Nat
  BY OverSteps
<1>2. g \in [C -> Nat] /\ \A c \in C : g[c] = Over(f, K[c])
  BY <1>1
<1>3. SumFunction(g) = Over(g, C)
  BY DEF Over
<1> HIDE DEF g
<1>4. /\ Over(g, {}) = 0
      /\ \A s \in SUBSET C : \A y \in s : Over(g, s) = g[y] + Over(g, s \ {y})
  BY <1>2, OverSteps
<1>5. ASSUME NEW t \in SUBSET C, \A y \in t : t \ {y} \in S PROVE t \in S
  <2>1. CASE t = {}
    <3>1. UNION {K[c] : c \in t} = {}
      BY <2>1
    <3> QED
      BY <1>1, <1>4, <2>1, <3>1
  <2>2. CASE t # {}
    <3>1. PICK y \in t : TRUE
      BY <2>2
    <3> DEFINE rest == UNION {K[c] : c \in t \ {y}}
    <3>2. UNION {K[c] : c \in t} = K[y] \cup rest /\ K[y] \cap rest = {}
          /\ K[y] \in SUBSET D /\ rest \in SUBSET D
      OBVIOUS
    <3>3. Over(g, t \ {y}) = Over(f, rest)
      BY <1>5
    <3> HIDE DEF rest
    <3>4. Over(f, K[y] \cup rest) = Over(f, K[y]) + Over(f, rest)
      BY <3>2, OverDisjoint
    <3>5. Over(g, t) = g[y] + Over(g, t \ {y}) /\ g[y] = Over(f, K[y])
      BY <1>2, <1>4
    <3> QED
      BY <3>2, <3>3, <3>4, <3>5
  <2> QED
    BY <2>1, <2>2
<1>6. SUBSET C \subseteq S
  <2> HIDE DEF S
  <2> QED
    BY <1>5, SubsetInduct
<1> QED
  BY <1>3, <1>6 DEF g

--------------------------------------------------------------------------------
(* Sum of distances in a tree                                              *)
(*                                                                         *)
(* A graph with n nodes, all of them reached from 0, and n - 1 edges: for  *)
(* every node w, each other node has one edge to a nearer node, and these  *)
(* are all the edges.  So a call reaches its own node and, apart from each *)
(* other, what its children reach; the sums of a traversal are sums over   *)
(* what is reached; and along an edge every distance changes by one.       *)

\* The arguments of a call: a tree on nodes 0, ..., n - 1.
IsTree == nodes \in Nat \ {0} /\ edges \in Trees(nodes)

\* What a tree of the arguments is: n nodes, n - 1 edges between two of them,
\* all reached from 0.
LEMMA TreeShape ==
    ASSUME IsTree
    PROVE  /\ nodes \in Nat /\ nodes > 0
           /\ 0 \in Nodes /\ \A v \in Nodes : v \in Nat
           /\ IsFiniteSet(Nodes) /\ Cardinality(Nodes) = nodes
           /\ IsFiniteSet(edges) /\ Cardinality(edges) = nodes - 1
           /\ \A e \in edges : \E a, b \in Nodes : a # b /\ e = {a, b}
           /\ \A a, b : {a, b} \in edges => a \in Nodes /\ b \in Nodes /\ a # b
           /\ Ball(0, edges)[nodes] = Nodes
<1>1. nodes \in Nat /\ nodes > 0 /\ 0 \in Nodes /\ \A v \in Nodes : v \in Nat
  BY DEF IsTree, Nodes
<1>2. IsFiniteSet(Nodes) /\ Cardinality(Nodes) = nodes
  BY <1>1, FS_Interval DEF Nodes
<1>3. /\ edges \in SUBSET kSubset(2, Nodes) /\ Cardinality(edges) = nodes - 1
      /\ Ball(0, edges)[nodes] = Nodes
  <2>1. edges \in kSubset(nodes - 1, kSubset(2, Nodes)) /\ Ball(0, edges)[nodes] = Nodes
    BY DEF IsTree, Trees, Nodes
  <2>2. \A k, S : kSubset(k, S) = {s \in SUBSET S : Cardinality(s) = k}
    BY DEF kSubset
  <2> QED
    BY <2>1, <2>2
<1>4. \A e \in edges : e \in SUBSET Nodes /\ Cardinality(e) = 2
  BY <1>3 DEF kSubset
<1>5. IsFiniteSet(edges)
  <2>1. edges \in SUBSET (SUBSET Nodes)
    BY <1>4
  <2> QED
    BY <1>2, <2>1, FS_SUBSET, FS_Subset
<1>6. ASSUME NEW e \in edges PROVE \E a, b \in Nodes : a # b /\ e = {a, b}
  <2>1. IsFiniteSet(e) /\ Cardinality(e) = 2
    BY <1>2, <1>4, FS_Subset
  <2>2. e # {}
    BY <2>1, FS_EmptySet
  <2>3. PICK a \in e : TRUE
    BY <2>2
  <2>4. IsFiniteSet(e \ {a}) /\ Cardinality(e \ {a}) = 1
    BY <2>1, FS_RemoveElement
  <2>5. PICK b : e \ {a} = {b}
    BY <2>4, FS_Singleton
  <2>6. a # b /\ e = {a, b} /\ a \in Nodes /\ b \in Nodes
    BY <1>4, <2>5
  <2> QED
    BY <2>6
<1>7. ASSUME NEW a, NEW b, {a, b} \in edges PROVE a \in Nodes /\ b \in Nodes /\ a # b
  <2>1. {a, b} \in SUBSET Nodes /\ Cardinality({a, b}) = 2
    BY <1>4, <1>7
  <2>2. a # b
    <3> SUFFICES ASSUME a = b PROVE FALSE
      OBVIOUS
    <3>1. {a, b} = {a}
      OBVIOUS
    <3>2. Cardinality({a}) = 1
      BY FS_Singleton
    <3> QED
      BY <2>1, <3>1, <3>2
  <2> QED
    BY <2>1, <2>2
<1> QED
  BY <1>1, <1>2, <1>3, <1>5, <1>6, <1>7

\* One step of a ball: the nodes of the set and their neighbours.
LEMMA Grows ==
    ASSUME IsTree, NEW S \in SUBSET Nodes
    PROVE  /\ Grown(S, edges) \in SUBSET Nodes
           /\ \A v : v \in Grown(S, edges) <=> v \in S \/ \E x \in S : {x, v} \in edges
<1>1. /\ \A e \in edges : \E a, b \in Nodes : a # b /\ e = {a, b}
      /\ \A a, b : {a, b} \in edges => a \in Nodes /\ b \in Nodes /\ a # b
  BY TreeShape
<1>2. ASSUME NEW v, v \in Grown(S, edges), v \notin S PROVE \E x \in S : {x, v} \in edges
  <2>1. PICK e \in edges : v \in e /\ e \cap S # {}
    BY <1>2 DEF Grown
  <2>2. PICK x \in e : x \in S
    BY <2>1
  <2>3. PICK a, b \in Nodes : e = {a, b}
    BY <1>1
  <2>4. e = {x, v}
    BY <1>2, <2>1, <2>2, <2>3
  <2> QED
    BY <2>2, <2>4
<1>3. ASSUME NEW v, NEW x \in S, {x, v} \in edges PROVE v \in Grown(S, edges)
  <2>1. v \in {x, v} /\ {x, v} \cap S # {}
    OBVIOUS
  <2> QED
    BY <1>3, <2>1 DEF Grown
<1>4. \A v : v \in S => v \in Grown(S, edges)
  BY DEF Grown
<1>5. \A v : v \in Grown(S, edges) <=> v \in S \/ \E x \in S : {x, v} \in edges
  BY <1>2, <1>3, <1>4
<1>6. Grown(S, edges) \subseteq Nodes
  BY <1>1, <1>5
<1> QED
  BY <1>5, <1>6

\* Within(u, v, d): d edges reach v from u.
Within(u, v, d) == v \in Ball(u, edges)[d]

\* The ball of every radius exists and grows by one step.
LEMMA BallSteps ==
    ASSUME IsTree, NEW u \in Nodes
    PROVE  /\ Ball(u, edges)[0] = {u}
           /\ \A d \in Nat : /\ Ball(u, edges)[d] \in SUBSET Nodes
                             /\ Ball(u, edges)[d + 1] = Grown(Ball(u, edges)[d], edges)
<1> DEFINE T == SUBSET Nodes
           step == [S \in T |-> Grown(S, edges)]
           B == CHOOSE B : B = [d \in Nat |-> IF d = 0 THEN {u} ELSE Grown(B[d - 1], edges)]
<1>1. step \in [T -> T] /\ {u} \in T /\ \A S \in T : step[S] = Grown(S, edges)
  BY Grows
<1>2. PICK f \in [Nat -> T] : f[0] = {u} /\ \A n \in Nat : f[n + 1] = step[f[n]]
  <2> HIDE DEF step, T
  <2>1. ASSUME NEW a \in T, NEW s \in [T -> T]
        PROVE  \E f \in [Nat -> T] : f[0] = a /\ \A n \in Nat : f[n + 1] = s[f[n]]
    BY Iterates
  <2> QED
    BY <1>1, <2>1, Zenon
<1>3. f = [d \in Nat |-> IF d = 0 THEN {u} ELSE Grown(f[d - 1], edges)]
  <2>1. ASSUME NEW d \in Nat, d # 0 PROVE f[d] = Grown(f[d - 1], edges)
    <3>1. d - 1 \in Nat /\ (d - 1) + 1 = d
      BY <2>1
    <3>2. f[d] = step[f[d - 1]] /\ f[d - 1] \in T
      BY <1>2, <3>1
    <3> QED
      BY <1>1, <3>2
  <2> QED
    BY <1>2, <2>1
<1>4. B = [d \in Nat |-> IF d = 0 THEN {u} ELSE Grown(B[d - 1], edges)]
  BY <1>3
<1>5. Ball(u, edges) = B
  BY DEF Ball
<1> HIDE DEF B
<1>6. B[0] = {u} /\ \A d \in Nat : B[d + 1] = Grown(B[d], edges)
  <2>1. B[0] = {u}
    BY <1>4
  <2>2. ASSUME NEW d \in Nat PROVE B[d + 1] = Grown(B[d], edges)
    <3>1. d + 1 \in Nat /\ d + 1 # 0 /\ (d + 1) - 1 = d
      OBVIOUS
    <3>2. B[d + 1] = Grown(B[(d + 1) - 1], edges)
      BY <1>4, <3>1
    <3> QED
      BY <3>1, <3>2
  <2> QED
    BY <2>1, <2>2
<1> DEFINE S == {d \in Nat : B[d] \in T}
<1>7. Nat \subseteq S
  <2>1. 0 \in S
    BY <1>1, <1>6
  <2>2. ASSUME NEW d \in Nat, d \in S PROVE d + 1 \in S
    BY <1>6, <2>2, Grows
  <2> HIDE DEF S
  <2> QED
    BY <2>1, <2>2, Induct
<1> QED
  BY <1>5, <1>6, <1>7

\* The same, said of one node.
LEMMA WithinSteps ==
    ASSUME IsTree, NEW u \in Nodes
    PROVE  /\ \A v : Within(u, v, 0) <=> v = u
           /\ \A d \in Nat : \A v :
                 /\ Within(u, v, d) => v \in Nodes
                 /\ Within(u, v, d + 1) <=>
                       Within(u, v, d) \/ \E x \in Nodes : Within(u, x, d) /\ {x, v} \in edges
<1>1. \A v : Within(u, v, 0) <=> v = u
  BY BallSteps DEF Within
<1>2. ASSUME NEW d \in Nat, NEW v
      PROVE  /\ Within(u, v, d) => v \in Nodes
             /\ Within(u, v, d + 1) <=>
                   Within(u, v, d) \/ \E x \in Nodes : Within(u, x, d) /\ {x, v} \in edges
  <2> DEFINE S == Ball(u, edges)[d]
  <2>1. S \in SUBSET Nodes /\ Ball(u, edges)[d + 1] = Grown(S, edges)
    BY BallSteps
  <2> HIDE DEF S
  <2>2. v \in Grown(S, edges) <=> v \in S \/ \E x \in S : {x, v} \in edges
    BY <2>1, Grows
  <2> QED
    BY <2>1, <2>2 DEF Within, S
<1> QED
  BY <1>1, <1>2

\* More edges reach no less.
LEMMA WithinMore ==
    ASSUME IsTree, NEW u \in Nodes, NEW v, NEW d \in Nat, NEW k \in Nat, d <= k, Within(u, v, d)
    PROVE  Within(u, v, k)
<1> DEFINE S == {n \in Nat : Within(u, v, d + n)}
<1>1. 0 \in S
  OBVIOUS
<1>2. ASSUME NEW n \in Nat, n \in S PROVE n + 1 \in S
  <2>1. d + n \in Nat /\ (d + n) + 1 = d + (n + 1)
    OBVIOUS
  <2>2. Within(u, v, (d + n) + 1)
    BY <1>2, <2>1, WithinSteps
  <2> QED
    BY <2>1, <2>2
<1>3. Nat \subseteq S
  <2> HIDE DEF S
  <2> QED
    BY <1>1, <1>2, Induct
<1>4. k - d \in Nat /\ d + (k - d) = k
  OBVIOUS
<1> QED
  BY <1>3, <1>4

\* A way may begin with an edge.
LEMMA EdgeFirst ==
    ASSUME IsTree, NEW u \in Nodes, NEW x \in Nodes, {u, x} \in edges,
           NEW d \in Nat, NEW v, Within(x, v, d)
    PROVE  Within(u, v, d + 1)
<1> DEFINE S == {n \in Nat : \A y : Within(x, y, n) => Within(u, y, n + 1)}
<1>1. 0 \in S
  <2> SUFFICES ASSUME NEW y, Within(x, y, 0) PROVE Within(u, y, 0 + 1)
    OBVIOUS
  <2>1. y = x /\ Within(u, u, 0)
    BY WithinSteps
  <2>2. 0 \in Nat
    OBVIOUS
  <2> QED
    BY <2>1, <2>2, WithinSteps
<1>2. ASSUME NEW n \in Nat, n \in S PROVE n + 1 \in S
  <2> SUFFICES ASSUME NEW y, Within(x, y, n + 1) PROVE Within(u, y, (n + 1) + 1)
    OBVIOUS
  <2>1. n + 1 \in Nat
    OBVIOUS
  <2>2. CASE Within(x, y, n)
    BY <1>2, <2>1, <2>2, WithinSteps
  <2>3. CASE \E z \in Nodes : Within(x, z, n) /\ {z, y} \in edges
    <3>1. PICK z \in Nodes : Within(x, z, n) /\ {z, y} \in edges
      BY <2>3
    <3>2. Within(u, z, n + 1)
      BY <1>2, <3>1
    <3> QED
      BY <2>1, <3>1, <3>2, WithinSteps
  <2>4. Within(x, y, n) \/ \E z \in Nodes : Within(x, z, n) /\ {z, y} \in edges
    BY WithinSteps
  <2> QED
    BY <2>2, <2>3, <2>4
<1>3. Nat \subseteq S
  <2> HIDE DEF S
  <2> QED
    BY <1>1, <1>2, Induct
<1> QED
  BY <1>3

\* Ways can be gone back.
LEMMA WithinSymmetric ==
    ASSUME IsTree, NEW u \in Nodes, NEW v \in Nodes, NEW d \in Nat, Within(u, v, d)
    PROVE  Within(v, u, d)
<1> DEFINE S == {n \in Nat : \A y \in Nodes : Within(u, y, n) => Within(y, u, n)}
<1>1. 0 \in S
  BY WithinSteps
<1>2. ASSUME NEW n \in Nat, n \in S PROVE n + 1 \in S
  <2> SUFFICES ASSUME NEW y \in Nodes, Within(u, y, n + 1) PROVE Within(y, u, n + 1)
    OBVIOUS
  <2>1. CASE Within(u, y, n)
    BY <1>2, <2>1, WithinSteps
  <2>2. CASE \E z \in Nodes : Within(u, z, n) /\ {z, y} \in edges
    <3>1. PICK z \in Nodes : Within(u, z, n) /\ {z, y} \in edges
      BY <2>2
    <3>2. Within(z, u, n) /\ {y, z} = {z, y}
      BY <1>2, <3>1
    <3> QED
      BY <3>1, <3>2, EdgeFirst
  <2> QED
    BY <2>1, <2>2, WithinSteps
<1>3. Nat \subseteq S
  <2> HIDE DEF S
  <2> QED
    BY <1>1, <1>2, Induct
<1> QED
  BY <1>3

\* A set of nodes that no edge leaves has all of them or none.
LEMMA Connected ==
    ASSUME IsTree, NEW X \in SUBSET Nodes, X # {},
           \A a \in X : \A b : {a, b} \in edges => b \in X
    PROVE  X = Nodes
<1>1. PICK r \in Nodes : nodes \in Nat /\ \A v \in Nodes : Within(r, v, nodes)
  BY TreeShape DEF Within
<1>2. r \in X
  <2> DEFINE S == {d \in Nat : \A v \in X : Within(r, v, d) => r \in X}
  <2>1. 0 \in S
    BY <1>1, WithinSteps
  <2>2. ASSUME NEW d \in Nat, d \in S PROVE d + 1 \in S
    <3> SUFFICES ASSUME NEW v \in X, Within(r, v, d + 1) PROVE r \in X
      OBVIOUS
    <3>1. CASE Within(r, v, d)
      BY <2>2, <3>1
    <3>2. CASE \E x \in Nodes : Within(r, x, d) /\ {x, v} \in edges
      <4>1. PICK x \in Nodes : Within(r, x, d) /\ {x, v} \in edges
        BY <3>2
      <4>2. {v, x} = {x, v}
        OBVIOUS
      <4>3. x \in X
        BY <4>1, <4>2
      <4> QED
        BY <2>2, <4>1, <4>3
    <3>3. Within(r, v, d) \/ \E x \in Nodes : Within(r, x, d) /\ {x, v} \in edges
      BY WithinSteps
    <3> QED
      BY <3>1, <3>2, <3>3
  <2>3. Nat \subseteq S
    <3> HIDE DEF S
    <3> QED
      BY <2>1, <2>2, Induct
  <2>4. PICK v \in X : v \in Nodes
    OBVIOUS
  <2> QED
    BY <1>1, <2>3, <2>4
<1>3. ASSUME NEW v \in Nodes PROVE v \in X
  <2> DEFINE S == {d \in Nat : \A y \in Nodes : Within(r, y, d) => y \in X}
  <2>1. 0 \in S
    BY <1>1, <1>2, WithinSteps
  <2>2. ASSUME NEW d \in Nat, d \in S PROVE d + 1 \in S
    <3> SUFFICES ASSUME NEW y \in Nodes, Within(r, y, d + 1) PROVE y \in X
      OBVIOUS
    <3>1. CASE Within(r, y, d)
      BY <2>2, <3>1
    <3>2. CASE \E x \in Nodes : Within(r, x, d) /\ {x, y} \in edges
      BY <2>2, <3>2
    <3>3. Within(r, y, d) \/ \E x \in Nodes : Within(r, x, d) /\ {x, y} \in edges
      BY WithinSteps
    <3> QED
      BY <3>1, <3>2, <3>3
  <2>3. Nat \subseteq S
    <3> HIDE DEF S
    <3> QED
      BY <2>1, <2>2, Induct
  <2> QED
    BY <1>1, <2>3
<1> QED
  BY <1>3

\* n edges reach every node of n from every other.
LEMMA AllWithin ==
    ASSUME IsTree, NEW w \in Nodes, NEW v \in Nodes
    PROVE  Within(w, v, nodes)
<1> DEFINE B == Ball(w, edges)
           S == {d \in Nat : B[d] = Nodes \/ Cardinality(B[d]) >= d + 1}
<1>1. /\ nodes \in Nat /\ IsFiniteSet(Nodes) /\ Cardinality(Nodes) = nodes
      /\ B[0] = {w} /\ \A d \in Nat : B[d] \in SUBSET Nodes
  BY TreeShape, BallSteps
<1>2. ASSUME NEW d \in Nat PROVE IsFiniteSet(B[d]) /\ Cardinality(B[d]) \in Nat
  BY <1>1, FS_Subset, FS_CardinalityType
<1>3. 0 \in S
  <2>1. Cardinality(B[0]) = 1
    BY <1>1, FS_Singleton
  <2> QED
    BY <2>1
<1>4. ASSUME NEW d \in Nat, d \in S PROVE d + 1 \in S
  <2>1. \A x : x \in B[d + 1] <=> x \in B[d] \/ \E y \in Nodes : y \in B[d] /\ {y, x} \in edges
    BY WithinSteps DEF Within
  <2>2. w \in B[d]
    <3>1. Within(w, w, 0) /\ 0 <= d
      BY WithinSteps
    <3> QED
      BY <3>1, WithinMore DEF Within
  <2>3. d + 1 \in Nat /\ B[d + 1] \in SUBSET Nodes /\ B[d] \in SUBSET Nodes
    BY <1>1
  <2> HIDE DEF B
  <2>4. CASE B[d] = Nodes
    BY <2>1, <2>3, <2>4
  <2>5. CASE B[d] # Nodes
    <3>1. PICK a \in B[d] : \E b : {a, b} \in edges /\ b \notin B[d]
      BY <2>2, <2>3, <2>5, Connected
    <3>2. PICK b : {a, b} \in edges /\ b \notin B[d]
      BY <3>1
    <3>3. B[d] \cup {b} \in SUBSET B[d + 1]
      BY <2>1, <2>3, <3>2
    <3>4. Cardinality(B[d] \cup {b}) = Cardinality(B[d]) + 1
      BY <1>2, <3>2, FS_AddElement
    <3>5. IsFiniteSet(B[d + 1]) /\ Cardinality(B[d + 1]) \in Nat
      BY <1>2, <2>3
    <3>6. Cardinality(B[d] \cup {b}) <= Cardinality(B[d + 1])
      BY <3>3, <3>5, FS_Subset
    <3>7. Cardinality(B[d]) >= d + 1 /\ Cardinality(B[d]) \in Nat
      BY <1>2, <1>4, <2>5
    <3> QED
      BY <2>3, <3>4, <3>5, <3>6, <3>7
  <2> QED
    BY <2>4, <2>5
<1>5. nodes \in S
  <2> HIDE DEF S
  <2> QED
    BY <1>1, <1>3, <1>4, Induct
<1>6. Cardinality(B[nodes]) <= nodes /\ Cardinality(B[nodes]) \in Nat
  BY <1>1, <1>2, FS_Subset
<1>7. B[nodes] = Nodes
  BY <1>1, <1>5, <1>6
<1> QED
  BY <1>7 DEF Within

\* A set of numbers has a least one.
LEMMA LeastExists ==
    ASSUME NEW s \in SUBSET Nat, s # {}
    PROVE  \E n \in s : \A m \in s : n <= m
<1>1. \E n \in s : \A m \in s : <<m, n>> \notin OpToRel(<, Nat)
  <2>1. s \subseteq Nat
    OBVIOUS
  <2> QED
    BY <2>1, NatLessThanWellFounded, WFMin, Zenon
<1>2. PICK n \in s : \A m \in s : <<m, n>> \notin OpToRel(<, Nat)
  BY <1>1, Zenon
<1>3. \A m \in s : ~(m < n)
  BY <1>2, Zenon DEF OpToRel
<1>4. n \in Nat /\ \A m \in s : m \in Nat
  BY Zenon
<1>5. \A m \in s : n <= m
  BY <1>3, <1>4
<1> QED
  BY <1>5

\* Distance is the least number of edges, and there is one.
LEMMA DistanceIs ==
    ASSUME IsTree, NEW u \in Nodes, NEW v \in Nodes
    PROVE  /\ Distance(u, v) \in 0 .. nodes
           /\ \A d \in Nat : Within(u, v, d) <=> Distance(u, v) <= d
<1> DEFINE S == {d \in 0 .. nodes : v \in Ball(u, edges)[d]}
           D == Distance(u, v)
<1>1. nodes \in Nat /\ nodes \in S
  BY TreeShape, AllWithin DEF Within
<1>2. D = CHOOSE d \in S : \A k \in S : d <= k
  BY Zenon DEF Distance, Min
<1>3. \E d \in S : \A k \in S : d <= k
  <2>1. S \in SUBSET Nat /\ S # {}
    BY <1>1
  <2> HIDE DEF S
  <2> QED
    BY <2>1, LeastExists
<1>4. D \in S /\ \A k \in S : D <= k
  <2> HIDE DEF S, D
  <2> QED
    BY <1>2, <1>3, Zenon
<1> HIDE DEF D
<1>5. D \in 0 .. nodes /\ D \in Nat /\ Within(u, v, D)
  BY <1>1, <1>4 DEF Within
<1>6. ASSUME NEW d \in Nat PROVE Within(u, v, d) <=> D <= d
  <2>1. ASSUME D <= d PROVE Within(u, v, d)
    BY <1>5, <2>1, WithinMore
  <2>2. ASSUME Within(u, v, d) PROVE D <= d
    <3>1. CASE d <= nodes
      BY <1>1, <1>4, <2>2, <3>1 DEF Within
    <3>2. CASE d > nodes
      BY <1>1, <1>5, <3>2
    <3> QED
      BY <1>1, <3>1, <3>2
  <2> QED
    BY <2>1, <2>2
<1> QED
  BY <1>5, <1>6 DEF D

\* Distances are symmetric, 0 only at the node itself, change by one at most
\* along an edge, and every other node has a neighbour that is nearer.
LEMMA Metric ==
    ASSUME IsTree, NEW u \in Nodes
    PROVE  /\ \A v \in Nodes : /\ Distance(u, v) \in Nat /\ Distance(u, v) <= nodes
                               /\ Distance(u, v) = 0 <=> v = u
                               /\ Distance(v, u) = Distance(u, v)
           /\ \A a, b \in Nodes : {a, b} \in edges => Distance(u, b) <= Distance(u, a) + 1
           /\ \A v \in Nodes : v # u =>
                 \E x \in Nodes : {x, v} \in edges /\ Distance(u, v) = Distance(u, x) + 1
<1>0. nodes \in Nat
  BY TreeShape
<1>1. ASSUME NEW v \in Nodes
      PROVE  /\ Distance(u, v) \in Nat /\ Distance(u, v) <= nodes
             /\ \A d \in Nat : Within(u, v, d) <=> Distance(u, v) <= d
             /\ Within(u, v, Distance(u, v))
  <2>1. /\ Distance(u, v) \in Nat /\ Distance(u, v) <= nodes
        /\ \A d \in Nat : Within(u, v, d) <=> Distance(u, v) <= d
    BY <1>0, DistanceIs
  <2> QED
    BY <2>1
<1>2. ASSUME NEW v \in Nodes PROVE Distance(u, v) = 0 <=> v = u
  <2>1. Within(u, v, 0) <=> v = u
    BY WithinSteps
  <2>2. Within(u, v, 0) <=> Distance(u, v) <= 0
    BY <1>1
  <2> QED
    BY <1>1, <2>1, <2>2
<1>3. ASSUME NEW v \in Nodes PROVE Distance(v, u) = Distance(u, v)
  <2>1. /\ Distance(v, u) \in Nat
        /\ \A d \in Nat : Within(v, u, d) <=> Distance(v, u) <= d
    BY <1>0, DistanceIs
  <2>2. Within(v, u, Distance(u, v))
    BY <1>1, WithinSymmetric
  <2>3. Within(v, u, Distance(v, u))
    BY <2>1
  <2>4. Within(u, v, Distance(v, u))
    BY <2>1, <2>3, WithinSymmetric
  <2> QED
    BY <1>1, <2>1, <2>2, <2>4
<1>4. ASSUME NEW a \in Nodes, NEW b \in Nodes, {a, b} \in edges
      PROVE  Distance(u, b) <= Distance(u, a) + 1
  <2>1. Distance(u, a) \in Nat /\ Within(u, a, Distance(u, a))
    BY <1>1
  <2>2. Within(u, b, Distance(u, a) + 1)
    BY <1>4, <2>1, WithinSteps
  <2> QED
    BY <1>1, <2>1, <2>2
<1>5. ASSUME NEW v \in Nodes, v # u
      PROVE  \E x \in Nodes : {x, v} \in edges /\ Distance(u, v) = Distance(u, x) + 1
  <2>1. PICK d \in Nat : Distance(u, v) = d + 1
    <3>1. Distance(u, v) \in Nat /\ Distance(u, v) # 0
      BY <1>1, <1>2, <1>5
    <3>2. Distance(u, v) - 1 \in Nat /\ Distance(u, v) = (Distance(u, v) - 1) + 1
      BY <3>1
    <3> QED
      BY <3>2
  <2>2. Within(u, v, d + 1) /\ ~Within(u, v, d)
    <3>1. Within(u, v, d) => d + 1 <= d
      BY <1>1, <2>1
    <3>2. Within(u, v, d + 1)
      BY <1>1, <2>1
    <3> QED
      BY <3>1, <3>2
  <2>3. PICK x \in Nodes : Within(u, x, d) /\ {x, v} \in edges
    BY <2>2, WithinSteps
  <2>4. Distance(u, x) \in Nat /\ Distance(u, x) <= d /\ Distance(u, v) <= Distance(u, x) + 1
    BY <1>1, <1>4, <2>3
  <2>5. Distance(u, v) = Distance(u, x) + 1
    BY <2>1, <2>4
  <2> QED
    BY <2>3, <2>5
<1> QED
  BY <1>1, <1>2, <1>3, <1>4, <1>5

\* Seen from any node w, an edge is a step towards w or away from it, and a node
\* has one neighbour at most that is nearer to w: there are as many edges as
\* nodes other than w, and each of these has an edge to a nearer node.
LEMMA EdgeSteps ==
    ASSUME IsTree, NEW w \in Nodes
    PROVE  /\ \A a, b \in Nodes : {a, b} \in edges =>
                 \/ Distance(w, a) = Distance(w, b) + 1
                 \/ Distance(w, b) = Distance(w, a) + 1
           /\ \A v, x, y \in Nodes :
                 /\ {x, v} \in edges /\ Distance(w, x) < Distance(w, v)
                 /\ {y, v} \in edges /\ Distance(w, y) < Distance(w, v)
                 => x = y
<1> DEFINE rest == Nodes \ {w}
           Near(v) == CHOOSE x \in Nodes : {x, v} \in edges /\ Distance(w, v) = Distance(w, x) + 1
           edge == [v \in rest |-> {Near(v), v}]
<1>1. /\ \A v \in Nodes : Distance(w, v) \in Nat
      /\ \A v \in rest :
            \E x \in Nodes : {x, v} \in edges /\ Distance(w, v) = Distance(w, x) + 1
  BY Metric
<1>2. ASSUME NEW v \in rest
      PROVE  /\ Near(v) \in Nodes /\ {Near(v), v} \in edges
             /\ Distance(w, v) = Distance(w, Near(v)) + 1
  BY <1>1
<1> HIDE DEF Near
<1>3. edge \in Injection(rest, edges)
  <2>1. edge \in [rest -> edges]
    BY <1>2
  <2>2. ASSUME NEW a \in rest, NEW b \in rest, edge[a] = edge[b] PROVE a = b
    <3>1. {Near(a), a} = {Near(b), b}
      BY <2>2
    <3>2. a # b => a = Near(b) /\ b = Near(a)
      BY <3>1
    <3>3. /\ Distance(w, a) = Distance(w, Near(a)) + 1
          /\ Distance(w, b) = Distance(w, Near(b)) + 1
          /\ Distance(w, a) \in Nat /\ Distance(w, b) \in Nat
      BY <1>1, <1>2
    <3> QED
      BY <3>2, <3>3
  <2> HIDE DEF edge
  <2> QED
    BY <2>1, <2>2 DEF Injection, IsInjective
<1>4. edge \in Surjection(rest, edges)
  <2>1. IsFiniteSet(edges) /\ Cardinality(rest) = Cardinality(edges)
    BY TreeShape, FS_RemoveElement
  <2> HIDE DEF edge, rest
  <2> QED
    BY <1>3, <2>1, FS_Injection
<1>5. \A e \in edges : \E v \in rest : e = {Near(v), v}
  BY <1>4 DEF Surjection
<1>6. ASSUME NEW a \in Nodes, NEW b \in Nodes, {a, b} \in edges
      PROVE  \/ a \in rest /\ b = Near(a)
             \/ b \in rest /\ a = Near(b)
  <2>1. PICK v \in rest : {a, b} = {Near(v), v}
    BY <1>5, <1>6
  <2>2. (a = v /\ b = Near(v)) \/ (b = v /\ a = Near(v))
    <3>1. a # b
      BY <1>6, TreeShape
    <3> QED
      BY <2>1, <3>1
  <2> QED
    BY <2>2
<1>7. ASSUME NEW a \in Nodes, NEW b \in Nodes, {a, b} \in edges
      PROVE  \/ Distance(w, a) = Distance(w, b) + 1
             \/ Distance(w, b) = Distance(w, a) + 1
  BY <1>2, <1>6, <1>7
<1>8. ASSUME NEW v \in Nodes, NEW x \in Nodes, {x, v} \in edges, Distance(w, x) < Distance(w, v)
      PROVE  x = Near(v)
  <2>1. CASE x \in rest /\ v = Near(x)
    <3>1. Distance(w, x) = Distance(w, v) + 1 /\ Distance(w, v) \in Nat /\ Distance(w, x) \in Nat
      BY <1>1, <1>2, <2>1
    <3> QED
      BY <1>8, <3>1
  <2> QED
    BY <1>6, <1>8, <2>1
<1> HIDE DEF rest
<1> QED
  BY <1>7, <1>8

--------------------------------------------------------------------------------
(* The calls of a traversal                                                *)

\* The calls on a node and the neighbour that is nearer to node 0.
AllCalls ==
    {<<0, -1>>} \cup
    {c \in Nodes \X Nodes : {c[2], c[1]} \in edges /\ Distance(0, c[2]) < Distance(0, c[1])}

\* The nodes on c's side of the edge to its parent.
Reached(c) == {w \in Nodes : c[2] \in Nodes => Distance(w, c[1]) < Distance(w, c[2])}

\* A call is on node 0 without a parent, or on a node and its neighbour that is
\* nearer to 0.
LEMMA CallShape ==
    ASSUME IsTree, NEW c \in AllCalls
    PROVE  /\ c = <<c[1], c[2]>> /\ c[1] \in Nodes
           /\ \/ c[1] = 0 /\ c[2] = -1 /\ c[2] \notin Nodes
              \/ /\ c[1] # 0 /\ c[2] \in Nodes /\ {c[2], c[1]} \in edges
                 /\ Distance(0, c[1]) = Distance(0, c[2]) + 1
<1>1. 0 \in Nodes /\ -1 \notin Nodes
  BY TreeShape
<1>2. CASE c = <<0, -1>>
  BY <1>1, <1>2
<1>3. CASE /\ c \in Nodes \X Nodes /\ {c[2], c[1]} \in edges
           /\ Distance(0, c[2]) < Distance(0, c[1])
  <2>1. c = <<c[1], c[2]>> /\ c[1] \in Nodes /\ c[2] \in Nodes
    BY <1>3
  <2>2. /\ Distance(0, c[1]) \in Nat /\ Distance(0, c[2]) \in Nat
        /\ Distance(0, c[1]) = 0 <=> c[1] = 0
    BY <1>1, <2>1, Metric
  <2>3. \/ Distance(0, c[1]) = Distance(0, c[2]) + 1
        \/ Distance(0, c[2]) = Distance(0, c[1]) + 1
    BY <1>1, <1>3, <2>1, EdgeSteps
  <2> QED
    BY <1>3, <2>1, <2>2, <2>3
<1> QED
  BY <1>2, <1>3 DEF AllCalls

\* Every node has one call.
LEMMA CallOfNode ==
    ASSUME IsTree
    PROVE  /\ \A u \in Nodes : \E c \in AllCalls : c[1] = u
           /\ \A c, d \in AllCalls : c[1] = d[1] => c = d
<1>1. ASSUME NEW u \in Nodes PROVE \E c \in AllCalls : c[1] = u
  <2>1. CASE u = 0
    <3>1. <<0, -1>> \in AllCalls /\ <<0, -1>>[1] = 0
      BY DEF AllCalls
    <3> QED
      BY <2>1, <3>1
  <2>2. CASE u # 0
    <3>1. 0 \in Nodes
      BY TreeShape
    <3>2. PICK x \in Nodes : {x, u} \in edges /\ Distance(0, u) = Distance(0, x) + 1
      BY <2>2, <3>1, Metric
    <3>3. Distance(0, x) \in Nat
      BY <3>1, Metric
    <3>4. <<u, x>> \in AllCalls
      BY <3>2, <3>3 DEF AllCalls
    <3> QED
      BY <3>4
  <2> QED
    BY <2>1, <2>2
<1>2. ASSUME NEW c \in AllCalls, NEW d \in AllCalls, c[1] = d[1] PROVE c = d
  <2>1. /\ c = <<c[1], c[2]>> /\ c[1] \in Nodes
        /\ \/ c[1] = 0 /\ c[2] = -1
           \/ /\ c[1] # 0 /\ c[2] \in Nodes /\ {c[2], c[1]} \in edges
              /\ Distance(0, c[1]) = Distance(0, c[2]) + 1
    BY CallShape
  <2>2. /\ d = <<d[1], d[2]>>
        /\ \/ d[1] = 0 /\ d[2] = -1
           \/ /\ d[1] # 0 /\ d[2] \in Nodes /\ {d[2], d[1]} \in edges
              /\ Distance(0, d[1]) = Distance(0, d[2]) + 1
    BY CallShape
  <2>3. 0 \in Nodes /\ \A v \in Nodes : Distance(0, v) \in Nat
    BY TreeShape, Metric
  <2>4. CASE c[1] # 0
    <3>1. Distance(0, c[2]) < Distance(0, c[1]) /\ Distance(0, d[2]) < Distance(0, c[1])
      BY <1>2, <2>1, <2>2, <2>3, <2>4
    <3>2. c[2] = d[2]
      BY <1>2, <2>1, <2>2, <2>3, <2>4, <3>1, EdgeSteps
    <3> QED
      BY <1>2, <2>1, <2>2, <3>2
  <2>5. CASE c[1] = 0
    BY <1>2, <2>1, <2>2, <2>5
  <2> QED
    BY <2>4, <2>5
<1> QED
  BY <1>1, <1>2

\* A call's children are calls, one edge farther from node 0.
LEMMA Children ==
    ASSUME IsTree, NEW c \in AllCalls, NEW b \in Child(c)
    PROVE  /\ b \in AllCalls /\ b[2] = c[1] /\ b[1] # c[2]
           /\ b[1] \in Nodes /\ {b[1], c[1]} \in edges
           /\ Distance(0, b[1]) = Distance(0, c[1]) + 1
<1>1. PICK v \in Nodes : b = <<v, c[1]>> /\ {c[1], v} \in edges /\ v # c[2]
  BY DEF Child, adj
<1>2. /\ c[1] \in Nodes
      /\ \/ c[1] = 0
         \/ /\ c[2] \in Nodes /\ {c[2], c[1]} \in edges
            /\ Distance(0, c[1]) = Distance(0, c[2]) + 1
  BY CallShape
<1>3. 0 \in Nodes /\ {v, c[1]} = {c[1], v}
  BY TreeShape
<1>4. /\ Distance(0, v) \in Nat /\ Distance(0, c[1]) \in Nat
      /\ c[1] = 0 => Distance(0, c[1]) = 0
      /\ c[2] \in Nodes => Distance(0, c[2]) \in Nat
  BY <1>2, <1>3, Metric
<1>5. Distance(0, v) = Distance(0, c[1]) + 1
  <2>1. \/ Distance(0, v) = Distance(0, c[1]) + 1
        \/ Distance(0, c[1]) = Distance(0, v) + 1
    BY <1>1, <1>2, <1>3, EdgeSteps
  <2> SUFFICES ASSUME Distance(0, c[1]) = Distance(0, v) + 1 PROVE FALSE
    BY <2>1
  <2>2. /\ c[2] \in Nodes /\ {c[2], c[1]} \in edges
        /\ Distance(0, c[2]) < Distance(0, c[1]) /\ Distance(0, v) < Distance(0, c[1])
    BY <1>2, <1>4
  <2>3. v = c[2]
    BY <1>1, <1>2, <1>3, <2>2, EdgeSteps
  <2> QED
    BY <1>1, <2>3
<1>6. b \in AllCalls
  <2>1. b \in Nodes \X Nodes /\ b[1] = v /\ b[2] = c[1]
    BY <1>1, <1>2
  <2> QED
    BY <1>1, <1>4, <1>5, <2>1 DEF AllCalls
<1> QED
  BY <1>1, <1>3, <1>5, <1>6

\* A call reaches its own node, and what its children reach, each node once.
LEMMA CallParts ==
    ASSUME IsTree, NEW c \in AllCalls
    PROVE  /\ IsFiniteSet(Child(c))
           /\ Reached(c) \in SUBSET Nodes
           /\ c[1] \in Reached(c)
           /\ Reached(c) \ {c[1]} = UNION {Reached(b) : b \in Child(c)}
           /\ \A b, d \in Child(c) : b # d => Reached(b) \cap Reached(d) = {}
           /\ \A b \in Child(c) :
                 /\ c[1] \notin Reached(b)
                 /\ \A w \in Reached(b) : Distance(c[1], w) = Distance(b[1], w) + 1
<1> DEFINE u == c[1]
           p == c[2]
<1>1. /\ u \in Nodes
      /\ p \in Nodes => {p, u} \in edges
  BY CallShape
<1>2. ASSUME NEW b \in Child(c)
      PROVE  /\ b = <<b[1], u>> /\ b[1] \in Nodes /\ b[1] # p /\ {b[1], u} \in edges
             /\ Reached(b) = {w \in Nodes : Distance(w, b[1]) < Distance(w, u)}
  <2>1. b \in AllCalls /\ b[2] = u /\ b[1] # p /\ b[1] \in Nodes /\ {b[1], u} \in edges
    BY Children
  <2>2. b = <<b[1], b[2]>>
    BY DEF Child
  <2> HIDE DEF u
  <2>3. Reached(b) = {w \in Nodes : Distance(w, b[1]) < Distance(w, u)}
    BY <1>1, <2>1 DEF Reached
  <2> QED
    BY <2>1, <2>2, <2>3
<1>3. ASSUME NEW v \in Nodes, {v, u} \in edges, v # p PROVE <<v, u>> \in Child(c)
  <2>1. {u, v} = {v, u} /\ u # v
    BY <1>3, TreeShape
  <2> QED
    BY <1>3, <2>1 DEF Child, adj
<1>4. ASSUME NEW w \in Nodes
      PROVE  /\ \A v \in Nodes : Distance(w, v) \in Nat
             /\ w # u => \E x \in Nodes : {x, u} \in edges /\ Distance(w, u) = Distance(w, x) + 1
             /\ w = u => Distance(w, u) = 0
             /\ \A x, y \in Nodes :
                   /\ {x, u} \in edges /\ Distance(w, x) < Distance(w, u)
                   /\ {y, u} \in edges /\ Distance(w, y) < Distance(w, u)
                   => x = y
             /\ \A x \in Nodes : {x, u} \in edges =>
                   \/ Distance(w, x) = Distance(w, u) + 1
                   \/ Distance(w, u) = Distance(w, x) + 1
  <2> HIDE DEF u
  <2>1. /\ \A v \in Nodes : Distance(w, v) \in Nat
        /\ w # u => \E x \in Nodes : {x, u} \in edges /\ Distance(w, u) = Distance(w, x) + 1
        /\ w = u => Distance(w, u) = 0
    BY <1>1, Metric
  <2> QED
    BY <1>1, <2>1, EdgeSteps
<1>5. IsFiniteSet(Child(c))
  <2>1. Child(c) \in SUBSET (Nodes \X Nodes)
    <3>1. ASSUME NEW b \in Child(c) PROVE b \in Nodes \X Nodes
      <4>1. b = <<b[1], u>> /\ b[1] \in Nodes /\ u \in Nodes
        BY <1>1, <1>2
      <4> HIDE DEF u
      <4> QED
        BY <4>1
    <3> QED
      BY <3>1
  <2> QED
    BY <2>1, TreeShape, FS_Product, FS_Subset
<1>6. u \in Reached(c)
  <2>1. p \in Nodes => Distance(u, p) \in Nat /\ Distance(u, p) # 0
    <3>1. p \in Nodes => p # u
      BY <1>1, TreeShape
    <3> HIDE DEF u, p
    <3> QED
      BY <1>1, <3>1, Metric
  <2>2. Distance(u, u) = 0
    BY <1>1, <1>4
  <2> QED
    BY <1>1, <2>1, <2>2 DEF Reached
<1>7. ASSUME NEW w \in Reached(c), w # u
      PROVE  \E b \in Child(c) : w \in Reached(b)
  <2>1. w \in Nodes /\ (p \in Nodes => Distance(w, u) < Distance(w, p))
    BY DEF Reached
  <2>2. PICK x \in Nodes : {x, u} \in edges /\ Distance(w, u) = Distance(w, x) + 1
    BY <1>4, <1>7, <2>1
  <2>3. /\ Distance(w, x) \in Nat /\ Distance(w, u) \in Nat
        /\ p \in Nodes => Distance(w, p) \in Nat
    BY <1>1, <1>4, <2>1
  <2>4. x # p /\ Distance(w, x) < Distance(w, u)
    BY <2>1, <2>2, <2>3
  <2>5. <<x, u>> \in Child(c) /\ <<x, u>>[1] = x
    BY <1>3, <2>2, <2>4
  <2>6. w \in Reached(<<x, u>>)
    BY <1>2, <2>1, <2>4, <2>5
  <2> QED
    BY <2>5, <2>6
<1>8. ASSUME NEW b \in Child(c), NEW w \in Reached(b)
      PROVE  /\ w \in Nodes /\ w # u /\ Distance(w, b[1]) < Distance(w, u)
             /\ Distance(w, u) = Distance(w, b[1]) + 1
             /\ w \in Reached(c)
  <2>1. w \in Nodes /\ Distance(w, b[1]) < Distance(w, u) /\ b[1] \in Nodes
        /\ {b[1], u} \in edges /\ b[1] # p
    BY <1>2
  <2>2. Distance(w, b[1]) \in Nat /\ Distance(w, u) \in Nat
    BY <1>1, <1>4, <2>1
  <2>3. w # u
    <3>1. w = u => Distance(w, u) = 0
      BY <1>4, <2>1
    <3> QED
      BY <2>1, <2>2, <3>1
  <2>4. Distance(w, u) = Distance(w, b[1]) + 1
    <3>1. \/ Distance(w, b[1]) = Distance(w, u) + 1
          \/ Distance(w, u) = Distance(w, b[1]) + 1
      BY <1>4, <2>1
    <3> QED
      BY <2>1, <2>2, <3>1
  <2>5. ASSUME p \in Nodes PROVE Distance(w, u) < Distance(w, p)
    <3>1. Distance(w, p) \in Nat
      BY <1>4, <2>1, <2>5
    <3>2. \/ Distance(w, p) = Distance(w, u) + 1
          \/ Distance(w, u) = Distance(w, p) + 1
      BY <1>1, <1>4, <2>1, <2>5
    <3>3. ~(Distance(w, p) < Distance(w, u))
      BY <1>1, <1>4, <2>1, <2>5
    <3> QED
      BY <2>2, <3>1, <3>2, <3>3
  <2>6. w \in Reached(c)
    BY <2>1, <2>5 DEF Reached
  <2> QED
    BY <2>1, <2>3, <2>4, <2>6
<1>9. Reached(c) \ {u} = UNION {Reached(b) : b \in Child(c)}
  <2> HIDE DEF u
  <2> QED
    BY <1>7, <1>8
<1>10. ASSUME NEW b \in Child(c), NEW d \in Child(c), NEW w \in Reached(b), w \in Reached(d)
       PROVE  b = d
  <2>1. b[1] = d[1]
    BY <1>2, <1>4, <1>8, <1>10
  <2> QED
    BY <1>2, <2>1
<1>11. ASSUME NEW b \in Child(c)
       PROVE  /\ u \notin Reached(b)
              /\ \A w \in Reached(b) : Distance(u, w) = Distance(b[1], w) + 1
  <2>1. u \notin Reached(b)
    BY <1>8
  <2>2. ASSUME NEW w \in Reached(b) PROVE Distance(u, w) = Distance(b[1], w) + 1
    <3>1. w \in Nodes /\ Distance(w, u) = Distance(w, b[1]) + 1 /\ b[1] \in Nodes
      BY <1>2, <1>8
    <3>2. Distance(u, w) = Distance(w, u) /\ Distance(b[1], w) = Distance(w, b[1])
      <4> HIDE DEF u
      <4> QED
        BY <1>1, <3>1, Metric
    <3> QED
      BY <3>1, <3>2
  <2> QED
    BY <2>1, <2>2
<1>12. Reached(c) \in SUBSET Nodes
  BY DEF Reached
<1>13. \A b, d \in Child(c) : b # d => Reached(b) \cap Reached(d) = {}
  BY <1>10
<1> QED
  BY <1>5, <1>6, <1>9, <1>11, <1>12, <1>13

\* The calls of every depth exist, and are calls.
LEMMA LevelSteps ==
    ASSUME IsTree
    PROVE  /\ Level[0] = {<<0, -1>>}
           /\ \A d \in Nat : /\ Level[d] \in SUBSET AllCalls
                             /\ Level[d + 1] = UNION {Child(c) : c \in Level[d]}
<1> DEFINE T == SUBSET AllCalls
           down == [S \in T |-> UNION {Child(c) : c \in S}]
           root == {<<0, -1>>}
           L == Level
<1>1. down \in [T -> T] /\ {<<0, -1>>} \in T /\ \A S \in T : down[S] = UNION {Child(c) : c \in S}
  <2>1. ASSUME NEW S \in T PROVE UNION {Child(c) : c \in S} \in T
    BY Children
  <2>2. <<0, -1>> \in AllCalls
    BY DEF AllCalls
  <2> HIDE DEF T
  <2>3. down \in [T -> T] /\ \A S \in T : down[S] = UNION {Child(c) : c \in S}
    BY <2>1
  <2> QED
    BY <2>2, <2>3 DEF T
<1>2. PICK f \in [Nat -> T] : f[0] = {<<0, -1>>} /\ \A n \in Nat : f[n + 1] = down[f[n]]
  <2>2. root \in T /\ down \in [T -> T]
    BY <1>1
  <2> HIDE DEF down, T, root
  <2>1. ASSUME NEW a \in T, NEW s \in [T -> T]
        PROVE  \E f \in [Nat -> T] : f[0] = a /\ \A n \in Nat : f[n + 1] = s[f[n]]
    BY Iterates
  <2>3. \E f \in [Nat -> T] : f[0] = root /\ \A n \in Nat : f[n + 1] = down[f[n]]
    BY <2>1, <2>2, Zenon
  <2> QED
    BY <2>3 DEF root
<1>3. f = [d \in Nat |-> IF d = 0 THEN {<<0, -1>>} ELSE UNION {Child(c) : c \in f[d - 1]}]
  <2>1. ASSUME NEW d \in Nat, d # 0 PROVE f[d] = UNION {Child(c) : c \in f[d - 1]}
    <3>1. d - 1 \in Nat /\ (d - 1) + 1 = d
      BY <2>1
    <3>2. f[d] = down[f[d - 1]] /\ f[d - 1] \in T
      BY <1>2, <3>1
    <3> HIDE DEF down, T
    <3> QED
      BY <1>1, <3>2
  <2> QED
    BY <1>2, <2>1
<1>4. L = [d \in Nat |-> IF d = 0 THEN {<<0, -1>>} ELSE UNION {Child(c) : c \in L[d - 1]}]
  BY <1>3 DEF Level
<1> HIDE DEF L
<1>6. L[0] = {<<0, -1>>} /\ \A d \in Nat : L[d + 1] = UNION {Child(c) : c \in L[d]}
  <2>1. L[0] = {<<0, -1>>}
    BY <1>4
  <2>2. ASSUME NEW d \in Nat PROVE L[d + 1] = UNION {Child(c) : c \in L[d]}
    <3>1. d + 1 \in Nat /\ d + 1 # 0 /\ (d + 1) - 1 = d
      OBVIOUS
    <3>2. L[d + 1] = UNION {Child(c) : c \in L[(d + 1) - 1]}
      BY <1>4, <3>1
    <3> QED
      BY <3>1, <3>2
  <2> QED
    BY <2>1, <2>2
<1> DEFINE S == {d \in Nat : L[d] \in T}
<1>7. Nat \subseteq S
  <2>1. 0 \in S
    BY <1>1, <1>6
  <2>2. ASSUME NEW d \in Nat, d \in S PROVE d + 1 \in S
    <3>1. \A c \in L[d] : Child(c) \subseteq AllCalls
      BY <2>2, Children
    <3> QED
      BY <1>6, <3>1
  <2> HIDE DEF S
  <2> QED
    BY <2>1, <2>2, Induct
<1> QED
  BY <1>6, <1>7 DEF L

\* A traversal from node 0 makes every call, at the depth of the call's node.
LEMMA CallsAre ==
    ASSUME IsTree
    PROVE  Calls = AllCalls
<1> DEFINE S == {d \in Nat : \A c \in AllCalls : Distance(0, c[1]) = d => c \in Level[d]}
<1>1. nodes \in Nat /\ 0 \in Nodes
  BY TreeShape
<1>2. \A v \in Nodes : /\ Distance(0, v) \in Nat /\ Distance(0, v) <= nodes
                       /\ Distance(0, v) = 0 <=> v = 0
  BY <1>1, Metric
<1>3. 0 \in S
  <2> SUFFICES ASSUME NEW c \in AllCalls, Distance(0, c[1]) = 0 PROVE c \in Level[0]
    OBVIOUS
  <2>1. c[1] \in Nodes
    BY CallShape
  <2>2. c[1] = 0
    BY <1>2, <2>1
  <2>3. c = <<0, -1>>
    BY <2>2, CallShape
  <2> QED
    BY <2>3, LevelSteps
<1>4. ASSUME NEW d \in Nat, d \in S PROVE d + 1 \in S
  <2> SUFFICES ASSUME NEW c \in AllCalls, Distance(0, c[1]) = d + 1 PROVE c \in Level[d + 1]
    OBVIOUS
  <2>1. c = <<c[1], c[2]>> /\ c[1] \in Nodes
    BY CallShape
  <2>2. c[1] # 0
    BY <1>1, <1>2
  <2>3. /\ c[2] \in Nodes /\ {c[2], c[1]} \in edges
        /\ Distance(0, c[1]) = Distance(0, c[2]) + 1
    BY <2>2, CallShape
  <2>4. Distance(0, c[2]) = d
    BY <1>2, <2>3
  <2>5. PICK a \in AllCalls : a[1] = c[2]
    BY <2>3, CallOfNode
  <2>6. a \in Level[d]
    BY <1>4, <2>4, <2>5
  <2>7. a[2] # c[1]
    <3> SUFFICES ASSUME a[2] = c[1] PROVE FALSE
      OBVIOUS
    <3>1. a[2] \in Nodes
      BY <2>1
    <3>2. Distance(0, a[1]) = Distance(0, a[2]) + 1
      BY <3>1, CallShape
    <3> QED
      BY <2>4, <2>5, <3>2
  <2>8. c[1] # c[2]
    BY <2>3, TreeShape
  <2>9. c \in Child(a)
    BY <2>1, <2>3, <2>5, <2>7, <2>8 DEF Child, adj
  <2> QED
    BY <2>6, <2>9, LevelSteps
<1>5. Nat \subseteq S
  <2> HIDE DEF S
  <2> QED
    BY <1>3, <1>4, Induct
<1>6. ASSUME NEW c \in AllCalls PROVE c \in Calls
  <2> DEFINE d == Distance(0, c[1])
  <2>1. d \in Nat /\ d \in 0 .. nodes
    <3>1. c[1] \in Nodes
      BY CallShape
    <3>2. d \in Nat /\ d <= nodes
      BY <1>2, <3>1
    <3> HIDE DEF d
    <3> QED
      BY <1>1, <3>2
  <2>2. \A k \in Nat : Distance(0, c[1]) = k => c \in Level[k]
    BY <1>5
  <2>3. c \in Level[d]
    BY <2>1, <2>2
  <2> HIDE DEF d
  <2> QED
    BY <2>1, <2>3, Zenon DEF Calls
<1>7. ASSUME NEW c \in Calls PROVE c \in AllCalls
  <2>1. PICK d \in 0 .. nodes : c \in Level[d]
    BY DEF Calls
  <2>2. d \in Nat
    BY <1>1
  <2> QED
    BY <2>1, <2>2, LevelSteps
<1> QED
  BY <1>6, <1>7

--------------------------------------------------------------------------------
(* What the calls add up                                                   *)

\* The distances from u, one for every node.
From(u) == [w \in Nodes |-> Distance(u, w)]

\* Distances are numbers.
LEMMA FromType ==
    ASSUME IsTree, NEW u \in Nodes
    PROVE  From(u) \in [Nodes -> Nat] /\ \A w \in Nodes : From(u)[w] = Distance(u, w)
<1>1. \A w \in Nodes : Distance(u, w) \in Nat
  BY Metric
<1> QED
  BY <1>1 DEF From

\* A sum over what a call reaches, from the sums over what its children reach.
LEMMA ChildSum ==
    ASSUME IsTree, NEW c \in AllCalls, NEW f \in [Nodes -> Nat]
    PROVE  /\ SumFunction([b \in Child(c) |-> Over(f, Reached(b))])
                 = Over(f, Reached(c) \ {c[1]})
           /\ Over(f, Reached(c)) = f[c[1]] + Over(f, Reached(c) \ {c[1]})
<1> DEFINE C == Child(c)
           K == [b \in C |-> Reached(b)]
<1>1. /\ IsFiniteSet(C) /\ Reached(c) \in SUBSET Nodes /\ c[1] \in Reached(c)
      /\ Reached(c) \ {c[1]} = UNION {Reached(b) : b \in C}
      /\ \A b, d \in C : b # d => Reached(b) \cap Reached(d) = {}
  BY CallParts
<1>2. IsFiniteSet(Nodes)
  BY TreeShape
<1>3. /\ K \in [C -> SUBSET Nodes]
      /\ \A b \in C : K[b] = Reached(b)
      /\ \A b, d \in C : b # d => K[b] \cap K[d] = {}
  <2>1. \A b \in C : Reached(b) \in SUBSET Nodes
    BY DEF Reached
  <2> HIDE DEF C
  <2> QED
    BY <1>1, <2>1
<1>4. UNION {K[b] : b \in C} = Reached(c) \ {c[1]}
  <2> HIDE DEF C, K
  <2> QED
    BY <1>1, <1>3
<1>5. [b \in C |-> Over(f, Reached(b))] = [b \in C |-> Over(f, K[b])]
  <2> HIDE DEF C, K
  <2> QED
    BY <1>3
<1>6. SumFunction([b \in C |-> Over(f, K[b])]) = Over(f, UNION {K[b] : b \in C})
  <2> HIDE DEF C, K
  <2> QED
    BY <1>1, <1>2, <1>3, OverUnion
<1>7. Over(f, Reached(c)) = f[c[1]] + Over(f, Reached(c) \ {c[1]})
  BY <1>1, <1>2, OverSteps
<1> QED
  BY <1>4, <1>5, <1>6, <1>7

\* A call reaches a node more than its children do.
LEMMA Sizes ==
    ASSUME IsTree, NEW c \in AllCalls
    PROVE  /\ Cardinality(Reached(c)) \in Nat /\ Cardinality(Reached(c)) > 0
           /\ Cardinality(Reached(c)) = 1 + Cardinality(Reached(c) \ {c[1]})
           /\ \A b \in Child(c) : Cardinality(Reached(b)) < Cardinality(Reached(c))
<1> DEFINE R == Reached(c)
           rest == Reached(c) \ {c[1]}
<1>1. /\ R \in SUBSET Nodes /\ c[1] \in R
      /\ rest = UNION {Reached(b) : b \in Child(c)}
  BY CallParts
<1>2. IsFiniteSet(Nodes)
  BY TreeShape
<1>3. Cardinality(R) \in Nat /\ IsFiniteSet(rest) /\ Cardinality(rest) \in Nat
  BY <1>1, <1>2, Finite
<1>4. Cardinality(rest) = Cardinality(R) - 1
  <2> HIDE DEF R
  <2>1. \A x \in R : Cardinality(R \ {x}) = Cardinality(R) - 1
    BY <1>1, <1>2, Smaller
  <2> QED
    BY <1>1, <2>1 DEF R
<1>5. ASSUME NEW b \in Child(c)
      PROVE  Cardinality(Reached(b)) \in Nat /\ Cardinality(Reached(b)) <= Cardinality(rest)
  <2>1. Reached(b) \in SUBSET rest
    BY <1>1
  <2> HIDE DEF rest
  <2> QED
    BY <1>3, <2>1, Finite
<1> HIDE DEF R, rest
<1>6. /\ Cardinality(R) > 0 /\ Cardinality(R) = 1 + Cardinality(rest)
      /\ \A b \in Child(c) : Cardinality(Reached(b)) < Cardinality(R)
  BY <1>3, <1>4, <1>5
<1> QED
  BY <1>3, <1>6 DEF R, rest

\* Two ways of computing a call from its children that agree at every call.
LEMMA Agree ==
    ASSUME IsTree, NEW f, NEW g,
           \A c \in AllCalls : (\A b \in Child(c) : f[b] = g[b]) => f[c] = g[c]
    PROVE  \A c \in AllCalls : f[c] = g[c]
<1> DEFINE S == {n \in Nat : \A c \in AllCalls : Cardinality(Reached(c)) <= n => f[c] = g[c]}
<1>1. 0 \in S
  <2>1. \A c \in AllCalls : ~(Cardinality(Reached(c)) <= 0)
    <3> TAKE c \in AllCalls
    <3>1. Cardinality(Reached(c)) \in Nat /\ Cardinality(Reached(c)) > 0
      BY Sizes
    <3> QED
      BY <3>1
  <2> QED
    BY <2>1
<1>2. ASSUME NEW n \in Nat, n \in S PROVE n + 1 \in S
  <2> SUFFICES ASSUME NEW c \in AllCalls, Cardinality(Reached(c)) <= n + 1 PROVE f[c] = g[c]
    OBVIOUS
  <2>1. ASSUME NEW b \in Child(c) PROVE f[b] = g[b]
    <3>1. b \in AllCalls
      BY Children
    <3>2. /\ Cardinality(Reached(c)) \in Nat /\ Cardinality(Reached(b)) \in Nat
          /\ Cardinality(Reached(b)) < Cardinality(Reached(c))
      BY <3>1, Sizes
    <3>3. Cardinality(Reached(b)) <= n
      BY <3>2
    <3> QED
      BY <1>2, <3>1, <3>3
  <2> QED
    BY <2>1
<1>3. Nat \subseteq S
  <2> HIDE DEF S
  <2> QED
    BY <1>1, <1>2, Induct
<1> QED
  <2> TAKE c \in AllCalls
  <2>1. Cardinality(Reached(c)) \in Nat
    BY Sizes
  <2>2. \A n \in Nat : Cardinality(Reached(c)) <= n => f[c] = g[c]
    BY <1>3
  <2> QED
    BY <2>1, <2>2

\* subtreeSize counts the nodes that the call reaches.
LEMMA SizeIs ==
    ASSUME IsTree
    PROVE  /\ DOMAIN size = AllCalls
           /\ \A c \in AllCalls : size[c] = Cardinality(Reached(c))
<1> DEFINE w == [c \in Calls |-> Cardinality(Reached(c))]
           ones == [x \in Nodes |-> 1]
<1>1. Calls = AllCalls
  BY CallsAre
<1>2. ASSUME NEW c \in AllCalls
      PROVE  w[c] = 1 + SumFunction([b \in Child(c) |-> w[b]])
  <2>1. ones \in [Nodes -> Nat]
    OBVIOUS
  <2>2. IsFiniteSet(Nodes)
    BY TreeShape
  <2>3. /\ \A b \in Child(c) : b \in AllCalls /\ Reached(b) \in SUBSET Nodes
        /\ Reached(c) \ {c[1]} \in SUBSET Nodes
    BY Children DEF Reached
  <2>4. \A A \in SUBSET Nodes : Over(ones, A) = Cardinality(A)
    BY <2>2, OverOnes
  <2>5. [b \in Child(c) |-> w[b]] = [b \in Child(c) |-> Over(ones, Reached(b))]
    <3> HIDE DEF ones
    <3> QED
      BY <1>1, <2>3, <2>4
  <2>6. SumFunction([b \in Child(c) |-> Over(ones, Reached(b))]) = Over(ones, Reached(c) \ {c[1]})
    <3> HIDE DEF ones
    <3> QED
      BY <2>1, ChildSum
  <2>7. Over(ones, Reached(c) \ {c[1]}) = Cardinality(Reached(c) \ {c[1]})
    <3> HIDE DEF ones
    <3> QED
      BY <2>3, <2>4
  <2>8. Cardinality(Reached(c)) = 1 + Cardinality(Reached(c) \ {c[1]})
    BY Sizes
  <2>9. w[c] = Cardinality(Reached(c))
    BY <1>1
  <2> HIDE DEF w, ones
  <2> QED
    BY <2>5, <2>6, <2>7, <2>8, <2>9
<1>3. w = [c \in Calls |-> 1 + SumFunction([b \in Child(c) |-> w[b]])]
  <2>1. \A c \in Calls : w[c] = 1 + SumFunction([b \in Child(c) |-> w[b]])
    BY <1>1, <1>2
  <2>2. w = [c \in Calls |-> w[c]]
    OBVIOUS
  <2> HIDE DEF w
  <2> QED
    BY <2>1, <2>2, Zenon
<1>4. size = [c \in Calls |-> 1 + SumFunction([b \in Child(c) |-> size[b]])]
  <2> HIDE DEF w
  <2> QED
    BY <1>3, Zenon DEF size
<1>5. ASSUME NEW c \in AllCalls, \A b \in Child(c) : size[b] = w[b] PROVE size[c] = w[c]
  <2>1. [b \in Child(c) |-> size[b]] = [b \in Child(c) |-> w[b]]
    <3> HIDE DEF w
    <3> QED
      BY <1>5
  <2>2. size[c] = 1 + SumFunction([b \in Child(c) |-> size[b]])
    BY <1>1, <1>4, Zenon
  <2> HIDE DEF w
  <2> QED
    BY <1>2, <2>1, <2>2
<1>6. \A c \in AllCalls : size[c] = w[c]
  <2> HIDE DEF w
  <2> QED
    BY <1>5, Agree
<1>7. DOMAIN size = AllCalls
  BY <1>1, <1>4, Zenon
<1> QED
  BY <1>1, <1>6, <1>7

\* What a call returns is the sum of the distances from its node to those it
\* reaches.
LEMMA SumIs ==
    ASSUME IsTree
    PROVE  \A c \in AllCalls : sumOfChildDist[c] = Over(From(c[1]), Reached(c))
<1> DEFINE w == [c \in Calls |-> Over(From(c[1]), Reached(c))]
<1>1. Calls = AllCalls
  BY CallsAre
<1>2. ASSUME NEW c \in AllCalls
      PROVE  w[c] = SumFunction([b \in Child(c) |-> w[b] + size[b]])
  <2>1. /\ IsFiniteSet(Nodes) /\ c[1] \in Nodes
        /\ From(c[1]) \in [Nodes -> Nat]
        /\ \A x \in Nodes : From(c[1])[x] = Distance(c[1], x)
    BY TreeShape, CallShape, FromType
  <2>2. ASSUME NEW b \in Child(c) PROVE w[b] + size[b] = Over(From(c[1]), Reached(b))
    <3>1. b \in AllCalls /\ b[1] \in Nodes /\ Reached(b) \in SUBSET Nodes
      BY Children DEF Reached
    <3>2. /\ From(b[1]) \in [Nodes -> Nat]
          /\ \A x \in Nodes : From(b[1])[x] = Distance(b[1], x)
      BY <3>1, FromType
    <3>3. \A x \in Reached(b) : From(c[1])[x] = From(b[1])[x] + 1
      <4>1. \A x \in Reached(b) : Distance(c[1], x) = Distance(b[1], x) + 1
        BY CallParts
      <4> QED
        BY <2>1, <3>1, <3>2, <4>1
    <3>4. Over(From(c[1]), Reached(b)) = Over(From(b[1]), Reached(b)) + Cardinality(Reached(b))
      BY <2>1, <3>1, <3>2, <3>3, OverPlus
    <3>5. w[b] = Over(From(b[1]), Reached(b)) /\ size[b] = Cardinality(Reached(b))
      BY <1>1, <3>1, SizeIs
    <3> HIDE DEF w
    <3> QED
      BY <3>4, <3>5
  <2>3. [b \in Child(c) |-> w[b] + size[b]] = [b \in Child(c) |-> Over(From(c[1]), Reached(b))]
    <3> HIDE DEF w
    <3> QED
      BY <2>2
  <2>4. /\ SumFunction([b \in Child(c) |-> Over(From(c[1]), Reached(b))])
              = Over(From(c[1]), Reached(c) \ {c[1]})
        /\ Over(From(c[1]), Reached(c))
              = From(c[1])[c[1]] + Over(From(c[1]), Reached(c) \ {c[1]})
    BY <2>1, ChildSum
  <2>5. From(c[1])[c[1]] = 0 /\ Over(From(c[1]), Reached(c) \ {c[1]}) \in Nat
    <3>1. Distance(c[1], c[1]) = 0
      BY <2>1, Metric
    <3>2. Reached(c) \ {c[1]} \in SUBSET Nodes
      BY DEF Reached
    <3> QED
      BY <2>1, <3>1, <3>2, OverSteps
  <2>6. w[c] = Over(From(c[1]), Reached(c))
    BY <1>1
  <2> HIDE DEF w
  <2> QED
    BY <2>3, <2>4, <2>5, <2>6
<1>3. w = [c \in Calls |-> SumFunction([b \in Child(c) |-> w[b] + size[b]])]
  <2>1. \A c \in Calls : w[c] = SumFunction([b \in Child(c) |-> w[b] + size[b]])
    BY <1>1, <1>2
  <2>2. w = [c \in Calls |-> w[c]]
    OBVIOUS
  <2> HIDE DEF w
  <2> QED
    BY <2>1, <2>2, Zenon
<1>4. sumOfChildDist
         = [c \in Calls |-> SumFunction([b \in Child(c) |-> sumOfChildDist[b] + size[b]])]
  <2> HIDE DEF w
  <2> QED
    BY <1>3, Zenon DEF sumOfChildDist
<1>5. ASSUME NEW c \in AllCalls, \A b \in Child(c) : sumOfChildDist[b] = w[b]
      PROVE  sumOfChildDist[c] = w[c]
  <2>1. [b \in Child(c) |-> sumOfChildDist[b] + size[b]] = [b \in Child(c) |-> w[b] + size[b]]
    <3> HIDE DEF w
    <3> QED
      BY <1>5
  <2>2. sumOfChildDist[c] = SumFunction([b \in Child(c) |-> sumOfChildDist[b] + size[b]])
    BY <1>1, <1>4, Zenon
  <2> HIDE DEF w
  <2> QED
    BY <1>2, <2>1, <2>2
<1>6. \A c \in AllCalls : sumOfChildDist[c] = w[c]
  <2> HIDE DEF w
  <2> QED
    BY <1>5, Agree
<1> QED
  BY <1>1, <1>6

\* Moving the root along an edge brings the nodes behind it one nearer and takes
\* all others one farther.
LEMMA Reroot ==
    ASSUME IsTree, NEW c \in AllCalls, c[2] \in Nodes
    PROVE  Over(From(c[1]), Nodes)
              = Over(From(c[2]), Nodes) + (nodes - Cardinality(Reached(c))) - Cardinality(Reached(c))
<1> DEFINE u == c[1]
           p == c[2]
           A == Reached(c)
           B == Nodes \ Reached(c)
<1>1. /\ u \in Nodes /\ p \in Nodes /\ {u, p} \in edges
      /\ A = {w \in Nodes : Distance(w, u) < Distance(w, p)}
  <2>1. u \in Nodes /\ {p, u} \in edges /\ {u, p} = {p, u}
    BY CallShape
  <2> QED
    BY <2>1 DEF Reached
<1>2. ASSUME NEW w \in Nodes
      PROVE  /\ Distance(u, w) \in Nat /\ Distance(p, w) \in Nat
             /\ w \in A <=> Distance(u, w) < Distance(p, w)
             /\ \/ Distance(u, w) = Distance(p, w) + 1
                \/ Distance(p, w) = Distance(u, w) + 1
  <2> HIDE DEF u, p, A
  <2>1. Distance(w, u) = Distance(u, w) /\ Distance(w, p) = Distance(p, w)
    BY <1>1, Metric
  <2>2. Distance(u, w) \in Nat /\ Distance(p, w) \in Nat
    BY <1>1, Metric
  <2>3. \/ Distance(w, u) = Distance(w, p) + 1
        \/ Distance(w, p) = Distance(w, u) + 1
    BY <1>1, EdgeSteps
  <2>4. w \in A <=> Distance(w, u) < Distance(w, p)
    BY <1>1
  <2> QED
    BY <2>1, <2>2, <2>3, <2>4
<1>3. /\ From(u) \in [Nodes -> Nat] /\ \A w \in Nodes : From(u)[w] = Distance(u, w)
      /\ From(p) \in [Nodes -> Nat] /\ \A w \in Nodes : From(p)[w] = Distance(p, w)
  <2> HIDE DEF u, p
  <2> QED
    BY <1>1, FromType
<1>4. /\ A \in SUBSET Nodes /\ B \in SUBSET Nodes /\ A \cap B = {} /\ A \cup B = Nodes
  BY DEF Reached
<1>5. IsFiniteSet(Nodes) /\ Cardinality(Nodes) = nodes /\ nodes \in Nat
  BY TreeShape
<1>6. /\ Cardinality(A) \in Nat
      /\ Cardinality(B) = nodes - Cardinality(A)
  <2>1. IsFiniteSet(A) /\ IsFiniteSet(B) /\ Cardinality(A) \in Nat /\ Cardinality(B) \in Nat
    <3> HIDE DEF A, B
    <3> QED
      BY <1>4, <1>5, Finite
  <2>2. Cardinality(A \cup B) = Cardinality(A) + Cardinality(B)
    <3> HIDE DEF A, B
    <3> QED
      BY <1>4, <2>1, FS_Union, FS_EmptySet
  <2> HIDE DEF A, B
  <2> QED
    BY <1>4, <1>5, <2>1, <2>2
<1> HIDE DEF u, p, A, B
<1>7. Over(From(p), A) = Over(From(u), A) + Cardinality(A)
  <2>1. \A w \in A : From(p)[w] = From(u)[w] + 1
    BY <1>2, <1>3, <1>4
  <2> QED
    BY <1>3, <1>4, <1>5, <2>1, OverPlus
<1>8. Over(From(u), B) = Over(From(p), B) + Cardinality(B)
  <2>1. \A w \in B : w \notin A
    BY <1>4
  <2>2. \A w \in B : From(u)[w] = From(p)[w] + 1
    BY <1>2, <1>3, <1>4, <2>1
  <2> QED
    BY <1>3, <1>4, <1>5, <2>2, OverPlus
<1>9. /\ Over(From(u), Nodes) = Over(From(u), A) + Over(From(u), B)
      /\ Over(From(p), Nodes) = Over(From(p), A) + Over(From(p), B)
  <2>1. \A f \in [Nodes -> Nat] : Over(f, A \cup B) = Over(f, A) + Over(f, B)
    BY <1>4, <1>5, OverDisjoint
  <2> QED
    BY <1>3, <1>4, <2>1
<1>10. /\ Over(From(u), A) \in Nat /\ Over(From(u), B) \in Nat
       /\ Over(From(p), A) \in Nat /\ Over(From(p), B) \in Nat
  BY <1>3, <1>4, <1>5, OverSteps
<1>11. Over(From(u), Nodes) = Over(From(p), Nodes) + (nodes - Cardinality(A)) - Cardinality(A)
  BY <1>5, <1>6, <1>7, <1>8, <1>9, <1>10
<1> QED
  BY <1>11 DEF u, p, A

\* Nothing about the tree changes while its nodes and edges stay.
LEMMA SameTree ==
    ASSUME nodes' = nodes, edges' = edges
    PROVE  /\ Nodes' = Nodes /\ IsTree' = IsTree /\ AllCalls' = AllCalls
           /\ \A c : Reached(c)' = Reached(c)
           /\ \A u, v : Distance(u, v)' = Distance(u, v)
<1>1. Nodes' = Nodes
  BY DEF Nodes
<1>2. ASSUME NEW u, NEW v PROVE Distance(u, v)' = Distance(u, v)
  BY DEF Distance
<1>3. IsTree' = IsTree
  BY DEF IsTree
<1>4. AllCalls' = AllCalls
  BY <1>1, <1>2 DEF AllCalls
<1>5. \A c : Reached(c)' = Reached(c)
  BY <1>1, <1>2 DEF Reached
<1> QED
  BY <1>1, <1>2, <1>3, <1>4, <1>5

\* What every state of the program keeps: the argument is a tree, the counted
\* subtrees are what the calls reach, and the answers are sums of distances.
TreeInv ==
    /\ IsTree
    /\ DOMAIN ans \subseteq Nodes
    /\ DOMAIN ans # {} => \A c \in AllCalls : subtreeSize[c[1]] = Cardinality(Reached(c))
    /\ AnswersAreDistances

\* The sum in AnswersAreDistances, as a sum over all nodes.
LEMMA AnswerIs ==
    ASSUME NEW u
    PROVE  SumFunction([v \in Nodes |-> Distance(u, v)]) = Over(From(u), Nodes)
<1>1. [v \in Nodes |-> Distance(u, v)] = [v \in Nodes |-> From(u)[v]]
  BY DEF From
<1> QED
  BY <1>1 DEF Over

\* The invariant holds at the start.
LEMMA TreeInvInit == TreeInit => TreeInv
<1> SUFFICES ASSUME TreeInit PROVE TreeInv
  OBVIOUS
<1>1. DOMAIN ans = {}
  BY DEF TreeInit
<1>2. IsTree
  BY SumOfDistancesAssumption DEF TreeInit, IsTree
<1> QED
  BY <1>1, <1>2 DEF TreeInv, AnswersAreDistances

\* Both traversals keep the invariant.
LEMMA TreeInvNext == TreeInv /\ [TreeNext]_treeVars => TreeInv'
<1> SUFFICES ASSUME TreeInv, [TreeNext]_treeVars PROVE TreeInv'
  OBVIOUS
<1> USE DEF TreeInv
<1>1. CASE dfsCountAndSum
  <2>1. /\ nodes' = nodes /\ edges' = edges
        /\ subtreeSize' = [u \in Nodes |-> size[CHOOSE c \in Calls : c[1] = u]]
        /\ ans' = [u \in {0} |-> sumOfChildDist[<<0, -1>>]]
    BY <1>1 DEF dfsCountAndSum
  <2>2. DOMAIN ans' = {0} /\ 0 \in Nodes
    BY <2>1, TreeShape
  <2>3. ASSUME NEW c \in AllCalls PROVE subtreeSize'[c[1]] = Cardinality(Reached(c))
    <3>1. c[1] \in Nodes
      BY CallShape
    <3>2. Calls = AllCalls
      BY CallsAre
    <3>3. (CHOOSE d \in Calls : d[1] = c[1]) = c
      BY <3>2, CallOfNode
    <3>4. subtreeSize'[c[1]] = size[CHOOSE d \in Calls : d[1] = c[1]]
      BY <2>1, <3>1
    <3> QED
      BY <3>3, <3>4, SizeIs
  <2>4. ans'[0] = SumFunction([v \in Nodes |-> Distance(0, v)])
    <3> DEFINE root == <<0, -1>>
    <3>1. root \in AllCalls /\ root[1] = 0
      BY DEF AllCalls
    <3>2. Reached(root) = Nodes
      <4>1. root[2] \notin Nodes
        BY TreeShape
      <4> QED
        BY <4>1 DEF Reached
    <3>3. sumOfChildDist[root] = Over(From(root[1]), Reached(root))
      <4> HIDE DEF root
      <4> QED
        BY <3>1, SumIs
    <3>4. ans'[0] = sumOfChildDist[root]
      BY <2>1
    <3> HIDE DEF root
    <3> QED
      BY <3>1, <3>2, <3>3, <3>4, AnswerIs
  <2>5. AnswersAreDistances'
    BY <2>1, <2>2, <2>4, SameTree DEF AnswersAreDistances
  <2> QED
    BY <2>1, <2>2, <2>3, <2>5, SameTree
<1>2. ASSUME NEW u \in Nodes, NEW parent \in Nodes, dfsReroot(u, parent) PROVE TreeInv'
  <2>1. /\ nodes' = nodes /\ edges' = edges /\ subtreeSize' = subtreeSize
        /\ <<u, parent>> \in Calls /\ parent \in DOMAIN ans
        /\ ans' = [v \in DOMAIN ans \cup {u} |->
                      IF v = u THEN Rerooted(u, parent) ELSE ans[v]]
    BY <1>2 DEF dfsReroot
  <2>2. <<u, parent>> \in AllCalls
    BY <2>1, CallsAre
  <2> DEFINE c == <<u, parent>>
             size_u == Cardinality(Reached(c))
  <2>3. c[1] = u /\ c[2] = parent
    OBVIOUS
  <2>4. subtreeSize[u] = size_u
    <3>1. subtreeSize[c[1]] = Cardinality(Reached(c))
      BY <2>1, <2>2
    <3> QED
      BY <3>1
  <2>5. ans[parent] = Over(From(parent), Nodes)
    BY <2>1, AnswerIs DEF AnswersAreDistances
  <2>6. Over(From(u), Nodes) = Over(From(parent), Nodes) + (nodes - size_u) - size_u
    <3> HIDE DEF c
    <3>1. Over(From(c[1]), Nodes)
             = Over(From(c[2]), Nodes) + (nodes - Cardinality(Reached(c))) - Cardinality(Reached(c))
      BY <2>2, <2>3, Reroot DEF c
    <3> QED
      BY <2>3, <3>1
  <2>7. ans'[u] = Over(From(u), Nodes)
    <3>1. ans'[u] = Rerooted(u, parent)
      BY <2>1
    <3> HIDE DEF size_u
    <3> QED
      BY <2>4, <2>5, <2>6, <3>1 DEF Rerooted
  <2>8. DOMAIN ans' = DOMAIN ans \cup {u} /\ \A v \in DOMAIN ans : v # u => ans'[v] = ans[v]
    BY <2>1
  <2>9. AnswersAreDistances'
    <3>1. ASSUME NEW v \in DOMAIN ans'
          PROVE  ans'[v] = SumFunction([x \in Nodes |-> Distance(v, x)])
      BY <2>7, <2>8, <3>1, AnswerIs DEF AnswersAreDistances
    <3> QED
      BY <2>1, <3>1, SameTree DEF AnswersAreDistances
  <2> QED
    BY <2>1, <2>8, <2>9, SameTree
<1>3. CASE UNCHANGED treeVars
  <2>1. /\ nodes' = nodes /\ edges' = edges /\ subtreeSize' = subtreeSize /\ ans' = ans
    BY <1>3 DEF treeVars
  <2> QED
    BY <2>1, SameTree DEF AnswersAreDistances
<1> QED
  BY <1>1, <1>2, <1>3 DEF TreeNext

\* Every state of the program satisfies the invariant.
THEOREM TreeInvariant == TreeSpec => []TreeInv
<1> QED
  BY TreeInvInit, TreeInvNext, PTL DEF TreeSpec

\* For every tree, whatever order the second traversal takes: each entry that
\* dfsReroot writes is the sum of the node's distances to all nodes, although the
\* program adds distances up for node 0 alone.
THEOREM AnswersAreTheSums == TreeSpec => []AnswersAreDistances
<1>1. TreeInv => AnswersAreDistances
  BY DEF TreeInv
<1> QED
  BY <1>1, TreeInvariant, PTL

================================================================================

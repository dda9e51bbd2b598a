---------------------------- MODULE RepeatedSubarray ----------------------------
(***************************************************************************)
(* findLength(nums1, nums2) of dsa/maximum-length-of-repeated-subarray:    *)
(* the length of the longest block that occurs in both arrays.  arr[i][j]  *)
(* is filled from the ends of the arrays to their beginnings.  A step is   *)
(* one turn of the inner loop, or the end of a row.                        *)
(***************************************************************************)
EXTENDS Integers

CONSTANTS
    Values,      \* what the arrays hold
    MaxLength    \* the length of the arrays is at most this

ASSUME RepeatedSubarrayAssumption == MaxLength \in Nat

VARIABLES
    len1, len2,     \* len(nums1) and len(nums2)
    nums1, nums2,   \* the arguments, indexed from 0
    arr,            \* arr[i][j], for indices up to the lengths
    result,
    i, j            \* the loop variables

args  == <<len1, len2, nums1, nums2>>
vars  == <<len1, len2, nums1, nums2, arr, result, i, j>>

Init ==
    /\ len1 \in 0 .. MaxLength
    /\ len2 \in 0 .. MaxLength
    /\ nums1 \in [0 .. len1 - 1 -> Values]
    /\ nums2 \in [0 .. len2 - 1 -> Values]
    /\ arr = [a \in 0 .. len1 |-> [b \in 0 .. len2 |-> 0]]
    /\ result = 0
    /\ i = len1 - 1
    /\ j = len2 - 1

max(a, b) == IF a > b THEN a ELSE b

\* A slip: the block is carried on from the cell to the right, as if the row
\* above did not matter.
CellRight ==
    IF nums1[i] = nums2[j]
    THEN IF arr[i][j + 1] # 0 THEN arr[i][j + 1] + 1 ELSE 1
    ELSE 0

\* The cell of two equal elements is one more than its diagonal neighbour; other
\* cells keep their 0.
Cell ==
    IF nums1[i] = nums2[j]
    THEN IF arr[i + 1][j + 1] # 0 THEN arr[i + 1][j + 1] + 1 ELSE 1
    ELSE 0

Inner ==
    /\ i >= 0
    /\ j >= 0
    /\ arr' = [arr EXCEPT ![i][j] = Cell]
    /\ result' = max(result, Cell)
    /\ j' = j - 1
    /\ UNCHANGED <<args, i>>

\* A slip: the last column is left out.
OuterShort ==
    /\ i >= 0
    /\ j < 0
    /\ i' = i - 1
    /\ j' = len2 - 2
    /\ UNCHANGED <<args, arr, result>>

Outer ==
    /\ i >= 0
    /\ j < 0
    /\ i' = i - 1
    /\ j' = len2 - 1
    /\ UNCHANGED <<args, arr, result>>

Next == Inner \/ Outer

Spec == Init /\ [][Next]_vars

--------------------------------------------------------------------------------

\* The blocks of length k that begin at a and at b are equal.
Match(a, b, k) == \A d \in 0 .. k - 1 : nums1[a + d] = nums2[b + d]

\* k is the length of a block that occurs in both arrays.
Repeated(k) == \E a \in 0 .. len1 - k, b \in 0 .. len2 - k : Match(a, b, k)

\* The loops have passed cell a, b.
Filled(a, b) == a > i \/ (a = i /\ b > j)

\* While the loops run, every cell passed holds the length of the longest
\* common block that begins there: the blocks match, and they cannot be made
\* longer.  Cells not passed yet are 0.
CellsAreLongest ==
    /\ \A a \in 0 .. len1, b \in 0 .. len2 :
          Filled(a, b) =>
              /\ a + arr[a][b] <= len1
              /\ b + arr[a][b] <= len2
              /\ Match(a, b, arr[a][b])
              /\ a + arr[a][b] < len1 /\ b + arr[a][b] < len2 =>
                    nums1[a + arr[a][b]] # nums2[b + arr[a][b]]
    /\ \A a \in 0 .. len1, b \in 0 .. len2 : ~Filled(a, b) => arr[a][b] = 0

\* What is returned is the length of the longest block that occurs in both
\* arrays: some block of that length does, and none that is longer.
LongestRepeated ==
    i < 0 =>
        /\ Repeated(result)
        /\ \A k \in 0 .. len1 : Repeated(k) => k <= result

================================================================================

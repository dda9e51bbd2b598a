-------------------------------- MODULE GrayCode --------------------------------
(***************************************************************************)
(* grayCode(n) of dsa/gray-code: all numbers of n bits, in an order in     *)
(* which neighbours differ in one bit.  A step is one turn of the loop;    *)
(* the loop counter is the number of codes there are.                      *)
(***************************************************************************)
EXTENDS Integers, Sequences, FiniteSets, Functions

CONSTANT MaxBits   \* bound: the largest n

ASSUME GrayCodeAssumption == MaxBits \in Nat

VARIABLES
    bits,       \* the argument n
    grayCodes

grayVars == <<bits, grayCodes>>

\* 1 << n
Shifted[n \in Nat] == IF n = 0 THEN 1 ELSE 2 * Shifted[n - 1]

totalCodes == Shifted[bits]

\* Bit k of x, counted from the lowest.
Bit(x, k) == (x \div Shifted[k]) % 2

\* Exclusive or, of numbers with one bit more than n at most.
Xor(x, y) ==
    CHOOSE z \in 0 .. x + y :
        \A k \in 0 .. bits : Bit(z, k) = (Bit(x, k) + Bit(y, k)) % 2

GrayInit ==
    /\ bits \in 0 .. MaxBits
    /\ grayCodes = <<>>

\* A slip: i exclusive-or i << 1.
grayCodeValueLeft(i) == Xor(i, 2 * i)

\* i exclusive-or i >> 1.
grayCodeValue(i) == Xor(i, i \div 2)

Step ==
    /\ Len(grayCodes) < totalCodes
    /\ grayCodes' = Append(grayCodes, grayCodeValue(Len(grayCodes)))
    /\ UNCHANGED bits

GraySpec == GrayInit /\ [][Step]_grayVars

--------------------------------------------------------------------------------

OneBitApart(x, y) ==
    Cardinality({k \in 0 .. MaxBits : Bit(x, k) # Bit(y, k)}) = 1

\* Consecutive codes differ in exactly one bit and none comes twice; what is
\* returned holds every number of n bits, starts at 0, and its last code is one
\* bit from the first.
IsGraySequence ==
    /\ \A k \in 1 .. Len(grayCodes) - 1 : OneBitApart(grayCodes[k], grayCodes[k + 1])
    /\ IsInjective(grayCodes)
    /\ Len(grayCodes) = totalCodes =>
          /\ Range(grayCodes) = 0 .. totalCodes - 1
          /\ grayCodes[1] = 0
          /\ bits > 0 => OneBitApart(grayCodes[totalCodes], grayCodes[1])

================================================================================

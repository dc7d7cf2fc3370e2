-------------------------------- MODULE Ticks --------------------------------
(***************************************************************************)
(* The millisecond tick of the HAL, a 32-bit counter that wraps every 49.7 *)
(* days, and the arithmetic the code does on it.                           *)
(***************************************************************************)
EXTENDS Integers

CONSTANT M    \* the number of values of a uint32_t

ASSUME WordAssumption == M \in Nat /\ M > 0 /\ M % 2 = 0

VARIABLE tick   \* HAL_GetTick()

Words == 0 .. M - 1

\* Mutant of U: the sum is kept in a wider type.
UUnreduced(x) == x

\* A uint32_t expression, and its conversion to int32_t.
U(x) == x % M
Signed(w) == IF w < M \div 2 THEN w ELSE w - M

=============================================================================

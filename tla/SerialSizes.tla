---------------------------- MODULE SerialSizes ----------------------------
(***************************************************************************)
(* The size of a serial buffer, as tme_serial_buffer_init rounds it.       *)
(***************************************************************************)
EXTENDS Integers, Bitwise

RECURSIVE TopBit(_)
TopBit(n) == IF n & (n - 1) = 0 THEN n ELSE TopBit(n & (n - 1))

RoundUp(n) == IF n & (n - 1) = 0 THEN n ELSE 2 * TopBit(n)

(* The size that is used is the least power of two that is not below the   *)
(* size that was asked for.                                                *)
Rounded(n) == /\ RoundUp(n) >= n /\ RoundUp(n) & (RoundUp(n) - 1) = 0
              /\ RoundUp(n) < 2 * n

(* A pointer masked with such a size less one is what Wrap gives.          *)
Masked(n) == \A i \in 0 .. 2 * n : i & (RoundUp(n) - 1) = i % RoundUp(n)

ASSUME SizesRounded == \A n \in 1 .. 40 : Rounded(n) /\ Masked(n)
============================================================================

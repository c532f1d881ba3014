----------------------------- MODULE PowersOfTwo -----------------------------
(***************************************************************************)
(* 2^n, b^n and sums as recursive functions, so that their laws can be      *)
(* proved (Uint128Theorems): the shifts, the widths and the division loop   *)
(* of uint128 are stated with the first, the digits of numbers with the     *)
(* second, numbers of several words, of bits, and products that are added   *)
(* piece by piece with the third.                                           *)
(***************************************************************************)
EXTENDS Integers

Pow2[n \in Nat] == IF n = 0 THEN 1 ELSE 2 * Pow2[n - 1]

\* b^n
Power(b, n) ==
  LET upTo[k \in 0..n] == IF k = 0 THEN 1 ELSE b * upTo[k - 1]
  IN  upTo[n]

\* f[1] + ... + f[n]
Total(f, n) ==
  LET upTo[k \in 0..n] == IF k = 0 THEN 0 ELSE upTo[k - 1] + f[k]
  IN  upTo[n]
=============================================================================

-------------------------------- MODULE U256 --------------------------------
(* The unsigned integers that the contracts and the Rust crate compute in.  *)
EXTENDS Integers

CONSTANT U256Max    \* 2^256 - 1 in the source

ASSUME U256Assumption == U256Max \in Nat

Fits(n) == n \in 0 .. U256Max
=============================================================================

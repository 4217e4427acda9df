-------------------------------- MODULE Sums --------------------------------
(***************************************************************************)
(* Sums over finite sets, for the proofs: the sum of a function is the     *)
(* number of unit tokens <<x, 1>>, ..., <<x, f[x]>> its arguments own.     *)
(* FiniteSetsExt sums by recursion, which TLAPS cannot unfold for every    *)
(* set; a cardinality needs only the theorems of FiniteSetTheorems.        *)
(***************************************************************************)
EXTENDS Integers, FiniteSets

Tokens(f) == UNION {{x} \X (1..f[x]) : x \in DOMAIN f}

\* The sum of the positive values of f.
SumOf(f) == Cardinality(Tokens(f))
=============================================================================

-------------------------------- MODULE Cents --------------------------------
(***************************************************************************)
(* Sums of money.  An amount is a whole number of cents no larger than a   *)
(* PositiveIntegerField holds, and a sum is counted cent by cent: unlike a *)
(* fold, a cardinality is something the library's theorems on finite sets  *)
(* speak of.                                                               *)
(***************************************************************************)
EXTENDS Integers, FiniteSets

CONSTANT MaxCents

ASSUME CentsAssumption == MaxCents \in Nat

Amount == 1 .. MaxCents

CentsOf(S, f) == {c \in S \X Amount : c[2] <= f[c[1]]}

\* The sum of f over S, each f[x] a number no larger than MaxCents.
SumOf(S, f) == Cardinality(CentsOf(S, f))
=============================================================================

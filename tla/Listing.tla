-------------------------------- MODULE Listing --------------------------------
(***************************************************************************)
(* What a statement of the catalogue with ORDER BY returns.                *)
(***************************************************************************)
EXTENDS Naturals, FiniteSets

\* The elements of S, one before the other as the pairs of "before" say
OrderBy(S, before) ==
    CHOOSE l \in [1 .. Cardinality(S) -> S] : \A i, j \in DOMAIN l : i < j => <<l[i], l[j]>> \in before
===============================================================================

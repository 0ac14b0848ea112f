------------------------------- MODULE Lists --------------------------------
(***************************************************************************)
(* Subsequences and sums: what an iterator's `filter` and its running      *)
(* total are in src/send.rs, src/smtp.rs and src/autoconfig.rs.            *)
(*                                                                         *)
(* SelectSeq and the folds do the same; these are spelled out so that      *)
(* their properties can be proved.                                         *)
(***************************************************************************)
EXTENDS Naturals, Sequences, FiniteSets

\* The elements of s at the given places, in order.
Keep(s, places) ==
    [k \in 1 .. Cardinality(places) |->
        s[CHOOSE i \in places : Cardinality({j \in places : j <= i}) = k]]

SumOf(s) ==
    LET sum[n \in 0 .. Len(s)] == IF n = 0 THEN 0 ELSE sum[n - 1] + s[n]
    IN  sum[Len(s)]
=============================================================================

--------------------------- MODULE SequenceFilter ---------------------------
(***************************************************************************)
(* The elements of a sequence that are in a set, in their order: SelectSeq *)
(* with a set for its test, and as a recursive function, so that the       *)
(* proofs can tell what it yields.                                         *)
(***************************************************************************)
EXTENDS Integers, Sequences

Kept(s, S) ==
  LET kept[n \in 0 .. Len(s)] ==
        IF n = 0 THEN <<>>
        ELSE IF s[n] \in S THEN Append(kept[n - 1], s[n]) ELSE kept[n - 1]
  IN kept[Len(s)]
=============================================================================

------------------------------- MODULE Paths -------------------------------
(* A path is the sequence of its names. *)
EXTENDS Integers, Sequences

IsPrefix(s, p) == Len(s) <= Len(p) /\ SubSeq(p, 1, Len(s)) = s

Parent(p) == SubSeq(p, 1, Len(p) - 1)
Name(p) == p[Len(p)]

(* What is left of p below the directory s. *)
Suffix(s, p) == SubSeq(p, Len(s) + 1, Len(p))
=============================================================================

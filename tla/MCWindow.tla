------------------------------ MODULE MCWindow ------------------------------
(* Small instances of DraftWindow for TLC.  The pages are interchangeable. *)
EXTENDS DraftWindow, TLC

CONSTANTS p1, p2, p3, p4

Pages == {p1, p2, p3, p4}

Symmetry == Permutations(Page)
=============================================================================

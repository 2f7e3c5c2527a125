------------------------------ MODULE MCValues ------------------------------
(* Values for TLC: cells of memory are interchangeable.                    *)
EXTENDS Values, TLC

CellSymmetry == Permutations(Cells)
=============================================================================

-------------------------- MODULE MCCoverageMemory --------------------------
(* Two templates, three cells on a line, unevenly spaced, and a single one;  *)
(* every point is the centre of its cell.                                    *)
EXTENDS CoverageMemory, TLC

CONSTANTS A, B

Cells == 1..4
Points == Cells
TemplateOfCell == [c \in Cells |-> IF c <= 3 THEN A ELSE B]
CellOfPoint == [p \in Points |-> p]
CentreOfCell == [c \in Cells |-> c]
MiddleCell == (A :> 2) @@ (B :> 4)
Place == <<1, 2, 4, 8>>
CellDistance ==
    [c \in Cells |-> [d \in Cells |->
        IF Place[c] < Place[d] THEN Place[d] - Place[c] ELSE Place[c] - Place[d]]]

Symmetry == Permutations(Run)
=============================================================================

---------------------------- MODULE MCResearchLoop ----------------------------
(* Small instances of ResearchLoop for TLC. *)
EXTENDS ResearchLoop

CONSTANTS a1, a2, s1, s2, s3, tA, tB

OneAsset == <<a1>>
RevisitedAsset == <<a1, a1>>

\* s1 and s2 are parameterisations of one template, s3 is of another.
ByTemplate == [s \in Strategies |-> IF s = s3 THEN tB ELSE tA]

=============================================================================

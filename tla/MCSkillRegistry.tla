-------------------------- MODULE MCSkillRegistry --------------------------
(* A small instance of SkillRegistry.                                       *)
EXTENDS SkillRegistry, TLC

CONSTANTS s1, s2, s3, k1, k2, a1, a2, b1

MCSkillOf == [r \in {a1, a2, b1} |-> IF r = b1 THEN k2 ELSE k1]

SetSymmetry == Permutations(SetIds) \cup Permutations(Requests)
=============================================================================

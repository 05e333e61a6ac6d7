------------------------- MODULE MCSkillActivation -------------------------
(* A small instance of SkillActivation.                                    *)
EXTENDS SkillActivation, TLC

CONSTANTS k1, a1

MCSkillOf == [r \in {a1} |-> k1]
MCRequests == SetIds \X {"create", "discard", "activate"}

SetSymmetry == Permutations(SetIds)
=============================================================================
